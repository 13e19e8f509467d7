SPECIFICATION Spec
CONSTANTS
    Fatos <- MCFatos
    Servicos = {"catalogo"}
    Lote = 2
    LoteFinal = 3
    MaxFalhas = 2
INVARIANT PublicadaChega
CHECK_DEADLOCK FALSE
