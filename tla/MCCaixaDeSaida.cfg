SPECIFICATION FairSpec
CONSTANTS
    Fatos <- MCFatos
    Servicos = {"catalogo", "estoque"}
    Lote = 2
    LoteFinal = 3
    MaxFalhas = 2
INVARIANTS TypeOK SobraContada
PROPERTIES TrocaSoPorAtraso FatoSai
CHECK_DEADLOCK FALSE
