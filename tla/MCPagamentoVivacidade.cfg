SPECIFICATION FairSpec
CONSTANTS
    Reservas = {r1, r2}
    Instancias = {i1}
    Prazo <- MCPrazo
    Lote = 1
    Horizonte = 1
    MaxQuedas = 2
    Nada = Nada
INVARIANT DebitoTemDono
PROPERTIES AnuncioSai EsperaTermina
CHECK_DEADLOCK FALSE
