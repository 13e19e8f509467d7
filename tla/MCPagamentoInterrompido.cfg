SPECIFICATION SpecSemFalhas
CONSTANTS
    Reservas = {r1}
    Instancias = {i1}
    Prazo <- MCPrazo
    Lote = 1
    Horizonte = 1
    MaxQuedas = 1
    Nada = Nada
PROPERTY CobrancaTermina
CHECK_DEADLOCK FALSE
