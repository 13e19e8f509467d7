SPECIFICATION Spec
CONSTANTS
    Reservas = {r1}
    Instancias = {i1, i2}
    Prazo <- MCPrazo
    Lote = 1
    Horizonte = 1
    MaxQuedas = 0
    Nada = Nada
INVARIANT DebitoTemDono
CHECK_DEADLOCK FALSE
