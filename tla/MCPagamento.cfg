SPECIFICATION Spec
CONSTANTS
    Reservas = {r1, r2}
    Instancias = {i1, i2}
    Prazo <- MCPrazo
    Lote = 1
    Horizonte = 1
    MaxQuedas = 2
    Nada = Nada
INVARIANTS TypeOK UmDebito FatoFiel MarcadoFoiPublicado
PROPERTY CumpreCobranca
SYMMETRY Simetria
CHECK_DEADLOCK FALSE
