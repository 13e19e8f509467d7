SPECIFICATION Spec
CONSTANTS
    Pedidos = {w1, w2}
    Sessoes = {s1, s2}
    Filmes = {f1}
    Salas = {a1, a2}
    SalaEstranha = a0
    Inicios = {0, 1}
    Duracoes = {0, 1, 2}
    StatusPedidos = {"AGENDADA", "CANCELADA"}
    Ausente = Ausente
INVARIANTS TypeOK ConflitoSoPorCorrida FatoDaSessao
PROPERTY SalaFixa
CHECK_DEADLOCK FALSE
SYMMETRY Simetria
