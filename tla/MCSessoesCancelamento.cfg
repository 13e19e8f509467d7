SPECIFICATION Spec
CONSTANTS
    Pedidos = {w1}
    Sessoes = {s1}
    Filmes = {f1}
    Salas = {a1}
    SalaEstranha = a0
    Inicios = {0}
    Duracoes = {1}
    StatusPedidos = {"AGENDADA", "CANCELADA"}
    Ausente = Ausente
PROPERTY CancelamentoAnunciado
CHECK_DEADLOCK FALSE
