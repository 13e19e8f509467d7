SPECIFICATION Spec
CONSTANTS
    p1 = p1
    p2 = p2
    p3 = p3
    s1 = s1
    s2 = s2
    Reservas = {r1, r2}
    Poltronas = {p1, p2, p3}
    Sessoes = {s1, s2}
    SessaoDe <- MCSessaoDe
    Inicios <- MCInicios
    TTL = 1
    Lote = 1
    Limite = 2
    ComPrazo = TRUE
    Alteraveis = {s1}
    Horizonte = 0
    Nenhuma = Nenhuma
INVARIANTS TypeOK PosseExclusiva MapaFiel DesfechoTemCausa FatoDaReserva AssentosDaSessao
PROPERTIES EstadoFinalImutavel CumpreVenda
CHECK_DEADLOCK FALSE
SYMMETRY Simetria
