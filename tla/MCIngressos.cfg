SPECIFICATION FairIngressos
CONSTANTS
    Reservas = {r1, r2}
    Poltronas = {p1}
    Sessoes = {s1}
    SessaoDe <- MCSessaoDe
    Inicios <- MCInicios
    TTL = 1
    Lote = 1
    Limite = 1
    ComPrazo = FALSE
    Alteraveis = {s1}
    Horizonte = 1
    Nenhuma = Nenhuma
INVARIANTS VendaPaga BilheteTemLugar
PROPERTIES ReservaTermina SessaoCanceladaEsvazia CumpreEstoque
CHECK_DEADLOCK FALSE
