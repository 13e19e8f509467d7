SPECIFICATION FairSpec
CONSTANTS
    Reservas = {r1}
    Mensagens = {m1, m2}
    Ids = {t1, t2}
    Trabalhadores = {w1, w2}
    Portas = {g1, g2}
    LimiteEntregas = 2
    MaxFalhas = 2
    Nada = Nada
INVARIANTS TypeOK EntradaUnica ConfirmadaTemIngresso AvisoUnico
PROPERTIES IngressoSai CumpreBilhetes
CHECK_DEADLOCK FALSE
