SPECIFICATION Spec
CONSTANTS
    Pedidos = {w1, w2}
    Cinemas = {c1, c2}
    Salas = {a1, a2}
    Numeros = {0, 1, 2}
    Desenhos <- MCDesenhos
    Ausente = Ausente
INVARIANTS TypeOK NumeroUnico AnuncioDaSala AnuncioAceito ReenvioAceito
CHECK_DEADLOCK FALSE
SYMMETRY Simetria
