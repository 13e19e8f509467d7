----------------------------- MODULE MCEstoque -----------------------------
(* Instances of Estoque for TLC. *)
EXTENDS Estoque, TLC

CONSTANTS p1, p2, p3, s1, s2

MCSessaoDe == [p \in Poltronas |-> IF p = p3 THEN s2 ELSE s1]
MCInicios  == [s \in Sessoes |-> {0, 1}]

(* The requests are alike, and so are the seats of s1. *)
Simetria == Permutations(Reservas) \cup Permutations({p1, p2})
=============================================================================
