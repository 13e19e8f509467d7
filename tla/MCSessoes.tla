----------------------------- MODULE MCSessoes -----------------------------
(* Instances of Sessoes for TLC. *)
EXTENDS Sessoes, TLC

Simetria == Permutations(Pedidos) \cup Permutations(Sessoes) \cup Permutations(Salas)
=============================================================================
