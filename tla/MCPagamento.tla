---------------------------- MODULE MCPagamento ----------------------------
(* Instances of Pagamento for TLC. *)
EXTENDS Pagamento, TLC

MCPrazo == [r \in Reservas |-> 1]

Simetria == Permutations(Reservas) \cup Permutations(Instancias)
=============================================================================
