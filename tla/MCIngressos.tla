---------------------------- MODULE MCIngressos ----------------------------
(* Instances of Ingressos for TLC. *)
EXTENDS Ingressos, TLC

MCSessaoDe == [p \in Poltronas |-> CHOOSE s \in Sessoes : TRUE]
MCInicios  == [s \in Sessoes |-> {0, 1}]
=============================================================================
