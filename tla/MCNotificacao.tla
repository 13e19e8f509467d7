--------------------------- MODULE MCNotificacao ---------------------------
(* Instances of Notificacao for TLC. *)
EXTENDS Notificacao, TLC
=============================================================================
