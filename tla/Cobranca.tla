------------------------------ MODULE Cobranca ------------------------------
(***************************************************************************)
(* What the payment service promises of a reservation, without rows,       *)
(* sweeps, instances or falls: it is charged at most once, paid only if it *)
(* was charged, refused only if it was not, ends once, and what the other  *)
(* services hear is how it ended.  Pagamento implements it, and Ingressos  *)
(* composes it with the other services.                                    *)
(*                                                                         *)
(* A transaction that was cancelled may have been charged: two sweeps may  *)
(* treat one row, see the run pagamento_debito.                            *)
(***************************************************************************)
CONSTANT Reservas

VARIABLES
    situacao,   \* of the transaction of each reservation
    debitadas,  \* reservations the acquirer charged
    anuncios    \* outcomes the broker was given, by routing key

vars == <<situacao, debitadas, anuncios>>

Situacoes   == {"INEXISTENTE", "ABERTA", "PAGO", "RECUSADO", "CANCELADO", "PENDENTE_VERIFICACAO"}
Anunciaveis == {"PAGO", "RECUSADO", "CANCELADO"}

Init ==
    /\ situacao = [r \in Reservas |-> "INEXISTENTE"]
    /\ debitadas = {}
    /\ anuncios = {}

(* RegistrarIntencao: pagamento hears of the reservation. *)
Abrir(r) ==
    /\ situacao[r] = "INEXISTENTE"
    /\ situacao' = [situacao EXCEPT ![r] = "ABERTA"]
    /\ UNCHANGED <<debitadas, anuncios>>

(* Adquirente.Cobrar takes the money. *)
Debitar(r) ==
    /\ situacao[r] \in {"ABERTA", "CANCELADO"}
    /\ r \notin debitadas
    /\ debitadas' = debitadas \cup {r}
    /\ UNCHANGED <<situacao, anuncios>>

(* The outcomes a transaction may have, by whether it was charged; silence *)
(* of the acquirer is PENDENTE_VERIFICACAO.  An approval of what was not   *)
(* charged is a mutant.                                                    *)
QualquerDesfecho(r) == {"PAGO", "RECUSADO", "CANCELADO", "PENDENTE_VERIFICACAO"}
Desfechos(r) ==
    {"CANCELADO", "PENDENTE_VERIFICACAO", IF r \in debitadas THEN "PAGO" ELSE "RECUSADO"}

(* Finalizar: once. *)
Encerrar(r) ==
    /\ situacao[r] = "ABERTA"
    /\ \E s \in Desfechos(r) : situacao' = [situacao EXCEPT ![r] = s]
    /\ UNCHANGED <<debitadas, anuncios>>

(* CancelarEsperasVencidas: some waits end together. *)
Desistir(R) ==
    /\ \A r \in R : situacao[r] = "ABERTA"
    /\ situacao' = [r \in Reservas |-> IF r \in R THEN "CANCELADO" ELSE situacao[r]]
    /\ UNCHANGED <<debitadas, anuncios>>

Rota(s) == IF s = "PAGO" THEN "pagamento.sucesso" ELSE "pagamento.falhou"

(* Anunciar: the outcome, perhaps again. *)
Anunciar(r) ==
    /\ situacao[r] \in Anunciaveis
    /\ anuncios' = anuncios \cup {<<r, Rota(situacao[r])>>}
    /\ UNCHANGED <<situacao, debitadas>>

Next ==
    \/ \E r \in Reservas : Abrir(r) \/ Debitar(r) \/ Encerrar(r) \/ Anunciar(r)
    \/ \E R \in SUBSET Reservas : Desistir(R)

Spec == Init /\ [][Next]_vars
=============================================================================
