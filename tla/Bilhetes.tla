------------------------------ MODULE Bilhetes ------------------------------
(***************************************************************************)
(* What the ticket service promises, without messages, queues, workers,    *)
(* attempts or gates: a reservation it was told is paid gets one ticket,   *)
(* for ever; only then is the announcement settled; the owner of a ticket  *)
(* is notified at most once; a ticket is used once and lets at most one    *)
(* person in.  Notificacao implements it, and Ingressos composes it with   *)
(* the other services.                                                     *)
(***************************************************************************)
EXTENDS Naturals

CONSTANTS
    Reservas,
    Ids         \* identifiers of tickets

VARIABLES
    ouvidas,    \* reservations announced as paid
    bilhetes,   \* a reservation and its ticket
    atendidas,  \* reservations whose announcement was settled
    avisos,     \* notices that reached the owner of each ticket
    usados,     \* tickets that were read at the gate
    entradas    \* people each ticket let in

vars == <<ouvidas, bilhetes, atendidas, avisos, usados, entradas>>

Init ==
    /\ ouvidas = {} /\ bilhetes = {} /\ atendidas = {}
    /\ avisos = [i \in Ids |-> 0]
    /\ usados = {}
    /\ entradas = [i \in Ids |-> 0]

Ouvir(r) ==
    /\ ouvidas' = ouvidas \cup {r}
    /\ UNCHANGED <<bilhetes, atendidas, avisos, usados, entradas>>

Emitido(i) == \E r \in Reservas : <<r, i>> \in bilhetes

(* CriarSeAusente: one per reservation, and no ticket is of two. *)
Emitir(r, i) ==
    /\ r \in ouvidas
    /\ \A j \in Ids : <<r, j>> \notin bilhetes
    /\ ~ Emitido(i)
    /\ bilhetes' = bilhetes \cup {<<r, i>>}
    /\ UNCHANGED <<ouvidas, atendidas, avisos, usados, entradas>>

(* The acknowledgement. *)
Atender(r) ==
    /\ \E i \in Ids : <<r, i>> \in bilhetes
    /\ atendidas' = atendidas \cup {r}
    /\ UNCHANGED <<ouvidas, bilhetes, avisos, usados, entradas>>

Avisar(i) ==
    /\ Emitido(i) /\ avisos[i] = 0
    /\ avisos' = [avisos EXCEPT ![i] = 1]
    /\ UNCHANGED <<ouvidas, bilhetes, atendidas, usados, entradas>>

Usar(i) ==
    /\ Emitido(i) /\ i \notin usados
    /\ usados' = usados \cup {i}
    /\ UNCHANGED <<ouvidas, bilhetes, atendidas, avisos, entradas>>

Entrar(i) ==
    /\ i \in usados /\ entradas[i] = 0
    /\ entradas' = [entradas EXCEPT ![i] = 1]
    /\ UNCHANGED <<ouvidas, bilhetes, atendidas, avisos, usados>>

Next ==
    \/ \E r \in Reservas : Ouvir(r) \/ Atender(r) \/ \E i \in Ids : Emitir(r, i)
    \/ \E i \in Ids : Avisar(i) \/ Usar(i) \/ Entrar(i)

Spec == Init /\ [][Next]_vars
=============================================================================
