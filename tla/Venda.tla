------------------------------- MODULE Venda -------------------------------
(***************************************************************************)
(* What the inventory service promises of the seats, without messages,     *)
(* clocks, caches or rows: a seat is free, held by one reservation or sold *)
(* to it; a hold takes all its seats or none and ends once, in a sale or   *)
(* in a release of all of them; a sale is for ever and a reservation never *)
(* comes back.  Estoque implements it.                                     *)
(***************************************************************************)
CONSTANTS
    Reservas,
    Poltronas,
    Ninguem     \* no reservation

VARIABLES
    poltrona,   \* AUSENTE, LIVRE, RESERVADA or OCUPADA
    dono,       \* the reservation that holds or bought each seat
    usadas      \* reservations that were granted

vars == <<poltrona, dono, usadas>>

TypeOK ==
    /\ poltrona \in [Poltronas -> {"AUSENTE", "LIVRE", "RESERVADA", "OCUPADA"}]
    /\ dono \in [Poltronas -> Reservas \cup {Ninguem}]
    /\ usadas \subseteq Reservas

Init ==
    /\ poltrona = [p \in Poltronas |-> "AUSENTE"]
    /\ dono = [p \in Poltronas |-> Ninguem]
    /\ usadas = {}

(* Seats of S change together to a status and an owner. *)
Passar(S, status, quem) ==
    /\ poltrona' = [p \in Poltronas |-> IF p \in S THEN status ELSE poltrona[p]]
    /\ dono' = [p \in Poltronas |-> IF p \in S THEN quem ELSE dono[p]]

Seguras(R) == {p \in Poltronas : dono[p] \in R}

(* The seats of a session come to exist. *)
Abrir(S) ==
    /\ \A p \in S : poltrona[p] = "AUSENTE"
    /\ Passar(S, "LIVRE", Ninguem)
    /\ UNCHANGED usadas

(* All or nothing, and only free seats. *)
Reter(r, S) ==
    /\ r \notin usadas
    /\ S # {}
    /\ \A p \in S : poltrona[p] = "LIVRE"
    /\ Passar(S, "RESERVADA", r)
    /\ usadas' = usadas \cup {r}

Vender(r) ==
    /\ Seguras({r}) # {}
    /\ \A p \in Seguras({r}) : poltrona[p] = "RESERVADA"
    /\ Passar(Seguras({r}), "OCUPADA", r)
    /\ UNCHANGED usadas

(* Some holds end together, each with all its seats. *)
Soltar(R) ==
    /\ \A p \in Seguras(R) : poltrona[p] = "RESERVADA"
    /\ Passar(Seguras(R), "LIVRE", Ninguem)
    /\ UNCHANGED usadas

Next ==
    \/ \E S \in SUBSET Poltronas : Abrir(S)
    \/ \E r \in Reservas, S \in SUBSET Poltronas : Reter(r, S)
    \/ \E r \in Reservas : Vender(r)
    \/ \E R \in SUBSET Reservas : Soltar(R)

Spec == Init /\ [][Next]_vars
=============================================================================
