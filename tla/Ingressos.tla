----------------------------- MODULE Ingressos -----------------------------
(***************************************************************************)
(* The four services together: what catalogo, estoque, pagamento and       *)
(* notificacao do to one reservation through the messages they exchange.   *)
(*                                                                         *)
(* estoque is module Estoque with all of its transactions; the payment     *)
(* service is its promise Cobranca, which Pagamento implements; a ticket   *)
(* is the row notificacao makes of a pagamento.sucesso, once per           *)
(* reservation: its promise is Bilhetes, which Notificacao implements, and *)
(* of which the composition needs the issue of tickets only.  The          *)
(* announcement of a payment goes to the queues of estoque and of          *)
(* notificacao at once, and each treats it when it gets there: nobody asks *)
(* estoque whether the seats are still there before the charge, nor before *)
(* the ticket.                                                             *)
(***************************************************************************)
EXTENDS Estoque

VARIABLES
    situacao, debitadas, anuncios,   \* of Cobranca
    bilhetes                         \* reservations with a ticket in ingressos_emitidos

Pagamentos == INSTANCE Cobranca

pagamento == <<situacao, debitadas, anuncios>>
todas     == <<vars, pagamento, bilhetes>>

TypeIngressos ==
    /\ TypeOK
    /\ situacao \in [Reservas -> Pagamentos!Situacoes]
    /\ debitadas \subseteq Reservas
    /\ anuncios \subseteq Reservas \X {"pagamento.sucesso", "pagamento.falhou"}
    /\ bilhetes \subseteq Reservas

InitIngressos == Init /\ Pagamentos!Init /\ bilhetes = {}

-----------------------------------------------------------------------------
(* The consumer of reserva.criada; hearing of what was not published is a  *)
(* mutant.                                                                 *)
QualquerReserva(r) == TRUE
Anunciada(r) == r \in entregues

OuvirReserva(r) ==
    /\ Anunciada(r)
    /\ Pagamentos!Abrir(r)
    /\ UNCHANGED <<vars, bilhetes>>

(* The sweep charges and ends transactions on its own: neither the end of  *)
(* the reservation nor the cancellation of the session reaches it.         *)
Cobrar(r) ==
    /\ Pagamentos!Debitar(r) \/ Pagamentos!Encerrar(r)
    /\ UNCHANGED <<vars, bilhetes>>

(* CancelarEsperasVencidas ends some waits together. *)
CancelarEsperas(R) ==
    /\ Pagamentos!Desistir(R)
    /\ UNCHANGED <<vars, bilhetes>>

(* The queues of estoque the outcome is routed to. *)
FilaDe(r) == IF situacao[r] = "PAGO" THEN FilaPagamentoSucesso ELSE FilaPagamentoFalhou

AnunciarPagamento(r) ==
    /\ Pagamentos!Anunciar(r)
    /\ mensagens' = mensagens \cup {<<FilaDe(r), r>>}
    /\ UNCHANGED <<banco, catalogo, processadas, caixa, entregues, indice, pedido, sessao,
                   agora, bilhetes>>

(* The binding of notificacao's queue; one that takes both outcomes is a   *)
(* mutant.                                                                 *)
AmbosDesfechos(r) == \E rota \in {"pagamento.sucesso", "pagamento.falhou"} : <<r, rota>> \in anuncios
PagamentoAnunciado(r) == <<r, "pagamento.sucesso">> \in anuncios

(* CriarSeAusente *)
EmitirIngresso(r) ==
    /\ PagamentoAnunciado(r)
    /\ bilhetes' = bilhetes \cup {r}
    /\ UNCHANGED <<vars, pagamento>>

(* estoque, the catalogue and the clock, as in Estoque; what pagamento     *)
(* announces there is AnunciarPagamento here.                              *)
Estocar ==
    /\ \/ \E r \in Reservas : Pedir(r)
       \/ Consumir
       \/ Rotinas
       \/ Catalogar
       \/ PassarTempo
    /\ UNCHANGED <<pagamento, bilhetes>>

NextIngressos ==
    \/ Estocar
    \/ \E r \in Reservas :
          OuvirReserva(r) \/ Cobrar(r) \/ AnunciarPagamento(r) \/ EmitirIngresso(r)
    \/ \E R \in SUBSET Reservas : CancelarEsperas(R)

SpecIngressos == InitIngressos /\ [][NextIngressos]_todas

(* The fairness of estoque's sweep is all there is. *)
FairIngressos == SpecIngressos /\ Justica

-----------------------------------------------------------------------------
(* A sold seat was paid for: between the approval and the CONFIRMADA there *)
(* are a fact, a queue and two databases, and a reservation confirmed by   *)
(* any road has money behind it.                                           *)
VendaPaga ==
    \A r \in Reservas : reserva[r] = "CONFIRMADA" => r \in debitadas /\ situacao[r] = "PAGO"

(* A ticket is good for its seats, or will be once estoque treats the same *)
(* announcement, except when the deadline passed before estoque heard of   *)
(* the payment or its session was cancelled, though the session may be     *)
(* back by now: those are the only ways to pay, get a ticket and have no   *)
(* seat.  Of two tickets for one seat, one is of that kind.                *)
Perdeu(r) ==
    \/ reserva[r] = "EXPIRADA" /\ expiraEm[r] <= agora
    \/ reserva[r] = "CANCELADA" /\ <<FilaSessaoCancelada, sessao[r]>> \in mensagens

BilheteTemLugar ==
    /\ \A r \in bilhetes : r \in debitadas /\ (Ativa(r) \/ Perdeu(r))
    /\ \A q, r \in bilhetes :
          q # r /\ vinculo[q] \cap vinculo[r] # {} => Perdeu(q) \/ Perdeu(r)

(* What pagamento and notificacao do to estoque is within what Estoque     *)
(* lets the other services do: payments end once, and only those of        *)
(* reservations that were announced are heard of.  catalogo and the clock  *)
(* act here as they do there.  What is true of Estoque is true here.       *)
CumpreEstoque == Spec

(* Nor does it take from the other two services more than they promise:    *)
(* what it does to payments is a behaviour of Cobranca, and its tickets    *)
(* are a behaviour of Bilhetes in which only paid reservations are heard   *)
(* of, and nobody is notified or let in yet.                               *)
Ingresso == INSTANCE Bilhetes WITH
    Ids <- Reservas,
    ouvidas <- {r \in Reservas : PagamentoAnunciado(r)},
    bilhetes <- {<<r, r>> : r \in bilhetes},
    atendidas <- {},
    avisos <- [r \in Reservas |-> 0],
    usados <- {},
    entradas <- [r \in Reservas |-> 0]

CumprePromessas == Pagamentos!Spec /\ Ingresso!Spec
=============================================================================
