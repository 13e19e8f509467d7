---------------------------- MODULE CaixaDeSaida ----------------------------
(***************************************************************************)
(* The outbox of catalogo and of estoque, and the goroutine that gives its *)
(* rows to the broker.  A turn is one transaction: the oldest pending rows *)
(* that nobody else holds are locked, published one after the other, and   *)
(* those whose confirmation came are marked, all with the commit.          *)
(*                                                                         *)
(* publicar sends on the service's one channel and takes the next          *)
(* confirmation that channel gives, whichever message it is for.  The two  *)
(* services differ in two things: catalogo opens a channel again when it   *)
(* finds it closed, estoque never does; estoque drains once more while it  *)
(* shuts down, as a second publisher on the same channel.                  *)
(***************************************************************************)
EXTENDS Naturals, Sequences, FiniteSets

CONSTANTS
    Fatos,        \* ids of outbox rows
    Servicos,     \* the services to look at
    Lote,         \* OUTBOX_LOTE
    LoteFinal,    \* the drain at shutdown takes more
    MaxFalhas     \* bound: failures in a behaviour

ASSUME ConstantesCaixa ==
    /\ Fatos \subseteq Nat /\ IsFiniteSet(Fatos)
    /\ Servicos \subseteq {"catalogo", "estoque"}
    /\ Lote \in Nat \ {0} /\ LoteFinal \in Nat \ {0}
    /\ MaxFalhas \in Nat

VARIABLES
    servico,       \* which of the services this is; it does not change
    linha,         \* outbox_eventos, as committed
    fase,          \* of each publisher
    lote,          \* rows its transaction holds
    resto,         \* those it has still to publish; the least is in hand
    marcadas,      \* those it marked; committed with the transaction
    canal,
    emVoo,         \* published and not answered, oldest first
    confirmacoes,  \* answers nobody took yet, oldest first
    entregues,     \* facts the broker accepted
    encerrando,    \* the process was told to stop
    atrasos,       \* waits given up on this channel (nothing reads it)
    falhas

banco  == <<linha, entregues>>
turno  == <<fase, lote, resto, marcadas>>
broker == <<canal, emVoo, confirmacoes>>
vars   == <<servico, linha, fase, lote, resto, marcadas, canal, emVoo, confirmacoes,
            entregues, encerrando, atrasos, falhas>>

Publicadores == {"tique", "dreno"}
Respostas    == {"ack", "nack"}
Fases        == {"ociosa", "publicando", "esperando", "encerrada"}

TypeOK ==
    /\ servico \in Servicos
    /\ linha \in [Fatos -> {"ausente", "pendente", "publicada"}]
    /\ fase \in [Publicadores -> Fases]
    /\ lote \in [Publicadores -> SUBSET Fatos]
    /\ resto \in [Publicadores -> SUBSET Fatos]
    /\ marcadas \in [Publicadores -> SUBSET Fatos]
    /\ canal \in {"aberto", "fechado"}
    /\ emVoo \in Seq(Fatos)
    /\ confirmacoes \in Seq(Respostas)
    /\ entregues \subseteq Fatos
    /\ encerrando \in BOOLEAN
    /\ atrasos \in Nat
    /\ falhas \in Nat

Vazio == [p \in Publicadores |-> {}]

Init ==
    /\ servico \in Servicos
    /\ linha = [f \in Fatos |-> "ausente"]
    /\ fase = [p \in Publicadores |-> "ociosa"]
    /\ lote = Vazio /\ resto = Vazio /\ marcadas = Vazio
    /\ canal = "aberto"
    /\ emVoo = <<>>
    /\ confirmacoes = <<>>
    /\ entregues = {}
    /\ encerrando = FALSE
    /\ atrasos = 0
    /\ falhas = 0

(* enfileirarFato, seen when the producer's transaction commits: ids need  *)
(* not appear in order.                                                    *)
Enfileirar(f) ==
    /\ linha[f] = "ausente"
    /\ linha' = [linha EXCEPT ![f] = "pendente"]
    /\ UNCHANGED <<servico, turno, broker, entregues, encerrando, atrasos, falhas>>

-----------------------------------------------------------------------------
(* A turn of a publisher. *)

(* The ticker until the process is told to stop, the drain after that. *)
Ativo(p) == IF p = "tique" THEN ~ encerrando ELSE encerrando /\ servico = "estoque"

Outro(p) == IF p = "tique" THEN "dreno" ELSE "tique"
Tamanho(p) == IF p = "tique" THEN Lote ELSE LoteFinal

(* FOR UPDATE SKIP LOCKED *)
Pendentes(p) == {f \in Fatos : linha[f] = "pendente" /\ f \notin lote[Outro(p)]}

(* ORDER BY id LIMIT *)
MaisAntigas(p) ==
    {f \in Pendentes(p) : Cardinality({g \in Pendentes(p) : g < f}) < Tamanho(p)}

Ler(p) ==
    /\ Ativo(p) /\ fase[p] = "ociosa"
    /\ MaisAntigas(p) # {}
    /\ fase' = [fase EXCEPT ![p] = "publicando"]
    /\ lote' = [lote EXCEPT ![p] = MaisAntigas(p)]
    /\ resto' = [resto EXCEPT ![p] = MaisAntigas(p)]
    /\ UNCHANGED <<servico, banco, marcadas, broker, encerrando, atrasos, falhas>>

NaMao(p, f) == f \in resto[p] /\ \A g \in resto[p] : f <= g

(* The context of the ticker's turn ends with the order to stop: nothing   *)
(* more is written with it.                                                *)
Cancelado(p) == p = "tique" /\ encerrando

(* Something fails, as often as the bound allows. *)
Falha == falhas < MaxFalhas /\ falhas' = falhas + 1

(* A publication fails: tentativas is counted and the row left pending. *)
Pular(p, f) ==
    /\ resto' = [resto EXCEPT ![p] = @ \ {f}]
    /\ fase' = [fase EXCEPT ![p] = "publicando"]

(* canalDePublicacao of catalogo opens another channel; estoque's Publish  *)
(* fails on a closed one.  The mutant makes catalogo like estoque.         *)
NuncaReabre == FALSE
Reabre == servico = "catalogo"

(* The new channel answers on a queue of its own; the mutant keeps the old *)
(* one, with what nobody took from it.                                     *)
AsDeAntes == confirmacoes
SemRespostas == <<>>

Publicar(p, f) ==
    /\ fase[p] = "publicando" /\ NaMao(p, f)
    /\ canal = "aberto" \/ Reabre
    /\ IF canal = "aberto"
       THEN emVoo' = Append(emVoo, f) /\ UNCHANGED <<confirmacoes, atrasos>>
       ELSE /\ emVoo' = <<f>> /\ confirmacoes' = SemRespostas
            /\ atrasos' = IF Cancelado(p) THEN 1 ELSE 0
    /\ canal' = "aberto"
    /\ fase' = [fase EXCEPT ![p] = "esperando"]
    /\ UNCHANGED <<servico, banco, lote, resto, marcadas, encerrando, falhas>>

(* The broker cannot be reached, or nobody opens the channel. *)
PublicarFechado(p, f) ==
    /\ fase[p] = "publicando" /\ NaMao(p, f)
    /\ canal = "fechado"
    /\ IF Reabre THEN Falha ELSE UNCHANGED falhas
    /\ Pular(p, f)
    /\ UNCHANGED <<servico, banco, lote, marcadas, broker, encerrando, atrasos>>

(* The mutant marks whatever the broker answered. *)
MarcaSempre(c) == TRUE
Marca(c) == c = "ack"

(* The next confirmation of the channel, as if it were for the row in      *)
(* hand.  A cancelled turn takes it too, but cannot mark.                  *)
Receber(p, f) ==
    /\ fase[p] = "esperando" /\ NaMao(p, f)
    /\ confirmacoes # <<>>
    /\ confirmacoes' = Tail(confirmacoes)
    /\ Pular(p, f)
    /\ marcadas' = [marcadas EXCEPT ![p] =
                       IF Marca(Head(confirmacoes)) /\ ~ Cancelado(p) THEN @ \cup {f} ELSE @]
    /\ UNCHANGED <<servico, banco, lote, canal, emVoo, encerrando, atrasos, falhas>>

(* The confirmations end with the channel: what is read then is no ack. *)
ReceberFechado(p, f) ==
    /\ fase[p] = "esperando" /\ NaMao(p, f)
    /\ confirmacoes = <<>> /\ canal = "fechado"
    /\ Pular(p, f)
    /\ UNCHANGED <<servico, banco, lote, marcadas, broker, encerrando, atrasos, falhas>>

(* publicado_em IS NULL is what makes a row pending; the mutant writes a    *)
(* state that nobody reads.                                                *)
MarcaDesconhecida(p, f) == IF f \in marcadas[p] THEN "enviada" ELSE linha[f]
Gravada(p, f) == IF f \in marcadas[p] THEN "publicada" ELSE linha[f]

(* The transaction ends: with a commit ... *)
Confirmar(p) ==
    /\ fase[p] = "publicando" /\ resto[p] = {} /\ ~ Cancelado(p)
    /\ linha' = [f \in Fatos |-> Gravada(p, f)]
    /\ fase' = [fase EXCEPT ![p] = IF p = "dreno" THEN "encerrada" ELSE "ociosa"]
    /\ lote' = [lote EXCEPT ![p] = {}]
    /\ marcadas' = [marcadas EXCEPT ![p] = {}]
    /\ UNCHANGED <<servico, resto, broker, entregues, encerrando, atrasos, falhas>>

(* ... or without one: the publications stay made. *)
Desfazer(p) ==
    /\ fase' = [fase EXCEPT ![p] = IF p = "dreno" THEN "encerrada" ELSE "ociosa"]
    /\ lote' = [lote EXCEPT ![p] = {}]
    /\ resto' = [resto EXCEPT ![p] = {}]
    /\ marcadas' = [marcadas EXCEPT ![p] = {}]

FalharBanco(p) ==
    /\ fase[p] = "publicando"
    /\ Falha
    /\ Desfazer(p)
    /\ UNCHANGED <<servico, banco, broker, encerrando, atrasos>>

(* database/sql rolls back as soon as the context is cancelled, while the  *)
(* turn is still waiting for its confirmation.                             *)
SoltarLinhas ==
    /\ Cancelado("tique") /\ lote["tique"] # {}
    /\ lote' = [lote EXCEPT !["tique"] = {}]
    /\ marcadas' = [marcadas EXCEPT !["tique"] = {}]
    /\ UNCHANGED <<servico, banco, fase, resto, broker, encerrando, atrasos, falhas>>

(* The cancelled turn returns: its next statement, or its wait, fails. *)
Interromper ==
    /\ Cancelado("tique") /\ fase["tique"] \in {"publicando", "esperando"}
    /\ Desfazer("tique")
    /\ UNCHANGED <<servico, banco, broker, encerrando, atrasos, falhas>>

(* Five seconds without a confirmation.  It counts as a failure when the   *)
(* answer may still come.  The drain has five seconds for everything.      *)
Prazo(p, f) ==
    /\ fase[p] = "esperando" /\ NaMao(p, f) /\ ~ Cancelado(p)
    /\ canal = "aberto" /\ confirmacoes = <<>>
    /\ IF emVoo = <<>> THEN UNCHANGED falhas ELSE Falha
    /\ IF p = "dreno" THEN Desfazer(p) ELSE Pular(p, f) /\ UNCHANGED <<lote, marcadas>>
    /\ atrasos' = atrasos + 1
    /\ UNCHANGED <<servico, banco, broker, encerrando>>

-----------------------------------------------------------------------------
(* The broker answers in the order of the publications; the channel may    *)
(* close with answers still to come, for messages it accepted or not.      *)
Aceitar ==
    /\ emVoo # <<>>
    /\ entregues' = entregues \cup {Head(emVoo)}
    /\ emVoo' = Tail(emVoo)
    /\ confirmacoes' = Append(confirmacoes, "ack")
    /\ UNCHANGED <<servico, linha, turno, canal, encerrando, atrasos, falhas>>

Recusar ==
    /\ emVoo # <<>>
    /\ Falha
    /\ emVoo' = Tail(emVoo)
    /\ confirmacoes' = Append(confirmacoes, "nack")
    /\ UNCHANGED <<servico, banco, turno, canal, encerrando, atrasos>>

Pendurados == {emVoo[k] : k \in DOMAIN emVoo}

FecharCanal ==
    /\ canal = "aberto"
    /\ Falha
    /\ canal' = "fechado"
    /\ emVoo' = <<>>
    /\ \E S \in SUBSET Pendurados : entregues' = entregues \cup S
    /\ UNCHANGED <<servico, linha, turno, confirmacoes, encerrando, atrasos>>

(* SIGTERM.  A turn of the ticker that is under way gives its wait up. *)
Encerrar ==
    /\ ~ encerrando
    /\ Falha
    /\ encerrando' = TRUE
    /\ atrasos' = atrasos + (IF fase["tique"] # "ociosa" THEN 1 ELSE 0)
    /\ UNCHANGED <<servico, banco, turno, broker>>

(* The drain finds nothing. *)
DrenarNada ==
    /\ Ativo("dreno") /\ fase["dreno"] = "ociosa"
    /\ MaisAntigas("dreno") = {}
    /\ fase' = [fase EXCEPT !["dreno"] = "encerrada"]
    /\ UNCHANGED <<servico, banco, lote, resto, marcadas, broker, encerrando, atrasos, falhas>>

(* The process ends and starts again: only the committed rows remain. *)
Recomecar ==
    /\ fase' = [p \in Publicadores |-> "ociosa"]
    /\ lote' = Vazio /\ resto' = Vazio /\ marcadas' = Vazio
    /\ canal' = "aberto" /\ emVoo' = <<>> /\ confirmacoes' = <<>>
    /\ \E S \in SUBSET Pendurados : entregues' = entregues \cup S
    /\ encerrando' = FALSE
    /\ atrasos' = 0
    /\ UNCHANGED <<servico, linha>>

Sair == encerrando /\ (servico = "estoque" => fase["dreno"] = "encerrada")

Reiniciar == Sair /\ Recomecar /\ UNCHANGED falhas

Queda == Falha /\ Recomecar

-----------------------------------------------------------------------------
(* What a turn does by itself. *)
Trabalhar(p) ==
    \/ Ler(p)
    \/ Confirmar(p)
    \/ \E f \in Fatos :
          \/ Publicar(p, f)
          \/ PublicarFechado(p, f)
          \/ Receber(p, f)
          \/ ReceberFechado(p, f)

Desistir == SoltarLinhas \/ Interromper \/ DrenarNada \/ Reiniciar

Next ==
    \/ \E f \in Fatos : Enfileirar(f)
    \/ \E p \in Publicadores :
          Trabalhar(p) \/ FalharBanco(p) \/ \E f \in Fatos : Prazo(p, f)
    \/ Desistir
    \/ Aceitar \/ Recusar \/ FecharCanal \/ Encerrar \/ Queda

Spec == Init /\ [][Next]_vars

(* The ticker ticks, the broker answers, a wait without an answer ends,    *)
(* and a service that was stopped is started again.                        *)
Justica ==
    /\ WF_vars(Trabalhar("tique")) /\ WF_vars(Trabalhar("dreno"))
    /\ \A p \in Publicadores : WF_vars(\E f \in Fatos : Prazo(p, f))
    /\ WF_vars(Aceitar)
    /\ WF_vars(Desistir)

FairSpec == Spec /\ Justica

-----------------------------------------------------------------------------
(* What catalogo's README says of the outbox: a fact is published again    *)
(* until the broker confirms it.  What is marked, and so never published   *)
(* again, was delivered or can still be.                                   *)
PublicadaChega ==
    \A f \in Fatos : linha[f] = "publicada" => f \in entregues \cup Pendurados

(* A fact the broker does not have is marked only on a channel where a     *)
(* wait was given up: refusals, closings, falls and failures of the        *)
(* database do not exchange the confirmations of two facts.                *)
TrocaSoPorAtraso ==
    [][\A p \in Publicadores : \A f \in marcadas'[p] \ marcadas[p] :
          f \notin entregues => atrasos > 0]_vars

(* What two publishers share a channel for, and how far their answers can  *)
(* slip: whatever the channel still owes or holds is the answer of one     *)
(* that waits, or was left by a wait given up, one for each.  That goes    *)
(* for the drain at shutdown beside the ticker's interrupted turn, and for *)
(* catalogo, which leaves the old answers behind with the old channel.     *)
SobraContada ==
    Len(emVoo) + Len(confirmacoes)
        <= Cardinality({p \in Publicadores : fase[p] = "esperando"}) + atrasos

(* Liveness: a committed fact reaches the broker, across falls, refusals,  *)
(* lost answers and shutdowns, unless it was marked in place of another,   *)
(* or the channel of estoque closed, which nobody opens again.             *)
FatoSai ==
    \A f \in Fatos : linha[f] = "pendente" ~>
        \/ f \in entregues
        \/ linha[f] = "publicada"
        \/ servico = "estoque" /\ canal = "fechado"
=============================================================================
