------------------------------ MODULE Estoque ------------------------------
(***************************************************************************)
(* The inventory service (src/estoque): the owner of every seat.           *)
(*                                                                         *)
(* One action is one COMMITTED transaction of the PostgreSQL adapter with  *)
(* everything its use case does after the commit; what happens between the *)
(* statements of a transaction (row locks, NOWAIT, SKIP LOCKED) shows only *)
(* in who is refused or passed over.  A request is not atomic: the         *)
(* session is read from the catalogue first, the seats are granted later   *)
(* and the Redis deadline is written last, so other steps fall in between. *)
(*                                                                         *)
(* The broker delivers at least once and in any order: a message that was  *)
(* published stays in mensagens and can be handled again at any time.      *)
(* RabbitMQ, Redis, the catalogue and the payment service appear only      *)
(* through what this service sees of them.                                 *)
(***************************************************************************)
EXTENDS Naturals, FiniteSets

CONSTANTS
    Reservas,    \* identifiers of requests; reserva.Nova gives each its own
    Poltronas,   \* seats of every session
    Sessoes,
    SessaoDe,    \* session of each seat
    Inicios,     \* the data_hora_inicio a session may have at one time or another
    TTL,         \* RESERVA_TTL
    Lote,        \* LotePorVarredura, the most a sweep expires at once
    Limite,      \* POLTRONAS_MAX_POR_BLOQUEIO, 0 for no limit
    ComPrazo,    \* whether REDIS_URL is configured
    Horizonte,   \* bound: nothing is granted after this instant
    Alteraveis,  \* bound: sessions that are not simply created AGENDADA and kept
    Nenhuma      \* "no session", "no reservation"

ASSUME ConstantesAssumption ==
    /\ SessaoDe \in [Poltronas -> Sessoes]
    /\ Inicios \in [Sessoes -> SUBSET Nat]
    /\ Alteraveis \subseteq Sessoes
    /\ TTL \in Nat \ {0}
    /\ Lote \in Nat \ {0}
    /\ Limite \in Nat
    /\ Horizonte \in Nat
    /\ ComPrazo \in BOOLEAN
    /\ Nenhuma \notin Sessoes \cup Reservas

VARIABLES
    catalogo,     \* status of each session as GET /sessoes/{id} answers it;
                  \* CANCELADA: any but AGENDADA, all alike to this service
    poltrona,     \* poltronas.status; AUSENTE: no row yet
    reserva,      \* reservas.status; NENHUMA: no row yet
    vinculo,      \* reserva_poltronas: seats linked to each reservation
    expiraEm,     \* reservas.expira_em
    processadas,  \* mensagens_processadas
    caixa,        \* reservations whose reserva.criada fact is in the outbox
    entregues,    \* those whose fact the broker was given
    mensagens,    \* messages published to this service's four queues
    indice,       \* Redis keys reserva:<id>
    pedido,       \* progress of each HTTP request
    sessao,       \* session of each request
    agora

banco == <<poltrona, reserva, vinculo, expiraEm>>
fora  == <<catalogo, entregues, mensagens>>
vars  == <<catalogo, poltrona, reserva, vinculo, expiraEm, processadas, caixa,
           entregues, mensagens, indice, pedido, sessao, agora>>

FilaSessaoCriada     == "estoque.sessao-criada"
FilaSessaoCancelada  == "estoque.sessao-cancelada"
FilaPagamentoSucesso == "estoque.pagamento-sucesso"
FilaPagamentoFalhou  == "estoque.pagamento-falhou"

(* A message is its queue and the entity it is about: each producer uses   *)
(* one message id per entity and kind of fact.                             *)
Mensagens == ({FilaSessaoCriada, FilaSessaoCancelada} \X Sessoes)
                \cup ({FilaPagamentoSucesso, FilaPagamentoFalhou} \X Reservas)

StatusPoltrona == {"AUSENTE", "LIVRE", "RESERVADA", "OCUPADA"}
StatusReserva  == {"NENHUMA", "PENDENTE", "CONFIRMADA", "EXPIRADA", "CANCELADA"}
Finais         == {"CONFIRMADA", "EXPIRADA", "CANCELADA"}

TypeOK ==
    /\ catalogo \in [Sessoes -> {"INEXISTENTE", "AGENDADA", "CANCELADA"}]
    /\ poltrona \in [Poltronas -> StatusPoltrona]
    /\ reserva \in [Reservas -> StatusReserva]
    /\ vinculo \in [Reservas -> SUBSET Poltronas]
    /\ expiraEm \in [Reservas -> Nat]
    /\ processadas \subseteq Mensagens
    /\ caixa \subseteq Reservas
    /\ entregues \subseteq Reservas
    /\ mensagens \subseteq Mensagens
    /\ indice \subseteq Reservas
    /\ pedido \in [Reservas -> {"novo", "validado", "concedido", "fim"}]
    /\ sessao \in [Reservas -> Sessoes \cup {Nenhuma}]
    /\ agora \in Nat

Init ==
    /\ catalogo = [s \in Sessoes |-> "INEXISTENTE"]
    /\ poltrona = [p \in Poltronas |-> "AUSENTE"]
    /\ reserva = [r \in Reservas |-> "NENHUMA"]
    /\ vinculo = [r \in Reservas |-> {}]
    /\ expiraEm = [r \in Reservas |-> 0]
    /\ processadas = {}
    /\ caixa = {}
    /\ entregues = {}
    /\ mensagens = {}
    /\ indice = {}
    /\ pedido = [r \in Reservas |-> "novo"]
    /\ sessao = [r \in Reservas |-> Nenhuma]
    /\ agora = 0

-----------------------------------------------------------------------------
(* Reserving: ReservarPoltronas.Executar and BloquearPoltronas.Executar.   *)

(* sessao.AceitaReserva *)
AceitaReserva(s, inicio) == catalogo[s] = "AGENDADA" /\ inicio > agora

(* The request reads the session from the catalogue, with the start it has *)
(* by then, and passes the check.                                          *)
BuscarSessao(r, s) ==
    /\ pedido[r] = "novo"
    /\ \E inicio \in Inicios[s] : AceitaReserva(s, inicio)
    /\ pedido' = [pedido EXCEPT ![r] = "validado"]
    /\ sessao' = [sessao EXCEPT ![r] = s]
    /\ UNCHANGED <<banco, fora, processadas, caixa, indice, agora>>

(* reserva.NovaSolicitacao: what a request may ask for. *)
SolicitacaoValida(S) == S # {} /\ (Limite > 0 => Cardinality(S) <= Limite)

(* The rows SELECT ... WHERE sessao_id AND rotulo IN finds; without the    *)
(* session in the clause, a mutant.                                        *)
EncontradasPeloRotulo(s, S) == {p \in S : poltrona[p] # "AUSENTE"}
Encontradas(s, S) == {p \in S : SessaoDe[p] = s /\ poltrona[p] # "AUSENTE"}

(* The status test of each row found.  A test that refuses only sold seats *)
(* is a mutant.                                                            *)
SoNaoOcupadas(S) == \A p \in S : poltrona[p] # "OCUPADA"
Livres(S) == \A p \in S : poltrona[p] = "LIVRE"

(* enfileirarFato, in the same transaction; forgetting it is a mutant. *)
NaoEnfileirar(r) == UNCHANGED caixa
EnfileirarFato(r) == caixa' = caixa \cup {r}

(* The grant commits: every seat asked for exists in the session and is    *)
(* LIVRE; reservation, links, seats and fact are written together.         *)
Conceder(r, S) ==
    /\ pedido[r] = "validado"
    /\ agora <= Horizonte
    /\ SolicitacaoValida(S)
    /\ Encontradas(sessao[r], S) = S
    /\ Livres(S)
    /\ reserva' = [reserva EXCEPT ![r] = "PENDENTE"]
    /\ vinculo' = [vinculo EXCEPT ![r] = S]
    /\ expiraEm' = [expiraEm EXCEPT ![r] = agora + TTL]
    /\ poltrona' = [p \in Poltronas |-> IF p \in S THEN "RESERVADA" ELSE poltrona[p]]
    /\ EnfileirarFato(r)
    /\ pedido' = [pedido EXCEPT ![r] = "concedido"]
    /\ UNCHANGED <<fora, processadas, indice, sessao, agora>>

(* Any other end of the request: a seat is taken or missing, NOWAIT lost   *)
(* the row lock, the database failed, the client left, the process fell.   *)
Recusar(r) ==
    /\ pedido[r] = "validado"
    /\ pedido' = [pedido EXCEPT ![r] = "fim"]
    /\ UNCHANGED <<banco, fora, processadas, caixa, indice, sessao, agora>>

(* Prazo.Marcar after the commit: nothing to mark when Redis is not        *)
(* configured or the deadline has passed.                                  *)
Marcar(r) ==
    /\ pedido[r] = "concedido"
    /\ indice' = IF ComPrazo /\ expiraEm[r] > agora THEN indice \cup {r} ELSE indice
    /\ pedido' = [pedido EXCEPT ![r] = "fim"]
    /\ UNCHANGED <<banco, fora, processadas, caixa, sessao, agora>>

(* Redis refused the key, or the process fell between commit and Marcar.   *)
PerderMarcacao(r) ==
    /\ pedido[r] = "concedido"
    /\ pedido' = [pedido EXCEPT ![r] = "fim"]
    /\ UNCHANGED <<banco, fora, processadas, caixa, indice, sessao, agora>>

-----------------------------------------------------------------------------
(* Ends of a reservation. *)

Presas(R) == UNION {vinculo[r] : r \in R}

(* Mutant: the two new statuses swapped. *)
FinalizarTrocado(R, novoReserva, novoPoltrona) ==
    /\ reserva' = [r \in Reservas |-> IF r \in R THEN novoPoltrona ELSE reserva[r]]
    /\ poltrona' = [p \in Poltronas |->
                        IF p \in Presas(R) THEN novoReserva ELSE poltrona[p]]
    /\ UNCHANGED <<vinculo, expiraEm>>

(* The UPDATE of reservas and mudarPoltronasDas. *)
Finalizar(R, novoReserva, novoPoltrona) ==
    /\ reserva' = [r \in Reservas |-> IF r \in R THEN novoReserva ELSE reserva[r]]
    /\ poltrona' = [p \in Poltronas |->
                        IF p \in Presas(R) THEN novoPoltrona ELSE poltrona[p]]
    /\ UNCHANGED <<vinculo, expiraEm>>

(* Prazo.Liberar after the commit; a failure is only logged. *)
Liberar(R) == \E L \in SUBSET (R \cap indice) : indice' = indice \ L

Pendente(r) == reserva[r] = "PENDENTE"

(* WHERE status = 'PENDENTE' AND expira_em <= agora.  Mutants: without the *)
(* deadline, and trusting Redis to say what is due.                        *)
VencidaSemPrazo(r)   == Pendente(r)
VencidaPeloIndice(r) == Pendente(r) /\ expiraEm[r] <= agora /\ r \in indice
Vencida(r)           == Pendente(r) /\ expiraEm[r] <= agora

(* Of these reservations, the ones WHERE status = 'PENDENTE' leaves; the   *)
(* mutant has no such clause.                                              *)
QualquerEstado(R) == R
SoPendentes(R) == {r \in R : Pendente(r)}

(* registrarProcessada answers that the message is new. *)
Registrar(m) ==
    /\ m \in mensagens \ processadas
    /\ processadas' = processadas \cup {m}

(* Reservas.aplicarDesfecho for a new message. *)
AplicarDesfecho(fila, r, novoReserva, novoPoltrona) ==
    /\ Registrar(<<fila, r>>)
    /\ Finalizar(SoPendentes({r}), novoReserva, novoPoltrona)
    /\ Liberar(SoPendentes({r}))
    /\ UNCHANGED <<fora, caixa, pedido, sessao, agora>>

Confirmar(r) == AplicarDesfecho(FilaPagamentoSucesso, r, "CONFIRMADA", "OCUPADA")

Cancelar(r) == AplicarDesfecho(FilaPagamentoFalhou, r, "CANCELADA", "LIVRE")

(* A row another transaction may hold: the one of a payment outcome, or of *)
(* an expiration.  SKIP LOCKED passes over it even if that one rolls back. *)
Disputada(r) ==
    \/ Vencida(r)
    \/ \E f \in {FilaPagamentoSucesso, FilaPagamentoFalhou} : <<f, r>> \in mensagens

(* WHERE sessao_id = s; the mutant takes every session. *)
DeQualquerSessao(s) == Reservas
DaSessao(s) == {r \in Reservas : sessao[r] = s}

(* Reservas.CancelarPendentesDaSessao: releases the pending reservations   *)
(* of the session, except the locked ones.                                 *)
CancelarPendentesDaSessao(s) ==
    /\ Registrar(<<FilaSessaoCancelada, s>>)
    /\ LET pendentes == SoPendentes(DaSessao(s))
       IN \E travadas \in SUBSET {r \in pendentes : Disputada(r)} :
             /\ Finalizar(pendentes \ travadas, "CANCELADA", "LIVRE")
             /\ Liberar(pendentes \ travadas)
    /\ UNCHANGED <<fora, caixa, pedido, sessao, agora>>

(* ORDER BY expira_em LIMIT Lote over the rows D. *)
PrimeirasDe(D, E) ==
    /\ E \subseteq D
    /\ Cardinality(E) <= Lote
    /\ E # D => Cardinality(E) = Lote
    /\ \A x \in E, y \in D \ E : expiraEm[x] <= expiraEm[y]

(* A row the handler of some message may hold while the sweep runs. *)
TravadaPorMensagem(r) ==
    \/ \E f \in {FilaPagamentoSucesso, FilaPagamentoFalhou} : <<f, r>> \in mensagens
    \/ <<FilaSessaoCancelada, sessao[r]>> \in mensagens

(* Reservas.ExpirarVencidas, the authoritative sweep, skipping what other  *)
(* transactions hold.                                                      *)
ExpirarVencidas(travadas) ==
    \E E \in SUBSET Reservas :
        /\ E # {}
        /\ PrimeirasDe({r \in Reservas : Vencida(r)} \ travadas, E)
        /\ Finalizar(E, "EXPIRADA", "LIVRE")
        /\ Liberar(E)
        /\ UNCHANGED <<fora, processadas, caixa, pedido, sessao, agora>>

(* Reservas.ExpirarUma: the Redis key is gone and its event arrived.       *)
(* Redis rounds the deadline and runs on its own clock: the event may come *)
(* early, and the query checks expira_em again.                            *)
ExpirarUma(r) ==
    /\ r \in indice
    /\ Finalizar({x \in {r} : Vencida(x)}, "EXPIRADA", "LIVRE")
    /\ indice' = indice \ {r}
    /\ UNCHANGED <<fora, processadas, caixa, pedido, sessao, agora>>

(* The key is lost, or its event: pub/sub keeps nothing for who is away.   *)
PerderPrazo(r) ==
    /\ r \in indice
    /\ indice' = indice \ {r}
    /\ UNCHANGED <<banco, fora, processadas, caixa, pedido, sessao, agora>>

-----------------------------------------------------------------------------
(* Seats, processed messages and the outbox. *)

(* The rows INSERT ... ON CONFLICT DO NOTHING creates; the mutant inserts  *)
(* over the ones that exist.                                               *)
TodasDaSessao(s) == {p \in Poltronas : SessaoDe[p] = s}
Criadas(s) == {p \in Poltronas : SessaoDe[p] = s /\ poltrona[p] = "AUSENTE"}

(* Poltronas.ProvisionarMatriz *)
ProvisionarMatriz(s) ==
    /\ Registrar(<<FilaSessaoCriada, s>>)
    /\ poltrona' = [p \in Poltronas |->
                        IF p \in Criadas(s) THEN "LIVRE" ELSE poltrona[p]]
    /\ UNCHANGED <<reserva, vinculo, expiraEm, fora, caixa, indice, pedido, sessao, agora>>

(* registrarProcessada finds the message: the handler does nothing else. *)
IgnorarDuplicata(m) ==
    /\ m \in mensagens \cap processadas
    /\ UNCHANGED vars

(* LimparMensagensProcessadas: the record is older than the retention. *)
LimparMensagensProcessadas(m) ==
    /\ m \in processadas
    /\ processadas' = processadas \ {m}
    /\ UNCHANGED <<banco, fora, caixa, indice, pedido, sessao, agora>>

(* A turn of the outbox gives the broker a fact, again if the row was not  *)
(* marked the first time.  Rows, marks and confirmations are the subject   *)
(* of module CaixaDeSaida.                                                 *)
Publicar(r) ==
    /\ r \in caixa
    /\ entregues' = entregues \cup {r}
    /\ UNCHANGED <<banco, catalogo, mensagens, processadas, caixa, indice, pedido, sessao, agora>>

-----------------------------------------------------------------------------
(* What the other services do, as far as this one can tell. *)

(* The status a POST or a PUT may write. *)
Situacoes(s) == {"AGENDADA"} \cup (IF s \in Alteraveis THEN {"CANCELADA"} ELSE {})

(* catalogo creates a session, in any status, and announces it. *)
CriarSessao(s) ==
    /\ catalogo[s] = "INEXISTENTE"
    /\ \E status \in Situacoes(s) : catalogo' = [catalogo EXCEPT ![s] = status]
    /\ mensagens' = mensagens \cup {<<FilaSessaoCriada, s>>}
    /\ UNCHANGED <<banco, processadas, caixa, entregues, indice, pedido, sessao, agora>>

(* DELETE cancels a session and announces it, whatever its status; the     *)
(* announcement of a second one has the message_id of the first.           *)
RemoverSessao(s) ==
    /\ s \in Alteraveis
    /\ catalogo[s] # "INEXISTENTE"
    /\ catalogo' = [catalogo EXCEPT ![s] = "CANCELADA"]
    /\ mensagens' = mensagens \cup {<<FilaSessaoCancelada, s>>}
    /\ UNCHANGED <<banco, processadas, caixa, entregues, indice, pedido, sessao, agora>>

(* PUT writes any status over the one there is: a cancelled session comes  *)
(* back, or one is cancelled without this service being told, for          *)
(* sessao.alterada goes to none of its queues.                             *)
AlterarSessao(s) ==
    /\ s \in Alteraveis
    /\ catalogo[s] # "INEXISTENTE"
    /\ \E status \in Situacoes(s) : catalogo' = [catalogo EXCEPT ![s] = status]
    /\ UNCHANGED <<banco, mensagens, processadas, caixa, entregues, indice, pedido, sessao,
                   agora>>

Desfechos(r) == {<<FilaPagamentoSucesso, r>>, <<FilaPagamentoFalhou, r>>}

(* pagamento announces the one outcome of a reservation it heard of. *)
AnunciarDesfecho(r) ==
    /\ r \in entregues
    /\ mensagens \cap Desfechos(r) = {}
    /\ \E m \in Desfechos(r) : mensagens' = mensagens \cup {m}
    /\ UNCHANGED <<banco, catalogo, processadas, caixa, entregues, indice, pedido, sessao, agora>>

(* Time passes until every reservation of the bound has fallen due. *)
PassarTempo ==
    /\ agora < Horizonte + TTL
    /\ agora' = agora + 1
    /\ UNCHANGED <<banco, fora, processadas, caixa, indice, pedido, sessao>>

-----------------------------------------------------------------------------
Pedir(r) ==
    \/ \E s \in Sessoes : BuscarSessao(r, s)
    \/ \E S \in SUBSET Poltronas : Conceder(r, S)
    \/ Recusar(r)
    \/ Marcar(r)
    \/ PerderMarcacao(r)

Consumir ==
    \/ \E r \in Reservas : Confirmar(r) \/ Cancelar(r)
    \/ \E s \in Sessoes : ProvisionarMatriz(s) \/ CancelarPendentesDaSessao(s)
    \/ \E m \in Mensagens : IgnorarDuplicata(m)

Rotinas ==
    \/ \E travadas \in SUBSET {r \in Reservas : TravadaPorMensagem(r)} :
          ExpirarVencidas(travadas)
    \/ \E r \in Reservas : ExpirarUma(r) \/ PerderPrazo(r) \/ Publicar(r)
    \/ \E m \in Mensagens : LimparMensagensProcessadas(m)

Catalogar == \E s \in Sessoes : CriarSessao(s) \/ RemoverSessao(s) \/ AlterarSessao(s)

Ambiente ==
    \/ Catalogar
    \/ \E r \in Reservas : AnunciarDesfecho(r)
    \/ PassarTempo

Next == (\E r \in Reservas : Pedir(r)) \/ Consumir \/ Rotinas \/ Ambiente

Spec == Init /\ [][Next]_vars

(* The sweep runs on a ticker and row locks are short: one of its turns    *)
(* finds nothing locked.  Redis, the broker and the clients get no         *)
(* fairness at all.                                                        *)
Justica == WF_vars(PassarTempo) /\ WF_vars(ExpirarVencidas({}))

FairSpec == Spec /\ Justica

-----------------------------------------------------------------------------
(* Safety. *)

Ativa(r) == reserva[r] \in {"PENDENTE", "CONFIRMADA"}

(* No double booking: two active reservations never share a seat, whatever *)
(* the interleaving of grants, outcomes, sweeps and redeliveries.          *)
PosseExclusiva ==
    \A r1, r2 \in Reservas :
        r1 # r2 /\ Ativa(r1) /\ Ativa(r2) => vinculo[r1] \cap vinculo[r2] = {}

(* poltronas.status, which the seat map shows and Conceder trusts, agrees  *)
(* with the reservations: a seat is RESERVADA exactly while a pending      *)
(* reservation is linked to it and OCUPADA exactly when a confirmed one is.*)
MapaFiel ==
    \A p \in Poltronas :
        /\ poltrona[p] = "RESERVADA" <=>
              \E r \in Reservas : reserva[r] = "PENDENTE" /\ p \in vinculo[r]
        /\ poltrona[p] = "OCUPADA" <=>
              \E r \in Reservas : reserva[r] = "CONFIRMADA" /\ p \in vinculo[r]

(* Every final state has its cause: nothing is confirmed without a payment *)
(* that succeeded, cancelled without a payment that failed or a DELETE of  *)
(* its session, which may be back by now, or expired before expira_em.     *)
DesfechoTemCausa ==
    \A r \in Reservas :
        /\ reserva[r] = "CONFIRMADA" => <<FilaPagamentoSucesso, r>> \in mensagens
        /\ reserva[r] = "CANCELADA" =>
              \/ <<FilaPagamentoFalhou, r>> \in mensagens
              \/ <<FilaSessaoCancelada, sessao[r]>> \in mensagens
        /\ reserva[r] = "EXPIRADA" => expiraEm[r] <= agora

(* A reservation holds seats of the session that was validated for it, so  *)
(* the price, the start and the cancellation that apply are its own.       *)
AssentosDaSessao ==
    \A r \in Reservas : \A p \in vinculo[r] : SessaoDe[p] = sessao[r]

(* A reservation and its fact exist together: pagamento never hears of a   *)
(* reservation that was not committed, and none is committed without a     *)
(* fact to announce it.                                                    *)
FatoDaReserva ==
    \A r \in Reservas :
        /\ reserva[r] # "NENHUMA" <=> r \in caixa
        /\ r \in entregues => reserva[r] # "NENHUMA"

(* A final state is final: no late outcome, redelivery after the record of *)
(* processed messages was cleaned, sweep or stray Redis event changes it.  *)
EstadoFinalImutavel ==
    [][\A r \in Reservas : reserva[r] \in Finais => reserva'[r] = reserva[r]]_vars

(* A sold seat stays sold, to the same reservation. *)
VendaDefinitiva ==
    [][\A p \in Poltronas : poltrona[p] = "OCUPADA" =>
          /\ poltrona'[p] = "OCUPADA"
          /\ \A r \in Reservas :
                reserva[r] = "CONFIRMADA" /\ p \in vinculo[r] =>
                    reserva'[r] = "CONFIRMADA" /\ p \in vinculo'[r]]_vars

(* Liveness: no seat stays reserved for ever; it is sold or released, even *)
(* when Redis loses every key and no payment outcome ever comes.           *)
ReservaTermina == \A p \in Poltronas : []<>(poltrona[p] # "RESERVADA")

(* A session that stays cancelled, by a DELETE or by a PUT that tells      *)
(* nobody, and is not brought back, ends up with no pending reservation:   *)
(* the requests that had read it as AGENDADA and the rows the cancellation *)
(* skipped fall to the sweep.                                              *)
SessaoCanceladaEsvazia ==
    \A s \in Sessoes :
        <>[](catalogo[s] = "CANCELADA") =>
            <>[](\A r \in Reservas : sessao[r] = s => reserva[r] # "PENDENTE")

(* The service keeps the promise of Venda: status and links together are   *)
(* the abstract seat and its owner, and every transaction of this module   *)
(* is one abstract step or none.                                           *)
DonoDe(p) ==
    IF \E r \in Reservas : Ativa(r) /\ p \in vinculo[r]
    THEN CHOOSE r \in Reservas : Ativa(r) /\ p \in vinculo[r]
    ELSE Nenhuma

Promessa == INSTANCE Venda WITH
    dono <- [p \in Poltronas |-> DonoDe(p)],
    usadas <- {r \in Reservas : reserva[r] # "NENHUMA"},
    Ninguem <- Nenhuma

CumpreVenda == Promessa!Spec
=============================================================================
