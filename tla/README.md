# Ingressos, verified

TLA+ models, TLC runs and TLAPS proofs for the ticket sale in `src/`: four Go
services (catalogo, estoque, pagamento, notificacao) with one PostgreSQL schema
each, a Redis used by estoque, a RabbitMQ topic exchange `cinema.eventos` between
them, Keycloak and a React interface in front. Names in the modules are the
names of the code.

## The system

```
 web ──HTTP──> estoque ──HTTP GET /sessoes/{id}──> catalogo
                  │  ▲  ▲                              │
   reserva.criada │  │  └── sessao.criada/cancelada ───┘
                  ▼  │ pagamento.sucesso / .falhou
              pagamento ── pagamento.sucesso ──> notificacao ──> ticket
```

| Component | State | Operations | What makes it correct |
| --- | --- | --- | --- |
| estoque: seats and reservations | `poltronas`, `reservas`, `reserva_poltronas`, `mensagens_processadas`, Redis keys `reserva:<id>` | reserve, confirm, cancel, expire (sweep and Redis event), cancel a session, create the seats of a session, forget old messages | no seat sold twice; holds end, all seats together; a sale is for ever; the seat map tells the truth; every end has a cause |
| outbox publisher of estoque and of catalogo | `outbox_eventos`, one channel of confirmations | enqueue in the transaction, drain, drain at shutdown (estoque), open the channel again (catalogo) | every committed fact reaches the broker; none is marked without its own confirmation |
| estoque: catalogue client | counters of a circuit breaker, kept by a library | read a session | a request that cannot read its session leaves no trace |
| pagamento | `transacoes` | receive `reserva.criada`, choose the form, claim, charge, finalize, announce, sweeps | at most one charge per reservation; one outcome, announced at least once; nothing charged after a cancellation |
| notificacao | `ingressos_emitidos`, `registros_notificacao`, a quorum queue with a delivery limit | issue a ticket, notify, validate at the gate, list | one ticket per reservation; one admission per ticket; one notice; no paid reservation acknowledged without its ticket |
| catalogo: sessions | `sessoes`, `outbox_eventos` | create, change, cancel, list the grid | no two sessions in one room at once; every session announced, with the seats of its room |
| catalogo: films | `filmes` | create, change, take off | sessions never lose their film |
| catalogo: cinemas, rooms, layouts | `cinemas`, `salas` | create, change, deactivate, bring back | one active room to a number; a layout is drawn once; what is announced is what estoque accepts |
| catalogo: listings | none | paging, filters | every row on one page |
| handlers, auth, config, health, web, infra | none that matters here | | |

catalogo writes in its own tables and its outbox; the interface, and estoque when
it grants seats, read it.

Interactions: estoque reads the session from catalogo synchronously and through
a circuit breaker; everything else is a message. Producers write a fact to an
outbox (estoque, catalogo) or announce it after the state that causes it
(pagamento); the broker delivers at least once, in any order between queues, and
consumers recognise repetitions by `(queue, message id)`, by a unique key or by
the state of the row.

The hard parts: concurrent grants of the same seats; an outcome against an
expiration against the cancellation of the session; redelivery, also after the
record of processed messages was cleaned; the session read before it is used;
crashes between two commits, or between a commit and Redis or the broker; sweeps
that skip locked rows and take a limited batch; two instances of pagamento on
one transaction; stale broker confirmations; in catalogo, what was checked (the
room is free, the number is free, the layout is this one) against what is written
a moment later. `PROJECT.json` lists each under
`hazards`, at its line.

## Modules

| Module | What it is |
| --- | --- |
| `Venda` | abstract: what estoque promises of the seats (free, held by one reservation, sold to it), no messages, clocks or rows |
| `Estoque` | estoque's seats and reservations; one action per committed transaction with what its use case does after the commit |
| `MCEstoque` | instances of `Estoque` for TLC |
| `EstoqueProofs` | type correctness, the safety properties, and that `Estoque` implements `Venda`, proved |
| `Pagamento` | the transactions of pagamento and the sweeps of its instances; one action per SQL statement, charge or publication |
| `MCPagamento` | instances of `Pagamento` for TLC |
| `Cobranca` | abstract: what pagamento promises of a reservation (charged once, ended once, announced as it ended), no rows, sweeps, instances or falls |
| `PagamentoProofs` | type correctness, the safety properties, and that `Pagamento` implements `Cobranca`, proved |
| `CaixaDeSaida` | the outbox of estoque or of catalogo, its publishers and the channel they share; `servico` says which of the two, and never changes |
| `MCCaixaDeSaida` | instances of `CaixaDeSaida` for TLC |
| `CaixaDeSaidaProofs` | type correctness, the safety properties and what the outbox promises, proved |
| `Bilhetes` | abstract: what notificacao promises (one ticket for each reservation it was told is paid, settled only with it, one notice, one admission), no queue, workers or attempts |
| `Notificacao` | the tickets, the queue they come from, the workers that issue and notify, the gates |
| `MCNotificacao` | instances of `Notificacao` for TLC |
| `NotificacaoProofs` | type correctness, the safety properties, and that `Notificacao` implements `Bilhetes`, proved |
| `Ingressos` | the four services joined by the broker: `Estoque`, `Cobranca` and tickets as `Bilhetes` allows them |
| `MCIngressos` | instances of `Ingressos` for TLC |
| `IngressosProofs` | pagamento and notificacao stay within what `Estoque` lets its surroundings do, the composition within `Cobranca` and `Bilhetes`; what holds from payment to ticket, proved |
| `Sessoes` | the sessions and films of catalogo and the facts about them; one action per query or transaction of a request |
| `MCSessoes` | instances of `Sessoes` for TLC |
| `SessoesProofs` | type correctness and the safety properties, proved |
| `Planta` | the layout of a room as operators: from the rows of a body to the seats announced and what estoque accepts |
| `Salas` | cinemas and rooms, the numbers of the active ones, the seats announced with sessions |
| `MCSalas` | instances of `Salas` for TLC |
| `Listagem` | paging as operators, with int arithmetic that wraps round |
| `PlantaProofs` | sorting and flattening: a layout does not depend on the order of its rows, and estoque accepts what catalogo announces of it, proved |
| `SalasProofs` | type correctness and the safety properties of `Salas`; pages partition a listing; proved |

`Ingressos` extends `Estoque` and instantiates `Cobranca`; `Pagamento`
instantiates `Cobranca` under its refinement mapping, `Estoque` instantiates
`Venda`, `Notificacao` and `Ingressos` each `Bilhetes`; `Salas` extends `Planta`,
`SalasProofs` extends `PlantaProofs`. `Sessoes` takes rooms as constants, which
`Salas` justifies (`SalaParaSempre` of `SalasProofs`: a room, once there, keeps
its layout and its cinema and is never erased).

### Estoque and the code

One variable per table or store: `poltrona`, `reserva`, `vinculo`
(`reserva_poltronas`), `expiraEm`, `processadas`, `caixa` (outbox), `indice`
(Redis); `pedido` and `sessao` are the local state of a request that is being
served; `mensagens` is what was ever published to the service's queues and
`entregues` what was handed to the broker; `catalogo` is what the catalogue
answers; `agora` is the clock.

A request is three steps because the code lets anything happen between them:
`BuscarSessao` (the session is read and checked, `ReservarPoltronas`),
`Conceder` (the transaction), `Marcar` (Redis, after the commit). `Recusar` and
`PerderMarcacao` are every way in which the second and the third do not happen:
an error, a lost lock, a client that left, a crash.

A message is never taken out of `mensagens`. That is at-least-once delivery with
no order at its most general: a handler may run at any time after the
publication, again after that (`IgnorarDuplicata`), and again as if new once
`LimparMensagensProcessadas` forgot it.

What other transactions hold when a `SKIP LOCKED` query runs is a
nondeterministic set of rows: `Disputada` for the cancellation of a session,
`TravadaPorMensagem` for the sweep. A handler that fails and rolls back leaves no
trace, so its failure is a step that does not happen.

The other services are environment actions: `CriarSessao`, `RemoverSessao`,
`AlterarSessao` (catalogo, its POST, DELETE and PUT), `AnunciarDesfecho`
(pagamento, at most one outcome for a reservation that reached it),
`PassarTempo`. estoque tells only `AGENDADA` from the rest (`AceitaReserva`), so
`CANCELADA` in `catalogo` stands for every other status. A session may be created
in either, a PUT writes either over the other, and only a DELETE is announced to
estoque: a session comes back, and one may be cancelled without a message. The
start is an input of the request that reads it (`Inicios`), since a PUT may have
moved it by then.

### Pagamento and the code

`status`, `emitida` and `anunciado` are the columns `status`, `cobranca_emitida`
and `resultado_anunciado` of `transacoes_pagamento`; `INEXISTENTE` is a
reservation without a row. `escolhendo` holds the requests that `EscolherForma`
let through and that have not written yet. `etapa`, `passo`, `lista` and `atual`
are the memory of an instance in the middle of `Varrer`: the part of the sweep,
the point in it, the copies of rows it read and has still to treat, and the one in
hand. `debitos` counts what the acquirer really took and `fatos` what the broker
was given: neither is visible to the code.

No use case of this service opens a transaction around two statements, so every
statement is an action of its own and everything may happen between two of them:
another instance, a request, the clock, a fall (`Queda`). What the code decides
on a copy, the model decides on the copy (`Tomar` looks at `expira_em` once, and
a cancellation decided there is written later), and what the `WHERE` of a
statement decides is a guard on the row (`Reivindicavel`, `Finalizavel`,
`EsperaVencida`). The acquirer's four answers are the four disjuncts of `Cobrar`;
only the one without an answer leaves open whether money was taken.

Two places are coarser than the code. `LIMIT` returns the oldest rows, and
`ComLimite` returns any `Lote` of them, which includes those. And when
`Finalizar` finds the row already final, the code reads it again in a second
statement, which `ResolverConflito` joins to the first: nothing is lost, because
a final status never changes (`FinalImutavel`, proved) and `anunciado` only grows, so a
later read would only find less to announce. A failed statement or publication
gives the row up for this turn (`FalharItem`); a failed query ends the turn
(`FalharConsulta`).

`abertos` holds the instances whose channel for publications is open. `executar`
opens it once; nothing watches it and `Publicar` never opens another, so after
`FecharCanal` every publication of that instance fails (`RecusarPublicacao`) until
it falls and is started again (`Queda`). `Consumir`, whose own channel closes with
the connection, returns `ctx.Err()`, which is nil, and the process stays up and
goes on sweeping, charging and writing outcomes.

`CumpreCobranca` maps a transaction to `Cobranca`: `AGUARDANDO_FORMA` and
`PROCESSANDO` are both an open one, the money taken is `debitos`, the announcements are `fatos`.
`CancelarEsperasVencidas` is `Desistir`, every other final statement `Encerrar`.

### CaixaDeSaida and the code

`linha` is `outbox_eventos` as committed: absent, pending (`publicado_em IS
NULL`) or published. A publisher, the ticker (`Publicador.Iniciar`) or the drain
at shutdown (`Publicador.Drenar`, estoque only), has a `fase`, the rows its
transaction locked (`lote`), those it has still to publish (`resto`) and those it
marked (`marcadas`, committed by `Confirmar`). `emVoo` and `confirmacoes` are the
channel: what the broker has still to answer, and what it answered and
`publicar` has not taken. `entregues` and `atrasos` are history that the code
does not see: what the broker accepted, and how many waits on this channel were
given up.

`Receber` is the line that matters: it takes the next confirmation of the
channel, without looking at its delivery tag, and counts it for the row in hand.
What differs between the services is a guard: catalogo finds its channel closed
and opens another (`Reabre`), estoque fails to publish until it is started again;
only estoque drains once more after SIGTERM, while the ticker's turn, whose
context is cancelled, may still be in its wait. `SoltarLinhas` is `database/sql`
rolling that turn back before the turn itself returns (`Interromper`).

Deliveries made by a turn that is rolled back stay made: at-least-once. What the
broker received on a channel that closes, or from a process that falls, is any
part of what was in flight.

### Notificacao and the code

`dono` and `estado` are `reserva_id` and `status` of `ingressos_emitidos`,
`registros` is `registros_notificacao`. `fila`, `entregas`, `mortas` and
`confirmadas` are the quorum queue: what is ready, how often each message came
back, what passed the limit, what was acknowledged. `canal`, `mao`, `devida`,
`passo` and `meu` are a goroutine of `Consumir` in the middle of `tratar`;
`devida` turns false when its channel closes, after which its acknowledgement is
refused and the queue gives the message to another worker while it goes on.
`leitura` is a gate between `Utilizar` and its answer. `avisos`, `entradas` and
`perdidas` are history: notices that arrived, people who went in, tickets spent by
a request that answered an error.

Every statement is an action: the insertion of the ticket, the notice, its
record, the acknowledgement; the use of a ticket and the reading that follows it.
An insertion may be committed and its answer lost (`FalharEmissao`), a notice may
arrive and be reported as failed (`Avisar`). A notice is tried once: whoever finds
the ticket already there acknowledges and does nothing else, so a fall between the
two leaves its owner without a notice for ever, and no property asks for one.

Each worker has a channel of its own, that is, a process with a prefetch of one.
Goroutines of one process lose their channel together; here they do so one after
the other, which adds behaviours and takes none away but for the bound on
failures.

`CumpreBilhetes` maps the service to `Bilhetes`: a reservation was heard of when a
message carries it, a ticket is a row with an owner, an announcement is settled
when its message was acknowledged, a ticket is used when its row says so; notices
and people are counted in both. Redeliveries, deaths of messages, retries, falls
and answers that were lost are stutters.

### Ingressos and the code

`Estoque` keeps all its variables and transactions. Its environment becomes
precise: `AnunciarDesfecho`, which there lets any one outcome appear for a
reservation whose announcement left, is replaced by `AnunciarPagamento`, which
`situacao` of `Cobranca` decides. `OuvirReserva` is the consumer of
`reserva.criada`, `Cobrar` and `CancelarEsperas` the sweep (a charge or an end of
one transaction, and the waits that `CancelarEsperasVencidas` ends together),
`EmitirIngresso` the row notificacao makes of a `pagamento.sucesso`. An announcement is there for estoque and for notificacao
from the same step on, and each takes it when it will: the queues are separate.

pagamento is represented by its promise and notificacao by the creation of
tickets, the one step of its promise the others are affected by.
`PagamentoCumpreCobranca` and `NotificacaoCumpreBilhetes` are what allows it, and
`ComposicaoCumprePromessas` says that nothing else is done here in their name: the
composition, seen as payments, is a behaviour of `Cobranca`, and seen as tickets
one of `Bilhetes`, with a reservation and its ticket under one name.
catalogo is represented as in `Estoque`, by the facts it sends and by what it
answers to `GET /sessoes/{id}`: created, cancelled, brought back or cancelled in
silence. How a request of catalogo comes to write a status is in `Sessoes`.

### Sessoes and the code

`sessao` and `duracao` are the rows of `sessoes` and `filmes`, `caixa` the
`message_id`s in `outbox_eventos`. `pedido` is a request between two of its
queries: `PedirCriacao` and `PedirAlteracao` are the validation with the first
reads (`CriarSessao.Executar`, `AtualizarSessao.Executar`), `BuscarReferencias` the
film and the room of `conferirGrade`, `ConferirGrade` its question to the grid,
`Gravar` the transaction with the fact, `Recusar` every other way to end.
`RemoverSessao` is one transaction; so is each write of a film.

`naoViu` and `depois` are history: which sessions the last write of a row could
not have seen, because they were written, or a duration changed, between its check
and its own write. The code sees neither; `ConflitoSoPorCorrida` is about them.

The reads of the film and of the room are one step: neither goes away and the
room never changes, so that a duration changed between them only counts as
changed before. Prices, languages and formats are valid or the request ends before it
reads anything; `StatusPedidos` bounds the statuses bodies ask for.

### Planta, Salas and the code

`cinema` and `sala` are the rows of `cinemas` and `salas`, with the layout as
`NovoLayoutSala` makes it. A label of a row (`fileira`) is its place in the
alphabet with the spelling it came in, which is all that trimming, upper case,
the comparison of labels and their order look at.
A type of seat the program has not is one value, `"OUTRO"`. The code sorts the
rows, no two of which have one letter, so any correct sort gives the same list:
`EmOrdem` takes a permutation that puts them in order (`OrdemUnica` proves that
there is one result). The lists clients send are any sequences of such rows.
`pedido` holds a request between two queries: the row, its cinema and the body
(`PedirCriacao`, `PedirAlteracao`), the number (`ConferirNumero`), the write
(`Gravar`). The partial unique index of the database is a guard of the write
(`IndiceAceita`), apart from the check that precedes it. A body that says nothing
of `ativo` says true, so a PUT brings a deactivated room or cinema back.

A session is here what it announces: `PedirSessao` reads the layout, `Anunciar`
puts its seats in the fact. `MatrizAceita` is the other side, what estoque's
`LerSessaoCriada` and `montarMatriz` accept; a matrix they refuse goes to the
dead letters, and the session never has a seat to sell.

### Listagem and the code

Operators only, and no run: `NovoPageRequest` and its validation, `Offset`, the
rows `LIMIT` and `OFFSET` leave, `TemProxima`. Products wrap round at `MaiorInt`.
gorm writes no `OFFSET` unless it is positive, so an overflow to a negative one
shows the first rows. The rows and their count are two queries, and nothing is said of what is
written between them.

## Runs

| Run | Question | Instance |
| --- | --- | --- |
| `estoque` | Is anything sold twice, undone, mixed between sessions, or shown wrongly, whatever the order of the steps? Does every transaction keep the promise of `Venda`? | 2 requests of at most 2 seats, 2 seats in one session that comes and goes and 1 in another, Redis on, batch 1, TTL 1 |
| `ingressos` | Is a sale ever without money, or a ticket without a seat but for a deadline or a cancellation? With Redis, broker and clients dead, does the sweep alone end every reservation and empty a cancelled session? Do pagamento and notificacao stay within what `Estoque` lets its surroundings do? | 2 reservations of 1 seat, 1 session that comes and goes, Redis off, batch 1, TTL 1, fair clock and sweep |
| `pagamento` | Is anything charged twice, announced wrongly, or marked before it was announced? Does every statement keep the promise of `Cobranca`? | 2 transactions, 2 instances, batch 1, 2 falls |
| `pagamento_vivacidade` | With one instance, is what was charged never cancelled or refused, whatever falls? Is every outcome announced, unless the channel stays closed, and does every wait for a choice end? | 2 transactions, 1 instance, batch 1, 2 falls, fair |
| `pagamento_debito` | violated: is what was charged never cancelled or refused, with two instances? | 1 transaction, 2 instances, no fall |
| `pagamento_interrompida` | violated: does the sweep take up an interrupted charge, as pagamento's README says? | 1 transaction, 1 instance, 1 fall, no other failure, fair |
| `caixa` | Is a fact marked that the broker does not have? How far can the confirmations of a shared channel slip? Does every committed fact go out? | 3 facts, both services, batch 2 (3 for the drain), 2 failures, fair |
| `caixa_trocada` | violated: is what is marked as published with the broker, or on its way? | as `caixa`, catalogo |
| `notificacao` | Does every statement keep the promise of `Bilhetes`, one ticket for a reservation among others? One admission, one notice, whatever is delivered twice or lost? Does every announcement end? | 1 reservation, 2 messages, 2 workers, 2 gates, limit 2, 2 failures, fair |
| `sessoes` | Does the grid of a room get a conflict other than by the two races the code leaves open? Has every session its fact? Does one ever change its room? | 2 requests, 2 sessions, 1 film, 2 rooms and one nobody registered, 2 starts, durations 0 to 2, 2 statuses |
| `sessoes_cancelamento` | violated: does every cancellation emit the fact that releases the reservations, as catalogo's README says? | 1 request, 1 session |
| `salas` | Are numbers of active rooms unique? Are the seats announced those of the room, for ever, and accepted by estoque? Can a room be sent back as it was read? | 2 requests, 2 cinemas, 2 rooms, numbers 0 to 2, 9 lists of rows, 6 of them refused |

Bounds. `Horizonte` stops grants after that instant so that the clock stops at
`Horizonte + TTL`, when every reservation has fallen due. In
`estoque` it is 0, with `TTL = 1` and starts 0 or 1: reservations are granted before
anything is due and the clock goes to the instant when all are. `Alteraveis` are the
sessions that get any status and are removed; the others are created `AGENDADA`
and stay. In `estoque` it is the session of two seats, while the other is there for
what must not reach it; in `ingressos` it is the only session. In
`ingressos` it is 1, so that one reservation may expire and its seat be granted
again while the payment of the first is on its way, and a request may be
refused because the session started. Two requests are enough for every race over
a seat (one that holds, one that takes it next), two seats for all-or-nothing and
for overlapping requests, and a third, in another session, for requests and
cancellations that mix sessions; `Lote = 1` with two due reservations makes the
batch limit bite. Requests and seats of one session are symmetric in `estoque`,
which checks safety only. The system really may stop (all requests served, all
messages handled), hence `CHECK_DEADLOCK FALSE`.

Of pagamento: `Prazo = 1` and `Horizonte = 1` give each transaction a time before
and a time after it expires, which is all the code compares. `Lote = 1` with two
rows makes the limit bite and lets the sweeps of two instances hold different
rows. `MaxQuedas` bounds falls, failed queries and closed channels together: two of
them in any combination, of one instance or of both. The two transactions and the two instances are symmetric.

Of the outbox: with three facts and a batch of two a turn leaves a row behind and
holds one that another publisher skips; the drain takes all three. `MaxFalhas`
bounds refusals, closings, database errors, waits given up, orders to stop and
falls together: two of them in any combination, which the violation needs. Of
notificacao: two messages of one reservation and two workers give every race
over its ticket; two identifiers let a second ticket appear if something let it;
a limit of two lets a message come back once and die the second time.

Of the sessions: a conflict is between two sessions and a race between two
requests. Starts 0 and 1 with durations 1 and 2 give sessions that touch, that
overlap with different starts, and that come to overlap when the duration
changes; duration 0 is the one that is refused. Statuses `AGENDADA` and
`CANCELADA` are one on the grid and one off it, which is all the code compares.
Of the rooms: two of them for one number, two cinemas for a room that is asked to
change its own; number 0 is refused. The lists of rows are two layouts, one of
them in two orders, and one for each reason to refuse a list. Requests, rooms,
cinemas and sessions are symmetric.

Fairness of estoque (`Justica`), which `ingressos` assumes and nothing else: time
passes, and one turn of the sweep finds nothing locked. The sweep is a ticker that
retries after an error and row locks last one short transaction, so turns that
skip a row cannot go on for ever. Nothing is assumed of Redis, of the broker, of
other services or of clients.

Fairness of pagamento (`Justica`): time passes; an instance that has something to
do does something (the ticker of `Varrer`); and, for each row, the claim, the
final statement, the mark and, while the channel is open, the publication are not
refused every time they are tried (strong fairness, since a failure gives the row
up and the next turn tries again): a database that is down comes back. A row that
fails every time, for a reason of its own, is outside this assumption, and so are
the rows it keeps out of a limited batch. Nothing is assumed of the acquirer or of
who chooses a payment form. `AnuncioSai` has one exception, which is the code's: no
instance has an open channel ever again. The run `pagamento_interrompida` assumes
more (`SpecSemFalhas`): no statement about a row fails, and an acquirer that is
asked for ever attempts the charge at last.

Fairness of the outbox: a publisher that can go on does (the ticker ticks, a
`for` over rows ends), the broker answers what it received while the channel is
open, a wait ends after its five seconds, and a service that was told to stop
ends and is started again. Failures are bounded, so they end. `FatoSai` has two
exceptions, which are the code's: a fact that was marked in place of another, and
estoque's closed channel, which no line of estoque opens again.

Fairness of notificacao: a worker goes on, and takes a message that is ready when
it is free. Failures are bounded. `IngressoSai` has two exceptions: the dead-letter
queue, and every consumer having lost its channel. `Consumir` then returns
`ctx.Err()`, which is nil, `main` takes that for no error, and the process stays
up without a consumer.

In `ingressos`, `Perdeu` names the two ways to pay, get a ticket and have no seat:
nobody asks estoque whether the seats are still there before the charge, nor
before the ticket. And a request may be granted after the cancellation of its
session was processed (the session is read at `reservar_poltronas.go:26` and used
at line 43 without another look), so its reservation stays pending, and payable,
until it expires: `SessaoCanceladaEsvazia` shows that it does not stay longer,
nor do the reservations of a session a PUT cancelled without a word to estoque. It
speaks of a session that stays cancelled: one that is brought back takes requests
again. `DesfechoTemCausa` and `Perdeu` look for the announcement of the
cancellation, not for the status of today: a `sessao.cancelada` that is late, or
handled again once its record was cleaned, cancels what is pending in a session
that is back.

`pagamento_debito`: two instances list the same row. One claims and charges it in
time; the other comes to its copy, which says that no charge was issued, after the
row expired, and cancels it under the charge. The first then finds the row final
and gives its approval up: the customer paid for a
reservation that is announced as failed. `DebitoTemDono` holds with one instance.

`pagamento_interrompida`: the sweep lists only rows whose charge was not issued,
so a row claimed by an instance that fell before writing the outcome is never
listed again. It stays in `PROCESSANDO`, with its charge perhaps made, and nothing
is announced of it. The run allows one fall and nothing else to go wrong; without
that fall the property holds.

`caixa_trocada`: the confirmation of a fact comes after its five seconds. The
channel stays open, so the next turn of the loop reads that confirmation for the
next fact and marks it. When the broker refuses that one, or the channel closes
first, the row is published in the table and nowhere else. `TrocaSoPorAtraso`
shows that nothing else in either service exchanges confirmations.

`EntradaUnica` holds although `ValidarIngresso.Executar` reads the ticket again
after the conditional update said yes: when that reading fails the gate gets an
error, the ticket is used, and the next attempt is refused as reuse. Nobody
enters twice; somebody may not enter at all.

`ConflitoSoPorCorrida` says what the check before the transaction is worth. The
grid does get conflicts: two requests that check before either writes, or a
longer duration for a film that is already scheduled. There are no others, also
when sessions are moved, cancelled and brought back in between.

`sessoes_cancelamento`: a session is created, removed, brought back by a PUT (which
writes the status of the body, or `AGENDADA`) and removed again. The `message_id` of
the second `sessao.cancelada` is the one of the first, and `ON CONFLICT DO NOTHING`
leaves the outbox as it was. estoque never hears of the second cancellation and
the reservations made in between stay until they expire.

## Proofs

### Estoque

For any number of requests, seats and sessions, any `TTL`, batch and limit, under
`ConstantesAssumption` only.

The inductive invariant is `Exclusividade`: the types, no double booking, the
seat map, and `PedidoSemReserva` (a request that was not granted has no
reservation). No part is inductive alone. A grant looks only at
`poltronas.status`; that no other active reservation holds the seat follows from
the seat map. The seat map survives the release of a reservation's seats only
because no other active reservation is linked to them. And `Conceder` creates a
row, instead of overwriting one, because of `PedidoSemReserva`.

All ends of reservations (outcomes, expirations, cancellations) are instances of
one formula, `Encerra(R, fim)`: the rows `R`, all pending, go to `fim`.
`EncerraDe` proves that each handler is one and `FinalizarPreserva` that such a
step keeps the invariant, once for all of them.

From it follow `SemVendaDupla`, `MapaSempreFiel`, `FinalNaoMuda`,
`VendaNaoDesfeita`, `FatoComReserva` and `AssentosDeUmaSessao`. `FimTemCausa`
needs a second invariant, `Causalidade`, and that no step takes a cause back
(`CausasFicam`): what was announced stays so, whatever becomes of the session, and
neither the session nor the deadline of a reservation changes.

`EstoqueCumpreVenda` proves the refinement. The abstract owner of a seat is the
active reservation linked to it, unique by `PosseExclusiva`; every end but a
confirmation is `Soltar`, a confirmation `Vender`, a grant `Reter`, the creation
of seats `Abrir`, and all else a stutter. It adds one invariant, `ComPoltrona`: a
granted reservation has a seat.

### Pagamento

For any number of transactions and instances, any deadlines and batch, without
the bounds on time and falls mattering, under `ConstantesPagamento` only.

`CobradaUmaVez` (`UmDebito`) rests on the invariant `CobrancaUnica`. A charge is
made between a claim and the statement that ends or releases it, and the row only
says that somebody claimed it, not who. The missing part is that the right to
charge is held once: `DireitoUnico` says that at most one instance is between the
claim and the end of a row; `DebitoReivindicado`, that a row that is not claimed
has no charge and that the answer an instance holds agrees with what the acquirer
did. `LiberarCobranca` gives the claim back without breaking it because it is
reached only when the charge was not attempted.

`AnuncioCorreto` (`FatoFiel`) and `MarcaSegueBroker` (`MarcadoFoiPublicado`) rest on `AnuncioFiel`: a copy in the hands of an
instance that announces is of a final row and still agrees with it (`CopiaFiel`),
and an instance that is about to mark has published (`MarcaDepois`).
`FinalParaSempre` (`FinalImutavel`) follows from the guards on `status` alone,
through all actions.

`DonoComUmaInstancia` proves `DebitoTemDono` from `UmaInstancia`, the assumption
that there is one instance. Its invariant, `CobrancaComDono`, adds what two
instances break: the copies an instance has yet to treat are of rows nobody
charged (`CopiaNaoCobrada`), the right to charge stays valid while it is held
(`DireitoVale`), and a row not chosen was not claimed (`NaoEscolhida`).
`RecusadaNaoDebitada` is the half of `DebitoTemDono` that any number of instances
keep: nobody who was refused was charged. It is proved of `Cobranca` alone and
carried over by the refinement.

`PagamentoCumpreCobranca` proves the refinement, under `PromessaFiel`: the two
invariants above and `DireitoNaFila`, that the row of an instance with the right to
charge is being charged, or was cancelled by another instance on an old copy. A charge made after another instance cancelled the
row is the step `Debitar` of a cancelled transaction, which is why the promise has
it.

`InterrompidaSoPorFalha` is about the run `pagamento_interrompida`. A charge is
interrupted (`Interrompida`) when its row is claimed and being charged, and no
instance is at it. `InterrupcaoTemFalha` says that only a failure does that, of the
instance that held the claim: races, conflicts and old copies never do.
`InterrompidaFica` says what follows: it is not charged again, and it stays as it
is, unless a copy read before the claim cancels it. The loss the run shows on one
instance is there for any number of them, and it is the only one.

### CaixaDeSaida

For any number of facts, any batches and any number of failures, in both
services, under `ConstantesCaixa` only.

`SemTroca` (`TrocaSoPorAtraso`) rests on the inductive invariant `Ordem`. A row is
marked because of an answer, and only the order of the channel says whose answer
it is. `CanalEmDia` says that, while no wait was given up, the channel holds at
most one answer or one message to answer, and it is of the row in hand of the one
publisher that waits. That needs `UmDeCadaVez` (the drain works only after the
order to stop, and a ticker still working then has given its wait up) and
`FechadoCalado` (a closed channel answers nothing). `SobraDeDesistencia`
(`SobraContada`) says what happens when waits are given up: the confirmations slip
by one for each. It is the conjunct `Folga`, in which a ticker whose turn was
cancelled already counts as a wait given up that is not over.

Three theorems state what an outbox is for, over the invariant `Caixa`, which adds
to `Ordem` what the publishers hold (`Retida`: rows that are pending, and marks
among them). `NadaSemCommit`: the broker holds, and is about to answer, only facts
whose transaction was committed. `LinhaNaoVolta`: a row goes from absent to pending
to published and never back, whatever is rolled back or falls. `PeloMenosUmaVez`:
while no wait was given up (`atrasos = 0`), what is marked reached the broker, so that
refusals, closed channels, falls and restarts lose nothing; its hypothesis is
about the behaviour, and the run `caixa_trocada` shows that it is needed.

### Notificacao

For any number of reservations, messages, workers and gates, any limit and any
number of failures, under `ConstantesNotificacao` only.

Each property has its own invariant over the types. `UmIngresso`: `LinhaInteira`
(a row has an owner from its first moment) lets the unique key speak for all rows.
`UmaEntrada`: `BaixaContada` says that a ticket that is not used, or is in the
hands of a gate that will authorise it, let nobody in yet. `ConfirmadaSegura`:
`Tratada` says that whoever comes to the acknowledgement has the ticket of its
message, and `TemIngressoFica` that no step takes it back. `UmAviso`: `AvisoDeUm`
says that the right to notify belongs to the one worker that created the ticket,
and counts what it has done with it. `EfeitoNosIngressos` reduces the actions to
the three that touch tickets or gates, once for all of these proofs.

`NotificacaoCumpreBilhetes` proves the refinement of `Bilhetes` under
`PromessaFiel`, the three invariants behind the properties together. A ticket is
emitted only once for a reservation because of the unique key, and for one that was
heard of because a worker inserts for the message in its hand; the acknowledgement
maps to `Atender`, which asks for the ticket (`Tratada`); the notice to `Avisar`,
which asks that none arrived (`AvisoDeUm`); the answer of a gate to `Entrar`
(`BaixaContada`).

### Ingressos

For any number of reservations, seats and sessions, under `ConstantesAssumption`.

`ComposicaoCumpreEstoque`: every step of the composition is a step of `Estoque` or
leaves it alone, so its theorems hold in the composition (`LastroSempre`). It is a
statement about pagamento and notificacao: that the first announces only what
`Estoque` lets its environment announce, of a reservation whose announcement left,
and one outcome, and that the second does nothing to estoque. Of catalogo and the
clock it says nothing, for their actions here are those of `Estoque`; that module
lets a session be created, cancelled, announced and brought back in any order, as
`Sessoes` does with more detail, but no refinement relates the two. The inductive
invariant `Composicao` says so with `SoAnunciadas` and `MensagemFiel`; with
`PagoFoiDebitado`, `AnuncioFiel` and `BilheteAnunciado` it carries a payment from
the charge to the ticket. `ComposicaoCumprePromessas`, under the same invariant,
is the other direction: the composition does to payments what `Cobranca` allows
and to tickets what `Bilhetes` allows. `VendaSemprePaga` and `BilheteSempreTemLugar` follow from it, from `PosseExclusiva`,
`DesfechoTemCausa` and `FatoDaReserva`.

### Sessoes

For any number of requests, sessions, films and rooms, under `ConstantesSessoes`.

The inductive invariant `Registro` has the types, `IdsSeparados` (the id of a
request that creates belongs to it alone), `AlteracaoNoLugar` (a change in course
has the room its session has now), `ReferenciasFicam` (what was read exists still)
and `FatoDaSessao`. `SalaParaSempre` (`SalaFixa`) needs the first two: a change
writes all the columns from a copy.

`CancelamentoSemAlteracao` is what holds of the promise the run
`sessoes_cancelamento` refutes: the removal of a session on the grid that was never
changed leaves the fact of its cancellation. Its invariant, `SoAlteracaoReabre`,
says that a session whose cancellation was announced is cancelled still, or a
change was announced of it. That a new session cannot take the place of a
cancelled one is `IdsSeparados`.

`ConflitoTemCorrida` (`ConflitoSoPorCorrida`) needs `GradeVigiada`, which adds
`FimLido` (the end a request computed is right unless a duration changed) and
`RespostaVale` (a request that was told the room is free still has it, but for the
sessions it recorded as unseen). Only with both is the check still good when the
row is written.

### Planta, Salas and Listagem

`PlantaProofs` has no assumption but the form of a row. `OrdemNaoImporta`: the rows
of a body in another order are accepted too, and make the same layout. An order
that sorts exists (`OrdemExiste`, by insertion of one more row, `OrdenaMais`), and
two sorted permutations of one list without a repeated letter are equal
(`OrdemUnica`, because a permutation of `1..n` that grows is the identity,
`CrescenteFixa`). `PlantaValidaSeVende`: what `NovoLayoutSala` accepts, estoque
provisions. Its seats are at least one, valid, each once, and as many as the
capacity; they come from flattening the rows, which is followed row by row
(`MaisUmaFileira`): the seats of the first rows are distinct, and bear letters of
these rows alone. `ReenvioMesmaPlanta` is the lemma behind a room sent back.

These are inductions. The library's rules take an operator as a parameter, so
`Inducao` is stated over sets of naturals instead, proved from the
well-foundedness of the order on `Nat`; each induction defines the set of lengths
for which its claim holds. What the recursive functions of the library's
`FlattenSeq` and of `CapacidadeTotal` compute is found the same way, by the
existence of a function with the equations (`JuntaExiste`, `SomaExiste`).

Of `Salas`, for any number of requests, cinemas and rooms and any lists of rows,
under `ConstantesSalas`. The inductive invariant `Cadastro` has the types, `IdsNovos`,
`LinhaFiel` (a request in course on an existing room holds its cinema and layout),
`NumeroUnico` and `AnuncioDaSala`. The number stays unique because of the index
alone; the announcement stays true because no step changes a layout, which is
`LinhaFiel` at the write of a change. `AnuncioSempreAceito` (`AnuncioAceito`) and
`ReenvioSempreAceito` (`ReenvioAceito`) follow from the types and the theorems of
`PlantaProofs`. `SalaParaSempre` (`SalaPermanece`) says of every step what the rest
of the system takes from a room: it is not erased and keeps its cinema and its
layout. `SalaTemCinema` (`CinemaDasSalas`): a room has a cinema on file, although
the question whether it exists and the write are two steps, because a cinema is
removed and never erased; it needs the same of the requests in course
(`CinemaDosPedidos`).

`PaginasParticionam`: for every size the server accepts, each row of a listing is
on exactly one page, and a page says that another follows exactly when there are
rows left, as long as the rows and one more page can be counted in an `int`.

### What is only model-checked

The liveness properties, under fairness, which is out of the prover's reach; and
what the violation runs show, which are single behaviours. Every invariant and
every action property of a passing run is stated by a theorem, and so are the four
refinements: `CumpreVenda`, `CumpreCobranca`, `CumpreBilhetes` and
`CumpreEstoque`.

The other way round, some theorems state what no run lists: the three promises of
the outbox, `SalaPermanece`, `CinemaDasSalas`, `IngressoUnico` (which
`CumpreBilhetes` implies), `CumprePromessas`, `RecusadaSemDebito`,
`InterrupcaoTemFalha` with `InterrompidaFica`, `SemAlteracaoAnuncia`, and the
operators of `Planta` and `Listagem`.

## Not modelled

- Row locks statement by statement. A transaction of estoque is one step; what
  another one holds shows as the rows a `SKIP LOCKED` skips or as a refusal of the
  request. Statements inside a transaction see each other's locks only in
  PostgreSQL, which the models take as it is documented.
- The circuit breaker. `cliente.go` configures one of a library; what it can do to
  a request is to fail, which `Recusar` of `Estoque` allows at any time.
- The notice of a ticket whose worker fell between the two: no code owes it to
  anybody later, so `AvisoUnico` is at most once.
- Codes of tickets and their signature, tokens and keys: pure functions of a
  library's cryptography.
- Reads that change nothing: a payment, the tickets of an owner, filters of the
  listings, one row of the catalogue.
- Data no property looks at: titles, genres, addresses, prices, languages, types
  of screen.
- HTTP formatting, OpenAPI, configuration, health, metrics, the React interface,
  containers and the command-line publisher: no state the properties are about.
