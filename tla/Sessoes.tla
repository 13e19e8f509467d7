------------------------------ MODULE Sessoes ------------------------------
(***************************************************************************)
(* The sessions and the films of the catalogue (src/catalogo), and the     *)
(* facts about sessions it leaves in its outbox.                           *)
(*                                                                         *)
(* Creating or changing a session is a request of several steps: the body  *)
(* is validated (a change first reads the row it is about), the film and   *)
(* the room are read, the room is found free, and only then a transaction  *)
(* writes the row and the fact.  Nothing is locked between them, so other  *)
(* requests fall in between.  Cancelling a session and every write of a    *)
(* film are one transaction.  A request refused at its first step changes  *)
(* nothing and has no action.                                              *)
(*                                                                         *)
(* Rooms are constant here: a room, once there, is never deleted and its   *)
(* layout never changes, which is what module Salas shows.                 *)
(***************************************************************************)
EXTENDS Naturals, FiniteSets

CONSTANTS
    Pedidos,        \* requests the server treats at once
    Sessoes,        \* identifiers GerarID gives
    Filmes,
    Salas,          \* the rooms that exist
    SalaEstranha,   \* a sala_id nobody registered
    Inicios,        \* data_hora_inicio, in units of time
    Duracoes,       \* duracao_minutos asked for, in the same units
    StatusPedidos,  \* bound: the statuses requests ask for
    Ausente         \* a field left out

StatusSessao == {"AGENDADA", "EM_ANDAMENTO", "FINALIZADA", "CANCELADA"}

ASSUME ConstantesSessoes ==
    /\ Inicios \subseteq Nat
    /\ Duracoes \subseteq Nat
    /\ StatusPedidos \subseteq StatusSessao
    /\ SalaEstranha \notin Salas
    /\ Ausente \notin Filmes \cup Salas \cup {SalaEstranha}
    /\ Ausente \notin Inicios /\ Ausente \notin StatusPedidos

VARIABLES
    duracao,   \* filmes.duracao_minutos; 0: no such row
    sessao,    \* rows of sessoes
    caixa,     \* facts in outbox_eventos, by what their message_id tells apart
    pedido,    \* where each request is
    naoViu     \* history: sessions the last write of each one could not see

vars == <<duracao, sessao, caixa, pedido, naoViu>>

(* What a body asks for.  Prices, languages and formats are valid or the   *)
(* request ends there; what is kept tells sessions apart in the grid.      *)
Corpos == [filme: Filmes \cup {Ausente}, sala: Salas \cup {SalaEstranha, Ausente},
           inicio: Inicios \cup {Ausente}, status: StatusPedidos \cup {Ausente}]

Linhas   == [filme: Filmes, sala: Salas \cup {SalaEstranha}, inicio: Inicios,
             status: StatusSessao]
SemLinha == [filme |-> Ausente, sala |-> Ausente, inicio |-> Ausente,
             status |-> "INEXISTENTE"]
Livre    == [fase |-> "livre", op |-> "nenhuma", id |-> Ausente, linha |-> SemLinha,
             fim |-> 0, depois |-> {}]

Criada(s, a) == <<"sessao.criada", s, a>>
Alterada(s)  == <<"sessao.alterada", s>>
Cancelada(s) == <<"sessao.cancelada", s>>
Fatos == {Criada(s, a) : s \in Sessoes, a \in Salas}
            \cup {Alterada(s) : s \in Sessoes} \cup {Cancelada(s) : s \in Sessoes}

TypeOK ==
    /\ duracao \in [Filmes -> Nat]
    /\ sessao \in [Sessoes -> Linhas \cup {SemLinha}]
    /\ caixa \subseteq Fatos
    /\ pedido \in [Pedidos ->
          [fase: {"validado", "referido", "conferido"}, op: {"criar", "alterar"},
           id: Sessoes, linha: Linhas, fim: Nat, depois: SUBSET Sessoes] \cup {Livre}]
    /\ naoViu \in [Sessoes -> SUBSET Sessoes]

Init ==
    /\ duracao = [f \in Filmes |-> 0]
    /\ sessao = [s \in Sessoes |-> SemLinha]
    /\ caixa = {}
    /\ pedido = [w \in Pedidos |-> Livre]
    /\ naoViu = [s \in Sessoes |-> {}]

Existe(s) == sessao[s] # SemLinha

(* StatusVisiveisNaGrade *)
NaGrade(status) == status \in {"AGENDADA", "EM_ANDAMENTO"}

Visivel(s) == NaGrade(sessao[s].status)

(* Sessao.FimPrevisto, with the duration the film has now. *)
FimPrevisto(s) == sessao[s].inicio + duracao[sessao[s].filme]

-----------------------------------------------------------------------------
(* Films. *)

(* NovoFilme: the one field of a film the grid depends on. *)
DuracaoValida(d) == d > 0

CriarFilme(f, d) ==
    /\ duracao[f] = 0
    /\ DuracaoValida(d)
    /\ duracao' = [duracao EXCEPT ![f] = d]
    /\ UNCHANGED <<sessao, caixa, pedido, naoViu>>

DoFilme(f) == {s \in Sessoes : Visivel(s) /\ sessao[s].filme = f}

(* What a request that already looked at the grid, for a session that will *)
(* be on it, misses when the sessions S change.                            *)
Perder(p, S) ==
    IF p.fase = "conferido" /\ NaGrade(p.linha.status)
    THEN [p EXCEPT !.depois = @ \cup (S \ {p.id})] ELSE p

(* A new duration moves the end of every session of the film, and of those *)
(* about to be written with the old one.                                   *)
MoverFim(f) ==
    /\ pedido' = [w \in Pedidos |->
          LET p == pedido[w] IN
          IF p.linha.filme = f /\ p.fase # "validado" /\ NaGrade(p.linha.status)
          THEN [p EXCEPT !.depois = Sessoes \ {p.id}]
          ELSE Perder(p, DoFilme(f))]
    /\ naoViu' = [s \in Sessoes |-> IF s \in DoFilme(f) THEN Sessoes \ {s} ELSE naoViu[s]]

(* AtualizarFilme: nobody looks at the sessions of the film. *)
AtualizarFilme(f, d) ==
    /\ duracao[f] > 0
    /\ DuracaoValida(d)
    /\ duracao' = [duracao EXCEPT ![f] = d]
    /\ IF d = duracao[f] THEN UNCHANGED <<pedido, naoViu>> ELSE MoverFim(f)
    /\ UNCHANGED <<sessao, caixa>>

(* MarcarForaDeCartaz: only the status changes, which no session looks at; *)
(* the row stays, the sessions refer to it.                                *)
RemoverFilme(f) ==
    /\ duracao[f] > 0
    /\ UNCHANGED vars

-----------------------------------------------------------------------------
(* Requests that create or change a session. *)

(* NovaSessao: fields without which there is no session, and the status a  *)
(* body without one gets; leaving it out is a mutant.                      *)
StatusDoCorpo(c) == c
Completo(c) == c.filme # Ausente /\ c.sala # Ausente /\ c.inicio # Ausente
NovaSessao(c) ==
    [c EXCEPT !.status = IF c.status = Ausente THEN "AGENDADA" ELSE c.status]

(* conferirGrade, its reads: a film and a room that exist. *)
Referencias(linha) == duracao[linha.filme] > 0 /\ linha.sala \in Salas
Referido(p) ==
    [p EXCEPT !.fase = "referido", !.fim = p.linha.inicio + duracao[p.linha.filme]]

(* The id of a request that creates is of this request alone. *)
IdNovo(s) == ~ Existe(s) /\ \A w \in Pedidos : pedido[w].id # s

(* CriarSessao reads nothing before the film and the room. *)
PedirCriacao(w, s, c) ==
    /\ pedido[w] = Livre
    /\ Completo(c)
    /\ IdNovo(s)
    /\ Referencias(NovaSessao(c))
    /\ pedido' = [pedido EXCEPT ![w] =
          Referido([Livre EXCEPT !.op = "criar", !.id = s, !.linha = NovaSessao(c)])]
    /\ UNCHANGED <<duracao, sessao, caixa, naoViu>>

(* A change keeps the room; the mutant takes the one of the body. *)
SalaDoCorpo(c, a) == c.sala # Ausente
MesmaSala(c, a) == c.sala \in {Ausente, a}

(* AtualizarSessao reads the row; a body without a room gets its room. *)
ComSala(c, a) == [c EXCEPT !.sala = IF c.sala = Ausente THEN a ELSE c.sala]
PedirAlteracao(w, s, c) ==
    /\ pedido[w] = Livre
    /\ Existe(s)
    /\ MesmaSala(c, sessao[s].sala)
    /\ Completo(ComSala(c, sessao[s].sala))
    /\ pedido' = [pedido EXCEPT ![w] =
          [Livre EXCEPT !.fase = "validado", !.op = "alterar", !.id = s,
                        !.linha = NovaSessao(ComSala(c, sessao[s].sala))]]
    /\ UNCHANGED <<duracao, sessao, caixa, naoViu>>

(* A change, its row read, reads the film and the room. *)
BuscarReferencias(w) ==
    /\ pedido[w].fase = "validado"
    /\ Referencias(pedido[w].linha)
    /\ pedido' = [pedido EXCEPT ![w] = Referido(@)]
    /\ UNCHANGED <<duracao, sessao, caixa, naoViu>>

(* SalaOcupada; comparing only the starts is a mutant. *)
MesmoInicio(sala, inicio, fim, exceto) ==
    \E s \in Sessoes \ {exceto} :
        Visivel(s) /\ sessao[s].sala = sala /\ sessao[s].inicio = inicio
SalaOcupada(sala, inicio, fim, exceto) ==
    \E s \in Sessoes \ {exceto} :
        /\ Visivel(s) /\ sessao[s].sala = sala
        /\ sessao[s].inicio < fim
        /\ FimPrevisto(s) > inicio

(* conferirGrade, its question to the grid, skipped when the session would *)
(* not be on it.                                                           *)
ConferirGrade(w) ==
    LET p == pedido[w] IN
    /\ p.fase = "referido"
    /\ NaGrade(p.linha.status) =>
          ~ SalaOcupada(p.linha.sala, p.linha.inicio, p.fim, p.id)
    /\ pedido' = [pedido EXCEPT ![w] = [p EXCEPT !.fase = "conferido", !.fim = 0]]
    /\ UNCHANGED <<duracao, sessao, caixa, naoViu>>

(* The fact that goes with the row, in the same transaction; calling every *)
(* write a change is a mutant.                                             *)
FatoDeAlteracao(p) == {Alterada(p.id)}
FatoDe(p) ==
    IF p.op = "criar" THEN {Criada(p.id, p.linha.sala)} ELSE {Alterada(p.id)}

(* A new row of s: it did not see the sessions D, and what was known of    *)
(* its old row is forgotten.                                               *)
Esquecer(s, D) == [x \in Sessoes |-> IF x = s THEN D ELSE naoViu[x] \ {s}]

(* SessaoRepository.Criar and Atualizar: all the columns, status included. *)
Gravar(w) ==
    LET p == pedido[w] IN
    /\ p.fase = "conferido"
    /\ sessao' = [sessao EXCEPT ![p.id] = p.linha]
    /\ caixa' = caixa \cup FatoDe(p)
    /\ pedido' = [x \in Pedidos |-> IF x = w THEN Livre ELSE Perder(pedido[x], {p.id})]
    /\ naoViu' = Esquecer(p.id, p.depois)
    /\ UNCHANGED duracao

(* The request ends without writing: a film or a room that is not there, a *)
(* room taken, a database out of reach, a client that left, a process that *)
(* fell.                                                                   *)
Recusar(w) ==
    /\ pedido[w] # Livre
    /\ pedido' = [pedido EXCEPT ![w] = Livre]
    /\ UNCHANGED <<duracao, sessao, caixa, naoViu>>

(* RemoverSessao: whatever the status was.  The message_id of its fact is  *)
(* of the session, and ON CONFLICT DO NOTHING keeps the first.             *)
RemoverSessao(s) ==
    /\ Existe(s)
    /\ sessao' = [sessao EXCEPT ![s].status = "CANCELADA"]
    /\ caixa' = caixa \cup {Cancelada(s)}
    /\ naoViu' = Esquecer(s, {})
    /\ UNCHANGED <<duracao, pedido>>

-----------------------------------------------------------------------------
EscreverFilme ==
    \E f \in Filmes :
        \/ \E d \in Duracoes : CriarFilme(f, d) \/ AtualizarFilme(f, d)
        \/ RemoverFilme(f)

(* That a request starts only when it is free is said before the bodies   *)
(* are listed, which spares TLC the list.                                  *)
Atender(w) ==
    \/ /\ pedido[w] = Livre
       /\ \E s \in Sessoes, c \in Corpos : PedirCriacao(w, s, c) \/ PedirAlteracao(w, s, c)
    \/ BuscarReferencias(w)
    \/ ConferirGrade(w)
    \/ Gravar(w)
    \/ Recusar(w)

Next == EscreverFilme \/ (\E w \in Pedidos : Atender(w)) \/ (\E s \in Sessoes : RemoverSessao(s))

Spec == Init /\ [][Next]_vars

-----------------------------------------------------------------------------
(* consultaDaGrade: the sessions a listing shows are those its JOINs with  *)
(* filmes and salas leave.                                                 *)
Grade == {s \in Sessoes : Visivel(s) /\ duracao[sessao[s].filme] > 0 /\ sessao[s].sala \in Salas}

(* Two sessions are in the same room at the same time. *)
Sobrepostas(a, b) ==
    /\ sessao[a].sala = sessao[b].sala
    /\ sessao[a].inicio < FimPrevisto(b)
    /\ sessao[b].inicio < FimPrevisto(a)

(* The grid has no two sessions in one room at one time, except the two    *)
(* ways the code leaves open: neither write could see the other, or the    *)
(* duration of a film changed after the check.  Whatever else happens, a   *)
(* session moved, cancelled and brought back included, the check made      *)
(* before the transaction is still good in it.                             *)
ConflitoSoPorCorrida ==
    \A a, b \in Grade :
        a # b /\ Sobrepostas(a, b) => b \in naoViu[a] \/ a \in naoViu[b]

(* A session and the fact of its creation exist together, for the room the *)
(* session is in: the seats the inventory made from it are of that room.   *)
(* Nothing is announced of a session that is not there.                    *)
FatoDaSessao ==
    /\ \A s \in Sessoes, a \in Salas :
          Criada(s, a) \in caixa <=> Existe(s) /\ sessao[s].sala = a
    /\ \A s \in Sessoes :
          {Alterada(s), Cancelada(s)} \cap caixa # {} => Existe(s)

(* A session stays in its room for as long as it exists, whatever was read *)
(* before a change and written after another.                              *)
SalaFixa ==
    [][\A s \in Sessoes :
          Existe(s) => sessao'[s] # SemLinha /\ sessao'[s].sala = sessao[s].sala]_vars

(* What the README says of a cancellation: it emits the fact that releases *)
(* the pending reservations.  It does not hold, see the run.               *)
CancelamentoAnunciado ==
    [][\A s \in Sessoes :
          RemoverSessao(s) /\ Visivel(s) => Cancelada(s) \in caixa' \ caixa]_vars
=============================================================================
