--------------------------- MODULE SessoesProofs ---------------------------
(***************************************************************************)
(* Proofs about Sessoes, for any number of requests, sessions, films and   *)
(* rooms, any times and durations.                                         *)
(***************************************************************************)
EXTENDS Sessoes, TLAPS

EmCurso(w) == pedido[w] # Livre

(* The id of a session being created is of one request, and of no row.     *)
IdsSeparados ==
    \A v \in Pedidos : EmCurso(v) /\ pedido[v].op = "criar" =>
        /\ ~ Existe(pedido[v].id)
        /\ \A w \in Pedidos : EmCurso(w) /\ w # v => pedido[w].id # pedido[v].id

(* A change is of a row that exists, and keeps the room it has now.        *)
AlteracaoNoLugar ==
    \A w \in Pedidos : EmCurso(w) /\ pedido[w].op = "alterar" =>
        Existe(pedido[w].id) /\ sessao[pedido[w].id].sala = pedido[w].linha.sala

(* Films and rooms do not go away once they were read. *)
ReferenciasFicam ==
    /\ \A w \in Pedidos : pedido[w].fase \in {"referido", "conferido"} =>
          Referencias(pedido[w].linha)
    /\ \A s \in Sessoes : Existe(s) => Referencias(sessao[s])

(* The end computed for a session is the one it will have, unless the      *)
(* duration changed and everything counts as unseen.                       *)
FimLido ==
    \A w \in Pedidos :
        pedido[w].fase = "referido" /\ NaGrade(pedido[w].linha.status) =>
            \/ pedido[w].depois = Sessoes \ {pedido[w].id}
            \/ pedido[w].fim = pedido[w].linha.inicio + duracao[pedido[w].linha.filme]

(* The row of a request and session b would be in the same room at once.   *)
Cruza(p, b) ==
    /\ sessao[b].sala = p.linha.sala
    /\ sessao[b].inicio < p.linha.inicio + duracao[p.linha.filme]
    /\ p.linha.inicio < FimPrevisto(b)

(* What the grid answered is still true of the sessions that did not       *)
(* change since.                                                           *)
RespostaVale ==
    \A w \in Pedidos :
        pedido[w].fase = "conferido" /\ NaGrade(pedido[w].linha.status) =>
            \A b \in Sessoes : b # pedido[w].id /\ Visivel(b) /\ Cruza(pedido[w], b) =>
                b \in pedido[w].depois

(* The inductive invariants: of the facts and rooms, and of the grid.      *)
Registro == TypeOK /\ IdsSeparados /\ AlteracaoNoLugar /\ ReferenciasFicam /\ FatoDaSessao

GradeVigiada == Registro /\ FimLido /\ RespostaVale /\ ConflitoSoPorCorrida

-----------------------------------------------------------------------------
(* What a request in course holds. *)
Andamento == [fase: {"validado", "referido", "conferido"}, op: {"criar", "alterar"},
              id: Sessoes, linha: Linhas, fim: Nat, depois: SUBSET Sessoes]

LEMMA PedidoTipo ==
    ASSUME TypeOK, NEW w \in Pedidos
    PROVE  /\ pedido[w] \in Andamento \/ pedido[w] = Livre
           /\ EmCurso(w) <=> pedido[w].fase # "livre"
           /\ EmCurso(w) => pedido[w] \in Andamento
<1>1. pedido[w] \in Andamento \/ pedido[w] = Livre
  BY DEF TypeOK, Andamento
<1>2. Livre.fase = "livre" /\ \A q \in Andamento : q.fase # "livre"
  BY DEF Livre, Andamento
<1>3. QED
  BY <1>1, <1>2 DEF EmCurso

(* The row of a body that is complete. *)
LEMMA LinhaDoCorpo ==
    ASSUME NEW c \in Corpos, Completo(c)
    PROVE  /\ NovaSessao(c) \in Linhas
           /\ NovaSessao(c).sala = c.sala
  BY ConstantesSessoes DEF Corpos, Completo, NovaSessao, Linhas, StatusSessao

(* The room a change is about is the one the row has. *)
LEMMA CorpoNaSala ==
    ASSUME NEW c \in Corpos, NEW a \in Salas, MesmaSala(c, a)
    PROVE  ComSala(c, a) \in Corpos /\ ComSala(c, a).sala = a
  BY ConstantesSessoes DEF Corpos, ComSala, MesmaSala

(* Rows and what is not one. *)
LEMMA LinhaExiste ==
    ASSUME NEW l \in Linhas
    PROVE  l # SemLinha
  BY DEF Linhas, SemLinha, StatusSessao

(* Only one request changes, and what it holds is in order. *)
LEMMA SoPedido ==
    ASSUME Registro, UNCHANGED <<duracao, sessao, caixa, naoViu>>,
           NEW w \in Pedidos, NEW q, pedido' = [pedido EXCEPT ![w] = q],
           \/ q = Livre
           \/ /\ q \in Andamento
              /\ q.op = "criar" =>
                    /\ ~ Existe(q.id)
                    /\ \A v \in Pedidos : EmCurso(v) /\ v # w => pedido[v].id # q.id
              /\ q.op = "alterar" => Existe(q.id) /\ sessao[q.id].sala = q.linha.sala
              /\ q.fase # "validado" => Referencias(q.linha)
    PROVE  Registro'
<1>1. \A v \in Pedidos : pedido'[v] = IF v = w THEN q ELSE pedido[v]
  BY DEF Registro, TypeOK
<1>2. TypeOK'
  BY DEF Registro, TypeOK, Andamento
<1>3. Livre.fase = "livre" /\ \A x \in Andamento : x.op \in {"criar", "alterar"}
  BY DEF Livre, Andamento
<1>4. IdsSeparados'
  BY <1>1, <1>3, PedidoTipo DEF Registro, IdsSeparados, AlteracaoNoLugar, EmCurso, Existe
<1>5. AlteracaoNoLugar'
  BY <1>1 DEF Registro, AlteracaoNoLugar, EmCurso, Existe
<1>6. ReferenciasFicam'
  BY <1>1, <1>3 DEF Registro, ReferenciasFicam, Referencias, Existe, Andamento
<1>7. FatoDaSessao'
  BY DEF Registro, FatoDaSessao, Existe
<1>8. QED
  BY <1>2, <1>4, <1>5, <1>6, <1>7 DEF Registro

(* Only what the requests did not see changes, and durations of films that *)
(* are there.                                                              *)
SoVista(v) ==
    /\ pedido'[v].fase = pedido[v].fase /\ pedido'[v].op = pedido[v].op
    /\ pedido'[v].id = pedido[v].id /\ pedido'[v].linha = pedido[v].linha
    /\ pedido'[v].fim = pedido[v].fim

LEMMA VistaMuda ==
    ASSUME TypeOK, NEW w \in Pedidos, NEW D \in SUBSET Sessoes
    PROVE  LET q == [pedido[w] EXCEPT !.depois = D]
           IN  EmCurso(w) => /\ q \in Andamento /\ q.depois = D
                             /\ q.fase = pedido[w].fase /\ q.op = pedido[w].op
                             /\ q.id = pedido[w].id /\ q.linha = pedido[w].linha
                             /\ q.fim = pedido[w].fim
  BY PedidoTipo DEF Andamento

LEMMA PerderVista ==
    ASSUME TypeOK, NEW w \in Pedidos, NEW S \in SUBSET Sessoes
    PROVE  LET p == pedido[w]
               q == Perder(p, S)
           IN  /\ q \in Andamento \/ q = Livre
               /\ q = Livre <=> p = Livre
               /\ q.fase = p.fase /\ q.op = p.op /\ q.id = p.id /\ q.linha = p.linha
               /\ q.fim = p.fim
               /\ p.depois \subseteq q.depois
               /\ p.fase = "conferido" /\ NaGrade(p.linha.status) =>
                     S \ {p.id} \subseteq q.depois
               /\ p.fase # "conferido" => q = p
<1>1. pedido[w].fase = "conferido" => EmCurso(w) /\ pedido[w].depois \subseteq Sessoes
  BY PedidoTipo DEF Andamento
<1>2. CASE pedido[w].fase = "conferido" /\ NaGrade(pedido[w].linha.status)
  <2>1. Perder(pedido[w], S)
            = [pedido[w] EXCEPT !.depois = pedido[w].depois \cup (S \ {pedido[w].id})]
    BY <1>2 DEF Perder
  <2>2. pedido[w].depois \cup (S \ {pedido[w].id}) \in SUBSET Sessoes
    BY <1>1, <1>2
  <2>3. \A q \in Andamento : q # Livre
    BY DEF Andamento, Livre
  <2>4. QED
    BY <1>1, <1>2, <2>1, <2>2, <2>3, VistaMuda DEF EmCurso
<1>3. CASE ~ (pedido[w].fase = "conferido" /\ NaGrade(pedido[w].linha.status))
  BY <1>3, PedidoTipo DEF Perder
<1>4. QED
  BY <1>2, <1>3

(* The same of a request in a step that writes the row of one session. *)
LEMMA PerdaDeUma ==
    ASSUME TypeOK, NEW v \in Pedidos, NEW i \in Sessoes, pedido'[v] = Perder(pedido[v], {i})
    PROVE  /\ SoVista(v) /\ pedido[v].depois \subseteq pedido'[v].depois
           /\ pedido[v].fase # "conferido" => pedido'[v] = pedido[v]
           /\ pedido[v].fase = "conferido" /\ NaGrade(pedido[v].linha.status) =>
                 {i} \ {pedido[v].id} \subseteq pedido'[v].depois
<1>1. {i} \in SUBSET Sessoes
  OBVIOUS
<1>2. QED
  BY <1>1, PerderVista DEF SoVista

-----------------------------------------------------------------------------
(* The registry of facts and rooms is kept by each action. *)
LEMMA RegistroInicial == Init => Registro
  BY DEF Init, Registro, TypeOK, IdsSeparados, AlteracaoNoLugar, ReferenciasFicam,
         FatoDaSessao, EmCurso, Existe, Livre

LEMMA FimDaLinha ==
    ASSUME TypeOK, NEW l \in Linhas
    PROVE  l.inicio + duracao[l.filme] \in Nat
<1>1. l.inicio \in Nat /\ l.filme \in Filmes
  BY ConstantesSessoes DEF Linhas
<1>2. QED
  BY <1>1 DEF TypeOK

LEMMA CriacaoRegistro ==
    ASSUME Registro, NEW w \in Pedidos, NEW s \in Sessoes, NEW c \in Corpos, PedirCriacao(w, s, c)
    PROVE  Registro'
<1> DEFINE l == NovaSessao(c)
           p == [Livre EXCEPT !.op = "criar", !.id = s, !.linha = l]
           q == Referido(p)
<1>1. l \in Linhas /\ Referencias(l) /\ IdNovo(s)
  BY LinhaDoCorpo DEF PedirCriacao
<1>2. UNCHANGED <<duracao, sessao, caixa, naoViu>> /\ pedido' = [pedido EXCEPT ![w] = q]
  BY DEF PedirCriacao
<1> HIDE DEF l
<1>3. /\ p \in [fase: {"livre"}, op: {"criar"}, id: {s}, linha: {l}, fim: {0}, depois: {{}}]
      /\ p.op = "criar" /\ p.id = s /\ p.linha = l
  BY DEF Livre
<1> HIDE DEF p
<1>4. l.inicio + duracao[l.filme] \in Nat
  BY <1>1, FimDaLinha DEF Registro
<1>5. q = [p EXCEPT !.fase = "referido", !.fim = l.inicio + duracao[l.filme]]
  BY <1>3 DEF Referido
<1> HIDE DEF q
<1>6. q \in Andamento /\ q.op = "criar" /\ q.id = s /\ q.linha = l
  BY <1>1, <1>3, <1>4, <1>5 DEF Andamento
<1>7. QED
  BY <1>1, <1>2, <1>6, SoPedido DEF IdNovo

LEMMA AlteracaoRegistro ==
    ASSUME Registro, NEW w \in Pedidos, NEW s \in Sessoes, NEW c \in Corpos, PedirAlteracao(w, s, c)
    PROVE  Registro'
<1> DEFINE a == sessao[s].sala
           l == NovaSessao(ComSala(c, a))
           q == [Livre EXCEPT !.fase = "validado", !.op = "alterar", !.id = s, !.linha = l]
<1>1. Existe(s) /\ a \in Salas
  BY DEF PedirAlteracao, Registro, ReferenciasFicam, Referencias
<1>2. ComSala(c, a) \in Corpos /\ ComSala(c, a).sala = a
  BY <1>1, CorpoNaSala DEF PedirAlteracao
<1>3. l \in Linhas /\ l.sala = a
  BY <1>2, LinhaDoCorpo DEF PedirAlteracao
<1>4. UNCHANGED <<duracao, sessao, caixa, naoViu>> /\ pedido' = [pedido EXCEPT ![w] = q]
  BY DEF PedirAlteracao
<1> HIDE DEF l
<1>5. /\ q \in Andamento /\ q.op = "alterar" /\ q.id = s /\ q.linha = l /\ q.fase = "validado"
  BY <1>3 DEF Andamento, Livre
<1> HIDE DEF q
<1>6. QED
  BY <1>1, <1>3, <1>4, <1>5, SoPedido

LEMMA ReferenciasRegistro ==
    ASSUME Registro, NEW w \in Pedidos, BuscarReferencias(w)
    PROVE  Registro'
<1> DEFINE q == Referido(pedido[w])
<1>1. EmCurso(w) /\ pedido[w] \in Andamento /\ Referencias(pedido[w].linha)
  BY PedidoTipo DEF BuscarReferencias, Registro
<1>2. pedido[w].linha.inicio + duracao[pedido[w].linha.filme] \in Nat
  <2>1. pedido[w].linha \in Linhas
    BY <1>1 DEF Andamento
  <2>2. QED
    BY <2>1, FimDaLinha DEF Registro
<1>3. q \in Andamento /\ q.op = pedido[w].op /\ q.id = pedido[w].id /\ q.linha = pedido[w].linha
  BY <1>1, <1>2 DEF Andamento, Referido
<1>4. UNCHANGED <<duracao, sessao, caixa, naoViu>> /\ pedido' = [pedido EXCEPT ![w] = q]
  BY DEF BuscarReferencias
<1> HIDE DEF q
<1>5. QED
  BY <1>1, <1>3, <1>4, SoPedido DEF Registro, IdsSeparados, AlteracaoNoLugar

LEMMA ConferirRegistro ==
    ASSUME Registro, NEW w \in Pedidos, ConferirGrade(w)
    PROVE  Registro'
<1> DEFINE q == [pedido[w] EXCEPT !.fase = "conferido", !.fim = 0]
<1>1. EmCurso(w) /\ pedido[w] \in Andamento /\ pedido[w].fase = "referido"
  BY PedidoTipo DEF ConferirGrade, Registro
<1>2. q \in Andamento /\ q.op = pedido[w].op /\ q.id = pedido[w].id /\ q.linha = pedido[w].linha
  BY <1>1 DEF Andamento
<1>3. UNCHANGED <<duracao, sessao, caixa, naoViu>> /\ pedido' = [pedido EXCEPT ![w] = q]
  BY DEF ConferirGrade
<1> HIDE DEF q
<1>4. QED
  BY <1>1, <1>2, <1>3, SoPedido DEF Registro, IdsSeparados, AlteracaoNoLugar, ReferenciasFicam

LEMMA RecusarRegistro ==
    ASSUME Registro, NEW w \in Pedidos, Recusar(w)
    PROVE  Registro'
  BY SoPedido DEF Recusar

(* The requests keep what they hold, whatever they did not see.            *)
LEMMA VistaRegistro ==
    ASSUME Registro, TypeOK',
           \A v \in Pedidos : SoVista(v) /\ (EmCurso(v)' <=> EmCurso(v)),
           \A f \in Filmes : duracao[f] > 0 => duracao'[f] > 0,
           \A s \in Sessoes : (Existe(s)' <=> Existe(s)) /\ sessao'[s].sala = sessao[s].sala
                /\ sessao'[s].filme = sessao[s].filme
    PROVE  IdsSeparados' /\ AlteracaoNoLugar' /\ ReferenciasFicam'
<1>1. \A v \in Pedidos : EmCurso(v) => pedido[v].id \in Sessoes
  BY PedidoTipo DEF Registro, Andamento
<1>2. IdsSeparados'
  BY <1>1 DEF Registro, IdsSeparados, SoVista
<1>3. AlteracaoNoLugar'
  BY <1>1 DEF Registro, AlteracaoNoLugar, SoVista
<1>4. \A v \in Pedidos : pedido[v].fase \in {"referido", "conferido"} =>
          pedido[v].linha.filme \in Filmes
  BY PedidoTipo DEF Registro, Andamento, Linhas
<1>5. \A s \in Sessoes : Existe(s) => sessao[s].filme \in Filmes
  BY DEF Registro, TypeOK, Existe, Linhas
<1>6. ReferenciasFicam'
  BY <1>4, <1>5 DEF Registro, ReferenciasFicam, Referencias, SoVista
<1>7. QED
  BY <1>2, <1>3, <1>6

LEMMA MoverTipo ==
    ASSUME TypeOK, NEW f \in Filmes, MoverFim(f)
    PROVE  /\ pedido' \in [Pedidos -> Andamento \cup {Livre}]
           /\ naoViu' \in [Sessoes -> SUBSET Sessoes]
           /\ \A v \in Pedidos : SoVista(v) /\ (EmCurso(v)' <=> EmCurso(v))
<1>1. DoFilme(f) \in SUBSET Sessoes
  BY DEF DoFilme
<1>2. naoViu' \in [Sessoes -> SUBSET Sessoes]
  BY DEF MoverFim, TypeOK
<1>3. ASSUME NEW v \in Pedidos
      PROVE  /\ pedido'[v] \in Andamento \cup {Livre}
             /\ SoVista(v) /\ (EmCurso(v)' <=> EmCurso(v))
  <2>1. CASE /\ pedido[v].linha.filme = f /\ pedido[v].fase # "validado"
             /\ NaGrade(pedido[v].linha.status)
    <3>1. pedido'[v] = [pedido[v] EXCEPT !.depois = Sessoes \ {pedido[v].id}]
      BY <2>1 DEF MoverFim
    <3>2. EmCurso(v)
      BY <2>1, PedidoTipo DEF Andamento, Livre, SemLinha, NaGrade
    <3>3. \A q \in Andamento : q # Livre
      BY DEF Andamento, Livre
    <3>4. QED
      BY <3>1, <3>2, <3>3, VistaMuda DEF SoVista, EmCurso
  <2>2. CASE ~ /\ pedido[v].linha.filme = f /\ pedido[v].fase # "validado"
               /\ NaGrade(pedido[v].linha.status)
    <3>1. pedido'[v] = Perder(pedido[v], DoFilme(f))
      BY <2>2 DEF MoverFim
    <3>2. QED
      BY <1>1, <3>1, PerderVista DEF SoVista, EmCurso
  <2>3. QED
    BY <2>1, <2>2
<1>4. pedido' \in [Pedidos -> Andamento \cup {Livre}]
  BY <1>3 DEF MoverFim
<1>5. QED
  BY <1>2, <1>3, <1>4

LEMMA FilmeRegistro ==
    ASSUME Registro, NEW f \in Filmes, NEW d \in Duracoes,
           CriarFilme(f, d) \/ AtualizarFilme(f, d)
    PROVE  Registro'
<1>1. /\ d \in Nat /\ d > 0
      /\ duracao' = [duracao EXCEPT ![f] = d]
      /\ UNCHANGED <<sessao, caixa>>
      /\ UNCHANGED <<pedido, naoViu>> \/ MoverFim(f)
  BY ConstantesSessoes DEF CriarFilme, AtualizarFilme, DuracaoValida
<1>2. duracao' \in [Filmes -> Nat] /\ \A x \in Filmes : duracao[x] > 0 => duracao'[x] > 0
  BY <1>1 DEF Registro, TypeOK
<1>3. /\ pedido' \in [Pedidos -> Andamento \cup {Livre}]
      /\ naoViu' \in [Sessoes -> SUBSET Sessoes]
      /\ \A v \in Pedidos : SoVista(v) /\ (EmCurso(v)' <=> EmCurso(v))
  <2>1. CASE UNCHANGED <<pedido, naoViu>>
    BY <2>1 DEF Registro, TypeOK, Andamento, SoVista, EmCurso
  <2>2. CASE MoverFim(f)
    BY <2>2, MoverTipo DEF Registro
  <2>3. QED
    BY <1>1, <2>1, <2>2
<1>4. TypeOK'
  BY <1>1, <1>2, <1>3 DEF Registro, TypeOK, Andamento
<1>5. \A s \in Sessoes : (Existe(s)' <=> Existe(s)) /\ sessao'[s] = sessao[s]
  BY <1>1 DEF Existe
<1>6. FatoDaSessao'
  BY <1>1 DEF Registro, FatoDaSessao, Existe
<1>7. IdsSeparados' /\ AlteracaoNoLugar' /\ ReferenciasFicam'
  BY <1>2, <1>3, <1>4, <1>5, VistaRegistro
<1>8. QED
  BY <1>4, <1>6, <1>7 DEF Registro

LEMMA RemoverRegistro ==
    ASSUME Registro, NEW s \in Sessoes, RemoverSessao(s)
    PROVE  Registro'
<1>1. Existe(s) /\ sessao[s] \in Linhas
  BY DEF RemoverSessao, Registro, TypeOK, Existe
<1>2. /\ sessao' = [sessao EXCEPT ![s].status = "CANCELADA"]
      /\ caixa' = caixa \cup {Cancelada(s)}
      /\ UNCHANGED <<duracao, pedido>>
  BY DEF RemoverSessao
<1>3. /\ sessao'[s] \in Linhas
      /\ sessao'[s].sala = sessao[s].sala /\ sessao'[s].filme = sessao[s].filme
      /\ \A x \in Sessoes : x # s => sessao'[x] = sessao[x]
  BY <1>1, <1>2 DEF Linhas, StatusSessao, Registro, TypeOK
<1>4. \A x \in Sessoes : (Existe(x)' <=> Existe(x)) /\ sessao'[x].sala = sessao[x].sala
          /\ sessao'[x].filme = sessao[x].filme
  BY <1>1, <1>3, LinhaExiste DEF Existe
<1>5. TypeOK'
  <2>1. Cancelada(s) \in Fatos
    BY DEF Fatos
  <2>2. naoViu' \in [Sessoes -> SUBSET Sessoes]
    BY DEF RemoverSessao, Esquecer, Registro, TypeOK
  <2>3. sessao' \in [Sessoes -> Linhas \cup {SemLinha}]
    BY <1>2, <1>3 DEF Registro, TypeOK
  <2>4. QED
    BY <1>2, <2>1, <2>2, <2>3 DEF Registro, TypeOK
<1>6. \A v \in Pedidos : SoVista(v) /\ (EmCurso(v)' <=> EmCurso(v))
  BY <1>2 DEF SoVista, EmCurso
<1>7. FatoDaSessao'
  <2>1. \A x \in Sessoes, a \in Salas : Criada(x, a) # Cancelada(s)
    BY DEF Criada, Cancelada
  <2>2. \A x \in Sessoes : Alterada(x) # Cancelada(s) /\ (Cancelada(x) = Cancelada(s) => x = s)
    BY DEF Alterada, Cancelada
  <2>3. QED
    BY <1>1, <1>2, <1>4, <2>1, <2>2 DEF Registro, FatoDaSessao
<1>8. QED
  BY <1>2, <1>4, <1>5, <1>6, <1>7, VistaRegistro DEF Registro

(* What the write of a request changes. *)
LEMMA GravarMuda ==
    ASSUME Registro, NEW w \in Pedidos, Gravar(w)
    PROVE  LET p == pedido[w] IN
           /\ p \in Andamento /\ p.fase = "conferido" /\ EmCurso(w)
           /\ p.linha.sala \in Salas /\ Referencias(p.linha)
           /\ \A x \in Sessoes : sessao'[x] = IF x = p.id THEN p.linha ELSE sessao[x]
           /\ \A v \in Pedidos :
                 pedido'[v] = IF v = w THEN Livre ELSE Perder(pedido[v], {p.id})
           /\ \A x \in Sessoes : naoViu'[x] = IF x = p.id THEN p.depois ELSE naoViu[x] \ {p.id}
<1>1. pedido[w].fase = "conferido"
  BY DEF Gravar
<1>2. pedido[w] \in Andamento /\ EmCurso(w)
  BY <1>1, PedidoTipo DEF Registro
<1>3. Referencias(pedido[w].linha) /\ pedido[w].linha.sala \in Salas
  BY <1>1 DEF Registro, ReferenciasFicam, Referencias
<1>4. QED
  BY <1>1, <1>2, <1>3 DEF Gravar, Esquecer, Registro, TypeOK

LEMMA GravarTipo ==
    ASSUME Registro, NEW w \in Pedidos, Gravar(w)
    PROVE  TypeOK'
<1> DEFINE p == pedido[w]
<1>1. p \in Andamento /\ p.linha.sala \in Salas
  BY GravarMuda
<1>2. p.id \in Sessoes /\ p.linha \in Linhas /\ p.depois \subseteq Sessoes
  BY <1>1 DEF Andamento
<1>3. FatoDe(p) \subseteq Fatos
  BY <1>1, <1>2 DEF FatoDe, Fatos
<1>4. pedido' \in [Pedidos -> Andamento \cup {Livre}]
  <2>1. \A v \in Pedidos : Perder(pedido[v], {p.id}) \in Andamento \cup {Livre}
    BY <1>2, PerderVista DEF Registro
  <2>2. QED
    BY <2>1 DEF Gravar
<1>5. /\ sessao' \in [Sessoes -> Linhas \cup {SemLinha}]
      /\ naoViu' \in [Sessoes -> SUBSET Sessoes]
      /\ caixa' \subseteq Fatos /\ duracao' = duracao
  BY <1>2, <1>3 DEF Gravar, Esquecer, Registro, TypeOK
<1>6. QED
  BY <1>4, <1>5 DEF Registro, TypeOK, Andamento

LEMMA GravarRegistro ==
    ASSUME Registro, NEW w \in Pedidos, Gravar(w)
    PROVE  Registro'
<1>0. PICK p : p = pedido[w]
  OBVIOUS
<1>1. /\ p \in Andamento /\ EmCurso(w) /\ p.id \in Sessoes /\ p.linha \in Linhas
      /\ p.op \in {"criar", "alterar"}
      /\ p.linha.sala \in Salas /\ Referencias(p.linha)
  BY <1>0, GravarMuda DEF Andamento
<1>2. \A x \in Sessoes : sessao'[x] = IF x = p.id THEN p.linha ELSE sessao[x]
  BY <1>0, GravarMuda
<1>3. /\ \A x \in Sessoes : x # p.id => (Existe(x)' <=> Existe(x))
      /\ Existe(p.id)'
  BY <1>1, <1>2, LinhaExiste DEF Existe
<1>4. ASSUME NEW v \in Pedidos, v # w PROVE SoVista(v) /\ (EmCurso(v)' <=> EmCurso(v))
  <2>1. pedido'[v] = Perder(pedido[v], {p.id})
    BY <1>0, <1>4, GravarMuda
  <2>2. QED
    BY <1>1, <2>1, PerderVista DEF SoVista, EmCurso, Registro
<1>5. pedido'[w] = Livre /\ ~ EmCurso(w)'
  BY GravarMuda DEF EmCurso
<1>6. \A v \in Pedidos : EmCurso(v) => pedido[v].id \in Sessoes /\ pedido[v].linha.filme \in Filmes
  BY PedidoTipo DEF Registro, Andamento, Linhas
<1>7. p.op = "alterar" => sessao[p.id].sala = p.linha.sala /\ Existe(p.id)
  BY <1>0, <1>1 DEF Registro, AlteracaoNoLugar
<1>8. p.op = "criar" => /\ ~ Existe(p.id)
                        /\ \A v \in Pedidos : EmCurso(v) /\ v # w => pedido[v].id # p.id
  BY <1>0, <1>1 DEF Registro, IdsSeparados
<1>9. \A x \in Sessoes : Existe(x) => Existe(x)' /\ sessao'[x].sala = sessao[x].sala
  BY <1>1, <1>2, <1>3, <1>7, <1>8
<1>10. IdsSeparados' /\ AlteracaoNoLugar'
  <2>1. ASSUME NEW v \in Pedidos, EmCurso(v)'
        PROVE  /\ pedido'[v].op = "criar" =>
                     /\ sessao'[pedido'[v].id] = SemLinha
                     /\ \A u \in Pedidos : EmCurso(u)' /\ u # v => pedido'[u].id # pedido'[v].id
               /\ pedido'[v].op = "alterar" =>
                     /\ sessao'[pedido'[v].id] # SemLinha
                     /\ sessao'[pedido'[v].id].sala = pedido'[v].linha.sala
    <3>1. PICK q : q = pedido[v]
      OBVIOUS
    <3>2. v # w /\ EmCurso(v) /\ q.id \in Sessoes
      BY <1>5, <1>4, <1>6, <2>1, <3>1
    <3>3. pedido'[v].op = q.op /\ pedido'[v].id = q.id /\ pedido'[v].linha = q.linha
      BY <1>4, <3>1, <3>2 DEF SoVista
    <3>4. q.op = "criar" => ~ Existe(q.id) /\ q.id # p.id
      BY <1>0, <1>1, <3>1, <3>2 DEF Registro, IdsSeparados
    <3>5. q.op = "criar" => \A u \in Pedidos : EmCurso(u)' /\ u # v => pedido'[u].id # q.id
      BY <1>4, <1>5, <3>1, <3>2 DEF Registro, IdsSeparados, SoVista
    <3>6. q.op = "alterar" => Existe(q.id) /\ sessao[q.id].sala = q.linha.sala
      BY <3>1, <3>2 DEF Registro, AlteracaoNoLugar
    <3>7. QED
      BY <1>3, <1>9, <3>2, <3>3, <3>4, <3>5, <3>6 DEF Existe
  <2>2. QED
    BY <2>1 DEF IdsSeparados, AlteracaoNoLugar, Existe
<1>11. ReferenciasFicam'
  <2>1. duracao' = duracao
    BY DEF Gravar
  <2>2. Livre.fase = "livre" /\ \A v \in Pedidos :
            pedido[v].fase \in {"referido", "conferido"} => Referencias(pedido[v].linha)
    BY DEF Livre, Registro, ReferenciasFicam
  <2>3. QED
    BY <1>1, <1>2, <1>3, <1>4, <1>5, <2>1, <2>2
    DEF Registro, ReferenciasFicam, Referencias, SoVista
<1>12. FatoDaSessao'
  <2>1. caixa' = caixa \cup FatoDe(p)
    BY <1>0 DEF Gravar
  <2>2. /\ \A x, y \in Sessoes, a, b \in Salas : Criada(x, a) = Criada(y, b) => x = y /\ a = b
        /\ \A x, y \in Sessoes, a \in Salas :
              /\ Alterada(x) # Criada(y, a) /\ Cancelada(x) # Criada(y, a)
              /\ Alterada(x) # Cancelada(y) /\ (Alterada(x) = Alterada(y) => x = y)
    BY DEF Criada, Alterada, Cancelada
  <2>3. CASE p.op = "criar"
    <3>1. FatoDe(p) = {Criada(p.id, p.linha.sala)}
      BY <2>3 DEF FatoDe
    <3>2. \A x \in Sessoes, a \in Salas :
              Criada(x, a) \in caixa' <=>
                  \/ Criada(x, a) \in caixa
                  \/ x = p.id /\ a = p.linha.sala
      BY <1>1, <2>1, <2>2, <3>1
    <3>3. \A x \in Sessoes : {Alterada(x), Cancelada(x)} \cap caixa' = {Alterada(x), Cancelada(x)} \cap caixa
      BY <1>1, <2>1, <2>2, <3>1
    <3>4. \A x \in Sessoes, a \in Salas :
              Criada(x, a) \in caixa' <=> Existe(x)' /\ sessao'[x].sala = a
      BY <1>1, <1>2, <1>3, <1>8, <2>3, <3>2 DEF Registro, FatoDaSessao
    <3>5. QED
      BY <1>9, <3>3, <3>4 DEF Registro, FatoDaSessao
  <2>4. CASE p.op = "alterar"
    <3>1. FatoDe(p) = {Alterada(p.id)}
      BY <2>4 DEF FatoDe
    <3>2. \A x \in Sessoes, a \in Salas : Criada(x, a) \in caixa' <=> Criada(x, a) \in caixa
      BY <1>1, <2>1, <2>2, <3>1
    <3>3. \A x \in Sessoes : Existe(x)' <=> Existe(x)
      BY <1>3, <1>7, <2>4
    <3>4. \A x \in Sessoes : {Alterada(x), Cancelada(x)} \cap caixa' # {} =>
              x = p.id \/ {Alterada(x), Cancelada(x)} \cap caixa # {}
      BY <1>1, <2>1, <2>2, <3>1
    <3>5. QED
      BY <1>3, <1>9, <3>2, <3>3, <3>4 DEF Registro, FatoDaSessao
  <2>5. QED
    BY <1>1, <2>3, <2>4
<1>13. QED
  BY <1>10, <1>11, <1>12, GravarTipo DEF Registro

LEMMA RegistroParado == Registro /\ UNCHANGED vars => Registro'
  BY DEF Registro, TypeOK, IdsSeparados, AlteracaoNoLugar, ReferenciasFicam, FatoDaSessao,
         EmCurso, Existe, Referencias, vars

LEMMA RegistroPreservado == Registro /\ [Next]_vars => Registro'
<1> SUFFICES ASSUME Registro, [Next]_vars PROVE Registro'
  OBVIOUS
<1>1. CASE EscreverFilme
  BY <1>1, FilmeRegistro, RegistroParado DEF EscreverFilme, RemoverFilme
<1>2. ASSUME NEW w \in Pedidos, Atender(w) PROVE Registro'
  BY <1>2, CriacaoRegistro, AlteracaoRegistro, ReferenciasRegistro, ConferirRegistro,
     GravarRegistro, RecusarRegistro DEF Atender
<1>3. ASSUME NEW s \in Sessoes, RemoverSessao(s) PROVE Registro'
  BY <1>3, RemoverRegistro
<1>4. CASE UNCHANGED vars
  BY <1>4, RegistroParado
<1>5. QED
  BY <1>1, <1>2, <1>3, <1>4 DEF Next

LEMMA RegistroSempre == Spec => []Registro
  BY RegistroInicial, RegistroPreservado, PTL DEF Spec

(* Every variable keeps its type: the rows and the facts written by        *)
(* requests that overlap are rows of films and rooms that exist.           *)
THEOREM TipoDasSessoes == Spec => []TypeOK
<1>1. Registro => TypeOK
  BY DEF Registro
<1>2. QED
  BY <1>1, RegistroSempre, PTL

(* A session is announced with its room exactly when it exists.            *)
THEOREM FatoComSessao == Spec => []FatoDaSessao
<1>1. Registro => FatoDaSessao
  BY DEF Registro
<1>2. QED
  BY <1>1, RegistroSempre, PTL

(* A session keeps its room: a change was validated against the room the   *)
(* row had, and no row changed its room since.                             *)
LEMMA SalaPasso ==
    ASSUME Registro, [Next]_vars, NEW s \in Sessoes, Existe(s)
    PROVE  sessao'[s] # SemLinha /\ sessao'[s].sala = sessao[s].sala
<1>1. CASE UNCHANGED sessao
  BY <1>1 DEF Existe
<1>2. ASSUME NEW x \in Sessoes, RemoverSessao(x)
      PROVE  sessao'[s] # SemLinha /\ sessao'[s].sala = sessao[s].sala
  <2>1. sessao[x] \in Linhas
    BY <1>2 DEF RemoverSessao, Registro, TypeOK, Existe
  <2>2. [sessao[x] EXCEPT !.status = "CANCELADA"] \in Linhas
        /\ [sessao[x] EXCEPT !.status = "CANCELADA"].sala = sessao[x].sala
    BY <2>1 DEF Linhas, StatusSessao
  <2>3. sessao' = [sessao EXCEPT ![x] = [sessao[x] EXCEPT !.status = "CANCELADA"]]
    BY <1>2 DEF RemoverSessao, Registro, TypeOK
  <2>4. QED
    BY <2>2, <2>3, LinhaExiste DEF Existe, Registro, TypeOK
<1>3. ASSUME NEW w \in Pedidos, Gravar(w)
      PROVE  sessao'[s] # SemLinha /\ sessao'[s].sala = sessao[s].sala
  <2>1. PICK p : p = pedido[w]
    OBVIOUS
  <2>2. /\ p.linha \in Linhas /\ p.op \in {"criar", "alterar"} /\ EmCurso(w)
        /\ sessao'[s] = IF s = p.id THEN p.linha ELSE sessao[s]
    BY <1>3, <2>1, GravarMuda DEF Andamento
  <2>3. s = p.id => p.op = "alterar"
    BY <2>1, <2>2 DEF Registro, IdsSeparados
  <2>4. s = p.id => sessao[s].sala = p.linha.sala
    BY <2>1, <2>2, <2>3 DEF Registro, AlteracaoNoLugar
  <2>5. QED
    BY <2>2, <2>4, LinhaExiste DEF Existe
<1>4. QED
  BY <1>1, <1>2, <1>3
  DEF Next, EscreverFilme, CriarFilme, AtualizarFilme, RemoverFilme, Atender, PedirCriacao,
      PedirAlteracao, BuscarReferencias, ConferirGrade, Recusar, vars

(* A session never changes room: the seats the inventory made of its       *)
(* creation stay the seats of its room.                                    *)
THEOREM SalaParaSempre == Spec => SalaFixa
<1>1. Registro /\ [Next]_vars =>
          [\A s \in Sessoes :
              Existe(s) => sessao'[s] # SemLinha /\ sessao'[s].sala = sessao[s].sala]_vars
  BY SalaPasso
<1>2. QED
  BY <1>1, RegistroSempre, PTL DEF Spec, SalaFixa

-----------------------------------------------------------------------------
(* What remains of the promise that a cancellation is announced.  The fact *)
(* of a cancellation is there, and another one is not emitted, only while  *)
(* the session is cancelled or after a change was written over it.         *)
SoAlteracaoReabre ==
    \A s \in Sessoes : Cancelada(s) \in caixa =>
        sessao[s].status = "CANCELADA" \/ Alterada(s) \in caixa

(* A session on the grid that was never changed announces its              *)
(* cancellation: only a change before it silences one.                     *)
SemAlteracaoAnuncia ==
    [][\A s \in Sessoes :
          RemoverSessao(s) /\ Visivel(s) /\ Alterada(s) \notin caixa =>
              Cancelada(s) \in caixa' \ caixa]_vars

(* A row written over a cancelled one is written by a change, which leaves *)
(* its fact: the ids of new sessions are of no row, and so of no fact.     *)
LEMMA ReabrirPasso ==
    ASSUME Registro, SoAlteracaoReabre, [Next]_vars
    PROVE  SoAlteracaoReabre'
<1>1. CASE UNCHANGED <<sessao, caixa>>
  BY <1>1 DEF SoAlteracaoReabre
<1>2. ASSUME NEW x \in Sessoes, RemoverSessao(x) PROVE SoAlteracaoReabre'
  <2>1. sessao[x] \in Linhas
    BY <1>2 DEF RemoverSessao, Registro, TypeOK, Existe
  <2>2. [sessao[x] EXCEPT !.status = "CANCELADA"].status = "CANCELADA"
    BY <2>1 DEF Linhas
  <2>3. /\ sessao' = [sessao EXCEPT ![x] = [sessao[x] EXCEPT !.status = "CANCELADA"]]
        /\ caixa' = caixa \cup {Cancelada(x)}
    BY <1>2 DEF RemoverSessao, Registro, TypeOK
  <2>4. \A s \in Sessoes : sessao'[s].status = IF s = x THEN "CANCELADA" ELSE sessao[s].status
    BY <2>2, <2>3 DEF Registro, TypeOK
  <2>5. \A s \in Sessoes : Cancelada(s) \in caixa' => s = x \/ Cancelada(s) \in caixa
    BY <2>3 DEF Cancelada
  <2>6. QED
    BY <2>3, <2>4, <2>5 DEF SoAlteracaoReabre
<1>3. ASSUME NEW w \in Pedidos, Gravar(w) PROVE SoAlteracaoReabre'
  <2>1. PICK p : p = pedido[w]
    OBVIOUS
  <2>2. /\ p.id \in Sessoes /\ p.op \in {"criar", "alterar"} /\ EmCurso(w)
        /\ \A s \in Sessoes : s # p.id => sessao'[s] = sessao[s]
    BY <1>3, <2>1, GravarMuda DEF Andamento
  <2>3. caixa' = caixa \cup FatoDe(p)
    BY <1>3, <2>1 DEF Gravar
  <2>4. \A s \in Sessoes : Cancelada(s) \notin FatoDe(p)
    BY DEF FatoDe, Criada, Alterada, Cancelada
  <2>5. Cancelada(p.id) \in caixa => p.op = "alterar"
    BY <2>1, <2>2 DEF Registro, IdsSeparados, FatoDaSessao
  <2>6. p.op = "alterar" => Alterada(p.id) \in caixa'
    BY <2>3 DEF FatoDe
  <2>7. QED
    BY <2>2, <2>3, <2>4, <2>5, <2>6 DEF SoAlteracaoReabre
<1>4. QED
  BY <1>1, <1>2, <1>3
  DEF Next, EscreverFilme, CriarFilme, AtualizarFilme, RemoverFilme, Atender, PedirCriacao,
      PedirAlteracao, BuscarReferencias, ConferirGrade, Recusar, vars

(* The complement of what the run sessoes_cancelamento shows: without a    *)
(* change of the session, the cancellation that takes it off the grid      *)
(* leaves the fact that releases its reservations.                         *)
THEOREM CancelamentoSemAlteracao == Spec => SemAlteracaoAnuncia
<1> DEFINE Anuncia ==
        \A s \in Sessoes :
            RemoverSessao(s) /\ Visivel(s) /\ Alterada(s) \notin caixa =>
                Cancelada(s) \in caixa' \ caixa
<1>1. Init => SoAlteracaoReabre
  BY DEF Init, SoAlteracaoReabre
<1>2. Registro /\ SoAlteracaoReabre /\ [Next]_vars => SoAlteracaoReabre'
  BY ReabrirPasso
<1>3. SoAlteracaoReabre => Anuncia
  BY DEF SoAlteracaoReabre, RemoverSessao, Visivel, NaGrade
<1>4. SoAlteracaoReabre /\ [Next]_vars => [Anuncia]_vars
  BY <1>3
<1>5. QED
  BY <1>1, <1>2, <1>4, RegistroSempre, PTL DEF Spec, SemAlteracaoAnuncia

-----------------------------------------------------------------------------
(* The grid. *)

(* Two visible sessions with a conflict nobody saw. *)
Vigia(a, b) == b \in naoViu[a] \/ a \in naoViu[b]

ConflitosVigiados ==
    \A a, b \in Sessoes : a # b /\ Visivel(a) /\ Visivel(b) /\ Sobrepostas(a, b) => Vigia(a, b)

LEMMA VisivelReferida ==
    ASSUME Registro, NEW s \in Sessoes, Visivel(s)
    PROVE  /\ Existe(s) /\ sessao[s] \in Linhas
           /\ sessao[s].filme \in Filmes /\ duracao[sessao[s].filme] > 0
<1>1. sessao[s] \in Linhas \cup {SemLinha}
  BY DEF Registro, TypeOK
<1>2. SemLinha.status = "INEXISTENTE" /\ NaGrade(sessao[s].status)
  BY DEF SemLinha, Visivel
<1>3. Existe(s) /\ sessao[s] \in Linhas
  BY <1>1, <1>2 DEF Existe, NaGrade
<1>4. QED
  BY <1>3 DEF Linhas, Registro, ReferenciasFicam, Referencias

LEMMA GradeDeVisiveis ==
    ASSUME Registro
    PROVE  ConflitosVigiados <=> ConflitoSoPorCorrida
<1>1. Grade = {s \in Sessoes : Visivel(s)}
  BY VisivelReferida DEF Grade, Registro, ReferenciasFicam, Referencias
<1>2. QED
  BY <1>1 DEF ConflitosVigiados, ConflitoSoPorCorrida, Vigia

(* The grid stays watched when one request moves. *)
LEMMA GradeDoPedido ==
    ASSUME GradeVigiada, Registro', UNCHANGED <<duracao, sessao, caixa, naoViu>>,
           NEW w \in Pedidos, NEW q, pedido' = [pedido EXCEPT ![w] = q],
           q.fase = "referido" => q.fim = q.linha.inicio + duracao[q.linha.filme],
           q.fase = "conferido" /\ NaGrade(q.linha.status) =>
               \A b \in Sessoes : b # q.id /\ Visivel(b) /\ Cruza(q, b) => b \in q.depois
    PROVE  GradeVigiada'
<1>1. \A v \in Pedidos : pedido'[v] = IF v = w THEN q ELSE pedido[v]
  BY DEF GradeVigiada, Registro, TypeOK
<1>2. FimLido'
  BY <1>1 DEF GradeVigiada, FimLido
<1>3. RespostaVale'
  BY <1>1 DEF GradeVigiada, RespostaVale, Cruza, Visivel, FimPrevisto
<1>4. ConflitoSoPorCorrida'
  BY DEF GradeVigiada, ConflitoSoPorCorrida, Grade, Visivel, Sobrepostas, FimPrevisto
<1>5. QED
  BY <1>2, <1>3, <1>4 DEF GradeVigiada

LEMMA PedirGrade ==
    ASSUME GradeVigiada, Registro', NEW w \in Pedidos,
           \/ \E s \in Sessoes, c \in Corpos : PedirCriacao(w, s, c) \/ PedirAlteracao(w, s, c)
           \/ BuscarReferencias(w)
           \/ Recusar(w)
    PROVE  GradeVigiada'
<1>1. PICK q :
          /\ UNCHANGED <<duracao, sessao, caixa, naoViu>>
          /\ pedido' = [pedido EXCEPT ![w] = q]
          /\ q.fase \in {"livre", "validado", "referido"}
          /\ q.fase = "referido" => q.fim = q.linha.inicio + duracao[q.linha.filme]
  <2>1. ASSUME NEW s \in Sessoes, NEW c \in Corpos, PedirCriacao(w, s, c)
        PROVE  \E q : /\ UNCHANGED <<duracao, sessao, caixa, naoViu>>
                      /\ pedido' = [pedido EXCEPT ![w] = q]
                      /\ q.fase \in {"livre", "validado", "referido"}
                      /\ q.fase = "referido" => q.fim = q.linha.inicio + duracao[q.linha.filme]
    <3> DEFINE l == NovaSessao(c)
               q == Referido([Livre EXCEPT !.op = "criar", !.id = s, !.linha = l])
    <3>1. UNCHANGED <<duracao, sessao, caixa, naoViu>> /\ pedido' = [pedido EXCEPT ![w] = q]
      BY <2>1 DEF PedirCriacao
    <3> HIDE DEF l
    <3>2. q.fase = "referido" /\ q.linha = l /\ q.fim = l.inicio + duracao[l.filme]
      BY DEF Referido, Livre
    <3> HIDE DEF q
    <3>3. QED
      BY <3>1, <3>2
  <2>2. ASSUME NEW s \in Sessoes, NEW c \in Corpos, PedirAlteracao(w, s, c)
        PROVE  \E q : /\ UNCHANGED <<duracao, sessao, caixa, naoViu>>
                      /\ pedido' = [pedido EXCEPT ![w] = q]
                      /\ q.fase = "validado"
    <3> DEFINE l == NovaSessao(ComSala(c, sessao[s].sala))
               q == [Livre EXCEPT !.fase = "validado", !.op = "alterar", !.id = s, !.linha = l]
    <3>1. UNCHANGED <<duracao, sessao, caixa, naoViu>> /\ pedido' = [pedido EXCEPT ![w] = q]
      BY <2>2 DEF PedirAlteracao
    <3> HIDE DEF l
    <3>2. q.fase = "validado"
      BY DEF Livre
    <3> HIDE DEF q
    <3>3. QED
      BY <3>1, <3>2
  <2>3. ASSUME BuscarReferencias(w)
        PROVE  \E q : /\ UNCHANGED <<duracao, sessao, caixa, naoViu>>
                      /\ pedido' = [pedido EXCEPT ![w] = q]
                      /\ q.fase = "referido" /\ q.fim = q.linha.inicio + duracao[q.linha.filme]
    <3> DEFINE q == Referido(pedido[w])
    <3>1. UNCHANGED <<duracao, sessao, caixa, naoViu>> /\ pedido' = [pedido EXCEPT ![w] = q]
      BY <2>3 DEF BuscarReferencias, GradeVigiada, Registro, TypeOK
    <3>2. pedido[w] \in Andamento
      BY <2>3, PedidoTipo DEF BuscarReferencias, GradeVigiada, Registro, Livre
    <3>3. q.fase = "referido" /\ q.fim = q.linha.inicio + duracao[q.linha.filme]
      BY <3>2 DEF Referido, Andamento
    <3> HIDE DEF q
    <3>4. QED
      BY <3>1, <3>3
  <2>4. ASSUME Recusar(w)
        PROVE  /\ UNCHANGED <<duracao, sessao, caixa, naoViu>>
               /\ pedido' = [pedido EXCEPT ![w] = Livre] /\ Livre.fase = "livre"
    BY <2>4 DEF Recusar, Livre
  <2>5. QED
    BY <2>1, <2>2, <2>3, <2>4
<1>2. QED
  BY <1>1, GradeDoPedido

LEMMA ConferirVigia ==
    ASSUME GradeVigiada, Registro', NEW w \in Pedidos, ConferirGrade(w)
    PROVE  GradeVigiada'
<1> DEFINE q == [pedido[w] EXCEPT !.fase = "conferido", !.fim = 0]
<1>1. /\ UNCHANGED <<duracao, sessao, caixa, naoViu>>
      /\ pedido' = [pedido EXCEPT ![w] = q]
  BY DEF ConferirGrade
<1>2. pedido[w] \in Andamento /\ pedido[w].fase = "referido"
  BY PedidoTipo DEF ConferirGrade, GradeVigiada, Registro
<1>3. /\ q.fase = "conferido" /\ q.linha = pedido[w].linha /\ q.id = pedido[w].id
      /\ q.depois = pedido[w].depois
  BY <1>2 DEF Andamento
<1> HIDE DEF q
<1>4. ASSUME NaGrade(q.linha.status), NEW b \in Sessoes, b # q.id, Visivel(b), Cruza(q, b)
      PROVE  b \in q.depois
  <2>1. ~ SalaOcupada(pedido[w].linha.sala, pedido[w].linha.inicio, pedido[w].fim, pedido[w].id)
    BY <1>3, <1>4 DEF ConferirGrade
  <2>2. CASE pedido[w].fim = pedido[w].linha.inicio + duracao[pedido[w].linha.filme]
    <3>1. sessao[b].inicio \in Nat /\ FimPrevisto(b) \in Nat /\ pedido[w].linha.inicio \in Nat
      <4>1. sessao[b] \in Linhas /\ pedido[w].linha \in Linhas
        BY <1>2, <1>4, VisivelReferida DEF Andamento, GradeVigiada
      <4>2. QED
        BY <4>1, FimDaLinha, ConstantesSessoes DEF Linhas, FimPrevisto, GradeVigiada, Registro
    <3>2. QED
      BY <1>3, <1>4, <2>1, <2>2, <3>1 DEF SalaOcupada, Cruza
  <2>3. CASE pedido[w].depois = Sessoes \ {pedido[w].id}
    BY <1>3, <1>4, <2>3
  <2>4. QED
    BY <1>2, <1>3, <1>4, <2>2, <2>3 DEF GradeVigiada, FimLido
<1>5. QED
  BY <1>1, <1>3, <1>4, GradeDoPedido

(* Durations that matter stay as they are: a film is registered, or given  *)
(* the duration it had.                                                    *)
LEMMA DuracaoIgual ==
    ASSUME GradeVigiada, Registro', UNCHANGED <<sessao, pedido, naoViu>>,
           \A f \in Filmes : duracao[f] > 0 => duracao'[f] = duracao[f]
    PROVE  GradeVigiada'
<1>1. \A v \in Pedidos : pedido[v].fase \in {"referido", "conferido"} =>
          duracao'[pedido[v].linha.filme] = duracao[pedido[v].linha.filme]
  BY PedidoTipo DEF Andamento, Linhas, Livre, GradeVigiada, Registro, ReferenciasFicam, Referencias
<1>2. \A s \in Sessoes : Visivel(s) => duracao'[sessao[s].filme] = duracao[sessao[s].filme]
  BY VisivelReferida DEF GradeVigiada
<1>3. FimLido'
  BY <1>1 DEF GradeVigiada, FimLido
<1>4. RespostaVale'
  BY <1>1, <1>2 DEF GradeVigiada, RespostaVale, Cruza, Visivel, FimPrevisto
<1>5. ConflitosVigiados'
  BY <1>2, GradeDeVisiveis
  DEF GradeVigiada, ConflitosVigiados, Vigia, Visivel, Sobrepostas, FimPrevisto
<1>6. ConflitoSoPorCorrida'
  <2>1. (ConflitosVigiados <=> ConflitoSoPorCorrida)'
    BY GradeDeVisiveis, PTL
  <2>2. QED
    BY <1>5, <2>1
<1>7. QED
  BY <1>3, <1>4, <1>6 DEF GradeVigiada

(* A new duration: whoever it touches has seen nothing.                    *)
LEMMA DuracaoNova ==
    ASSUME GradeVigiada, Registro', NEW f \in Filmes, UNCHANGED sessao,
           \A x \in Filmes : x # f => duracao'[x] = duracao[x],
           MoverFim(f)
    PROVE  GradeVigiada'
<1>1. DoFilme(f) \in SUBSET Sessoes
  BY DEF DoFilme
<1>2. \A v \in Pedidos : SoVista(v)
  BY MoverTipo DEF GradeVigiada, Registro
<1>3. \A v \in Pedidos : pedido[v].fase \in {"referido", "conferido"} =>
          pedido[v].linha.filme \in Filmes /\ pedido[v].depois \subseteq Sessoes /\ pedido[v] \in Andamento
  BY PedidoTipo DEF Andamento, Linhas, Livre, GradeVigiada, Registro
<1>4. \A s \in Sessoes : Visivel(s) /\ s \notin DoFilme(f) =>
          duracao'[sessao[s].filme] = duracao[sessao[s].filme]
  BY VisivelReferida DEF GradeVigiada, DoFilme
<1>5. ASSUME NEW v \in Pedidos, pedido[v].fase \in {"referido", "conferido"},
             NaGrade(pedido[v].linha.status)
      PROVE  \/ pedido'[v].depois = Sessoes \ {pedido[v].id}
             \/ /\ duracao'[pedido[v].linha.filme] = duracao[pedido[v].linha.filme]
                /\ pedido[v].fase = "referido" => pedido'[v] = pedido[v]
                /\ pedido[v].depois \subseteq pedido'[v].depois
                /\ pedido[v].fase = "conferido" =>
                      DoFilme(f) \ {pedido[v].id} \subseteq pedido'[v].depois
  <2>1. CASE pedido[v].linha.filme = f
    <3>1. pedido'[v] = [pedido[v] EXCEPT !.depois = Sessoes \ {pedido[v].id}]
      BY <1>5, <2>1 DEF MoverFim
    <3>2. QED
      BY <1>3, <1>5, <3>1 DEF Andamento
  <2>2. CASE pedido[v].linha.filme # f
    <3>1. pedido'[v] = Perder(pedido[v], DoFilme(f))
      BY <2>2 DEF MoverFim
    <3>2. QED
      BY <1>1, <1>3, <1>5, <2>2, <3>1, PerderVista DEF GradeVigiada, Registro
  <2>3. QED
    BY <2>1, <2>2
<1>6. FimLido'
  BY <1>2, <1>5 DEF GradeVigiada, FimLido, SoVista
<1>7. RespostaVale'
  <2>1. SUFFICES ASSUME NEW v \in Pedidos, pedido[v].fase = "conferido",
                        NaGrade(pedido[v].linha.status),
                        NEW b \in Sessoes, b # pedido[v].id, Visivel(b),
                        sessao[b].sala = pedido[v].linha.sala,
                        sessao[b].inicio < pedido[v].linha.inicio + duracao'[pedido[v].linha.filme],
                        pedido[v].linha.inicio < sessao[b].inicio + duracao'[sessao[b].filme]
                 PROVE  b \in pedido'[v].depois
    BY <1>2 DEF RespostaVale, SoVista, Cruza, Visivel, FimPrevisto
  <2>2. CASE pedido'[v].depois = Sessoes \ {pedido[v].id} \/ b \in DoFilme(f)
    BY <1>5, <2>1, <2>2
  <2>3. CASE pedido'[v].depois # Sessoes \ {pedido[v].id} /\ b \notin DoFilme(f)
    <3>1. Cruza(pedido[v], b)
      BY <1>4, <1>5, <2>1, <2>3 DEF Cruza, FimPrevisto
    <3>2. b \in pedido[v].depois
      BY <2>1, <3>1 DEF GradeVigiada, RespostaVale
    <3>3. QED
      BY <1>5, <2>1, <2>3, <3>2
  <2>4. QED
    BY <2>2, <2>3
<1>8. ConflitosVigiados'
  <2>1. \A s \in Sessoes : naoViu'[s] = IF s \in DoFilme(f) THEN Sessoes \ {s} ELSE naoViu[s]
    BY DEF MoverFim
  <2>2. SUFFICES ASSUME NEW a \in Sessoes, NEW b \in Sessoes, a # b, Visivel(a), Visivel(b),
                        (Sobrepostas(a, b))'
                 PROVE  b \in naoViu'[a] \/ a \in naoViu'[b]
    BY DEF ConflitosVigiados, Vigia, Visivel
  <2>3. CASE a \in DoFilme(f) \/ b \in DoFilme(f)
    BY <2>1, <2>2, <2>3
  <2>4. CASE a \notin DoFilme(f) /\ b \notin DoFilme(f)
    <3>1. Sobrepostas(a, b)
      BY <1>4, <2>2, <2>4 DEF Sobrepostas, FimPrevisto
    <3>2. Vigia(a, b)
      BY <2>2, <3>1, GradeDeVisiveis DEF GradeVigiada, ConflitosVigiados
    <3>3. QED
      BY <2>1, <2>4, <3>2 DEF Vigia
  <2>5. QED
    BY <2>3, <2>4
<1>9. ConflitoSoPorCorrida'
  <2>1. (ConflitosVigiados <=> ConflitoSoPorCorrida)'
    BY GradeDeVisiveis, PTL
  <2>2. QED
    BY <1>8, <2>1
<1>10. QED
  BY <1>6, <1>7, <1>9 DEF GradeVigiada

LEMMA FilmeGrade ==
    ASSUME GradeVigiada, Registro', NEW f \in Filmes, NEW d \in Duracoes,
           CriarFilme(f, d) \/ AtualizarFilme(f, d)
    PROVE  GradeVigiada'
<1>1. /\ duracao' = [duracao EXCEPT ![f] = d] /\ UNCHANGED sessao
      /\ \/ UNCHANGED <<pedido, naoViu>> /\ (~ (duracao[f] > 0) \/ d = duracao[f])
         \/ MoverFim(f)
  BY DEF CriarFilme, AtualizarFilme
<1>2. \A x \in Filmes : duracao'[x] = IF x = f THEN d ELSE duracao[x]
  BY <1>1 DEF GradeVigiada, Registro, TypeOK
<1>3. CASE UNCHANGED <<pedido, naoViu>> /\ (~ (duracao[f] > 0) \/ d = duracao[f])
  BY <1>1, <1>2, <1>3, DuracaoIgual
<1>4. CASE MoverFim(f)
  BY <1>1, <1>2, <1>4, DuracaoNova
<1>5. QED
  BY <1>1, <1>3, <1>4

(* A cancelled session leaves the grid. *)
LEMMA RemoverGrade ==
    ASSUME GradeVigiada, Registro', NEW s \in Sessoes, RemoverSessao(s)
    PROVE  GradeVigiada'
<1>1. sessao[s] \in Linhas
  BY DEF RemoverSessao, GradeVigiada, Registro, TypeOK, Existe
<1>2. /\ \A x \in Sessoes : x # s => sessao'[x] = sessao[x]
      /\ sessao'[s].status = "CANCELADA"
  BY <1>1 DEF RemoverSessao, GradeVigiada, Registro, TypeOK, Linhas
<1>3. \A x \in Sessoes : naoViu'[x] = IF x = s THEN {} ELSE naoViu[x] \ {s}
  BY DEF RemoverSessao, Esquecer
<1>4. \A x \in Sessoes : Visivel(x)' => x # s /\ Visivel(x)
  BY <1>2 DEF Visivel, NaGrade
<1>5. UNCHANGED <<duracao, pedido>>
  BY DEF RemoverSessao
<1>6. FimLido'
  BY <1>5 DEF GradeVigiada, FimLido
<1>7. RespostaVale'
  BY <1>2, <1>4, <1>5 DEF GradeVigiada, RespostaVale, Cruza, FimPrevisto
<1>8. ConflitosVigiados'
  BY <1>2, <1>3, <1>4, <1>5, GradeDeVisiveis
  DEF GradeVigiada, ConflitosVigiados, Vigia, Sobrepostas, FimPrevisto
<1>9. (ConflitosVigiados <=> ConflitoSoPorCorrida)'
  BY GradeDeVisiveis, PTL
<1>10. QED
  BY <1>6, <1>7, <1>8, <1>9 DEF GradeVigiada

(* A write: what the grid answered holds of every session that the row did *)
(* not miss.                                                               *)
LEMMA GravarGrade ==
    ASSUME GradeVigiada, Registro', NEW w \in Pedidos, Gravar(w)
    PROVE  GradeVigiada'
<1>1. PICK p : p = pedido[w]
  OBVIOUS
<1>2. Registro
  BY DEF GradeVigiada
<1>3. /\ p \in Andamento /\ p.id \in Sessoes /\ p.fase = "conferido"
      /\ p.linha \in Linhas /\ p.depois \subseteq Sessoes
      /\ \A x \in Sessoes : sessao'[x] = IF x = p.id THEN p.linha ELSE sessao[x]
      /\ \A v \in Pedidos :
            pedido'[v] = IF v = w THEN Livre ELSE Perder(pedido[v], {p.id})
      /\ \A x \in Sessoes : naoViu'[x] = IF x = p.id THEN p.depois ELSE naoViu[x] \ {p.id}
      /\ duracao' = duracao
  <2>1. /\ p \in Andamento /\ p.fase = "conferido"
        /\ \A x \in Sessoes : sessao'[x] = IF x = p.id THEN p.linha ELSE sessao[x]
        /\ \A v \in Pedidos :
              pedido'[v] = IF v = w THEN Livre ELSE Perder(pedido[v], {p.id})
        /\ \A x \in Sessoes : naoViu'[x] = IF x = p.id THEN p.depois ELSE naoViu[x] \ {p.id}
    BY <1>1, <1>2, GravarMuda
  <2>2. p.id \in Sessoes /\ p.linha \in Linhas /\ p.depois \subseteq Sessoes
    BY <2>1 DEF Andamento
  <2>3. duracao' = duracao
    BY DEF Gravar
  <2>4. QED
    BY <2>1, <2>2, <2>3
<1>4. ASSUME NEW v \in Pedidos, v # w
      PROVE  /\ SoVista(v) /\ pedido[v].depois \subseteq pedido'[v].depois
             /\ pedido[v].fase # "conferido" => pedido'[v] = pedido[v]
             /\ pedido[v].fase = "conferido" /\ NaGrade(pedido[v].linha.status) =>
                   {p.id} \ {pedido[v].id} \subseteq pedido'[v].depois
  <2>1. pedido'[v] = Perder(pedido[v], {p.id}) /\ p.id \in Sessoes /\ TypeOK
    BY <1>2, <1>3, <1>4 DEF Registro
  <2>2. QED
    BY <2>1, PerdaDeUma
<1>5. pedido'[w].fase = "livre"
  BY <1>3 DEF Livre
<1>6. FimLido'
  BY <1>3, <1>4, <1>5 DEF GradeVigiada, FimLido, SoVista
<1>7. RespostaVale'
  <2>1. SUFFICES ASSUME NEW v \in Pedidos, pedido'[v].fase = "conferido",
                        NaGrade(pedido'[v].linha.status),
                        NEW b \in Sessoes, b # pedido'[v].id, Visivel(b)', (Cruza(pedido[v], b))',
                        v # w
                 PROVE  b \in pedido'[v].depois
    BY <1>5 DEF RespostaVale
  <2>2. PICK q : q = pedido[v]
    OBVIOUS
  <2>3. /\ q.fase = "conferido" /\ NaGrade(q.linha.status) /\ b # q.id
        /\ pedido'[v].linha = q.linha
    BY <1>4, <2>1, <2>2 DEF SoVista
  <2>4. CASE b = p.id
    BY <1>4, <2>1, <2>2, <2>3, <2>4
  <2>5. CASE b # p.id
    <3>1. Visivel(b) /\ Cruza(q, b)
      BY <1>3, <2>1, <2>2, <2>3, <2>5 DEF Visivel, Cruza, FimPrevisto
    <3>2. QED
      BY <1>4, <2>1, <2>2, <2>3, <3>1 DEF GradeVigiada, RespostaVale
  <2>6. QED
    BY <2>4, <2>5
<1>8. ASSUME NEW a \in Sessoes, NEW b \in Sessoes, a # b, Visivel(a)', Visivel(b)',
             (Sobrepostas(a, b))'
      PROVE  b \in naoViu'[a] \/ a \in naoViu'[b]
  <2>1. \A x \in Sessoes : x # p.id => /\ Visivel(x)' <=> Visivel(x)
                                       /\ FimPrevisto(x)' = FimPrevisto(x)
    BY <1>3 DEF Visivel, FimPrevisto
  <2>2. \A x \in Sessoes :
            /\ x # p.id /\ Visivel(x) /\ Cruza(p, x) /\ NaGrade(p.linha.status) => x \in p.depois
    BY <1>1, <1>3 DEF GradeVigiada, RespostaVale
  <2>3. CASE a = p.id
    <3>1. NaGrade(p.linha.status) /\ Cruza(p, b) /\ Visivel(b)
      BY <1>3, <1>8, <2>1, <2>3 DEF Visivel, Cruza, Sobrepostas, FimPrevisto
    <3>2. QED
      BY <1>3, <1>8, <2>2, <2>3, <3>1
  <2>4. CASE b = p.id
    <3>1. NaGrade(p.linha.status) /\ Cruza(p, a) /\ Visivel(a)
      BY <1>3, <1>8, <2>1, <2>4 DEF Visivel, Cruza, Sobrepostas, FimPrevisto
    <3>2. QED
      BY <1>3, <1>8, <2>2, <2>4, <3>1
  <2>5. CASE a # p.id /\ b # p.id
    <3>1. Visivel(a) /\ Visivel(b) /\ Sobrepostas(a, b)
      BY <1>3, <1>8, <2>1, <2>5 DEF Sobrepostas
    <3>2. Vigia(a, b)
      BY <1>2, <1>8, <3>1, GradeDeVisiveis DEF GradeVigiada, ConflitosVigiados
    <3>3. QED
      BY <1>3, <2>5, <3>2 DEF Vigia
  <2>6. QED
    BY <2>3, <2>4, <2>5
<1>9. ConflitosVigiados'
  BY <1>8 DEF ConflitosVigiados, Vigia
<1>10. (ConflitosVigiados <=> ConflitoSoPorCorrida)'
  BY GradeDeVisiveis, PTL
<1>11. QED
  BY <1>6, <1>7, <1>9, <1>10 DEF GradeVigiada

-----------------------------------------------------------------------------
LEMMA GradeInicial == Init => GradeVigiada
<1> SUFFICES ASSUME Init PROVE GradeVigiada
  OBVIOUS
<1>1. \A s \in Sessoes : ~ Visivel(s)
  BY DEF Init, Visivel, NaGrade, SemLinha
<1>2. ConflitoSoPorCorrida
  BY <1>1 DEF ConflitoSoPorCorrida, Grade
<1>3. FimLido /\ RespostaVale
  BY DEF Init, FimLido, RespostaVale, Livre
<1>4. QED
  BY <1>2, <1>3, RegistroInicial DEF GradeVigiada

LEMMA GradeParada == GradeVigiada /\ UNCHANGED vars => GradeVigiada'
<1> SUFFICES ASSUME GradeVigiada, UNCHANGED vars PROVE GradeVigiada'
  OBVIOUS
<1>1. Registro'
  BY RegistroParado DEF GradeVigiada
<1>2. FimLido' /\ RespostaVale' /\ ConflitoSoPorCorrida'
  BY DEF GradeVigiada, FimLido, RespostaVale, Cruza, Visivel, FimPrevisto, vars,
         ConflitoSoPorCorrida, Grade, Sobrepostas
<1>3. QED
  BY <1>1, <1>2 DEF GradeVigiada

LEMMA GradePreservada == GradeVigiada /\ [Next]_vars => GradeVigiada'
<1> SUFFICES ASSUME GradeVigiada, [Next]_vars PROVE GradeVigiada'
  OBVIOUS
<1>1. Registro'
  BY RegistroPreservado DEF GradeVigiada
<1>2. CASE EscreverFilme
  BY <1>1, <1>2, FilmeGrade, GradeParada DEF EscreverFilme, RemoverFilme
<1>3. ASSUME NEW w \in Pedidos, Atender(w) PROVE GradeVigiada'
  BY <1>1, <1>3, PedirGrade, ConferirVigia, GravarGrade DEF Atender
<1>4. ASSUME NEW s \in Sessoes, RemoverSessao(s) PROVE GradeVigiada'
  BY <1>1, <1>4, RemoverGrade
<1>5. CASE UNCHANGED vars
  BY <1>5, GradeParada
<1>6. QED
  BY <1>2, <1>3, <1>4, <1>5 DEF Next

(* Two sessions of the grid are in one room at one time only when the      *)
(* writes could not see each other, or the duration of a film changed      *)
(* after the question was put: for any number of requests, in any order.   *)
THEOREM ConflitoTemCorrida == Spec => []ConflitoSoPorCorrida
<1>1. GradeVigiada => ConflitoSoPorCorrida
  BY DEF GradeVigiada
<1>2. QED
  BY <1>1, GradeInicial, GradePreservada, PTL DEF Spec
=============================================================================
