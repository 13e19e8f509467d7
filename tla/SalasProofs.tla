---------------------------- MODULE SalasProofs ----------------------------
(***************************************************************************)
(* Proofs about Salas, for any number of requests, cinemas, rooms, numbers *)
(* and layouts, and about the paging of Listagem, for any page size,       *)
(* limits and number of rows.                                              *)
(***************************************************************************)
EXTENDS Salas, Listagem, PlantaProofs, TLAPS

EmCurso(w) == pedido[w] # Livre

(* The id of a room being created is of one request, and of no row. *)
IdsNovos ==
    \A v \in Pedidos : EmCurso(v) /\ pedido[v].op = "criar" =>
        /\ ~ Existe(pedido[v].id)
        /\ \A w \in Pedidos : EmCurso(w) /\ w # v => pedido[w].id # pedido[v].id

(* What any other request holds of a room is still true of it: its cinema  *)
(* and its layout.                                                         *)
LinhaFiel ==
    \A w \in Pedidos : EmCurso(w) /\ pedido[w].op # "criar" =>
        /\ Existe(pedido[w].id)
        /\ pedido[w].linha.planta = sala[pedido[w].id].planta
        /\ pedido[w].linha.cinema = sala[pedido[w].id].cinema

(* The inductive invariant. *)
Cadastro == TypeOK /\ IdsNovos /\ LinhaFiel /\ NumeroUnico /\ AnuncioDaSala

-----------------------------------------------------------------------------
(* What a request in course holds. *)
Andamento == [fase: {"lido", "conferido"}, op: {"criar", "alterar", "anunciar"},
              id: Salas, linha: Linhas]

LEMMA PedidoTipo ==
    ASSUME TypeOK, NEW w \in Pedidos
    PROVE  /\ EmCurso(w) <=> pedido[w].fase # "livre"
           /\ EmCurso(w) => pedido[w] \in Andamento
<1>1. pedido[w] \in Andamento \/ pedido[w] = Livre
  BY DEF TypeOK, Andamento
<1>2. Livre.fase = "livre" /\ \A q \in Andamento : q.fase # "livre"
  BY DEF Livre, Andamento
<1>3. QED
  BY <1>1, <1>2 DEF EmCurso

(* Rows and what is not one. *)
LEMMA LinhaExiste ==
    ASSUME NEW l \in Linhas
    PROVE  l # SemSala
  BY ConstantesSalas DEF Linhas, SemSala

(* What a client may ask to be written is a row. *)
LEMMA LinhaPedida ==
    ASSUME NEW c \in Cinemas, NEW n \in Numeros, NEW ds, NEW ativo \in BOOLEAN,
           DadosValidos(n, ds), NovoLayoutSala(ds) \in Plantas
    PROVE  NovaSala(c, n, ds, ativo) \in Linhas
  BY ConstantesSalas DEF DadosValidos, NovaSala, Linhas

(* Only one request changes, to one whose row is in order. *)
LEMMA SoPedido ==
    ASSUME Cadastro, UNCHANGED <<sala, anunciadas>>,
           cinema' \in [Cinemas -> {"INEXISTENTE", "ATIVO", "INATIVO"}],
           NEW w \in Pedidos, NEW q, pedido' = [pedido EXCEPT ![w] = q],
           \/ q = Livre
           \/ /\ q \in Andamento
              /\ q.op = "criar" =>
                    /\ ~ Existe(q.id)
                    /\ \A v \in Pedidos : EmCurso(v) /\ v # w => pedido[v].id # q.id
              /\ q.op # "criar" =>
                    /\ Existe(q.id)
                    /\ q.linha.planta = sala[q.id].planta
                    /\ q.linha.cinema = sala[q.id].cinema
    PROVE  Cadastro'
<1>1. \A v \in Pedidos : pedido'[v] = IF v = w THEN q ELSE pedido[v]
  BY DEF Cadastro, TypeOK
<1>2. TypeOK'
  BY DEF Cadastro, TypeOK, Andamento
<1>3. IdsNovos'
  BY <1>1 DEF Cadastro, IdsNovos, LinhaFiel, EmCurso, Existe
<1>4. LinhaFiel'
  BY <1>1 DEF Cadastro, LinhaFiel, EmCurso, Existe
<1>5. NumeroUnico' /\ AnuncioDaSala'
  BY DEF Cadastro, NumeroUnico, AnuncioDaSala, Existe
<1>6. QED
  BY <1>2, <1>3, <1>4, <1>5 DEF Cadastro

-----------------------------------------------------------------------------
LEMMA CadastroInicial == Init => Cadastro
<1> SUFFICES ASSUME Init PROVE Cadastro
  OBVIOUS
<1>1. TypeOK
  BY DEF Init, TypeOK
<1>2. IdsNovos /\ LinhaFiel
  BY DEF Init, IdsNovos, LinhaFiel, EmCurso
<1>3. NumeroUnico /\ AnuncioDaSala
  BY DEF Init, NumeroUnico, AnuncioDaSala, SemSala
<1>4. QED
  BY <1>1, <1>2, <1>3 DEF Cadastro

LEMMA CinemaCadastro ==
    ASSUME Cadastro, EscreverCinema
    PROVE  Cadastro'
<1>1. /\ UNCHANGED <<sala, anunciadas, pedido>>
      /\ cinema' \in [Cinemas -> {"INEXISTENTE", "ATIVO", "INATIVO"}]
  BY DEF EscreverCinema, CriarCinema, AtualizarCinema, RemoverCinema, EstadoDoCinema,
         Cadastro, TypeOK
<1>2. QED
  BY <1>1 DEF Cadastro, TypeOK, IdsNovos, LinhaFiel, NumeroUnico, AnuncioDaSala, EmCurso, Existe

LEMMA CriacaoCadastro ==
    ASSUME Cadastro, NEW w \in Pedidos, NEW a \in Salas, NEW c \in Cinemas, NEW n \in Numeros,
           NEW ds \in Desenhos, NEW ativo \in BOOLEAN, PedirCriacao(w, a, c, n, ds, ativo)
    PROVE  Cadastro'
<1> DEFINE q == [fase |-> "lido", op |-> "criar", id |-> a, linha |-> NovaSala(c, n, ds, ativo)]
<1>1. NovoLayoutSala(ds) \in Plantas
  BY DEF PedirCriacao, DadosValidos, Plantas
<1>2. NovaSala(c, n, ds, ativo) \in Linhas
  BY <1>1, LinhaPedida DEF PedirCriacao
<1>3. q \in Andamento /\ q.op = "criar" /\ q.id = a
  BY <1>2 DEF Andamento
<1>4. ~ Existe(a) /\ \A v \in Pedidos : EmCurso(v) /\ v # w => pedido[v].id # a
  BY DEF PedirCriacao, IdNovo
<1>5. pedido' = [pedido EXCEPT ![w] = q] /\ UNCHANGED <<cinema, sala, anunciadas>>
  BY DEF PedirCriacao, Comecar
<1> HIDE DEF q
<1>6. QED
  BY <1>3, <1>4, <1>5, SoPedido DEF Cadastro, TypeOK

LEMMA AlteracaoCadastro ==
    ASSUME Cadastro, NEW w \in Pedidos, NEW a \in Salas, NEW c \in Cinemas \cup {Ausente},
           NEW n \in Numeros, NEW corpo \in Desenhos \cup {Ausente}, NEW ativo \in BOOLEAN,
           PedirAlteracao(w, a, c, n, corpo, ativo)
    PROVE  Cadastro'
<1>1. PICK ds : ds = IF corpo = Ausente THEN Dados(sala[a].planta) ELSE corpo
  OBVIOUS
<1> DEFINE l == NovaSala(sala[a].cinema, n, ds, ativo)
           q == [fase |-> "lido", op |-> "alterar", id |-> a, linha |-> l]
<1>2. /\ Existe(a) /\ DadosValidos(n, ds) /\ NovoLayoutSala(ds) = sala[a].planta
      /\ pedido' = [pedido EXCEPT ![w] = q] /\ UNCHANGED <<cinema, sala, anunciadas>>
  BY <1>1 DEF PedirAlteracao, MesmaPlanta, Comecar
<1>3. sala[a] \in Linhas
  BY <1>2 DEF Cadastro, TypeOK, Existe
<1>4. l \in Linhas
  BY <1>2, <1>3, LinhaPedida DEF Linhas
<1>5. l.planta = sala[a].planta /\ l.cinema = sala[a].cinema
  BY <1>2 DEF NovaSala
<1> HIDE DEF l
<1>6. q \in Andamento /\ q.op = "alterar" /\ q.id = a /\ q.linha = l
  BY <1>4 DEF Andamento
<1> HIDE DEF q
<1>7. QED
  BY <1>2, <1>5, <1>6, SoPedido DEF Cadastro, TypeOK

LEMMA SessaoCadastro ==
    ASSUME Cadastro, NEW w \in Pedidos, NEW a \in Salas, PedirSessao(w, a)
    PROVE  Cadastro'
<1> DEFINE q == [fase |-> "lido", op |-> "anunciar", id |-> a, linha |-> sala[a]]
<1>1. /\ Existe(a)
      /\ pedido' = [pedido EXCEPT ![w] = q] /\ UNCHANGED <<cinema, sala, anunciadas>>
  BY DEF PedirSessao, Comecar
<1>2. sala[a] \in Linhas
  BY <1>1 DEF Cadastro, TypeOK, Existe
<1>3. q \in Andamento /\ q.op = "anunciar" /\ q.id = a /\ q.linha = sala[a]
  BY <1>2 DEF Andamento
<1> HIDE DEF q
<1>4. QED
  BY <1>1, <1>3, SoPedido DEF Cadastro, TypeOK

LEMMA ConferirCadastro ==
    ASSUME Cadastro, NEW w \in Pedidos, ConferirNumero(w)
    PROVE  Cadastro'
<1>1. PICK p : p = pedido[w]
  OBVIOUS
<1> DEFINE q == [p EXCEPT !.fase = "conferido"]
<1>2. p.fase = "lido" /\ UNCHANGED <<cinema, sala, anunciadas>>
  BY <1>1 DEF ConferirNumero
<1>3. p \in Andamento /\ EmCurso(w)
  BY <1>1, <1>2, PedidoTipo DEF Cadastro
<1>4. pedido' = [pedido EXCEPT ![w] = q]
  BY <1>1 DEF ConferirNumero, Cadastro, TypeOK
<1>5. q \in Andamento /\ q.op = p.op /\ q.id = p.id /\ q.linha = p.linha
  BY <1>3 DEF Andamento
<1> HIDE DEF q
<1>6. /\ p.op = "criar" =>
            /\ ~ Existe(p.id)
            /\ \A v \in Pedidos : EmCurso(v) /\ v # w => pedido[v].id # p.id
      /\ p.op # "criar" =>
            /\ Existe(p.id)
            /\ p.linha.planta = sala[p.id].planta
            /\ p.linha.cinema = sala[p.id].cinema
  BY <1>1, <1>3 DEF Cadastro, IdsNovos, LinhaFiel
<1>7. QED
  BY <1>2, <1>4, <1>5, <1>6, SoPedido DEF Cadastro, TypeOK

LEMMA RecusarCadastro ==
    ASSUME Cadastro, NEW w \in Pedidos, Recusar(w)
    PROVE  Cadastro'
  BY SoPedido DEF Recusar, Cadastro, TypeOK

(* A write of a row: the row keeps its cinema and its layout, and no other *)
(* active one of the cinema has its number.                                *)
LEMMA GravarCadastro ==
    ASSUME Cadastro, NEW w \in Pedidos, Gravar(w)
    PROVE  Cadastro'
<1>1. PICK p : p = pedido[w]
  OBVIOUS
<1>2. /\ p.fase = "conferido" /\ IndiceAceita(p.linha, p.id)
      /\ UNCHANGED <<cinema, anunciadas>>
      /\ pedido' = [pedido EXCEPT ![w] = Livre]
  BY <1>1 DEF Gravar
<1>3. p \in Andamento /\ EmCurso(w) /\ p.id \in Salas /\ p.linha \in Linhas
  BY <1>1, <1>2, PedidoTipo DEF Cadastro, Andamento
<1>4. /\ p.op = "criar" => ~ Existe(p.id)
      /\ p.op # "criar" => /\ Existe(p.id)
                           /\ p.linha.planta = sala[p.id].planta
                           /\ p.linha.cinema = sala[p.id].cinema
  BY <1>1, <1>3 DEF Cadastro, IdsNovos, LinhaFiel
<1>5. \A x \in Salas : sala'[x] = IF x = p.id THEN p.linha ELSE sala[x]
  <2>1. p.op # "criar" => [p.linha EXCEPT !.cinema = sala[p.id].cinema] = p.linha
    BY <1>3, <1>4 DEF Linhas
  <2>2. sala' = [sala EXCEPT ![p.id] =
           IF p.op = "criar" THEN p.linha ELSE [p.linha EXCEPT !.cinema = sala[p.id].cinema]]
    BY <1>1 DEF Gravar
  <2>3. QED
    BY <2>1, <2>2 DEF Cadastro, TypeOK
<1>6. DOMAIN sala' = Salas /\ sala' = [x \in Salas |-> sala'[x]]
  BY DEF Gravar, Cadastro, TypeOK
<1>7. TypeOK'
  <2>1. sala' \in [Salas -> Linhas \cup {SemSala}]
    BY <1>3, <1>5, <1>6 DEF Cadastro, TypeOK
  <2>2. QED
    BY <1>2, <2>1 DEF Cadastro, TypeOK
<1>8. /\ \A x \in Salas : Existe(x)' <=> (x = p.id \/ Existe(x))
      /\ \A x \in Salas : Existe(x) => /\ sala'[x].planta = sala[x].planta
                                       /\ sala'[x].cinema = sala[x].cinema
  BY <1>3, <1>4, <1>5, LinhaExiste DEF Existe
<1>9. \A v \in Pedidos : pedido'[v] = IF v = w THEN Livre ELSE pedido[v]
  BY <1>2 DEF Cadastro, TypeOK
<1>10. \A v \in Pedidos : EmCurso(v) => pedido[v].id \in Salas
  BY PedidoTipo DEF Cadastro, Andamento
<1>11. IdsNovos'
  <2>1. ASSUME NEW v \in Pedidos, EmCurso(v)', (pedido[v].op = "criar")'
        PROVE  /\ ~ Existe(pedido[v].id)'
               /\ \A u \in Pedidos : EmCurso(u)' /\ u # v => pedido'[u].id # pedido'[v].id
    <3>1. v # w /\ pedido'[v] = pedido[v] /\ EmCurso(v) /\ pedido[v].op = "criar"
      BY <1>9, <2>1 DEF EmCurso
    <3>2. pedido[v].id # p.id /\ ~ Existe(pedido[v].id) /\ pedido[v].id \in Salas
      BY <1>1, <1>3, <1>10, <3>1 DEF Cadastro, IdsNovos
    <3>3. sala'[pedido'[v].id] = SemSala
      BY <1>8, <3>1, <3>2 DEF Existe
    <3>4. \A u \in Pedidos : EmCurso(u)' /\ u # v => pedido'[u].id # pedido'[v].id
      BY <1>9, <3>1 DEF Cadastro, IdsNovos, EmCurso
    <3>5. QED
      BY <3>3, <3>4 DEF Existe
  <2>2. QED
    BY <2>1 DEF IdsNovos
<1>12. LinhaFiel'
  <2>1. ASSUME NEW v \in Pedidos, EmCurso(v)', (pedido[v].op # "criar")'
        PROVE  /\ sala'[pedido'[v].id] # SemSala
               /\ pedido'[v].linha.planta = sala'[pedido'[v].id].planta
               /\ pedido'[v].linha.cinema = sala'[pedido'[v].id].cinema
    <3>1. v # w /\ pedido'[v] = pedido[v] /\ EmCurso(v) /\ pedido[v].op # "criar"
      BY <1>9, <2>1 DEF EmCurso
    <3>2. /\ Existe(pedido[v].id) /\ pedido[v].id \in Salas
          /\ pedido[v].linha.planta = sala[pedido[v].id].planta
          /\ pedido[v].linha.cinema = sala[pedido[v].id].cinema
      BY <1>10, <3>1 DEF Cadastro, LinhaFiel
    <3>3. QED
      BY <1>8, <3>1, <3>2 DEF Existe
  <2>2. QED
    BY <2>1 DEF LinhaFiel, Existe
<1>13. NumeroUnico'
  <2>1. ASSUME NEW a \in Salas, a # p.id, sala[a].ativo, p.linha.ativo,
               sala[a].cinema = p.linha.cinema
        PROVE  sala[a].numero # p.linha.numero
    <3>1. Existe(a)
      BY <2>1 DEF Existe, SemSala
    <3>2. QED
      BY <1>2, <2>1, <3>1 DEF IndiceAceita, NumeroEmUso
  <2>2. QED
    BY <1>5, <2>1 DEF Cadastro, NumeroUnico
<1>14. AnuncioDaSala'
  <2>1. \A x \in anunciadas : x[1] \in Salas
    BY DEF Cadastro, TypeOK
  <2>2. QED
    BY <1>2, <1>8, <2>1 DEF Cadastro, AnuncioDaSala, Existe
<1>15. QED
  BY <1>7, <1>11, <1>12, <1>13, <1>14 DEF Cadastro

(* A removal only takes a room out of use. *)
LEMMA RemoverCadastro ==
    ASSUME Cadastro, NEW a \in Salas, RemoverSala(a)
    PROVE  Cadastro'
<1>1. sala[a] \in Linhas
  BY DEF RemoverSala, Cadastro, TypeOK, Existe
<1>2. [sala[a] EXCEPT !.ativo = FALSE] \in Linhas
  BY <1>1 DEF Linhas
<1>3. sala' = [sala EXCEPT ![a] = [sala[a] EXCEPT !.ativo = FALSE]]
      /\ UNCHANGED <<cinema, anunciadas, pedido>>
  BY DEF RemoverSala, Cadastro, TypeOK
<1>4. TypeOK'
  BY <1>2, <1>3 DEF Cadastro, TypeOK
<1>5. /\ \A x \in Salas : Existe(x)' <=> Existe(x)
      /\ \A x \in Salas : /\ sala'[x].planta = sala[x].planta
                          /\ sala'[x].cinema = sala[x].cinema
                          /\ sala'[x].numero = sala[x].numero
                          /\ sala'[x].ativo => sala[x].ativo
  BY <1>1, <1>2, <1>3, LinhaExiste DEF Existe, Linhas, Cadastro, TypeOK
<1>6. \A v \in Pedidos : EmCurso(v) => pedido[v].id \in Salas
  BY PedidoTipo DEF Cadastro, Andamento
<1>7. \A v \in Pedidos : EmCurso(v)' <=> EmCurso(v)
  BY <1>3 DEF EmCurso
<1>8. IdsNovos' /\ LinhaFiel'
  BY <1>3, <1>5, <1>6 DEF Cadastro, IdsNovos, LinhaFiel, EmCurso, Existe
<1>9. NumeroUnico'
  BY <1>5 DEF Cadastro, NumeroUnico
<1>10. AnuncioDaSala'
  <2>1. \A x \in anunciadas : x[1] \in Salas
    BY DEF Cadastro, TypeOK
  <2>2. QED
    BY <1>3, <1>5, <2>1 DEF Cadastro, AnuncioDaSala, Existe
<1>11. QED
  BY <1>4, <1>8, <1>9, <1>10 DEF Cadastro

(* The layout a session was read with is still the one of the room. *)
LEMMA AnunciarCadastro ==
    ASSUME Cadastro, NEW w \in Pedidos, Anunciar(w)
    PROVE  Cadastro'
<1>1. PICK p : p = pedido[w]
  OBVIOUS
<1>2. /\ p.fase = "lido" /\ p.op = "anunciar" /\ UNCHANGED <<cinema, sala>>
      /\ pedido' = [pedido EXCEPT ![w] = Livre]
      /\ anunciadas' = anunciadas \cup {<<p.id, Poltronas(p.linha.planta)>>}
  BY <1>1 DEF Anunciar
<1>3. EmCurso(w) /\ p.id \in Salas /\ p.linha \in Linhas
  BY <1>1, <1>2, PedidoTipo DEF Cadastro, Andamento
<1>4. Existe(p.id) /\ p.linha.planta = sala[p.id].planta /\ p.linha.planta \in Plantas
  BY <1>1, <1>2, <1>3 DEF Cadastro, LinhaFiel, Linhas
<1>5. TypeOK'
  BY <1>2, <1>3, <1>4 DEF Cadastro, TypeOK
<1>6. \A v \in Pedidos : pedido'[v] = IF v = w THEN Livre ELSE pedido[v]
  BY <1>2 DEF Cadastro, TypeOK
<1>7. IdsNovos' /\ LinhaFiel'
  BY <1>2, <1>6 DEF Cadastro, IdsNovos, LinhaFiel, EmCurso, Existe
<1>8. NumeroUnico'
  BY <1>2 DEF Cadastro, NumeroUnico
<1>9. AnuncioDaSala'
  BY <1>2, <1>4 DEF Cadastro, AnuncioDaSala, Existe
<1>10. QED
  BY <1>5, <1>7, <1>8, <1>9 DEF Cadastro

LEMMA ParadoCadastro ==
    ASSUME Cadastro, UNCHANGED vars
    PROVE  Cadastro'
  BY DEF vars, Cadastro, TypeOK, IdsNovos, LinhaFiel, NumeroUnico, AnuncioDaSala, EmCurso, Existe

LEMMA PassoCadastro == Cadastro /\ [Next]_vars => Cadastro'
<1> SUFFICES ASSUME Cadastro, [Next]_vars PROVE Cadastro'
  OBVIOUS
<1>1. CASE EscreverCinema
  BY <1>1, CinemaCadastro
<1>2. CASE \E w \in Pedidos : Atender(w)
  <2>1. PICK w \in Pedidos : Atender(w)
    BY <1>2
  <2>2. QED
    BY <2>1, CriacaoCadastro, AlteracaoCadastro, ConferirCadastro, GravarCadastro,
       RecusarCadastro, SessaoCadastro, AnunciarCadastro DEF Atender
<1>3. CASE \E a \in Salas : RemoverSala(a)
  BY <1>3, RemoverCadastro
<1>4. CASE UNCHANGED vars
  BY <1>4, ParadoCadastro
<1>5. QED
  BY <1>1, <1>2, <1>3, <1>4 DEF Next

LEMMA CadastroSempre == Spec => []Cadastro
<1>1. QED
  BY CadastroInicial, PassoCadastro, PTL DEF Spec

-----------------------------------------------------------------------------
(* The types of the rows, of the requests and of what was announced: a     *)
(* room on file has a cinema, a number from 1 on and a layout that         *)
(* NovoLayoutSala made.                                                    *)
THEOREM TipoDasSalas == Spec => []TypeOK
<1>1. Cadastro => TypeOK
  BY DEF Cadastro
<1>2. QED
  BY <1>1, CadastroSempre, PTL

(* Two active rooms of a cinema never have one number (criar_sala.go,      *)
(* atualizar_sala.go): the index of the database decides when two requests *)
(* both found it free.                                                     *)
THEOREM NumeroSempreUnico == Spec => []NumeroUnico
<1>1. Cadastro => NumeroUnico
  BY DEF Cadastro
<1>2. QED
  BY <1>1, CadastroSempre, PTL

(* The seats announced with the sessions of a room stay the seats of the   *)
(* room (criar_sessao.go reads the layout before it announces it, and      *)
(* atualizar_sala.go refuses another one).                                 *)
THEOREM AnuncioSempreDaSala == Spec => []AnuncioDaSala
<1>1. Cadastro => AnuncioDaSala
  BY DEF Cadastro
<1>2. QED
  BY <1>1, CadastroSempre, PTL

(* The layouts on file. *)
LEMMA PlantasSao ==
    ASSUME NEW p \in Plantas
    PROVE  EhPlanta(p)
<1>1. PICK ds \in Desenhos : PlantaValida(ds) /\ p = NovoLayoutSala(ds)
  BY DEF Plantas
<1>2. ds \in Seq(DadosFileira)
  BY <1>1, ConstantesSalas
<1>3. QED
  BY <1>1, <1>2, PlantaFeita

LEMMA PlantaDaSala ==
    ASSUME TypeOK, NEW a \in Salas, Existe(a)
    PROVE  EhPlanta(sala[a].planta)
<1>1. sala[a] \in Linhas
  BY DEF TypeOK, Existe
<1>2. sala[a].planta \in Plantas
  BY <1>1 DEF Linhas
<1>3. QED
  BY <1>2, PlantasSao

(* Whatever rooms the clients drew, the seats announced with a session are *)
(* seats montarMatriz (provisionar_sessao.go) accepts: none is refused and *)
(* none comes twice, so that a session that is created has seats to sell,  *)
(* as many as the room says.                                               *)
THEOREM AnuncioSempreAceito == Spec => []AnuncioAceito
<1>1. ASSUME Cadastro PROVE AnuncioAceito
  <2> SUFFICES ASSUME NEW x \in anunciadas
               PROVE  MatrizAceita(x[2]) /\ Len(x[2]) = CapacidadeTotal(sala[x[1]].planta)
    BY DEF AnuncioAceito
  <2>1. x[1] \in Salas /\ Existe(x[1]) /\ x[2] = Poltronas(sala[x[1]].planta)
    BY <1>1 DEF Cadastro, TypeOK, AnuncioDaSala
  <2>2. EhPlanta(sala[x[1]].planta)
    BY <1>1, <2>1, PlantaDaSala DEF Cadastro
  <2>3. QED
    BY <2>1, <2>2, PlantaAceita
<1>2. QED
  BY <1>1, CadastroSempre, PTL

(* A client may always send a room back as it got it, its rows in any      *)
(* order: AtualizarSala (atualizar_sala.go) finds the layout it has.       *)
THEOREM ReenvioSempreAceito == Spec => []ReenvioAceito
<1>1. ASSUME Cadastro PROVE ReenvioAceito
  <2>1. ASSUME NEW a \in Salas, Existe(a),
               NEW ordem \in Bijection(DOMAIN sala[a].planta, DOMAIN sala[a].planta)
        PROVE  LET ds == [i \in DOMAIN ordem |-> Dados(sala[a].planta)[ordem[i]]] IN
               PlantaValida(ds) /\ MesmaPlanta(a, NovoLayoutSala(ds))
    <3>1. EhPlanta(sala[a].planta)
      BY <1>1, <2>1, PlantaDaSala DEF Cadastro
    <3>2. QED
      BY <3>1, ReenvioMesmaPlanta DEF MesmaPlanta
  <2>2. QED
    BY <2>1 DEF ReenvioAceito
<1>2. QED
  BY <1>1, CadastroSempre, PTL

-----------------------------------------------------------------------------
(* What the rest of the system takes from a room for good: the row does    *)
(* not go away, and keeps its cinema and its layout, whatever is removed   *)
(* (Desativar) or written over what was read before (AtualizarSala): the   *)
(* sessions refer to it, and the seats on sale are copies of its layout.   *)
SalaPermanece ==
    [][\A a \in Salas : Existe(a) =>
          /\ Existe(a)'
          /\ sala'[a].planta = sala[a].planta
          /\ sala'[a].cinema = sala[a].cinema]_vars

(* A room is of a cinema on file: between the question whether the cinema  *)
(* exists and the write of the room a cinema may be removed, never erased. *)
CinemaDasSalas ==
    \A a \in Salas : Existe(a) => sala[a].cinema \in Cinemas /\ CinemaExiste(sala[a].cinema)

CinemaDosPedidos ==
    \A w \in Pedidos : EmCurso(w) => CinemaExiste(pedido[w].linha.cinema)

(* One row is written at a time, and only Gravar and RemoverSala write.    *)
LEMMA SalaPasso ==
    ASSUME Cadastro, [Next]_vars, NEW a \in Salas, Existe(a)
    PROVE  /\ Existe(a)'
           /\ sala'[a].planta = sala[a].planta
           /\ sala'[a].cinema = sala[a].cinema
<1> DEFINE Fica == /\ Existe(a)'
                   /\ sala'[a].planta = sala[a].planta
                   /\ sala'[a].cinema = sala[a].cinema
<1>1. sala[a] \in Linhas /\ sala \in [Salas -> Linhas \cup {SemSala}]
  BY DEF Cadastro, TypeOK, Existe
<1>2. ASSUME sala' = sala PROVE Fica
  BY <1>2 DEF Existe
<1>3. ASSUME NEW w \in Pedidos, Gravar(w) PROVE Fica
  <2>1. PICK p : p = pedido[w]
    OBVIOUS
  <2>2. EmCurso(w) /\ p \in Andamento
    BY <1>3, <2>1, PedidoTipo DEF Gravar, Cadastro
  <2>3. CASE p.id # a
    <3>1. sala'[a] = sala[a]
      BY <1>1, <1>3, <2>1, <2>3 DEF Gravar
    <3>2. QED
      BY <3>1 DEF Existe
  <2>4. CASE p.id = a
    <3>1. p.op # "criar" /\ p.linha.planta = sala[a].planta /\ p.linha \in Linhas
      BY <2>1, <2>2, <2>4 DEF Cadastro, IdsNovos, LinhaFiel, Andamento
    <3>2. sala'[a] = [p.linha EXCEPT !.cinema = sala[a].cinema]
      BY <1>1, <1>3, <2>1, <2>4, <3>1 DEF Gravar
    <3>3. sala'[a] \in Linhas /\ sala'[a].planta = sala[a].planta /\ sala'[a].cinema = sala[a].cinema
      BY <1>1, <3>1, <3>2 DEF Linhas
    <3>4. QED
      BY <3>3, LinhaExiste DEF Existe
  <2>5. QED
    BY <2>3, <2>4
<1>4. ASSUME NEW b \in Salas, RemoverSala(b) PROVE Fica
  <2>1. CASE b # a
    <3>1. sala'[a] = sala[a]
      BY <1>1, <1>4, <2>1 DEF RemoverSala
    <3>2. QED
      BY <3>1 DEF Existe
  <2>2. CASE b = a
    <3>1. sala'[a] = [sala[a] EXCEPT !.ativo = FALSE]
      BY <1>1, <1>4, <2>2 DEF RemoverSala
    <3>2. sala'[a] \in Linhas /\ sala'[a].planta = sala[a].planta /\ sala'[a].cinema = sala[a].cinema
      BY <1>1, <3>1 DEF Linhas
    <3>3. QED
      BY <3>2, LinhaExiste DEF Existe
  <2>3. QED
    BY <2>1, <2>2
<1> HIDE DEF Fica
<1>5. ASSUME EscreverCinema PROVE Fica
  BY <1>2, <1>5 DEF EscreverCinema, CriarCinema, AtualizarCinema, RemoverCinema
<1>6. ASSUME NEW w \in Pedidos, Atender(w) PROVE Fica
  BY <1>2, <1>3, <1>6
  DEF Atender, PedirCriacao, PedirAlteracao, ConferirNumero, Recusar, PedirSessao, Anunciar, Comecar
<1>7. ASSUME UNCHANGED vars PROVE Fica
  BY <1>2, <1>7 DEF vars
<1>8. QED
  BY <1>4, <1>5, <1>6, <1>7 DEF Next, Fica

(* No cinema is erased, and what is written was asked for one on file.     *)
LEMMA CinemaPasso ==
    ASSUME Cadastro, CinemaDasSalas, CinemaDosPedidos, [Next]_vars
    PROVE  CinemaDasSalas' /\ CinemaDosPedidos'
<1> DEFINE Meta == CinemaDasSalas' /\ CinemaDosPedidos'
<1>1. \A w \in Pedidos : EmCurso(w) =>
         pedido[w].id \in Salas /\ pedido[w].linha.cinema \in Cinemas
  BY PedidoTipo DEF Cadastro, Andamento, Linhas
<1>2. /\ sala \in [Salas -> Linhas \cup {SemSala}]
      /\ cinema \in [Cinemas -> {"INEXISTENTE", "ATIVO", "INATIVO"}]
      /\ DOMAIN pedido = Pedidos
  BY DEF Cadastro, TypeOK
<1>3. ASSUME UNCHANGED <<sala, pedido>>, \A c \in Cinemas : CinemaExiste(c) => CinemaExiste(c)'
      PROVE  Meta
  BY <1>1, <1>3 DEF CinemaDasSalas, CinemaDosPedidos, Existe, EmCurso
<1>4. ASSUME NEW w \in Pedidos, NEW q, UNCHANGED <<cinema, sala>>,
             pedido' = [pedido EXCEPT ![w] = q],
             q = Livre \/ CinemaExiste(q.linha.cinema)
      PROVE  Meta
  <2>1. \A v \in Pedidos : pedido'[v] = IF v = w THEN q ELSE pedido[v]
    BY <1>2, <1>4
  <2>2. QED
    BY <1>4, <2>1 DEF CinemaDasSalas, CinemaDosPedidos, Existe, EmCurso, CinemaExiste
<1>5. ASSUME EscreverCinema PROVE Meta
  <2>1. ASSUME NEW c \in Cinemas, NEW e \in {"ATIVO", "INATIVO"},
               cinema' = [cinema EXCEPT ![c] = e], UNCHANGED <<sala, pedido>>
        PROVE  Meta
    BY <1>2, <1>3, <2>1 DEF CinemaExiste
  <2>2. QED
    BY <1>5, <2>1 DEF EscreverCinema, CriarCinema, AtualizarCinema, RemoverCinema, EstadoDoCinema
<1>6. ASSUME NEW w \in Pedidos, NEW a \in Salas, NEW c \in Cinemas, NEW n \in Numeros,
             NEW ds \in Desenhos, NEW ativo \in BOOLEAN, PedirCriacao(w, a, c, n, ds, ativo)
      PROVE  Meta
  BY <1>4, <1>6 DEF PedirCriacao, Comecar, NovaSala
<1>7. ASSUME NEW w \in Pedidos, NEW a \in Salas, NEW c \in Cinemas \cup {Ausente},
             NEW n \in Numeros, NEW ds \in Desenhos \cup {Ausente}, NEW ativo \in BOOLEAN,
             PedirAlteracao(w, a, c, n, ds, ativo)
      PROVE  Meta
  <2> DEFINE corpo == IF ds = Ausente THEN Dados(sala[a].planta) ELSE ds
             q == [fase |-> "lido", op |-> "alterar", id |-> a,
                   linha |-> NovaSala(sala[a].cinema, n, corpo, ativo)]
  <2>1. /\ pedido' = [pedido EXCEPT ![w] = q] /\ UNCHANGED <<cinema, sala>>
        /\ CinemaExiste(sala[a].cinema)
    BY <1>7 DEF PedirAlteracao, Comecar
  <2>2. q.linha.cinema = sala[a].cinema
    BY DEF NovaSala
  <2> HIDE DEF q
  <2>3. QED
    BY <1>4, <2>1, <2>2
<1>8. ASSUME NEW w \in Pedidos, ConferirNumero(w) PROVE Meta
  <2>1. EmCurso(w) /\ pedido[w] \in Andamento
    BY <1>8, PedidoTipo DEF ConferirNumero, Cadastro
  <2>2. pedido' = [pedido EXCEPT ![w] = [pedido[w] EXCEPT !.fase = "conferido"]]
    BY <1>2, <1>8 DEF ConferirNumero
  <2>3. [pedido[w] EXCEPT !.fase = "conferido"].linha = pedido[w].linha
    BY <2>1 DEF Andamento
  <2>4. QED
    BY <1>4, <1>8, <2>1, <2>2, <2>3 DEF ConferirNumero, CinemaDosPedidos
<1>9. ASSUME NEW w \in Pedidos, Recusar(w) PROVE Meta
  BY <1>4, <1>9 DEF Recusar
<1>10. ASSUME NEW w \in Pedidos, NEW a \in Salas, PedirSessao(w, a) PROVE Meta
  BY <1>4, <1>10 DEF PedirSessao, Comecar, CinemaDasSalas
<1>11. ASSUME NEW w \in Pedidos, Anunciar(w) PROVE Meta
  BY <1>4, <1>11 DEF Anunciar
<1>12. ASSUME NEW w \in Pedidos, Gravar(w) PROVE Meta
  <2>1. PICK p : p = pedido[w]
    OBVIOUS
  <2>2. EmCurso(w) /\ p \in Andamento /\ p.linha \in Linhas /\ p.id \in Salas
    BY <1>12, <2>1, PedidoTipo DEF Gravar, Cadastro, Andamento
  <2>3. CinemaExiste(p.linha.cinema) /\ p.linha.cinema \in Cinemas
    BY <1>1, <2>1, <2>2 DEF CinemaDosPedidos
  <2>4. /\ cinema' = cinema /\ pedido' = [pedido EXCEPT ![w] = Livre]
        /\ \A x \in Salas \ {p.id} : sala'[x] = sala[x]
    BY <1>2, <1>12, <2>1 DEF Gravar
  <2>5. sala'[p.id].cinema \in Cinemas /\ CinemaExiste(sala'[p.id].cinema)
    <3>1. CASE p.op = "criar"
      BY <1>2, <1>12, <2>1, <2>2, <2>3, <3>1 DEF Gravar
    <3>2. CASE p.op # "criar"
      <4>1. Existe(p.id)
        BY <2>1, <2>2, <3>2 DEF Cadastro, LinhaFiel
      <4>2. sala'[p.id].cinema = sala[p.id].cinema
        BY <2>2, <4>1, <1>12, SalaPasso DEF Next, Atender
      <4>3. QED
        BY <2>2, <4>1, <4>2 DEF CinemaDasSalas
    <3>3. QED
      BY <3>1, <3>2
  <2>6. CinemaDasSalas'
    BY <2>4, <2>5 DEF CinemaDasSalas, Existe, CinemaExiste
  <2>7. \A v \in Pedidos : pedido'[v] = IF v = w THEN Livre ELSE pedido[v]
    BY <1>2, <2>4
  <2>8. CinemaDosPedidos'
    BY <2>4, <2>7 DEF CinemaDosPedidos, EmCurso, CinemaExiste
  <2>9. QED
    BY <2>6, <2>8
<1>13. ASSUME NEW a \in Salas, RemoverSala(a) PROVE Meta
  <2>1. \A x \in Salas : Existe(x)' => Existe(x) /\ sala'[x].cinema = sala[x].cinema
    <3>1. Existe(a) /\ \A x \in Salas \ {a} : sala'[x] = sala[x]
      BY <1>2, <1>13 DEF RemoverSala
    <3>2. sala'[a].cinema = sala[a].cinema
      BY <1>13, <3>1, SalaPasso DEF Next
    <3>3. QED
      BY <3>1, <3>2 DEF Existe
  <2>2. QED
    BY <1>13, <2>1 DEF RemoverSala, CinemaDasSalas, CinemaDosPedidos, EmCurso, CinemaExiste
<1>14. ASSUME UNCHANGED vars PROVE Meta
  BY <1>3, <1>14 DEF vars, CinemaExiste
<1> HIDE DEF Meta
<1>15. ASSUME NEW w \in Pedidos, Atender(w) PROVE Meta
  BY <1>6, <1>7, <1>8, <1>9, <1>10, <1>11, <1>12, <1>15 DEF Atender
<1>16. QED
  BY <1>5, <1>13, <1>14, <1>15 DEF Next, Meta

(* A room on file stays on file, with its cinema and its layout.           *)
THEOREM SalaParaSempre == Spec => SalaPermanece
<1> DEFINE Fica == \A a \in Salas : Existe(a) =>
                      /\ Existe(a)'
                      /\ sala'[a].planta = sala[a].planta
                      /\ sala'[a].cinema = sala[a].cinema
<1>1. ASSUME Cadastro, [Next]_vars PROVE [Fica]_vars
  BY <1>1, SalaPasso
<1>2. QED
  BY <1>1, CadastroSempre, PTL DEF SalaPermanece, Spec

(* Every room is of a cinema on file.                                      *)
THEOREM SalaTemCinema == Spec => []CinemaDasSalas
<1>1. ASSUME Init PROVE CinemaDasSalas /\ CinemaDosPedidos
  BY <1>1 DEF Init, CinemaDasSalas, CinemaDosPedidos, Existe, EmCurso
<1>2. ASSUME Cadastro, CinemaDasSalas, CinemaDosPedidos, [Next]_vars
      PROVE  CinemaDasSalas' /\ CinemaDosPedidos'
  BY <1>2, CinemaPasso
<1>3. QED
  BY <1>1, <1>2, CadastroSempre, PTL DEF Spec

-----------------------------------------------------------------------------
(* Paging. *)
LEMMA EnrolarCabe ==
    ASSUME MaiorInt \in Nat, NEW x \in 0..MaiorInt
    PROVE  Enrolar(x) = x
<1> DEFINE M == MaiorInt + 1
<1>1. (x + M) % (2 * M) = x + M
  BY SMTT(30)
<1>2. QED
  BY <1>1 DEF Enrolar

LEMMA ProdutoCresce ==
    ASSUME NEW a \in Nat, NEW b \in Nat, NEW t \in Nat
    PROVE  /\ a * t \in Nat
           /\ (a + 1) * t = a * t + t
           /\ a <= b => a * t <= b * t
<1>1. a * t \in Nat /\ (a + 1) * t = a * t + t
  OBVIOUS
<1>2. ASSUME a <= b PROVE a * t <= b * t
  <2>1. PICK d \in Nat : b = a + d
    BY <1>2
  <2>2. b * t = a * t + d * t /\ d * t \in Nat
    BY <2>1
  <2>3. QED
    BY <1>1, <2>2
<1>3. QED
  BY <1>1, <1>2

(* A page without overflow: its rows, and whether another one follows. *)
LEMMA PaginaDe ==
    ASSUME MaiorInt \in Nat, NEW req, req.numero \in Nat \ {0}, req.tamanho \in Nat \ {0},
           req.numero * req.tamanho <= MaiorInt, NEW i \in Nat, NEW total \in Nat
    PROVE  /\ NaPagina(req, i) <=> /\ (req.numero - 1) * req.tamanho < i
                                   /\ i <= req.numero * req.tamanho
           /\ TemProxima(req, total) <=> req.numero * req.tamanho < total
<1> DEFINE n == req.numero - 1
           t == req.tamanho
<1>1. n \in Nat /\ req.numero = n + 1
  OBVIOUS
<1>2. n * t \in Nat /\ req.numero * t = n * t + t
  BY <1>1, ProdutoCresce
<1>3. n * t \in 0..MaiorInt /\ req.numero * t \in 0..MaiorInt
  BY <1>2
<1>4. Enrolar(n * t) = n * t /\ Enrolar(req.numero * t) = req.numero * t
  BY <1>3, EnrolarCabe
<1>5. QED
  BY <1>2, <1>4 DEF NaPagina, Offset, TemProxima

(* Paging loses no row and shows none twice: with a page size the server   *)
(* accepts, each row is on exactly one page, and a page says that another  *)
(* one follows exactly when rows are left for it.  It needs that the last  *)
(* page can be counted in an int; beyond that the page number wraps round  *)
(* (NaPagina) and the first rows come back.                                *)
THEOREM PaginasParticionam ==
    ASSUME MaiorInt \in Nat, NEW tamanho \in ParametrosLidos, NEW padrao \in Int,
           NEW maximo \in Int, NEW total \in Nat,
           total + NovoPageRequest(1, tamanho, padrao).tamanho <= MaiorInt,
           PageRequestValido(NovoPageRequest(1, tamanho, padrao), maximo)
    PROVE  LET Pagina(n) == NovoPageRequest(n, tamanho, padrao)
               Cabe(n) == Pagina(n).numero * Pagina(n).tamanho <= MaiorInt
           IN  /\ \A i \in 1..total :
                     \E n \in Nat \ {0} :
                        /\ Cabe(n) /\ NaPagina(Pagina(n), i)
                        /\ \A m \in Nat \ {0} : Cabe(m) /\ NaPagina(Pagina(m), i) => m = n
               /\ \A n \in Nat \ {0} : Cabe(n) =>
                     (TemProxima(Pagina(n), total) <=>
                        \E i \in 1..total : i > Pagina(n).numero * Pagina(n).tamanho)
<1> DEFINE t == NovoPageRequest(1, tamanho, padrao).tamanho
           Pagina(n) == NovoPageRequest(n, tamanho, padrao)
           Cabe(n) == Pagina(n).numero * Pagina(n).tamanho <= MaiorInt
<1>1. t \in Nat \ {0} /\ total + t <= MaiorInt
  BY DEF PageRequestValido, NovoPageRequest, Ou, Padrao, ParametrosLidos, TamanhoPaginaPadrao
<1>2. \A n \in Nat \ {0} : Pagina(n).numero = n /\ Pagina(n).tamanho = t
  BY DEF NovoPageRequest, Ou
<1> HIDE DEF t, Pagina
<1>3. ASSUME NEW n \in Nat \ {0}, Cabe(n)
      PROVE  /\ \A i \in 1..total :
                   NaPagina(Pagina(n), i) <=> (n - 1) * t < i /\ i <= n * t
             /\ TemProxima(Pagina(n), total) <=> n * t < total
  BY <1>1, <1>2, <1>3, PaginaDe
<1>4. ASSUME NEW i \in 1..total
      PROVE  \E n \in Nat \ {0} :
                /\ Cabe(n) /\ NaPagina(Pagina(n), i)
                /\ \A m \in Nat \ {0} : Cabe(m) /\ NaPagina(Pagina(m), i) => m = n
  <2>1. PICK k \in Nat : k * t < i /\ i <= k * t + t
    <3> DEFINE k == (i - 1) \div t
    <3>1. k \in Nat /\ k * t <= i - 1 /\ i - 1 < k * t + t
      BY <1>1, SMTT(60)
    <3>2. QED
      BY <3>1, <1>1
  <2>2. (k + 1) * t = k * t + t /\ k * t \in Nat
    BY <1>1, ProdutoCresce
  <2>3. Cabe(k + 1)
    BY <1>1, <1>2, <2>1, <2>2
  <2>4. NaPagina(Pagina(k + 1), i)
    BY <1>3, <2>1, <2>2, <2>3
  <2>5. ASSUME NEW m \in Nat \ {0}, Cabe(m), NaPagina(Pagina(m), i)
        PROVE  m = k + 1
    <3>1. (m - 1) * t < i /\ i <= m * t /\ m - 1 \in Nat
      BY <1>3, <2>5
    <3>2. m <= k => m * t <= k * t
      BY <1>1, ProdutoCresce
    <3>3. k + 1 <= m - 1 => (k + 1) * t <= (m - 1) * t
      BY <1>1, <3>1, ProdutoCresce
    <3>4. m * t \in Nat /\ (m - 1) * t \in Nat
      BY <1>1, <3>1, ProdutoCresce
    <3>5. QED
      BY <1>1, <2>1, <2>2, <3>1, <3>2, <3>3, <3>4
  <2>6. QED
    BY <2>3, <2>4, <2>5
<1>5. ASSUME NEW n \in Nat \ {0}, Cabe(n)
      PROVE  TemProxima(Pagina(n), total) <=> \E i \in 1..total : i > Pagina(n).numero * Pagina(n).tamanho
  <2>1. n * t \in Nat
    BY <1>1, ProdutoCresce
  <2>2. QED
    BY <1>2, <1>3, <1>5, <2>1
<1>6. QED
  BY <1>4, <1>5 DEF Pagina
=============================================================================
