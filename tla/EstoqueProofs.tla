--------------------------- MODULE EstoqueProofs ---------------------------
(***************************************************************************)
(* Proofs about Estoque, for any number of requests, seats and sessions:   *)
(* its invariants, then that it implements Venda.                          *)
(***************************************************************************)
EXTENDS Estoque, TLAPS

(* A request that was not granted has no row in reservas: what makes a     *)
(* grant write a NEW reservation, and Conceder safe to take once.          *)
PedidoSemReserva ==
    \A r \in Reservas : pedido[r] \in {"novo", "validado"} => reserva[r] = "NENHUMA"

(* The inductive invariant behind exclusivity. *)
Exclusividade == TypeOK /\ PedidoSemReserva /\ PosseExclusiva /\ MapaFiel

(* What the UPDATE of a set of pending reservations may write. *)
Fins == {<<"CONFIRMADA", "OCUPADA">>, <<"CANCELADA", "LIVRE">>, <<"EXPIRADA", "LIVRE">>}

-----------------------------------------------------------------------------
(* Ending pending reservations keeps the types of the tables. *)
LEMMA FinalizarTipo ==
    ASSUME TypeOK, NEW R \in SUBSET Reservas, NEW fim \in Fins,
           Finalizar(R, fim[1], fim[2])
    PROVE  /\ poltrona' \in [Poltronas -> StatusPoltrona]
           /\ reserva' \in [Reservas -> StatusReserva]
           /\ vinculo' = vinculo
           /\ expiraEm' = expiraEm
  BY DEF TypeOK, Finalizar, Fins, StatusPoltrona, StatusReserva

(* Ending pending reservations keeps exclusivity and the seat map: the     *)
(* seats they held are held by nobody else.                                *)
LEMMA FinalizarPreserva ==
    ASSUME TypeOK, PosseExclusiva, MapaFiel,
           NEW R \in SUBSET Reservas, \A r \in R : Pendente(r),
           NEW fim \in Fins, Finalizar(R, fim[1], fim[2])
    PROVE  PosseExclusiva' /\ MapaFiel'
<1> DEFINE nr == fim[1]
           np == fim[2]
<1>1. /\ \A r \in Reservas : reserva'[r] = IF r \in R THEN nr ELSE reserva[r]
      /\ \A p \in Poltronas : poltrona'[p] = IF p \in Presas(R) THEN np ELSE poltrona[p]
      /\ vinculo' = vinculo
  BY DEF Finalizar
<1>2. /\ nr \in Finais
      /\ np \in {"LIVRE", "OCUPADA"}
      /\ nr = "CONFIRMADA" <=> np = "OCUPADA"
  BY DEF Fins, Finais
<1>3. \A r \in Reservas : Ativa(r)' => Ativa(r)
  BY <1>1 DEF Ativa, Pendente
<1>4. PosseExclusiva'
  BY <1>1, <1>3 DEF PosseExclusiva
<1>5. ASSUME NEW p \in Poltronas, p \in Presas(R)
      PROVE  /\ poltrona'[p] = "RESERVADA" <=>
                   \E r \in Reservas : reserva'[r] = "PENDENTE" /\ p \in vinculo'[r]
             /\ poltrona'[p] = "OCUPADA" <=>
                   \E r \in Reservas : reserva'[r] = "CONFIRMADA" /\ p \in vinculo'[r]
  <2>1. PICK d \in R : p \in vinculo[d]
    BY <1>5 DEF Presas
  <2>2. \A r \in Reservas : Ativa(r) /\ p \in vinculo[r] => r = d
    BY <2>1 DEF PosseExclusiva, Ativa, Pendente
  <2>3. \A r \in Reservas : Ativa(r)' /\ p \in vinculo'[r] => r = d
    BY <2>2, <1>1, <1>3
  <2>4. reserva'[d] = nr /\ poltrona'[p] = np /\ p \in vinculo'[d]
    BY <1>1, <1>5, <2>1
  <2>5. QED
    BY <2>3, <2>4, <1>2 DEF Ativa, Finais
<1>6. ASSUME NEW p \in Poltronas, p \notin Presas(R)
      PROVE  /\ poltrona'[p] = "RESERVADA" <=>
                   \E r \in Reservas : reserva'[r] = "PENDENTE" /\ p \in vinculo'[r]
             /\ poltrona'[p] = "OCUPADA" <=>
                   \E r \in Reservas : reserva'[r] = "CONFIRMADA" /\ p \in vinculo'[r]
  <2>1. poltrona'[p] = poltrona[p]
    BY <1>1, <1>6
  <2>2. \A r \in Reservas : p \in vinculo'[r] => reserva'[r] = reserva[r]
    BY <1>1, <1>6 DEF Presas
  <2>3. QED
    BY <2>1, <2>2, <1>1 DEF MapaFiel
<1>7. MapaFiel'
  BY <1>5, <1>6 DEF MapaFiel
<1>8. QED
  BY <1>4, <1>7

(* A grant keeps exclusivity and the seat map: every seat it takes was     *)
(* LIVRE, so by the seat map no active reservation was linked to it.       *)
LEMMA ConcederPreserva ==
    ASSUME Exclusividade, NEW r \in Reservas, NEW S \in SUBSET Poltronas, Conceder(r, S)
    PROVE  PosseExclusiva' /\ MapaFiel'
<1>1. /\ \A x \in Reservas : reserva'[x] = IF x = r THEN "PENDENTE" ELSE reserva[x]
      /\ \A x \in Reservas : vinculo'[x] = IF x = r THEN S ELSE vinculo[x]
      /\ \A p \in Poltronas : poltrona'[p] = IF p \in S THEN "RESERVADA" ELSE poltrona[p]
      /\ reserva[r] = "NENHUMA"
  BY DEF Exclusividade, TypeOK, PedidoSemReserva, Conceder
<1>2. \A p \in S, x \in Reservas : ~ (Ativa(x) /\ p \in vinculo[x])
  BY DEF Exclusividade, MapaFiel, Conceder, Livres, Ativa
<1>3. PosseExclusiva'
  <2> SUFFICES ASSUME NEW a \in Reservas, NEW b \in Reservas, a # b, Ativa(a)', Ativa(b)'
               PROVE  vinculo'[a] \cap vinculo'[b] = {}
    BY DEF PosseExclusiva
  <2>1. CASE a = r
    <3>1. Ativa(b) /\ vinculo'[b] = vinculo[b] /\ vinculo'[a] = S
      BY <1>1, <2>1 DEF Ativa
    <3>2. QED
      BY <3>1, <1>2
  <2>2. CASE b = r
    <3>1. Ativa(a) /\ vinculo'[a] = vinculo[a] /\ vinculo'[b] = S
      BY <1>1, <2>2 DEF Ativa
    <3>2. QED
      BY <3>1, <1>2
  <2>3. CASE a # r /\ b # r
    <3>1. Ativa(a) /\ Ativa(b) /\ vinculo'[a] = vinculo[a] /\ vinculo'[b] = vinculo[b]
      BY <1>1, <2>3 DEF Ativa
    <3>2. QED
      BY <3>1 DEF Exclusividade, PosseExclusiva
  <2>4. QED
    BY <2>1, <2>2, <2>3
<1>4. MapaFiel'
  <2> SUFFICES ASSUME NEW p \in Poltronas
               PROVE  /\ poltrona'[p] = "RESERVADA" <=>
                          \E x \in Reservas : reserva'[x] = "PENDENTE" /\ p \in vinculo'[x]
                      /\ poltrona'[p] = "OCUPADA" <=>
                          \E x \in Reservas : reserva'[x] = "CONFIRMADA" /\ p \in vinculo'[x]
    BY DEF MapaFiel
  <2>1. CASE p \in S
    <3>1. poltrona'[p] = "RESERVADA" /\ reserva'[r] = "PENDENTE" /\ p \in vinculo'[r]
      BY <1>1, <2>1
    <3>2. \A x \in Reservas : p \in vinculo'[x] /\ reserva'[x] = "CONFIRMADA" => FALSE
      BY <1>1, <1>2, <2>1 DEF Ativa
    <3>3. QED
      BY <3>1, <3>2
  <2>2. CASE p \notin S
    <3>1. poltrona'[p] = poltrona[p]
      BY <1>1, <2>2
    <3>2. \A x \in Reservas : p \in vinculo'[x] =>
                                  x # r /\ reserva'[x] = reserva[x] /\ p \in vinculo[x]
      BY <1>1, <2>2
    <3>3. \A x \in Reservas : p \in vinculo[x] /\ reserva[x] # "NENHUMA" =>
                                  p \in vinculo'[x] /\ reserva'[x] = reserva[x]
      BY <1>1
    <3>4. QED
      BY <3>1, <3>2, <3>3 DEF Exclusividade, MapaFiel
  <2>3. QED
    BY <2>1, <2>2
<1>5. QED
  BY <1>3, <1>4

-----------------------------------------------------------------------------
(* The steps that end reservations, in one form: the rows, all of them     *)
(* pending, and the end they come to.  Everything else leaves the tables   *)
(* of seats and reservations alone, grants, or creates seats.              *)
Encerra(R, fim) ==
    /\ \A r \in R : Pendente(r)
    /\ Finalizar(R, fim[1], fim[2])
    /\ UNCHANGED <<fora, caixa, pedido, sessao, agora>>
    /\ processadas' \subseteq processadas \cup mensagens
    /\ indice' \subseteq indice

EncerraAlgumas == \E R \in SUBSET Reservas, fim \in Fins : Encerra(R, fim)

ForaDoBanco == UNCHANGED banco /\ UNCHANGED caixa

(* The ends that release the seats: all but a confirmation. *)
SoltaAlgumas ==
    \E R \in SUBSET Reservas, fim \in Fins : Encerra(R, fim) /\ fim[2] = "LIVRE"

(* Every failed payment, cancellation and expiration releases. *)
LEMMA SoltaDe ==
    ASSUME \/ \E r \in Reservas : Cancelar(r) \/ ExpirarUma(r)
           \/ \E s \in Sessoes : CancelarPendentesDaSessao(s)
           \/ \E T \in SUBSET Reservas : ExpirarVencidas(T)
    PROVE  SoltaAlgumas
<1>1. ASSUME NEW r \in Reservas, Cancelar(r)
      PROVE  SoltaAlgumas
  <2>1. Encerra(SoPendentes({r}), <<"CANCELADA", "LIVRE">>)
    BY <1>1 DEF Cancelar, AplicarDesfecho, Encerra, SoPendentes, Registrar, Liberar
  <2>2. SoPendentes({r}) \in SUBSET Reservas /\ <<"CANCELADA", "LIVRE">> \in Fins
    BY DEF SoPendentes, Fins
  <2>3. QED
    BY <2>1, <2>2 DEF SoltaAlgumas
<1>2. ASSUME NEW s \in Sessoes, CancelarPendentesDaSessao(s)
      PROVE  SoltaAlgumas
  <2> DEFINE P == SoPendentes(DaSessao(s))
  <2>1. PICK T \in SUBSET {r \in P : Disputada(r)} :
            /\ Finalizar(P \ T, "CANCELADA", "LIVRE")
            /\ Liberar(P \ T)
    BY <1>2 DEF CancelarPendentesDaSessao
  <2>2. Encerra(P \ T, <<"CANCELADA", "LIVRE">>)
    BY <1>2, <2>1 DEF CancelarPendentesDaSessao, Encerra, SoPendentes, Registrar, Liberar
  <2>3. P \ T \in SUBSET Reservas /\ <<"CANCELADA", "LIVRE">> \in Fins
    BY DEF SoPendentes, DaSessao, Fins
  <2>4. QED
    BY <2>2, <2>3 DEF SoltaAlgumas
<1>3. ASSUME NEW T, ExpirarVencidas(T)
      PROVE  SoltaAlgumas
  <2>1. PICK E \in SUBSET Reservas :
            /\ PrimeirasDe({r \in Reservas : Vencida(r)} \ T, E)
            /\ Finalizar(E, "EXPIRADA", "LIVRE")
            /\ Liberar(E)
            /\ UNCHANGED <<fora, processadas, caixa, pedido, sessao, agora>>
    BY <1>3 DEF ExpirarVencidas
  <2>2. Encerra(E, <<"EXPIRADA", "LIVRE">>)
    BY <2>1 DEF Encerra, PrimeirasDe, Vencida, Liberar
  <2>3. <<"EXPIRADA", "LIVRE">> \in Fins
    BY DEF Fins
  <2>4. QED
    BY <2>2, <2>3 DEF SoltaAlgumas
<1>4. ASSUME NEW r \in Reservas, ExpirarUma(r)
      PROVE  SoltaAlgumas
  <2>1. Encerra({x \in {r} : Vencida(x)}, <<"EXPIRADA", "LIVRE">>)
    BY <1>4 DEF ExpirarUma, Encerra, Vencida
  <2>2. {x \in {r} : Vencida(x)} \in SUBSET Reservas /\ <<"EXPIRADA", "LIVRE">> \in Fins
    BY DEF Fins
  <2>3. QED
    BY <2>1, <2>2 DEF SoltaAlgumas
<1>5. QED
  BY <1>1, <1>2, <1>3, <1>4

(* Every outcome, cancellation and sweep is an end of pending reservations. *)
LEMMA EncerraDe ==
    ASSUME \/ \E r \in Reservas : Confirmar(r) \/ Cancelar(r) \/ ExpirarUma(r)
           \/ \E s \in Sessoes : CancelarPendentesDaSessao(s)
           \/ \E T \in SUBSET Reservas : ExpirarVencidas(T)
    PROVE  EncerraAlgumas
<1>1. ASSUME NEW r \in Reservas, Confirmar(r)
      PROVE  EncerraAlgumas
  <2>1. Encerra(SoPendentes({r}), <<"CONFIRMADA", "OCUPADA">>)
    BY <1>1 DEF Confirmar, AplicarDesfecho, Encerra, SoPendentes, Registrar, Liberar
  <2>2. SoPendentes({r}) \in SUBSET Reservas /\ <<"CONFIRMADA", "OCUPADA">> \in Fins
    BY DEF SoPendentes, Fins
  <2>3. QED
    BY <2>1, <2>2 DEF EncerraAlgumas
<1>2. SoltaAlgumas => EncerraAlgumas
  BY DEF SoltaAlgumas, EncerraAlgumas
<1>3. QED
  BY <1>1, <1>2, SoltaDe

(* Each step is of one of four kinds. *)
LEMMA TiposDePasso ==
    ASSUME TypeOK, Next
    PROVE  \/ EncerraAlgumas
           \/ \E r \in Reservas, S \in SUBSET Poltronas : Conceder(r, S)
           \/ \E s \in Sessoes : ProvisionarMatriz(s)
           \/ ForaDoBanco
<1>1. ASSUME NEW r \in Reservas, Pedir(r)
      PROVE  \/ \E S \in SUBSET Poltronas : Conceder(r, S)
             \/ ForaDoBanco
  BY <1>1 DEF Pedir, BuscarSessao, Recusar, Marcar, PerderMarcacao, ForaDoBanco
<1>2. ASSUME \/ \E r \in Reservas : PerderPrazo(r) \/ Publicar(r)
             \/ \E m \in Mensagens : LimparMensagensProcessadas(m) \/ IgnorarDuplicata(m)
             \/ Ambiente
      PROVE  ForaDoBanco
  BY <1>2 DEF PerderPrazo, Publicar, LimparMensagensProcessadas, IgnorarDuplicata,
              Ambiente, Catalogar, CriarSessao, RemoverSessao, AlterarSessao,
              AnunciarDesfecho, PassarTempo,
              ForaDoBanco, vars, banco
<1>3. QED
  BY <1>1, <1>2, EncerraDe DEF Next, Consumir, Rotinas

-----------------------------------------------------------------------------
(* Type correctness. *)

LEMMA TipoInicial == Init => TypeOK
  BY ConstantesAssumption DEF Init, TypeOK, StatusPoltrona, StatusReserva

LEMMA TipoPasso ==
    ASSUME TypeOK, [Next]_vars
    PROVE  TypeOK'
<1> USE DEF TypeOK
<1>1. ASSUME NEW r \in Reservas, Pedir(r)
      PROVE  TypeOK'
  <2>1. CASE \E s \in Sessoes : BuscarSessao(r, s)
    BY <2>1 DEF BuscarSessao, banco, fora
  <2>2. CASE \E S \in SUBSET Poltronas : Conceder(r, S)
    <3>1. PICK S \in SUBSET Poltronas : Conceder(r, S)
      BY <2>2
    <3>2. agora + TTL \in Nat
      BY ConstantesAssumption
    <3>3. QED
      BY <3>1, <3>2 DEF Conceder, EnfileirarFato, fora, StatusPoltrona, StatusReserva
  <2>3. CASE Recusar(r) \/ Marcar(r) \/ PerderMarcacao(r)
    BY <2>3 DEF Recusar, Marcar, PerderMarcacao, banco, fora
  <2>4. QED
    BY <1>1, <2>1, <2>2, <2>3 DEF Pedir
<1>2. ASSUME EncerraAlgumas
      PROVE  TypeOK'
  <2>1. PICK R \in SUBSET Reservas, fim \in Fins : Encerra(R, fim)
    BY <1>2 DEF EncerraAlgumas
  <2>2. /\ poltrona' \in [Poltronas -> StatusPoltrona]
        /\ reserva' \in [Reservas -> StatusReserva]
        /\ vinculo' = vinculo
        /\ expiraEm' = expiraEm
    BY <2>1, FinalizarTipo DEF Encerra
  <2>3. QED
    BY <2>1, <2>2 DEF Encerra, fora
<1>3. ASSUME NEW s \in Sessoes, ProvisionarMatriz(s)
      PROVE  TypeOK'
  BY <1>3 DEF ProvisionarMatriz, Registrar, fora, StatusPoltrona
<1>4. ASSUME \/ \E r \in Reservas : PerderPrazo(r) \/ Publicar(r)
             \/ \E m \in Mensagens : LimparMensagensProcessadas(m) \/ IgnorarDuplicata(m)
      PROVE  TypeOK'
  BY <1>4 DEF PerderPrazo, Publicar, LimparMensagensProcessadas, IgnorarDuplicata,
              vars, banco, fora
<1>5. ASSUME Ambiente
      PROVE  TypeOK'
  <2>1. \A s \in Sessoes : <<FilaSessaoCriada, s>> \in Mensagens
                           /\ <<FilaSessaoCancelada, s>> \in Mensagens
    BY DEF Mensagens
  <2>2. \A r \in Reservas : Desfechos(r) \subseteq Mensagens
    BY DEF Mensagens, Desfechos
  <2>3. CASE Catalogar
    <3>1. PICK s \in Sessoes : CriarSessao(s) \/ RemoverSessao(s) \/ AlterarSessao(s)
      BY <2>3 DEF Catalogar
    <3>2. mensagens' \subseteq Mensagens
      BY <3>1, <2>1 DEF CriarSessao, RemoverSessao, AlterarSessao
    <3>3. catalogo' \in [Sessoes -> {"INEXISTENTE", "AGENDADA", "CANCELADA"}]
      BY <3>1 DEF CriarSessao, RemoverSessao, AlterarSessao, Situacoes
    <3>4. QED
      BY <3>1, <3>2, <3>3 DEF CriarSessao, RemoverSessao, AlterarSessao, banco
  <2>4. CASE \E r \in Reservas : AnunciarDesfecho(r)
    <3>1. mensagens' \subseteq Mensagens
      BY <2>4, <2>2 DEF AnunciarDesfecho
    <3>2. QED
      BY <2>4, <3>1 DEF AnunciarDesfecho, banco
  <2>5. CASE PassarTempo
    BY <2>5 DEF PassarTempo, banco, fora
  <2>6. QED
    BY <1>5, <2>3, <2>4, <2>5 DEF Ambiente
<1>6. CASE UNCHANGED vars
  BY <1>6 DEF vars
<1>7. CASE Next
  BY <1>1, <1>2, <1>3, <1>4, <1>5, <1>7, EncerraDe DEF Next, Consumir, Rotinas
<1>8. QED
  BY <1>6, <1>7

(* Every variable keeps its type in every reachable state. *)
THEOREM TipoCorreto == Spec => []TypeOK
<1>1. Init => TypeOK
  BY TipoInicial
<1>2. TypeOK /\ [Next]_vars => TypeOK'
  BY TipoPasso
<1>3. QED
  BY <1>1, <1>2, PTL DEF Spec

-----------------------------------------------------------------------------
(* No double booking. *)

(* Outside a grant a request never goes back to before it. *)
LEMMA PedidoAvanca ==
    ASSUME TypeOK, Next
    PROVE  \A r \in Reservas : pedido'[r] \in {"novo", "validado"} =>
                                   pedido[r] \in {"novo", "validado"}
<1>1. CASE EncerraAlgumas
  BY <1>1 DEF EncerraAlgumas, Encerra
<1>2. CASE \E r \in Reservas : Pedir(r)
  BY <1>2 DEF Pedir, BuscarSessao, Conceder, Recusar, Marcar, PerderMarcacao, TypeOK
<1>3. CASE \/ \E s \in Sessoes : ProvisionarMatriz(s)
           \/ \E r \in Reservas : PerderPrazo(r) \/ Publicar(r)
           \/ \E m \in Mensagens : LimparMensagensProcessadas(m) \/ IgnorarDuplicata(m)
           \/ Ambiente
  BY <1>3 DEF ProvisionarMatriz, PerderPrazo, Publicar, LimparMensagensProcessadas,
              IgnorarDuplicata, Ambiente, Catalogar, CriarSessao, RemoverSessao, AlterarSessao,
              AnunciarDesfecho, PassarTempo, vars
<1>4. QED
  BY <1>1, <1>2, <1>3, EncerraDe DEF Next, Consumir, Rotinas

LEMMA PedidoPasso ==
    ASSUME TypeOK, PedidoSemReserva, Next
    PROVE  PedidoSemReserva'
<1>1. CASE EncerraAlgumas
  BY <1>1 DEF EncerraAlgumas, Encerra, Finalizar, Pendente, PedidoSemReserva
<1>2. CASE \E r \in Reservas, S \in SUBSET Poltronas : Conceder(r, S)
  BY <1>2 DEF Conceder, PedidoSemReserva, TypeOK
<1>3. CASE \E s \in Sessoes : ProvisionarMatriz(s)
  BY <1>3 DEF ProvisionarMatriz, PedidoSemReserva
<1>4. CASE ForaDoBanco
  BY <1>4, PedidoAvanca DEF ForaDoBanco, banco, PedidoSemReserva
<1>5. QED
  BY <1>1, <1>2, <1>3, <1>4, TiposDePasso

LEMMA ExclusividadePasso ==
    ASSUME Exclusividade, [Next]_vars
    PROVE  Exclusividade'
<1>1. TypeOK'
  BY TipoPasso DEF Exclusividade
<1>2. CASE Next
  <2>1. PedidoSemReserva'
    BY <1>2, PedidoPasso DEF Exclusividade
  <2>2. CASE EncerraAlgumas
    <3>1. PICK R \in SUBSET Reservas, fim \in Fins : Encerra(R, fim)
      BY <2>2 DEF EncerraAlgumas
    <3>2. PosseExclusiva' /\ MapaFiel'
      BY <3>1, FinalizarPreserva DEF Encerra, Exclusividade
    <3>3. QED
      BY <1>1, <2>1, <3>2 DEF Exclusividade
  <2>3. CASE \E r \in Reservas, S \in SUBSET Poltronas : Conceder(r, S)
    BY <1>1, <2>1, <2>3, ConcederPreserva DEF Exclusividade
  <2>4. CASE \E s \in Sessoes : ProvisionarMatriz(s)
    <3>1. PICK s \in Sessoes : ProvisionarMatriz(s)
      BY <2>4
    <3>2. \A p \in Poltronas : poltrona'[p] =
                                  IF p \in Criadas(s) THEN "LIVRE" ELSE poltrona[p]
      BY <3>1 DEF ProvisionarMatriz
    <3>3. reserva' = reserva /\ vinculo' = vinculo
      BY <3>1 DEF ProvisionarMatriz
    <3>4. \A p \in Poltronas : /\ poltrona'[p] = "RESERVADA" <=> poltrona[p] = "RESERVADA"
                               /\ poltrona'[p] = "OCUPADA" <=> poltrona[p] = "OCUPADA"
      BY <3>2 DEF Criadas
    <3>5. PosseExclusiva' /\ MapaFiel'
      BY <3>3, <3>4 DEF Exclusividade, PosseExclusiva, MapaFiel, Ativa
    <3>6. QED
      BY <1>1, <2>1, <3>5 DEF Exclusividade
  <2>5. CASE ForaDoBanco
    BY <1>1, <2>1, <2>5 DEF ForaDoBanco, banco, Exclusividade, PosseExclusiva, MapaFiel, Ativa
  <2>6. QED
    BY <1>2, <2>2, <2>3, <2>4, <2>5, TiposDePasso DEF Exclusividade
<1>3. CASE UNCHANGED vars
  BY <1>3 DEF vars, Exclusividade, TypeOK, PedidoSemReserva, PosseExclusiva, MapaFiel, Ativa
<1>4. QED
  BY <1>2, <1>3

LEMMA ExclusividadeInicial == Init => Exclusividade
  BY TipoInicial DEF Init, Exclusividade, PedidoSemReserva, PosseExclusiva, MapaFiel, Ativa

LEMMA SempreExclusividade == Spec => []Exclusividade
<1>1. Exclusividade /\ [Next]_vars => Exclusividade'
  BY ExclusividadePasso
<1>2. QED
  BY <1>1, ExclusividadeInicial, PTL DEF Spec

(* Two active reservations never share a seat. *)
THEOREM SemVendaDupla == Spec => []PosseExclusiva
<1>1. Exclusividade => PosseExclusiva
  BY DEF Exclusividade
<1>2. QED
  BY <1>1, SempreExclusividade, PTL

(* The status column of a seat always agrees with the reservations linked  *)
(* to it.                                                                  *)
THEOREM MapaSempreFiel == Spec => []MapaFiel
<1>1. Exclusividade => MapaFiel
  BY DEF Exclusividade
<1>2. QED
  BY <1>1, SempreExclusividade, PTL

-----------------------------------------------------------------------------
(* What a step never does to a reservation or to a seat. *)

LEMMA FinaisPasso ==
    ASSUME Exclusividade, [Next]_vars, NEW r \in Reservas, reserva[r] \in Finais
    PROVE  reserva'[r] = reserva[r]
<1>1. CASE EncerraAlgumas
  BY <1>1 DEF EncerraAlgumas, Encerra, Finalizar, Pendente, Finais
<1>2. CASE \E x \in Reservas, S \in SUBSET Poltronas : Conceder(x, S)
  BY <1>2 DEF Conceder, Exclusividade, TypeOK, PedidoSemReserva, Finais
<1>3. CASE (\E s \in Sessoes : ProvisionarMatriz(s)) \/ ForaDoBanco \/ UNCHANGED vars
  BY <1>3 DEF ProvisionarMatriz, ForaDoBanco, banco, vars
<1>4. QED
  BY <1>1, <1>2, <1>3, TiposDePasso DEF Exclusividade

(* A reservation in a final state never leaves it. *)
THEOREM FinalNaoMuda == Spec => EstadoFinalImutavel
<1>1. Exclusividade /\ [Next]_vars =>
          [\A r \in Reservas : reserva[r] \in Finais => reserva'[r] = reserva[r]]_vars
  BY FinaisPasso
<1>2. QED
  BY <1>1, SempreExclusividade, PTL DEF Spec, EstadoFinalImutavel

LEMMA OcupadaPasso ==
    ASSUME Exclusividade, [Next]_vars, NEW p \in Poltronas, poltrona[p] = "OCUPADA"
    PROVE  poltrona'[p] = "OCUPADA"
<1>1. CASE EncerraAlgumas
  <2>1. PICK R \in SUBSET Reservas, fim \in Fins : Encerra(R, fim)
    BY <1>1 DEF EncerraAlgumas
  <2>2. p \notin Presas(R)
    BY <2>1 DEF Encerra, Presas, Pendente, Exclusividade, MapaFiel
  <2>3. QED
    BY <2>1, <2>2 DEF Encerra, Finalizar
<1>2. CASE \E x \in Reservas, S \in SUBSET Poltronas : Conceder(x, S)
  BY <1>2 DEF Conceder, Livres
<1>3. CASE \E s \in Sessoes : ProvisionarMatriz(s)
  BY <1>3 DEF ProvisionarMatriz, Criadas
<1>4. CASE ForaDoBanco \/ UNCHANGED vars
  BY <1>4 DEF ForaDoBanco, banco, vars
<1>5. QED
  BY <1>1, <1>2, <1>3, <1>4, TiposDePasso DEF Exclusividade

LEMMA VinculoPasso ==
    ASSUME Exclusividade, [Next]_vars, NEW r \in Reservas, reserva[r] # "NENHUMA"
    PROVE  vinculo'[r] = vinculo[r]
<1>1. CASE EncerraAlgumas
  BY <1>1 DEF EncerraAlgumas, Encerra, Finalizar
<1>2. CASE \E x \in Reservas, S \in SUBSET Poltronas : Conceder(x, S)
  BY <1>2 DEF Conceder, Exclusividade, TypeOK, PedidoSemReserva
<1>3. CASE (\E s \in Sessoes : ProvisionarMatriz(s)) \/ ForaDoBanco \/ UNCHANGED vars
  BY <1>3 DEF ProvisionarMatriz, ForaDoBanco, banco, vars
<1>4. QED
  BY <1>1, <1>2, <1>3, TiposDePasso DEF Exclusividade

(* A sold seat stays sold, to the reservation that bought it. *)
THEOREM VendaNaoDesfeita == Spec => VendaDefinitiva
<1>1. ASSUME Exclusividade, [Next]_vars, NEW p \in Poltronas, poltrona[p] = "OCUPADA"
      PROVE  /\ poltrona'[p] = "OCUPADA"
             /\ \A r \in Reservas :
                   reserva[r] = "CONFIRMADA" /\ p \in vinculo[r] =>
                       reserva'[r] = "CONFIRMADA" /\ p \in vinculo'[r]
  BY <1>1, OcupadaPasso, FinaisPasso, VinculoPasso DEF Finais
<1>2. Exclusividade /\ [Next]_vars =>
          [\A p \in Poltronas : poltrona[p] = "OCUPADA" =>
              /\ poltrona'[p] = "OCUPADA"
              /\ \A r \in Reservas :
                    reserva[r] = "CONFIRMADA" /\ p \in vinculo[r] =>
                        reserva'[r] = "CONFIRMADA" /\ p \in vinculo'[r]]_vars
  BY <1>1
<1>3. QED
  BY <1>2, SempreExclusividade, PTL DEF Spec, VendaDefinitiva

-----------------------------------------------------------------------------
(* A reservation and its fact. *)

(* The broker is only given what is in the outbox. *)
LEMMA EntreguesPasso ==
    ASSUME [Next]_vars
    PROVE  entregues' \subseteq entregues \cup caixa
<1>1. CASE EncerraAlgumas
  BY <1>1 DEF EncerraAlgumas, Encerra, fora
<1>2. CASE \E r \in Reservas : Pedir(r)
  BY <1>2 DEF Pedir, BuscarSessao, Conceder, Recusar, Marcar, PerderMarcacao, fora
<1>3. CASE \/ \E s \in Sessoes : ProvisionarMatriz(s)
           \/ \E r \in Reservas : PerderPrazo(r)
           \/ \E m \in Mensagens : LimparMensagensProcessadas(m) \/ IgnorarDuplicata(m)
           \/ Ambiente
           \/ UNCHANGED vars
  BY <1>3 DEF ProvisionarMatriz, PerderPrazo, LimparMensagensProcessadas,
              IgnorarDuplicata, Ambiente, Catalogar, CriarSessao, RemoverSessao, AlterarSessao,
              AnunciarDesfecho, PassarTempo, vars, fora
<1>4. CASE \E r \in Reservas : Publicar(r)
  BY <1>4 DEF Publicar
<1>5. QED
  BY <1>1, <1>2, <1>3, <1>4, EncerraDe DEF Next, Consumir, Rotinas

LEMMA FatoPasso ==
    ASSUME Exclusividade, FatoDaReserva, [Next]_vars
    PROVE  FatoDaReserva'
<1>1. CASE EncerraAlgumas
  BY <1>1 DEF EncerraAlgumas, Encerra, Finalizar, Pendente, Fins, FatoDaReserva, fora
<1>2. CASE \E x \in Reservas, S \in SUBSET Poltronas : Conceder(x, S)
  BY <1>2 DEF Conceder, EnfileirarFato, Exclusividade, TypeOK, FatoDaReserva, fora
<1>3. CASE \E s \in Sessoes : ProvisionarMatriz(s)
  BY <1>3 DEF ProvisionarMatriz, FatoDaReserva, fora
<1>4. CASE ForaDoBanco
  <2>1. entregues' \subseteq entregues \cup caixa
    BY <1>4, EntreguesPasso
  <2>2. QED
    BY <1>4, <2>1 DEF ForaDoBanco, banco, FatoDaReserva
<1>5. CASE UNCHANGED vars
  BY <1>5 DEF vars, FatoDaReserva
<1>6. QED
  BY <1>1, <1>2, <1>3, <1>4, <1>5, TiposDePasso DEF Exclusividade

(* A reservation is committed with its fact, and no fact is announced of   *)
(* one that was not.                                                       *)
THEOREM FatoComReserva == Spec => []FatoDaReserva
<1>1. Init => FatoDaReserva
  BY DEF Init, FatoDaReserva
<1>2. Exclusividade /\ FatoDaReserva /\ [Next]_vars => FatoDaReserva'
  BY FatoPasso
<1>3. QED
  BY <1>1, <1>2, SempreExclusividade, PTL DEF Spec

-----------------------------------------------------------------------------
(* Every end has a cause. *)

Causalidade ==
    /\ TypeOK
    /\ PedidoSemReserva
    /\ DesfechoTemCausa

(* Nothing a cause rests on is ever undone. *)
CausasFicam ==
    /\ mensagens \subseteq mensagens'
    /\ agora <= agora'
    /\ \A r \in Reservas : reserva[r] # "NENHUMA" =>
            sessao'[r] = sessao[r] /\ expiraEm'[r] = expiraEm[r]

(* What is left to show of a step: the ends it brings about. *)
FimComCausa(r) ==
    /\ reserva'[r] = "CONFIRMADA" => <<FilaPagamentoSucesso, r>> \in mensagens
    /\ reserva'[r] = "CANCELADA" =>
          \/ <<FilaPagamentoFalhou, r>> \in mensagens
          \/ <<FilaSessaoCancelada, sessao[r]>> \in mensagens
    /\ reserva'[r] = "EXPIRADA" => expiraEm[r] <= agora

LEMMA CausaFica ==
    ASSUME Causalidade, TypeOK', CausasFicam,
           \A r \in Reservas : reserva'[r] # reserva[r] =>
               \/ reserva'[r] = "PENDENTE"
               \/ Pendente(r) /\ FimComCausa(r)
    PROVE  DesfechoTemCausa'
<1> SUFFICES ASSUME NEW r \in Reservas
             PROVE  /\ reserva'[r] = "CONFIRMADA" => <<FilaPagamentoSucesso, r>> \in mensagens'
                    /\ reserva'[r] = "CANCELADA" =>
                          \/ <<FilaPagamentoFalhou, r>> \in mensagens'
                          \/ <<FilaSessaoCancelada, sessao'[r]>> \in mensagens'
                    /\ reserva'[r] = "EXPIRADA" => expiraEm'[r] <= agora'
  BY DEF DesfechoTemCausa
<1>1. agora \in Nat /\ agora' \in Nat /\ expiraEm[r] \in Nat
  BY DEF Causalidade, TypeOK
<1>2. CASE reserva'[r] = "PENDENTE"
  BY <1>2
<1>3. CASE reserva'[r] # reserva[r] /\ Pendente(r) /\ FimComCausa(r)
  <2>1. sessao'[r] = sessao[r] /\ expiraEm'[r] = expiraEm[r]
    BY <1>3 DEF CausasFicam, Pendente
  <2>2. QED
    BY <1>1, <1>3, <2>1 DEF FimComCausa, CausasFicam
<1>4. CASE reserva'[r] = reserva[r] /\ reserva[r] \in Finais
  <2>1. sessao'[r] = sessao[r] /\ expiraEm'[r] = expiraEm[r]
    BY <1>4 DEF CausasFicam, Finais
  <2>2. QED
    BY <1>1, <1>4, <2>1 DEF Causalidade, DesfechoTemCausa, CausasFicam
<1>5. CASE reserva'[r] = reserva[r] /\ reserva[r] \notin Finais
  BY <1>5 DEF Finais
<1>6. QED
  BY <1>2, <1>3, <1>4, <1>5

(* The ends each handler brings about have their cause. *)
LEMMA EncerraComCausa ==
    ASSUME Causalidade, Next, NEW r \in Reservas, EncerraAlgumas, reserva'[r] # reserva[r]
    PROVE  Pendente(r) /\ FimComCausa(r)
<1>1. Pendente(r)
  BY DEF EncerraAlgumas, Encerra, Finalizar
<1>2. CASE \E x \in Reservas : Confirmar(x)
  BY <1>2 DEF Confirmar, AplicarDesfecho, Finalizar, SoPendentes, Registrar, FimComCausa
<1>3. CASE \E x \in Reservas : Cancelar(x)
  BY <1>3 DEF Cancelar, AplicarDesfecho, Finalizar, SoPendentes, Registrar, FimComCausa
<1>4. CASE \E s \in Sessoes : CancelarPendentesDaSessao(s)
  <2>1. PICK s \in Sessoes : CancelarPendentesDaSessao(s)
    BY <1>4
  <2>2. <<FilaSessaoCancelada, s>> \in mensagens
    BY <2>1 DEF CancelarPendentesDaSessao, Registrar
  <2>3. \/ reserva'[r] = reserva[r]
        \/ reserva'[r] = "CANCELADA" /\ sessao[r] = s
    BY <2>1 DEF CancelarPendentesDaSessao, Finalizar, SoPendentes, DaSessao
  <2>4. QED
    BY <1>1, <2>2, <2>3 DEF FimComCausa
<1>5. CASE (\E T \in SUBSET Reservas : ExpirarVencidas(T)) \/ (\E x \in Reservas : ExpirarUma(x))
  <2>1. PICK R \in SUBSET Reservas : (\A x \in R : Vencida(x)) /\ Finalizar(R, "EXPIRADA", "LIVRE")
    BY <1>5 DEF ExpirarVencidas, ExpirarUma, PrimeirasDe
  <2>2. reserva'[r] = "EXPIRADA" /\ Vencida(r)
    BY <2>1 DEF Finalizar
  <2>3. QED
    BY <1>1, <2>2 DEF FimComCausa, Vencida
<1>6. CASE ~ \/ \E x \in Reservas : Confirmar(x) \/ Cancelar(x) \/ ExpirarUma(x)
             \/ \E s \in Sessoes : CancelarPendentesDaSessao(s)
             \/ \E T \in SUBSET Reservas : ExpirarVencidas(T)
  <2>1. \/ \E x \in Reservas : Pedir(x) \/ PerderPrazo(x) \/ Publicar(x)
        \/ \E s \in Sessoes : ProvisionarMatriz(s)
        \/ \E m \in Mensagens : LimparMensagensProcessadas(m) \/ IgnorarDuplicata(m)
        \/ Ambiente
    BY <1>6 DEF Next, Consumir, Rotinas
  <2>2. reserva' = reserva \/ \E x \in Reservas, S \in SUBSET Poltronas : Conceder(x, S)
    BY <2>1 DEF Pedir, BuscarSessao, Recusar, Marcar, PerderMarcacao, PerderPrazo, Publicar,
                ProvisionarMatriz, LimparMensagensProcessadas, IgnorarDuplicata, Ambiente,
                Catalogar, CriarSessao, RemoverSessao, AlterarSessao, AnunciarDesfecho,
                PassarTempo, banco, vars
  <2>3. \A x \in Reservas, S \in SUBSET Poltronas : ~ Conceder(x, S)
    BY DEF Conceder, EncerraAlgumas, Encerra, Causalidade, TypeOK
  <2>4. QED
    BY <2>2, <2>3
<1>7. QED
  BY <1>2, <1>3, <1>4, <1>5, <1>6

LEMMA CausalidadePasso ==
    ASSUME Causalidade, [Next]_vars
    PROVE  Causalidade'
<1>1. TypeOK'
  BY TipoPasso DEF Causalidade
<1>2. CASE UNCHANGED vars
  BY <1>2 DEF vars, Causalidade, TypeOK, PedidoSemReserva, DesfechoTemCausa
<1>3. CASE Next
  <2>1. PedidoSemReserva'
    BY <1>3, PedidoPasso DEF Causalidade
  <2>2. CASE \E r \in Reservas : Pedir(r)
    <3>1. PICK r \in Reservas : Pedir(r)
      BY <2>2
    <3>2. mensagens' = mensagens /\ agora' = agora
      BY <3>1 DEF Pedir, BuscarSessao, Conceder, Recusar, Marcar, PerderMarcacao, fora
    <3>3. CausasFicam
      BY <3>1, <3>2 DEF Pedir, BuscarSessao, Conceder, Recusar, Marcar, PerderMarcacao, banco,
                  Causalidade, TypeOK, PedidoSemReserva, CausasFicam
    <3>4. \A x \in Reservas : reserva'[x] # reserva[x] => reserva'[x] = "PENDENTE"
      BY <3>1 DEF Pedir, BuscarSessao, Conceder, Recusar, Marcar, PerderMarcacao, banco,
                  Causalidade, TypeOK
    <3>5. QED
      BY <1>1, <2>1, <3>3, <3>4, CausaFica DEF Causalidade
  <2>3. CASE EncerraAlgumas
    <3>1. /\ mensagens' = mensagens /\ agora' = agora
          /\ sessao' = sessao /\ expiraEm' = expiraEm
      BY <2>3 DEF EncerraAlgumas, Encerra, Finalizar, fora
    <3>2. CausasFicam
      BY <3>1 DEF CausasFicam, Causalidade, TypeOK
    <3>3. QED
      BY <1>1, <1>3, <2>1, <2>3, <3>2, EncerraComCausa, CausaFica DEF Causalidade
  <2>4. CASE \/ \E s \in Sessoes : ProvisionarMatriz(s)
             \/ \E r \in Reservas : PerderPrazo(r) \/ Publicar(r)
             \/ \E m \in Mensagens : LimparMensagensProcessadas(m) \/ IgnorarDuplicata(m)
    <3>1. /\ mensagens' = mensagens /\ agora' = agora
          /\ sessao' = sessao /\ expiraEm' = expiraEm /\ reserva' = reserva
      BY <2>4 DEF ProvisionarMatriz, PerderPrazo, Publicar, LimparMensagensProcessadas,
                  IgnorarDuplicata, vars, banco, fora
    <3>2. CausasFicam
      BY <3>1 DEF CausasFicam, Causalidade, TypeOK
    <3>3. QED
      BY <1>1, <2>1, <3>1, <3>2, CausaFica DEF Causalidade
  <2>5. CASE Ambiente
    <3>1. /\ sessao' = sessao /\ expiraEm' = expiraEm /\ reserva' = reserva
      BY <2>5 DEF Ambiente, Catalogar, CriarSessao, RemoverSessao, AlterarSessao,
                  AnunciarDesfecho, PassarTempo, banco
    <3>2. mensagens \subseteq mensagens'
      BY <2>5 DEF Ambiente, Catalogar, CriarSessao, RemoverSessao, AlterarSessao,
                  AnunciarDesfecho, PassarTempo, fora
    <3>3. agora <= agora'
      BY <2>5 DEF Ambiente, Catalogar, CriarSessao, RemoverSessao, AlterarSessao,
                  AnunciarDesfecho, PassarTempo, Causalidade, TypeOK
    <3>4. CausasFicam
      BY <3>1, <3>2, <3>3 DEF CausasFicam
    <3>5. QED
      BY <1>1, <2>1, <3>1, <3>4, CausaFica DEF Causalidade
  <2>6. QED
    BY <1>3, <2>2, <2>3, <2>4, <2>5, EncerraDe DEF Next, Consumir, Rotinas
<1>4. QED
  BY <1>2, <1>3

(* Nothing is confirmed without a payment, cancelled without a refusal or  *)
(* a DELETE of its session, now or before, or expired before its time.     *)
THEOREM FimTemCausa == Spec => []DesfechoTemCausa
<1>1. Init => Causalidade
  BY TipoInicial DEF Init, Causalidade, PedidoSemReserva, DesfechoTemCausa
<1>2. Causalidade /\ [Next]_vars => Causalidade'
  BY CausalidadePasso
<1>3. Causalidade => DesfechoTemCausa
  BY DEF Causalidade
<1>4. QED
  BY <1>1, <1>2, <1>3, PTL DEF Spec

-----------------------------------------------------------------------------
(* Seats of one session. *)

(* The session of a request is chosen before its seats, and once. *)
Assentos ==
    /\ Exclusividade
    /\ AssentosDaSessao
    /\ \A r \in Reservas : pedido[r] = "novo" => vinculo[r] = {}

LEMMA AssentosPasso ==
    ASSUME Assentos, [Next]_vars
    PROVE  Assentos'
<1> USE DEF Assentos, AssentosDaSessao
<1>1. Exclusividade'
  BY ExclusividadePasso
<1>2. CASE UNCHANGED vars
  BY <1>1, <1>2 DEF vars
<1>3. CASE EncerraAlgumas
  BY <1>1, <1>3 DEF EncerraAlgumas, Encerra, Finalizar
<1>4. CASE \E r \in Reservas : Pedir(r)
  <2>1. PICK r \in Reservas : Pedir(r)
    BY <1>4
  <2>2. CASE \E s \in Sessoes : BuscarSessao(r, s)
    BY <1>1, <2>2 DEF BuscarSessao, banco, Exclusividade, TypeOK
  <2>3. CASE \E S \in SUBSET Poltronas : Conceder(r, S)
    <3>1. PICK S \in SUBSET Poltronas : Conceder(r, S)
      BY <2>3
    <3>2. \A p \in S : SessaoDe[p] = sessao[r]
      BY <3>1 DEF Conceder, Encontradas
    <3>3. sessao' = sessao /\ vinculo' = [vinculo EXCEPT ![r] = S]
      BY <3>1 DEF Conceder
    <3>4. \A x \in Reservas : pedido'[x] = "novo" => x # r /\ pedido[x] = "novo"
      BY <3>1 DEF Conceder, Exclusividade, TypeOK
    <3>5. QED
      BY <1>1, <3>2, <3>3, <3>4 DEF Exclusividade, TypeOK
  <2>4. CASE Recusar(r) \/ Marcar(r) \/ PerderMarcacao(r)
    BY <1>1, <2>4 DEF Recusar, Marcar, PerderMarcacao, banco, Exclusividade, TypeOK
  <2>5. QED
    BY <2>1, <2>2, <2>3, <2>4 DEF Pedir
<1>5. CASE \/ \E s \in Sessoes : ProvisionarMatriz(s)
           \/ \E r \in Reservas : PerderPrazo(r) \/ Publicar(r)
           \/ \E m \in Mensagens : LimparMensagensProcessadas(m) \/ IgnorarDuplicata(m)
           \/ Ambiente
  <2>1. vinculo' = vinculo /\ pedido' = pedido /\ sessao' = sessao
    BY <1>5 DEF ProvisionarMatriz, PerderPrazo, Publicar, LimparMensagensProcessadas,
                IgnorarDuplicata, Ambiente, Catalogar, CriarSessao, RemoverSessao,
                AlterarSessao, AnunciarDesfecho,
                PassarTempo, vars, banco
  <2>2. QED
    BY <1>1, <2>1
<1>6. QED
  BY <1>2, <1>3, <1>4, <1>5, EncerraDe DEF Next, Consumir, Rotinas

(* No reservation mixes the seats of two sessions. *)
THEOREM AssentosDeUmaSessao == Spec => []AssentosDaSessao
<1>1. Init => Assentos
  BY ExclusividadeInicial DEF Init, Assentos, AssentosDaSessao
<1>2. Assentos /\ [Next]_vars => Assentos'
  BY AssentosPasso
<1>3. Assentos => AssentosDaSessao
  BY DEF Assentos
<1>4. QED
  BY <1>1, <1>2, <1>3, PTL DEF Spec

-----------------------------------------------------------------------------
(* Estoque implements Venda. *)

(* A granted reservation has a seat. *)
ComPoltrona == \A r \in Reservas : reserva[r] # "NENHUMA" => vinculo[r] # {}

(* The abstract owner and the abstract set of used reservations. *)
Donos  == [p \in Poltronas |-> DonoDe(p)]
Usadas == {r \in Reservas : reserva[r] # "NENHUMA"}

LEMMA DonoAtivo ==
    ASSUME PosseExclusiva, NEW p \in Poltronas, NEW r \in Reservas, Ativa(r), p \in vinculo[r]
    PROVE  DonoDe(p) = r
  BY DEF PosseExclusiva, DonoDe

LEMMA DonoNenhum ==
    ASSUME NEW p \in Poltronas, \A r \in Reservas : ~ (Ativa(r) /\ p \in vinculo[r])
    PROVE  DonoDe(p) = Nenhuma
  BY DEF DonoDe

(* The seats a reservation owns are its linked seats while it is active. *)
LEMMA SegurasDe ==
    ASSUME TypeOK, PosseExclusiva, NEW R \in SUBSET Reservas
    PROVE  Promessa!Seguras(R) = Presas({r \in R : Ativa(r)})
<1>1. ASSUME NEW p \in Poltronas
      PROVE  DonoDe(p) \in R <=> \E r \in R : Ativa(r) /\ p \in vinculo[r]
  <2>1. CASE \E r \in Reservas : Ativa(r) /\ p \in vinculo[r]
    <3>1. PICK d \in Reservas : Ativa(d) /\ p \in vinculo[d]
      BY <2>1
    <3>2. DonoDe(p) = d
      BY <3>1, DonoAtivo
    <3>3. \A r \in Reservas : Ativa(r) /\ p \in vinculo[r] => r = d
      BY <3>1 DEF PosseExclusiva
    <3>4. QED
      BY <3>1, <3>2, <3>3
  <2>2. CASE \A r \in Reservas : ~ (Ativa(r) /\ p \in vinculo[r])
    BY <2>2, DonoNenhum, ConstantesAssumption
  <2>3. QED
    BY <2>1, <2>2
<1>2. \A r \in R : vinculo[r] \subseteq Poltronas
  BY DEF TypeOK
<1>3. QED
  BY <1>1, <1>2 DEF Promessa!Seguras, Presas

(* The same two facts of the state a step leads to. *)
LEMMA DonoDepois ==
    ASSUME PosseExclusiva', NEW p \in Poltronas
    PROVE  /\ \A d \in Reservas : Ativa(d)' /\ p \in vinculo'[d] => DonoDe(p)' = d
           /\ (\A r \in Reservas : ~ (Ativa(r)' /\ p \in vinculo'[r])) => DonoDe(p)' = Nenhuma
  BY DEF PosseExclusiva, DonoDe

(* A seat whose active reservation does not change keeps its owner. *)
LEMMA MesmoDono ==
    ASSUME PosseExclusiva, PosseExclusiva', NEW p \in Poltronas,
           \A r \in Reservas : Ativa(r)' /\ p \in vinculo'[r] <=> Ativa(r) /\ p \in vinculo[r]
    PROVE  DonoDe(p)' = DonoDe(p)
<1>1. CASE \E r \in Reservas : Ativa(r) /\ p \in vinculo[r]
  <2>1. PICK d \in Reservas : Ativa(d) /\ p \in vinculo[d]
    BY <1>1
  <2>2. QED
    BY <2>1, DonoAtivo, DonoDepois
<1>2. CASE \A r \in Reservas : ~ (Ativa(r) /\ p \in vinculo[r])
  BY <1>2, DonoNenhum, DonoDepois
<1>3. QED
  BY <1>1, <1>2

-----------------------------------------------------------------------------
(* An end of some reservations, seen from Venda. *)
LEMMA EncerraDonos ==
    ASSUME Exclusividade, Exclusividade', NEW R \in SUBSET Reservas, NEW fim \in Fins,
           Encerra(R, fim), NEW p \in Poltronas
    PROVE  /\ p \notin Presas(R) => DonoDe(p)' = DonoDe(p)
           /\ p \in Presas(R) /\ fim[1] = "CONFIRMADA" => DonoDe(p)' = DonoDe(p)
           /\ p \in Presas(R) /\ fim[1] # "CONFIRMADA" => DonoDe(p)' = Nenhuma
<1>1. /\ \A r \in Reservas : reserva'[r] = IF r \in R THEN fim[1] ELSE reserva[r]
      /\ vinculo' = vinculo
      /\ \A r \in R : Pendente(r)
  BY DEF Encerra, Finalizar
<1>2. PosseExclusiva /\ PosseExclusiva'
  BY DEF Exclusividade
<1>3. ASSUME p \notin Presas(R)
      PROVE  DonoDe(p)' = DonoDe(p)
  <2>1. \A r \in Reservas : p \in vinculo[r] => reserva'[r] = reserva[r]
    BY <1>1, <1>3 DEF Presas
  <2>2. QED
    BY <1>1, <1>2, <2>1, MesmoDono DEF Ativa
<1>4. ASSUME fim[1] = "CONFIRMADA"
      PROVE  DonoDe(p)' = DonoDe(p)
  <2>1. \A r \in Reservas : Ativa(r)' <=> Ativa(r)
    BY <1>1, <1>4 DEF Ativa, Pendente
  <2>2. QED
    BY <1>1, <1>2, <2>1, MesmoDono
<1>5. ASSUME p \in Presas(R), fim[1] # "CONFIRMADA"
      PROVE  DonoDe(p)' = Nenhuma
  <2>1. PICK d \in R : p \in vinculo[d]
    BY <1>5 DEF Presas
  <2>2. \A r \in Reservas : Ativa(r) /\ p \in vinculo[r] => r = d
    BY <1>1, <1>2, <2>1 DEF PosseExclusiva, Ativa, Pendente
  <2>3. ~ Ativa(d)'
    BY <1>1, <1>5, <2>1 DEF Ativa, Fins
  <2>4. \A r \in Reservas : ~ (Ativa(r)' /\ p \in vinculo'[r])
    <3> SUFFICES ASSUME NEW r \in Reservas, Ativa(r)', p \in vinculo'[r]
                 PROVE  FALSE
      OBVIOUS
    <3>1. Ativa(r)
      BY <1>1 DEF Ativa, Pendente
    <3>2. QED
      BY <1>1, <2>2, <2>3, <3>1
  <2>5. QED
    BY <1>2, <2>4, DonoDepois
<1>6. QED
  BY <1>3, <1>4, <1>5

(* An end never changes which reservations were granted. *)
LEMMA EncerraUsadas ==
    ASSUME NEW R \in SUBSET Reservas, NEW fim \in Fins, Encerra(R, fim)
    PROVE  Usadas' = Usadas
  BY DEF Encerra, Finalizar, Fins, Pendente, Usadas

(* Releasing is Soltar. *)
LEMMA SoltarPasso ==
    ASSUME Exclusividade, Exclusividade', NEW R \in SUBSET Reservas, NEW fim \in Fins,
           Encerra(R, fim), fim[2] = "LIVRE"
    PROVE  Promessa!Soltar(R)
<1>1. Promessa!Seguras(R) = Presas(R)
  <2>1. {r \in R : Ativa(r)} = R
    BY DEF Encerra, Ativa, Pendente
  <2>2. QED
    BY <2>1, SegurasDe DEF Exclusividade
<1>2. fim[1] # "CONFIRMADA"
  BY DEF Fins
<1>3. \A p \in Presas(R) : poltrona[p] = "RESERVADA"
  <2> SUFFICES ASSUME NEW r \in R, NEW p \in vinculo[r]
               PROVE  poltrona[p] = "RESERVADA"
    BY DEF Presas
  <2>1. p \in Poltronas /\ Pendente(r)
    BY DEF Exclusividade, TypeOK, Encerra
  <2>2. QED
    BY <2>1 DEF Exclusividade, MapaFiel, Pendente
<1>4. poltrona' = [p \in Poltronas |-> IF p \in Presas(R) THEN "LIVRE" ELSE poltrona[p]]
  BY DEF Encerra, Finalizar
<1>5. Donos' = [p \in Poltronas |-> IF p \in Presas(R) THEN Nenhuma ELSE Donos[p]]
  <2>1. \A p \in Poltronas : DonoDe(p)' = IF p \in Presas(R) THEN Nenhuma ELSE DonoDe(p)
    BY <1>2, EncerraDonos
  <2>2. QED
    BY <2>1 DEF Donos
<1>6. QED
  BY <1>1, <1>3, <1>4, <1>5, EncerraUsadas
     DEF Promessa!Soltar, Promessa!Passar, Donos, Usadas

(* Confirming a pending reservation is Vender; confirming any other, none. *)
LEMMA VenderPasso ==
    ASSUME Exclusividade, Exclusividade', ComPoltrona, NEW r \in Reservas, Confirmar(r)
    PROVE  Promessa!Vender(r) \/ UNCHANGED <<poltrona, Donos, Usadas>>
<1> DEFINE fim == <<"CONFIRMADA", "OCUPADA">>
           R == SoPendentes({r})
<1>1. Encerra(R, fim) /\ R \in SUBSET Reservas /\ fim \in Fins
  BY DEF Confirmar, AplicarDesfecho, Encerra, SoPendentes, Registrar, Liberar, Fins
<1>2. Donos' = Donos /\ Usadas' = Usadas
  <2>1. \A p \in Poltronas : DonoDe(p)' = DonoDe(p)
    BY <1>1, EncerraDonos
  <2>2. QED
    BY <1>1, <2>1, EncerraUsadas DEF Donos
<1>3. poltrona' = [p \in Poltronas |-> IF p \in Presas(R) THEN "OCUPADA" ELSE poltrona[p]]
  BY <1>1 DEF Encerra, Finalizar
<1>4. CASE ~ Pendente(r)
  <2>1. R = {} /\ Presas(R) = {}
    BY <1>4 DEF SoPendentes, Presas
  <2>2. poltrona' = poltrona
    BY <1>3, <2>1 DEF Exclusividade, TypeOK
  <2>3. QED
    BY <1>2, <2>2
<1>5. CASE Pendente(r)
  <2>1. R = {r} /\ {x \in {r} : Ativa(x)} = {r} /\ Presas({r}) = vinculo[r]
    BY <1>5 DEF SoPendentes, Presas, Ativa, Pendente
  <2>2. Promessa!Seguras({r}) = vinculo[r]
    BY <2>1, SegurasDe DEF Exclusividade
  <2>3. \A p \in vinculo[r] : p \in Poltronas /\ poltrona[p] = "RESERVADA" /\ DonoDe(p) = r
    BY <1>5, DonoAtivo DEF Exclusividade, TypeOK, MapaFiel, Pendente, Ativa
  <2>4. vinculo[r] # {}
    BY <1>5 DEF ComPoltrona, Pendente
  <2>5. Donos' = [p \in Poltronas |-> IF p \in vinculo[r] THEN r ELSE Donos[p]]
    <3>1. Donos = [p \in Poltronas |-> IF p \in vinculo[r] THEN r ELSE Donos[p]]
      BY <2>3 DEF Donos
    <3>2. QED
      BY <1>2, <3>1
  <2>6. QED
    BY <1>2, <1>3, <2>1, <2>2, <2>3, <2>4, <2>5
       DEF Promessa!Vender, Promessa!Passar, Donos, Usadas
<1>6. QED
  BY <1>4, <1>5

(* A grant is Reter. *)
LEMMA ReterPasso ==
    ASSUME Exclusividade, Exclusividade', NEW r \in Reservas, NEW S \in SUBSET Poltronas,
           Conceder(r, S)
    PROVE  Promessa!Reter(r, S)
<1>1. /\ \A x \in Reservas : reserva'[x] = IF x = r THEN "PENDENTE" ELSE reserva[x]
      /\ \A x \in Reservas : vinculo'[x] = IF x = r THEN S ELSE vinculo[x]
      /\ reserva[r] = "NENHUMA"
  BY DEF Exclusividade, TypeOK, PedidoSemReserva, Conceder
<1>2. \A p \in Poltronas : DonoDe(p)' = IF p \in S THEN r ELSE DonoDe(p)
  <2> SUFFICES ASSUME NEW p \in Poltronas
               PROVE  DonoDe(p)' = IF p \in S THEN r ELSE DonoDe(p)
    OBVIOUS
  <2>1. CASE p \in S
    <3>1. Ativa(r)' /\ p \in vinculo'[r]
      BY <1>1, <2>1 DEF Ativa
    <3>2. QED
      BY <2>1, <3>1, DonoDepois DEF Exclusividade
  <2>2. CASE p \notin S
    <3>1. \A x \in Reservas : Ativa(x)' /\ p \in vinculo'[x] <=> Ativa(x) /\ p \in vinculo[x]
      BY <1>1, <2>2 DEF Ativa
    <3>2. QED
      BY <2>2, <3>1, MesmoDono DEF Exclusividade
  <2>3. QED
    BY <2>1, <2>2
<1>3. Donos' = [p \in Poltronas |-> IF p \in S THEN r ELSE Donos[p]]
  BY <1>2 DEF Donos
<1>4. Usadas' = Usadas \cup {r} /\ r \notin Usadas
  BY <1>1 DEF Usadas
<1>5. QED
  BY <1>3, <1>4 DEF Promessa!Reter, Promessa!Passar, Conceder, SolicitacaoValida, Livres,
                    Donos, Usadas

(* Creating the seats of a session is Abrir. *)
LEMMA AbrirPasso ==
    ASSUME Exclusividade, Exclusividade', NEW s \in Sessoes, ProvisionarMatriz(s)
    PROVE  Promessa!Abrir(Criadas(s))
<1>1. reserva' = reserva /\ vinculo' = vinculo
  BY DEF ProvisionarMatriz
<1>2. \A p \in Poltronas : DonoDe(p)' = DonoDe(p)
  BY <1>1, MesmoDono DEF Ativa, Exclusividade
<1>3. \A p \in Poltronas : p \in Criadas(s) => DonoDe(p) = Nenhuma
  BY DonoNenhum DEF Criadas, Exclusividade, MapaFiel, Ativa
<1>4. Donos' = [p \in Poltronas |-> IF p \in Criadas(s) THEN Nenhuma ELSE Donos[p]]
  BY <1>2, <1>3 DEF Donos
<1>5. \A p \in Criadas(s) : poltrona[p] = "AUSENTE"
  BY DEF Criadas
<1>6. poltrona' = [p \in Poltronas |-> IF p \in Criadas(s) THEN "LIVRE" ELSE poltrona[p]]
  BY DEF ProvisionarMatriz
<1>7. Usadas' = Usadas
  BY <1>1 DEF Usadas
<1>8. QED
  BY <1>4, <1>5, <1>6, <1>7 DEF Promessa!Abrir, Promessa!Passar, Donos, Usadas

(* Everything else leaves the seats and their owners alone. *)
LEMMA ParadoPasso ==
    ASSUME Exclusividade, Exclusividade', UNCHANGED banco
    PROVE  UNCHANGED <<poltrona, Donos, Usadas>>
<1>1. poltrona' = poltrona /\ reserva' = reserva /\ vinculo' = vinculo
  BY DEF banco
<1>2. \A p \in Poltronas : DonoDe(p)' = DonoDe(p)
  BY <1>1, MesmoDono DEF Ativa, Exclusividade
<1>3. QED
  BY <1>1, <1>2 DEF Donos, Usadas

-----------------------------------------------------------------------------
(* Each step is of one of five kinds. *)
LEMMA PassosDeVenda ==
    ASSUME TypeOK, Next
    PROVE  \/ \E r \in Reservas : Confirmar(r)
           \/ SoltaAlgumas
           \/ \E r \in Reservas, S \in SUBSET Poltronas : Conceder(r, S)
           \/ \E s \in Sessoes : ProvisionarMatriz(s)
           \/ UNCHANGED banco
<1>1. ASSUME NEW r \in Reservas, Pedir(r)
      PROVE  \/ \E S \in SUBSET Poltronas : Conceder(r, S)
             \/ UNCHANGED banco
  BY <1>1 DEF Pedir, BuscarSessao, Recusar, Marcar, PerderMarcacao
<1>2. ASSUME \/ \E r \in Reservas : PerderPrazo(r) \/ Publicar(r)
             \/ \E m \in Mensagens : LimparMensagensProcessadas(m) \/ IgnorarDuplicata(m)
             \/ Ambiente
      PROVE  UNCHANGED banco
  BY <1>2 DEF PerderPrazo, Publicar, LimparMensagensProcessadas, IgnorarDuplicata,
              Ambiente, Catalogar, CriarSessao, RemoverSessao, AlterarSessao,
              AnunciarDesfecho, PassarTempo,
              vars, banco
<1>3. QED
  BY <1>1, <1>2, SoltaDe DEF Next, Consumir, Rotinas

(* The two invariants the refinement rests on. *)
Base == Exclusividade /\ ComPoltrona

(* Links are written once, by the grant, which asks for at least one seat. *)
LEMMA ComPoltronaPasso ==
    ASSUME Exclusividade, ComPoltrona, Next
    PROVE  ComPoltrona'
<1>1. CASE EncerraAlgumas
  BY <1>1 DEF EncerraAlgumas, Encerra, Finalizar, Pendente, ComPoltrona
<1>2. CASE \E r \in Reservas, S \in SUBSET Poltronas : Conceder(r, S)
  BY <1>2 DEF Conceder, SolicitacaoValida, ComPoltrona, Exclusividade, TypeOK
<1>3. CASE \E s \in Sessoes : ProvisionarMatriz(s)
  BY <1>3 DEF ProvisionarMatriz, ComPoltrona
<1>4. CASE ForaDoBanco
  BY <1>4 DEF ForaDoBanco, banco, ComPoltrona
<1>5. QED
  BY <1>1, <1>2, <1>3, <1>4, TiposDePasso DEF Exclusividade

LEMMA BasePasso ==
    ASSUME Base, [Next]_vars
    PROVE  Base'
<1>1. Exclusividade'
  BY ExclusividadePasso DEF Base
<1>2. CASE Next
  BY <1>1, <1>2, ComPoltronaPasso DEF Base
<1>3. CASE UNCHANGED vars
  BY <1>1, <1>3 DEF Base, ComPoltrona, vars
<1>4. QED
  BY <1>2, <1>3

(* The initial state of the service is the initial state of the promise. *)
LEMMA PromessaInicial ==
    ASSUME Init
    PROVE  Promessa!Init
<1>1. \A p \in Poltronas : DonoDe(p) = Nenhuma
  BY DonoNenhum DEF Init, Ativa
<1>2. QED
  BY <1>1 DEF Init, Promessa!Init

(* Every step of the service is a step of the promise, or none. *)
LEMMA PromessaPasso ==
    ASSUME Base, Base', [Next]_vars
    PROVE  [Promessa!Next]_(Promessa!vars)
<1>1. Exclusividade /\ Exclusividade' /\ ComPoltrona /\ TypeOK
  BY DEF Base, Exclusividade
<1>2. UNCHANGED <<poltrona, Donos, Usadas>> => UNCHANGED Promessa!vars
  BY DEF Promessa!vars, Donos, Usadas
<1>3. CASE \E r \in Reservas : Confirmar(r)
  BY <1>1, <1>2, <1>3, VenderPasso DEF Promessa!Next
<1>4. CASE SoltaAlgumas
  BY <1>1, <1>4, SoltarPasso DEF SoltaAlgumas, Promessa!Next
<1>5. CASE \E r \in Reservas, S \in SUBSET Poltronas : Conceder(r, S)
  BY <1>1, <1>5, ReterPasso DEF Promessa!Next
<1>6. CASE \E s \in Sessoes : ProvisionarMatriz(s)
  <2>1. PICK s \in Sessoes : Promessa!Abrir(Criadas(s))
    BY <1>1, <1>6, AbrirPasso
  <2>2. Criadas(s) \in SUBSET Poltronas
    BY DEF Criadas
  <2>3. QED
    BY <2>1, <2>2 DEF Promessa!Next
<1>7. CASE UNCHANGED banco
  BY <1>1, <1>2, <1>7, ParadoPasso
<1>8. CASE UNCHANGED vars
  <2>1. UNCHANGED banco
    BY <1>8 DEF vars, banco
  <2>2. QED
    BY <1>7, <2>1
<1>9. QED
  BY <1>1, <1>3, <1>4, <1>5, <1>6, <1>7, <1>8, PassosDeVenda

(* The inventory service keeps the promise of Venda: no transaction of it, *)
(* in any order, takes a seat that is held, splits a hold or undoes a sale.*)
THEOREM EstoqueCumpreVenda == Spec => CumpreVenda
<1>1. Init => Base
  <2>1. Init => ComPoltrona
    BY DEF Init, ComPoltrona
  <2>2. QED
    BY <2>1, ExclusividadeInicial DEF Base
<1>2. Base /\ [Next]_vars => Base'
  BY BasePasso
<1>3. Init => Promessa!Init
  BY PromessaInicial
<1>4. Base /\ Base' /\ [Next]_vars => [Promessa!Next]_(Promessa!vars)
  BY PromessaPasso
<1>5. QED
  BY <1>1, <1>2, <1>3, <1>4, PTL DEF Spec, CumpreVenda, Promessa!Spec
=============================================================================
