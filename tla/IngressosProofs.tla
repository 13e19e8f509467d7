-------------------------- MODULE IngressosProofs --------------------------
(***************************************************************************)
(* Proofs about Ingressos: pagamento and notificacao do to estoque only    *)
(* what Estoque lets the other services do, so that all that is proved of  *)
(* Estoque is true of the composition; it asks of the two no more than     *)
(* they promise; no seat is sold without a charge; and a ticket loses its  *)
(* seats in two ways only.                                                 *)
(***************************************************************************)
EXTENDS Ingressos, EstoqueProofs

(* The payment service heard of a reservation from estoque, and what it    *)
(* announced is how the transaction ended: the same in the queue of        *)
(* estoque and in the one of notificacao.                                  *)
SoAnunciadas == \A r \in Reservas : situacao[r] # "INEXISTENTE" => r \in entregues

PagoFoiDebitado == \A r \in Reservas : situacao[r] = "PAGO" => r \in debitadas

MensagemFiel ==
    \A r \in Reservas : \A m \in mensagens \cap Desfechos(r) :
        situacao[r] \in Pagamentos!Anunciaveis /\ m = <<FilaDe(r), r>>

AnuncioFiel ==
    \A r \in Reservas :
        <<r, "pagamento.sucesso">> \in anuncios => situacao[r] = "PAGO"

BilheteAnunciado == \A r \in bilhetes : <<r, "pagamento.sucesso">> \in anuncios

(* The inductive invariant of the composition. *)
Composicao ==
    /\ TypeIngressos
    /\ SoAnunciadas /\ PagoFoiDebitado /\ MensagemFiel /\ AnuncioFiel /\ BilheteAnunciado

(* What the services other than estoque change of it: nothing.             *)
LEMMA EstocarMantem ==
    ASSUME Estocar
    PROVE  /\ Next
           /\ entregues \subseteq entregues'
           /\ \A r \in Reservas : mensagens' \cap Desfechos(r) = mensagens \cap Desfechos(r)
<1>1. Next
  BY DEF Estocar, Next, Ambiente
<1>2. CASE EncerraAlgumas
  BY <1>1, <1>2 DEF EncerraAlgumas, Encerra, fora
<1>3. CASE \E r \in Reservas : Pedir(r)
  BY <1>1, <1>3 DEF Pedir, BuscarSessao, Conceder, Recusar, Marcar, PerderMarcacao, fora
<1>4. CASE \/ \E s \in Sessoes : ProvisionarMatriz(s)
           \/ \E r \in Reservas : PerderPrazo(r) \/ Publicar(r)
           \/ \E m \in Mensagens : LimparMensagensProcessadas(m) \/ IgnorarDuplicata(m)
           \/ PassarTempo
  BY <1>1, <1>4 DEF ProvisionarMatriz, PerderPrazo, Publicar, LimparMensagensProcessadas,
                    IgnorarDuplicata, PassarTempo, vars, fora
<1>5. CASE Catalogar
  <2>1. PICK s \in Sessoes :
            /\ \/ mensagens' = mensagens
               \/ mensagens' = mensagens \cup {<<FilaSessaoCriada, s>>}
               \/ mensagens' = mensagens \cup {<<FilaSessaoCancelada, s>>}
            /\ entregues' = entregues
    BY <1>5 DEF Catalogar, CriarSessao, RemoverSessao, AlterarSessao
  <2>2. \A r \in Reservas :
            <<FilaSessaoCriada, s>> \notin Desfechos(r) /\ <<FilaSessaoCancelada, s>> \notin Desfechos(r)
    BY DEF Desfechos, FilaSessaoCriada, FilaSessaoCancelada, FilaPagamentoSucesso,
           FilaPagamentoFalhou
  <2>3. QED
    BY <1>1, <2>1, <2>2
<1>6. QED
  BY <1>2, <1>3, <1>4, <1>5, EncerraDe DEF Estocar, Consumir, Rotinas

(* The announcement of an outcome is the only one estoque hears of the     *)
(* reservation, or one it already heard.                                   *)
LEMMA AnunciarPasso ==
    ASSUME Composicao, NEW r \in Reservas, AnunciarPagamento(r)
    PROVE  AnunciarDesfecho(r) \/ UNCHANGED vars
<1>1. situacao[r] \in Pagamentos!Anunciaveis
  BY DEF AnunciarPagamento, Pagamentos!Anunciar
<1>2. r \in entregues
  BY <1>1 DEF Composicao, SoAnunciadas, Pagamentos!Anunciaveis
<1>3. <<FilaDe(r), r>> \in Desfechos(r)
  BY DEF FilaDe, Desfechos
<1>4. CASE mensagens \cap Desfechos(r) = {}
  BY <1>2, <1>3, <1>4 DEF AnunciarPagamento, AnunciarDesfecho
<1>5. CASE mensagens \cap Desfechos(r) # {}
  <2>1. <<FilaDe(r), r>> \in mensagens
    BY <1>5 DEF Composicao, MensagemFiel
  <2>2. mensagens' = mensagens
    BY <2>1 DEF AnunciarPagamento
  <2>3. QED
    BY <2>2 DEF AnunciarPagamento, vars, banco
<1>6. QED
  BY <1>4, <1>5

(* Every step of the composition is one of Estoque, or nothing to it.      *)
LEMMA PassoDeEstoque ==
    ASSUME Composicao, [NextIngressos]_todas
    PROVE  [Next]_vars
<1>1. CASE Estocar
  BY <1>1, EstocarMantem
<1>2. ASSUME NEW r \in Reservas, AnunciarPagamento(r) PROVE [Next]_vars
  BY <1>2, AnunciarPasso DEF Next, Ambiente
<1>3. ASSUME NEW r \in Reservas, OuvirReserva(r) \/ Cobrar(r) \/ EmitirIngresso(r)
      PROVE  UNCHANGED vars
  BY <1>3 DEF OuvirReserva, Cobrar, EmitirIngresso
<1>5. ASSUME NEW R \in SUBSET Reservas, CancelarEsperas(R) PROVE UNCHANGED vars
  BY <1>5 DEF CancelarEsperas
<1>4. CASE UNCHANGED todas
  BY <1>4 DEF todas
<1>6. QED
  BY <1>1, <1>2, <1>3, <1>4, <1>5 DEF NextIngressos

-----------------------------------------------------------------------------
(* At first nothing was sold, paid or announced. *)
LEMMA ComposicaoInicial == InitIngressos => Composicao
<1> SUFFICES ASSUME InitIngressos PROVE Composicao
  OBVIOUS
<1>1. TypeOK
  BY TipoInicial DEF InitIngressos
<1>2. QED
  BY <1>1 DEF InitIngressos, Init, Pagamentos!Init, Pagamentos!Situacoes, Composicao,
              TypeIngressos, SoAnunciadas, PagoFoiDebitado, MensagemFiel, AnuncioFiel,
              BilheteAnunciado

(* estoque's own steps leave the payment alone. *)
LEMMA EstocarComposicao ==
    ASSUME Composicao, TypeOK', Estocar
    PROVE  Composicao'
<1>1. UNCHANGED <<situacao, debitadas, anuncios, bilhetes>>
  BY DEF Estocar, pagamento
<1>2. TypeIngressos'
  BY <1>1 DEF Composicao, TypeIngressos
<1>3. SoAnunciadas' /\ MensagemFiel'
  <2>1. \A r \in Reservas : Desfechos(r)' = Desfechos(r) /\ FilaDe(r)' = FilaDe(r)
    BY <1>1 DEF Desfechos, FilaDe
  <2>2. QED
    BY <1>1, <2>1, EstocarMantem DEF Composicao, SoAnunciadas, MensagemFiel
<1>4. QED
  BY <1>1, <1>2, <1>3 DEF Composicao, PagoFoiDebitado, AnuncioFiel, BilheteAnunciado

(* A transaction is opened for a reservation estoque announced. *)
LEMMA OuvirComposicao ==
    ASSUME Composicao, TypeOK', NEW r \in Reservas, OuvirReserva(r)
    PROVE  Composicao'
<1>1. /\ situacao[r] = "INEXISTENTE" /\ r \in entregues
      /\ situacao' = [situacao EXCEPT ![r] = "ABERTA"]
      /\ UNCHANGED <<debitadas, anuncios, bilhetes, vars>>
  BY DEF OuvirReserva, Anunciada, Pagamentos!Abrir
<1>2. UNCHANGED <<entregues, mensagens>>
  BY <1>1 DEF vars
<1>3. TypeIngressos'
  BY <1>1 DEF Composicao, TypeIngressos, Pagamentos!Situacoes
<1>4. MensagemFiel'
  BY <1>1, <1>2 DEF Composicao, TypeIngressos, MensagemFiel, FilaDe, Desfechos,
                    Pagamentos!Anunciaveis
<1>5. SoAnunciadas' /\ PagoFoiDebitado' /\ AnuncioFiel' /\ BilheteAnunciado'
  BY <1>1, <1>2 DEF Composicao, TypeIngressos, SoAnunciadas, PagoFoiDebitado, AnuncioFiel,
                    BilheteAnunciado
<1>6. QED
  BY <1>3, <1>4, <1>5 DEF Composicao

(* A transaction that ends was open, and was announced to nobody before.   *)
LEMMA CobrarComposicao ==
    ASSUME Composicao, TypeOK', NEW r \in Reservas, Cobrar(r)
    PROVE  Composicao'
<1>1. UNCHANGED <<entregues, mensagens, anuncios, bilhetes>>
  BY DEF Cobrar, vars, Pagamentos!Debitar, Pagamentos!Encerrar
<1>2. CASE Pagamentos!Debitar(r)
  <2>1. situacao' = situacao /\ debitadas' = debitadas \cup {r}
    BY <1>2 DEF Pagamentos!Debitar
  <2>2. QED
    BY <1>1, <2>1 DEF Composicao, TypeIngressos, SoAnunciadas, PagoFoiDebitado, MensagemFiel,
                      AnuncioFiel, BilheteAnunciado, FilaDe, Desfechos
<1>3. CASE Pagamentos!Encerrar(r)
  <2>1. PICK s \in Pagamentos!Desfechos(r) : situacao' = [situacao EXCEPT ![r] = s]
    BY <1>3 DEF Pagamentos!Encerrar
  <2>2. situacao[r] = "ABERTA" /\ debitadas' = debitadas
    BY <1>3 DEF Pagamentos!Encerrar
  <2>3. /\ s \in Pagamentos!Situacoes
        /\ s = "PAGO" => r \in debitadas
    BY <2>1 DEF Pagamentos!Desfechos, Pagamentos!Situacoes
  <2>4. TypeIngressos'
    BY <1>1, <2>1, <2>2, <2>3 DEF Composicao, TypeIngressos
  <2>5. MensagemFiel'
    BY <1>1, <2>1, <2>2 DEF Composicao, TypeIngressos, MensagemFiel, FilaDe, Desfechos,
                            Pagamentos!Anunciaveis
  <2>6. SoAnunciadas' /\ PagoFoiDebitado' /\ AnuncioFiel' /\ BilheteAnunciado'
    BY <1>1, <2>1, <2>2, <2>3
    DEF Composicao, TypeIngressos, SoAnunciadas, PagoFoiDebitado, AnuncioFiel, BilheteAnunciado
  <2>7. QED
    BY <2>4, <2>5, <2>6 DEF Composicao
<1>4. QED
  BY <1>2, <1>3 DEF Cobrar

(* Waits that end together were open, and nobody was told of them either.  *)
LEMMA CancelarComposicao ==
    ASSUME Composicao, TypeOK', NEW R \in SUBSET Reservas, CancelarEsperas(R)
    PROVE  Composicao'
<1>1. /\ \A r \in R : situacao[r] = "ABERTA"
      /\ situacao' = [r \in Reservas |-> IF r \in R THEN "CANCELADO" ELSE situacao[r]]
      /\ UNCHANGED <<debitadas, anuncios, bilhetes, entregues, mensagens>>
  BY DEF CancelarEsperas, Pagamentos!Desistir, vars
<1>2. TypeIngressos'
  BY <1>1 DEF Composicao, TypeIngressos, Pagamentos!Situacoes
<1>3. \A r \in Reservas : situacao[r] \in Pagamentos!Anunciaveis => situacao'[r] = situacao[r]
  BY <1>1 DEF Pagamentos!Anunciaveis
<1>4. MensagemFiel'
  BY <1>1, <1>3 DEF Composicao, MensagemFiel, FilaDe, Desfechos
<1>5. SoAnunciadas' /\ PagoFoiDebitado' /\ BilheteAnunciado'
  BY <1>1 DEF Composicao, SoAnunciadas, PagoFoiDebitado, BilheteAnunciado
<1>6. AnuncioFiel'
  BY <1>1, <1>3 DEF Composicao, AnuncioFiel, Pagamentos!Anunciaveis
<1>7. QED
  BY <1>2, <1>4, <1>5, <1>6 DEF Composicao

(* The announcement says how the transaction ended. *)
LEMMA AnunciarComposicao ==
    ASSUME Composicao, TypeOK', NEW r \in Reservas, AnunciarPagamento(r)
    PROVE  Composicao'
<1>1. /\ situacao[r] \in Pagamentos!Anunciaveis
      /\ anuncios' = anuncios \cup {<<r, Pagamentos!Rota(situacao[r])>>}
      /\ mensagens' = mensagens \cup {<<FilaDe(r), r>>}
      /\ UNCHANGED <<situacao, debitadas, bilhetes, entregues>>
  BY DEF AnunciarPagamento, Pagamentos!Anunciar
<1>2. TypeIngressos'
  BY <1>1 DEF Composicao, TypeIngressos, Pagamentos!Rota
<1>3. MensagemFiel'
  <2>1. SUFFICES ASSUME NEW q \in Reservas, NEW m \in mensagens' \cap Desfechos(q)
                 PROVE  situacao[q] \in Pagamentos!Anunciaveis /\ m = <<FilaDe(q), q>>
    BY <1>1 DEF MensagemFiel, FilaDe, Desfechos
  <2>2. CASE m \in mensagens
    BY <2>2 DEF Composicao, MensagemFiel
  <2>3. CASE m = <<FilaDe(r), r>>
    BY <1>1, <2>3 DEF Desfechos
  <2>4. QED
    BY <1>1, <2>2, <2>3
<1>4. AnuncioFiel'
  BY <1>1 DEF Composicao, AnuncioFiel, Pagamentos!Rota
<1>5. SoAnunciadas' /\ PagoFoiDebitado' /\ BilheteAnunciado'
  BY <1>1 DEF Composicao, SoAnunciadas, PagoFoiDebitado, BilheteAnunciado
<1>6. QED
  BY <1>2, <1>3, <1>4, <1>5 DEF Composicao

(* A ticket is made of an announcement. *)
LEMMA EmitirComposicao ==
    ASSUME Composicao, TypeOK', NEW r \in Reservas, EmitirIngresso(r)
    PROVE  Composicao'
<1>1. /\ <<r, "pagamento.sucesso">> \in anuncios
      /\ bilhetes' = bilhetes \cup {r}
      /\ UNCHANGED <<situacao, debitadas, anuncios, entregues, mensagens>>
  BY DEF EmitirIngresso, PagamentoAnunciado, pagamento, vars
<1>2. QED
  BY <1>1 DEF Composicao, TypeIngressos, SoAnunciadas, PagoFoiDebitado, MensagemFiel,
              AnuncioFiel, BilheteAnunciado, FilaDe, Desfechos

(* Every step keeps the invariant of the composition. *)
LEMMA ComposicaoPasso == Composicao /\ [NextIngressos]_todas => Composicao'
<1> SUFFICES ASSUME Composicao, [NextIngressos]_todas PROVE Composicao'
  OBVIOUS
<1>1. TypeOK'
  BY PassoDeEstoque, TipoPasso DEF Composicao, TypeIngressos
<1>2. CASE UNCHANGED todas
  BY <1>1, <1>2 DEF todas, pagamento, vars, Composicao, TypeIngressos, SoAnunciadas,
                    PagoFoiDebitado, MensagemFiel, AnuncioFiel, BilheteAnunciado, FilaDe,
                    Desfechos
<1>3. QED
  BY <1>1, <1>2, EstocarComposicao, OuvirComposicao, CobrarComposicao, CancelarComposicao,
     AnunciarComposicao, EmitirComposicao
  DEF NextIngressos

LEMMA ComposicaoSempre == SpecIngressos => []Composicao
  BY ComposicaoInicial, ComposicaoPasso, PTL DEF SpecIngressos

-----------------------------------------------------------------------------
(* What pagamento and notificacao do is within what Estoque lets its       *)
(* surroundings do; for catalogo and the clock there is nothing to show,   *)
(* for their steps here are Estoque's own.  Every theorem about Estoque    *)
(* holds of the composition.                                               *)
THEOREM ComposicaoCumpreEstoque == SpecIngressos => CumpreEstoque
<1>1. InitIngressos => Init
  BY DEF InitIngressos
<1>2. Composicao /\ [NextIngressos]_todas => [Next]_vars
  BY PassoDeEstoque
<1>3. QED
  BY <1>1, <1>2, ComposicaoSempre, PTL DEF SpecIngressos, Spec, CumpreEstoque

(* The reservations the ticket service hears of, and its tickets. *)
PagasOuvidas == {r \in Reservas : PagamentoAnunciado(r)}
BilhetesDe   == {<<r, r>> : r \in bilhetes}

(* An announced success is heard of, anything else is not. *)
LEMMA AnunciarOuve ==
    ASSUME NEW r \in Reservas, NEW rota,
           anuncios' = anuncios \cup {<<r, rota>>}, UNCHANGED bilhetes
    PROVE  Ingresso!Ouvir(r) \/ UNCHANGED Ingresso!vars
<1>1. BilhetesDe' = BilhetesDe
  BY DEF BilhetesDe
<1>2. CASE rota = "pagamento.sucesso"
  <2>1. PagasOuvidas' = PagasOuvidas \cup {r}
    BY <1>2 DEF PagasOuvidas, PagamentoAnunciado
  <2>2. QED
    BY <1>1, <2>1 DEF Ingresso!Ouvir, PagasOuvidas, BilhetesDe
<1>3. CASE rota # "pagamento.sucesso"
  <2>1. PagasOuvidas' = PagasOuvidas
    BY <1>3 DEF PagasOuvidas, PagamentoAnunciado
  <2>2. QED
    BY <1>1, <2>1 DEF Ingresso!vars, PagasOuvidas, BilhetesDe
<1>4. QED
  BY <1>2, <1>3

(* A ticket is issued once. *)
LEMMA EmitirEmite ==
    ASSUME TypeIngressos, NEW r \in Reservas, EmitirIngresso(r)
    PROVE  Ingresso!Emitir(r, r) \/ UNCHANGED Ingresso!vars
<1>1. /\ r \in PagasOuvidas /\ PagasOuvidas' = PagasOuvidas
      /\ bilhetes' = bilhetes \cup {r}
  BY DEF EmitirIngresso, PagasOuvidas, PagamentoAnunciado, pagamento
<1>2. CASE r \in bilhetes
  <2>1. bilhetes' = bilhetes
    BY <1>1, <1>2
  <2>2. QED
    BY <1>1, <2>1 DEF Ingresso!vars, PagasOuvidas, BilhetesDe
<1>3. CASE r \notin bilhetes
  <2>1. BilhetesDe' = BilhetesDe \cup {<<r, r>>}
    BY <1>1 DEF BilhetesDe
  <2>2. \A q \in Reservas : <<r, q>> \notin BilhetesDe /\ <<q, r>> \notin BilhetesDe
    BY <1>3 DEF BilhetesDe
  <2>3. QED
    BY <1>1, <2>1, <2>2
    DEF Ingresso!Emitir, Ingresso!Emitido, PagasOuvidas, BilhetesDe
<1>4. QED
  BY <1>2, <1>3

(* A step of the four services is, to the payment service and to the       *)
(* ticket service, a step they promise, or nothing.                        *)
LEMMA PassoDasPromessas ==
    ASSUME TypeIngressos, [NextIngressos]_todas
    PROVE  /\ Pagamentos!Next \/ UNCHANGED Pagamentos!vars
           /\ Ingresso!Next \/ UNCHANGED Ingresso!vars
<1> DEFINE DoPagamento == Pagamentos!Next \/ UNCHANGED Pagamentos!vars
           DoIngresso  == Ingresso!Next \/ UNCHANGED Ingresso!vars
<1>1. ASSUME UNCHANGED <<anuncios, bilhetes>> PROVE DoIngresso
  BY <1>1 DEF Ingresso!vars, PagamentoAnunciado
<1>2. ASSUME UNCHANGED pagamento PROVE DoPagamento
  BY <1>2 DEF pagamento, Pagamentos!vars
<1>3. ASSUME Estocar \/ UNCHANGED todas PROVE DoPagamento /\ DoIngresso
  BY <1>1, <1>2, <1>3 DEF Estocar, todas, pagamento
<1>4. ASSUME NEW r \in Reservas, OuvirReserva(r) \/ Cobrar(r) PROVE DoPagamento /\ DoIngresso
  BY <1>1, <1>4 DEF OuvirReserva, Cobrar, Pagamentos!Next, Pagamentos!Abrir, Pagamentos!Debitar,
                    Pagamentos!Encerrar
<1>5. ASSUME NEW R \in SUBSET Reservas, CancelarEsperas(R) PROVE DoPagamento /\ DoIngresso
  BY <1>1, <1>5 DEF CancelarEsperas, Pagamentos!Next, Pagamentos!Desistir
<1>6. ASSUME NEW r \in Reservas, AnunciarPagamento(r) PROVE DoPagamento /\ DoIngresso
  <2>1. Pagamentos!Anunciar(r) /\ UNCHANGED bilhetes
    BY <1>6 DEF AnunciarPagamento
  <2>2. PICK rota : anuncios' = anuncios \cup {<<r, rota>>}
    BY <2>1 DEF Pagamentos!Anunciar
  <2>3. Ingresso!Ouvir(r) \/ UNCHANGED Ingresso!vars
    BY <2>1, <2>2, AnunciarOuve
  <2>4. QED
    BY <2>1, <2>3 DEF Pagamentos!Next, Ingresso!Next
<1>7. ASSUME NEW r \in Reservas, EmitirIngresso(r) PROVE DoPagamento /\ DoIngresso
  <2>1. UNCHANGED pagamento
    BY <1>7 DEF EmitirIngresso
  <2>2. Ingresso!Emitir(r, r) \/ UNCHANGED Ingresso!vars
    BY <1>7, EmitirEmite
  <2>3. QED
    BY <1>2, <2>1, <2>2 DEF Ingresso!Next
<1> HIDE DEF DoPagamento, DoIngresso
<1>8. DoPagamento /\ DoIngresso
  BY <1>3, <1>4, <1>5, <1>6, <1>7 DEF NextIngressos
<1>9. QED
  BY <1>8 DEF DoPagamento, DoIngresso

(* The composition is made of the promises: to payments it does what       *)
(* Cobranca allows, and its tickets are tickets of Bilhetes, one for each  *)
(* reservation whose payment was announced.                                *)
THEOREM ComposicaoCumprePromessas == SpecIngressos => CumprePromessas
<1>1. InitIngressos => Pagamentos!Init /\ Ingresso!Init
  <2>1. SUFFICES ASSUME InitIngressos PROVE Ingresso!Init
    BY DEF InitIngressos
  <2>2. anuncios = {} /\ bilhetes = {}
    BY <2>1 DEF InitIngressos, Pagamentos!Init
  <2>3. PagasOuvidas = {}
    BY <2>2 DEF PagasOuvidas, PagamentoAnunciado
  <2>4. BilhetesDe = {}
    BY <2>2 DEF BilhetesDe
  <2>5. QED
    BY <2>3, <2>4 DEF Ingresso!Init, PagasOuvidas, BilhetesDe
<1>2. Composicao /\ [NextIngressos]_todas =>
         [Pagamentos!Next]_Pagamentos!vars /\ [Ingresso!Next]_Ingresso!vars
  BY PassoDasPromessas DEF Composicao
<1>3. QED
  BY <1>1, <1>2, ComposicaoSempre, PTL
  DEF SpecIngressos, CumprePromessas, Pagamentos!Spec, Ingresso!Spec

(* What of estoque the two properties below rest on. *)
Lastro == PosseExclusiva /\ DesfechoTemCausa /\ FatoDaReserva

LEMMA LastroSempre == SpecIngressos => []Lastro
<1>1. PosseExclusiva /\ DesfechoTemCausa /\ FatoDaReserva <=> Lastro
  BY DEF Lastro
<1>2. QED
  BY <1>1, ComposicaoCumpreEstoque, SemVendaDupla, FimTemCausa, FatoComReserva, PTL
  DEF CumpreEstoque

(* No seat is sold without a charge, however the messages of the four      *)
(* services are delayed, repeated and reordered.                           *)
THEOREM VendaSemprePaga == SpecIngressos => []VendaPaga
<1>1. ASSUME Composicao, Lastro PROVE VendaPaga
  <2>1. SUFFICES ASSUME NEW r \in Reservas, reserva[r] = "CONFIRMADA"
                 PROVE  r \in debitadas /\ situacao[r] = "PAGO"
    BY DEF VendaPaga
  <2>2. <<FilaPagamentoSucesso, r>> \in mensagens \cap Desfechos(r)
    BY <1>1, <2>1 DEF Lastro, DesfechoTemCausa, Desfechos
  <2>3. FilaDe(r) = FilaPagamentoSucesso
    BY <1>1, <2>2 DEF Composicao, MensagemFiel
  <2>4. situacao[r] = "PAGO"
    BY <2>3 DEF FilaDe, FilaPagamentoSucesso, FilaPagamentoFalhou
  <2>5. QED
    BY <1>1, <2>4 DEF Composicao, PagoFoiDebitado
<1>2. QED
  BY <1>1, ComposicaoSempre, LastroSempre, PTL

(* A ticket was charged, and it has its seats, or will have them, unless   *)
(* the deadline passed or the session was cancelled; two tickets for one   *)
(* seat are never both good.                                               *)
THEOREM BilheteSempreTemLugar == SpecIngressos => []BilheteTemLugar
<1>1. ASSUME Composicao, Lastro PROVE BilheteTemLugar
  <2>1. \A r \in bilhetes : r \in Reservas /\ situacao[r] = "PAGO" /\ r \in debitadas
    BY <1>1 DEF Composicao, TypeIngressos, BilheteAnunciado, AnuncioFiel, PagoFoiDebitado
  <2>2. ASSUME NEW r \in bilhetes PROVE Ativa(r) \/ Perdeu(r)
    <3>1. reserva[r] # "NENHUMA" /\ reserva[r] \in StatusReserva
      BY <1>1, <2>1 DEF Composicao, TypeIngressos, TypeOK, SoAnunciadas, Lastro, FatoDaReserva
    <3>2. CASE reserva[r] = "CANCELADA"
      <4>1. <<FilaPagamentoFalhou, r>> \notin mensagens
        <5>1. FilaDe(r) = FilaPagamentoSucesso /\ <<FilaPagamentoFalhou, r>> \in Desfechos(r)
          BY <2>1 DEF FilaDe, Desfechos
        <5>2. QED
          BY <1>1, <2>1, <5>1
          DEF Composicao, MensagemFiel, FilaPagamentoSucesso, FilaPagamentoFalhou
      <4>2. QED
        BY <1>1, <2>1, <3>2, <4>1 DEF Lastro, DesfechoTemCausa, Perdeu
    <3>3. CASE reserva[r] = "EXPIRADA"
      BY <1>1, <2>1, <3>3 DEF Lastro, DesfechoTemCausa, Perdeu
    <3>4. QED
      BY <3>1, <3>2, <3>3 DEF StatusReserva, Ativa
  <2>3. \A q, r \in bilhetes :
            q # r /\ vinculo[q] \cap vinculo[r] # {} => Perdeu(q) \/ Perdeu(r)
    BY <1>1, <2>1, <2>2 DEF Lastro, PosseExclusiva
  <2>4. QED
    BY <2>1, <2>2, <2>3 DEF BilheteTemLugar
<1>2. QED
  BY <1>1, ComposicaoSempre, LastroSempre, PTL
=============================================================================
