-------------------------- MODULE PagamentoProofs --------------------------
(***************************************************************************)
(* Proofs about Pagamento, for any number of reservations and of sweeping  *)
(* instances, any lot, deadlines, falls and length of time.                *)
(***************************************************************************)
EXTENDS Pagamento, TLAPS

(* Instance i has claimed the charge of r and has not written its outcome. *)
Direito == Respostas \cup {"cobrando", "liberar"}
Detem(i, r) == passo[i] \in Direito /\ atual[i] # Nada /\ atual[i][1] = r

(* The claim is exclusive and stored, and no charge precedes it.           *)
DireitoUnico ==
    /\ \A i, j \in Instancias, r \in Reservas : Detem(i, r) /\ Detem(j, r) => i = j
    /\ \A i \in Instancias, r \in Reservas : Detem(i, r) => emitida[r]

(* The acquirer charged only who was claimed, and its answer in the hands  *)
(* of an instance agrees with what it did.                                 *)
DebitoReivindicado ==
    /\ \A r \in Reservas : debitos[r] \in {0, 1}
    /\ \A r \in Reservas : ~ emitida[r] => debitos[r] = 0
    /\ \A i \in Instancias, r \in Reservas :
          Detem(i, r) /\ passo[i] \in {"cobrando", "liberar", "recusar"} => debitos[r] = 0
    /\ \A i \in Instancias, r \in Reservas :
          Detem(i, r) /\ passo[i] = "aprovar" => debitos[r] = 1
    /\ \A r \in Reservas : status[r] = "PAGO" => debitos[r] = 1

(* The inductive invariant behind the single charge. *)
CobrancaUnica == TypeOK /\ DireitoUnico /\ DebitoReivindicado

(* What an instance is about to announce is what the row says.             *)
CopiaFiel ==
    /\ \A i \in Instancias : etapa[i] # "cobrar" =>
          \A c \in lista[i] : c[2] \in Anunciavel /\ status[c[1]] = c[2]
    /\ \A i \in Instancias, r \in Reservas :
          Em(i, "anunciar", r) => atual[i][2] \in Anunciavel /\ status[r] = atual[i][2]

Publicado(r) == \E f \in fatos : f[1] = r

(* Marking comes after publishing. *)
MarcaDepois ==
    \A i \in Instancias, r \in Reservas : Em(i, "marcar", r) => Publicado(r)

FatoDaLinha ==
    \A f \in fatos : /\ status[f[1]] \in Anunciavel
                     /\ f[2] = "pagamento.sucesso" <=> status[f[1]] = "PAGO"

(* The inductive invariant behind the announcements. *)
AnuncioFiel == TypeOK /\ CopiaFiel /\ MarcaDepois /\ FatoDaLinha /\ MarcadoFoiPublicado
-----------------------------------------------------------------------------
(* The lists the queries return hold rows.                                 *)
LEMMA LimiteDe ==
    ASSUME NEW R, NEW E \in ComLimite(R)
    PROVE  E \subseteq R
  BY DEF ComLimite

(* What Finalizar writes for each answer.                                  *)
LEMMA EstadoFinalTipo ==
    /\ EstadoFinal("aprovar") = "PAGO"
    /\ EstadoFinal("recusar") = "RECUSADO"
    /\ EstadoFinal("verificar") = "PENDENTE_VERIFICACAO"
    /\ EstadoFinal("cancelar") = "CANCELADO"
  BY DEF EstadoFinal

(* Every step keeps the types. *)
LEMMA TipoInicial == Init => TypeOK
  BY DEF Init, TypeOK, Status, Etapas, Passos

(* Each action of the service keeps the types of its tables and memories.  *)
LEMMA TipoPreservado == TypeOK /\ [Next]_vars => TypeOK'
<1> SUFFICES ASSUME TypeOK, [Next]_vars PROVE TypeOK'
  OBVIOUS
<1> USE DEF TypeOK, tabela, memoria
<1>1. ASSUME NEW r \in Reservas, RegistrarIntencao(r) PROVE TypeOK'
  BY <1>1 DEF RegistrarIntencao, Status
<1>2. ASSUME NEW r \in Reservas, EscolherForma(r) PROVE TypeOK'
  BY <1>2 DEF EscolherForma
<1>3. ASSUME NEW r \in Reservas, RegistrarEscolha(r) PROVE TypeOK'
  BY <1>3 DEF RegistrarEscolha, Status
<1>4. ASSUME NEW i \in Instancias, DesistirDasVencidas(i) PROVE TypeOK'
  BY LimiteDe, <1>4 DEF DesistirDasVencidas, Percorrer, Copias, Status, Passos
<1>5. ASSUME NEW i \in Instancias, ListarEscolhidas(i) PROVE TypeOK'
  BY LimiteDe, <1>5 DEF ListarEscolhidas, Percorrer, Copias, Status, Passos
<1>6. ASSUME NEW i \in Instancias, ListarAnuncios(i) PROVE TypeOK'
  BY LimiteDe, <1>6 DEF ListarAnuncios, Percorrer, Copias, Passos
<1>7. ASSUME NEW i \in Instancias, Avancar(i) PROVE TypeOK'
  BY <1>7 DEF Avancar, ProximaEtapa, Etapas, Passos
<1>8. ASSUME NEW i \in Instancias, Tomar(i) PROVE TypeOK'
  BY <1>8 DEF Tomar, Copias, Passos
<1>9. ASSUME NEW i \in Instancias, NEW r \in Reservas, ReivindicarCobranca(i, r)
      PROVE  TypeOK'
  BY <1>9 DEF ReivindicarCobranca, Ir, Largar, Passos
<1>10. ASSUME NEW i \in Instancias, NEW r \in Reservas, Cobrar(i, r) PROVE TypeOK'
  BY <1>10 DEF Cobrar, Ir, Passos, Respostas
<1>11. ASSUME NEW i \in Instancias, NEW r \in Reservas, LiberarCobranca(i, r)
       PROVE  TypeOK'
  BY <1>11 DEF LiberarCobranca, Largar, Passos
<1>12. ASSUME NEW i \in Instancias, NEW r \in Reservas, Finalizar(i, r) PROVE TypeOK'
  BY EstadoFinalTipo, <1>12 DEF Finalizar, Largar, Passos, Respostas, Status, Copias
<1>13. ASSUME NEW i \in Instancias, NEW r \in Reservas, ResolverConflito(i, r)
       PROVE  TypeOK'
  BY <1>13 DEF ResolverConflito, Largar, Passos, Copias, AnuncioPendente, Anunciavel
<1>14. ASSUME NEW i \in Instancias, NEW r \in Reservas, PublicarFato(i, r) PROVE TypeOK'
  BY <1>14 DEF PublicarFato, Ir, Passos, Rota, Rotas
<1>15. ASSUME NEW i \in Instancias, NEW r \in Reservas, MarcarAnunciado(i, r)
       PROVE  TypeOK'
  BY <1>15 DEF MarcarAnunciado, Largar, Passos
<1>16. ASSUME NEW i \in Instancias, FalharItem(i) PROVE TypeOK'
  BY <1>16 DEF FalharItem, Largar, Passos
<1>17. ASSUME NEW i \in Instancias, FalharConsulta(i) \/ Queda(i) PROVE TypeOK'
  BY <1>17 DEF FalharConsulta, Queda, Recomecar, Etapas, Passos
<1>18. ASSUME NEW i \in Instancias, FecharCanal(i) PROVE TypeOK'
  BY <1>18 DEF FecharCanal
<1>19. CASE PassarTempo
  BY <1>19 DEF PassarTempo
<1>20. CASE UNCHANGED vars
  BY <1>20 DEF vars
<1>21. QED
  BY <1>1, <1>2, <1>3, <1>4, <1>5, <1>6, <1>7, <1>8, <1>9, <1>10, <1>11, <1>12, <1>13,
     <1>14, <1>15, <1>16, <1>17, <1>18, <1>19, <1>20
  DEF Next, NextSemFalhas, Varrer, RecusarPublicacao

-----------------------------------------------------------------------------
(* A step that claims nothing, charges nobody and gives up no claim in the *)
(* table keeps the charge single.                                          *)
LEMMA SemNovoDireito ==
    ASSUME CobrancaUnica, TypeOK',
           \A i \in Instancias, r \in Reservas :
               Detem(i, r)' => Detem(i, r) /\ passo'[i] = passo[i],
           emitida' = emitida, debitos' = debitos,
           \A r \in Reservas : status'[r] = "PAGO" => status[r] = "PAGO" \/ debitos[r] = 1
    PROVE  CobrancaUnica'
<1>1. DireitoUnico'
  BY DEF CobrancaUnica, DireitoUnico
<1>2. DebitoReivindicado'
  BY DEF CobrancaUnica, DebitoReivindicado
<1>3. QED
  BY <1>1, <1>2 DEF CobrancaUnica

(* Laying the copy down claims nothing. *)
LEMMA LargarSolta ==
    ASSUME TypeOK, NEW i \in Instancias, Largar(i)
    PROVE  \A j \in Instancias, r \in Reservas :
               Detem(j, r)' => j # i /\ Detem(j, r) /\ passo'[j] = passo[j]
  BY DEF TypeOK, Largar, Detem, Direito, Respostas

(* The claim: it is won only while nobody holds it and nothing was charged. *)
LEMMA ReivindicarPreserva ==
    ASSUME CobrancaUnica, TypeOK', NEW i \in Instancias, NEW r \in Reservas,
           ReivindicarCobranca(i, r)
    PROVE  CobrancaUnica'
<1>1. CASE Reivindicavel(r)
  <2>1. /\ status[r] = "PROCESSANDO" /\ ~ emitida[r]
        /\ \A q \in Reservas : emitida'[q] = (q = r \/ emitida[q])
        /\ \A j \in Instancias : passo'[j] = IF j = i THEN "cobrando" ELSE passo[j]
        /\ atual' = atual /\ debitos' = debitos /\ status' = status
        /\ atual[i] # Nada /\ atual[i][1] = r
    BY <1>1 DEF ReivindicarCobranca, Reivindicavel, Ir, Em, CobrancaUnica, TypeOK
  <2>2. \A j \in Instancias, q \in Reservas : Detem(j, q)' =>
            \/ j = i /\ q = r
            \/ j # i /\ Detem(j, q) /\ q # r /\ passo'[j] = passo[j]
    BY <2>1 DEF Detem, CobrancaUnica, DireitoUnico
  <2>3. DireitoUnico'
    BY <2>1, <2>2 DEF CobrancaUnica, DireitoUnico
  <2>4. debitos[r] = 0 /\ \A q \in Reservas : ~ emitida'[q] => ~ emitida[q]
    BY <2>1 DEF CobrancaUnica, DebitoReivindicado
  <2>5. \A j \in Instancias, q \in Reservas :
            /\ Detem(j, q)' /\ passo'[j] \in {"cobrando", "liberar", "recusar"} => debitos'[q] = 0
            /\ Detem(j, q)' /\ passo'[j] = "aprovar" => debitos'[q] = 1
    BY <2>1, <2>2, <2>4 DEF CobrancaUnica, DebitoReivindicado
  <2>6. DebitoReivindicado'
    BY <2>1, <2>4, <2>5 DEF CobrancaUnica, DebitoReivindicado
  <2>7. QED
    BY <2>3, <2>6 DEF CobrancaUnica
<1>2. CASE ~ Reivindicavel(r)
  BY <1>2, LargarSolta, SemNovoDireito DEF ReivindicarCobranca, CobrancaUnica
<1>3. QED
  BY <1>1, <1>2

(* The charge itself: whoever is charging holds the only claim, so nothing *)
(* was charged before.                                                     *)
LEMMA CobrarPreserva ==
    ASSUME CobrancaUnica, TypeOK', NEW i \in Instancias, NEW r \in Reservas, Cobrar(i, r)
    PROVE  CobrancaUnica'
<1>1. PICK p \in {"aprovar", "recusar", "verificar", "liberar"} :
          passo' = [passo EXCEPT ![i] = p]
  BY DEF Cobrar, Ir
<1>2. /\ passo[i] = "cobrando" /\ atual[i] # Nada /\ atual[i][1] = r
      /\ \A j \in Instancias : passo'[j] = IF j = i THEN p ELSE passo[j]
      /\ atual' = atual /\ emitida' = emitida /\ status' = status
  BY <1>1 DEF Cobrar, Ir, Em, CobrancaUnica, TypeOK, tabela
<1>3. Detem(i, r) /\ emitida[r] /\ debitos[r] = 0 /\ status[r] # "PAGO"
  BY <1>2 DEF Detem, Direito, CobrancaUnica, DireitoUnico, DebitoReivindicado
<1>4. /\ \A q \in Reservas : q # r => debitos'[q] = debitos[q]
      /\ debitos'[r] \in {0, 1}
      /\ p = "aprovar" => debitos'[r] = 1
      /\ p \in {"recusar", "liberar"} => debitos'[r] = 0
  BY <1>1, <1>3 DEF Cobrar, Ir, CobrancaUnica, TypeOK
<1>5. \A j \in Instancias, q \in Reservas : Detem(j, q)' =>
          \/ j = i /\ q = r
          \/ j # i /\ Detem(j, q) /\ q # r /\ passo'[j] = passo[j]
  BY <1>2, <1>3 DEF Detem, CobrancaUnica, DireitoUnico
<1>6. DireitoUnico'
  BY <1>2, <1>3, <1>5 DEF CobrancaUnica, DireitoUnico
<1>7. DebitoReivindicado'
  <2>1. \A q \in Reservas : debitos'[q] \in {0, 1}
    BY <1>4 DEF CobrancaUnica, DebitoReivindicado
  <2>2. \A q \in Reservas : ~ emitida'[q] => debitos'[q] = 0
    BY <1>2, <1>3, <1>4 DEF CobrancaUnica, DebitoReivindicado
  <2>3. \A j \in Instancias, q \in Reservas :
            /\ Detem(j, q)' /\ passo'[j] \in {"cobrando", "liberar", "recusar"} => debitos'[q] = 0
            /\ Detem(j, q)' /\ passo'[j] = "aprovar" => debitos'[q] = 1
    BY <1>2, <1>4, <1>5 DEF CobrancaUnica, DebitoReivindicado
  <2>4. \A q \in Reservas : status'[q] = "PAGO" => debitos'[q] = 1
    BY <1>2, <1>3, <1>4 DEF CobrancaUnica, DebitoReivindicado
  <2>5. QED
    BY <2>1, <2>2, <2>3, <2>4 DEF DebitoReivindicado
<1>8. QED
  BY <1>6, <1>7 DEF CobrancaUnica

(* Giving the claim back: only of a charge that was not attempted.         *)
LEMMA LiberarPreserva ==
    ASSUME CobrancaUnica, TypeOK', NEW i \in Instancias, NEW r \in Reservas,
           LiberarCobranca(i, r)
    PROVE  CobrancaUnica'
<1>1. passo[i] = "liberar" /\ Detem(i, r) /\ debitos[r] = 0
  BY DEF LiberarCobranca, Em, Detem, Direito, CobrancaUnica, DebitoReivindicado
<1>2. /\ \A q \in Reservas : q # r => emitida'[q] = emitida[q]
      /\ debitos' = debitos /\ status' = status
  BY DEF LiberarCobranca, CobrancaUnica, TypeOK
<1>3. \A j \in Instancias, q \in Reservas : Detem(j, q)' =>
          Detem(j, q) /\ q # r /\ passo'[j] = passo[j]
  BY <1>1, LargarSolta DEF LiberarCobranca, CobrancaUnica, DireitoUnico
<1>4. DireitoUnico'
  BY <1>2, <1>3 DEF CobrancaUnica, DireitoUnico
<1>5. DebitoReivindicado'
  BY <1>1, <1>2, <1>3 DEF CobrancaUnica, DebitoReivindicado
<1>6. QED
  BY <1>4, <1>5 DEF CobrancaUnica

(* The outcome in hand is written: PAGO only after an approved charge.     *)
LEMMA FinalizarPreserva ==
    ASSUME CobrancaUnica, TypeOK', NEW i \in Instancias, NEW r \in Reservas, Finalizar(i, r)
    PROVE  CobrancaUnica'
<1>1. PICK p \in Respostas \cup {"cancelar"} :
          /\ Em(i, p, r)
          /\ status' = [status EXCEPT ![r] = EstadoFinal(p)]
          /\ \/ Largar(i)
             \/ passo' = [passo EXCEPT ![i] = "anunciar"] /\ \E c : atual' = [atual EXCEPT ![i] = c]
  BY DEF Finalizar
<1>2. \A j \in Instancias, q \in Reservas : Detem(j, q)' =>
          Detem(j, q) /\ passo'[j] = passo[j]
  BY <1>1, LargarSolta DEF Detem, Direito, Respostas, CobrancaUnica, TypeOK
<1>3. \A q \in Reservas : status'[q] = "PAGO" => status[q] = "PAGO" \/ debitos[q] = 1
  <2>1. EstadoFinal(p) = "PAGO" => p = "aprovar"
    BY EstadoFinalTipo DEF Respostas
  <2>2. p = "aprovar" => debitos[r] = 1
    BY <1>1 DEF Em, Detem, Direito, Respostas, CobrancaUnica, DebitoReivindicado
  <2>3. QED
    BY <1>1, <2>1, <2>2 DEF CobrancaUnica, TypeOK
<1>4. QED
  BY <1>2, <1>3, SemNovoDireito DEF Finalizar

(* At first nothing was claimed.                                           *)
LEMMA CobrancaInicial == Init => CobrancaUnica
<1> SUFFICES ASSUME Init PROVE CobrancaUnica
  OBVIOUS
<1>1. \A i \in Instancias, r \in Reservas : ~ Detem(i, r)
  BY DEF Init, Detem
<1>2. DireitoUnico /\ DebitoReivindicado
  BY <1>1 DEF Init, DireitoUnico, DebitoReivindicado
<1>3. QED
  BY <1>2, TipoInicial DEF CobrancaUnica

(* Each action keeps the charge single.                                    *)
LEMMA CobrancaPreservada == CobrancaUnica /\ [Next]_vars => CobrancaUnica'
<1> SUFFICES ASSUME CobrancaUnica, [Next]_vars PROVE CobrancaUnica'
  OBVIOUS
<1>1. TypeOK /\ TypeOK'
  BY TipoPreservado DEF CobrancaUnica
<1> USE DEF tabela, memoria
<1>2. ASSUME NEW r \in Reservas, RegistrarIntencao(r) PROVE CobrancaUnica'
  BY <1>2, <1>1, SemNovoDireito DEF RegistrarIntencao, Detem, TypeOK
<1>3. ASSUME NEW r \in Reservas, EscolherForma(r) PROVE CobrancaUnica'
  BY <1>3, <1>1, SemNovoDireito DEF EscolherForma, Detem, TypeOK
<1>4. ASSUME NEW r \in Reservas, RegistrarEscolha(r) PROVE CobrancaUnica'
  BY <1>4, <1>1, SemNovoDireito DEF RegistrarEscolha, Detem, TypeOK
<1>5. ASSUME NEW i \in Instancias, DesistirDasVencidas(i) PROVE CobrancaUnica'
  BY <1>5, <1>1, SemNovoDireito
  DEF DesistirDasVencidas, Percorrer, Detem, Direito, Respostas, TypeOK
<1>6. ASSUME NEW i \in Instancias, ListarEscolhidas(i) PROVE CobrancaUnica'
  BY <1>6, <1>1, SemNovoDireito
  DEF ListarEscolhidas, Percorrer, Detem, Direito, Respostas, TypeOK
<1>7. ASSUME NEW i \in Instancias, ListarAnuncios(i) PROVE CobrancaUnica'
  BY <1>7, <1>1, SemNovoDireito
  DEF ListarAnuncios, Percorrer, Detem, Direito, Respostas, TypeOK
<1>8. ASSUME NEW i \in Instancias, Avancar(i) PROVE CobrancaUnica'
  BY <1>8, <1>1, SemNovoDireito DEF Avancar, Detem, Direito, Respostas, TypeOK
<1>9. ASSUME NEW i \in Instancias, Tomar(i) PROVE CobrancaUnica'
  BY <1>9, <1>1, SemNovoDireito DEF Tomar, Detem, Direito, Respostas, TypeOK
<1>10. ASSUME NEW i \in Instancias, NEW r \in Reservas, ReivindicarCobranca(i, r)
       PROVE  CobrancaUnica'
  BY <1>10, <1>1, ReivindicarPreserva
<1>11. ASSUME NEW i \in Instancias, NEW r \in Reservas, Cobrar(i, r) PROVE CobrancaUnica'
  BY <1>11, <1>1, CobrarPreserva
<1>12. ASSUME NEW i \in Instancias, NEW r \in Reservas, LiberarCobranca(i, r)
       PROVE  CobrancaUnica'
  BY <1>12, <1>1, LiberarPreserva
<1>13. ASSUME NEW i \in Instancias, NEW r \in Reservas, Finalizar(i, r)
       PROVE  CobrancaUnica'
  BY <1>13, <1>1, FinalizarPreserva
<1>14. ASSUME NEW i \in Instancias, NEW r \in Reservas, ResolverConflito(i, r)
       PROVE  CobrancaUnica'
  BY <1>14, <1>1, SemNovoDireito, LargarSolta
  DEF ResolverConflito, Detem, Direito, Respostas, TypeOK
<1>15. ASSUME NEW i \in Instancias, NEW r \in Reservas, PublicarFato(i, r)
       PROVE  CobrancaUnica'
  BY <1>15, <1>1, SemNovoDireito DEF PublicarFato, Ir, Detem, Direito, Respostas, TypeOK
<1>16. ASSUME NEW i \in Instancias, NEW r \in Reservas, MarcarAnunciado(i, r)
       PROVE  CobrancaUnica'
  BY <1>16, <1>1, SemNovoDireito, LargarSolta DEF MarcarAnunciado
<1>17. ASSUME NEW i \in Instancias, FalharItem(i) PROVE CobrancaUnica'
  BY <1>17, <1>1, SemNovoDireito, LargarSolta DEF FalharItem
<1>18. ASSUME NEW i \in Instancias, Recomecar(i) PROVE CobrancaUnica'
  BY <1>18, <1>1, SemNovoDireito DEF Recomecar, Detem, Direito, Respostas, TypeOK
<1>19. ASSUME (\E i \in Instancias : FecharCanal(i)) \/ PassarTempo PROVE CobrancaUnica'
  BY <1>19, <1>1, SemNovoDireito DEF FecharCanal, PassarTempo, Detem
<1>20. CASE UNCHANGED vars
  BY <1>20, <1>1, SemNovoDireito DEF vars, Detem
<1>21. QED
  BY <1>2, <1>3, <1>4, <1>5, <1>6, <1>7, <1>8, <1>9, <1>10, <1>11, <1>12, <1>13, <1>14,
     <1>15, <1>16, <1>17, <1>18, <1>19, <1>20
  DEF Next, NextSemFalhas, Varrer, RecusarPublicacao, FalharConsulta, Queda

-----------------------------------------------------------------------------
(* A final state is final: every UPDATE asks for the state it leaves.      *)
LEMMA FinalNaoMuda ==
    ASSUME TypeOK, [Next]_vars, NEW r \in Reservas, status[r] \in Final
    PROVE  status'[r] = status[r]
<1> USE DEF TypeOK, Final, Anunciavel, tabela
<1>1. ASSUME NEW q \in Reservas, RegistrarIntencao(q) PROVE status'[r] = status[r]
  BY <1>1 DEF RegistrarIntencao
<1>2. ASSUME NEW q \in Reservas, RegistrarEscolha(q) PROVE status'[r] = status[r]
  BY <1>2 DEF RegistrarEscolha, EscolhaCabe
<1>3. ASSUME NEW i \in Instancias, DesistirDasVencidas(i) PROVE status'[r] = status[r]
  BY <1>3, LimiteDe DEF DesistirDasVencidas, EsperaVencida
<1>4. ASSUME NEW i \in Instancias, NEW q \in Reservas, Finalizar(i, q)
      PROVE  status'[r] = status[r]
  BY <1>4 DEF Finalizar, Finalizavel
<1>5. CASE UNCHANGED status
  BY <1>5
<1>6. QED
  BY <1>1, <1>2, <1>3, <1>4, <1>5
  DEF Next, NextSemFalhas, Varrer, vars, EscolherForma, ListarEscolhidas, ListarAnuncios,
      Avancar, Tomar, ReivindicarCobranca, Cobrar, LiberarCobranca, ResolverConflito,
      PublicarFato, MarcarAnunciado, RecusarPublicacao, FalharItem, FalharConsulta, Queda,
      Recomecar, FecharCanal, PassarTempo

(* A step that publishes nothing and marks nothing keeps the announcements *)
(* faithful, if the copies it leaves are.                                  *)
LEMMA SemNovoFato ==
    ASSUME AnuncioFiel, TypeOK', CopiaFiel',
           \A r \in Reservas : status[r] \in Final => status'[r] = status[r],
           fatos' = fatos, anunciado' = anunciado,
           \A i \in Instancias, r \in Reservas : Em(i, "marcar", r)' => Em(i, "marcar", r)
    PROVE  AnuncioFiel'
<1>1. MarcaDepois' /\ MarcadoFoiPublicado'
  BY DEF AnuncioFiel, MarcaDepois, MarcadoFoiPublicado, Publicado
<1>2. FatoDaLinha'
  BY DEF AnuncioFiel, FatoDaLinha, Final, TypeOK
<1>3. QED
  BY <1>1, <1>2 DEF AnuncioFiel

(* An instance takes nothing up and announces nothing new.                 *)
LEMMA CopiaMantida ==
    ASSUME TypeOK, CopiaFiel,
           \A r \in Reservas : status[r] \in Final => status'[r] = status[r],
           \A i \in Instancias : lista'[i] = {} \/ (lista'[i] = lista[i] /\ etapa'[i] = etapa[i]),
           \A i \in Instancias, r \in Reservas :
               Em(i, "anunciar", r)' => Em(i, "anunciar", r) /\ atual'[i] = atual[i]
    PROVE  CopiaFiel'
<1>1. \A i \in Instancias : \A c \in lista[i] : c[1] \in Reservas
  BY DEF TypeOK, Copias
<1>2. QED
  BY <1>1 DEF CopiaFiel, Final

(* Laying a copy down takes nothing else up.                               *)
LEMMA LargarNaoAnuncia ==
    ASSUME TypeOK, NEW i \in Instancias, Largar(i)
    PROVE  /\ \A j \in Instancias : lista'[j] = lista[j] /\ etapa'[j] = etapa[j]
           /\ \A j \in Instancias, r \in Reservas :
                 Em(j, "anunciar", r)' => Em(j, "anunciar", r) /\ atual'[j] = atual[j]
           /\ \A j \in Instancias, r \in Reservas :
                 Em(j, "marcar", r)' => Em(j, "marcar", r)
  BY DEF TypeOK, Largar, Em

(* The copies of a query: the list of the part they were read for.         *)
LEMMA PercorrerFiel ==
    ASSUME TypeOK, CopiaFiel, NEW i \in Instancias, NEW copias, Percorrer(i, copias),
           \A r \in Reservas : status[r] \in Final => status'[r] = status[r],
           etapa[i] # "cobrar" => \A c \in copias : c[2] \in Anunciavel /\ status'[c[1]] = c[2]
    PROVE  /\ CopiaFiel'
           /\ \A j \in Instancias, r \in Reservas : Em(j, "marcar", r)' => Em(j, "marcar", r)
<1>1. /\ etapa' = etapa /\ atual' = atual
      /\ \A j \in Instancias : lista'[j] = IF j = i THEN copias ELSE lista[j]
      /\ \A j \in Instancias : passo'[j] = IF j = i THEN "percorrer" ELSE passo[j]
  BY DEF Percorrer, TypeOK
<1>2. \A j \in Instancias : \A c \in lista[j] : c[1] \in Reservas
  BY DEF TypeOK, Copias
<1>3. QED
  BY <1>1, <1>2 DEF CopiaFiel, Em, Final

(* A copy is taken up to be announced or to be charged.                    *)
LEMMA TomarFiel ==
    ASSUME TypeOK, CopiaFiel, NEW i \in Instancias, Tomar(i)
    PROVE  /\ CopiaFiel'
           /\ \A j \in Instancias, r \in Reservas : Em(j, "marcar", r)' => Em(j, "marcar", r)
<1>1. PICK c \in lista[i] :
          /\ atual' = [atual EXCEPT ![i] = c]
          /\ lista' = [lista EXCEPT ![i] = @ \ {c}]
          /\ passo' = [passo EXCEPT ![i] =
                          IF etapa[i] # "cobrar" THEN "anunciar"
                          ELSE IF Expirada(c[1]) THEN "cancelar" ELSE "reivindicar"]
  BY DEF Tomar
<1>2. etapa' = etapa /\ status' = status
  BY DEF Tomar, tabela
<1>3. /\ \A j \in Instancias : atual'[j] = IF j = i THEN c ELSE atual[j]
      /\ \A j \in Instancias : lista'[j] = IF j = i THEN lista[j] \ {c} ELSE lista[j]
      /\ \A j \in Instancias : j # i => passo'[j] = passo[j]
      /\ passo'[i] # "marcar"
      /\ passo'[i] = "anunciar" => etapa[i] # "cobrar"
  BY <1>1 DEF TypeOK
<1>4. passo'[i] = "anunciar" => c[2] \in Anunciavel /\ status[c[1]] = c[2]
  BY <1>3 DEF CopiaFiel
<1>5. \A j \in Instancias : etapa'[j] # "cobrar" =>
          \A d \in lista'[j] : d[2] \in Anunciavel /\ status'[d[1]] = d[2]
  BY <1>2, <1>3 DEF CopiaFiel
<1>6. \A j \in Instancias, r \in Reservas :
          Em(j, "anunciar", r)' => atual'[j][2] \in Anunciavel /\ status'[r] = atual'[j][2]
  BY <1>2, <1>3, <1>4 DEF CopiaFiel, Em
<1>7. QED
  BY <1>3, <1>5, <1>6 DEF CopiaFiel, Em

(* An instance takes up the outcome of r, which the table has.             *)
LEMMA AnunciarFiel ==
    ASSUME TypeOK, CopiaFiel, NEW i \in Instancias, NEW r \in Reservas,
           passo' = [passo EXCEPT ![i] = "anunciar"],
           atual' = [atual EXCEPT ![i] = <<r, status'[r]>>],
           UNCHANGED <<etapa, lista>>,
           \A q \in Reservas : status[q] \in Final => status'[q] = status[q],
           status'[r] \in Anunciavel
    PROVE  /\ CopiaFiel'
           /\ \A j \in Instancias, q \in Reservas : Em(j, "marcar", q)' => Em(j, "marcar", q)
<1>1. /\ \A j \in Instancias : atual'[j] = IF j = i THEN <<r, status'[r]>> ELSE atual[j]
      /\ \A j \in Instancias : passo'[j] = IF j = i THEN "anunciar" ELSE passo[j]
  BY DEF TypeOK
<1>2. \A j \in Instancias : \A c \in lista[j] : c[1] \in Reservas
  BY DEF TypeOK, Copias
<1>3. QED
  BY <1>1, <1>2 DEF CopiaFiel, Em, Final

(* The instance that ended a transaction announces what it wrote.          *)
LEMMA FinalizarFiel ==
    ASSUME TypeOK, CopiaFiel, NEW i \in Instancias, NEW r \in Reservas, Finalizar(i, r),
           \A q \in Reservas : status[q] \in Final => status'[q] = status[q]
    PROVE  /\ CopiaFiel'
           /\ \A j \in Instancias, q \in Reservas : Em(j, "marcar", q)' => Em(j, "marcar", q)
<1>1. PICK p \in Respostas \cup {"cancelar"} :
          /\ status' = [status EXCEPT ![r] = EstadoFinal(p)]
          /\ IF EstadoFinal(p) \in Anunciavel
             THEN /\ passo' = [passo EXCEPT ![i] = "anunciar"]
                  /\ atual' = [atual EXCEPT ![i] = <<r, EstadoFinal(p)>>]
                  /\ UNCHANGED <<etapa, lista>>
             ELSE Largar(i)
  BY DEF Finalizar
<1>2. status'[r] = EstadoFinal(p)
  BY <1>1 DEF TypeOK
<1>3. CASE EstadoFinal(p) \in Anunciavel
  BY <1>1, <1>2, <1>3, AnunciarFiel
<1>4. CASE EstadoFinal(p) \notin Anunciavel
  BY <1>1, <1>4, LargarNaoAnuncia, CopiaMantida
<1>5. QED
  BY <1>3, <1>4

(* The instance that came second announces what the first one wrote.       *)
LEMMA ResolverFiel ==
    ASSUME TypeOK, CopiaFiel, NEW i \in Instancias, NEW r \in Reservas, ResolverConflito(i, r)
    PROVE  /\ CopiaFiel'
           /\ \A j \in Instancias, q \in Reservas : Em(j, "marcar", q)' => Em(j, "marcar", q)
<1>1. status' = status
  BY DEF ResolverConflito, tabela
<1>2. CASE passo[i] # "verificar" /\ AnuncioPendente(r)
  BY <1>1, <1>2, AnunciarFiel DEF ResolverConflito, AnuncioPendente
<1>3. CASE ~ (passo[i] # "verificar" /\ AnuncioPendente(r))
  <2>1. Largar(i)
    BY <1>3 DEF ResolverConflito
  <2>2. QED
    BY <1>1, <2>1, LargarNaoAnuncia, CopiaMantida
<1>4. QED
  BY <1>2, <1>3

(* What reaches the broker is the outcome of the row.                      *)
LEMMA PublicarFiel ==
    ASSUME AnuncioFiel, TypeOK', NEW i \in Instancias, NEW r \in Reservas, PublicarFato(i, r)
    PROVE  AnuncioFiel'
<1>1. /\ Em(i, "anunciar", r)
      /\ fatos' = fatos \cup {<<r, Rota(atual[i][2])>>}
      /\ status' = status /\ anunciado' = anunciado /\ atual' = atual
      /\ lista' = lista /\ etapa' = etapa
      /\ \A j \in Instancias : passo'[j] = IF j = i THEN "marcar" ELSE passo[j]
  BY DEF PublicarFato, Ir, tabela, AnuncioFiel, TypeOK
<1>2. atual[i][2] \in Anunciavel /\ status[r] = atual[i][2]
  BY <1>1 DEF AnuncioFiel, CopiaFiel
<1>3. CopiaFiel'
  BY <1>1 DEF AnuncioFiel, CopiaFiel, Em
<1>4. MarcaDepois' /\ MarcadoFoiPublicado'
  <2>1. Publicado(r)' /\ \A q \in Reservas : Publicado(q) => Publicado(q)'
    <3>1. \E f \in fatos' : f[1] = r
      <4>1. <<r, Rota(atual[i][2])>> \in fatos'
        BY <1>1
      <4>2. <<r, Rota(atual[i][2])>>[1] = r
        OBVIOUS
      <4>3. QED
        BY <4>1, <4>2
    <3>2. QED
      BY <1>1, <3>1 DEF Publicado
  <2>2. \A j \in Instancias, q \in Reservas :
            Em(j, "marcar", q)' => Em(j, "marcar", q) \/ q = r
    BY <1>1 DEF Em
  <2>3. MarcaDepois'
    BY <2>1, <2>2 DEF AnuncioFiel, MarcaDepois
  <2>4. MarcadoFoiPublicado'
    BY <1>1, <2>1 DEF AnuncioFiel, MarcadoFoiPublicado, Publicado
  <2>5. QED
    BY <2>3, <2>4
<1>5. FatoDaLinha'
  BY <1>1, <1>2 DEF AnuncioFiel, FatoDaLinha, Rota, Anunciavel
<1>6. QED
  BY <1>3, <1>4, <1>5 DEF AnuncioFiel

(* resultado_anunciado is written after the broker confirmed.              *)
LEMMA MarcarFiel ==
    ASSUME AnuncioFiel, TypeOK', NEW i \in Instancias, NEW r \in Reservas, MarcarAnunciado(i, r)
    PROVE  AnuncioFiel'
<1>1. /\ Em(i, "marcar", r) /\ Largar(i)
      /\ status' = status /\ fatos' = fatos
      /\ \A q \in Reservas : anunciado'[q] => anunciado[q] \/ q = r
  BY DEF MarcarAnunciado, AnuncioFiel, TypeOK
<1>2. Publicado(r)
  BY <1>1 DEF AnuncioFiel, MarcaDepois
<1>3. CopiaFiel'
  BY <1>1, LargarNaoAnuncia, CopiaMantida DEF AnuncioFiel
<1>4. MarcaDepois'
  BY <1>1, LargarNaoAnuncia DEF AnuncioFiel, MarcaDepois, Publicado
<1>5. MarcadoFoiPublicado' /\ FatoDaLinha'
  BY <1>1, <1>2 DEF AnuncioFiel, MarcadoFoiPublicado, FatoDaLinha, Publicado
<1>6. QED
  BY <1>3, <1>4, <1>5 DEF AnuncioFiel

(* At first nothing was announced.                                         *)
LEMMA AnuncioInicial == Init => AnuncioFiel
  BY TipoInicial
  DEF Init, AnuncioFiel, CopiaFiel, MarcaDepois, FatoDaLinha, MarcadoFoiPublicado, Em

(* Each action keeps the announcements faithful.                           *)
LEMMA AnuncioPreservado == AnuncioFiel /\ [Next]_vars => AnuncioFiel'
<1> SUFFICES ASSUME AnuncioFiel, [Next]_vars PROVE AnuncioFiel'
  OBVIOUS
<1>1. TypeOK /\ TypeOK' /\ CopiaFiel
  BY TipoPreservado DEF AnuncioFiel
<1>2. \A r \in Reservas : status[r] \in Final => status'[r] = status[r]
  BY <1>1, FinalNaoMuda
<1>3. ASSUME UNCHANGED <<memoria, fatos, anunciado>> PROVE AnuncioFiel'
  <2>1. CopiaFiel'
    BY <1>1, <1>2, <1>3, CopiaMantida DEF memoria, Em
  <2>2. QED
    BY <1>1, <1>2, <1>3, <2>1, SemNovoFato DEF memoria, Em
<1>4. ASSUME NEW i \in Instancias, NEW copias, Percorrer(i, copias), UNCHANGED <<fatos, anunciado>>,
             etapa[i] # "cobrar" =>
                 \A c \in copias : c[2] \in Anunciavel /\ status'[c[1]] = c[2]
      PROVE  AnuncioFiel'
  BY <1>1, <1>2, <1>4, PercorrerFiel, SemNovoFato
<1>5. ASSUME NEW i \in Instancias, Largar(i), UNCHANGED <<fatos, anunciado>>
      PROVE  AnuncioFiel'
  <2>1. CopiaFiel'
    BY <1>1, <1>2, <1>5, LargarNaoAnuncia, CopiaMantida
  <2>2. QED
    BY <1>1, <1>2, <1>5, <2>1, LargarNaoAnuncia, SemNovoFato
<1>6. ASSUME NEW i \in Instancias, NEW p \in Passos \ {"anunciar", "marcar"}, Ir(i, p),
             UNCHANGED <<fatos, anunciado>>
      PROVE  AnuncioFiel'
  <2>1. /\ \A j \in Instancias : passo'[j] = IF j = i THEN p ELSE passo[j]
        /\ etapa' = etapa /\ lista' = lista /\ atual' = atual
    BY <1>1, <1>6 DEF Ir, TypeOK
  <2>2. CopiaFiel'
    BY <1>1, <1>2, <2>1, CopiaMantida DEF Em
  <2>3. QED
    BY <1>1, <1>2, <1>6, <2>1, <2>2, SemNovoFato DEF Em
<1> USE DEF tabela, memoria
<1>7. ASSUME NEW r \in Reservas, RegistrarIntencao(r) PROVE AnuncioFiel'
  BY <1>7, <1>3 DEF RegistrarIntencao
<1>8. ASSUME NEW r \in Reservas, EscolherForma(r) PROVE AnuncioFiel'
  BY <1>8, <1>3 DEF EscolherForma
<1>9. ASSUME NEW r \in Reservas, RegistrarEscolha(r) PROVE AnuncioFiel'
  BY <1>9, <1>3 DEF RegistrarEscolha
<1>10. ASSUME NEW i \in Instancias, DesistirDasVencidas(i) PROVE AnuncioFiel'
  <2>1. PICK E \in ComLimite({r \in Reservas : EsperaVencida(r)}) :
            /\ status' = [r \in Reservas |-> IF r \in E THEN "CANCELADO" ELSE status[r]]
            /\ Percorrer(i, E \X {"CANCELADO"})
    BY <1>10 DEF DesistirDasVencidas
  <2>2. \A c \in E \X {"CANCELADO"} : c[2] \in Anunciavel /\ status'[c[1]] = c[2]
    BY <2>1, LimiteDe DEF Anunciavel
  <2>3. QED
    BY <1>10, <1>4, <2>1, <2>2 DEF DesistirDasVencidas
<1>11. ASSUME NEW i \in Instancias, ListarEscolhidas(i) PROVE AnuncioFiel'
  BY <1>11, <1>4 DEF ListarEscolhidas, Consultando
<1>12. ASSUME NEW i \in Instancias, ListarAnuncios(i) PROVE AnuncioFiel'
  <2>1. PICK E \in ComLimite({r \in Reservas : AnuncioPendente(r)}) :
            Percorrer(i, {<<r, status[r]>> : r \in E})
    BY <1>12 DEF ListarAnuncios
  <2>2. \A c \in {<<r, status[r]>> : r \in E} : c[2] \in Anunciavel /\ status'[c[1]] = c[2]
    BY <1>12, <2>1, LimiteDe DEF ListarAnuncios, AnuncioPendente
  <2>3. QED
    BY <1>12, <1>4, <2>1, <2>2 DEF ListarAnuncios
<1>13. ASSUME NEW i \in Instancias, Avancar(i) PROVE AnuncioFiel'
  <2>1. /\ \A j \in Instancias : lista'[j] = {} \/ (lista'[j] = lista[j] /\ etapa'[j] = etapa[j])
        /\ \A j \in Instancias, r \in Reservas :
              /\ Em(j, "anunciar", r)' => Em(j, "anunciar", r) /\ atual'[j] = atual[j]
              /\ Em(j, "marcar", r)' => Em(j, "marcar", r)
    BY <1>13, <1>1 DEF Avancar, Em, TypeOK
  <2>2. QED
    BY <1>13, <1>1, <1>2, <2>1, CopiaMantida, SemNovoFato DEF Avancar
<1>14. ASSUME NEW i \in Instancias, Tomar(i) PROVE AnuncioFiel'
  BY <1>14, <1>1, <1>2, TomarFiel, SemNovoFato DEF Tomar
<1>15. ASSUME NEW i \in Instancias, NEW r \in Reservas, ReivindicarCobranca(i, r)
       PROVE  AnuncioFiel'
  BY <1>15, <1>5, <1>6 DEF ReivindicarCobranca, Passos, Respostas
<1>16. ASSUME NEW i \in Instancias, NEW r \in Reservas, Cobrar(i, r) PROVE AnuncioFiel'
  BY <1>16, <1>6 DEF Cobrar, Passos, Respostas
<1>17. ASSUME NEW i \in Instancias, NEW r \in Reservas, LiberarCobranca(i, r)
       PROVE  AnuncioFiel'
  BY <1>17, <1>5 DEF LiberarCobranca
<1>18. ASSUME NEW i \in Instancias, NEW r \in Reservas, Finalizar(i, r) PROVE AnuncioFiel'
  BY <1>18, <1>1, <1>2, FinalizarFiel, SemNovoFato DEF Finalizar
<1>19. ASSUME NEW i \in Instancias, NEW r \in Reservas, ResolverConflito(i, r)
       PROVE  AnuncioFiel'
  BY <1>19, <1>1, <1>2, ResolverFiel, SemNovoFato DEF ResolverConflito
<1>20. ASSUME NEW i \in Instancias, NEW r \in Reservas, PublicarFato(i, r)
       PROVE  AnuncioFiel'
  BY <1>20, <1>1, PublicarFiel
<1>21. ASSUME NEW i \in Instancias, NEW r \in Reservas, MarcarAnunciado(i, r)
       PROVE  AnuncioFiel'
  BY <1>21, <1>1, MarcarFiel
<1>22. ASSUME NEW i \in Instancias, FalharItem(i) PROVE AnuncioFiel'
  BY <1>22, <1>5 DEF FalharItem
<1>23. ASSUME NEW i \in Instancias, Recomecar(i) PROVE AnuncioFiel'
  <2>1. /\ \A j \in Instancias : lista'[j] = {} \/ (lista'[j] = lista[j] /\ etapa'[j] = etapa[j])
        /\ \A j \in Instancias, r \in Reservas :
              /\ Em(j, "anunciar", r)' => Em(j, "anunciar", r) /\ atual'[j] = atual[j]
              /\ Em(j, "marcar", r)' => Em(j, "marcar", r)
    BY <1>23, <1>1 DEF Recomecar, Em, TypeOK
  <2>2. QED
    BY <1>23, <1>1, <1>2, <2>1, CopiaMantida, SemNovoFato DEF Recomecar
<1>24. ASSUME (\E i \in Instancias : FecharCanal(i)) \/ PassarTempo PROVE AnuncioFiel'
  BY <1>24, <1>3 DEF FecharCanal, PassarTempo
<1>25. CASE UNCHANGED vars
  BY <1>25, <1>3 DEF vars
<1>26. QED
  BY <1>7, <1>8, <1>9, <1>10, <1>11, <1>12, <1>13, <1>14, <1>15, <1>16, <1>17, <1>18,
     <1>19, <1>20, <1>21, <1>22, <1>23, <1>24, <1>25
  DEF Next, NextSemFalhas, Varrer, RecusarPublicacao, FalharConsulta, Queda

-----------------------------------------------------------------------------
(* The state of the program is always of its types.                        *)
THEOREM TipoSempre == Spec => []TypeOK
<1>1. QED
  BY TipoInicial, TipoPreservado, PTL DEF Spec

(* The charge is always single.                                            *)
LEMMA CobrancaSempre == Spec => []CobrancaUnica
<1>1. QED
  BY CobrancaInicial, CobrancaPreservada, PTL DEF Spec

(* The announcements are always faithful.                                  *)
LEMMA AnuncioSempre == Spec => []AnuncioFiel
<1>1. QED
  BY AnuncioInicial, AnuncioPreservado, PTL DEF Spec

(* No reservation is charged twice, however many instances sweep, fall and *)
(* retry: the claim stored by ReivindicarCobranca is exclusive and is given *)
(* back only when the acquirer was not reached.                            *)
THEOREM CobradaUmaVez == Spec => []UmDebito
<1>1. CobrancaUnica => UmDebito
  BY DEF CobrancaUnica, DebitoReivindicado, UmDebito
<1>2. QED
  BY <1>1, CobrancaSempre, PTL

(* Every announcement says what the row says, and a success was paid.      *)
THEOREM AnuncioCorreto == Spec => []FatoFiel
<1>1. CobrancaUnica /\ AnuncioFiel => FatoFiel
  BY DEF CobrancaUnica, DebitoReivindicado, AnuncioFiel, FatoDaLinha, FatoFiel
<1>2. QED
  BY <1>1, CobrancaSempre, AnuncioSempre, PTL

(* No outcome is marked as announced before the broker has it.             *)
THEOREM MarcaSegueBroker == Spec => []MarcadoFoiPublicado
<1>1. AnuncioFiel => MarcadoFoiPublicado
  BY DEF AnuncioFiel
<1>2. QED
  BY <1>1, AnuncioSempre, PTL

(* A final state is final, whatever copies the instances work on.          *)
THEOREM FinalParaSempre == Spec => FinalImutavel
<1>1. TypeOK /\ [Next]_vars =>
          [\A r \in Reservas : status[r] \in Final => status'[r] = status[r]]_vars
  BY FinalNaoMuda
<1>2. QED
  BY <1>1, TipoSempre, PTL DEF Spec, FinalImutavel

-----------------------------------------------------------------------------
(* A claim is held on a row that is being charged, or that another         *)
(* instance cancelled on an old copy.                                      *)
DireitoNaFila ==
    \A i \in Instancias, r \in Reservas :
        Detem(i, r) => status[r] \in {"PROCESSANDO", "CANCELADO"}

(* The inductive invariant behind the promise. *)
PromessaFiel == CobrancaUnica /\ AnuncioFiel /\ DireitoNaFila

(* At first nothing is claimed. *)
LEMMA PromessaInicial == Init => PromessaFiel
  BY CobrancaInicial, AnuncioInicial DEF Init, PromessaFiel, DireitoNaFila, Detem

(* A step that claims nothing leaves the claims where they were, if it     *)
(* ends no claimed row.                                                    *)
LEMMA FilaMantida ==
    ASSUME DireitoNaFila,
           \A i \in Instancias, r \in Reservas : Detem(i, r)' =>
               /\ Detem(i, r)
               /\ \/ status'[r] = status[r]
                  \/ status'[r] = "CANCELADO"
    PROVE  DireitoNaFila'
  BY DEF DireitoNaFila

(* Each action keeps the claims on rows that are being charged.            *)
LEMMA PromessaPreservada == PromessaFiel /\ [Next]_vars => PromessaFiel'
<1> SUFFICES ASSUME PromessaFiel, [Next]_vars PROVE PromessaFiel'
  OBVIOUS
<1>1. CobrancaUnica' /\ AnuncioFiel'
  BY CobrancaPreservada, AnuncioPreservado DEF PromessaFiel
<1>2. TypeOK /\ DireitoUnico /\ DireitoNaFila
  BY DEF PromessaFiel, CobrancaUnica
<1> USE DEF tabela, memoria
<1>3. ASSUME UNCHANGED <<status, memoria>> PROVE DireitoNaFila'
  BY <1>2, <1>3, FilaMantida DEF Detem
<1>4. ASSUME NEW i \in Instancias, Largar(i), UNCHANGED status PROVE DireitoNaFila'
  BY <1>2, <1>4, LargarSolta, FilaMantida
<1>5. ASSUME NEW r \in Reservas, RegistrarIntencao(r) PROVE DireitoNaFila'
  BY <1>5, <1>2, FilaMantida DEF RegistrarIntencao, DireitoNaFila, Detem, TypeOK
<1>6. ASSUME NEW r \in Reservas, EscolherForma(r) PROVE DireitoNaFila'
  BY <1>6, <1>3 DEF EscolherForma
<1>7. ASSUME NEW r \in Reservas, RegistrarEscolha(r) PROVE DireitoNaFila'
  BY <1>7, <1>2, FilaMantida DEF RegistrarEscolha, EscolhaCabe, DireitoNaFila, Detem, TypeOK
<1>8. ASSUME NEW i \in Instancias, DesistirDasVencidas(i) PROVE DireitoNaFila'
  <2>1. PICK E \in ComLimite({r \in Reservas : EsperaVencida(r)}) :
            /\ status' = [r \in Reservas |-> IF r \in E THEN "CANCELADO" ELSE status[r]]
            /\ Percorrer(i, E \X {"CANCELADO"})
    BY <1>8 DEF DesistirDasVencidas
  <2>2. \A j \in Instancias, r \in Reservas : Detem(j, r)' => Detem(j, r)
    BY <2>1, <1>2 DEF Percorrer, Detem, Direito, Respostas, TypeOK
  <2>3. QED
    BY <1>2, <2>1, <2>2, FilaMantida
<1>9. ASSUME NEW i \in Instancias, ListarEscolhidas(i) PROVE DireitoNaFila'
  BY <1>9, <1>2, FilaMantida
  DEF ListarEscolhidas, Percorrer, Detem, Direito, Respostas, TypeOK
<1>10. ASSUME NEW i \in Instancias, ListarAnuncios(i) PROVE DireitoNaFila'
  BY <1>10, <1>2, FilaMantida
  DEF ListarAnuncios, Percorrer, Detem, Direito, Respostas, TypeOK
<1>11. ASSUME NEW i \in Instancias, Avancar(i) PROVE DireitoNaFila'
  BY <1>11, <1>2, FilaMantida DEF Avancar, Detem, Direito, Respostas, TypeOK
<1>12. ASSUME NEW i \in Instancias, Tomar(i) PROVE DireitoNaFila'
  BY <1>12, <1>2, FilaMantida DEF Tomar, Detem, Direito, Respostas, TypeOK
<1>13. ASSUME NEW i \in Instancias, NEW r \in Reservas, ReivindicarCobranca(i, r)
       PROVE  DireitoNaFila'
  <2>1. CASE ~ Reivindicavel(r)
    BY <1>13, <1>4, <2>1 DEF ReivindicarCobranca
  <2>2. CASE Reivindicavel(r)
    BY <1>13, <1>2, <2>2
    DEF ReivindicarCobranca, Reivindicavel, Ir, Em, DireitoNaFila, Detem, TypeOK
  <2>3. QED
    BY <2>1, <2>2
<1>14. ASSUME NEW i \in Instancias, NEW r \in Reservas, Cobrar(i, r) PROVE DireitoNaFila'
  BY <1>14, <1>2, FilaMantida DEF Cobrar, Ir, Em, Detem, Direito, TypeOK
<1>15. ASSUME NEW i \in Instancias, NEW r \in Reservas, LiberarCobranca(i, r)
       PROVE  DireitoNaFila'
  BY <1>15, <1>4 DEF LiberarCobranca
<1>16. ASSUME NEW i \in Instancias, NEW r \in Reservas, Finalizar(i, r) PROVE DireitoNaFila'
  <2>1. PICK p \in Respostas \cup {"cancelar"} :
            /\ Em(i, p, r)
            /\ status' = [status EXCEPT ![r] = EstadoFinal(p)]
            /\ \/ Largar(i)
               \/ passo' = [passo EXCEPT ![i] = "anunciar"] /\ \E c : atual' = [atual EXCEPT ![i] = c]
    BY <1>16 DEF Finalizar
  <2>2. \A j \in Instancias, q \in Reservas : Detem(j, q)' => Detem(j, q) /\ j # i
    BY <2>1, <1>2, LargarSolta DEF Detem, Direito, Respostas, TypeOK
  <2>3. p \in Respostas => Detem(i, r)
    BY <2>1 DEF Em, Detem, Direito
  <2>4. /\ \A q \in Reservas : q # r => status'[q] = status[q]
        /\ p \notin Respostas => status'[r] = "CANCELADO"
    BY <2>1, <1>2, EstadoFinalTipo DEF TypeOK
  <2>5. QED
    BY <1>2, <2>2, <2>3, <2>4, FilaMantida DEF DireitoUnico
<1>17. ASSUME NEW i \in Instancias, NEW r \in Reservas, ResolverConflito(i, r)
       PROVE  DireitoNaFila'
  BY <1>17, <1>2, LargarSolta, FilaMantida
  DEF ResolverConflito, Detem, Direito, Respostas, TypeOK
<1>18. ASSUME NEW i \in Instancias, NEW r \in Reservas, PublicarFato(i, r)
       PROVE  DireitoNaFila'
  BY <1>18, <1>2, FilaMantida DEF PublicarFato, Ir, Detem, Direito, Respostas, TypeOK
<1>19. ASSUME NEW i \in Instancias, NEW r \in Reservas, MarcarAnunciado(i, r)
       PROVE  DireitoNaFila'
  BY <1>19, <1>4 DEF MarcarAnunciado
<1>20. ASSUME NEW i \in Instancias, FalharItem(i) PROVE DireitoNaFila'
  BY <1>20, <1>4 DEF FalharItem
<1>21. ASSUME NEW i \in Instancias, Recomecar(i) PROVE DireitoNaFila'
  BY <1>21, <1>2, FilaMantida DEF Recomecar, Detem, Direito, Respostas, TypeOK
<1>22. ASSUME (\E i \in Instancias : FecharCanal(i)) \/ PassarTempo PROVE DireitoNaFila'
  BY <1>22, <1>3 DEF FecharCanal, PassarTempo
<1>23. ASSUME UNCHANGED vars PROVE DireitoNaFila'
  BY <1>23, <1>3 DEF vars
<1>24. DireitoNaFila'
  BY <1>5, <1>6, <1>7, <1>8, <1>9, <1>10, <1>11, <1>12, <1>13, <1>14, <1>15, <1>16,
     <1>17, <1>18, <1>19, <1>20, <1>21, <1>22, <1>23
  DEF Next, NextSemFalhas, Varrer, RecusarPublicacao, FalharConsulta, Queda
<1>25. QED
  BY <1>1, <1>24 DEF PromessaFiel

(* What Cobranca sees of the state. *)
Situacao == [r \in Reservas |->
    IF status[r] \in {"AGUARDANDO_FORMA", "PROCESSANDO"} THEN "ABERTA" ELSE status[r]]
Debitadas == {r \in Reservas : debitos[r] > 0}

(* It starts where Cobranca starts. *)
LEMMA PromessaComeca == Init => Promessa!Init
  BY DEF Init, Promessa!Init

(* The acquirer charges whoever is being charged, for the first time, or   *)
(* charges nobody.                                                         *)
LEMMA CobrarDebita ==
    ASSUME PromessaFiel, NEW i \in Instancias, NEW r \in Reservas, Cobrar(i, r)
    PROVE  Promessa!Debitar(r) \/ UNCHANGED Promessa!vars
<1>1. Detem(i, r) /\ debitos[r] = 0 /\ status[r] \in {"PROCESSANDO", "CANCELADO"}
  BY DEF Cobrar, Em, Detem, Direito, PromessaFiel, DireitoNaFila, CobrancaUnica, DebitoReivindicado
<1>2. UNCHANGED <<Situacao, fatos>>
  BY DEF Cobrar, tabela, Situacao
<1>3. CASE debitos' = debitos
  BY <1>2, <1>3 DEF Promessa!vars, Situacao
<1>4. CASE debitos' = [debitos EXCEPT ![r] = @ + 1]
  <2>1. r \notin Debitadas /\ Debitadas' = Debitadas \cup {r}
    BY <1>1, <1>4 DEF Debitadas, PromessaFiel, CobrancaUnica, TypeOK
  <2>2. Situacao[r] \in {"ABERTA", "CANCELADO"}
    BY <1>1 DEF Situacao
  <2>3. QED
    BY <1>2, <2>1, <2>2 DEF Promessa!Debitar, Situacao, Debitadas
<1>5. QED
  BY <1>3, <1>4 DEF Cobrar

(* A transaction ends with an outcome its charge allows.                   *)
LEMMA FinalizarEncerra ==
    ASSUME PromessaFiel, NEW i \in Instancias, NEW r \in Reservas, Finalizar(i, r)
    PROVE  Promessa!Encerrar(r)
<1>1. PICK p \in Respostas \cup {"cancelar"} :
          Em(i, p, r) /\ status' = [status EXCEPT ![r] = EstadoFinal(p)]
  BY DEF Finalizar
<1>2. status[r] = "PROCESSANDO" /\ UNCHANGED <<debitos, fatos>>
  BY DEF Finalizar, Finalizavel
<1>3. /\ p = "aprovar" => debitos[r] = 1
      /\ p = "recusar" => debitos[r] = 0
  BY <1>1 DEF Em, Detem, Direito, Respostas, PromessaFiel, CobrancaUnica, DebitoReivindicado
<1>4. EstadoFinal(p) \in Promessa!Desfechos(r)
  BY <1>3, EstadoFinalTipo DEF Respostas, Promessa!Desfechos
<1>5. Situacao[r] = "ABERTA" /\ Situacao' = [Situacao EXCEPT ![r] = EstadoFinal(p)]
  BY <1>1, <1>2, EstadoFinalTipo DEF Situacao, Respostas, PromessaFiel, CobrancaUnica, TypeOK
<1>6. QED
  BY <1>2, <1>4, <1>5 DEF Promessa!Encerrar, Situacao

(* The waits given up on end together. *)
LEMMA DesistirCumpre ==
    ASSUME TypeOK, NEW i \in Instancias, DesistirDasVencidas(i)
    PROVE  \E R \in SUBSET Reservas : Promessa!Desistir(R)
<1>1. PICK E \in ComLimite({r \in Reservas : EsperaVencida(r)}) :
          status' = [r \in Reservas |-> IF r \in E THEN "CANCELADO" ELSE status[r]]
  BY DEF DesistirDasVencidas
<1>2. E \in SUBSET Reservas /\ \A r \in E : status[r] = "AGUARDANDO_FORMA"
  BY LimiteDe DEF EsperaVencida
<1>3. /\ \A r \in E : Situacao[r] = "ABERTA"
      /\ Situacao' = [r \in Reservas |-> IF r \in E THEN "CANCELADO" ELSE Situacao[r]]
  BY <1>1, <1>2 DEF Situacao
<1>4. Promessa!Desistir(E)
  BY <1>3 DEF Promessa!Desistir, Situacao, DesistirDasVencidas
<1>5. QED
  BY <1>2, <1>4

(* What is published is how the transaction ended.                         *)
LEMMA PublicarAnuncia ==
    ASSUME PromessaFiel, NEW i \in Instancias, NEW r \in Reservas, PublicarFato(i, r)
    PROVE  Promessa!Anunciar(r)
<1>1. atual[i][2] \in Anunciavel /\ status[r] = atual[i][2]
  BY DEF PublicarFato, PromessaFiel, AnuncioFiel, CopiaFiel
<1>2. /\ fatos' = fatos \cup {<<r, Rota(status[r])>>}
      /\ UNCHANGED <<status, debitos>>
  BY <1>1 DEF PublicarFato, tabela
<1>3. Situacao[r] = status[r] /\ status[r] \in Promessa!Anunciaveis
  BY <1>1 DEF Situacao, Anunciavel, Promessa!Anunciaveis
<1>4. QED
  BY <1>2, <1>3 DEF Promessa!Anunciar, Promessa!Rota, Rota, Situacao

(* Every step of the service is a step of the promise, or nothing to it.   *)
LEMMA PassoCumpre == PromessaFiel /\ [Next]_vars => [Promessa!Next]_Promessa!vars
<1> SUFFICES ASSUME PromessaFiel, [Next]_vars PROVE Promessa!Next \/ UNCHANGED Promessa!vars
  OBVIOUS
<1>1. TypeOK
  BY DEF PromessaFiel, CobrancaUnica
<1>2. ASSUME UNCHANGED <<status, debitos, fatos>> PROVE UNCHANGED Promessa!vars
  BY <1>2 DEF Promessa!vars
<1> USE DEF tabela
<1>3. ASSUME NEW r \in Reservas, RegistrarIntencao(r) PROVE Promessa!Abrir(r)
  <2>1. Situacao[r] = "INEXISTENTE" /\ Situacao' = [Situacao EXCEPT ![r] = "ABERTA"]
    BY <1>1, <1>3 DEF RegistrarIntencao, Situacao, TypeOK
  <2>2. QED
    BY <1>3, <2>1 DEF RegistrarIntencao, Promessa!Abrir, Situacao
<1>4. ASSUME NEW r \in Reservas, RegistrarEscolha(r) PROVE UNCHANGED Promessa!vars
  <2>1. Situacao' = Situacao
    BY <1>1, <1>4 DEF RegistrarEscolha, EscolhaCabe, Situacao, TypeOK
  <2>2. QED
    BY <1>4, <2>1 DEF RegistrarEscolha, Promessa!vars, Situacao
<1>5. ASSUME NEW i \in Instancias, DesistirDasVencidas(i) PROVE Promessa!Next
  BY <1>1, <1>5, DesistirCumpre DEF Promessa!Next
<1>6. ASSUME NEW i \in Instancias, NEW r \in Reservas, Cobrar(i, r)
      PROVE  Promessa!Next \/ UNCHANGED Promessa!vars
  BY <1>6, CobrarDebita DEF Promessa!Next
<1>7. ASSUME NEW i \in Instancias, NEW r \in Reservas, Finalizar(i, r) PROVE Promessa!Next
  BY <1>7, FinalizarEncerra DEF Promessa!Next
<1>8. ASSUME NEW i \in Instancias, NEW r \in Reservas, PublicarFato(i, r) PROVE Promessa!Next
  BY <1>8, PublicarAnuncia DEF Promessa!Next
<1>9. ASSUME NEW i \in Instancias, NEW r \in Reservas,
             ReivindicarCobranca(i, r) \/ LiberarCobranca(i, r) \/ ResolverConflito(i, r)
                 \/ MarcarAnunciado(i, r)
      PROVE  UNCHANGED Promessa!vars
  BY <1>2, <1>9 DEF ReivindicarCobranca, LiberarCobranca, ResolverConflito, MarcarAnunciado
<1>10. ASSUME NEW i \in Instancias,
              ListarEscolhidas(i) \/ ListarAnuncios(i) \/ Avancar(i) \/ Tomar(i)
                 \/ FalharItem(i) \/ Recomecar(i) \/ FecharCanal(i)
       PROVE  UNCHANGED Promessa!vars
  BY <1>2, <1>10
  DEF ListarEscolhidas, ListarAnuncios, Avancar, Tomar, FalharItem, Recomecar, FecharCanal
<1>11. ASSUME NEW r \in Reservas, EscolherForma(r) PROVE UNCHANGED Promessa!vars
  BY <1>2, <1>11 DEF EscolherForma
<1>12. CASE PassarTempo \/ UNCHANGED vars
  BY <1>2, <1>12 DEF PassarTempo, vars
<1>13. QED
  BY <1>3, <1>4, <1>5, <1>6, <1>7, <1>8, <1>9, <1>10, <1>11, <1>12
  DEF Next, NextSemFalhas, Varrer, RecusarPublicacao, FalharConsulta, Queda, Promessa!Next

(* The service keeps the promise the composition of the four relies on:    *)
(* charged once, paid only if charged, refused only if not, ended once and *)
(* announced as it ended, however many instances sweep and fall.           *)
THEOREM PagamentoCumpreCobranca == Spec => CumpreCobranca
<1>1. Spec => []PromessaFiel
  BY PromessaInicial, PromessaPreservada, PTL DEF Spec
<1>2. QED
  BY <1>1, PromessaComeca, PassoCumpre, PTL DEF Spec, CumpreCobranca, Promessa!Spec

(* Nobody who was refused was charged, however many instances sweep: of    *)
(* the two halves of DebitoTemDono, the one a second instance keeps.       *)
RecusadaSemDebito == \A r \in Reservas : status[r] = "RECUSADO" => debitos[r] = 0

(* It is a property of the promise: a refusal asks for no charge, and a    *)
(* charge for a transaction that is open or was cancelled.                 *)
RecusaDaPromessa == \A r \in Reservas : Situacao[r] = "RECUSADO" => r \notin Debitadas

LEMMA RecusaPreservada ==
    ASSUME RecusaDaPromessa, [Promessa!Next]_(Promessa!vars)
    PROVE  RecusaDaPromessa'
<1>1. ASSUME UNCHANGED <<Situacao, Debitadas>> PROVE RecusaDaPromessa'
  BY <1>1 DEF RecusaDaPromessa
<1>2. ASSUME NEW q \in Reservas, Promessa!Abrir(q) PROVE RecusaDaPromessa'
  <2>1. Situacao' = [Situacao EXCEPT ![q] = "ABERTA"] /\ UNCHANGED Debitadas
    BY <1>2 DEF Promessa!Abrir, Situacao, Debitadas
  <2>2. \A r \in Reservas : Situacao'[r] = "RECUSADO" => Situacao[r] = "RECUSADO"
    BY <2>1 DEF Situacao
  <2>3. QED
    BY <2>1, <2>2 DEF RecusaDaPromessa
<1>3. ASSUME NEW q \in Reservas, Promessa!Debitar(q) PROVE RecusaDaPromessa'
  <2>1. /\ Situacao[q] \in {"ABERTA", "CANCELADO"}
        /\ Debitadas' = Debitadas \cup {q} /\ UNCHANGED Situacao
    BY <1>3 DEF Promessa!Debitar, Situacao, Debitadas
  <2>2. QED
    BY <2>1 DEF RecusaDaPromessa
<1>4. ASSUME NEW q \in Reservas, Promessa!Encerrar(q) PROVE RecusaDaPromessa'
  <2>1. PICK s \in Promessa!Desfechos(q) : Situacao' = [Situacao EXCEPT ![q] = s]
    BY <1>4 DEF Promessa!Encerrar, Situacao
  <2>2. UNCHANGED Debitadas
    BY <1>4 DEF Promessa!Encerrar, Debitadas
  <2>3. s = "RECUSADO" => q \notin Debitadas
    BY <2>1 DEF Promessa!Desfechos, Debitadas
  <2>4. \A r \in Reservas : Situacao'[r] = IF r = q THEN s ELSE Situacao[r]
    BY <2>1 DEF Situacao
  <2>5. QED
    BY <2>2, <2>3, <2>4 DEF RecusaDaPromessa
<1>5. ASSUME NEW R \in SUBSET Reservas, Promessa!Desistir(R) PROVE RecusaDaPromessa'
  <2>1. /\ Situacao' = [r \in Reservas |-> IF r \in R THEN "CANCELADO" ELSE Situacao[r]]
        /\ UNCHANGED Debitadas
    BY <1>5 DEF Promessa!Desistir, Situacao, Debitadas
  <2>2. \A r \in Reservas : Situacao'[r] = "RECUSADO" => Situacao[r] = "RECUSADO"
    BY <2>1
  <2>3. QED
    BY <2>1, <2>2 DEF RecusaDaPromessa
<1>6. ASSUME (\E q \in Reservas : Promessa!Anunciar(q)) \/ UNCHANGED Promessa!vars
      PROVE  RecusaDaPromessa'
  BY <1>1, <1>6 DEF Promessa!Anunciar, Promessa!vars, Situacao, Debitadas
<1>7. QED
  BY <1>2, <1>3, <1>4, <1>5, <1>6 DEF Promessa!Next

(* Refused, and not charged, for any number of instances.                  *)
THEOREM RecusadaNaoDebitada == Spec => []RecusadaSemDebito
<1>1. Init => RecusaDaPromessa
  BY DEF Init, RecusaDaPromessa, Situacao
<1>2. RecusaDaPromessa /\ PromessaFiel /\ [Next]_vars => RecusaDaPromessa'
  BY PassoCumpre, RecusaPreservada
<1>3. TypeOK /\ RecusaDaPromessa => RecusadaSemDebito
  BY DEF TypeOK, RecusaDaPromessa, RecusadaSemDebito, Situacao, Debitadas
<1>4. Spec => []PromessaFiel
  BY PromessaInicial, PromessaPreservada, PTL DEF Spec
<1>5. QED
  BY <1>1, <1>2, <1>3, <1>4, TipoSempre, PTL DEF Spec

-----------------------------------------------------------------------------
(* One instance.  The copies it has still to charge are of rows nobody     *)
(* charged, because nobody else could have: what a second instance breaks. *)
UmaInstancia == \A i, j \in Instancias : i = j

CopiaNaoCobrada ==
    \A i \in Instancias :
        /\ passo[i] \in {"consultar", "percorrer"} => atual[i] = Nada
        /\ etapa[i] = "cobrar" =>
              \A c \in lista[i] : /\ c[2] = "PROCESSANDO"
                                  /\ debitos[c[1]] = 0
                                  /\ atual[i] # Nada => c[1] # atual[i][1]
        /\ \A r \in Reservas : Em(i, "cancelar", r) => debitos[r] = 0

DireitoVale == \A i \in Instancias, r \in Reservas : Detem(i, r) => status[r] = "PROCESSANDO"

NaoEscolhida ==
    \A r \in Reservas : status[r] \in {"INEXISTENTE", "AGUARDANDO_FORMA"} => ~ emitida[r]

(* The inductive invariant behind a charge with an owner. *)
CobrancaComDono ==
    CobrancaUnica /\ CopiaNaoCobrada /\ DireitoVale /\ NaoEscolhida /\ DebitoTemDono

(* The choice of a form, or an expired wait, touches no charge.            *)
LEMMA EsperaSai ==
    ASSUME CobrancaComDono, CobrancaUnica', debitos' = debitos, emitida' = emitida,
           CopiaNaoCobrada',
           \A i \in Instancias, r \in Reservas : Detem(i, r)' => Detem(i, r),
           \A r \in Reservas :
               \/ status'[r] = status[r]
               \/ status[r] \in {"INEXISTENTE", "AGUARDANDO_FORMA"}
    PROVE  CobrancaComDono'
<1>1. \A r \in Reservas : status[r] \in {"INEXISTENTE", "AGUARDANDO_FORMA"} =>
          /\ ~ emitida[r]
          /\ debitos[r] = 0
          /\ \A i \in Instancias : ~ Detem(i, r)
  BY DEF CobrancaComDono, NaoEscolhida, CobrancaUnica, DebitoReivindicado, DireitoUnico
<1>2. DireitoVale'
  BY <1>1 DEF CobrancaComDono, DireitoVale
<1>3. NaoEscolhida'
  BY <1>1 DEF CobrancaComDono, NaoEscolhida
<1>4. DebitoTemDono'
  BY <1>1 DEF CobrancaComDono, DebitoTemDono
<1>5. QED
  BY <1>2, <1>3, <1>4 DEF CobrancaComDono

(* The memory of the instance stays, or it lays its copy down.             *)
LEMMA CopiaSegue ==
    ASSUME TypeOK, CopiaNaoCobrada, debitos' = debitos,
           \/ UNCHANGED memoria
           \/ \E i \in Instancias : Largar(i)
           \/ \E i \in Instancias, p \in Passos \ {"consultar", "percorrer", "cancelar"} :
                  Ir(i, p) /\ passo[i] \notin {"consultar", "percorrer"}
    PROVE  CopiaNaoCobrada'
  BY DEF TypeOK, CopiaNaoCobrada, memoria, Largar, Ir, Em

(* Charging, while one instance sweeps: the row is still PROCESSANDO.      *)
LEMMA CobrarComDono ==
    ASSUME CobrancaComDono, CobrancaUnica', UmaInstancia,
           NEW i \in Instancias, NEW r \in Reservas, Cobrar(i, r)
    PROVE  CobrancaComDono'
<1>1. PICK p \in {"aprovar", "recusar", "verificar", "liberar"} :
          passo' = [passo EXCEPT ![i] = p]
  BY DEF Cobrar, Ir
<1>2. /\ passo[i] = "cobrando" /\ atual[i] # Nada /\ atual[i][1] = r
      /\ passo'[i] = p
      /\ atual' = atual /\ emitida' = emitida /\ status' = status
      /\ etapa' = etapa /\ lista' = lista
  BY <1>1 DEF Cobrar, Ir, Em, CobrancaComDono, CobrancaUnica, TypeOK, tabela
<1>3. \A q \in Reservas : q # r => debitos'[q] = debitos[q]
  BY DEF Cobrar, CobrancaComDono, CobrancaUnica, TypeOK
<1>4. \A c \in lista[i] : c[1] \in Reservas
  BY DEF CobrancaComDono, CobrancaUnica, TypeOK, Copias
<1>5. CopiaNaoCobrada'
  BY <1>2, <1>3, <1>4 DEF CobrancaComDono, CopiaNaoCobrada, UmaInstancia, Em
<1>6. Detem(i, r) /\ status[r] = "PROCESSANDO"
  BY <1>2 DEF CobrancaComDono, DireitoVale, Detem, Direito
<1>7. DireitoVale'
  BY <1>2, <1>6 DEF UmaInstancia, DireitoVale, Detem
<1>8. NaoEscolhida' /\ DebitoTemDono'
  BY <1>2, <1>3, <1>6 DEF CobrancaComDono, NaoEscolhida, DebitoTemDono
<1>9. QED
  BY <1>5, <1>7, <1>8 DEF CobrancaComDono

(* Ending, while one instance sweeps: a refusal or a cancellation was not  *)
(* charged.                                                                *)
LEMMA FinalizarComDono ==
    ASSUME CobrancaComDono, CobrancaUnica', UmaInstancia,
           NEW i \in Instancias, NEW r \in Reservas, Finalizar(i, r)
    PROVE  CobrancaComDono'
<1>1. PICK p \in Respostas \cup {"cancelar"} :
          /\ Em(i, p, r)
          /\ status' = [status EXCEPT ![r] = EstadoFinal(p)]
          /\ \/ Largar(i)
             \/ /\ passo' = [passo EXCEPT ![i] = "anunciar"]
                /\ atual' = [atual EXCEPT ![i] = <<r, EstadoFinal(p)>>]
                /\ UNCHANGED <<etapa, lista>>
  BY DEF Finalizar
<1>2. /\ debitos' = debitos /\ emitida' = emitida
      /\ \A q \in Reservas : status'[q] = IF q = r THEN EstadoFinal(p) ELSE status[q]
      /\ status[r] = "PROCESSANDO"
  BY <1>1 DEF Finalizar, Finalizavel, CobrancaComDono, CobrancaUnica, TypeOK
<1>3. passo'[i] \notin Direito
  BY <1>1 DEF Largar, Direito, Respostas, CobrancaComDono, CobrancaUnica, TypeOK
<1>4. CopiaNaoCobrada'
  BY <1>1, <1>2
  DEF CobrancaComDono, CobrancaUnica, CopiaNaoCobrada, TypeOK, Largar, Em, UmaInstancia
<1>5. DireitoVale'
  BY <1>3 DEF UmaInstancia, DireitoVale, Detem
<1>6. p \in {"recusar", "cancelar"} => debitos[r] = 0
  BY <1>1
  DEF CobrancaComDono, CopiaNaoCobrada, CobrancaUnica, DebitoReivindicado, Em, Detem,
              Direito, Respostas
<1>7. NaoEscolhida' /\ DebitoTemDono'
  BY <1>2, <1>6, EstadoFinalTipo
  DEF CobrancaComDono, NaoEscolhida, DebitoTemDono, Respostas
<1>8. QED
  BY <1>4, <1>5, <1>7 DEF CobrancaComDono

(* At first nobody was charged.                                            *)
LEMMA DonoInicial == Init => CobrancaComDono
<1> SUFFICES ASSUME Init PROVE CobrancaComDono
  OBVIOUS
<1>1. CopiaNaoCobrada /\ DireitoVale /\ NaoEscolhida /\ DebitoTemDono
  BY DEF Init, CopiaNaoCobrada, DireitoVale, NaoEscolhida, DebitoTemDono, Detem, Em
<1>2. QED
  BY <1>1, CobrancaInicial DEF CobrancaComDono

(* Each action of the only instance leaves every charge with an owner.      *)
LEMMA DonoPreservado ==
    ASSUME UmaInstancia
    PROVE  CobrancaComDono /\ [Next]_vars => CobrancaComDono'
<1> SUFFICES ASSUME CobrancaComDono, [Next]_vars PROVE CobrancaComDono'
  OBVIOUS
<1>1. /\ CobrancaUnica /\ CobrancaUnica' /\ TypeOK /\ TypeOK'
      /\ CopiaNaoCobrada /\ DireitoVale /\ NaoEscolhida /\ DebitoTemDono
  BY CobrancaPreservada DEF CobrancaComDono, CobrancaUnica
<1>2. ASSUME debitos' = debitos, emitida' = emitida, CopiaNaoCobrada',
             UNCHANGED status,
             \A i \in Instancias, r \in Reservas : Detem(i, r)' => Detem(i, r)
      PROVE  CobrancaComDono'
  BY <1>1, <1>2, EsperaSai
<1>3. ASSUME debitos' = debitos, emitida' = emitida, UNCHANGED memoria,
             \A r \in Reservas : \/ status'[r] = status[r]
                                 \/ status[r] \in {"INEXISTENTE", "AGUARDANDO_FORMA"}
      PROVE  CobrancaComDono'
  <2>1. CopiaNaoCobrada'
    BY <1>1, <1>3, CopiaSegue
  <2>2. \A i \in Instancias, r \in Reservas : Detem(i, r)' => Detem(i, r)
    BY <1>3 DEF memoria, Detem
  <2>3. QED
    BY <1>1, <1>3, <2>1, <2>2, EsperaSai
<1>4. ASSUME NEW i \in Instancias, Largar(i), debitos' = debitos, emitida' = emitida,
             UNCHANGED status
      PROVE  CobrancaComDono'
  <2>1. CopiaNaoCobrada'
    BY <1>1, <1>4, CopiaSegue
  <2>2. QED
    BY <1>1, <1>2, <1>4, <2>1, LargarSolta
<1> USE DEF tabela, memoria
<1>5. ASSUME NEW r \in Reservas, RegistrarIntencao(r) PROVE CobrancaComDono'
  BY <1>5, <1>1, <1>3 DEF RegistrarIntencao, TypeOK
<1>6. ASSUME NEW r \in Reservas, EscolherForma(r) PROVE CobrancaComDono'
  BY <1>6, <1>3 DEF EscolherForma
<1>7. ASSUME NEW r \in Reservas, RegistrarEscolha(r) PROVE CobrancaComDono'
  BY <1>7, <1>1, <1>3 DEF RegistrarEscolha, EscolhaCabe, TypeOK
<1>8. ASSUME NEW i \in Instancias, DesistirDasVencidas(i) PROVE CobrancaComDono'
  <2>1. CopiaNaoCobrada'
    BY <1>8, <1>1
    DEF DesistirDasVencidas, Percorrer, Consultando, CopiaNaoCobrada, Em, TypeOK
  <2>2. \A j \in Instancias, r \in Reservas : Detem(j, r)' => Detem(j, r)
    BY <1>8, <1>1 DEF DesistirDasVencidas, Percorrer, Detem, Direito, Respostas, TypeOK
  <2>3. QED
    BY <1>8, <1>1, <2>1, <2>2, EsperaSai, LimiteDe
    DEF DesistirDasVencidas, EsperaVencida, TypeOK
<1>9. ASSUME NEW i \in Instancias, ListarEscolhidas(i) PROVE CobrancaComDono'
  <2>1. PICK E \in ComLimite({r \in Reservas : status[r] = "PROCESSANDO" /\ ~ emitida[r]}) :
            Percorrer(i, E \X {"PROCESSANDO"})
    BY <1>9 DEF ListarEscolhidas
  <2>2. \A c \in E \X {"PROCESSANDO"} : c[2] = "PROCESSANDO" /\ debitos[c[1]] = 0
    BY <1>1, LimiteDe DEF CobrancaUnica, DebitoReivindicado
  <2>3. CopiaNaoCobrada'
    BY <1>9, <1>1, <2>1, <2>2
    DEF ListarEscolhidas, Percorrer, Consultando, CopiaNaoCobrada, Em, TypeOK
  <2>4. \A j \in Instancias, r \in Reservas : Detem(j, r)' => Detem(j, r)
    BY <1>9, <1>1 DEF ListarEscolhidas, Percorrer, Detem, Direito, Respostas, TypeOK
  <2>5. QED
    BY <1>9, <1>2, <2>3, <2>4 DEF ListarEscolhidas
<1>10. ASSUME NEW i \in Instancias, ListarAnuncios(i) PROVE CobrancaComDono'
  <2>1. CopiaNaoCobrada'
    BY <1>10, <1>1 DEF ListarAnuncios, Percorrer, Consultando, CopiaNaoCobrada, Em, TypeOK
  <2>2. \A j \in Instancias, r \in Reservas : Detem(j, r)' => Detem(j, r)
    BY <1>10, <1>1 DEF ListarAnuncios, Percorrer, Detem, Direito, Respostas, TypeOK
  <2>3. QED
    BY <1>10, <1>1, <2>1, <2>2, <1>2 DEF ListarAnuncios
<1>11. ASSUME NEW i \in Instancias, Avancar(i) PROVE CobrancaComDono'
  <2>1. CopiaNaoCobrada'
    BY <1>11, <1>1 DEF Avancar, CopiaNaoCobrada, Em, TypeOK
  <2>2. \A j \in Instancias, r \in Reservas : Detem(j, r)' => Detem(j, r)
    BY <1>11, <1>1 DEF Avancar, Detem, Direito, Respostas, TypeOK
  <2>3. QED
    BY <1>11, <1>2, <2>1, <2>2 DEF Avancar
<1>12. ASSUME NEW i \in Instancias, Tomar(i) PROVE CobrancaComDono'
  <2>1. PICK c \in lista[i] :
            /\ atual' = [atual EXCEPT ![i] = c]
            /\ lista' = [lista EXCEPT ![i] = @ \ {c}]
            /\ passo' = [passo EXCEPT ![i] =
                            IF etapa[i] # "cobrar" THEN "anunciar"
                            ELSE IF Expirada(c[1]) THEN "cancelar" ELSE "reivindicar"]
    BY <1>12 DEF Tomar
  <2>2. /\ UNCHANGED <<etapa, status, emitida, debitos>>
        /\ lista'[i] = lista[i] \ {c} /\ atual'[i] = c
        /\ passo'[i] \in {"anunciar", "cancelar", "reivindicar"}
        /\ passo'[i] = "cancelar" => etapa[i] = "cobrar"
        /\ \A j \in Instancias : j = i
    BY <1>12, <1>1, <2>1 DEF Tomar, UmaInstancia, TypeOK
  <2>3. \A d \in lista[i] : d = <<d[1], d[2]>>
    BY <1>1 DEF TypeOK, Copias
  <2>4. etapa[i] = "cobrar" =>
            \A d \in lista'[i] : d[2] = "PROCESSANDO" /\ debitos[d[1]] = 0 /\ d[1] # c[1]
    BY <1>1, <2>2, <2>3 DEF CopiaNaoCobrada
  <2>5. CopiaNaoCobrada'
    BY <1>1, <2>2, <2>4 DEF CopiaNaoCobrada, Em
  <2>6. \A j \in Instancias, r \in Reservas : Detem(j, r)' => Detem(j, r)
    BY <2>2 DEF Detem, Direito, Respostas
  <2>7. QED
    BY <1>2, <2>2, <2>5, <2>6
<1>13. ASSUME NEW i \in Instancias, NEW r \in Reservas, ReivindicarCobranca(i, r)
       PROVE  CobrancaComDono'
  <2>1. CASE ~ Reivindicavel(r)
    BY <1>13, <1>4, <2>1 DEF ReivindicarCobranca
  <2>2. CASE Reivindicavel(r)
    <3>1. /\ status' = status /\ debitos' = debitos /\ status[r] = "PROCESSANDO"
          /\ Em(i, "reivindicar", r) /\ Ir(i, "cobrando")
          /\ \A q \in Reservas : q # r => emitida'[q] = emitida[q]
      BY <1>13, <1>1, <2>2 DEF ReivindicarCobranca, Reivindicavel, TypeOK
    <3>2. CopiaNaoCobrada'
      BY <1>1, <3>1, CopiaSegue DEF Passos, Em
    <3>3. DireitoVale'
      BY <1>1, <3>1 DEF DireitoVale, Detem, Em, Ir, UmaInstancia
    <3>4. NaoEscolhida' /\ DebitoTemDono'
      BY <1>1, <3>1 DEF NaoEscolhida, DebitoTemDono
    <3>5. QED
      BY <1>1, <3>2, <3>3, <3>4 DEF CobrancaComDono
  <2>3. QED
    BY <2>1, <2>2
<1>14. ASSUME NEW i \in Instancias, NEW r \in Reservas, Cobrar(i, r)
       PROVE  CobrancaComDono'
  BY <1>14, <1>1, CobrarComDono
<1>15. ASSUME NEW i \in Instancias, NEW r \in Reservas, LiberarCobranca(i, r)
       PROVE  CobrancaComDono'
  <2>1. CopiaNaoCobrada'
    BY <1>15, <1>1, CopiaSegue DEF LiberarCobranca
  <2>2. /\ status' = status /\ debitos' = debitos
        /\ \A q \in Reservas : emitida'[q] => emitida[q]
    BY <1>15, <1>1 DEF LiberarCobranca, TypeOK
  <2>3. DireitoVale'
    BY <1>15, <1>1, <2>2, LargarSolta DEF LiberarCobranca, DireitoVale
  <2>4. NaoEscolhida' /\ DebitoTemDono'
    BY <1>1, <2>2 DEF NaoEscolhida, DebitoTemDono
  <2>5. QED
    BY <1>1, <2>1, <2>3, <2>4 DEF CobrancaComDono
<1>16. ASSUME NEW i \in Instancias, NEW r \in Reservas, Finalizar(i, r)
       PROVE  CobrancaComDono'
  BY <1>16, <1>1, FinalizarComDono
<1>17. ASSUME NEW i \in Instancias, NEW r \in Reservas, ResolverConflito(i, r)
       PROVE  CobrancaComDono'
  <2>1. CASE Largar(i)
    BY <1>17, <1>4, <2>1 DEF ResolverConflito
  <2>2. CASE ~ Largar(i)
    <3>1. /\ passo' = [passo EXCEPT ![i] = "anunciar"]
          /\ atual' = [atual EXCEPT ![i] = <<r, status[r]>>]
          /\ passo[i] \in Respostas \cup {"cancelar"}
          /\ atual[i] # Nada /\ atual[i][1] = r
          /\ UNCHANGED <<etapa, lista, status, debitos, emitida>>
      BY <1>17, <2>2 DEF ResolverConflito, Em
    <3>2. CopiaNaoCobrada'
      BY <1>1, <3>1 DEF CopiaNaoCobrada, Em, TypeOK, UmaInstancia
    <3>3. \A j \in Instancias, q \in Reservas : Detem(j, q)' => Detem(j, q)
      BY <1>1, <3>1 DEF Detem, Direito, Respostas, TypeOK
    <3>4. QED
      BY <1>2, <3>1, <3>2, <3>3
  <2>3. QED
    BY <2>1, <2>2
<1>18. ASSUME NEW i \in Instancias, NEW r \in Reservas, PublicarFato(i, r)
       PROVE  CobrancaComDono'
  <2>1. CopiaNaoCobrada'
    BY <1>18, <1>1, CopiaSegue DEF PublicarFato, Em, Passos
  <2>2. \A j \in Instancias, q \in Reservas : Detem(j, q)' => Detem(j, q)
    BY <1>18, <1>1 DEF PublicarFato, Ir, Detem, Direito, Respostas, TypeOK
  <2>3. QED
    BY <1>18, <1>2, <2>1, <2>2 DEF PublicarFato
<1>19. ASSUME NEW i \in Instancias, NEW r \in Reservas, MarcarAnunciado(i, r)
       PROVE  CobrancaComDono'
  BY <1>19, <1>4 DEF MarcarAnunciado
<1>20. ASSUME NEW i \in Instancias, FalharItem(i) PROVE CobrancaComDono'
  BY <1>20, <1>4 DEF FalharItem
<1>21. ASSUME NEW i \in Instancias, Recomecar(i) PROVE CobrancaComDono'
  <2>1. CopiaNaoCobrada'
    BY <1>21, <1>1 DEF Recomecar, CopiaNaoCobrada, Em, TypeOK
  <2>2. \A j \in Instancias, r \in Reservas : Detem(j, r)' => Detem(j, r)
    BY <1>21, <1>1 DEF Recomecar, Detem, Direito, Respostas, TypeOK
  <2>3. QED
    BY <1>21, <1>2, <2>1, <2>2 DEF Recomecar
<1>22. ASSUME (\E i \in Instancias : FecharCanal(i)) \/ PassarTempo PROVE CobrancaComDono'
  BY <1>22, <1>3 DEF FecharCanal, PassarTempo
<1>23. CASE UNCHANGED vars
  BY <1>23, <1>3 DEF vars
<1>24. QED
  BY <1>5, <1>6, <1>7, <1>8, <1>9, <1>10, <1>11, <1>12, <1>13, <1>14, <1>15, <1>16,
     <1>17, <1>18, <1>19, <1>20, <1>21, <1>22, <1>23
  DEF Next, NextSemFalhas, Varrer, RecusarPublicacao, FalharConsulta, Queda

(* While one instance sweeps, money that was taken has an owner: no charged *)
(* transaction is refused or cancelled.  With two it is false.             *)
THEOREM DonoComUmaInstancia ==
    ASSUME UmaInstancia
    PROVE  Spec => []DebitoTemDono
<1>1. CobrancaComDono => DebitoTemDono
  BY DEF CobrancaComDono
<1>2. CobrancaComDono /\ [Next]_vars => CobrancaComDono'
  BY DonoPreservado
<1>3. QED
  BY <1>1, <1>2, DonoInicial, PTL DEF Spec

-----------------------------------------------------------------------------
(* An interrupted charge: the row says that it is being charged, and no    *)
(* instance is charging it.                                                *)
Interrompida(r) ==
    /\ status[r] = "PROCESSANDO" /\ emitida[r]
    /\ \A i \in Instancias : ~ Detem(i, r)

(* Only a failure interrupts a charge, of the instance that was at it: a   *)
(* claim that is lost, a conflict or a stale copy never does.              *)
InterrompePorFalha(r) ==
    Interrompida(r)' /\ ~ Interrompida(r) =>
        \E i \in Instancias : Detem(i, r) /\ (FalharItem(i) \/ Queda(i))

(* Nobody takes an interrupted charge up: it is not charged again, and     *)
(* nothing ends it but a cancellation decided on a copy read before the    *)
(* claim.                                                                  *)
FicaInterrompida(r) ==
    Interrompida(r) =>
        /\ debitos'[r] = debitos[r]
        /\ \/ Interrompida(r)'
           \/ /\ status'[r] = "CANCELADO"
              /\ \E i \in Instancias : Em(i, "cancelar", r) /\ Finalizar(i, r)

InterrupcaoTemFalha == [][\A r \in Reservas : InterrompePorFalha(r)]_vars
InterrompidaFica    == [][\A r \in Reservas : FicaInterrompida(r)]_vars

(* What was not chosen was not claimed. *)
LEMMA NaoEscolhidaPasso ==
    ASSUME TypeOK, NaoEscolhida, [Next]_vars
    PROVE  NaoEscolhida'
<1> USE DEF tabela
<1>1. ASSUME NEW i \in Instancias, NEW r \in Reservas, ReivindicarCobranca(i, r)
      PROVE  NaoEscolhida'
  BY <1>1 DEF ReivindicarCobranca, Reivindicavel, NaoEscolhida, TypeOK
<1>2. ASSUME NEW i \in Instancias, NEW r \in Reservas, LiberarCobranca(i, r)
      PROVE  NaoEscolhida'
  BY <1>2 DEF LiberarCobranca, NaoEscolhida, TypeOK
<1>3. ASSUME NEW i \in Instancias, NEW r \in Reservas, Finalizar(i, r)
      PROVE  NaoEscolhida'
  <2>1. PICK p \in Respostas \cup {"cancelar"} : status' = [status EXCEPT ![r] = EstadoFinal(p)]
    BY <1>3 DEF Finalizar
  <2>2. EstadoFinal(p) \notin {"INEXISTENTE", "AGUARDANDO_FORMA"}
    BY EstadoFinalTipo DEF Respostas
  <2>3. QED
    BY <1>3, <2>1, <2>2 DEF Finalizar, NaoEscolhida, TypeOK
<1>4. ASSUME NEW r \in Reservas, RegistrarIntencao(r) \/ RegistrarEscolha(r)
      PROVE  NaoEscolhida'
  BY <1>4 DEF RegistrarIntencao, RegistrarEscolha, NaoEscolhida, TypeOK
<1>5. ASSUME NEW i \in Instancias, DesistirDasVencidas(i) PROVE NaoEscolhida'
  BY <1>5 DEF DesistirDasVencidas, NaoEscolhida, TypeOK
<1>6. ASSUME UNCHANGED <<status, emitida>> PROVE NaoEscolhida'
  BY <1>6 DEF NaoEscolhida
<1>7. QED
  BY <1>1, <1>2, <1>3, <1>4, <1>5, <1>6
  DEF Next, NextSemFalhas, Varrer, EscolherForma, ListarEscolhidas, ListarAnuncios, Avancar,
      Tomar, Cobrar, ResolverConflito, PublicarFato, MarcarAnunciado, RecusarPublicacao,
      FalharItem, FalharConsulta, Queda, Recomecar, FecharCanal, PassarTempo, vars

(* A step that leaves the row and its claims alone interrupts nothing.     *)
LEMMA SemInterrupcao ==
    ASSUME NEW r \in Reservas,
           debitos'[r] = debitos[r], status'[r] = status[r], emitida'[r] = emitida[r],
           status[r] = "PROCESSANDO" /\ emitida[r] =>
               \A i \in Instancias : Detem(i, r)' <=> Detem(i, r)
    PROVE  InterrompePorFalha(r) /\ FicaInterrompida(r)
  BY DEF InterrompePorFalha, FicaInterrompida, Interrompida

(* Nor does one of a row that is not being charged, before and after.      *)
LEMMA ForaDeCobranca ==
    ASSUME NEW r \in Reservas, ~ Interrompida(r), ~ Interrompida(r)'
    PROVE  InterrompePorFalha(r) /\ FicaInterrompida(r)
  BY DEF InterrompePorFalha, FicaInterrompida

(* An instance with no claim that lays its copy down changes no claim.     *)
LEMMA LargarSemDireito ==
    ASSUME TypeOK, NEW i \in Instancias, Largar(i), NEW r \in Reservas, ~ Detem(i, r)
    PROVE  \A j \in Instancias : Detem(j, r)' <=> Detem(j, r)
  BY DEF TypeOK, Largar, Detem, Direito, Respostas

(* The instance that fails is the one that loses its claim.                *)
LEMMA FalhaInterrompe ==
    ASSUME NEW r \in Reservas, NEW i \in Instancias, FalharItem(i) \/ Queda(i),
           debitos' = debitos, status' = status, emitida' = emitida,
           ~ Detem(i, r)',
           \A j \in Instancias : j # i => (Detem(j, r)' <=> Detem(j, r))
    PROVE  InterrompePorFalha(r) /\ FicaInterrompida(r)
<1>1. Interrompida(r) => Interrompida(r)'
  BY DEF Interrompida
<1>2. Interrompida(r)' /\ ~ Interrompida(r) => Detem(i, r)
  BY DEF Interrompida
<1>3. QED
  BY <1>1, <1>2 DEF InterrompePorFalha, FicaInterrompida

(* Each action, for one reservation r. *)
LEMMA InterrupcaoPasso ==
    ASSUME CobrancaUnica, NaoEscolhida, NaoEscolhida', [Next]_vars, NEW r \in Reservas
    PROVE  InterrompePorFalha(r) /\ FicaInterrompida(r)
<1> DEFINE Meta == InterrompePorFalha(r) /\ FicaInterrompida(r)
<1>1. TypeOK /\ DireitoUnico
  BY DEF CobrancaUnica
<1> USE DEF tabela, memoria
<1>2. ASSUME UNCHANGED <<status, emitida, debitos>>,
             \A i \in Instancias : Detem(i, r)' <=> Detem(i, r)
      PROVE  Meta
  BY <1>2, SemInterrupcao
<1>3. ASSUME UNCHANGED <<status, emitida, debitos, memoria>> PROVE Meta
  BY <1>2, <1>3 DEF Detem
<1>4. ASSUME NEW i \in Instancias, Largar(i), ~ Detem(i, r),
             UNCHANGED <<status, emitida, debitos>>
      PROVE  Meta
  BY <1>1, <1>2, <1>4, LargarSemDireito
<1>5. ASSUME UNCHANGED <<emitida, debitos, memoria>>,
             \/ status'[r] = status[r]
             \/ ~ Interrompida(r) /\ ~ Interrompida(r)'
      PROVE  Meta
  BY <1>5, SemInterrupcao, ForaDeCobranca DEF Detem
<1>6. status[r] \in {"INEXISTENTE", "AGUARDANDO_FORMA"} /\ emitida'[r] = emitida[r] =>
          ~ Interrompida(r) /\ ~ Interrompida(r)'
  BY DEF NaoEscolhida, Interrompida
<1>7. ASSUME NEW q \in Reservas, RegistrarIntencao(q) \/ RegistrarEscolha(q) PROVE Meta
  BY <1>1, <1>5, <1>6, <1>7 DEF RegistrarIntencao, RegistrarEscolha, EscolhaCabe, TypeOK
<1>8. ASSUME NEW i \in Instancias, DesistirDasVencidas(i) PROVE Meta
  <2>1. PICK E \in ComLimite({q \in Reservas : EsperaVencida(q)}) :
            /\ status' = [q \in Reservas |-> IF q \in E THEN "CANCELADO" ELSE status[q]]
            /\ Percorrer(i, E \X {"CANCELADO"})
    BY <1>8 DEF DesistirDasVencidas
  <2>2. r \in E => status[r] = "AGUARDANDO_FORMA"
    BY <2>1, LimiteDe DEF EsperaVencida
  <2>3. \A j \in Instancias : Detem(j, r)' <=> Detem(j, r)
    BY <1>1, <1>8, <2>1
    DEF DesistirDasVencidas, Consultando, Percorrer, Detem, Direito, Respostas, TypeOK
  <2>4. UNCHANGED <<emitida, debitos>>
    BY <1>8 DEF DesistirDasVencidas
  <2>5. QED
    BY <1>6, <2>1, <2>2, <2>3, <2>4, SemInterrupcao, ForaDeCobranca
<1>9. ASSUME NEW i \in Instancias, ListarEscolhidas(i) \/ ListarAnuncios(i) PROVE Meta
  <2>1. PICK copias : Consultando(i, etapa[i]) /\ Percorrer(i, copias)
    BY <1>9 DEF ListarEscolhidas, ListarAnuncios, Consultando
  <2>2. \A j \in Instancias : Detem(j, r)' <=> Detem(j, r)
    BY <1>1, <2>1 DEF Consultando, Percorrer, Detem, Direito, Respostas, TypeOK
  <2>3. QED
    BY <1>2, <1>9, <2>2 DEF ListarEscolhidas, ListarAnuncios
<1>10. ASSUME NEW i \in Instancias, Avancar(i) PROVE Meta
  <2>1. \A j \in Instancias : Detem(j, r)' <=> Detem(j, r)
    BY <1>1, <1>10 DEF Avancar, Detem, Direito, Respostas, TypeOK
  <2>2. QED
    BY <1>2, <1>10, <2>1 DEF Avancar
<1>11. ASSUME NEW i \in Instancias, Tomar(i) PROVE Meta
  <2>1. \A j \in Instancias : Detem(j, r)' <=> Detem(j, r)
    BY <1>1, <1>11 DEF Tomar, Detem, Direito, Respostas, TypeOK
  <2>2. QED
    BY <1>2, <1>11, <2>1 DEF Tomar
<1>12. ASSUME NEW i \in Instancias, NEW q \in Reservas, ReivindicarCobranca(i, q) PROVE Meta
  <2>1. ~ Detem(i, r) /\ UNCHANGED <<status, debitos>>
    BY <1>12 DEF ReivindicarCobranca, Em, Detem, Direito, Respostas
  <2>2. CASE Reivindicavel(q)
    <3>1. /\ emitida' = [emitida EXCEPT ![q] = TRUE]
          /\ passo' = [passo EXCEPT ![i] = "cobrando"] /\ atual' = atual
      BY <1>12, <2>2 DEF ReivindicarCobranca, Ir
    <3>2. CASE q = r
      <4>1. ~ Interrompida(r)
        BY <2>2, <3>2 DEF Reivindicavel, Interrompida
      <4>2. Detem(i, r)'
        BY <1>1, <1>12, <3>1, <3>2 DEF ReivindicarCobranca, Em, Detem, Direito, TypeOK
      <4>3. QED
        BY <4>1, <4>2, ForaDeCobranca DEF Interrompida
    <3>3. CASE q # r
      <4>1. \A j \in Instancias : Detem(j, r)' <=> Detem(j, r)
        BY <1>1, <1>12, <3>1, <3>3
        DEF ReivindicarCobranca, Em, Detem, Direito, Respostas, TypeOK
      <4>2. emitida'[r] = emitida[r]
        BY <1>1, <3>1, <3>3 DEF TypeOK
      <4>3. QED
        BY <2>1, <4>1, <4>2, SemInterrupcao
    <3>4. QED
      BY <3>2, <3>3
  <2>3. CASE ~ Reivindicavel(q)
    BY <1>4, <1>12, <2>1, <2>3 DEF ReivindicarCobranca
  <2>4. QED
    BY <2>2, <2>3
<1>13. ASSUME NEW i \in Instancias, NEW q \in Reservas, Cobrar(i, q) PROVE Meta
  <2>1. PICK p \in {"aprovar", "recusar", "verificar", "liberar"} :
            passo' = [passo EXCEPT ![i] = p]
    BY <1>13 DEF Cobrar, Ir
  <2>2. /\ passo[i] = "cobrando" /\ atual[i] # Nada /\ atual[i][1] = q
        /\ atual' = atual /\ UNCHANGED <<status, emitida>>
    BY <1>13 DEF Cobrar, Ir, Em
  <2>3. \A j \in Instancias : Detem(j, r)' <=> Detem(j, r)
    BY <1>1, <2>1, <2>2 DEF Detem, Direito, Respostas, TypeOK
  <2>4. CASE q = r
    <3>1. Detem(i, r)
      BY <2>2, <2>4 DEF Detem, Direito
    <3>2. QED
      BY <2>3, <3>1, ForaDeCobranca DEF Interrompida
  <2>5. CASE q # r
    <3>1. debitos'[r] = debitos[r]
      BY <1>1, <1>13, <2>5 DEF Cobrar, TypeOK
    <3>2. QED
      BY <2>2, <2>3, <3>1, SemInterrupcao
  <2>6. QED
    BY <2>4, <2>5
<1>14. ASSUME NEW i \in Instancias, NEW q \in Reservas, LiberarCobranca(i, q) PROVE Meta
  <2>1. Largar(i) /\ Detem(i, q) /\ UNCHANGED <<status, debitos>>
    BY <1>14 DEF LiberarCobranca, Em, Detem, Direito
  <2>2. CASE q = r
    <3>1. ~ Interrompida(r)
      BY <2>1, <2>2 DEF Interrompida
    <3>2. ~ Interrompida(r)'
      BY <1>1, <1>14, <2>1, <2>2 DEF LiberarCobranca, Interrompida, TypeOK
    <3>3. QED
      BY <3>1, <3>2, ForaDeCobranca
  <2>3. CASE q # r
    <3>1. ~ Detem(i, r) /\ emitida'[r] = emitida[r]
      BY <1>1, <1>14, <2>1, <2>3 DEF LiberarCobranca, Detem, TypeOK
    <3>2. QED
      BY <1>1, <2>1, <3>1, LargarSemDireito, SemInterrupcao
  <2>4. QED
    BY <2>2, <2>3
<1>15. ASSUME NEW i \in Instancias, NEW q \in Reservas, Finalizar(i, q) PROVE Meta
  <2>1. PICK p \in Respostas \cup {"cancelar"} :
            /\ Em(i, p, q)
            /\ status' = [status EXCEPT ![q] = EstadoFinal(p)]
            /\ \/ Largar(i)
               \/ /\ passo' = [passo EXCEPT ![i] = "anunciar"]
                  /\ atual' = [atual EXCEPT ![i] = <<q, EstadoFinal(p)>>]
    BY <1>15 DEF Finalizar
  <2>2. UNCHANGED <<emitida, debitos>>
    BY <1>15 DEF Finalizar
  <2>3. CASE q = r
    <3>1. status'[r] = EstadoFinal(p) /\ EstadoFinal(p) # "PROCESSANDO"
      BY <1>1, <2>1, <2>3, EstadoFinalTipo DEF Respostas, TypeOK
    <3>2. ~ Interrompida(r)'
      BY <3>1 DEF Interrompida
    <3>3. p # "cancelar" => Detem(i, r)
      BY <2>1, <2>3 DEF Em, Detem, Direito
    <3>4. Interrompida(r) => p = "cancelar"
      BY <3>3 DEF Interrompida
    <3>5. FicaInterrompida(r)
      BY <1>15, <2>1, <2>2, <2>3, <3>1, <3>4, EstadoFinalTipo DEF FicaInterrompida
    <3>6. QED
      BY <3>2, <3>5 DEF InterrompePorFalha
  <2>4. CASE q # r
    <3>1. status'[r] = status[r]
      BY <1>1, <2>1, <2>4 DEF TypeOK
    <3>2. \A j \in Instancias : Detem(j, r)' <=> Detem(j, r)
      BY <1>1, <2>1, <2>4 DEF Largar, Em, Detem, Direito, Respostas, TypeOK
    <3>3. QED
      BY <2>2, <3>1, <3>2, SemInterrupcao
  <2>5. QED
    BY <2>3, <2>4
<1>16. ASSUME NEW i \in Instancias, NEW q \in Reservas, ResolverConflito(i, q) PROVE Meta
  <2>1. PICK p \in Respostas \cup {"cancelar"} : Em(i, p, q)
    BY <1>16 DEF ResolverConflito
  <2>2. /\ status[q] # "PROCESSANDO" /\ UNCHANGED <<status, emitida, debitos>>
        /\ \/ Largar(i)
           \/ /\ passo' = [passo EXCEPT ![i] = "anunciar"]
              /\ atual' = [atual EXCEPT ![i] = <<q, status[q]>>]
    BY <1>16 DEF ResolverConflito, Finalizavel
  <2>3. q # r => \A j \in Instancias : Detem(j, r)' <=> Detem(j, r)
    BY <1>1, <2>1, <2>2 DEF Largar, Em, Detem, Direito, Respostas, TypeOK
  <2>4. QED
    BY <2>2, <2>3, SemInterrupcao
<1>17. ASSUME NEW i \in Instancias, NEW q \in Reservas, PublicarFato(i, q) PROVE Meta
  <2>1. \A j \in Instancias : Detem(j, r)' <=> Detem(j, r)
    BY <1>1, <1>17 DEF PublicarFato, Em, Ir, Detem, Direito, Respostas, TypeOK
  <2>2. QED
    BY <1>2, <1>17, <2>1 DEF PublicarFato
<1>18. ASSUME NEW i \in Instancias, NEW q \in Reservas, MarcarAnunciado(i, q) PROVE Meta
  BY <1>4, <1>18 DEF MarcarAnunciado, Em, Detem, Direito, Respostas
<1>19. ASSUME NEW i \in Instancias, FalharItem(i) \/ Queda(i) PROVE Meta
  <2>1. /\ ~ Detem(i, r)'
        /\ \A j \in Instancias : j # i => (Detem(j, r)' <=> Detem(j, r))
    BY <1>1, <1>19 DEF FalharItem, Queda, Recomecar, Largar, Detem, Direito, Respostas, TypeOK
  <2>2. UNCHANGED <<status, emitida, debitos>>
    BY <1>19 DEF FalharItem, Queda, Recomecar
  <2>3. QED
    BY <1>19, <2>1, <2>2, FalhaInterrompe
<1>20. ASSUME NEW i \in Instancias, FalharConsulta(i) PROVE Meta
  <2>1. \A j \in Instancias : Detem(j, r)' <=> Detem(j, r)
    BY <1>1, <1>20 DEF FalharConsulta, Recomecar, Detem, Direito, Respostas, TypeOK
  <2>2. QED
    BY <1>2, <1>20, <2>1 DEF FalharConsulta, Recomecar
<1>21. ASSUME \/ \E q \in Reservas : EscolherForma(q)
              \/ \E i \in Instancias : FecharCanal(i)
              \/ PassarTempo \/ UNCHANGED vars
       PROVE  Meta
  BY <1>3, <1>21 DEF EscolherForma, FecharCanal, PassarTempo, vars
<1> HIDE DEF Meta
<1>22. Meta
  BY <1>7, <1>8, <1>9, <1>10, <1>11, <1>12, <1>13, <1>14, <1>15, <1>16, <1>17, <1>18,
     <1>19, <1>20, <1>21 DEF Next, NextSemFalhas, Varrer, RecusarPublicacao
<1>23. QED
  BY <1>22 DEF Meta

LEMMA NaoEscolhidaSempre == Spec => []NaoEscolhida
<1>1. Init => NaoEscolhida
  BY DEF Init, NaoEscolhida
<1>2. TypeOK /\ NaoEscolhida /\ [Next]_vars => NaoEscolhida'
  BY NaoEscolhidaPasso
<1>3. QED
  BY <1>1, <1>2, TipoSempre, PTL DEF Spec

(* An interrupted charge was interrupted by a failure, and stays so: what  *)
(* the run pagamento_interrompida shows on one instance, for any number of *)
(* them, and the only way to it.                                           *)
THEOREM InterrompidaSoPorFalha == Spec => InterrupcaoTemFalha /\ InterrompidaFica
<1> DEFINE Falha == \A r \in Reservas : InterrompePorFalha(r)
           Fica  == \A r \in Reservas : FicaInterrompida(r)
<1>1. CobrancaUnica /\ NaoEscolhida /\ [Next]_vars => [Falha]_vars /\ [Fica]_vars
  BY InterrupcaoPasso, NaoEscolhidaPasso DEF CobrancaUnica
<1>2. QED
  BY <1>1, CobrancaSempre, NaoEscolhidaSempre, PTL
  DEF Spec, InterrupcaoTemFalha, InterrompidaFica
=============================================================================
