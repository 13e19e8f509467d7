------------------------- MODULE CaixaDeSaidaProofs -------------------------
(***************************************************************************)
(* Safety of the outbox publisher, for any number of rows, any batches and *)
(* any number of failures, in both services.                               *)
(***************************************************************************)
EXTENDS CaixaDeSaida, SequenceTheorems, FiniteSetTheorems, TLAPS

(* The answer p waits for: still to come, lost with the channel, or the    *)
(* only one there is, an ack only if the broker has f.                     *)
AMinhaResposta(f) ==
    \/ emVoo = <<f>> /\ confirmacoes = <<>>
    \/ emVoo = <<>> /\ confirmacoes = <<>>
    \/ emVoo = <<>> /\ confirmacoes = <<"nack">>
    \/ emVoo = <<>> /\ confirmacoes = <<"ack">> /\ f \in entregues

Espera(p) == fase[p] = "esperando"

(* Without a wait given up, the channel holds at most the answer of the    *)
(* one publisher that waits.                                               *)
CanalEmDia ==
    atrasos = 0 =>
        /\ (\A p \in Publicadores : ~ Espera(p)) => emVoo = <<>> /\ confirmacoes = <<>>
        /\ \A p \in Publicadores : Espera(p) => \E f \in Fatos : NaMao(p, f) /\ AMinhaResposta(f)

(* The drain works only while the process shuts down, and the ticker then  *)
(* only if its wait was given up.                                          *)
UmDeCadaVez ==
    /\ ~ encerrando => fase["dreno"] = "ociosa"
    /\ servico = "catalogo" => fase["dreno"] = "ociosa"
    /\ encerrando /\ atrasos = 0 => fase["tique"] = "ociosa"

(* The locks of two transactions are of different rows, which SKIP LOCKED  *)
(* gives; the turn that commits needs it.                                  *)
UmPorLinha == lote["tique"] \cap lote["dreno"] = {}

(* A closed channel has no answer to come. *)
FechadoCalado == canal = "fechado" => emVoo = <<>>

(* What the channel owes or holds, with the wait that the order to stop    *)
(* counted as given up and that is not over, against what it may.          *)
Sobra == Len(emVoo) + Len(confirmacoes)
Vez(x) == IF x = "esperando" THEN 1 ELSE 0
Devido == IF Cancelado("tique") /\ fase["tique"] \in {"publicando", "esperando"} THEN 1 ELSE 0
Esperas == Vez(fase["tique"]) + Vez(fase["dreno"])

Folga == Sobra + Devido <= Esperas + atrasos

(* The inductive invariant. *)
Ordem ==
    TypeOK /\ UmPorLinha /\ UmDeCadaVez /\ FechadoCalado /\ CanalEmDia /\ Folga

LEMMA PublicadoresDef == \A p \in Publicadores : p \in {"tique", "dreno"}
                            /\ Outro(p) \in Publicadores /\ Outro(p) # p
    BY DEF Publicadores, Outro

(* The row in hand is one.                                                 *)
LEMMA NaMaoUnico ==
    ASSUME ConstantesCaixa, NEW p \in Publicadores, NEW f \in Fatos, NEW g \in Fatos,
           NaMao(p, f), NaMao(p, g)
    PROVE  f = g
    <1>1. f \in Nat /\ g \in Nat /\ f <= g /\ g <= f
        BY DEF ConstantesCaixa, NaMao
    <1> QED BY <1>1

(* The types are an invariant, action by action.                           *)
LEMMA TipoPasso == ASSUME ConstantesCaixa, TypeOK, [Next]_vars PROVE TypeOK'
    <1> USE ConstantesCaixa DEF TypeOK, ConstantesCaixa
    <1>1. ASSUME NEW f \in Fatos, Enfileirar(f) PROVE TypeOK'
        BY <1>1 DEF Enfileirar, turno, broker
    <1>2. ASSUME NEW p \in Publicadores, Ler(p) PROVE TypeOK'
        <2>1. MaisAntigas(p) \subseteq Fatos BY DEF MaisAntigas, Pendentes
        <2> QED BY <1>2, <2>1 DEF Ler, banco, broker, Fases
    <1>3. ASSUME NEW p \in Publicadores, NEW f \in Fatos, Publicar(p, f) PROVE TypeOK'
        <2>1. emVoo' \in Seq(Fatos) /\ confirmacoes' \in Seq(Respostas) /\ atrasos' \in Nat
            <3>1. CASE canal = "aberto"
                <4>1. Append(emVoo, f) \in Seq(Fatos) BY AppendProperties
                <4> QED BY <1>3, <3>1, <4>1 DEF Publicar
            <3>2. CASE canal # "aberto"
                <4>1. <<f>> \in Seq(Fatos) /\ <<>> \in Seq(Respostas) OBVIOUS
                <4>2. emVoo' = <<f>> /\ confirmacoes' = <<>>
                    BY <1>3, <3>2 DEF Publicar, SemRespostas
                <4>3. atrasos' \in {0, 1}
                    BY <1>3, <3>2 DEF Publicar
                <4> QED BY <4>1, <4>2, <4>3
            <3> QED BY <3>1, <3>2
        <2> QED BY <1>3, <2>1 DEF Publicar, banco, Fases
    <1>4. ASSUME NEW p \in Publicadores, NEW f \in Fatos, PublicarFechado(p, f) PROVE TypeOK'
        BY <1>4 DEF PublicarFechado, Pular, Falha, banco, broker, Fases
    <1>5. ASSUME NEW p \in Publicadores, NEW f \in Fatos, Receber(p, f) PROVE TypeOK'
        <2>1. confirmacoes' \in Seq(Respostas) BY <1>5 DEF Receber
        <2>2. marcadas' \in [Publicadores -> SUBSET Fatos] BY <1>5 DEF Receber
        <2> QED BY <1>5, <2>1, <2>2 DEF Receber, Pular, banco, Fases
    <1>6. ASSUME NEW p \in Publicadores, NEW f \in Fatos, ReceberFechado(p, f) PROVE TypeOK'
        BY <1>6 DEF ReceberFechado, Pular, banco, broker, Fases
    <1>7. ASSUME NEW p \in Publicadores, Confirmar(p) PROVE TypeOK'
        BY <1>7 DEF Confirmar, Gravada, broker, Fases
    <1>8. ASSUME NEW p \in Publicadores, FalharBanco(p) PROVE TypeOK'
        BY <1>8 DEF FalharBanco, Falha, Desfazer, banco, broker, Fases
    <1>9. ASSUME SoltarLinhas PROVE TypeOK'
        BY <1>9 DEF SoltarLinhas, banco, broker, Publicadores
    <1>10. ASSUME Interromper PROVE TypeOK'
        BY <1>10 DEF Interromper, Desfazer, banco, broker, Publicadores, Fases
    <1>11. ASSUME NEW p \in Publicadores, NEW f \in Fatos, Prazo(p, f) PROVE TypeOK'
        <2>1. falhas' \in Nat BY <1>11 DEF Prazo, Falha
        <2>2. /\ fase' \in [Publicadores -> Fases] /\ lote' \in [Publicadores -> SUBSET Fatos]
              /\ resto' \in [Publicadores -> SUBSET Fatos]
              /\ marcadas' \in [Publicadores -> SUBSET Fatos]
            BY <1>11 DEF Prazo, Desfazer, Pular, Fases
        <2> QED BY <1>11, <2>1, <2>2 DEF Prazo, banco, broker
    <1>12. ASSUME Aceitar PROVE TypeOK'
        <2>1. Head(emVoo) \in Fatos /\ Tail(emVoo) \in Seq(Fatos)
            BY <1>12, HeadTailProperties DEF Aceitar
        <2>2. Append(confirmacoes, "ack") \in Seq(Respostas) BY AppendProperties DEF Respostas
        <2> QED BY <1>12, <2>1, <2>2 DEF Aceitar, turno
    <1>13. ASSUME Recusar PROVE TypeOK'
        <2>1. Tail(emVoo) \in Seq(Fatos) BY <1>13, HeadTailProperties DEF Recusar
        <2>2. Append(confirmacoes, "nack") \in Seq(Respostas) BY AppendProperties DEF Respostas
        <2> QED BY <1>13, <2>1, <2>2 DEF Recusar, Falha, turno, banco
    <1>14. Pendurados \subseteq Fatos
        BY DEF Pendurados
    <1>15. ASSUME FecharCanal PROVE TypeOK'
        BY <1>14, <1>15 DEF FecharCanal, Falha, turno
    <1>16. ASSUME Encerrar PROVE TypeOK'
        BY <1>16 DEF Encerrar, Falha, turno, banco, broker
    <1>17. ASSUME DrenarNada PROVE TypeOK'
        BY <1>17 DEF DrenarNada, banco, broker, Publicadores, Fases
    <1>18. ASSUME Recomecar, falhas' \in Nat PROVE TypeOK'
        <2>1. /\ fase' \in [Publicadores -> Fases] /\ lote' \in [Publicadores -> SUBSET Fatos]
              /\ resto' \in [Publicadores -> SUBSET Fatos]
              /\ marcadas' \in [Publicadores -> SUBSET Fatos]
            BY <1>18 DEF Recomecar, Vazio, Fases
        <2>2. <<>> \in Seq(Fatos) /\ <<>> \in Seq(Respostas) OBVIOUS
        <2> QED BY <1>14, <1>18, <2>1, <2>2 DEF Recomecar
    <1>19. ASSUME Reiniciar PROVE TypeOK'
        BY <1>18, <1>19 DEF Reiniciar
    <1>20. ASSUME Queda PROVE TypeOK'
        BY <1>18, <1>20 DEF Queda, Falha
    <1>21. CASE UNCHANGED vars
        BY <1>21 DEF vars
    <1> QED
        BY <1>1, <1>2, <1>3, <1>4, <1>5, <1>6, <1>7, <1>8, <1>9, <1>10, <1>11, <1>12, <1>13,
           <1>15, <1>16, <1>17, <1>19, <1>20, <1>21 DEF Next, Trabalhar, Desistir

-----------------------------------------------------------------------------
(* A turn takes no row the other holds, and the other actions take none.   *)
LEMMA LinhaPasso == ASSUME TypeOK, UmPorLinha, [Next]_vars PROVE UmPorLinha'
    <1> USE DEF TypeOK, UmPorLinha, Publicadores
    <1>1. ASSUME lote' = lote PROVE UmPorLinha'
        BY <1>1
    <1>2. ASSUME NEW p \in Publicadores, lote' = [lote EXCEPT ![p] = {}] PROVE UmPorLinha'
        BY <1>2
    <1>3. ASSUME NEW p \in Publicadores, Ler(p) PROVE UmPorLinha'
        <2>1. MaisAntigas(p) \cap lote[Outro(p)] = {} BY DEF MaisAntigas, Pendentes
        <2> QED BY <1>3, <2>1 DEF Ler, Outro
    <1>4. ASSUME Recomecar PROVE UmPorLinha'
        BY <1>4 DEF Recomecar, Vazio
    <1>5. ASSUME NEW p \in Publicadores, NEW f \in Fatos, Prazo(p, f) PROVE UmPorLinha'
        BY <1>1, <1>2, <1>5 DEF Prazo, Desfazer
    <1>6. ASSUME NEW p \in Publicadores, Trabalhar(p) PROVE UmPorLinha'
        BY <1>1, <1>2, <1>3, <1>6 DEF Trabalhar, Confirmar, Publicar, PublicarFechado,
           Receber, ReceberFechado
    <1>7. ASSUME Desistir PROVE UmPorLinha'
        BY <1>1, <1>2, <1>4, <1>7 DEF Desistir, SoltarLinhas, Interromper, Desfazer, DrenarNada,
           Reiniciar
    <1>8. ASSUME NEW p \in Publicadores, FalharBanco(p) PROVE UmPorLinha'
        BY <1>2, <1>8 DEF FalharBanco, Desfazer
    <1> QED
        BY <1>1, <1>4, <1>5, <1>6, <1>7, <1>8
        DEF Next, Enfileirar, Aceitar, Recusar, FecharCanal, Encerrar, Queda, turno, vars

(* The two publishers take turns, unless a wait was given up.              *)
LEMMA VezPasso == ASSUME TypeOK, UmDeCadaVez, [Next]_vars PROVE UmDeCadaVez'
    <1> USE DEF TypeOK, UmDeCadaVez, Publicadores
    <1>1. ASSUME fase' = fase, encerrando' = encerrando, servico' = servico, atrasos # 0 => atrasos' # 0
          PROVE  UmDeCadaVez'
        BY <1>1
    <1>2. ASSUME NEW p \in Publicadores, fase[p] \in {"publicando", "esperando"},
                 encerrando' = encerrando, servico' = servico, atrasos' = atrasos,
                 \E x \in Fases : fase' = [fase EXCEPT ![p] = x]
          PROVE  UmDeCadaVez'
        BY <1>2
    <1>3. ASSUME NEW p \in Publicadores, Ler(p) PROVE UmDeCadaVez'
        BY <1>3 DEF Ler, Ativo
    <1>4. ASSUME NEW p \in Publicadores, NEW f \in Fatos, Publicar(p, f) PROVE UmDeCadaVez'
        <2>1. CASE canal = "aberto" BY <1>2, <1>4, <2>1 DEF Publicar, Fases
        <2>2. CASE canal # "aberto" BY <1>4, <2>2 DEF Publicar, Reabre, Cancelado
        <2> QED BY <2>1, <2>2
    <1>5. ASSUME NEW p \in Publicadores, NEW f \in Fatos,
                 PublicarFechado(p, f) \/ Receber(p, f) \/ ReceberFechado(p, f)
          PROVE  UmDeCadaVez'
        BY <1>2, <1>5 DEF PublicarFechado, Receber, ReceberFechado, Pular, Fases
    <1>6. ASSUME NEW p \in Publicadores, Confirmar(p) PROVE UmDeCadaVez'
        BY <1>2, <1>6 DEF Confirmar, Fases
    <1>7. ASSUME NEW p \in Publicadores, FalharBanco(p) PROVE UmDeCadaVez'
        BY <1>2, <1>7 DEF FalharBanco, Desfazer, Fases
    <1>8. ASSUME Interromper PROVE UmDeCadaVez'
        BY <1>2, <1>8 DEF Interromper, Desfazer, Fases
    <1>9. ASSUME NEW p \in Publicadores, NEW f \in Fatos, Prazo(p, f) PROVE UmDeCadaVez'
        BY <1>9 DEF Prazo, Desfazer, Pular
    <1>10. ASSUME DrenarNada PROVE UmDeCadaVez'
        BY <1>10 DEF DrenarNada, Ativo
    <1>11. ASSUME Recomecar PROVE UmDeCadaVez'
        BY <1>11 DEF Recomecar
    <1>12. ASSUME Encerrar PROVE UmDeCadaVez'
        BY <1>12 DEF Encerrar, turno
    <1>13. ASSUME NEW p \in Publicadores, Trabalhar(p) PROVE UmDeCadaVez'
        BY <1>3, <1>4, <1>5, <1>6, <1>13 DEF Trabalhar
    <1>14. ASSUME Desistir PROVE UmDeCadaVez'
        BY <1>1, <1>8, <1>10, <1>11, <1>14 DEF Desistir, SoltarLinhas, Reiniciar
    <1>15. ASSUME Aceitar \/ Recusar \/ FecharCanal \/ UNCHANGED vars PROVE UmDeCadaVez'
        BY <1>1, <1>15 DEF Aceitar, Recusar, FecharCanal, turno, vars
    <1> QED
        BY <1>1, <1>7, <1>9, <1>11, <1>12, <1>13, <1>14, <1>15 DEF Next, Enfileirar, turno, Queda

-----------------------------------------------------------------------------
(* Closing a channel drops what was in flight; sending needs an open one.  *)
LEMMA FechadoPasso == ASSUME TypeOK, FechadoCalado, [Next]_vars PROVE FechadoCalado'
    <1> USE DEF TypeOK, FechadoCalado
    <1>1. ASSUME emVoo' = emVoo, canal' = canal PROVE FechadoCalado'
        BY <1>1
    <1>2. ASSUME NEW p \in Publicadores, Trabalhar(p) PROVE FechadoCalado'
        BY <1>1, <1>2 DEF Trabalhar, Ler, Confirmar, Publicar, PublicarFechado, Receber,
           ReceberFechado, broker
    <1>3. ASSUME Desistir PROVE FechadoCalado'
        BY <1>1, <1>3 DEF Desistir, SoltarLinhas, Interromper, DrenarNada, Reiniciar, Recomecar,
           broker
    <1>4. ASSUME NEW p \in Publicadores, FalharBanco(p) \/ \E f \in Fatos : Prazo(p, f)
          PROVE  FechadoCalado'
        BY <1>1, <1>4 DEF FalharBanco, Prazo, broker
    <1>5. ASSUME Aceitar \/ Recusar \/ FecharCanal PROVE FechadoCalado'
        BY <1>5 DEF Aceitar, Recusar, FecharCanal
    <1>6. ASSUME Queda PROVE FechadoCalado'
        BY <1>6 DEF Queda, Recomecar
    <1> QED
        BY <1>1, <1>2, <1>3, <1>4, <1>5, <1>6 DEF Next, Enfileirar, Encerrar, Falha, broker, vars

(* Two publishers wait only on a channel where a wait was given up.        *)
LEMMA UmEspera ==
    ASSUME UmDeCadaVez, TypeOK, atrasos = 0, NEW p \in Publicadores,
           fase[p] \in {"publicando", "esperando"}
    PROVE  ~ Espera(Outro(p))
    BY ConstantesCaixa DEF UmDeCadaVez, TypeOK, Espera, Outro, Publicadores, ConstantesCaixa

(* With nobody waiting, an up-to-date channel is empty.                    *)
LEMMA Vazia ==
    ASSUME CanalEmDia, atrasos = 0, NEW p \in Publicadores, ~ Espera(p), ~ Espera(Outro(p))
    PROVE  emVoo = <<>> /\ confirmacoes = <<>>
    BY PublicadoresDef DEF CanalEmDia, Outro, Publicadores

(* What p holds decides whose the answer is.                               *)
LEMMA CanalPasso ==
    ASSUME ConstantesCaixa, TypeOK, UmDeCadaVez, FechadoCalado, CanalEmDia, [Next]_vars
    PROVE  CanalEmDia'
    <1> USE DEF TypeOK
    <1>1. ASSUME fase' = fase, resto' = resto, emVoo' = emVoo, confirmacoes' = confirmacoes,
                 entregues \subseteq entregues', atrasos # 0 => atrasos' # 0
          PROVE  CanalEmDia'
        BY <1>1 DEF CanalEmDia, Espera, NaMao, AMinhaResposta
    <1>2. ASSUME atrasos' # 0 PROVE CanalEmDia'
        BY <1>2 DEF CanalEmDia
    <1>3. ASSUME emVoo' = <<>>, confirmacoes' = <<>>, \A p \in Publicadores : ~ Espera(p)'
          PROVE  CanalEmDia'
        BY <1>3 DEF CanalEmDia
    <1>4. ASSUME NEW p \in Publicadores, atrasos = 0, ~ Espera(p), ~ Espera(p)',
                 emVoo' = emVoo, confirmacoes' = confirmacoes, entregues' = entregues,
                 fase'[Outro(p)] = fase[Outro(p)], resto'[Outro(p)] = resto[Outro(p)]
          PROVE  CanalEmDia'
        BY <1>4 DEF CanalEmDia, Espera, NaMao, AMinhaResposta, Outro, Publicadores
    <1>5. ASSUME NEW p \in Publicadores, Ler(p), atrasos = 0 PROVE CanalEmDia'
        BY <1>4, <1>5, PublicadoresDef DEF Ler, broker, banco, Espera
    <1>6. ASSUME NEW p \in Publicadores, NEW f \in Fatos, Publicar(p, f), atrasos' = 0
          PROVE  CanalEmDia'
        <2>1. ~ Espera(p) BY <1>6 DEF Publicar, Espera
        <2>2. ~ Espera(Outro(p))
            <3>1. CASE canal = "aberto" BY <1>6, <3>1, UmEspera DEF Publicar
            <3>2. CASE canal # "aberto"
                BY <1>6, <3>2 DEF Publicar, Reabre, UmDeCadaVez, Outro, Publicadores, Espera
            <3> QED BY <3>1, <3>2
        <2>3. emVoo' = <<f>> /\ confirmacoes' = <<>>
            <3>1. CASE canal = "aberto"
                <4>1. emVoo = <<>> /\ confirmacoes = <<>>
                    BY <1>6, <2>1, <2>2, <3>1, Vazia DEF Publicar
                <4> QED BY <1>6, <3>1, <4>1 DEF Publicar
            <3>2. CASE canal # "aberto" BY <1>6, <3>2 DEF Publicar, SemRespostas
            <3> QED BY <3>1, <3>2
        <2>4. Espera(p)' /\ NaMao(p, f)' BY <1>6 DEF Publicar, Espera, NaMao
        <2>5. ~ Espera(Outro(p))' BY <1>6, <2>2, PublicadoresDef DEF Publicar, Espera
        <2> QED
            BY <2>3, <2>4, <2>5, PublicadoresDef DEF CanalEmDia, AMinhaResposta, Outro, Publicadores
    <1>7. ASSUME NEW p \in Publicadores, NEW f \in Fatos, atrasos = 0, PublicarFechado(p, f)
          PROVE  CanalEmDia'
        BY <1>4, <1>7, PublicadoresDef DEF PublicarFechado, Pular, Espera, banco, broker
    <1>8. ASSUME NEW p \in Publicadores, NEW f \in Fatos, atrasos = 0,
                 Receber(p, f) \/ ReceberFechado(p, f)
          PROVE  CanalEmDia'
        <2>1. Espera(p) BY <1>8 DEF Receber, ReceberFechado, Espera
        <2>2. ~ Espera(Outro(p)) BY <1>8, UmEspera DEF Receber, ReceberFechado
        <2>3. PICK g \in Fatos : NaMao(p, g) /\ AMinhaResposta(g) BY <1>8, <2>1 DEF CanalEmDia
        <2>4. emVoo' = <<>> /\ confirmacoes' = <<>>
            <3>1. CASE Receber(p, f)
                <4>1. confirmacoes # <<>> BY <3>1 DEF Receber
                <4>2. emVoo = <<>> /\ confirmacoes \in {<<"ack">>, <<"nack">>}
                    BY <2>3, <4>1 DEF AMinhaResposta
                <4>3. Tail(<<"ack">>) = <<>> /\ Tail(<<"nack">>) = <<>> OBVIOUS
                <4> QED BY <3>1, <4>2, <4>3 DEF Receber
            <3>2. CASE ReceberFechado(p, f)
                BY <3>2 DEF ReceberFechado, FechadoCalado, broker
            <3> QED BY <1>8, <3>1, <3>2
        <2>5. ~ Espera(p)' /\ ~ Espera(Outro(p))'
            BY <1>8, <2>2, PublicadoresDef DEF Receber, ReceberFechado, Pular, Espera
        <2> QED BY <1>3, <2>4, <2>5 DEF Outro, Publicadores
    <1>9. ASSUME Recomecar PROVE CanalEmDia'
        BY <1>3, <1>9 DEF Recomecar, Espera
    <1>10. ASSUME atrasos = 0, SoltarLinhas \/ DrenarNada \/ Interromper PROVE CanalEmDia'
        <2>1. ASSUME SoltarLinhas PROVE CanalEmDia'
            BY <1>1, <2>1 DEF SoltarLinhas, broker, banco
        <2>2. ASSUME DrenarNada PROVE CanalEmDia'
            BY <1>4, <1>10, <2>2, PublicadoresDef
            DEF DrenarNada, broker, banco, Espera, Publicadores
        <2>3. ~ Interromper
            BY <1>10 DEF Interromper, Cancelado, UmDeCadaVez
        <2> QED BY <1>10, <2>1, <2>2, <2>3
    <1>11. ASSUME atrasos = 0, Aceitar \/ Recusar PROVE CanalEmDia'
        <2>1. emVoo # <<>> BY <1>11 DEF Aceitar, Recusar
        <2>2. PICK p \in Publicadores, g \in Fatos : Espera(p) /\ NaMao(p, g) /\ AMinhaResposta(g)
            BY <1>11, <2>1 DEF CanalEmDia
        <2>3. ~ Espera(Outro(p)) BY <1>11, <2>2, UmEspera DEF Espera
        <2>4. emVoo = <<g>> /\ confirmacoes = <<>> BY <2>1, <2>2 DEF AMinhaResposta
        <2>5. /\ Head(<<g>>) = g /\ Tail(<<g>>) = <<>>
              /\ Append(<<>>, "ack") = <<"ack">> /\ Append(<<>>, "nack") = <<"nack">>
            OBVIOUS
        <2>6. AMinhaResposta(g)'
            <3>1. CASE Aceitar BY <2>4, <2>5, <3>1 DEF Aceitar, AMinhaResposta
            <3>2. CASE Recusar BY <2>4, <2>5, <3>2 DEF Recusar, AMinhaResposta
            <3> QED BY <1>11, <3>1, <3>2
        <2>7. Espera(p)' /\ NaMao(p, g)' /\ ~ Espera(Outro(p))'
            BY <1>11, <2>2, <2>3 DEF Aceitar, Recusar, turno, Espera, NaMao
        <2> QED BY <2>6, <2>7, PublicadoresDef DEF CanalEmDia, Outro, Publicadores
    <1>12. ASSUME atrasos = 0, FecharCanal PROVE CanalEmDia'
        <2>1. emVoo' = <<>> /\ confirmacoes' = confirmacoes /\ entregues \subseteq entregues'
            BY <1>12 DEF FecharCanal
        <2>2. \A p \in Publicadores : (Espera(p)' <=> Espera(p)) /\ \A f \in Fatos : NaMao(p, f)' <=> NaMao(p, f)
            BY <1>12 DEF FecharCanal, turno, Espera, NaMao
        <2>3. \A g \in Fatos : AMinhaResposta(g) => AMinhaResposta(g)'
            BY <2>1 DEF AMinhaResposta
        <2> QED BY <1>12, <2>1, <2>2, <2>3 DEF CanalEmDia
    <1>13. ASSUME NEW f \in Fatos, Enfileirar(f) PROVE CanalEmDia'
        BY <1>1, <1>13 DEF Enfileirar, turno, broker
    <1>14. ASSUME Encerrar PROVE CanalEmDia'
        BY <1>1, <1>14 DEF Encerrar, turno, broker, banco
    <1>15. ASSUME NEW p \in Publicadores, NEW f \in Fatos, Prazo(p, f) PROVE CanalEmDia'
        BY <1>2, <1>15 DEF Prazo
    <1>16. CASE UNCHANGED vars
        BY <1>1, <1>16 DEF vars
    <1>17. ASSUME atrasos = 0 \/ atrasos' = 0, NEW p \in Publicadores, Trabalhar(p) PROVE CanalEmDia'
        <2>1. CASE \E f \in Fatos : Publicar(p, f) BY <1>2, <1>6, <2>1
        <2>2. CASE ~ \E f \in Fatos : Publicar(p, f)
            <3>1. atrasos = 0
                BY <1>17, <2>2 DEF Trabalhar, Ler, Confirmar, PublicarFechado, Receber, ReceberFechado
            <3>2. CASE Confirmar(p)
                BY <1>4, <3>1, <3>2, PublicadoresDef DEF Confirmar, Espera, broker
            <3> QED BY <1>5, <1>7, <1>8, <1>17, <2>2, <3>1, <3>2 DEF Trabalhar
        <2> QED BY <2>1, <2>2
    <1>18. ASSUME atrasos = 0 \/ atrasos' = 0, Desistir PROVE CanalEmDia'
        <2>1. CASE Reiniciar BY <1>9, <2>1 DEF Reiniciar
        <2>2. CASE ~ Reiniciar
            BY <1>10, <1>18, <2>2 DEF Desistir, SoltarLinhas, DrenarNada, Interromper
        <2> QED BY <2>1, <2>2
    <1>19. ASSUME atrasos = 0 \/ atrasos' = 0, NEW p \in Publicadores, FalharBanco(p) PROVE CanalEmDia'
        BY <1>4, <1>19, PublicadoresDef DEF FalharBanco, Desfazer, Espera, banco, broker
    <1>20. ASSUME atrasos = 0 \/ atrasos' = 0, Aceitar \/ Recusar \/ FecharCanal PROVE CanalEmDia'
        <2>1. atrasos' = atrasos BY <1>20 DEF Aceitar, Recusar, FecharCanal
        <2> QED BY <1>11, <1>12, <1>20, <2>1
    <1>21. ASSUME Queda PROVE CanalEmDia'
        BY <1>9, <1>21 DEF Queda
    <1>22. CASE atrasos # 0 /\ atrasos' # 0 BY <1>2, <1>22
    <1> QED
        BY <1>13, <1>14, <1>15, <1>16, <1>17, <1>18, <1>19, <1>20, <1>21, <1>22 DEF Next

-----------------------------------------------------------------------------
(* Those that wait are counted one by one. *)
LEMMA Esperam ==
    Cardinality({p \in Publicadores : fase[p] = "esperando"})
        = Vez(fase["tique"]) + Vez(fase["dreno"])
    <1> DEFINE E == {p \in Publicadores : fase[p] = "esperando"}
    <1>1. CASE fase["tique"] # "esperando" /\ fase["dreno"] # "esperando"
        <2>1. E = {} BY <1>1 DEF Publicadores
        <2>2. Cardinality(E) = 0 BY <2>1, FS_EmptySet
        <2> QED BY <1>1, <2>2 DEF Vez
    <1>2. CASE fase["tique"] = "esperando" /\ fase["dreno"] # "esperando"
        <2>1. E = {"tique"} BY <1>2 DEF Publicadores
        <2>2. Cardinality(E) = 1 BY <2>1, FS_Singleton
        <2> QED BY <1>2, <2>2 DEF Vez
    <1>3. CASE fase["tique"] # "esperando" /\ fase["dreno"] = "esperando"
        <2>1. E = {"dreno"} BY <1>3 DEF Publicadores
        <2>2. Cardinality(E) = 1 BY <2>1, FS_Singleton
        <2> QED BY <1>3, <2>2 DEF Vez
    <1>4. CASE fase["tique"] = "esperando" /\ fase["dreno"] = "esperando"
        <2>1. E = {"tique"} \cup {"dreno"} BY <1>4 DEF Publicadores
        <2>2. Cardinality({"tique"}) = 1 /\ IsFiniteSet({"tique"}) BY FS_Singleton
        <2>3. "dreno" \notin {"tique"} OBVIOUS
        <2>4. Cardinality(E) = 2 BY <2>1, <2>2, <2>3, FS_AddElement
        <2> QED BY <1>4, <2>4 DEF Vez
    <1> QED BY <1>1, <1>2, <1>3, <1>4

(* A publication adds an answer and one that waits, a confirmation takes   *)
(* both away, and who stops waiting without one was counted.               *)
LEMMA FolgaPasso ==
    ASSUME TypeOK, UmDeCadaVez, FechadoCalado, Folga, [Next]_vars
    PROVE  Folga'
    <1> USE DEF TypeOK
    <1>1. /\ Sobra \in Nat /\ atrasos \in Nat
          /\ Esperas \in Nat /\ Esperas' \in Nat /\ Devido \in Nat /\ Devido' \in Nat
        BY DEF Sobra, Esperas, Vez, Devido
    (* The channel, those that wait and the counts make up for each other. *)
    <1>2. ASSUME NEW s \in Nat, NEW d \in Nat, NEW e \in Nat, NEW a \in Nat,
                 Sobra' = s, Devido' = d, Esperas' = e, atrasos' = a,
                 s + d + Esperas + atrasos <= Sobra + Devido + e + a
          PROVE  Folga'
        <2>1. s + d <= e + a BY <1>1, <1>2 DEF Folga
        <2> QED BY <1>2, <2>1, Zenon DEF Folga
    (* Nothing new on the channel, and nothing less is expected of it. *)
    <1>3. ASSUME UNCHANGED <<emVoo, confirmacoes>>,
                 NEW d \in Nat, NEW e \in Nat, NEW a \in Nat,
                 Devido' = d, Esperas' = e, atrasos' = a,
                 d + Esperas + atrasos <= Devido + e + a
          PROVE  Folga'
        <2>1. Sobra' = Sobra BY <1>3 DEF Sobra
        <2>2. Sobra + d + Esperas + atrasos <= Sobra + Devido + e + a BY <1>1, <1>3
        <2> QED BY <1>1, <1>2, <1>3, <2>1, <2>2
    <1>4. ASSUME UNCHANGED <<fase, encerrando, atrasos>>, NEW s \in Nat, Sobra' = s, s <= Sobra
          PROVE  Folga'
        <2>1. Esperas' = Esperas /\ Devido' = Devido
            BY <1>4 DEF Esperas, Devido, Cancelado
        <2>2. s + Devido + Esperas + atrasos <= Sobra + Devido + Esperas + atrasos BY <1>1, <1>4
        <2> QED BY <1>1, <1>2, <1>4, <2>1, <2>2
    (* An empty channel, where who has to give a wait up was counted. *)
    <1>5. ASSUME emVoo' = <<>>, confirmacoes' = <<>>, atrasos' \in Nat,
                 Cancelado("tique")' /\ fase'["tique"] = "publicando" => atrasos' # 0
          PROVE  Folga'
        <2>1. Sobra' = 0
            <3>1. Len(emVoo') = 0 /\ Len(confirmacoes') = 0 BY <1>5
            <3>2. Sobra' = 0 + 0 BY <3>1, Zenon DEF Sobra
            <3> QED BY <3>2
        <2>2. Devido' \in {0, 1} /\ (Devido' = 1 => Esperas' # 0 \/ atrasos' # 0)
            BY <1>5 DEF Esperas, Vez, Devido, Cancelado
        <2>3. PICK e \in Nat, a \in Nat : e = Esperas' /\ a = atrasos' BY <1>1, <1>5
        <2>4. PICK d \in Nat : d = Devido' BY <1>1
        <2>5. d \in {0, 1} /\ (d = 1 => e # 0 \/ a # 0) BY <2>2, <2>3, <2>4, Zenon
        <2>6. 0 + d <= e + a BY <2>5
        <2> QED BY <2>1, <2>3, <2>4, <2>6, Zenon DEF Folga
    <1>6. ASSUME NEW p \in Publicadores, NEW f \in Fatos, Publicar(p, f) PROVE Folga'
        <2>1. fase[p] = "publicando" /\ fase' = [fase EXCEPT ![p] = "esperando"]
              /\ UNCHANGED encerrando
            BY <1>6 DEF Publicar
        <2>2. CASE canal = "aberto"
            <3>1. Sobra' = Sobra + 1
                <4>1. Len(emVoo') = Len(emVoo) + 1 BY <1>6, <2>2 DEF Publicar
                <4>2. confirmacoes' = confirmacoes BY <1>6, <2>2 DEF Publicar
                <4>3. Sobra' = (Len(emVoo) + 1) + Len(confirmacoes)
                    BY <4>1, <4>2, Zenon DEF Sobra
                <4> QED BY <4>3 DEF Sobra
            <3>2. atrasos' = atrasos BY <1>6, <2>2 DEF Publicar
            <3>3. Esperas' = Esperas + 1 /\ Devido' = Devido
                BY <2>1 DEF Esperas, Vez, Devido, Cancelado, Publicadores
            <3> QED BY <1>1, <1>2, <3>1, <3>2, <3>3
        <2>3. CASE canal # "aberto"
            <3>1. Sobra' = 1 BY <1>6, <2>3 DEF Publicar, SemRespostas, Sobra
            <3>2. p = "tique" /\ fase["dreno"] = "ociosa"
                BY <1>6, <2>1, <2>3 DEF Publicar, Reabre, UmDeCadaVez, Publicadores
            <3>3. atrasos' = IF encerrando THEN 1 ELSE 0
                BY <1>6, <2>3, <3>2 DEF Publicar, Cancelado
            <3>4. Esperas' = 1 /\ Devido' = IF encerrando THEN 1 ELSE 0
                BY <2>1, <3>2 DEF Esperas, Vez, Devido, Cancelado, Publicadores
            <3> QED BY <3>1, <3>3, <3>4 DEF Folga
        <2> QED BY <2>2, <2>3
    <1>7. ASSUME NEW p \in Publicadores, NEW f \in Fatos, PublicarFechado(p, f)
          PROVE  Folga'
        <2>1. Esperas' = Esperas /\ Devido' = Devido
            BY <1>7 DEF PublicarFechado, Pular, Esperas, Vez, Devido, Cancelado, Publicadores
        <2> QED BY <1>1, <1>3, <1>7, <2>1 DEF PublicarFechado, broker
    <1>8. ASSUME NEW p \in Publicadores, NEW f \in Fatos, Receber(p, f) PROVE Folga'
        <2>1. Len(confirmacoes') = Len(confirmacoes) - 1 /\ Len(confirmacoes') \in Nat
            BY <1>8, HeadTailProperties DEF Receber
        <2>2. PICK s \in Nat : Sobra' = s /\ s + 1 = Sobra
            <3>1. PICK c \in Nat : c = Len(confirmacoes') /\ c + 1 = Len(confirmacoes)
                BY <2>1
            <3>2. emVoo' = emVoo BY <1>8 DEF Receber
            <3>3. Sobra' = Len(emVoo) + c BY <3>1, <3>2, Zenon DEF Sobra
            <3>4. Sobra = Len(emVoo) + (c + 1) BY <3>1, Zenon DEF Sobra
            <3>5. Len(emVoo) + c \in Nat /\ (Len(emVoo) + c) + 1 = Sobra BY <3>1, <3>4
            <3> QED BY <3>3, <3>5, Zenon
        <2>3. Devido' = Devido
            BY <1>8 DEF Receber, Pular, Devido, Cancelado, Publicadores
        <2>4. PICK e \in Nat : Esperas' = e /\ e + 1 = Esperas
            BY <1>8 DEF Receber, Pular, Esperas, Vez, Publicadores
        <2>5. atrasos' = atrasos BY <1>8 DEF Receber
        <2>6. s + Devido + Esperas + atrasos <= Sobra + Devido + e + atrasos
            BY <1>1, <2>2, <2>4
        <2> QED BY <1>1, <1>2, <2>2, <2>3, <2>4, <2>5, <2>6
    <1>9. ASSUME NEW p \in Publicadores, NEW f \in Fatos, ReceberFechado(p, f) PROVE Folga'
        <2>1. emVoo' = <<>> /\ confirmacoes' = <<>> /\ atrasos' = atrasos
            BY <1>9 DEF ReceberFechado, FechadoCalado, broker
        <2>2. Cancelado("tique")' /\ fase'["tique"] = "publicando" => atrasos # 0
            BY <1>9 DEF ReceberFechado, Pular, UmDeCadaVez, Cancelado, Publicadores
        <2> QED BY <1>5, <2>1, <2>2
    <1>10. ASSUME NEW p \in Publicadores, Ler(p) \/ Confirmar(p) \/ FalharBanco(p)
           PROVE  Folga'
        <2>1. UNCHANGED <<emVoo, confirmacoes, atrasos>>
            BY <1>10 DEF Ler, Confirmar, FalharBanco, broker
        <2>2. PICK d \in Nat, e \in Nat : Devido' = d /\ Esperas' = e BY <1>1
        <2>3. d + Esperas <= Devido + e
            BY <2>2, <1>10 DEF Ler, Ativo, Confirmar, FalharBanco, Desfazer, Esperas, Vez, Devido,
               Cancelado, Publicadores
        <2>4. d + Esperas + atrasos <= Devido + e + atrasos BY <1>1, <2>3
        <2> QED BY <1>1, <1>3, <2>1, <2>2, <2>4
    <1>11. ASSUME NEW p \in Publicadores, NEW f \in Fatos, Prazo(p, f) PROVE Folga'
        <2>1. UNCHANGED <<emVoo, confirmacoes>> /\ atrasos' = atrasos + 1
            BY <1>11 DEF Prazo, broker
        <2>2. PICK d \in Nat, e \in Nat : Devido' = d /\ Esperas' = e BY <1>1
        <2>3. d + Esperas <= Devido + e + 1
            BY <2>2, <1>11 DEF Prazo, Desfazer, Pular, Esperas, Vez, Devido, Cancelado,
               Publicadores
        <2>4. d + Esperas + atrasos <= Devido + e + (atrasos + 1) BY <1>1, <2>3
        <2> QED BY <1>1, <1>3, <2>1, <2>2, <2>4
    <1>12. ASSUME Interromper \/ DrenarNada PROVE Folga'
        <2>1. UNCHANGED <<emVoo, confirmacoes, atrasos>>
            BY <1>12 DEF Interromper, DrenarNada, broker
        <2>2. PICK d \in Nat, e \in Nat : Devido' = d /\ Esperas' = e BY <1>1
        <2>3. d + Esperas <= Devido + e
            BY <2>2, <1>12 DEF Interromper, DrenarNada, Desfazer, Esperas, Vez, Devido,
               Cancelado, Publicadores
        <2>4. d + Esperas + atrasos <= Devido + e + atrasos BY <1>1, <2>3
        <2> QED BY <1>1, <1>3, <2>1, <2>2, <2>4
    <1>13. ASSUME Aceitar \/ Recusar PROVE Folga'
        <2>1. Len(emVoo') = Len(emVoo) - 1 /\ Len(emVoo') \in Nat
            BY <1>13, HeadTailProperties DEF Aceitar, Recusar
        <2>2. Len(confirmacoes') = Len(confirmacoes) + 1
            BY <1>13 DEF Aceitar, Recusar, Respostas
        <2>3. Sobra' = Sobra BY <2>1, <2>2 DEF Sobra
        <2> QED BY <1>1, <1>4, <1>13, <2>3 DEF Aceitar, Recusar, turno
    <1>14. ASSUME FecharCanal PROVE Folga'
        <2>1. Sobra' \in Nat /\ Sobra' <= Sobra BY <1>14 DEF FecharCanal, Sobra
        <2> QED BY <1>4, <1>14, <2>1 DEF FecharCanal, turno
    <1>15. ASSUME Encerrar PROVE Folga'
        <2>1. UNCHANGED <<emVoo, confirmacoes>> BY <1>15 DEF Encerrar, broker
        <2>2. PICK d \in Nat, e \in Nat : Devido' = d /\ Esperas' = e BY <1>1
        <2>3. PICK n \in {0, 1} : atrasos' = atrasos + n /\ (fase["tique"] # "ociosa" => n = 1)
            BY <1>15 DEF Encerrar
        <2>4. d + Esperas <= Devido + e + n
            BY <1>15, <2>2, <2>3 DEF Encerrar, turno, Esperas, Vez, Devido, Cancelado
        <2>5. atrasos + n \in Nat BY <1>1, <2>3
        <2>6. d + Esperas + atrasos <= Devido + e + (atrasos + n) BY <1>1, <2>3, <2>4
        <2> QED BY <1>3, <2>1, <2>2, <2>3, <2>5, <2>6
    <1>16. ASSUME Recomecar PROVE Folga'
        BY <1>5, <1>16 DEF Recomecar, Cancelado
    <1>17. ASSUME UNCHANGED <<fase, encerrando, atrasos, emVoo, confirmacoes>> PROVE Folga'
        <2>1. Sobra' = Sobra BY <1>17 DEF Sobra
        <2> QED BY <1>1, <1>4, <1>17, <2>1
    <1> HIDE DEF TypeOK
    <1>18. ASSUME NEW p \in Publicadores, Trabalhar(p) PROVE Folga'
        BY <1>6, <1>7, <1>8, <1>9, <1>10, <1>18 DEF Trabalhar
    <1>19. ASSUME Desistir PROVE Folga'
        BY <1>12, <1>16, <1>17, <1>19 DEF Desistir, SoltarLinhas, Reiniciar, broker
    <1>20. ASSUME NEW f \in Fatos, Enfileirar(f) PROVE Folga'
        BY <1>17, <1>20 DEF Enfileirar, turno, broker
    <1>21. CASE UNCHANGED vars
        BY <1>17, <1>21 DEF vars
    <1> QED
        BY <1>10, <1>11, <1>13, <1>14, <1>15, <1>16, <1>18, <1>19, <1>20, <1>21 DEF Next, Queda

-----------------------------------------------------------------------------
(* The invariant holds at the start and in every step.                     *)
LEMMA OrdemInicio == Init => Ordem
    <1> SUFFICES ASSUME Init PROVE Ordem
        OBVIOUS
    <1>1. <<>> \in Seq(Fatos) /\ <<>> \in Seq(Respostas) OBVIOUS
    <1>2. TypeOK BY <1>1 DEF Init, TypeOK, Vazio, Fases
    <1>3. UmPorLinha /\ UmDeCadaVez /\ FechadoCalado
        BY DEF Init, UmPorLinha, UmDeCadaVez, FechadoCalado, Vazio, Publicadores
    <1>4. CanalEmDia BY DEF Init, CanalEmDia, Espera
    <1>5. Folga
        <2>1. Sobra = 0 BY DEF Init, Sobra
        <2>2. Esperas = 0 /\ Devido = 0 /\ atrasos = 0
            BY DEF Init, Esperas, Vez, Devido, Cancelado, Publicadores
        <2> QED BY <2>1, <2>2 DEF Folga
    <1> QED BY <1>2, <1>3, <1>4, <1>5 DEF Ordem

LEMMA OrdemPasso == ASSUME ConstantesCaixa, Ordem, [Next]_vars PROVE Ordem'
    BY TipoPasso, LinhaPasso, VezPasso, FechadoPasso, CanalPasso, FolgaPasso DEF Ordem

LEMMA OrdemSempre == Spec => []Ordem
    <1> USE ConstantesCaixa
    <1>1. Ordem /\ [Next]_vars => Ordem' BY OrdemPasso
    <1> QED BY OrdemInicio, <1>1, PTL DEF Spec

(* Every variable keeps its type.                                          *)
THEOREM TipoSempre == Spec => []TypeOK
    <1>1. Ordem => TypeOK BY DEF Ordem
    <1> QED BY OrdemSempre, <1>1, PTL

(* What is left on the channel was left by a wait given up, one answer for *)
(* each: two publishers, five-second limits, closings and the shutdown     *)
(* shift the confirmations by no more than that.                           *)
THEOREM SobraDeDesistencia == Spec => []SobraContada
    <1>1. ASSUME Ordem PROVE SobraContada
        <2>1. Sobra \in Nat /\ atrasos \in Nat /\ Folga BY <1>1 DEF Ordem, TypeOK, Sobra
        <2>2. Esperas \in Nat /\ Devido \in Nat BY DEF Esperas, Vez, Devido
        <2>3. Sobra <= Esperas + atrasos BY <2>1, <2>2 DEF Folga
        <2> QED BY <2>3, Esperam DEF SobraContada, Sobra, Esperas
    <1> QED BY OrdemSempre, <1>1, PTL

(* Who marks a row took its own answer, unless a wait was given up.        *)
LEMMA MarcaCerta ==
    ASSUME Ordem, [Next]_vars
    PROVE  \A p \in Publicadores : \A f \in marcadas'[p] \ marcadas[p] : f \notin entregues => atrasos > 0
    <1> DEFINE Certa == \A p \in Publicadores : \A f \in marcadas'[p] \ marcadas[p] :
                           f \notin entregues => atrasos > 0
    <1>1. ASSUME NEW q \in Publicadores, NEW g \in Fatos, Receber(q, g) PROVE Certa
        <2>1. SUFFICES ASSUME atrasos = 0, NEW f \in marcadas'[q] \ marcadas[q] PROVE f \in entregues
            BY <1>1 DEF Receber, Ordem, TypeOK
        <2>2. f = g /\ Head(confirmacoes) = "ack"
            BY <1>1, <2>1 DEF Receber, Marca, Ordem, TypeOK
        <2>3. PICK h \in Fatos : NaMao(q, h) /\ AMinhaResposta(h)
            BY <1>1, <2>1 DEF Receber, Ordem, CanalEmDia, Espera
        <2>4. h = g BY <1>1, <2>3, NaMaoUnico, ConstantesCaixa DEF Receber
        <2>5. Head(<<"nack">>) = "nack" OBVIOUS
        <2> QED BY <1>1, <2>2, <2>3, <2>4, <2>5 DEF AMinhaResposta, Receber
    <1>2. ASSUME \A q \in Publicadores : marcadas'[q] \subseteq marcadas[q] PROVE Certa
        BY <1>2
    <1>3. ASSUME NEW q \in Publicadores, marcadas' = [marcadas EXCEPT ![q] = {}] PROVE Certa
        BY <1>2, <1>3 DEF Ordem, TypeOK
    <1>4. ASSUME marcadas' = marcadas PROVE Certa
        BY <1>2, <1>4
    <1>5. ASSUME marcadas' = Vazio PROVE Certa
        BY <1>2, <1>5 DEF Vazio
    <1>6. ASSUME NEW q \in Publicadores, Trabalhar(q) PROVE Certa
        BY <1>1, <1>3, <1>4, <1>6 DEF Trabalhar, Ler, Confirmar, Publicar, PublicarFechado,
           ReceberFechado
    <1>7. ASSUME Desistir PROVE Certa
        BY <1>3, <1>4, <1>5, <1>7 DEF Desistir, SoltarLinhas, Interromper, Desfazer,
           DrenarNada, Reiniciar, Recomecar, Publicadores
    <1>8. ASSUME NEW q \in Publicadores, NEW g \in Fatos, Prazo(q, g) PROVE Certa
        BY <1>3, <1>4, <1>8 DEF Prazo, Desfazer
    <1>9. ASSUME NEW q \in Publicadores, FalharBanco(q) PROVE Certa
        BY <1>3, <1>9 DEF FalharBanco, Desfazer
    <1> QED
        BY <1>4, <1>5, <1>6, <1>7, <1>8, <1>9
        DEF Next, Enfileirar, Aceitar, Recusar, FecharCanal, Encerrar, Queda, Recomecar, turno,
            vars

(* Only a wait that was given up exchanges the confirmations of two facts. *)
THEOREM SemTroca == Spec => TrocaSoPorAtraso
    <1> DEFINE Certa == \A p \in Publicadores : \A f \in marcadas'[p] \ marcadas[p] :
                           f \notin entregues => atrasos > 0
    <1>1. ASSUME Ordem, [Next]_vars PROVE [Certa]_vars
        BY <1>1, MarcaCerta
    <1> QED BY OrdemSempre, <1>1, PTL DEF TrocaSoPorAtraso, Spec

-----------------------------------------------------------------------------
(* What a publisher holds is pending, what it marked it holds, and what it *)
(* has still to send was committed; a turn that was not cancelled holds    *)
(* all it has to send.                                                     *)
Guardadas == {f \in Fatos : linha[f] # "ausente"}

Retida ==
    \A p \in Publicadores :
        /\ \A f \in lote[p] : linha[f] = "pendente"
        /\ marcadas[p] \subseteq lote[p]
        /\ resto[p] \subseteq Guardadas
        /\ ~ Cancelado(p) => resto[p] \subseteq lote[p]
        /\ fase[p] \in {"ociosa", "encerrada"} => marcadas[p] = {}

(* The promise of an outbox: the broker has, or is sent, committed facts   *)
(* only.  enfileirarFato writes the row in the transaction of the change   *)
(* it announces.                                                           *)
SoConfirmados == entregues \cup Pendurados \subseteq Guardadas

(* A row is written, then marked, and stays marked: no failure, shutdown   *)
(* or fall takes a step back, and no row is marked before it is pending.   *)
LinhaSoAvanca ==
    [][\A f \in Fatos : linha'[f] # linha[f] =>
          \/ linha[f] = "ausente" /\ linha'[f] = "pendente"
          \/ linha[f] = "pendente" /\ linha'[f] = "publicada"]_vars

(* What reaches the broker was in flight, and what is in flight was sent.  *)
LEMMA PenduradosPasso ==
    ASSUME TypeOK
    PROVE  /\ Pendurados \subseteq Fatos
           /\ emVoo = <<>> => Pendurados = {}
           /\ \A f \in Fatos : emVoo' = Append(emVoo, f) => Pendurados' = Pendurados \cup {f}
           /\ \A f \in Fatos : emVoo' = <<f>> => Pendurados' = {f}
           /\ emVoo' = <<>> => Pendurados' = {}
           /\ emVoo # <<>> => Head(emVoo) \in Pendurados
           /\ emVoo # <<>> /\ emVoo' = Tail(emVoo) => Pendurados' \subseteq Pendurados
    <1> USE DEF TypeOK, Pendurados
    <1>1. Pendurados \subseteq Fatos OBVIOUS
    <1>2. emVoo = <<>> => Pendurados = {} OBVIOUS
    <1>3. ASSUME NEW f \in Fatos, emVoo' = Append(emVoo, f)
          PROVE  Pendurados' = Pendurados \cup {f}
        <2>1. /\ DOMAIN emVoo = 1..Len(emVoo) /\ Len(emVoo) \in Nat
              /\ DOMAIN emVoo' = 1..(Len(emVoo) + 1)
              /\ emVoo'[Len(emVoo) + 1] = f
              /\ \A k \in 1..Len(emVoo) : emVoo'[k] = emVoo[k]
            BY <1>3, AppendProperties
        <2>2. Pendurados' \subseteq Pendurados \cup {f} BY <2>1
        <2>3. Pendurados \subseteq Pendurados' BY <2>1
        <2>4. f \in Pendurados'
            <3>1. Len(emVoo) + 1 \in DOMAIN emVoo' BY <2>1
            <3> QED BY <2>1, <3>1
        <2> QED BY <2>2, <2>3, <2>4
    <1>4. ASSUME NEW f \in Fatos, emVoo' = <<f>> PROVE Pendurados' = {f}
        BY <1>4
    <1>5. ASSUME emVoo' = <<>> PROVE Pendurados' = {}
        BY <1>5
    <1>6. ASSUME emVoo # <<>> PROVE Head(emVoo) \in Pendurados
        <2>1. Head(emVoo) = emVoo[1] /\ 1 \in DOMAIN emVoo BY <1>6
        <2> QED BY <2>1
    <1>7. ASSUME emVoo # <<>>, emVoo' = Tail(emVoo) PROVE Pendurados' \subseteq Pendurados
        <2>1. /\ DOMAIN emVoo = 1..Len(emVoo) /\ Len(emVoo) \in Nat
              /\ DOMAIN emVoo' = 1..(Len(emVoo) - 1)
              /\ \A k \in 1..(Len(emVoo) - 1) : emVoo'[k] = emVoo[k + 1]
            BY <1>7, HeadTailProperties
        <2>2. ASSUME NEW k \in DOMAIN emVoo' PROVE emVoo'[k] \in Pendurados
            <3>1. k + 1 \in DOMAIN emVoo /\ emVoo'[k] = emVoo[k + 1] BY <2>1
            <3> QED BY <3>1
        <2> QED BY <2>2
    <1> QED BY <1>1, <1>2, <1>3, <1>4, <1>5, <1>6, <1>7

(* A row is only ever marked by who holds it.                              *)
LEMMA RetidaPasso ==
    ASSUME TypeOK, UmPorLinha, Retida, [Next]_vars
    PROVE  /\ Retida'
           /\ Guardadas \subseteq Guardadas'
           /\ \A f \in Fatos : linha'[f] # linha[f] =>
                 \/ linha[f] = "ausente" /\ linha'[f] = "pendente"
                 \/ linha[f] = "pendente" /\ linha'[f] = "publicada"
    <1> DEFINE Meta == /\ Retida'
                       /\ Guardadas \subseteq Guardadas'
                       /\ \A f \in Fatos : linha'[f] # linha[f] =>
                             \/ linha[f] = "ausente" /\ linha'[f] = "pendente"
                             \/ linha[f] = "pendente" /\ linha'[f] = "publicada"
    <1> USE DEF TypeOK, Retida, Guardadas, Publicadores, Cancelado
    (* Rows that stay as they are, and a turn that lets go of some. *)
    <1>1. ASSUME linha' = linha,
                 \A p \in Publicadores : /\ lote'[p] \subseteq lote[p]
                                         /\ marcadas'[p] \subseteq marcadas[p]
                                         /\ marcadas'[p] \subseteq lote'[p]
                                         /\ resto'[p] \subseteq resto[p]
                                         /\ lote'[p] = lote[p] \/ resto'[p] = {} \/ Cancelado(p),
                 \A p \in Publicadores : Cancelado(p) => Cancelado(p)' \/ resto'[p] = {},
                 \A p \in Publicadores : fase'[p] \in {"ociosa", "encerrada"} =>
                    fase[p] \in {"ociosa", "encerrada"} \/ marcadas'[p] = {}
          PROVE  Meta
        BY <1>1
    <1>2. ASSUME NEW f \in Fatos, Enfileirar(f) PROVE Meta
        BY <1>2 DEF Enfileirar, turno
    <1>3. ASSUME NEW p \in Publicadores, Ler(p) PROVE Meta
        <2>1. \A f \in MaisAntigas(p) : f \in Fatos /\ linha[f] = "pendente"
            BY DEF MaisAntigas, Pendentes
        <2>2. marcadas[p] = {} BY <1>3 DEF Ler
        <2>3. /\ linha' = linha /\ marcadas' = marcadas /\ encerrando' = encerrando
              /\ lote'[p] = MaisAntigas(p) /\ resto'[p] = MaisAntigas(p) /\ fase'[p] = "publicando"
              /\ \A q \in Publicadores \ {p} :
                    lote'[q] = lote[q] /\ resto'[q] = resto[q] /\ fase'[q] = fase[q]
            BY <1>3 DEF Ler, banco
        <2>4. MaisAntigas(p) \subseteq Guardadas BY <2>1
        <2> HIDE DEF Guardadas
        <2>5. Guardadas' = Guardadas BY <2>3 DEF Guardadas
        <2>6. Retida'
            BY <2>1, <2>2, <2>3, <2>4, <2>5
        <2> QED BY <2>3, <2>5, <2>6
    <1>4. ASSUME NEW p \in Publicadores, NEW f \in Fatos, Publicar(p, f) PROVE Meta
        BY <1>1, <1>4 DEF Publicar, banco
    <1>5. ASSUME NEW p \in Publicadores, NEW f \in Fatos, PublicarFechado(p, f) PROVE Meta
        BY <1>1, <1>5 DEF PublicarFechado, Pular, banco
    <1>6. ASSUME NEW p \in Publicadores, NEW f \in Fatos, Receber(p, f) PROVE Meta
        <2>1. f \in resto[p] BY <1>6 DEF Receber, NaMao
        <2>2. /\ linha' = linha /\ lote' = lote /\ encerrando' = encerrando
              /\ \A q \in Publicadores : resto'[q] \subseteq resto[q]
              /\ fase'[p] = "publicando"
              /\ \A q \in Publicadores \ {p} : marcadas'[q] = marcadas[q] /\ fase'[q] = fase[q]
              /\ marcadas'[p] \subseteq IF Cancelado(p) THEN marcadas[p] ELSE marcadas[p] \cup {f}
            BY <1>6 DEF Receber, Pular, banco
        <2>3. marcadas'[p] \subseteq lote[p] BY <2>1, <2>2
        <2> QED BY <2>2, <2>3
    <1>7. ASSUME NEW p \in Publicadores, NEW f \in Fatos, ReceberFechado(p, f) PROVE Meta
        BY <1>1, <1>7 DEF ReceberFechado, Pular, banco
    <1>8. ASSUME NEW p \in Publicadores, Confirmar(p) PROVE Meta
        <2>1. \A f \in Fatos : linha'[f] = IF f \in marcadas[p] THEN "publicada" ELSE linha[f]
            BY <1>8 DEF Confirmar, Gravada
        <2>2. \A f \in marcadas[p] : linha[f] = "pendente" /\ f \notin lote[Outro(p)]
            BY DEF UmPorLinha, Outro
        <2>3. /\ lote'[p] = {} /\ marcadas'[p] = {} /\ resto' = resto /\ resto[p] = {}
              /\ lote'[Outro(p)] = lote[Outro(p)] /\ marcadas'[Outro(p)] = marcadas[Outro(p)]
              /\ encerrando' = encerrando /\ fase'[Outro(p)] = fase[Outro(p)]
            BY <1>8 DEF Confirmar, Outro
        <2>4. Guardadas \subseteq Guardadas' BY <2>1
        <2>5. Retida'
            <3>1. \A q \in Publicadores : q = p \/ q = Outro(p) BY DEF Outro
            <3>2. \A f \in lote[Outro(p)] : f \in Fatos /\ linha'[f] = "pendente"
                BY <2>1, <2>2, PublicadoresDef
            <3>3. resto[Outro(p)] \subseteq Guardadas' BY <2>4, PublicadoresDef
            <3> QED BY <2>3, <3>1, <3>2, <3>3, PublicadoresDef
        <2> QED BY <2>1, <2>2, <2>4, <2>5
    <1>9. ASSUME NEW p \in Publicadores, Desfazer(p), linha' = linha, encerrando' = encerrando
          PROVE  Meta
        BY <1>1, <1>9 DEF Desfazer
    <1>10. ASSUME SoltarLinhas PROVE Meta
        BY <1>1, <1>10 DEF SoltarLinhas, banco
    <1>11. ASSUME NEW p \in Publicadores, NEW f \in Fatos, Prazo(p, f) PROVE Meta
        <2>1. CASE p = "dreno" BY <1>9, <1>11, <2>1 DEF Prazo, banco
        <2>2. CASE p # "dreno" BY <1>1, <1>11, <2>2 DEF Prazo, Pular, banco
        <2> QED BY <2>1, <2>2
    <1>12. ASSUME Recomecar PROVE Meta
        BY <1>12 DEF Recomecar, Vazio
    <1>13. ASSUME UNCHANGED <<linha, turno>>, encerrando => encerrando' PROVE Meta
        BY <1>13 DEF turno
    <1> HIDE DEF Meta, TypeOK, Retida, Guardadas, Publicadores, Cancelado
    <1>14. ASSUME NEW p \in Publicadores, Trabalhar(p) PROVE Meta
        BY <1>3, <1>4, <1>5, <1>6, <1>7, <1>8, <1>14 DEF Trabalhar
    <1>15. ASSUME NEW p \in Publicadores, FalharBanco(p) PROVE Meta
        BY <1>9, <1>15 DEF FalharBanco, banco
    <1>16. ASSUME Desistir PROVE Meta
        <2>1. ASSUME Interromper PROVE Meta
            BY <1>9, <2>1 DEF Interromper, banco, Publicadores
        <2>2. ASSUME DrenarNada PROVE Meta
            BY <1>1, <2>2 DEF DrenarNada, banco, TypeOK, Retida, Publicadores, Cancelado
        <2> QED BY <1>10, <1>12, <1>16, <2>1, <2>2 DEF Desistir, Reiniciar
    <1>17. ASSUME Aceitar \/ Recusar \/ FecharCanal \/ Encerrar \/ UNCHANGED vars PROVE Meta
        BY <1>13, <1>17 DEF Aceitar, Recusar, FecharCanal, Encerrar, turno, banco, vars
    <1>18. ASSUME Queda PROVE Meta
        BY <1>12, <1>18 DEF Queda
    <1> QED BY <1>2, <1>11, <1>14, <1>15, <1>16, <1>17, <1>18 DEF Next, Meta

-----------------------------------------------------------------------------
(* The broker accepts what was in flight, and what is sent is held.        *)
LEMMA ConfirmadosPasso ==
    ASSUME TypeOK, UmPorLinha, Retida, SoConfirmados, [Next]_vars
    PROVE  SoConfirmados' /\ entregues \subseteq entregues'
    <1> DEFINE Meta == SoConfirmados' /\ entregues \subseteq entregues'
    <1> USE DEF SoConfirmados
    <1>1. Guardadas \subseteq Guardadas' BY RetidaPasso
    <1>2. ASSUME UNCHANGED <<emVoo, entregues>> PROVE Meta
        BY <1>1, <1>2 DEF Pendurados
    <1>3. ASSUME emVoo' = <<>>, \E S \in SUBSET Pendurados : entregues' = entregues \cup S
          PROVE  Meta
        BY <1>1, <1>3, PenduradosPasso
    <1>4. ASSUME NEW p \in Publicadores, NEW f \in Fatos, Publicar(p, f) PROVE Meta
        <2>1. f \in Guardadas BY <1>4 DEF Publicar, NaMao, Retida
        <2>2. Pendurados' \subseteq Pendurados \cup {f}
            BY <1>4, PenduradosPasso DEF Publicar
        <2> QED BY <1>1, <1>4, <2>1, <2>2 DEF Publicar, banco
    <1>5. ASSUME Aceitar PROVE Meta
        BY <1>1, <1>5, PenduradosPasso DEF Aceitar
    <1>6. ASSUME Recusar PROVE Meta
        BY <1>1, <1>6, PenduradosPasso DEF Recusar, banco
    <1> HIDE DEF Meta
    <1>7. ASSUME NEW p \in Publicadores, Trabalhar(p) PROVE Meta
        BY <1>2, <1>4, <1>7 DEF Trabalhar, Ler, Confirmar, PublicarFechado, Receber,
           ReceberFechado, banco, broker
    <1>8. ASSUME NEW p \in Publicadores, FalharBanco(p) \/ \E f \in Fatos : Prazo(p, f)
          PROVE  Meta
        BY <1>2, <1>8 DEF FalharBanco, Prazo, banco, broker
    <1>9. ASSUME Recomecar PROVE Meta
        BY <1>3, <1>9 DEF Recomecar
    <1>10. ASSUME Desistir PROVE Meta
        BY <1>2, <1>9, <1>10 DEF Desistir, SoltarLinhas, Interromper, DrenarNada, Reiniciar,
           banco, broker
    <1>11. ASSUME FecharCanal PROVE Meta
        BY <1>3, <1>11 DEF FecharCanal
    <1>12. ASSUME Encerrar \/ (\E f \in Fatos : Enfileirar(f)) \/ UNCHANGED vars PROVE Meta
        BY <1>2, <1>12 DEF Encerrar, Enfileirar, banco, broker, vars
    <1> QED
        BY <1>5, <1>6, <1>7, <1>8, <1>9, <1>10, <1>11, <1>12 DEF Next, Queda, Meta

(* Order, what is held, and what was given: all that the promises need.    *)
Caixa == Ordem /\ Retida /\ SoConfirmados

LEMMA CaixaSempre == Spec => []Caixa
    <1>1. ASSUME Init PROVE Caixa
        <2>1. Ordem BY <1>1, OrdemInicio
        <2>2. Retida BY <1>1 DEF Init, Retida, Vazio, Publicadores
        <2>3. entregues = {} /\ Pendurados = {} BY <1>1 DEF Init, Pendurados
        <2> QED BY <2>1, <2>2, <2>3 DEF Caixa, SoConfirmados
    <1>2. ASSUME Caixa, [Next]_vars PROVE Caixa'
        BY <1>2, OrdemPasso, RetidaPasso, ConfirmadosPasso, ConstantesCaixa DEF Caixa, Ordem
    <1> QED BY <1>1, <1>2, PTL DEF Spec

(* The broker never has a fact whose transaction did not commit.           *)
THEOREM NadaSemCommit == Spec => []SoConfirmados
    <1>1. Caixa => SoConfirmados BY DEF Caixa
    <1> QED BY CaixaSempre, <1>1, PTL

(* Rows go from absent to pending to published, and never back.            *)
THEOREM LinhaNaoVolta == Spec => LinhaSoAvanca
    <1> DEFINE Avanca == \A f \in Fatos : linha'[f] # linha[f] =>
                            \/ linha[f] = "ausente" /\ linha'[f] = "pendente"
                            \/ linha[f] = "pendente" /\ linha'[f] = "publicada"
    <1>1. ASSUME Caixa, [Next]_vars PROVE [Avanca]_vars
        BY <1>1, RetidaPasso DEF Caixa, Ordem
    <1> QED BY CaixaSempre, <1>1, PTL DEF LinhaSoAvanca, Spec

-----------------------------------------------------------------------------
(* At least once: what is marked, in the table or in a turn that is under  *)
(* way, reached the broker.                                                *)
MarcadaChegou ==
    /\ \A f \in Fatos : linha[f] = "publicada" => f \in entregues
    /\ \A p \in Publicadores : marcadas[p] \subseteq entregues

(* Rows become published by the commit of the turn that marked them.       *)
LEMMA PublicadaFoiMarcada ==
    ASSUME TypeOK, [Next]_vars, NEW f \in Fatos, linha'[f] = "publicada"
    PROVE  linha[f] = "publicada" \/ \E p \in Publicadores : f \in marcadas[p]
    <1>1. ASSUME linha' = linha PROVE linha[f] = "publicada"
        BY <1>1
    <1>2. ASSUME NEW g \in Fatos, Enfileirar(g) PROVE linha[f] = "publicada"
        BY <1>2 DEF Enfileirar, TypeOK
    <1>3. ASSUME NEW p \in Publicadores, Confirmar(p)
          PROVE  linha[f] = "publicada" \/ f \in marcadas[p]
        BY <1>3 DEF Confirmar, Gravada
    <1> QED
        BY <1>1, <1>2, <1>3
        DEF Next, Trabalhar, Desistir, Ler, Publicar, PublicarFechado, Receber, ReceberFechado,
            SoltarLinhas, Interromper, DrenarNada, Reiniciar, Recomecar, FalharBanco, Prazo,
            Aceitar, Recusar, FecharCanal, Encerrar, Queda, banco, vars

(* While no wait for a confirmation has been given up, what is marked as   *)
(* published was accepted by the broker: refusals, closed channels, falls, *)
(* restarts and failures of the database lose no fact.                     *)
THEOREM PeloMenosUmaVez == Spec /\ [](atrasos = 0) => []MarcadaChegou
    <1>1. ASSUME Init PROVE MarcadaChegou
        BY <1>1 DEF Init, MarcadaChegou, Vazio, Publicadores
    <1>2. ASSUME Caixa, MarcadaChegou, atrasos = 0, [Next]_vars PROVE MarcadaChegou'
        <2>1. entregues \subseteq entregues' BY <1>2, ConfirmadosPasso DEF Caixa, Ordem
        <2>2. ASSUME NEW f \in Fatos, linha'[f] = "publicada" PROVE f \in entregues
            BY <1>2, <2>2, PublicadaFoiMarcada DEF Caixa, Ordem, MarcadaChegou
        <2>3. ASSUME NEW p \in Publicadores, NEW f \in marcadas'[p] PROVE f \in entregues
            BY <1>2, <2>3, MarcaCerta DEF Caixa, MarcadaChegou
        <2> QED BY <2>1, <2>2, <2>3 DEF MarcadaChegou
    <1> QED BY <1>1, <1>2, CaixaSempre, PTL DEF Spec
=============================================================================
