------------------------- MODULE NotificacaoProofs -------------------------
(***************************************************************************)
(* Safety of the ticket service, for any number of reservations, messages, *)
(* workers and gates, any delivery limit and any number of failures.       *)
(***************************************************************************)
EXTENDS Notificacao, TLAPS

(* A busy worker has a message, and one that notifies has its ticket. *)
MaoOcupada ==
    \A w \in Trabalhadores :
        /\ devida[w] \/ passo[w] # "livre" => mao[w] \in Mensagens
        /\ passo[w] \in {"avisar", "enviado", "falhou"} => meu[w] \in Ids

(* Rows are created with their reservation. *)
LinhaInteira == \A i \in Ids : dono[i] = Nada <=> estado[i] = "AUSENTE"

(* A ticket that was not used, or is in a gate's hands, let nobody in yet; *)
(* one that was lost never will.                                           *)
BaixaContada ==
    /\ \A i \in Ids : estado[i] # "UTILIZADO" =>
          entradas[i] = 0 /\ i \notin perdidas
          /\ \A g \in Portas : leitura[g] # <<"autorizar", i>>
    /\ \A i \in Ids, g \in Portas : leitura[g] = <<"autorizar", i>> =>
          entradas[i] = 0 /\ i \notin perdidas

(* Who comes to the acknowledgement has the ticket of its message. *)
Tratada ==
    \A w \in Trabalhadores :
        passo[w] \in {"avisar", "enviado", "falhou", "confirmar"} => TemIngresso(mao[w])

(* The right to notify belongs to the one worker that created the ticket. *)
Avisando(w) == passo[w] \in {"avisar", "enviado", "falhou"}
AvisoDeUm ==
    /\ \A v, w \in Trabalhadores :
          Avisando(v) /\ Avisando(w) /\ meu[v] = meu[w] => v = w
    /\ \A w \in Trabalhadores : Avisando(w) =>
          estado[meu[w]] # "AUSENTE" /\ <<meu[w], "ENVIADO">> \notin registros
    /\ \A w \in Trabalhadores : passo[w] = "avisar" => avisos[meu[w]] = 0
    /\ \A w \in Trabalhadores : passo[w] = "enviado" => avisos[meu[w]] = 1
    /\ \A i \in Ids : estado[i] = "AUSENTE" => avisos[i] = 0 /\ <<i, "ENVIADO">> \notin registros

(* The inductive invariants. *)
Tipo    == TypeOK /\ MaoOcupada
Emissao == Tipo /\ LinhaInteira /\ IngressoUnico
Portal  == TypeOK /\ BaixaContada /\ EntradaUnica
Conta   == Emissao /\ Tratada /\ ConfirmadaTemIngresso
Avisos  == Tipo /\ AvisoDeUm /\ AvisoUnico

USE ConstantesNotificacao DEF ConstantesNotificacao

-----------------------------------------------------------------------------
(* A message comes back to the queue or to the dead-letter queue.          *)
LEMMA ReaverTipo ==
    ASSUME Tipo, NEW w \in Trabalhadores, Reaver(w)
    PROVE  /\ conteudo' = conteudo /\ confirmadas' = confirmadas
           /\ fila' \subseteq Mensagens /\ mortas' \subseteq Mensagens
           /\ entregas' \in [Mensagens -> Nat]
    <1>1. CASE devida[w]
        <2>1. mao[w] \in Mensagens BY <1>1 DEF Tipo, MaoOcupada
        <2> QED BY <1>1, <2>1 DEF Tipo, TypeOK, Reaver, Voltar
    <1>2. CASE ~ devida[w]
        BY <1>2 DEF Tipo, TypeOK, Reaver, broker
    <1> QED BY <1>1, <1>2

(* A worker that lets its message go is free.                              *)
LEMMA LargarTipo ==
    ASSUME Tipo, NEW w \in Trabalhadores, Largar(w)
    PROVE  /\ mao' \in [Trabalhadores -> Mensagens \cup {Nada}]
           /\ devida' \in [Trabalhadores -> BOOLEAN]
           /\ passo' \in [Trabalhadores -> Passos]
           /\ meu' \in [Trabalhadores -> Ids \cup {Nada}]
           /\ MaoOcupada'
    BY DEF Tipo, TypeOK, MaoOcupada, Largar, Passos

(* The next step of a worker that keeps its message.                       *)
LEMMA IrTipo ==
    ASSUME Tipo, NEW w \in Trabalhadores, NEW p \in Passos, passo[w] # "livre", Ir(w, p),
           p \in {"avisar", "enviado", "falhou"} => meu[w] \in Ids
    PROVE  /\ passo' \in [Trabalhadores -> Passos]
           /\ MaoOcupada'
    BY DEF Tipo, TypeOK, MaoOcupada, Ir

LEMMA InserirTipo ==
    ASSUME Tipo, NEW i \in Ids, NEW r \in Reservas, Inserir(i, r)
    PROVE  /\ dono' \in [Ids -> Reservas \cup {Nada}]
           /\ estado' \in [Ids -> {"AUSENTE", "VALIDO", "UTILIZADO"}]
    BY DEF Tipo, TypeOK, Inserir

(* The types are an invariant, action by action.                           *)
LEMMA TipoPasso == ASSUME Tipo, [Next]_vars PROVE Tipo'
    <1> USE DEF Tipo
    <1>1. ASSUME NEW m \in Mensagens, NEW c \in Reservas \cup {"ilegivel"}, Anunciar(m, c)
          PROVE  Tipo'
        BY <1>1 DEF Anunciar, TypeOK, MaoOcupada, memoria, banco, portaria
    <1>2. ASSUME NEW w \in Trabalhadores, NEW m \in Mensagens, Entregar(w, m) PROVE Tipo'
        BY <1>2 DEF Entregar, TypeOK, MaoOcupada, banco, portaria, Passos
    <1>3. ASSUME NEW w \in Trabalhadores, RecusarAnuncio(w) PROVE Tipo'
        BY <1>3, IrTipo DEF RecusarAnuncio, Ir, TypeOK, broker, banco, portaria, Passos
    <1>4. ASSUME NEW w \in Trabalhadores, CriarSeAusente(w) PROVE Tipo'
        <2>1. CASE \E i \in Ids : Inserir(i, conteudo[mao[w]]) /\ meu' = [meu EXCEPT ![w] = i]
                   /\ passo' = [passo EXCEPT ![w] = "avisar"] /\ UNCHANGED <<canal, mao, devida>>
            <3>1. PICK i \in Ids : /\ Inserir(i, conteudo[mao[w]]) /\ meu' = [meu EXCEPT ![w] = i]
                                   /\ passo' = [passo EXCEPT ![w] = "avisar"]
                                   /\ UNCHANGED <<canal, mao, devida>>
                BY <2>1
            <3>2. /\ dono' \in [Ids -> Reservas \cup {Nada}]
                  /\ estado' \in [Ids -> {"AUSENTE", "VALIDO", "UTILIZADO"}]
                BY <1>4, <3>1, InserirTipo DEF CriarSeAusente, Legivel
            <3> QED
                BY <1>4, <3>1, <3>2
                DEF CriarSeAusente, Inserir, TypeOK, MaoOcupada, broker, portaria, Passos
        <2>2. CASE Ir(w, "confirmar") /\ UNCHANGED banco
            BY <1>4, <2>2, IrTipo DEF CriarSeAusente, Ir, TypeOK, broker, banco, portaria, Passos
        <2> QED BY <1>4, <2>1, <2>2 DEF CriarSeAusente
    <1>5. ASSUME NEW w \in Trabalhadores, FalharEmissao(w) PROVE Tipo'
        <2>1. /\ dono' \in [Ids -> Reservas \cup {Nada}]
              /\ estado' \in [Ids -> {"AUSENTE", "VALIDO", "UTILIZADO"}]
              /\ registros' = registros
            <3>1. CASE UNCHANGED banco BY <3>1 DEF banco, TypeOK
            <3>2. CASE \E i \in Ids : Inserir(i, conteudo[mao[w]])
                BY <1>5, <3>2, InserirTipo DEF FalharEmissao, Legivel, Inserir
            <3> QED BY <1>5, <3>1, <3>2 DEF FalharEmissao
        <2>2. passo' \in [Trabalhadores -> Passos] /\ MaoOcupada'
            BY <1>5, IrTipo DEF FalharEmissao, Passos
        <2>3. falhas' \in Nat BY <1>5 DEF FalharEmissao, Falha, TypeOK
        <2> QED BY <1>5, <2>1, <2>2, <2>3 DEF FalharEmissao, Ir, TypeOK, broker, portaria
    <1>6. ASSUME NEW w \in Trabalhadores, Avisar(w) PROVE Tipo'
        <2>1. meu[w] \in Ids BY <1>6 DEF Avisar, MaoOcupada
        <2> QED BY <1>6, <2>1, IrTipo DEF Avisar, Ir, TypeOK, broker, banco, portaria, Passos
    <1>7. ASSUME NEW w \in Trabalhadores, Registrar(w) PROVE Tipo'
        <2>1. meu[w] \in Ids BY <1>7 DEF Registrar, MaoOcupada
        <2>2. registros' \subseteq Ids \X Desfechos /\ falhas' \in Nat
            BY <1>7, <2>1 DEF Registrar, Falha, DesfechoDe, Desfechos, TypeOK
        <2> QED BY <1>7, <2>2, IrTipo DEF Registrar, Ir, TypeOK, broker, portaria, Passos
    <1>8. ASSUME NEW w \in Trabalhadores, Confirmar(w) \/ Quarentena(w) PROVE Tipo'
        <2>1. mao[w] \in Mensagens BY <1>8 DEF Confirmar, Quarentena, MaoOcupada
        <2> QED
            BY <1>8, <2>1, LargarTipo DEF Confirmar, Quarentena, TypeOK, banco, portaria
    <1>9. ASSUME NEW w \in Trabalhadores, Devolver(w) PROVE Tipo'
        BY <1>9, ReaverTipo, LargarTipo DEF Devolver, TypeOK, banco, portaria
    <1>10. ASSUME NEW w \in Trabalhadores, PerderCanal(w) PROVE Tipo'
        BY <1>10, ReaverTipo DEF PerderCanal, Falha, TypeOK, MaoOcupada, banco, portaria
    <1>11. ASSUME NEW w \in Trabalhadores, Queda(w) PROVE Tipo'
        BY <1>11, ReaverTipo, LargarTipo DEF Queda, Falha, TypeOK, banco, portaria
    <1>12. ASSUME NEW g \in Portas, NEW i \in Ids, Utilizar(g, i) PROVE Tipo'
        BY <1>12 DEF Utilizar, TypeOK, MaoOcupada, broker, memoria, Leituras
    <1>13. ASSUME NEW g \in Portas, NEW i \in Ids, Responder(g, i) \/ FalharResposta(g, i)
           PROVE  Tipo'
        BY <1>13 DEF Responder, FalharResposta, Falha, TypeOK, MaoOcupada, broker, memoria, banco,
           Leituras
    <1>14. CASE UNCHANGED vars
        BY <1>14 DEF vars, TypeOK, MaoOcupada
    <1> QED
        BY <1>1, <1>2, <1>3, <1>4, <1>5, <1>6, <1>7, <1>8, <1>9, <1>10, <1>11, <1>12, <1>13, <1>14
        DEF Next, Tratar

-----------------------------------------------------------------------------
(* What a step does to the tickets and to the gates: a worker creates the  *)
(* ticket of a reservation that has none, or a gate moves.                 *)
LEMMA EfeitoNosIngressos ==
    ASSUME Tipo, [Next]_vars
    PROVE  \/ UNCHANGED portaria /\ UNCHANGED <<dono, estado>>
           \/ UNCHANGED portaria /\ \E i \in Ids, r \in Reservas : SemIngresso(r) /\ Inserir(i, r)
           \/ \E g \in Portas, i \in Ids : Utilizar(g, i) \/ Responder(g, i) \/ FalharResposta(g, i)
    <1>1. ASSUME NEW w \in Trabalhadores, CriarSeAusente(w) \/ FalharEmissao(w)
          PROVE  /\ UNCHANGED portaria
                 /\ \/ UNCHANGED <<dono, estado>>
                    \/ \E i \in Ids, r \in Reservas : SemIngresso(r) /\ Inserir(i, r)
        BY <1>1 DEF CriarSeAusente, FalharEmissao, Legivel, banco
    <1>2. ASSUME NEW m \in Mensagens, NEW c \in Reservas \cup {"ilegivel"}, Anunciar(m, c)
          PROVE  UNCHANGED portaria /\ UNCHANGED <<dono, estado>>
        BY <1>2 DEF Anunciar, banco
    <1>3. ASSUME NEW w \in Trabalhadores, NEW m \in Mensagens, Entregar(w, m)
          PROVE  UNCHANGED portaria /\ UNCHANGED <<dono, estado>>
        BY <1>3 DEF Entregar, banco
    <1>4. ASSUME NEW w \in Trabalhadores,
                 RecusarAnuncio(w) \/ Avisar(w) \/ Registrar(w) \/ Confirmar(w) \/ Quarentena(w)
                    \/ Devolver(w) \/ PerderCanal(w) \/ Queda(w)
          PROVE  UNCHANGED portaria /\ UNCHANGED <<dono, estado>>
        BY <1>4 DEF RecusarAnuncio, Avisar, Registrar, Confirmar, Quarentena, Devolver,
           PerderCanal, Queda, banco
    <1>5. CASE UNCHANGED vars
        BY <1>5 DEF vars, portaria
    <1> QED BY <1>1, <1>2, <1>3, <1>4, <1>5 DEF Next, Tratar

(* The keys of ingressos_emitidos, step by step.                           *)
LEMMA EmissaoPasso == ASSUME Emissao, [Next]_vars PROVE Emissao'
    <1> USE DEF Emissao, LinhaInteira, IngressoUnico
    <1>1. Tipo' BY TipoPasso
    <1>2. ASSUME NEW i \in Ids, NEW r \in Reservas, SemIngresso(r), Inserir(i, r)
          PROVE  (LinhaInteira /\ IngressoUnico)'
        BY <1>2 DEF SemIngresso, Inserir, Tipo, TypeOK
    <1>3. ASSUME NEW g \in Portas, NEW i \in Ids,
                 Utilizar(g, i) \/ Responder(g, i) \/ FalharResposta(g, i)
          PROVE  (LinhaInteira /\ IngressoUnico)'
        BY <1>3 DEF Utilizar, Responder, FalharResposta, Utilizavel, banco, Tipo, TypeOK
    <1>4. CASE UNCHANGED <<dono, estado>>
        BY <1>1, <1>4
    <1> QED BY <1>1, <1>2, <1>3, <1>4, EfeitoNosIngressos

(* The admissions, step by step.                                           *)
LEMMA PortalPasso == ASSUME Tipo, Portal, [Next]_vars PROVE Portal'
    <1> USE DEF Portal, BaixaContada, EntradaUnica
    <1>1. TypeOK' BY TipoPasso DEF Tipo
    <1>2. ASSUME NEW i \in Ids, NEW r \in Reservas, Inserir(i, r), UNCHANGED portaria
          PROVE  (BaixaContada /\ EntradaUnica)'
        BY <1>2 DEF Inserir, portaria, TypeOK
    <1>3. ASSUME NEW g \in Portas, NEW i \in Ids, Utilizar(g, i)
          PROVE  (BaixaContada /\ EntradaUnica)'
        BY <1>3 DEF Utilizar, Utilizavel, TypeOK
    <1>4. ASSUME NEW g \in Portas, NEW i \in Ids, Responder(g, i)
          PROVE  (BaixaContada /\ EntradaUnica)'
        <2>1. /\ estado' = estado /\ perdidas' = perdidas
              /\ \A h \in Portas, j \in Ids : leitura'[h] = <<"autorizar", j>> =>
                    h # g /\ leitura[h] = <<"autorizar", j>>
            BY <1>4 DEF Responder, Livre, banco, TypeOK
        <2>2. CASE leitura[g] = <<"autorizar", i>> /\ entradas' = [entradas EXCEPT ![i] = @ + 1]
            <3>1. estado[i] = "UTILIZADO" /\ entradas[i] = 0 /\ i \notin perdidas
                BY <2>2 DEF TypeOK
            <3>2. entradas'[i] = 1 /\ \A j \in Ids \ {i} : entradas'[j] = entradas[j]
                BY <2>2, <3>1 DEF TypeOK
            <3>3. \A h \in Portas : leitura'[h] # <<"autorizar", i>>
                BY <2>1, <2>2
            <3>4. BaixaContada' BY <2>1, <3>1, <3>2, <3>3
            <3> QED BY <2>1, <3>1, <3>2, <3>3, <3>4
        <2>3. CASE entradas' = entradas
            BY <2>1, <2>3
        <2> QED BY <1>4, <2>2, <2>3 DEF Responder
    <1>5. ASSUME NEW g \in Portas, NEW i \in Ids, FalharResposta(g, i)
          PROVE  (BaixaContada /\ EntradaUnica)'
        <2>1. /\ estado' = estado /\ entradas' = entradas
              /\ \A h \in Portas, j \in Ids : leitura'[h] = <<"autorizar", j>> =>
                    h # g /\ leitura[h] = <<"autorizar", j>>
            BY <1>5 DEF FalharResposta, Livre, banco, TypeOK
        <2>2. CASE leitura[g] = <<"autorizar", i>> /\ perdidas' = perdidas \cup {i}
            <3>1. estado[i] = "UTILIZADO" /\ entradas[i] = 0
                BY <2>2 DEF TypeOK
            <3>2. \A h \in Portas : leitura'[h] # <<"autorizar", i>>
                BY <2>1, <2>2
            <3> QED BY <2>1, <2>2, <3>1, <3>2
        <2>3. CASE perdidas' = perdidas
            BY <2>1, <2>3
        <2>4. \/ perdidas' = perdidas
              \/ leitura[g] = <<"autorizar", i>> /\ perdidas' = perdidas \cup {i}
            <3>1. CASE leitura[g] = <<"autorizar", i>> BY <1>5, <3>1 DEF FalharResposta
            <3>2. CASE leitura[g] = <<"negar", i>> BY <1>5, <3>2 DEF FalharResposta
            <3> QED BY <1>5, <3>1, <3>2 DEF FalharResposta
        <2> QED BY <2>2, <2>3, <2>4
    <1>6. CASE UNCHANGED portaria /\ UNCHANGED <<dono, estado>>
        BY <1>1, <1>6 DEF portaria
    <1> QED BY <1>1, <1>2, <1>3, <1>4, <1>5, <1>6, EfeitoNosIngressos

(* A message whose reservation has a ticket keeps it.                      *)
LEMMA TemIngressoFica ==
    ASSUME Emissao, [Next]_vars, NEW m \in Mensagens, TemIngresso(m)
    PROVE  TemIngresso(m)'
    <1> USE DEF Emissao, Tipo, TypeOK
    <1>1. conteudo'[m] = conteudo[m]
        <2>1. conteudo[m] # Nada BY DEF TemIngresso
        <2>2. ASSUME NEW n \in Mensagens, NEW c \in Reservas \cup {"ilegivel"}, Anunciar(n, c)
              PROVE  conteudo'[m] = conteudo[m]
            BY <2>1, <2>2 DEF Anunciar
        <2>3. ASSUME NEW w \in Trabalhadores, NEW n \in Mensagens, Entregar(w, n)
              PROVE  conteudo' = conteudo
            BY <2>3 DEF Entregar
        <2>4. ASSUME NEW w \in Trabalhadores,
                     Devolver(w) \/ PerderCanal(w) \/ Queda(w)
              PROVE  conteudo' = conteudo
            BY <2>4, ReaverTipo DEF Devolver, PerderCanal, Queda
        <2>5. ASSUME NEW w \in Trabalhadores,
                     RecusarAnuncio(w) \/ CriarSeAusente(w) \/ FalharEmissao(w) \/ Avisar(w)
                        \/ Registrar(w) \/ Confirmar(w) \/ Quarentena(w)
              PROVE  conteudo' = conteudo
            BY <2>5 DEF RecusarAnuncio, CriarSeAusente, FalharEmissao, Avisar, Registrar,
               Confirmar, Quarentena, broker
        <2>6. ASSUME NEW g \in Portas, NEW i \in Ids,
                     Utilizar(g, i) \/ Responder(g, i) \/ FalharResposta(g, i)
              PROVE  conteudo' = conteudo
            BY <2>6 DEF Utilizar, Responder, FalharResposta, broker
        <2>7. CASE UNCHANGED vars BY <2>7 DEF vars
        <2> QED BY <2>2, <2>3, <2>4, <2>5, <2>6, <2>7 DEF Next, Tratar
    <1>2. PICK i \in Ids : dono[i] = conteudo[m] BY DEF TemIngresso
    <1>3. dono'[i] = dono[i]
        <2>1. dono[i] # Nada BY <1>2 DEF TemIngresso
        <2>2. ASSUME NEW j \in Ids, NEW r \in Reservas, Inserir(j, r) PROVE dono'[i] = dono[i]
            BY <2>1, <2>2 DEF Inserir, LinhaInteira
        <2>3. ASSUME NEW g \in Portas, NEW j \in Ids,
                     Utilizar(g, j) \/ Responder(g, j) \/ FalharResposta(g, j)
              PROVE  dono' = dono
            BY <2>3 DEF Utilizar, Responder, FalharResposta, banco
        <2> QED BY <2>2, <2>3, EfeitoNosIngressos
    <1> QED BY <1>1, <1>2, <1>3 DEF TemIngresso

(* Acknowledgements, step by step.                                         *)
LEMMA ContaPasso == ASSUME Conta, [Next]_vars PROVE Conta'
    <1> DEFINE Pronto == {"avisar", "enviado", "falhou", "confirmar"}
    <1> DEFINE Garantida(m) == conteudo'[m] \in Reservas /\ \E i \in Ids : dono'[i] = conteudo'[m]
    <1> DEFINE Meta == Tratada' /\ ConfirmadaTemIngresso'
    <1> USE DEF Conta, Tratada, ConfirmadaTemIngresso
    <1>1. Emissao' BY EmissaoPasso
    <1>2. \A m \in Mensagens : TemIngresso(m) => Garantida(m)
        <2> SUFFICES ASSUME NEW m \in Mensagens, TemIngresso(m) PROVE Garantida(m)
            OBVIOUS
        <2>1. TemIngresso(m)' BY TemIngressoFica
        <2> QED BY <2>1 DEF TemIngresso
    <1>3. ASSUME NEW w \in Trabalhadores, passo[w] \in Pronto
          PROVE  mao[w] \in Mensagens /\ Garantida(mao[w])
        BY <1>2, <1>3 DEF Emissao, Tipo, MaoOcupada
    <1>4. \A m \in confirmadas : m \in Mensagens /\ Garantida(m)
        BY <1>2 DEF Emissao, Tipo, TypeOK
    <1>5. passo \in [Trabalhadores -> Passos] /\ mao \in [Trabalhadores -> Mensagens \cup {Nada}]
        BY DEF Emissao, Tipo, TypeOK
    <1>a. ASSUME \A w \in Trabalhadores : passo'[w] \in Pronto => Garantida(mao'[w]),
                 \A m \in confirmadas' : Garantida(m)
          PROVE  Meta
        BY <1>a DEF TemIngresso
    <1> HIDE DEF Conta, Tratada, ConfirmadaTemIngresso, Meta, Garantida
    (* A worker that goes on without its message changing. *)
    <1>6. ASSUME NEW w \in Trabalhadores, NEW p \in Passos, Ir(w, p),
                 p \in Pronto => mao[w] \in Mensagens /\ Garantida(mao[w]),
                 confirmadas' = confirmadas
          PROVE  Meta
        BY <1>a, <1>3, <1>4, <1>5, <1>6 DEF Ir
    (* A worker that lets its message go. *)
    <1>7. ASSUME NEW w \in Trabalhadores, Largar(w),
                 \/ confirmadas' = confirmadas
                 \/ passo[w] = "confirmar" /\ confirmadas' = confirmadas \cup {mao[w]}
          PROVE  Meta
        BY <1>a, <1>3, <1>4, <1>5, <1>7 DEF Largar
    <1>8. ASSUME UNCHANGED <<mao, passo, confirmadas>> PROVE Meta
        BY <1>a, <1>3, <1>4, <1>8
    <1>9. ASSUME NEW w \in Trabalhadores, CriarSeAusente(w) PROVE Meta
        <2>1. mao[w] \in Mensagens /\ conteudo'[mao[w]] = conteudo[mao[w]] /\ confirmadas' = confirmadas
            BY <1>9 DEF CriarSeAusente, Conta, Emissao, Tipo, MaoOcupada, broker
        <2>2. CASE \E i \in Ids : Inserir(i, conteudo[mao[w]])
            <3>1. PICK i \in Ids : Inserir(i, conteudo[mao[w]]) BY <2>2
            <3>2. Garantida(mao[w])
                BY <1>9, <2>1, <3>1
                DEF CriarSeAusente, Legivel, Inserir, Garantida, Conta, Emissao, Tipo, TypeOK
            <3>3. mao' = mao /\ \A v \in Trabalhadores \ {w} : passo'[v] = passo[v]
                BY <1>5, <1>9 DEF CriarSeAusente, Ir
            <3> QED BY <1>a, <1>3, <1>4, <2>1, <3>2, <3>3
        <2>3. CASE ~ SemIngresso(conteudo[mao[w]]) /\ Ir(w, "confirmar")
            <3>1. TemIngresso(mao[w])
                BY <1>9, <2>3 DEF CriarSeAusente, Legivel, SemIngresso, TemIngresso
            <3> QED BY <1>2, <1>6, <2>1, <2>3, <3>1 DEF Passos
        <2> QED BY <1>9, <2>2, <2>3 DEF CriarSeAusente
    <1>10. ASSUME NEW w \in Trabalhadores, RecusarAnuncio(w) \/ FalharEmissao(w) PROVE Meta
        BY <1>6, <1>10 DEF RecusarAnuncio, FalharEmissao, Passos, broker
    <1>11. ASSUME NEW w \in Trabalhadores, Avisar(w) PROVE Meta
        BY <1>3, <1>6, <1>11 DEF Avisar, Passos, broker
    <1>12. ASSUME NEW w \in Trabalhadores, Registrar(w) PROVE Meta
        BY <1>3, <1>6, <1>12 DEF Registrar, Passos, broker
    <1>13. ASSUME NEW w \in Trabalhadores, Confirmar(w) \/ Quarentena(w) PROVE Meta
        BY <1>7, <1>13 DEF Confirmar, Quarentena
    <1>14. ASSUME NEW w \in Trabalhadores, Devolver(w) \/ Queda(w) PROVE Meta
        BY <1>7, <1>14, ReaverTipo DEF Devolver, Queda, Conta, Emissao
    <1>15. ASSUME NEW w \in Trabalhadores, PerderCanal(w) PROVE Meta
        BY <1>8, <1>15, ReaverTipo DEF PerderCanal, Conta, Emissao
    <1>16. ASSUME NEW w \in Trabalhadores, NEW m \in Mensagens, Entregar(w, m) PROVE Meta
        BY <1>a, <1>3, <1>4, <1>5, <1>16 DEF Entregar
    <1>17. ASSUME NEW m \in Mensagens, NEW c \in Reservas \cup {"ilegivel"}, Anunciar(m, c)
           PROVE  Meta
        BY <1>8, <1>17 DEF Anunciar, memoria
    <1>18. ASSUME NEW g \in Portas, NEW i \in Ids,
                  Utilizar(g, i) \/ Responder(g, i) \/ FalharResposta(g, i)
           PROVE  Meta
        BY <1>8, <1>18 DEF Utilizar, Responder, FalharResposta, memoria, broker
    <1>19. ASSUME UNCHANGED vars PROVE Meta
        BY <1>8, <1>19 DEF vars
    <1>20. Meta
        BY <1>9, <1>10, <1>11, <1>12, <1>13, <1>14, <1>15, <1>16, <1>17, <1>18, <1>19
        DEF Next, Tratar
    <1> QED BY <1>1, <1>20 DEF Conta, Meta

(* Notices, step by step: who creates a ticket is the only one to notify   *)
(* its owner.                                                              *)
LEMMA AvisosPasso == ASSUME Avisos, [Next]_vars PROVE Avisos'
    <1> DEFINE Meta == AvisoDeUm' /\ AvisoUnico'
    <1> USE DEF AvisoDeUm, AvisoUnico, Avisando
    <1>1. Tipo' BY TipoPasso DEF Avisos
    <1>2. /\ passo \in [Trabalhadores -> Passos] /\ meu \in [Trabalhadores -> Ids \cup {Nada}]
          /\ avisos \in [Ids -> Nat] /\ registros \subseteq Ids \X Desfechos
          /\ estado \in [Ids -> {"AUSENTE", "VALIDO", "UTILIZADO"}]
          /\ \A w \in Trabalhadores : Avisando(w) => meu[w] \in Ids
        BY DEF Avisos, Tipo, TypeOK, MaoOcupada
    <1>3. AvisoDeUm /\ AvisoUnico BY DEF Avisos
    (* Nobody begins to notify, and tickets only get created or used. *)
    <1>4. ASSUME \A w \in Trabalhadores : Avisando(w)' =>
                    passo'[w] = passo[w] /\ meu'[w] = meu[w],
                 \A i \in Ids : estado[i] # "AUSENTE" => estado'[i] # "AUSENTE",
                 UNCHANGED <<avisos, registros>>
          PROVE  Meta
        BY <1>2, <1>3, <1>4
    <1>5. ASSUME NEW w \in Trabalhadores, CriarSeAusente(w) PROVE Meta
        <2>1. CASE \E i \in Ids : /\ Inserir(i, conteudo[mao[w]]) /\ meu' = [meu EXCEPT ![w] = i]
                                 /\ passo' = [passo EXCEPT ![w] = "avisar"]
            <3>1. PICK i \in Ids : /\ Inserir(i, conteudo[mao[w]]) /\ meu' = [meu EXCEPT ![w] = i]
                                  /\ passo' = [passo EXCEPT ![w] = "avisar"]
                BY <2>1
            <3>2. /\ estado[i] = "AUSENTE" /\ estado' = [estado EXCEPT ![i] = "VALIDO"]
                  /\ avisos' = avisos /\ registros' = registros
                BY <1>5, <3>1 DEF CriarSeAusente, Inserir
            <3>3. /\ passo'[w] = "avisar" /\ meu'[w] = i
                  /\ \A v \in Trabalhadores \ {w} : passo'[v] = passo[v] /\ meu'[v] = meu[v]
                BY <1>2, <3>1
            <3>4. \A v \in Trabalhadores : Avisando(v) => meu[v] # i
                BY <1>3, <3>2
            <3>5. avisos[i] = 0 /\ <<i, "ENVIADO">> \notin registros
                BY <1>3, <3>2
            <3>6. \A j \in Ids : estado'[j] # "AUSENTE" <=> j = i \/ estado[j] # "AUSENTE"
                BY <1>2, <3>2
            <3> QED BY <1>2, <1>3, <3>2, <3>3, <3>4, <3>5, <3>6
        <2>2. CASE Ir(w, "confirmar") /\ UNCHANGED banco
            BY <1>2, <1>4, <1>5, <2>2 DEF CriarSeAusente, Ir, banco
        <2> QED BY <1>5, <2>1, <2>2 DEF CriarSeAusente
    <1>6. ASSUME NEW w \in Trabalhadores, FalharEmissao(w) PROVE Meta
        <2>1. \A i \in Ids : estado[i] # "AUSENTE" => estado'[i] # "AUSENTE"
            BY <1>2, <1>6 DEF FalharEmissao, Inserir, banco
        <2>2. UNCHANGED <<avisos, registros>>
            BY <1>6 DEF FalharEmissao, Inserir, banco
        <2> QED BY <1>2, <1>4, <1>6, <2>1, <2>2 DEF FalharEmissao, Ir
    <1>7. ASSUME NEW w \in Trabalhadores, Avisar(w) PROVE Meta
        <2>1. /\ estado' = estado /\ registros' = registros /\ meu' = meu
              /\ passo[w] = "avisar" /\ meu[w] \in Ids
            BY <1>2, <1>7 DEF Avisar, Ir, banco
        <2>2. avisos[meu[w]] = 0 /\ <<meu[w], "ENVIADO">> \notin registros
            BY <1>3, <2>1
        <2>3. \A i \in Ids \ {meu[w]} : avisos'[i] = avisos[i]
            BY <1>2, <1>7 DEF Avisar
        <2>4. /\ \A v \in Trabalhadores \ {w} : passo'[v] = passo[v]
              /\ \/ passo'[w] = "enviado" /\ avisos'[meu[w]] = 1
                 \/ passo'[w] = "falhou" /\ avisos'[meu[w]] \in {0, 1}
            BY <1>2, <1>7, <2>1, <2>2 DEF Avisar, Ir
        <2> QED BY <1>2, <1>3, <2>1, <2>2, <2>3, <2>4
    <1>8. ASSUME NEW w \in Trabalhadores, Registrar(w) PROVE Meta
        <2>1. /\ avisos' = avisos /\ estado' = estado /\ meu' = meu
              /\ passo' = [passo EXCEPT ![w] = "confirmar"]
              /\ Avisando(w) /\ meu[w] \in Ids
            BY <1>2, <1>8 DEF Registrar, Ir
        <2>2. \A i \in Ids : <<i, "ENVIADO">> \in registros' =>
                 \/ <<i, "ENVIADO">> \in registros
                 \/ i = meu[w] /\ passo[w] = "enviado"
            BY <1>2, <1>8 DEF Registrar, DesfechoDe
        <2>3. \A v \in Trabalhadores : Avisando(v)' => v # w /\ passo'[v] = passo[v]
            BY <1>2, <2>1
        <2> QED BY <1>2, <1>3, <2>1, <2>2, <2>3
    <1>9. ASSUME NEW w \in Trabalhadores,
                 \/ RecusarAnuncio(w) \/ Confirmar(w) \/ Quarentena(w)
                 \/ Devolver(w) \/ PerderCanal(w) \/ Queda(w)
          PROVE  Meta
        <2>1. UNCHANGED <<avisos, registros, estado>>
            BY <1>9 DEF RecusarAnuncio, Confirmar, Quarentena, Devolver, PerderCanal, Queda, banco
        <2>2. \A v \in Trabalhadores : Avisando(v)' => passo'[v] = passo[v] /\ meu'[v] = meu[v]
            BY <1>2, <1>9
            DEF RecusarAnuncio, Confirmar, Quarentena, Devolver, PerderCanal, Queda, Ir, Largar
        <2> QED BY <1>4, <2>1, <2>2
    <1>10. ASSUME NEW w \in Trabalhadores, NEW m \in Mensagens, Entregar(w, m) PROVE Meta
        BY <1>2, <1>4, <1>10 DEF Entregar, banco
    <1>11. ASSUME NEW m \in Mensagens, NEW c \in Reservas \cup {"ilegivel"}, Anunciar(m, c)
           PROVE  Meta
        BY <1>2, <1>4, <1>11 DEF Anunciar, memoria, banco
    <1>12. ASSUME NEW g \in Portas, NEW i \in Ids,
                  Utilizar(g, i) \/ Responder(g, i) \/ FalharResposta(g, i)
           PROVE  Meta
        <2>1. UNCHANGED <<avisos, registros, passo, meu>>
            BY <1>12 DEF Utilizar, Responder, FalharResposta, memoria, banco
        <2>2. \A j \in Ids : estado[j] # "AUSENTE" => estado'[j] # "AUSENTE"
            BY <1>2, <1>12 DEF Utilizar, Responder, FalharResposta, banco
        <2> QED BY <1>4, <2>1, <2>2
    <1>13. ASSUME UNCHANGED vars PROVE Meta
        BY <1>4, <1>13 DEF vars
    <1>14. Meta
        <2> HIDE DEF Meta
        <2> QED
            BY <1>5, <1>6, <1>7, <1>8, <1>9, <1>10, <1>11, <1>12, <1>13 DEF Next, Tratar
    <1> QED BY <1>1, <1>14 DEF Avisos

-----------------------------------------------------------------------------
(* Where every behaviour begins.                                           *)
LEMMA InicioSeguro == ASSUME Init PROVE Emissao /\ Portal /\ Conta /\ Avisos
    <1>1. Tipo
        BY DEF Init, Tipo, TypeOK, MaoOcupada, Passos, Leituras
    <1>2. LinhaInteira /\ IngressoUnico
        BY DEF Init, LinhaInteira, IngressoUnico
    <1>3. BaixaContada /\ EntradaUnica
        BY DEF Init, BaixaContada, EntradaUnica, Livre
    <1>4. Tratada /\ ConfirmadaTemIngresso
        BY DEF Init, Tratada, ConfirmadaTemIngresso
    <1>5. AvisoDeUm /\ AvisoUnico
        BY DEF Init, AvisoDeUm, AvisoUnico, Avisando
    <1> QED BY <1>1, <1>2, <1>3, <1>4, <1>5 DEF Emissao, Portal, Conta, Avisos, Tipo

(* The state of the service is always well typed.                          *)
THEOREM TipoSempre == Spec => []TypeOK
    <1>1. Init => Tipo BY InicioSeguro DEF Emissao
    <1>2. Tipo /\ [Next]_vars => Tipo' BY TipoPasso
    <1>3. Tipo => TypeOK BY DEF Tipo
    <1> QED BY <1>1, <1>2, <1>3, PTL DEF Spec

(* However often a payment is announced or delivered, and by however many  *)
(* workers it is treated, its reservation has at most one ticket.          *)
THEOREM UmIngresso == Spec => []IngressoUnico
    <1>1. Init => Emissao BY InicioSeguro
    <1>2. Emissao /\ [Next]_vars => Emissao' BY EmissaoPasso
    <1>3. Emissao => IngressoUnico BY DEF Emissao
    <1> QED BY <1>1, <1>2, <1>3, PTL DEF Spec

(* However many gates read it, a ticket lets at most one person in.        *)
THEOREM UmaEntrada == Spec => []EntradaUnica
    <1> DEFINE Inv == Tipo /\ Portal
    <1>1. Init => Inv BY InicioSeguro DEF Emissao
    <1>2. Inv /\ [Next]_vars => Inv' BY TipoPasso, PortalPasso
    <1>3. Inv => EntradaUnica BY DEF Portal
    <1> HIDE DEF Inv
    <1> QED BY <1>1, <1>2, <1>3, PTL DEF Spec

(* An acknowledged announcement has its ticket, whatever failed.           *)
THEOREM ConfirmadaSegura == Spec => []ConfirmadaTemIngresso
    <1>1. Init => Conta BY InicioSeguro
    <1>2. Conta /\ [Next]_vars => Conta' BY ContaPasso
    <1>3. Conta => ConfirmadaTemIngresso BY DEF Conta
    <1> QED BY <1>1, <1>2, <1>3, PTL DEF Spec

(* An owner is told of a ticket at most once, and a notice on record as    *)
(* sent reached its owner.                                                 *)
THEOREM UmAviso == Spec => []AvisoUnico
    <1>1. Init => Avisos BY InicioSeguro
    <1>2. Avisos /\ [Next]_vars => Avisos' BY AvisosPasso
    <1>3. Avisos => AvisoUnico BY DEF Avisos
    <1> QED BY <1>1, <1>2, <1>3, PTL DEF Spec

-----------------------------------------------------------------------------
(* The promise of Bilhetes, seen in the rows: what the service heard, the  *)
(* tickets, the settled announcements and the used tickets.                *)
Ouvidas   == {r \in Reservas : \E m \in Mensagens : conteudo[m] = r}
Emitidos  == {<<dono[i], i>> : i \in {j \in Ids : dono[j] # Nada}}
Atendidas == {conteudo[m] : m \in confirmadas}
Usados    == {i \in Ids : estado[i] = "UTILIZADO"}

(* All that the promise needs. *)
PromessaFiel == Conta /\ Portal /\ Avisos

LEMMA TiposDaPromessa ==
    ASSUME PromessaFiel
    PROVE  TypeOK /\ Tipo /\ Emissao
    BY DEF PromessaFiel, Conta, Emissao, Tipo

(* A row with an owner is an issued ticket, and the other way round.       *)
LEMMA EmitidoDe ==
    ASSUME TypeOK, NEW i \in Ids
    PROVE  /\ \A r : <<r, i>> \in Emitidos <=> dono[i] # Nada /\ dono[i] = r
           /\ Promessa!Emitido(i) <=> dono[i] # Nada
    <1>1. \A r : <<r, i>> \in Emitidos <=> dono[i] # Nada /\ dono[i] = r
        BY DEF Emitidos
    <1>2. dono[i] # Nada => dono[i] \in Reservas
        BY DEF TypeOK
    <1>3. Promessa!Emitido(i) <=> \E r \in Reservas : <<r, i>> \in Emitidos
        BY DEF Promessa!Emitido, Emitidos
    <1> QED BY <1>1, <1>2, <1>3

(* A new row is a new ticket of the promise.                               *)
LEMMA InserirEmite ==
    ASSUME PromessaFiel, NEW w \in Trabalhadores, passo[w] = "emitir", Legivel(w),
           SemIngresso(conteudo[mao[w]]),
           NEW i \in Ids, Inserir(i, conteudo[mao[w]]),
           UNCHANGED <<conteudo, confirmadas, avisos, entradas>>
    PROVE  Promessa!Emitir(conteudo[mao[w]], i)
    <1> DEFINE r == conteudo[mao[w]]
    <1>1. TypeOK /\ LinhaInteira /\ mao[w] \in Mensagens /\ r \in Reservas
        BY TiposDaPromessa DEF Emissao, Tipo, MaoOcupada, Legivel
    <1>2. r \in Ouvidas BY <1>1 DEF Ouvidas
    <1>3. \A j \in Ids : <<r, j>> \notin Emitidos
        BY <1>1, EmitidoDe DEF SemIngresso
    <1>4. dono[i] = Nada /\ ~ Promessa!Emitido(i)
        BY <1>1, EmitidoDe DEF Inserir, LinhaInteira
    <1>5. dono' = [dono EXCEPT ![i] = r] /\ estado' = [estado EXCEPT ![i] = "VALIDO"]
        BY DEF Inserir
    <1>6. Emitidos' = Emitidos \cup {<<r, i>>}
        <2>1. \A j \in Ids : dono'[j] = IF j = i THEN r ELSE dono[j] BY <1>1, <1>5 DEF TypeOK
        <2>2. r # Nada BY <1>1
        <2>3. Emitidos' \subseteq Emitidos \cup {<<r, i>>} BY <2>1 DEF Emitidos
        <2>4. Emitidos \subseteq Emitidos'
            BY <1>4, <2>1 DEF Emitidos
        <2>5. <<r, i>> \in Emitidos'
            BY <2>1, <2>2 DEF Emitidos
        <2> QED BY <2>3, <2>4, <2>5
    <1>7. Usados' = Usados
        <2>1. \A j \in Ids : estado'[j] = "UTILIZADO" <=> estado[j] = "UTILIZADO"
            BY <1>1, <1>5 DEF TypeOK, Inserir
        <2> QED BY <2>1 DEF Usados
    <1>8. Ouvidas' = Ouvidas /\ Atendidas' = Atendidas
        BY DEF Ouvidas, Atendidas
    <1> HIDE DEF r
    <1> QED
        BY <1>2, <1>3, <1>4, <1>6, <1>7, <1>8
        DEF Promessa!Emitir, Ouvidas, Emitidos, Atendidas, Usados, r

(* Every step of the service is a step of the promise, or nothing to it.   *)
LEMMA PassoCumpre == PromessaFiel /\ [Next]_vars => [Promessa!Next]_Promessa!vars
    <1> SUFFICES ASSUME PromessaFiel, [Next]_vars PROVE Promessa!Next \/ UNCHANGED Promessa!vars
        OBVIOUS
    <1> DEFINE Meta == Promessa!Next \/ UNCHANGED Promessa!vars
    <1>1. TypeOK /\ Tipo /\ Emissao BY TiposDaPromessa
    <1>2. ASSUME UNCHANGED <<conteudo, confirmadas, dono, estado, avisos, entradas>> PROVE Meta
        BY <1>2 DEF Promessa!vars
    <1>3. ASSUME NEW m \in Mensagens, NEW c \in Reservas \cup {"ilegivel"}, Anunciar(m, c) PROVE Meta
        <2>1. /\ \A n \in Mensagens : conteudo'[n] = IF n = m THEN c ELSE conteudo[n]
              /\ conteudo[m] = Nada
              /\ UNCHANGED <<confirmadas, dono, estado, avisos, entradas>>
            BY <1>1, <1>3 DEF Anunciar, TypeOK, banco, portaria
        <2>2. \A n \in confirmadas : n \in Mensagens /\ n # m
            BY <1>1, <2>1 DEF TypeOK, PromessaFiel, Conta, ConfirmadaTemIngresso, TemIngresso
        <2>3. Atendidas' = Atendidas /\ Emitidos' = Emitidos /\ Usados' = Usados
            BY <2>1, <2>2 DEF Atendidas, Emitidos, Usados
        <2>4. CASE c \in Reservas
            <3>1. Ouvidas' = Ouvidas \cup {c}
                BY <2>1, <2>4 DEF Ouvidas
            <3>2. Promessa!Ouvir(c)
                BY <2>1, <2>3, <3>1 DEF Promessa!Ouvir, Ouvidas, Atendidas, Emitidos, Usados
            <3> QED BY <2>4, <3>2 DEF Promessa!Next
        <2>5. CASE c \notin Reservas
            <3>1. Ouvidas' = Ouvidas
                BY <2>1, <2>5 DEF Ouvidas
            <3> QED BY <2>1, <2>3, <3>1 DEF Promessa!vars, Ouvidas, Atendidas, Emitidos, Usados
        <2> QED BY <2>4, <2>5
    <1>4. ASSUME NEW w \in Trabalhadores, CriarSeAusente(w) \/ FalharEmissao(w) PROVE Meta
        <2>1. /\ passo[w] = "emitir" /\ Legivel(w)
              /\ UNCHANGED <<conteudo, confirmadas, avisos, entradas>>
              /\ \/ UNCHANGED <<dono, estado>>
                 \/ /\ SemIngresso(conteudo[mao[w]])
                    /\ \E i \in Ids : Inserir(i, conteudo[mao[w]])
            BY <1>4 DEF CriarSeAusente, FalharEmissao, broker, banco, portaria
        <2>2. CASE UNCHANGED <<dono, estado>>
            BY <1>2, <2>1, <2>2
        <2>3. ASSUME SemIngresso(conteudo[mao[w]]), NEW i \in Ids, Inserir(i, conteudo[mao[w]])
              PROVE  Meta
            <3>1. Promessa!Emitir(conteudo[mao[w]], i) BY <2>1, <2>3, InserirEmite
            <3>2. conteudo[mao[w]] \in Reservas BY <2>1 DEF Legivel
            <3> QED BY <3>1, <3>2 DEF Promessa!Next
        <2> QED BY <2>1, <2>2, <2>3
    <1>5. ASSUME NEW w \in Trabalhadores, Avisar(w) PROVE Meta
        <2>1. /\ meu[w] \in Ids /\ avisos[meu[w]] = 0 /\ estado[meu[w]] # "AUSENTE"
              /\ UNCHANGED <<conteudo, confirmadas, dono, estado, entradas>>
              /\ avisos' \in {avisos, [avisos EXCEPT ![meu[w]] = @ + 1]}
            BY <1>1, <1>5
            DEF Avisar, PromessaFiel, Avisos, AvisoDeUm, Avisando, Tipo, MaoOcupada, broker, banco,
                portaria
        <2>2. CASE avisos' = avisos BY <1>2, <2>1, <2>2
        <2>3. CASE avisos' = [avisos EXCEPT ![meu[w]] = @ + 1]
            <3>1. avisos' = [avisos EXCEPT ![meu[w]] = 1]
                BY <1>1, <2>1, <2>3 DEF TypeOK
            <3>2. Promessa!Emitido(meu[w])
                BY <1>1, <2>1, EmitidoDe DEF Emissao, LinhaInteira
            <3>3. Promessa!Avisar(meu[w])
                BY <2>1, <3>1, <3>2 DEF Promessa!Avisar
            <3> QED BY <2>1, <3>3 DEF Promessa!Next
        <2> QED BY <2>1, <2>2, <2>3
    <1>6. ASSUME NEW w \in Trabalhadores, Confirmar(w) PROVE Meta
        <2>1. /\ mao[w] \in Mensagens /\ TemIngresso(mao[w])
              /\ UNCHANGED <<conteudo, dono, estado, avisos, entradas>>
              /\ confirmadas' \in {confirmadas, confirmadas \cup {mao[w]}}
            BY <1>1, <1>6
            DEF Confirmar, PromessaFiel, Conta, Tratada, Tipo, MaoOcupada, banco, portaria
        <2>2. CASE confirmadas' = confirmadas BY <1>2, <2>1, <2>2
        <2>3. CASE confirmadas' = confirmadas \cup {mao[w]}
            <3>1. PICK i \in Ids : dono[i] = conteudo[mao[w]] BY <2>1 DEF TemIngresso
            <3>2. <<conteudo[mao[w]], i>> \in Emitidos
                BY <1>1, <2>1, <3>1, EmitidoDe DEF TemIngresso
            <3>3. PICK r \in Reservas : r = conteudo[mao[w]] BY <2>1 DEF TemIngresso
            <3>4. Atendidas' = Atendidas \cup {r}
                BY <2>1, <2>3, <3>3 DEF Atendidas
            <3>5. Promessa!Atender(r)
                BY <2>1, <3>2, <3>3, <3>4 DEF Promessa!Atender, Emitidos, Atendidas
            <3> QED BY <3>5 DEF Promessa!Next
        <2> QED BY <2>1, <2>2, <2>3
    <1>7. ASSUME NEW g \in Portas, NEW i \in Ids, Utilizar(g, i) PROVE Meta
        <2>1. UNCHANGED <<conteudo, confirmadas, dono, avisos, entradas>>
            BY <1>7 DEF Utilizar, broker
        <2>2. CASE estado[i] = "VALIDO"
            <3>1. \A j \in Ids : estado'[j] = IF j = i THEN "UTILIZADO" ELSE estado[j]
                BY <1>1, <1>7, <2>2 DEF Utilizar, Utilizavel, TypeOK
            <3>2. Usados' = Usados \cup {i} /\ i \notin Usados
                BY <2>2, <3>1 DEF Usados
            <3>3. Promessa!Emitido(i)
                BY <1>1, <2>2, EmitidoDe DEF Emissao, LinhaInteira
            <3>4. Promessa!Usar(i)
                BY <2>1, <3>2, <3>3 DEF Promessa!Usar, Usados
            <3> QED BY <3>4 DEF Promessa!Next
        <2>3. CASE estado[i] # "VALIDO"
            <3>1. estado' = estado
                BY <1>1, <1>7, <2>3 DEF Utilizar, Utilizavel, TypeOK
            <3> QED BY <1>2, <2>1, <3>1
        <2> QED BY <2>2, <2>3
    <1>8. ASSUME NEW g \in Portas, NEW i \in Ids, Responder(g, i) PROVE Meta
        <2>1. UNCHANGED <<conteudo, confirmadas, dono, estado, avisos>>
            BY <1>8 DEF Responder, broker, banco
        <2>2. CASE entradas' = entradas BY <1>2, <2>1, <2>2
        <2>3. CASE leitura[g] = <<"autorizar", i>> /\ entradas' = [entradas EXCEPT ![i] = @ + 1]
            <3>1. estado[i] = "UTILIZADO" /\ entradas[i] = 0
                BY <2>3 DEF PromessaFiel, Portal, BaixaContada
            <3>2. entradas' = [entradas EXCEPT ![i] = 1]
                BY <1>1, <2>3, <3>1 DEF TypeOK
            <3>3. Promessa!Entrar(i)
                BY <2>1, <3>1, <3>2 DEF Promessa!Entrar
            <3> QED BY <3>3 DEF Promessa!Next
        <2> QED BY <1>8, <2>2, <2>3 DEF Responder
    <1>9. ASSUME NEW g \in Portas, NEW i \in Ids, FalharResposta(g, i) PROVE Meta
        BY <1>2, <1>9 DEF FalharResposta, broker, banco
    <1>10. ASSUME NEW w \in Trabalhadores, NEW m \in Mensagens, Entregar(w, m) PROVE Meta
        BY <1>2, <1>10 DEF Entregar, banco, portaria
    <1>11. ASSUME NEW w \in Trabalhadores, RecusarAnuncio(w) \/ Registrar(w) \/ Quarentena(w) PROVE Meta
        BY <1>2, <1>11 DEF RecusarAnuncio, Registrar, Quarentena, broker, banco, portaria
    <1>12. ASSUME NEW w \in Trabalhadores, Devolver(w) \/ PerderCanal(w) \/ Queda(w) PROVE Meta
        BY <1>1, <1>2, <1>12, ReaverTipo DEF Devolver, PerderCanal, Queda, banco, portaria
    <1>13. ASSUME UNCHANGED vars PROVE Meta
        BY <1>2, <1>13 DEF vars
    <1> HIDE DEF Meta
    <1>14. ASSUME NEW w \in Trabalhadores, Tratar(w) PROVE Meta
        BY <1>4, <1>5, <1>6, <1>10, <1>11, <1>12, <1>14 DEF Tratar
    <1>15. ASSUME NEW w \in Trabalhadores, FalharEmissao(w) \/ PerderCanal(w) \/ Queda(w) PROVE Meta
        BY <1>4, <1>12, <1>15
    <1>16. ASSUME NEW g \in Portas, NEW i \in Ids,
                  Utilizar(g, i) \/ Responder(g, i) \/ FalharResposta(g, i)
           PROVE  Meta
        BY <1>7, <1>8, <1>9, <1>16
    <1>17. ASSUME Next PROVE Meta
        BY <1>3, <1>14, <1>15, <1>16, <1>17 DEF Next
    <1> QED BY <1>13, <1>17 DEF Meta

LEMMA PromessaComeca == Init => Promessa!Init
    <1> SUFFICES ASSUME Init PROVE Promessa!Init
        OBVIOUS
    <1>1. Ouvidas = {} /\ Emitidos = {} /\ Atendidas = {} /\ Usados = {}
        BY DEF Init, Ouvidas, Emitidos, Atendidas, Usados
    <1> QED BY <1>1 DEF Init, Promessa!Init, Ouvidas, Emitidos, Atendidas, Usados

(* The service keeps the promise of Bilhetes: whatever is announced or     *)
(* delivered again, whoever falls and however many gates read, a paid      *)
(* reservation has one ticket, an acknowledged one has it already, its     *)
(* owner is notified at most once and one person at most comes in with it. *)
THEOREM NotificacaoCumpreBilhetes == Spec => CumpreBilhetes
    <1>1. Init => PromessaFiel BY InicioSeguro DEF PromessaFiel
    <1>2. PromessaFiel /\ [Next]_vars => PromessaFiel'
        BY ContaPasso, PortalPasso, AvisosPasso, TiposDaPromessa DEF PromessaFiel
    <1> QED BY <1>1, <1>2, PromessaComeca, PassoCumpre, PTL DEF Spec, CumpreBilhetes, Promessa!Spec
=============================================================================
