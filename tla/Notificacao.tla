---------------------------- MODULE Notificacao ----------------------------
(***************************************************************************)
(* The ticket service (src/notificacao): a ticket for each paid            *)
(* reservation, a notice to its owner, and the gate that lets people in.   *)
(*                                                                         *)
(* Announcements of pagamento come through a quorum queue that counts      *)
(* deliveries and gives up after LimiteEntregas of them.  A handler is one *)
(* goroutine of one process; its statements commit one by one, and its     *)
(* channel may close under it, after which the queue delivers the message  *)
(* to another one while it goes on.                                        *)
(***************************************************************************)
EXTENDS Naturals, FiniteSets

CONSTANTS
    Reservas,
    Mensagens,        \* deliveries of pagamento.sucesso the broker accepts
    Ids,              \* identifiers of tickets
    Trabalhadores,    \* goroutines of Consumir, each with its channel: processes with a
                      \* prefetch of one (a fall takes one at a time)
    Portas,           \* devices at the gate
    LimiteEntregas,   \* AMQP_LIMITE_ENTREGAS
    MaxFalhas,        \* bound: failures in a behaviour
    Nada

ASSUME ConstantesNotificacao ==
    /\ LimiteEntregas \in Nat
    /\ MaxFalhas \in Nat
    /\ Nada \notin Reservas \cup Mensagens \cup Ids
    /\ "ilegivel" \notin Reservas

VARIABLES
    conteudo,    \* of each message: a reservation, or one validar refuses
    fila,        \* messages ready to be delivered
    entregas,    \* x-delivery-count: how often each came back
    mortas,      \* messages in the dead-letter queue
    confirmadas, \* messages acknowledged
    canal,       \* of each worker
    mao,         \* the message it is treating
    devida,      \* its acknowledgement still counts
    passo,
    meu,         \* the ticket it created
    dono,        \* ingressos_emitidos.reserva_id
    estado,      \* ingressos_emitidos.status
    avisos,      \* notices that reached the owner of each ticket
    registros,   \* registros_notificacao
    leitura,     \* what each gate is doing
    entradas,    \* people let in with each ticket
    perdidas,    \* tickets used up by a reading that answered an error
    falhas

broker   == <<conteudo, fila, entregas, mortas, confirmadas>>
memoria  == <<canal, mao, devida, passo, meu>>
banco    == <<dono, estado, registros>>
portaria == <<leitura, entradas, perdidas>>
vars     == <<conteudo, fila, entregas, mortas, confirmadas, canal, mao, devida, passo, meu,
              dono, estado, avisos, registros, leitura, entradas, perdidas, falhas>>

Passos    == {"livre", "emitir", "avisar", "enviado", "falhou",
              "confirmar", "quarentena", "devolver"}
Desfechos == {"ENVIADO", "FALHA"}
Livre     == <<"livre", Nada>>
Leituras  == {Livre} \cup ({"autorizar", "negar"} \X Ids)

TypeOK ==
    /\ conteudo \in [Mensagens -> Reservas \cup {"ilegivel", Nada}]
    /\ fila \subseteq Mensagens /\ mortas \subseteq Mensagens /\ confirmadas \subseteq Mensagens
    /\ entregas \in [Mensagens -> Nat]
    /\ canal \in [Trabalhadores -> {"aberto", "fechado"}]
    /\ mao \in [Trabalhadores -> Mensagens \cup {Nada}]
    /\ devida \in [Trabalhadores -> BOOLEAN]
    /\ passo \in [Trabalhadores -> Passos]
    /\ meu \in [Trabalhadores -> Ids \cup {Nada}]
    /\ dono \in [Ids -> Reservas \cup {Nada}]
    /\ estado \in [Ids -> {"AUSENTE", "VALIDO", "UTILIZADO"}]
    /\ avisos \in [Ids -> Nat]
    /\ registros \subseteq Ids \X Desfechos
    /\ leitura \in [Portas -> Leituras]
    /\ entradas \in [Ids -> Nat]
    /\ perdidas \subseteq Ids
    /\ falhas \in Nat

Init ==
    /\ conteudo = [m \in Mensagens |-> Nada]
    /\ fila = {} /\ mortas = {} /\ confirmadas = {}
    /\ entregas = [m \in Mensagens |-> 0]
    /\ canal = [w \in Trabalhadores |-> "aberto"]
    /\ mao = [w \in Trabalhadores |-> Nada]
    /\ devida = [w \in Trabalhadores |-> FALSE]
    /\ passo = [w \in Trabalhadores |-> "livre"]
    /\ meu = [w \in Trabalhadores |-> Nada]
    /\ dono = [i \in Ids |-> Nada]
    /\ estado = [i \in Ids |-> "AUSENTE"]
    /\ avisos = [i \in Ids |-> 0]
    /\ registros = {}
    /\ leitura = [g \in Portas |-> Livre]
    /\ entradas = [i \in Ids |-> 0]
    /\ perdidas = {}
    /\ falhas = 0

Falha == falhas < MaxFalhas /\ falhas' = falhas + 1

-----------------------------------------------------------------------------
(* The queue. *)

(* pagamento announces; it may announce one reservation more than once.    *)
Anunciar(m, c) ==
    /\ conteudo[m] = Nada
    /\ conteudo' = [conteudo EXCEPT ![m] = c]
    /\ fila' = fila \cup {m}
    /\ UNCHANGED <<entregas, mortas, confirmadas, memoria, banco, avisos, portaria, falhas>>

Entregar(w, m) ==
    /\ canal[w] = "aberto" /\ passo[w] = "livre"
    /\ m \in fila
    /\ fila' = fila \ {m}
    /\ mao' = [mao EXCEPT ![w] = m]
    /\ devida' = [devida EXCEPT ![w] = TRUE]
    /\ passo' = [passo EXCEPT ![w] = "emitir"]
    /\ UNCHANGED <<conteudo, entregas, mortas, confirmadas, canal, meu, banco, avisos,
                   portaria, falhas>>

(* x-delivery-limit is LimiteEntregas - 1 returns; one more and the        *)
(* message goes to the dead-letter queue.                                  *)
Voltar(m) ==
    /\ entregas' = [entregas EXCEPT ![m] = @ + 1]
    /\ IF entregas[m] + 1 < LimiteEntregas
       THEN fila' = fila \cup {m} /\ UNCHANGED mortas
       ELSE mortas' = mortas \cup {m} /\ UNCHANGED fila
    /\ UNCHANGED <<conteudo, confirmadas>>

(* The message of w comes back, if it was still w's; the mutant consumes   *)
(* with autoAck, and what was delivered is gone.                           *)
AutoAck(w) == UNCHANGED broker
Reaver(w) == IF devida[w] THEN Voltar(mao[w]) ELSE UNCHANGED broker

Largar(w) ==
    /\ mao' = [mao EXCEPT ![w] = Nada]
    /\ devida' = [devida EXCEPT ![w] = FALSE]
    /\ passo' = [passo EXCEPT ![w] = "livre"]
    /\ meu' = [meu EXCEPT ![w] = Nada]

Ir(w, p) == passo' = [passo EXCEPT ![w] = p] /\ UNCHANGED <<canal, mao, devida, meu>>

-----------------------------------------------------------------------------
(* Executar and tratar. *)

Legivel(w) == conteudo[mao[w]] \in Reservas

RecusarAnuncio(w) ==
    /\ passo[w] = "emitir" /\ ~ Legivel(w)
    /\ Ir(w, "quarentena")
    /\ UNCHANGED <<broker, banco, avisos, portaria, falhas>>

(* UNIQUE (reserva_id), ON CONFLICT DO NOTHING; the mutant has no such key. *)
SemChaveUnica(r) == TRUE
SemIngresso(r) == \A i \in Ids : dono[i] # r

Inserir(i, r) ==
    /\ estado[i] = "AUSENTE"
    /\ dono' = [dono EXCEPT ![i] = r]
    /\ estado' = [estado EXCEPT ![i] = "VALIDO"]
    /\ UNCHANGED registros

(* CriarSeAusente: the ticket is created, or somebody created it before.   *)
CriarSeAusente(w) ==
    /\ passo[w] = "emitir" /\ Legivel(w)
    /\ LET r == conteudo[mao[w]] IN
          \/ /\ SemIngresso(r)
             /\ \E i \in Ids : Inserir(i, r) /\ meu' = [meu EXCEPT ![w] = i]
             /\ passo' = [passo EXCEPT ![w] = "avisar"]
             /\ UNCHANGED <<canal, mao, devida>>
          \/ ~ SemIngresso(r) /\ Ir(w, "confirmar") /\ UNCHANGED banco
    /\ UNCHANGED <<broker, avisos, portaria, falhas>>

(* The statement fails, or its answer is lost after it was committed.      *)
FalharEmissao(w) ==
    /\ passo[w] = "emitir" /\ Legivel(w)
    /\ Falha
    /\ \/ UNCHANGED banco
       \/ LET r == conteudo[mao[w]] IN SemIngresso(r) /\ \E i \in Ids : Inserir(i, r)
    /\ Ir(w, "devolver")
    /\ UNCHANGED <<broker, avisos, portaria>>

(* avisar: the notice is sent, or an error, perhaps after it was sent.     *)
Avisar(w) ==
    /\ passo[w] = "avisar"
    /\ \/ avisos' = [avisos EXCEPT ![meu[w]] = @ + 1] /\ Ir(w, "enviado")
       \/ avisos' \in {avisos, [avisos EXCEPT ![meu[w]] = @ + 1]} /\ Ir(w, "falhou")
    /\ UNCHANGED <<broker, banco, portaria, falhas>>

(* Two mutants: the word of another vocabulary, and one outcome only. *)
OutraPalavra(p) == p
SempreEnviado(p) == "ENVIADO"
DesfechoDe(p) == IF p = "enviado" THEN "ENVIADO" ELSE "FALHA"

(* Registrar; its failure is logged and nothing else. *)
Registrar(w) ==
    /\ passo[w] \in {"enviado", "falhou"}
    /\ \/ registros' = registros \cup {<<meu[w], DesfechoDe(passo[w])>>} /\ UNCHANGED falhas
       \/ Falha /\ UNCHANGED registros
    /\ Ir(w, "confirmar")
    /\ UNCHANGED <<broker, dono, estado, avisos, portaria>>

(* Ack, of a message that is still w's. *)
Confirmar(w) ==
    /\ passo[w] = "confirmar"
    /\ confirmadas' = IF devida[w] THEN confirmadas \cup {mao[w]} ELSE confirmadas
    /\ Largar(w)
    /\ UNCHANGED <<conteudo, fila, entregas, mortas, canal, banco, avisos, portaria, falhas>>

(* Nack without requeue. *)
Quarentena(w) ==
    /\ passo[w] = "quarentena"
    /\ mortas' = IF devida[w] THEN mortas \cup {mao[w]} ELSE mortas
    /\ Largar(w)
    /\ UNCHANGED <<conteudo, fila, entregas, confirmadas, canal, banco, avisos, portaria, falhas>>

(* The mutant acknowledges what it could not store. *)
DevolverConfirmando(w) ==
    /\ passo[w] = "devolver"
    /\ confirmadas' = IF devida[w] THEN confirmadas \cup {mao[w]} ELSE confirmadas
    /\ Largar(w)
    /\ UNCHANGED <<conteudo, fila, entregas, mortas, canal, banco, avisos, portaria, falhas>>

(* Nack with requeue, after a while. *)
Devolver(w) ==
    /\ passo[w] = "devolver"
    /\ Reaver(w)
    /\ Largar(w)
    /\ UNCHANGED <<canal, banco, avisos, portaria, falhas>>

(* The channel closes: Consumir returns without an error when its workers  *)
(* are done, and nobody calls it again.                                    *)
PerderCanal(w) ==
    /\ canal[w] = "aberto"
    /\ Falha
    /\ Reaver(w)
    /\ canal' = [canal EXCEPT ![w] = "fechado"]
    /\ devida' = [devida EXCEPT ![w] = FALSE]
    /\ UNCHANGED <<mao, passo, meu, banco, avisos, portaria>>

(* The process falls and starts again. *)
Queda(w) ==
    /\ Falha
    /\ Reaver(w)
    /\ canal' = [canal EXCEPT ![w] = "aberto"]
    /\ Largar(w)
    /\ UNCHANGED <<banco, avisos, portaria>>

-----------------------------------------------------------------------------
(* The gate.  Only codes of existing tickets are worth reading: any other  *)
(* is refused by its signature.                                            *)

(* WHERE status = 'VALIDO'; the mutant looks at the signature only.        *)
ExisteIngresso(i) == estado[i] # "AUSENTE"
Utilizavel(i) == estado[i] = "VALIDO"

Utilizar(g, i) ==
    /\ leitura[g] = Livre /\ estado[i] # "AUSENTE"
    /\ estado' = [estado EXCEPT ![i] = IF Utilizavel(i) THEN "UTILIZADO" ELSE @]
    /\ leitura' = [leitura EXCEPT ![g] =
                      <<IF Utilizavel(i) THEN "autorizar" ELSE "negar", i>>]
    /\ UNCHANGED <<broker, memoria, dono, avisos, registros, entradas, perdidas, falhas>>

(* BuscarPorID, and the answer to the device. *)
Responder(g, i) ==
    /\ \/ /\ leitura[g] = <<"autorizar", i>>
          /\ entradas' = [entradas EXCEPT ![i] = @ + 1]
       \/ leitura[g] = <<"negar", i>> /\ UNCHANGED entradas
    /\ leitura' = [leitura EXCEPT ![g] = Livre]
    /\ UNCHANGED <<broker, memoria, banco, avisos, perdidas, falhas>>

(* The second statement fails: the device is told to try again, and the    *)
(* ticket is used.                                                         *)
FalharResposta(g, i) ==
    /\ leitura[g] \in {<<"autorizar", i>>, <<"negar", i>>}
    /\ Falha
    /\ perdidas' = IF leitura[g][1] = "autorizar" THEN perdidas \cup {i} ELSE perdidas
    /\ leitura' = [leitura EXCEPT ![g] = Livre]
    /\ UNCHANGED <<broker, memoria, banco, avisos, entradas>>

-----------------------------------------------------------------------------
(* What a worker does by itself. *)
Tratar(w) ==
    \/ \E m \in Mensagens : Entregar(w, m)
    \/ RecusarAnuncio(w)
    \/ CriarSeAusente(w)
    \/ Avisar(w)
    \/ Registrar(w)
    \/ Confirmar(w)
    \/ Quarentena(w)
    \/ Devolver(w)

Next ==
    \/ \E m \in Mensagens, c \in Reservas \cup {"ilegivel"} : Anunciar(m, c)
    \/ \E w \in Trabalhadores : Tratar(w) \/ FalharEmissao(w) \/ PerderCanal(w) \/ Queda(w)
    \/ \E g \in Portas, i \in Ids : Utilizar(g, i) \/ Responder(g, i) \/ FalharResposta(g, i)

Spec == Init /\ [][Next]_vars

(* The broker delivers what is ready and a goroutine goes on.              *)
Justica == \A w \in Trabalhadores : WF_vars(Tratar(w))

FairSpec == Spec /\ Justica

-----------------------------------------------------------------------------
(* One ticket per reservation, however often it is announced, delivered or *)
(* treated by two workers at once.                                         *)
IngressoUnico ==
    \A i, j \in Ids : dono[i] # Nada /\ dono[i] = dono[j] => i = j

(* One admission per ticket: a used ticket let one person in, or is in the *)
(* hands of one gate that will, or was lost by a reading that failed.      *)
EntradaUnica ==
    \A i \in Ids :
        /\ entradas[i] <= 1
        /\ entradas[i] = 1 =>
              estado[i] = "UTILIZADO" /\ i \notin perdidas
              /\ \A g \in Portas : leitura[g] # <<"autorizar", i>>
        /\ \A g, h \in Portas :
              leitura[g] = <<"autorizar", i>> /\ leitura[h] = <<"autorizar", i>> => g = h

(* A paid reservation is never forgotten: what was acknowledged has its    *)
(* ticket.                                                                 *)
TemIngresso(m) == conteudo[m] \in Reservas /\ \E i \in Ids : dono[i] = conteudo[m]
ConfirmadaTemIngresso == \A m \in confirmadas : TemIngresso(m)

(* The owner is not told twice, and a notice on record as sent was sent.   *)
AvisoUnico ==
    \A i \in Ids : avisos[i] <= 1 /\ (<<i, "ENVIADO">> \in registros => avisos[i] = 1)

(* The service keeps the promise of Bilhetes: messages announced and       *)
(* delivered more than once, workers that treat one at the same time,      *)
(* attempts, falls and gates are one ticket per paid reservation, settled  *)
(* once it is there, notified at most once and good for one person.        *)
Promessa == INSTANCE Bilhetes WITH
    ouvidas <- {r \in Reservas : \E m \in Mensagens : conteudo[m] = r},
    bilhetes <- {<<dono[i], i>> : i \in {j \in Ids : dono[j] # Nada}},
    atendidas <- {conteudo[m] : m \in confirmadas},
    usados <- {i \in Ids : estado[i] = "UTILIZADO"}

CumpreBilhetes == Promessa!Spec

(* Liveness: an announcement of a paid reservation ends in a ticket or in  *)
(* the dead-letter queue, unless every consumer lost its channel.          *)
IngressoSai ==
    \A m \in Mensagens, r \in Reservas : conteudo[m] = r ~>
        \/ \E i \in Ids : dono[i] = r
        \/ m \in mortas
        \/ \A w \in Trabalhadores : canal[w] = "fechado"
=============================================================================
