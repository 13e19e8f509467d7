----------------------------- MODULE Pagamento -----------------------------
(***************************************************************************)
(* The payment service (src/pagamento): one transaction per reservation,   *)
(* charged by a periodic sweep that any number of instances may run.       *)
(*                                                                         *)
(* Every SQL statement of the service commits by itself, so one action is  *)
(* one statement, one call to the acquirer or one publication, and every   *)
(* instance can fall between any two of them.  A sweep reads rows, keeps   *)
(* the copies and works through them while other instances, the requests   *)
(* that choose a payment form and the clock go on.                         *)
(*                                                                         *)
(* The acquirer and the broker appear through what they answer: a charge   *)
(* is approved, refused, left without an answer or not attempted.          *)
(***************************************************************************)
EXTENDS Naturals, FiniteSets

CONSTANTS
    Reservas,
    Instancias,   \* processes that run the sweep
    Prazo,        \* expira_em of each reservation
    Lote,         \* VARREDURA_LOTE
    Horizonte,    \* bound: the clock stops here
    MaxQuedas,    \* bound: interruptions in a behaviour
    Nada          \* "no row in hand"

ASSUME ConstantesPagamento ==
    /\ Prazo \in [Reservas -> Nat]
    /\ Lote \in Nat \ {0}
    /\ Horizonte \in Nat
    /\ MaxQuedas \in Nat

VARIABLES
    status,      \* transacoes_pagamento.status; INEXISTENTE: no row yet
    emitida,     \* cobranca_emitida
    anunciado,   \* resultado_anunciado
    escolhendo,  \* requests that passed the check and have not written yet
    fatos,       \* outcomes the broker was given, by routing key
    debitos,     \* charges the acquirer really made
    etapa,       \* part of the sweep each instance is in
    passo,       \* where it is within that part
    lista,       \* copies of rows it has still to treat
    atual,       \* the copy in hand
    abertos,     \* instances whose channel for publications is open
    quedas,
    agora

tabela  == <<status, emitida, anunciado>>
memoria == <<etapa, passo, lista, atual>>
vars    == <<status, emitida, anunciado, escolhendo, fatos, debitos, etapa, passo,
             lista, atual, abertos, quedas, agora>>

Status     == {"INEXISTENTE", "AGUARDANDO_FORMA", "PROCESSANDO", "PAGO", "RECUSADO",
               "CANCELADO", "PENDENTE_VERIFICACAO"}
Anunciavel == {"PAGO", "RECUSADO", "CANCELADO"}
Final      == Anunciavel \cup {"PENDENTE_VERIFICACAO"}
Rotas      == {"pagamento.sucesso", "pagamento.falhou"}
Etapas     == {"desistir", "cobrar", "republicar"}

(* After the acquirer answered: what the instance is about to write. *)
Respostas  == {"aprovar", "recusar", "verificar"}
Passos     == {"consultar", "percorrer", "reivindicar", "cobrando", "liberar",
               "cancelar", "anunciar", "marcar"} \cup Respostas

(* A copy of a row: its reservation and the status it had. *)
Copias == Reservas \X Status

TypeOK ==
    /\ status \in [Reservas -> Status]
    /\ emitida \in [Reservas -> BOOLEAN]
    /\ anunciado \in [Reservas -> BOOLEAN]
    /\ escolhendo \subseteq Reservas
    /\ fatos \subseteq Reservas \X Rotas
    /\ debitos \in [Reservas -> Nat]
    /\ etapa \in [Instancias -> Etapas]
    /\ passo \in [Instancias -> Passos]
    /\ lista \in [Instancias -> SUBSET Copias]
    /\ atual \in [Instancias -> Copias \cup {Nada}]
    /\ abertos \subseteq Instancias
    /\ quedas \in Nat
    /\ agora \in Nat

Init ==
    /\ status = [r \in Reservas |-> "INEXISTENTE"]
    /\ emitida = [r \in Reservas |-> FALSE]
    /\ anunciado = [r \in Reservas |-> FALSE]
    /\ escolhendo = {}
    /\ fatos = {}
    /\ debitos = [r \in Reservas |-> 0]
    /\ etapa = [i \in Instancias |-> "desistir"]
    /\ passo = [i \in Instancias |-> "consultar"]
    /\ lista = [i \in Instancias |-> {}]
    /\ atual = [i \in Instancias |-> Nada]
    /\ abertos = Instancias
    /\ quedas = 0
    /\ agora = 0

Expirada(r) == Prazo[r] <= agora

-----------------------------------------------------------------------------
(* The consumer of reserva.criada and the choice of a payment form. *)

(* RegistrarIntencao: INSERT ... ON CONFLICT (reserva_id) DO NOTHING.  A    *)
(* repeated announcement inserts nothing; a late one is accepted.          *)
RegistrarIntencao(r) ==
    /\ status[r] = "INEXISTENTE"
    /\ status' = [status EXCEPT ![r] = "AGUARDANDO_FORMA"]
    /\ UNCHANGED <<emitida, anunciado, escolhendo, fatos, debitos, memoria, abertos, quedas, agora>>

(* EscolherForma reads the row and finds it waiting and in time. *)
EscolherForma(r) ==
    /\ status[r] = "AGUARDANDO_FORMA"
    /\ ~ Expirada(r)
    /\ escolhendo' = escolhendo \cup {r}
    /\ UNCHANGED <<tabela, fatos, debitos, memoria, abertos, quedas, agora>>

(* WHERE status = 'AGUARDANDO_FORMA'; the mutant trusts the row it read.   *)
EscolhaSemConferir(r) == TRUE
EscolhaCabe(r) == status[r] = "AGUARDANDO_FORMA"

(* RegistrarEscolha, which may come after the wait was cancelled. *)
RegistrarEscolha(r) ==
    /\ r \in escolhendo
    /\ status' = [status EXCEPT ![r] = IF EscolhaCabe(r) THEN "PROCESSANDO" ELSE @]
    /\ escolhendo' = escolhendo \ {r}
    /\ UNCHANGED <<emitida, anunciado, fatos, debitos, memoria, abertos, quedas, agora>>

-----------------------------------------------------------------------------
(* The sweep: give up on expired waits, charge what was chosen, announce   *)
(* again what was not.                                                     *)

(* The rows a query with LIMIT returns, in any order. *)
ComLimite(R) ==
    {E \in SUBSET R : Cardinality(E) <= Lote /\ (E # R => Cardinality(E) = Lote)}

Consultando(i, e) == passo[i] = "consultar" /\ etapa[i] = e

Percorrer(i, copias) ==
    /\ lista' = [lista EXCEPT ![i] = copias]
    /\ passo' = [passo EXCEPT ![i] = "percorrer"]
    /\ UNCHANGED <<etapa, atual>>

(* The mutant gives up on who has chosen. *)
EscolhidaVencida(r) == status[r] = "PROCESSANDO" /\ Expirada(r)
EsperaVencida(r) == status[r] = "AGUARDANDO_FORMA" /\ Expirada(r)

(* CancelarEsperasVencidas: one UPDATE ... RETURNING. *)
DesistirDasVencidas(i) ==
    /\ Consultando(i, "desistir")
    /\ \E E \in ComLimite({r \in Reservas : EsperaVencida(r)}) :
          /\ status' = [r \in Reservas |-> IF r \in E THEN "CANCELADO" ELSE status[r]]
          /\ Percorrer(i, E \X {"CANCELADO"})
    /\ UNCHANGED <<emitida, anunciado, escolhendo, fatos, debitos, abertos, quedas, agora>>

(* AguardandoCobranca *)
ListarEscolhidas(i) ==
    /\ Consultando(i, "cobrar")
    /\ \E E \in ComLimite({r \in Reservas : status[r] = "PROCESSANDO" /\ ~ emitida[r]}) :
          Percorrer(i, E \X {"PROCESSANDO"})
    /\ UNCHANGED <<tabela, escolhendo, fatos, debitos, abertos, quedas, agora>>

(* estadosAnunciaveis; the mutant forgets what nobody chose to pay. *)
SoCobrada(r) == status[r] \in {"PAGO", "RECUSADO"} /\ ~ anunciado[r]
AnuncioPendente(r) == status[r] \in Anunciavel /\ ~ anunciado[r]

(* AnunciosPendentes *)
ListarAnuncios(i) ==
    /\ Consultando(i, "republicar")
    /\ \E E \in ComLimite({r \in Reservas : AnuncioPendente(r)}) :
          Percorrer(i, {<<r, status[r]>> : r \in E})
    /\ UNCHANGED <<tabela, escolhendo, fatos, debitos, abertos, quedas, agora>>

ProximaEtapa(e) ==
    CASE e = "desistir" -> "cobrar"
      [] e = "cobrar" -> "republicar"
      [] e = "republicar" -> "desistir"

(* The list is done: on to the next query, or to the next turn. *)
Avancar(i) ==
    /\ passo[i] = "percorrer" /\ lista[i] = {}
    /\ etapa' = [etapa EXCEPT ![i] = ProximaEtapa(@)]
    /\ passo' = [passo EXCEPT ![i] = "consultar"]
    /\ UNCHANGED <<tabela, escolhendo, fatos, debitos, lista, atual, abertos, quedas, agora>>

(* The next copy.  Cobrar decides on it, whose cobranca_emitida is false;  *)
(* the other two parts announce it.                                        *)
Tomar(i) ==
    /\ passo[i] = "percorrer"
    /\ \E c \in lista[i] :
          /\ atual' = [atual EXCEPT ![i] = c]
          /\ lista' = [lista EXCEPT ![i] = @ \ {c}]
          /\ passo' = [passo EXCEPT ![i] =
                          IF etapa[i] # "cobrar" THEN "anunciar"
                          ELSE IF Expirada(c[1]) THEN "cancelar" ELSE "reivindicar"]
    /\ UNCHANGED <<tabela, escolhendo, fatos, debitos, etapa, abertos, quedas, agora>>

(* The instance is at step p with a copy of r. *)
Em(i, p, r) == passo[i] = p /\ atual[i] # Nada /\ atual[i][1] = r

Ir(i, p) == passo' = [passo EXCEPT ![i] = p] /\ UNCHANGED <<etapa, lista, atual>>

Largar(i) ==
    /\ passo' = [passo EXCEPT ![i] = "percorrer"]
    /\ atual' = [atual EXCEPT ![i] = Nada]
    /\ UNCHANGED <<etapa, lista>>

(* WHERE status = 'PROCESSANDO' AND cobranca_emitida = false; the mutant   *)
(* decides on the copy.                                                    *)
LivreNaCopia(r) == TRUE
Reivindicavel(r) == status[r] = "PROCESSANDO" /\ ~ emitida[r]

ReivindicarCobranca(i, r) ==
    /\ Em(i, "reivindicar", r)
    /\ IF Reivindicavel(r)
       THEN emitida' = [emitida EXCEPT ![r] = TRUE] /\ Ir(i, "cobrando")
       ELSE Largar(i) /\ UNCHANGED emitida
    /\ UNCHANGED <<status, anunciado, escolhendo, fatos, debitos, abertos, quedas, agora>>

(* Adquirente.Cobrar: approved, refused, no answer in time (the charge may *)
(* have been made), or an error before the charge was attempted.           *)
Cobrar(i, r) ==
    /\ Em(i, "cobrando", r)
    /\ \/ debitos' = [debitos EXCEPT ![r] = @ + 1] /\ Ir(i, "aprovar")
       \/ debitos' = debitos /\ Ir(i, "recusar")
       \/ debitos' \in {debitos, [debitos EXCEPT ![r] = @ + 1]} /\ Ir(i, "verificar")
       \/ debitos' = debitos /\ Ir(i, "liberar")
    /\ UNCHANGED <<tabela, escolhendo, fatos, abertos, quedas, agora>>

(* LiberarCobranca: the charge was not attempted, another turn will try. *)
LiberarCobranca(i, r) ==
    /\ Em(i, "liberar", r)
    /\ emitida' = [emitida EXCEPT ![r] = IF status[r] = "PROCESSANDO" THEN FALSE ELSE @]
    /\ Largar(i)
    /\ UNCHANGED <<status, anunciado, escolhendo, fatos, debitos, abertos, quedas, agora>>

(* Two mutants: the acquirer's own words, and silence taken for a refusal. *)
PalavraDoAdquirente(p) ==
    CASE p = "aprovar" -> "APROVADA"
      [] p = "recusar" -> "RECUSADA"
      [] p = "verificar" -> "INDETERMINADA"
      [] p = "cancelar" -> "CANCELADO"
SilencioERecusa(p) ==
    CASE p = "aprovar" -> "PAGO"
      [] p \in {"recusar", "verificar"} -> "RECUSADO"
      [] p = "cancelar" -> "CANCELADO"

EstadoFinal(p) ==
    CASE p = "aprovar" -> "PAGO"
      [] p = "recusar" -> "RECUSADO"
      [] p = "verificar" -> "PENDENTE_VERIFICACAO"
      [] p = "cancelar" -> "CANCELADO"

(* WHERE status = 'PROCESSANDO' of Finalizar *)
Finalizavel(r) == status[r] = "PROCESSANDO"

(* Finalizar writes the outcome in hand, and a row that can be announced   *)
(* is announced.                                                           *)
Finalizar(i, r) ==
    /\ \E p \in Respostas \cup {"cancelar"} :
          /\ Em(i, p, r)
          /\ Finalizavel(r)
          /\ status' = [status EXCEPT ![r] = EstadoFinal(p)]
          /\ IF EstadoFinal(p) \in Anunciavel
             THEN /\ passo' = [passo EXCEPT ![i] = "anunciar"]
                  /\ atual' = [atual EXCEPT ![i] = <<r, EstadoFinal(p)>>]
                  /\ UNCHANGED <<etapa, lista>>
             ELSE Largar(i)
    /\ UNCHANGED <<emitida, anunciado, escolhendo, fatos, debitos, abertos, quedas, agora>>

(* ErrJaFinalizada: somebody else ended it.  The row is read again and its *)
(* outcome announced if nobody did; an unanswered charge is left alone.    *)
ResolverConflito(i, r) ==
    /\ \E p \in Respostas \cup {"cancelar"} : Em(i, p, r)
    /\ ~ Finalizavel(r)
    /\ IF passo[i] # "verificar" /\ AnuncioPendente(r)
       THEN /\ passo' = [passo EXCEPT ![i] = "anunciar"]
            /\ atual' = [atual EXCEPT ![i] = <<r, status[r]>>]
            /\ UNCHANGED <<etapa, lista>>
       ELSE Largar(i)
    /\ UNCHANGED <<tabela, escolhendo, fatos, debitos, abertos, quedas, agora>>

(* MontarFato; the mutant knows one way to fail. *)
SoRecusaFalha(s) == IF s = "RECUSADO" THEN "pagamento.falhou" ELSE "pagamento.sucesso"
Rota(s) == IF s = "PAGO" THEN "pagamento.sucesso" ELSE "pagamento.falhou"

(* The mutant does not wait for the broker. *)
PublicarSemEsperar(i, r) ==
    /\ Em(i, "anunciar", r)
    /\ fatos' \in {fatos, fatos \cup {<<r, Rota(atual[i][2])>>}}
    /\ Ir(i, "marcar")
    /\ UNCHANGED <<tabela, escolhendo, debitos, abertos, quedas, agora>>

(* Publicar waits for the confirmation of its own message. *)
PublicarFato(i, r) ==
    /\ Em(i, "anunciar", r)
    /\ i \in abertos
    /\ fatos' = fatos \cup {<<r, Rota(atual[i][2])>>}
    /\ Ir(i, "marcar")
    /\ UNCHANGED <<tabela, escolhendo, debitos, abertos, quedas, agora>>

MarcarAnunciado(i, r) ==
    /\ Em(i, "marcar", r)
    /\ anunciado' = [anunciado EXCEPT ![r] = @ \/ status[r] \in Anunciavel]
    /\ Largar(i)
    /\ UNCHANGED <<status, emitida, escolhendo, fatos, debitos, abertos, quedas, agora>>

-----------------------------------------------------------------------------
(* Failures and time. *)

(* A statement or a publication fails: the row is left for another turn.   *)
FalharItem(i) ==
    /\ passo[i] \notin {"consultar", "percorrer", "cobrando"}
    /\ Largar(i)
    /\ UNCHANGED <<tabela, escolhendo, fatos, debitos, abertos, quedas, agora>>

(* On a closed channel no publication succeeds, and none opens it again.   *)
RecusarPublicacao(i) ==
    /\ passo[i] = "anunciar"
    /\ i \notin abertos
    /\ FalharItem(i)

(* The next turn begins at its first query, with nothing in hand. *)
Recomecar(i) ==
    /\ quedas < MaxQuedas
    /\ quedas' = quedas + 1
    /\ etapa' = [etapa EXCEPT ![i] = "desistir"]
    /\ passo' = [passo EXCEPT ![i] = "consultar"]
    /\ lista' = [lista EXCEPT ![i] = {}]
    /\ atual' = [atual EXCEPT ![i] = Nada]
    /\ UNCHANGED <<tabela, escolhendo, fatos, debitos, agora>>

(* A query fails and ends the turn. *)
FalharConsulta(i) ==
    /\ passo[i] = "consultar"
    /\ Recomecar(i)
    /\ UNCHANGED abertos

(* The process falls; the one that takes its place opens its channels.     *)
Queda(i) == Recomecar(i) /\ abertos' = abertos \cup {i}

(* The channel of the publications closes, alone or with the connection.   *)
(* The process stays: nothing watches this channel, and a consumer whose   *)
(* own channel closed ends without an error.                               *)
FecharCanal(i) ==
    /\ quedas < MaxQuedas
    /\ quedas' = quedas + 1
    /\ i \in abertos
    /\ abertos' = abertos \ {i}
    /\ UNCHANGED <<tabela, escolhendo, fatos, debitos, memoria, agora>>

PassarTempo ==
    /\ agora < Horizonte
    /\ agora' = agora + 1
    /\ UNCHANGED <<tabela, escolhendo, fatos, debitos, memoria, abertos, quedas>>

-----------------------------------------------------------------------------
(* What an instance does by itself. *)
Varrer(i) ==
    \/ DesistirDasVencidas(i)
    \/ ListarEscolhidas(i)
    \/ ListarAnuncios(i)
    \/ Avancar(i)
    \/ Tomar(i)
    \/ RecusarPublicacao(i)
    \/ \E r \in Reservas :
          \/ ReivindicarCobranca(i, r)
          \/ Cobrar(i, r)
          \/ LiberarCobranca(i, r)
          \/ Finalizar(i, r)
          \/ ResolverConflito(i, r)
          \/ PublicarFato(i, r)
          \/ MarcarAnunciado(i, r)

(* What happens when no statement about a row fails.                       *)
NextSemFalhas ==
    \/ \E r \in Reservas : RegistrarIntencao(r) \/ EscolherForma(r) \/ RegistrarEscolha(r)
    \/ \E i \in Instancias : Varrer(i) \/ FalharConsulta(i) \/ Queda(i) \/ FecharCanal(i)
    \/ PassarTempo

Next == NextSemFalhas \/ \E i \in Instancias : FalharItem(i)

Spec == Init /\ [][Next]_vars

(* The ticker keeps sweeping, time passes, and the database and, through   *)
(* an open channel, the broker do not refuse the same operation on the     *)
(* same row for ever.  A row that fails every time, and those it keeps out *)
(* of a limited batch, are outside this assumption.                        *)
Justica ==
    /\ WF_vars(PassarTempo)
    /\ \A i \in Instancias :
          /\ WF_vars(Varrer(i))
          /\ \A r \in Reservas :
                /\ SF_vars(ReivindicarCobranca(i, r))
                /\ SF_vars(Finalizar(i, r))
                /\ SF_vars(PublicarFato(i, r))
                /\ SF_vars(MarcarAnunciado(i, r))

FairSpec == Spec /\ Justica

(* The mildest failures: no statement about a row fails, and the acquirer, *)
(* asked often enough, attempts the charge.  What is left are MaxQuedas    *)
(* falls, failed queries or closed channels.                               *)
AdquirenteResponde ==
    \A i \in Instancias, r \in Reservas : SF_vars(Cobrar(i, r) /\ passo'[i] # "liberar")

SpecSemFalhas == Init /\ [][NextSemFalhas]_vars /\ Justica /\ AdquirenteResponde

-----------------------------------------------------------------------------
(* No reservation is charged twice, however many instances sweep, whatever *)
(* fails and however often a charge is retried.                            *)
UmDebito == \A r \in Reservas : debitos[r] <= 1

(* What was announced is what the row says and will always say: never both *)
(* outcomes, never the silence of PENDENTE_VERIFICACAO, and never a        *)
(* success that nobody paid.                                               *)
FatoFiel ==
    /\ \A f \in fatos :
          f[2] = "pagamento.sucesso" <=> status[f[1]] = "PAGO"
    /\ \A f \in fatos : status[f[1]] \in Anunciavel
    /\ \A r \in Reservas : status[r] = "PAGO" => debitos[r] = 1

(* resultado_anunciado is never ahead of the broker: what is marked was    *)
(* published, so no outcome is forgotten by the sweep of announcements.    *)
MarcadoFoiPublicado == \A r \in Reservas : anunciado[r] => \E f \in fatos : f[1] = r

(* A final state is final. *)
FinalImutavel ==
    [][\A r \in Reservas : status[r] \in Final => status'[r] = status[r]]_vars

(* The service keeps the promise of Cobranca: instances, rows, copies and  *)
(* falls together are one transaction per reservation, charged once, paid  *)
(* only if charged, ended once and announced as it ended.                  *)
Promessa == INSTANCE Cobranca WITH
    situacao <- [r \in Reservas |->
        IF status[r] \in {"AGUARDANDO_FORMA", "PROCESSANDO"} THEN "ABERTA" ELSE status[r]],
    debitadas <- {r \in Reservas : debitos[r] > 0},
    anuncios <- fatos

CumpreCobranca == Promessa!Spec

(* Money that was taken has an owner: a charged transaction is not refused *)
(* or cancelled.  It holds while a single instance sweeps; with two, the   *)
(* run of the same name shows a cancellation decided on an old copy.       *)
DebitoTemDono ==
    \A r \in Reservas : status[r] \in {"RECUSADO", "CANCELADO"} => debitos[r] = 0

(* Liveness: every outcome that can be announced is announced, across      *)
(* falls and failures, unless no instance has an open channel ever again:  *)
(* a closed one stays closed until the process is restarted.               *)
AnuncioSai ==
    \A r \in Reservas :
        status[r] \in Anunciavel ~> (\E f \in fatos : f[1] = r) \/ [](abertos = {})

(* Nor does anybody wait for a choice for ever, closed channels or not.    *)
EsperaTermina ==
    \A r \in Reservas : status[r] = "AGUARDANDO_FORMA" ~> status[r] # "AGUARDANDO_FORMA"

(* What the README says of the sweep, that it takes up a charge that was   *)
(* interrupted: a transaction in PROCESSANDO comes to an end.  One fall    *)
(* between the claim and the outcome is enough to break it, with nothing   *)
(* else failing: SpecSemFalhas.                                            *)
CobrancaTermina ==
    \A r \in Reservas : status[r] = "PROCESSANDO" ~> status[r] \in Final
=============================================================================
