------------------------------- MODULE Salas -------------------------------
(***************************************************************************)
(* The cinemas and the rooms of the catalogue (src/catalogo), and the      *)
(* seats announced with the sessions of a room.                            *)
(*                                                                         *)
(* Creating or changing a room is a request of several steps, each one a   *)
(* query: the row it is about and its cinema are read and the body is      *)
(* validated, the number is found free, the row is written.  Nothing is    *)
(* locked between them; what stands between two requests is the partial    *)
(* unique index on the numbers of the active rooms.  Creating a session    *)
(* reads the layout of a room in one step and announces it in another.     *)
(* Every write of a cinema, and the removal of a room, is one step.  A     *)
(* request refused at its first step changes nothing and has no action.    *)
(***************************************************************************)
EXTENDS Planta, FiniteSets

CONSTANTS
    Pedidos,   \* requests the server treats at once
    Cinemas,
    Salas,     \* identifiers GerarID gives
    Numeros,   \* room numbers asked for
    Desenhos,  \* the lists of rows clients send
    Ausente    \* a field left out

ASSUME ConstantesSalas ==
    /\ Numeros \subseteq Nat
    /\ Desenhos \subseteq Seq(DadosFileira)
    /\ Ausente \notin Cinemas

Plantas == {NovoLayoutSala(ds) : ds \in {d \in Desenhos : PlantaValida(d)}}

VARIABLES
    cinema,      \* rows of cinemas
    sala,        \* rows of salas
    anunciadas,  \* a room and the seats that went with a session of it
    pedido       \* where each request is

vars == <<cinema, sala, anunciadas, pedido>>

Linhas  == [cinema: Cinemas, numero: Numeros \ {0}, planta: Plantas, ativo: BOOLEAN]
SemSala == [cinema |-> Ausente, numero |-> 0, planta |-> <<>>, ativo |-> FALSE]
Livre   == [fase |-> "livre", op |-> "nenhuma", id |-> Ausente, linha |-> SemSala]

TypeOK ==
    /\ cinema \in [Cinemas -> {"INEXISTENTE", "ATIVO", "INATIVO"}]
    /\ sala \in [Salas -> Linhas \cup {SemSala}]
    /\ anunciadas \subseteq Salas \X {Poltronas(p) : p \in Plantas}
    /\ pedido \in [Pedidos ->
          [fase: {"lido", "conferido"}, op: {"criar", "alterar", "anunciar"},
           id: Salas, linha: Linhas] \cup {Livre}]

Init ==
    /\ cinema = [c \in Cinemas |-> "INEXISTENTE"]
    /\ sala = [a \in Salas |-> SemSala]
    /\ anunciadas = {}
    /\ pedido = [w \in Pedidos |-> Livre]

Existe(a) == sala[a] # SemSala

-----------------------------------------------------------------------------
(* Cinemas. *)

(* CinemaRepository.Existe: an inactive cinema exists. *)
CinemaExiste(c) == cinema[c] # "INEXISTENTE"

(* NovoCinema.  A body that says nothing of ativo says TRUE, here and in   *)
(* NovaSala: a PUT without it brings back what was removed.                *)
EstadoDoCinema(ativo) == IF ativo THEN "ATIVO" ELSE "INATIVO"

CriarCinema(c, ativo) ==
    /\ ~ CinemaExiste(c)
    /\ cinema' = [cinema EXCEPT ![c] = EstadoDoCinema(ativo)]
    /\ UNCHANGED <<sala, anunciadas, pedido>>

AtualizarCinema(c, ativo) ==
    /\ CinemaExiste(c)
    /\ cinema' = [cinema EXCEPT ![c] = EstadoDoCinema(ativo)]
    /\ UNCHANGED <<sala, anunciadas, pedido>>

(* Desativar: the row stays, its rooms and their sessions refer to it, and *)
(* none of them is touched.                                                *)
RemoverCinema(c) ==
    /\ CinemaExiste(c)
    /\ cinema' = [cinema EXCEPT ![c] = "INATIVO"]
    /\ UNCHANGED <<sala, anunciadas, pedido>>

-----------------------------------------------------------------------------
(* Requests that create or change a room. *)

NovaSala(c, n, ds, ativo) ==
    [cinema |-> c, numero |-> n, planta |-> NovoLayoutSala(ds), ativo |-> ativo]
QualquerNumero(n, ds) == PlantaValida(ds)   \* a mutant
DadosValidos(n, ds) == n > 0 /\ PlantaValida(ds)

IdNovo(a) == ~ Existe(a) /\ \A w \in Pedidos : pedido[w].id # a

Comecar(w, op, a, linha) ==
    /\ pedido' = [pedido EXCEPT ![w] = [fase |-> "lido", op |-> op, id |-> a, linha |-> linha]]
    /\ UNCHANGED <<cinema, sala, anunciadas>>

(* CriarSala up to the existence of the cinema. *)
PedirCriacao(w, a, c, n, ds, ativo) ==
    /\ pedido[w] = Livre
    /\ IdNovo(a)
    /\ CinemaExiste(c)
    /\ DadosValidos(n, ds)
    /\ Comecar(w, "criar", a, NovaSala(c, n, ds, ativo))

(* A layout is never drawn again; leaving the comparison out is a mutant.  *)
QualquerPlanta(a, planta) == TRUE
MesmaPlanta(a, planta) == planta = sala[a].planta

(* AtualizarSala up to the existence of the cinema: cinema and rows left   *)
(* out are those of the row read.                                          *)
PedirAlteracao(w, a, c, n, corpo, ativo) ==
    LET ds == IF corpo = Ausente THEN Dados(sala[a].planta) ELSE corpo IN
    /\ pedido[w] = Livre
    /\ Existe(a)
    /\ c \in {Ausente, sala[a].cinema}
    /\ DadosValidos(n, ds)
    /\ MesmaPlanta(a, NovoLayoutSala(ds))
    /\ CinemaExiste(sala[a].cinema)
    /\ Comecar(w, "alterar", a, NovaSala(sala[a].cinema, n, ds, ativo))

(* NumeroEmUso *)
NumeroEmUso(c, n, exceto) ==
    \E a \in Salas \ {exceto} :
        Existe(a) /\ sala[a].cinema = c /\ sala[a].numero = n /\ sala[a].ativo

(* conferirCinemaELiberdadeDoNumero, its question about the number. *)
ConferirNumero(w) ==
    LET p == pedido[w] IN
    /\ p.fase = "lido" /\ p.op # "anunciar"
    /\ p.linha.ativo => ~ NumeroEmUso(p.linha.cinema, p.linha.numero, p.id)
    /\ pedido' = [pedido EXCEPT ![w].fase = "conferido"]
    /\ UNCHANGED <<cinema, sala, anunciadas>>

(* idx_salas_cinema_numero_ativa; the check made before is no substitute.  *)
SemIndice(linha, a) == TRUE
IndiceAceita(linha, a) == linha.ativo => ~ NumeroEmUso(linha.cinema, linha.numero, a)

(* SalaRepository.Criar and Atualizar: every column but the cinema, which  *)
(* a change leaves as it is.                                               *)
Gravar(w) ==
    LET p == pedido[w] IN
    /\ p.fase = "conferido"
    /\ IndiceAceita(p.linha, p.id)
    /\ sala' = [sala EXCEPT ![p.id] =
          IF p.op = "criar" THEN p.linha ELSE [p.linha EXCEPT !.cinema = sala[p.id].cinema]]
    /\ pedido' = [pedido EXCEPT ![w] = Livre]
    /\ UNCHANGED <<cinema, anunciadas>>

(* RemoverSala: Desativar, whatever else is going on about the room. *)
RemoverSala(a) ==
    /\ Existe(a)
    /\ sala' = [sala EXCEPT ![a].ativo = FALSE]
    /\ UNCHANGED <<cinema, anunciadas, pedido>>

(* A request ends without writing: number taken, database out of reach,    *)
(* client gone, process fallen.                                            *)
Recusar(w) ==
    /\ pedido[w] # Livre
    /\ pedido' = [pedido EXCEPT ![w] = Livre]
    /\ UNCHANGED <<cinema, sala, anunciadas>>

-----------------------------------------------------------------------------
(* Sessions, as far as the layout is concerned. *)

(* conferirGrade reads the room, active or not. *)
PedirSessao(w, a) ==
    /\ pedido[w] = Livre
    /\ Existe(a)
    /\ Comecar(w, "anunciar", a, sala[a])

(* CriarSessao: the seats of the layout it read go with sessao.criada. *)
Anunciar(w) ==
    LET p == pedido[w] IN
    /\ p.fase = "lido" /\ p.op = "anunciar"
    /\ anunciadas' = anunciadas \cup {<<p.id, Poltronas(p.linha.planta)>>}
    /\ pedido' = [pedido EXCEPT ![w] = Livre]
    /\ UNCHANGED <<cinema, sala>>

-----------------------------------------------------------------------------
EscreverCinema ==
    \E c \in Cinemas :
        \/ \E ativo \in BOOLEAN : CriarCinema(c, ativo) \/ AtualizarCinema(c, ativo)
        \/ RemoverCinema(c)

(* That a request starts only when it is free is said before the bodies   *)
(* are listed, which spares TLC the list.                                  *)
Atender(w) ==
    \/ /\ pedido[w] = Livre
       /\ \E a \in Salas, n \in Numeros, ativo \in BOOLEAN :
             \/ \E c \in Cinemas, ds \in Desenhos : PedirCriacao(w, a, c, n, ds, ativo)
             \/ \E c \in Cinemas \cup {Ausente}, ds \in Desenhos \cup {Ausente} :
                   PedirAlteracao(w, a, c, n, ds, ativo)
    \/ ConferirNumero(w)
    \/ Gravar(w)
    \/ Recusar(w)
    \/ \E a \in Salas : PedirSessao(w, a)
    \/ Anunciar(w)

Next == EscreverCinema \/ (\E w \in Pedidos : Atender(w)) \/ (\E a \in Salas : RemoverSala(a))

Spec == Init /\ [][Next]_vars

-----------------------------------------------------------------------------
(* Two active rooms of a cinema never have one number, although a request  *)
(* finds the number free one step before it takes it, a removal frees it   *)
(* and a change may bring a removed room back.                             *)
NumeroUnico ==
    \A a, b \in Salas :
        a # b /\ sala[a].ativo /\ sala[b].ativo /\ sala[a].cinema = sala[b].cinema
            => sala[a].numero # sala[b].numero

(* The seats announced with the sessions of a room are the seats of the    *)
(* room, for ever: no change that was on its way when the layout was read, *)
(* or that came later, parts the seats on sale from the room.              *)
AnuncioDaSala ==
    \A x \in anunciadas : Existe(x[1]) /\ x[2] = Poltronas(sala[x[1]].planta)

(* What the catalogue announces, the inventory provisions: every seat is   *)
(* valid there, none comes twice, and there are as many as the capacity    *)
(* the room shows.                                                         *)
AnuncioAceito ==
    \A x \in anunciadas :
        /\ MatrizAceita(x[2])
        /\ Len(x[2]) = CapacidadeTotal(sala[x[1]].planta)

(* A PUT with the rows a GET returned, in whatever order, is not taken for *)
(* another layout.                                                         *)
ReenvioAceito ==
    \A a \in Salas : Existe(a) =>
        \A ordem \in Bijection(DOMAIN sala[a].planta, DOMAIN sala[a].planta) :
            LET ds == [i \in DOMAIN ordem |-> Dados(sala[a].planta)[ordem[i]]] IN
            PlantaValida(ds) /\ MesmaPlanta(a, NovoLayoutSala(ds))
=============================================================================
