------------------------------- MODULE Planta -------------------------------
(***************************************************************************)
(* The layout of a room: how the catalogue makes one from the rows a       *)
(* client sends (src/catalogo, layout.go), the seats it announces with a   *)
(* session, and what the inventory accepts of them (src/estoque,           *)
(* provisionar_sessao.go).                                                 *)
(*                                                                         *)
(* The label of a row is its place in the alphabetical order, 0 for one no *)
(* row may have (empty, too long, not of letters).  A client may spell it  *)
(* with spaces or in lower case: <<n, "crua">>.                            *)
(***************************************************************************)
EXTENDS Integers, Sequences, SequencesExt

TiposPoltrona == {"NORMAL", "PCD", "NAMORADEIRA"}

(* A row as a client sends it; "OUTRO" is a type the program has not. *)
DadosFileira == [fileira: Nat \X {"limpa", "crua"}, assentos: Int,
                 tipo: TiposPoltrona \cup {"", "OUTRO"}]

(* ToUpper(TrimSpace(letra)) *)
Normalizar(grafia) == grafia[1]

-----------------------------------------------------------------------------
(* The catalogue: NovoLayoutSala. *)

FileiraValida(d) ==
    /\ Normalizar(d.fileira) > 0
    /\ d.assentos > 0
    /\ d.tipo \in TiposPoltrona \cup {""}

(* No row twice, whatever its spelling; comparing the labels as they came  *)
(* is a mutant.                                                            *)
SemGrafiaRepetida(ds) ==
    \A i, j \in DOMAIN ds : ds[i].fileira = ds[j].fileira => i = j
SemRepetida(ds) ==
    \A i, j \in DOMAIN ds : Normalizar(ds[i].fileira) = Normalizar(ds[j].fileira) => i = j

PlantaValida(ds) ==
    /\ ds # <<>>
    /\ \A i \in DOMAIN ds : FileiraValida(ds[i])
    /\ SemRepetida(ds)

Fileira(d) ==
    [letra |-> Normalizar(d.fileira), assentos |-> d.assentos,
     tipo |-> IF d.tipo = "" THEN "NORMAL" ELSE d.tipo]

(* The rows in alphabetical order; as they came, in a mutant. *)
ComoVieram(fs) == fs
EmOrdem(fs) ==
    LET ordem == CHOOSE p \in Bijection(DOMAIN fs, DOMAIN fs) :
                    \A i, j \in DOMAIN fs : i < j => fs[p[i]].letra <= fs[p[j]].letra
    IN  [i \in DOMAIN fs |-> fs[ordem[i]]]

NovoLayoutSala(ds) == EmOrdem([i \in DOMAIN ds |-> Fileira(ds[i])])

(* LayoutSala.Dados: the rows a layout would be made from. *)
Dados(planta) ==
    [i \in DOMAIN planta |->
        [fileira |-> <<planta[i].letra, "limpa">>, assentos |-> planta[i].assentos,
         tipo |-> planta[i].tipo]]

CapacidadeTotal(planta) ==
    LET total[i \in 0..Len(planta)] ==
            IF i = 0 THEN 0 ELSE total[i - 1] + planta[i].assentos
    IN  total[Len(planta)]

(* LayoutSala.Poltronas: seat by seat, row by row. *)
Assentos(f) == [n \in 1..f.assentos |-> [fileira |-> f.letra, numero |-> n, tipo |-> f.tipo]]
Poltronas(planta) == FlattenSeq([i \in DOMAIN planta |-> Assentos(planta[i])])

-----------------------------------------------------------------------------
(* The inventory: LerSessaoCriada and montarMatriz. *)

Rotulo(p) == <<p.fileira, p.numero>>

PoltronaAceita(p) == p.fileira > 0 /\ p.numero > 0 /\ p.tipo \in TiposPoltrona

(* What the inventory provisions; otherwise the message goes to the dead   *)
(* letters and the session never has a seat to sell.                       *)
MatrizAceita(ps) ==
    /\ ps # <<>>
    /\ \A i \in DOMAIN ps : PoltronaAceita(ps[i])
    /\ \A i, j \in DOMAIN ps : Rotulo(ps[i]) = Rotulo(ps[j]) => i = j
=============================================================================
