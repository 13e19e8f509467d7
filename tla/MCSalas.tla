------------------------------ MODULE MCSalas ------------------------------
(* Instances of Salas for TLC. *)
EXTENDS Salas

F(grafia, assentos, tipo) == [fileira |-> grafia, assentos |-> assentos, tipo |-> tipo]

A == <<1, "limpa">>
a == <<1, "crua">>
B == <<2, "limpa">>

(* Two layouts, the second one also with its rows turned round, and lists  *)
(* of rows that are refused: none, no seat, a label that is not one, an    *)
(* unknown type, a row twice in one spelling and in two.                   *)
MCDesenhos ==
    {<<F(a, 1, "PCD")>>,
     <<F(A, 2, ""), F(B, 1, "NAMORADEIRA")>>, <<F(B, 1, "NAMORADEIRA"), F(A, 2, "NORMAL")>>,
     <<>>, <<F(A, 0, "")>>, <<F(<<0, "crua">>, 1, "")>>, <<F(A, 1, "OUTRO")>>,
     <<F(A, 1, ""), F(A, 1, "")>>, <<F(A, 1, ""), F(a, 1, "")>>}

Simetria == Permutations(Pedidos) \cup Permutations(Salas) \cup Permutations(Cinemas)
=============================================================================
