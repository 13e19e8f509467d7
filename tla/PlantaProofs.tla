---------------------------- MODULE PlantaProofs ----------------------------
(***************************************************************************)
(* Proofs about the layout of a room, for any list of rows a client may    *)
(* send.  What the catalogue computes with loops is recursion over         *)
(* sequences here; the inductions are over sets of naturals (Inducao), a   *)
(* form of induction without an operator as a parameter.                   *)
(***************************************************************************)
EXTENDS Planta, WellFoundedInduction, FiniteSetTheorems, TLAPS

(* Every set of naturals that is not empty has a least element. *)
LEMMA Minimo ==
    ASSUME NEW A \in SUBSET Nat, A # {}
    PROVE  \E n \in A : \A m \in A : n <= m
<1>1. PICK n \in A : \A m \in A : ~ (<<m, n>> \in OpToRel(<, Nat))
  BY NatLessThanWellFounded, WFMin, Zenon
<1>2. \A m \in A : ~ (m < n)
  BY <1>1 DEF OpToRel
<1>3. QED
  BY <1>2

(* Induction: a set of naturals with 0 and every successor is all of them. *)
LEMMA Inducao ==
    ASSUME NEW A \in SUBSET Nat, 0 \in A, \A n \in A : n + 1 \in A
    PROVE  A = Nat
<1> SUFFICES ASSUME A # Nat PROVE FALSE
  OBVIOUS
<1>1. PICK n \in Nat \ A : \A m \in Nat \ A : n <= m
  BY Minimo
<1>2. n - 1 \in A
  BY <1>1
<1>3. QED
  BY <1>1, <1>2

-----------------------------------------------------------------------------
(* Sorting. *)

(* p lists 1..k, each once, so that f does not decrease along it. *)
Ordena(p, f, k) ==
    /\ p \in [1..k -> 1..k]
    /\ \A i, j \in 1..k : p[i] = p[j] => i = j
    /\ \A x \in 1..k : \E i \in 1..k : p[i] = x
    /\ \A i, j \in 1..k : i < j => f[p[i]] <= f[p[j]]

(* Where the next value goes: before the first one that is greater.        *)
LEMMA OrdenaMais ==
    ASSUME NEW n \in Nat, NEW f \in [1..n -> Nat], NEW k \in Nat, k + 1 <= n,
           NEW p, Ordena(p, f, k)
    PROVE  \E q : Ordena(q, f, k + 1)
<1> DEFINE M == {i \in 1..k : f[p[i]] > f[k + 1]} \cup {k + 1}
<1>1. /\ \A i \in 1..k : p[i] \in 1..k
      /\ \A i \in 1..k : f[p[i]] \in Nat
      /\ f[k + 1] \in Nat
  <2>1. \A i \in 1..k : p[i] \in 1..k
    BY DEF Ordena
  <2>2. \A i \in 1..k : p[i] \in 1..n
    BY <2>1
  <2>3. QED
    BY <2>1, <2>2
<1>2. /\ \A i, j \in 1..k : p[i] = p[j] => i = j
      /\ \A x \in 1..k : \E i \in 1..k : p[i] = x
      /\ \A i, j \in 1..k : i < j => f[p[i]] <= f[p[j]]
  BY DEF Ordena
<1>3. PICK c \in M : \A m \in M : c <= m
  <2>1. M \in SUBSET Nat /\ M # {}
    OBVIOUS
  <2>2. QED
    BY <2>1, Minimo
<1>4. c \in 1..(k + 1)
  BY <1>3
<1>5. \A i \in 1..k : i < c => f[p[i]] <= f[k + 1]
  <2> SUFFICES ASSUME NEW i \in 1..k, i < c PROVE f[p[i]] <= f[k + 1]
    OBVIOUS
  <2>1. i \notin M
    BY <1>3, <1>4
  <2>2. QED
    BY <1>1, <2>1
<1>6. \A i \in 1..k : c <= i => f[k + 1] < f[p[i]]
  <2> SUFFICES ASSUME NEW i \in 1..k, c <= i PROVE f[k + 1] < f[p[i]]
    OBVIOUS
  <2>1. c \in 1..k /\ f[p[c]] > f[k + 1]
    BY <1>3, <1>4
  <2>2. f[p[c]] <= f[p[i]]
    <3>1. CASE c = i
      BY <1>1, <3>1
    <3>2. CASE c < i
      BY <1>2, <2>1, <3>2, Zenon
    <3>3. QED
      BY <1>4, <3>1, <3>2
  <2>3. QED
    BY <1>1, <2>1, <2>2
<1> HIDE DEF M
<1> DEFINE q == [i \in 1..(k + 1) |->
                    IF i < c THEN p[i] ELSE IF i = c THEN k + 1 ELSE p[i - 1]]
<1>7. \A i \in 1..(k + 1) :
         \/ i < c /\ i \in 1..k /\ q[i] = p[i]
         \/ i = c /\ q[i] = k + 1
         \/ i > c /\ i - 1 \in 1..k /\ c <= i - 1 /\ q[i] = p[i - 1]
  BY <1>4
<1>8. q \in [1..(k + 1) -> 1..(k + 1)]
  <2>1. \A i \in 1..(k + 1) : q[i] \in 1..(k + 1)
    <3> HIDE DEF q
    <3> SUFFICES ASSUME NEW i \in 1..(k + 1) PROVE q[i] \in 1..(k + 1)
      OBVIOUS
    <3>1. q[i] = k + 1 \/ q[i] \in 1..k
      BY <1>1, <1>7
    <3>2. QED
      BY <3>1
  <2>2. QED
    BY <2>1
<1> HIDE DEF q
<1>9. ASSUME NEW i \in 1..(k + 1), NEW j \in 1..(k + 1), q[i] = q[j]
      PROVE  i = j
  <2>1. \A y \in 1..k : p[y] # k + 1
    BY <1>1
  <2>2. CASE q[i] = k + 1
    BY <1>7, <1>9, <2>1, <2>2
  <2>3. CASE q[i] # k + 1
    <3>1. \/ i < c /\ i \in 1..k /\ q[i] = p[i]
          \/ i > c /\ i - 1 \in 1..k /\ c <= i - 1 /\ q[i] = p[i - 1]
      BY <1>7, <2>3
    <3>2. \/ j < c /\ j \in 1..k /\ q[j] = p[j]
          \/ j > c /\ j - 1 \in 1..k /\ c <= j - 1 /\ q[j] = p[j - 1]
      BY <1>7, <1>9, <2>3, <1>4
    <3>3. CASE i < c /\ j < c
      BY <1>2, <1>9, <3>1, <3>2, <3>3, <1>4
    <3>4. CASE i > c /\ j > c
      <4>1. i - 1 = j - 1
        BY <1>2, <1>9, <3>1, <3>2, <3>4, <1>4
      <4>2. QED
        BY <4>1
    <3>5. CASE i < c /\ j > c
      <4>1. i = j - 1
        BY <1>2, <1>9, <3>1, <3>2, <3>5, <1>4
      <4>2. QED
        BY <1>4, <4>1, <3>2, <3>5
    <3>6. CASE i > c /\ j < c
      <4>1. i - 1 = j
        BY <1>2, <1>9, <3>1, <3>2, <3>6, <1>4
      <4>2. QED
        BY <1>4, <4>1, <3>1, <3>6
    <3>7. QED
      BY <3>1, <3>2, <3>3, <3>4, <3>5, <3>6
  <2>4. QED
    BY <2>2, <2>3
<1>10. ASSUME NEW x \in 1..(k + 1)
       PROVE  \E i \in 1..(k + 1) : q[i] = x
  <2>1. CASE x = k + 1
    BY <1>4, <1>7, <2>1
  <2>2. CASE x \in 1..k
    <3>1. PICK i \in 1..k : p[i] = x
      BY <1>2, <2>2
    <3>2. CASE i < c
      <4>1. i \in 1..(k + 1)
        OBVIOUS
      <4>2. q[i] = p[i]
        BY <1>4, <1>7, <3>2, <4>1
      <4>3. QED
        BY <3>1, <4>1, <4>2
    <3>3. CASE c <= i
      <4>1. i + 1 \in 1..(k + 1) /\ i + 1 > c /\ (i + 1) - 1 = i
        BY <1>4, <3>3
      <4>2. q[i + 1] = p[i]
        BY <1>4, <1>7, <4>1
      <4>3. QED
        BY <3>1, <4>1, <4>2
    <3>4. QED
      BY <1>4, <3>2, <3>3
  <2>3. QED
    BY <2>1, <2>2
<1>11. ASSUME NEW i \in 1..(k + 1), NEW j \in 1..(k + 1), i < j
       PROVE  f[q[i]] <= f[q[j]]
  <2>1. CASE j < c
    <3>1. i \in 1..k /\ j \in 1..k /\ q[i] = p[i] /\ q[j] = p[j]
      BY <1>4, <1>7, <1>11, <2>1
    <3>2. QED
      BY <1>2, <1>11, <3>1
  <2>2. CASE j = c
    <3>1. i \in 1..k /\ i < c /\ q[i] = p[i] /\ q[j] = k + 1
      BY <1>4, <1>7, <1>11, <2>2
    <3>2. QED
      BY <1>5, <3>1
  <2>3. CASE j > c
    <3>1. j - 1 \in 1..k /\ c <= j - 1 /\ q[j] = p[j - 1]
      BY <1>4, <1>7, <2>3
    <3>2. CASE i < c
      <4>1. i \in 1..k /\ q[i] = p[i] /\ i < j - 1
        BY <1>4, <1>7, <3>1, <3>2
      <4>2. f[p[i]] <= f[p[j - 1]]
        BY <1>2, <3>1, <4>1, Zenon
      <4>3. QED
        BY <3>1, <4>1, <4>2, Zenon
    <3>3. CASE i = c
      <4>1. q[i] = k + 1
        BY <1>4, <1>7, <3>3
      <4>2. f[k + 1] < f[p[j - 1]]
        BY <1>6, <3>1
      <4>3. QED
        BY <1>1, <3>1, <4>1, <4>2
    <3>4. CASE i > c
      <4>1. i - 1 \in 1..k /\ q[i] = p[i - 1]
        BY <1>4, <1>7, <3>4
      <4>2. i - 1 < j - 1
        BY <1>11
      <4>3. f[p[i - 1]] <= f[p[j - 1]]
        BY <1>2, <3>1, <4>1, <4>2, Zenon
      <4>4. QED
        BY <3>1, <4>1, <4>3, Zenon
    <3>5. QED
      BY <1>4, <3>2, <3>3, <3>4
  <2>4. QED
    BY <1>4, <2>1, <2>2, <2>3
<1>12. Ordena(q, f, k + 1)
  BY <1>8, <1>9, <1>10, <1>11 DEF Ordena
<1>13. QED
  BY <1>12

(* Every finite list of labels can be put in order. *)
LEMMA OrdemExiste ==
    ASSUME NEW n \in Nat, NEW f \in [1..n -> Nat]
    PROVE  \E p : Ordena(p, f, n)
<1> DEFINE A == {k \in Nat : k <= n => \E p : Ordena(p, f, k)}
<1>1. 0 \in A
  <2>1. Ordena([i \in 1..0 |-> 0], f, 0)
    BY DEF Ordena
  <2>2. QED
    BY <2>1
<1>2. ASSUME NEW k \in A PROVE k + 1 \in A
  <2>1. ASSUME k + 1 <= n PROVE \E q : Ordena(q, f, k + 1)
    <3>1. PICK p : Ordena(p, f, k)
      BY <2>1
    <3>2. QED
      BY <2>1, <3>1, OrdenaMais
  <2>2. QED
    BY <2>1
<1>3. A \in SUBSET Nat
  OBVIOUS
<1> HIDE DEF A
<1>4. A = Nat
  BY <1>1, <1>2, <1>3, Inducao
<1>5. n \in A
  BY <1>4
<1>6. QED
  BY <1>5 DEF A

-----------------------------------------------------------------------------
(* Layouts. *)

Fileiras == [letra: Nat \ {0}, assentos: Nat \ {0}, tipo: TiposPoltrona]

(* What NovoLayoutSala makes: some rows, each once, in alphabetical order. *)
EhPlanta(planta) ==
    /\ planta \in Seq(Fileiras)
    /\ planta # <<>>
    /\ \A i, j \in 1..Len(planta) : i < j => planta[i].letra < planta[j].letra

LEMMA ListaDe ==
    ASSUME NEW S, NEW n \in Nat, NEW s \in [1..n -> S]
    PROVE  s \in Seq(S) /\ Len(s) = n
  OBVIOUS

(* A permutation of the rows 1..n. *)
LEMMA Permuta ==
    ASSUME NEW n \in Nat, NEW p
    PROVE  p \in Bijection(1..n, 1..n) <=>
              /\ p \in [1..n -> 1..n]
              /\ \A i, j \in 1..n : p[i] = p[j] => i = j
              /\ \A x \in 1..n : \E i \in 1..n : p[i] = x
<1>1. p \in Injection(1..n, 1..n) <=>
         p \in [1..n -> 1..n] /\ \A i, j \in 1..n : p[i] = p[j] => i = j
  BY DEF Injection, IsInjective
<1>2. p \in Surjection(1..n, 1..n) <=>
         p \in [1..n -> 1..n] /\ \A x \in 1..n : \E i \in 1..n : p[i] = x
  BY DEF Surjection
<1>3. QED
  BY <1>1, <1>2 DEF Bijection

(* EmOrdem permutes the rows and leaves none before one of a smaller label. *)
LEMMA Ordenadas ==
    ASSUME NEW n \in Nat, NEW fs, DOMAIN fs = 1..n, \A i \in 1..n : fs[i].letra \in Nat
    PROVE  \E p \in Bijection(1..n, 1..n) :
              /\ \A i, j \in 1..n : i < j => fs[p[i]].letra <= fs[p[j]].letra
              /\ EmOrdem(fs) = [i \in 1..n |-> fs[p[i]]]
<1> DEFINE f == [i \in 1..n |-> fs[i].letra]
           Serve(p) == \A i, j \in DOMAIN fs : i < j => fs[p[i]].letra <= fs[p[j]].letra
           ordem == CHOOSE p \in Bijection(DOMAIN fs, DOMAIN fs) : Serve(p)
<1>1. PICK p : Ordena(p, f, n)
  <2>1. f \in [1..n -> Nat]
    OBVIOUS
  <2>2. QED
    BY <2>1, OrdemExiste
<1>2. p \in Bijection(DOMAIN fs, DOMAIN fs)
  BY <1>1, Permuta DEF Ordena
<1>3. Serve(p)
  <2>1. p \in [1..n -> 1..n] /\ \A i, j \in 1..n : i < j => f[p[i]] <= f[p[j]]
    BY <1>1 DEF Ordena
  <2>2. QED
    BY <2>1
<1>4. ordem \in Bijection(DOMAIN fs, DOMAIN fs) /\ Serve(ordem)
  <2> HIDE DEF Serve
  <2>1. QED
    BY <1>2, <1>3
<1>5. EmOrdem(fs) = [i \in 1..n |-> fs[ordem[i]]]
  BY DEF EmOrdem
<1> HIDE DEF ordem
<1>6. QED
  BY <1>4, <1>5

(* The rows of a body that is accepted. *)
LEMMA FileirasFeitas ==
    ASSUME NEW ds \in Seq(DadosFileira), PlantaValida(ds)
    PROVE  /\ \A i \in 1..Len(ds) : Fileira(ds[i]) \in Fileiras
           /\ \A i, j \in 1..Len(ds) : Fileira(ds[i]).letra = Fileira(ds[j]).letra => i = j
<1>1. ASSUME NEW i \in 1..Len(ds) PROVE Fileira(ds[i]) \in Fileiras
  <2>1. PICK d \in DadosFileira : d = ds[i] /\ FileiraValida(d)
    BY DEF PlantaValida
  <2>2. d.fileira \in Nat \X {"limpa", "crua"} /\ d.assentos \in Int
    BY DEF DadosFileira
  <2>3. Normalizar(d.fileira) \in Nat
    BY <2>2 DEF Normalizar
  <2>4. /\ Normalizar(d.fileira) \in Nat \ {0}
        /\ d.assentos \in Nat \ {0}
        /\ d.tipo \in TiposPoltrona \cup {""}
    <3>1. /\ Normalizar(d.fileira) > 0 /\ d.assentos > 0
          /\ d.tipo \in TiposPoltrona \cup {""}
      BY <2>1 DEF FileiraValida
    <3>2. \A x \in Int : x > 0 => x \in Nat \ {0}
      OBVIOUS
    <3>3. Normalizar(d.fileira) \in Int
      BY <2>3
    <3>4. QED
      BY <2>2, <3>1, <3>2, <3>3, Zenon
  <2>5. QED
    BY <2>1, <2>4 DEF Fileira, Fileiras, TiposPoltrona
<1>2. \A i, j \in 1..Len(ds) : Fileira(ds[i]).letra = Fileira(ds[j]).letra => i = j
  BY DEF PlantaValida, SemRepetida, Fileira
<1>3. QED
  BY <1>1, <1>2

(* Every list of rows that is accepted gives a layout: in alphabetical     *)
(* order, and a permutation of the rows sent.                              *)
LEMMA PlantaFeita ==
    ASSUME NEW ds \in Seq(DadosFileira), PlantaValida(ds)
    PROVE  /\ EhPlanta(NovoLayoutSala(ds))
           /\ \E p \in Bijection(1..Len(ds), 1..Len(ds)) :
                 NovoLayoutSala(ds) = [i \in 1..Len(ds) |-> Fileira(ds[p[i]])]
<1> DEFINE n == Len(ds)
           fs == [i \in DOMAIN ds |-> Fileira(ds[i])]
<1>1. n \in Nat /\ n # 0 /\ DOMAIN ds = 1..n /\ DOMAIN fs = 1..n
  BY DEF PlantaValida
<1>2. \A i \in 1..n : fs[i] = Fileira(ds[i]) /\ fs[i] \in Fileiras /\ fs[i].letra \in Nat \ {0}
  BY <1>1, FileirasFeitas DEF Fileiras
<1>3. \A i, j \in 1..n : fs[i].letra = fs[j].letra => i = j
  BY <1>1, FileirasFeitas
<1>4. NovoLayoutSala(ds) = EmOrdem(fs)
  BY DEF NovoLayoutSala
<1> HIDE DEF fs, n
<1>5. PICK p \in Bijection(1..n, 1..n) :
         /\ \A i, j \in 1..n : i < j => fs[p[i]].letra <= fs[p[j]].letra
         /\ EmOrdem(fs) = [i \in 1..n |-> fs[p[i]]]
  <2>1. \A i \in 1..n : fs[i].letra \in Nat
    BY <1>2
  <2>2. QED
    BY <1>1, <2>1, Ordenadas
<1>6. p \in [1..n -> 1..n] /\ \A i, j \in 1..n : p[i] = p[j] => i = j
  BY <1>1, Permuta
<1> DEFINE planta == [i \in 1..n |-> fs[p[i]]]
<1>7. planta \in Seq(Fileiras) /\ Len(planta) = n /\ planta # <<>>
  <2>1. \A i \in 1..n : fs[p[i]] \in Fileiras
    BY <1>2, <1>6
  <2>2. QED
    BY <1>1, <2>1
<1>8. ASSUME NEW i \in 1..n, NEW j \in 1..n, i < j
      PROVE  planta[i].letra < planta[j].letra
  <2>1. p[i] \in 1..n /\ p[j] \in 1..n /\ p[i] # p[j]
    BY <1>1, <1>6, <1>8
  <2>2. fs[p[i]].letra # fs[p[j]].letra
    BY <1>3, <2>1
  <2>3. fs[p[i]].letra <= fs[p[j]].letra
    BY <1>5, <1>8
  <2>4. fs[p[i]].letra \in Nat /\ fs[p[j]].letra \in Nat
    BY <1>2, <2>1
  <2>5. QED
    BY <2>2, <2>3, <2>4
<1>9. planta = [i \in 1..n |-> Fileira(ds[p[i]])]
  BY <1>2, <1>6
<1>10. EhPlanta(planta)
  BY <1>7, <1>8 DEF EhPlanta
<1>11. QED
  BY <1>4, <1>5, <1>9, <1>10 DEF n

-----------------------------------------------------------------------------
(* The only order. *)

(* A permutation of 1..n that never goes down moves nothing. *)
LEMMA CrescenteFixa ==
    ASSUME NEW n \in Nat, NEW q \in Bijection(1..n, 1..n),
           \A i, j \in 1..n : i < j => q[i] < q[j]
    PROVE  \A i \in 1..n : q[i] = i
<1>1. /\ \A i \in 1..n : q[i] \in 1..n
      /\ \A i, j \in 1..n : q[i] = q[j] => i = j
      /\ \A x \in 1..n : \E i \in 1..n : q[i] = x
  <2>1. /\ q \in [1..n -> 1..n]
        /\ \A i, j \in 1..n : q[i] = q[j] => i = j
        /\ \A x \in 1..n : \E i \in 1..n : q[i] = x
    BY Permuta, Zenon
  <2>2. QED
    BY <2>1
<1> DEFINE Movidos == {i \in 1..n : q[i] # i}
<1> SUFFICES ASSUME Movidos # {} PROVE FALSE
  OBVIOUS
<1>2. PICK i \in Movidos : \A m \in Movidos : i <= m
  <2>1. Movidos \in SUBSET Nat
    OBVIOUS
  <2>2. QED
    BY <2>1, Minimo
<1>3. i \in 1..n /\ q[i] # i /\ q[i] \in 1..n
  BY <1>1, <1>2
<1>4. \A j \in 1..n : j < i => q[j] = j
  <2> SUFFICES ASSUME NEW j \in 1..n, j < i PROVE q[j] = j
    OBVIOUS
  <2>1. j \notin Movidos
    BY <1>2, <1>3
  <2>2. QED
    BY <2>1
<1> HIDE DEF Movidos
<1>5. CASE q[i] < i
  <2>1. q[q[i]] = q[i]
    BY <1>3, <1>4, <1>5
  <2>2. q[i] = i
    BY <1>1, <1>3, <2>1
  <2>3. QED
    BY <1>3, <2>2
<1>6. CASE q[i] > i
  <2>1. PICK j \in 1..n : q[j] = i
    BY <1>1, <1>3
  <2>2. CASE j < i
    BY <1>3, <1>4, <2>1, <2>2
  <2>3. CASE j = i
    BY <1>3, <2>1, <2>3
  <2>4. CASE j > i
    <3>1. q[i] < q[j]
      BY <1>3, <2>4
    <3>2. QED
      BY <1>3, <1>6, <2>1, <3>1
  <2>5. QED
    BY <1>3, <2>2, <2>3, <2>4
<1>7. QED
  BY <1>3, <1>5, <1>6

(* The rows of a layout in some order that never goes down are the layout. *)
LEMMA OrdemUnica ==
    ASSUME NEW planta, EhPlanta(planta),
           NEW q \in Bijection(1..Len(planta), 1..Len(planta)),
           \A i, j \in 1..Len(planta) : i < j => planta[q[i]].letra <= planta[q[j]].letra
    PROVE  [i \in 1..Len(planta) |-> planta[q[i]]] = planta
<1> DEFINE n == Len(planta)
<1>1. n \in Nat /\ planta = [i \in 1..n |-> planta[i]]
      /\ \A i \in 1..n : planta[i] \in Fileiras
  BY DEF EhPlanta
<1>2. \A i \in 1..n : planta[i].letra \in Nat
  BY <1>1 DEF Fileiras
<1>3. \A i, j \in 1..n : i < j => planta[i].letra < planta[j].letra
  BY DEF EhPlanta
<1> HIDE DEF n
<1>4. q \in Bijection(1..n, 1..n)
  BY DEF n
<1>5. /\ \A i \in 1..n : q[i] \in 1..n
      /\ \A i, j \in 1..n : q[i] = q[j] => i = j
  <2>1. q \in [1..n -> 1..n] /\ \A i, j \in 1..n : q[i] = q[j] => i = j
    BY <1>1, <1>4, Permuta, Zenon
  <2>2. QED
    BY <2>1
<1>6. ASSUME NEW i \in 1..n, NEW j \in 1..n, i < j
      PROVE  q[i] < q[j]
  <2>1. q[i] # q[j]
    BY <1>1, <1>5, <1>6
  <2>2. planta[q[i]].letra <= planta[q[j]].letra
    BY <1>6 DEF n
  <2>3. q[i] \in 1..n /\ q[j] \in 1..n
    BY <1>5
  <2>4. ~ (q[j] < q[i])
    <3>1. q[j] < q[i] => planta[q[j]].letra < planta[q[i]].letra
      BY <1>3, <2>3
    <3>2. planta[q[i]].letra \in Nat /\ planta[q[j]].letra \in Nat
      BY <1>2, <2>3
    <3>3. QED
      BY <2>2, <3>1, <3>2
  <2>5. QED
    BY <2>1, <2>3, <2>4
<1>7. \A i \in 1..n : q[i] = i
  BY <1>1, <1>4, <1>6, CrescenteFixa
<1>8. QED
  BY <1>1, <1>7 DEF n

(* The order in which a client sends the rows does not matter: another one *)
(* is accepted too, and makes the same layout (NovoLayoutSala, layout.go). *)
THEOREM OrdemNaoImporta ==
    ASSUME NEW ds \in Seq(DadosFileira), PlantaValida(ds),
           NEW ordem \in Bijection(1..Len(ds), 1..Len(ds)), NEW es,
           es = [i \in 1..Len(ds) |-> ds[ordem[i]]]
    PROVE  PlantaValida(es) /\ NovoLayoutSala(es) = NovoLayoutSala(ds)
<1> DEFINE n == Len(ds)
<1>1. n \in Nat /\ n # 0 /\ ds = [i \in 1..n |-> ds[i]]
      /\ \A i \in 1..n : ds[i] \in DadosFileira
  BY DEF PlantaValida
<1> HIDE DEF n
<1>2. ordem \in Bijection(1..n, 1..n) /\ es = [i \in 1..n |-> ds[ordem[i]]]
  BY DEF n
<1>3. /\ ordem \in [1..n -> 1..n]
      /\ \A i, j \in 1..n : ordem[i] = ordem[j] => i = j
      /\ \A x \in 1..n : \E i \in 1..n : ordem[i] = x
  BY <1>1, <1>2, Permuta
<1>4. es \in Seq(DadosFileira) /\ Len(es) = n /\ DOMAIN es = 1..n
      /\ \A i \in 1..n : es[i] = ds[ordem[i]]
  <2>1. \A i \in 1..n : ds[ordem[i]] \in DadosFileira
    BY <1>1, <1>3
  <2>2. DOMAIN es = 1..n /\ \A i \in 1..n : es[i] = ds[ordem[i]]
    BY <1>2
  <2>3. es \in [1..n -> DadosFileira]
    BY <1>2, <2>1
  <2>4. es \in Seq(DadosFileira) /\ Len(es) = n
    BY <1>1, <2>3, ListaDe, Zenon
  <2>5. QED
    BY <2>2, <2>4
<1>5. PlantaValida(es)
  <2>1. es # <<>>
    BY <1>1, <1>4
  <2>2. \A i \in DOMAIN es : FileiraValida(es[i])
    BY <1>1, <1>3, <1>4 DEF PlantaValida
  <2>3. SemRepetida(es)
    <3> SUFFICES ASSUME NEW i \in 1..n, NEW j \in 1..n,
                        Normalizar(es[i].fileira) = Normalizar(es[j].fileira)
                 PROVE  i = j
      BY <1>4 DEF SemRepetida
    <3>1. ordem[i] \in DOMAIN ds /\ ordem[j] \in DOMAIN ds
      BY <1>1, <1>3
    <3>2. ordem[i] = ordem[j]
      BY <1>4, <3>1 DEF PlantaValida, SemRepetida
    <3>3. QED
      BY <1>3, <3>2
  <2>4. QED
    BY <2>1, <2>2, <2>3 DEF PlantaValida
<1> DEFINE P == NovoLayoutSala(ds)
           R == NovoLayoutSala(es)
<1>6. PICK p \in Bijection(1..n, 1..n) : P = [i \in 1..n |-> Fileira(ds[p[i]])]
  BY PlantaFeita DEF n
<1>7. PICK r \in Bijection(1..n, 1..n) : R = [i \in 1..n |-> Fileira(es[r[i]])]
  BY <1>4, <1>5, PlantaFeita
<1>8. EhPlanta(P) /\ EhPlanta(R)
  BY <1>4, <1>5, PlantaFeita
<1> HIDE DEF P, R
<1>9. /\ p \in [1..n -> 1..n]
      /\ \A i, j \in 1..n : p[i] = p[j] => i = j
      /\ \A x \in 1..n : \E i \in 1..n : p[i] = x
  BY <1>1, <1>6, Permuta
<1>10. /\ r \in [1..n -> 1..n]
       /\ \A i, j \in 1..n : r[i] = r[j] => i = j
       /\ \A x \in 1..n : \E i \in 1..n : r[i] = x
  BY <1>1, <1>7, Permuta
(* Where in P the row is that R has at a place. *)
<1> DEFINE q == [i \in 1..n |-> CHOOSE x \in 1..n : p[x] = ordem[r[i]]]
<1>11. \A i \in 1..n : q[i] \in 1..n /\ p[q[i]] = ordem[r[i]]
  <2> SUFFICES ASSUME NEW i \in 1..n PROVE \E x \in 1..n : p[x] = ordem[r[i]]
    OBVIOUS
  <2>1. ordem[r[i]] \in 1..n
    BY <1>3, <1>10
  <2>2. QED
    BY <1>9, <2>1
<1> q \in [1..n -> 1..n]
  BY <1>11
<1> HIDE DEF q
<1>12. q \in Bijection(1..n, 1..n)
  <2>1. ASSUME NEW i \in 1..n, NEW j \in 1..n, q[i] = q[j] PROVE i = j
    <3>1. ordem[r[i]] = ordem[r[j]]
      BY <1>11, <2>1
    <3>2. r[i] = r[j]
      <4>1. r[i] \in 1..n /\ r[j] \in 1..n
        BY <1>10
      <4>2. QED
        BY <1>3, <3>1, <4>1, Zenon
    <3>3. QED
      BY <1>10, <3>2
  <2>2. ASSUME NEW x \in 1..n PROVE \E i \in 1..n : q[i] = x
    <3>1. PICK y \in 1..n : ordem[y] = p[x]
      BY <1>3, <1>9
    <3>2. PICK i \in 1..n : r[i] = y
      BY <1>10
    <3>3. p[q[i]] = p[x] /\ q[i] \in 1..n
      BY <1>11, <3>1, <3>2
    <3>4. QED
      BY <1>9, <3>3
  <2>3. QED
    BY <1>1, <2>1, <2>2, Permuta
<1>13. \A i \in 1..n : R[i] = P[q[i]]
  <2> SUFFICES ASSUME NEW i \in 1..n PROVE R[i] = P[q[i]]
    OBVIOUS
  <2>1. r[i] \in 1..n /\ q[i] \in 1..n
    BY <1>10, <1>11
  <2>2. R[i] = Fileira(ds[ordem[r[i]]])
    BY <1>4, <1>7, <2>1
  <2>3. P[q[i]] = Fileira(ds[p[q[i]]])
    BY <1>6, <2>1
  <2>4. QED
    BY <1>11, <2>2, <2>3
<1>14. Len(P) = n /\ DOMAIN R = 1..n /\ Len(R) = n /\ R = [i \in 1..n |-> R[i]]
  BY <1>1, <1>6, <1>7
<1>15. \A i, j \in 1..n : i < j => P[q[i]].letra <= P[q[j]].letra
  <2> SUFFICES ASSUME NEW i \in 1..n, NEW j \in 1..n, i < j
               PROVE  P[q[i]].letra <= P[q[j]].letra
    OBVIOUS
  <2>1. R[i].letra < R[j].letra /\ R[i] \in Fileiras /\ R[j] \in Fileiras
    BY <1>8, <1>14 DEF EhPlanta
  <2>2. R[i].letra <= R[j].letra
    BY <2>1 DEF Fileiras
  <2>3. QED
    BY <1>13, <2>2
<1>16. [i \in 1..n |-> P[q[i]]] = P
  BY <1>8, <1>12, <1>14, <1>15, OrdemUnica
<1>17. R = P
  BY <1>13, <1>14, <1>16
<1>18. QED
  BY <1>5, <1>17 DEF P, R

-----------------------------------------------------------------------------
(* The seats of a layout. *)

Poltrona == [fileira: Nat, numero: Nat, tipo: TiposPoltrona]

(* Seats of rows up to m that the inventory accepts. *)
AceitasAte(ps, m) ==
    /\ ps \in Seq(Poltrona)
    /\ MatrizAceita(ps)
    /\ \A x \in 1..Len(ps) : ps[x].fileira <= m

LEMMA UmaFileira ==
    ASSUME NEW f \in Fileiras
    PROVE  AceitasAte(Assentos(f), f.letra) /\ Len(Assentos(f)) = f.assentos
<1> DEFINE ps == Assentos(f)
<1>1. f.letra \in Nat \ {0} /\ f.assentos \in Nat \ {0} /\ f.tipo \in TiposPoltrona
  BY DEF Fileiras
<1>2. ps = [n \in 1..f.assentos |-> [fileira |-> f.letra, numero |-> n, tipo |-> f.tipo]]
  BY DEF Assentos
<1> HIDE DEF ps
<1>3. \A n \in 1..f.assentos : [fileira |-> f.letra, numero |-> n, tipo |-> f.tipo] \in Poltrona
  BY <1>1 DEF Poltrona
<1>4. ps \in [1..f.assentos -> Poltrona]
  BY <1>2, <1>3
<1>5. ps \in Seq(Poltrona) /\ Len(ps) = f.assentos /\ DOMAIN ps = 1..f.assentos
  BY <1>1, <1>4, ListaDe
<1>6. \A x \in 1..f.assentos :
         ps[x].fileira = f.letra /\ ps[x].numero = x /\ ps[x].tipo = f.tipo
  BY <1>2
<1>7. MatrizAceita(ps)
  <2>1. ps # <<>>
    BY <1>1, <1>5
  <2>2. \A x \in 1..f.assentos : PoltronaAceita(ps[x])
    BY <1>1, <1>6 DEF PoltronaAceita
  <2>3. \A x, y \in 1..f.assentos : Rotulo(ps[x]) = Rotulo(ps[y]) => x = y
    BY <1>6 DEF Rotulo
  <2>4. QED
    BY <1>5, <2>1, <2>2, <2>3 DEF MatrizAceita
<1>8. \A x \in 1..Len(ps) : ps[x].fileira <= f.letra
  BY <1>1, <1>5, <1>6
<1>9. QED
  BY <1>5, <1>7, <1>8 DEF AceitasAte, ps

(* The seats of one more row, after the others in the alphabet. *)
LEMMA MaisUmaFileira ==
    ASSUME NEW ps, NEW m \in Nat, AceitasAte(ps, m), NEW f \in Fileiras, m < f.letra
    PROVE  /\ AceitasAte(ps \o Assentos(f), f.letra)
           /\ Len(ps \o Assentos(f)) = Len(ps) + f.assentos
<1> DEFINE qs == Assentos(f)
           n == Len(ps)
           todas == ps \o qs
<1>1. f.letra \in Nat \ {0} /\ f.assentos \in Nat \ {0}
  BY DEF Fileiras
<1>2. AceitasAte(qs, f.letra) /\ Len(qs) = f.assentos
  BY UmaFileira
<1>3. \A y \in 1..f.assentos : qs[y].fileira = f.letra
  BY DEF Assentos
<1> HIDE DEF qs
<1>4. /\ ps \in Seq(Poltrona) /\ qs \in Seq(Poltrona) /\ n \in Nat
      /\ \A x \in 1..n : ps[x] \in Poltrona /\ ps[x].fileira <= m
      /\ todas \in Seq(Poltrona) /\ Len(todas) = n + f.assentos
  BY <1>2 DEF AceitasAte
<1>5. /\ ps # <<>>
      /\ \A x \in 1..n : PoltronaAceita(ps[x])
      /\ \A x, y \in 1..n : Rotulo(ps[x]) = Rotulo(ps[y]) => x = y
  BY <1>4 DEF AceitasAte, MatrizAceita
<1>6. /\ \A x \in 1..f.assentos : PoltronaAceita(qs[x])
      /\ \A x, y \in 1..f.assentos : Rotulo(qs[x]) = Rotulo(qs[y]) => x = y
  BY <1>2, <1>4 DEF AceitasAte, MatrizAceita
<1>7. \A x \in 1..(n + f.assentos) :
         \/ x \in 1..n /\ todas[x] = ps[x]
         \/ x \notin 1..n /\ x - n \in 1..f.assentos /\ todas[x] = qs[x - n]
  BY <1>1, <1>2, <1>4
<1>8. \A x \in 1..n : ps[x].fileira < f.letra
  <2> SUFFICES ASSUME NEW x \in 1..n PROVE ps[x].fileira < f.letra
    OBVIOUS
  <2>1. ps[x].fileira \in Nat /\ ps[x].fileira <= m
    BY <1>4 DEF Poltrona
  <2>2. QED
    BY <1>1, <2>1
<1> HIDE DEF todas, n
<1>9. todas # <<>>
  BY <1>1, <1>4
<1>10. \A x \in 1..(n + f.assentos) : PoltronaAceita(todas[x])
  BY <1>5, <1>6, <1>7
<1>11. ASSUME NEW x \in 1..(n + f.assentos), NEW y \in 1..(n + f.assentos),
              Rotulo(todas[x]) = Rotulo(todas[y])
       PROVE  x = y
  <2>1. todas[x].fileira = todas[y].fileira
    BY <1>11 DEF Rotulo
  <2>2. CASE x \in 1..n /\ y \in 1..n
    BY <1>5, <1>7, <1>11, <2>2
  <2>3. CASE x \notin 1..n /\ y \notin 1..n
    <3>1. /\ x - n \in 1..f.assentos /\ todas[x] = qs[x - n]
          /\ y - n \in 1..f.assentos /\ todas[y] = qs[y - n]
      BY <1>7, <2>3
    <3>2. x - n = y - n
      BY <1>6, <1>11, <3>1, Zenon
    <3>3. QED
      BY <1>4, <3>2
  <2>4. CASE x \in 1..n /\ y \notin 1..n
    <3>1. todas[x].fileira < f.letra
      BY <1>7, <1>8, <2>4
    <3>2. todas[y].fileira = f.letra
      BY <1>3, <1>7, <2>4
    <3>3. QED
      BY <1>1, <2>1, <3>1, <3>2
  <2>5. CASE x \notin 1..n /\ y \in 1..n
    <3>1. todas[y].fileira < f.letra
      BY <1>7, <1>8, <2>5
    <3>2. todas[x].fileira = f.letra
      BY <1>3, <1>7, <2>5
    <3>3. QED
      BY <1>1, <2>1, <3>1, <3>2
  <2>6. QED
    BY <2>2, <2>3, <2>4, <2>5
<1>12. \A x \in 1..(n + f.assentos) : todas[x].fileira <= f.letra
  <2> SUFFICES ASSUME NEW x \in 1..(n + f.assentos) PROVE todas[x].fileira <= f.letra
    OBVIOUS
  <2>1. CASE x \in 1..n
    <3>1. todas[x] = ps[x] /\ ps[x].fileira < f.letra /\ ps[x].fileira \in Nat
      BY <1>4, <1>7, <1>8, <2>1 DEF Poltrona
    <3>2. QED
      BY <1>1, <3>1
  <2>2. CASE x \notin 1..n
    BY <1>1, <1>3, <1>7, <2>2
  <2>3. QED
    BY <2>1, <2>2
<1>13. MatrizAceita(todas)
  <2>1. DOMAIN todas = 1..(n + f.assentos)
    BY <1>4
  <2>2. QED
    BY <1>9, <1>10, <1>11, <2>1 DEF MatrizAceita
<1>14. QED
  BY <1>4, <1>12, <1>13 DEF AceitasAte, todas, n, qs

(* The recursion of FlattenSeq, which Poltronas is made with, and the one  *)
(* of CapacidadeTotal.                                                     *)
Junta(g, s, k) == g = [i \in 1..k |-> IF i = 1 THEN s[i] ELSE g[i - 1] \o s[i]]
Soma(t, p, k)  == t = [i \in 0..k |-> IF i = 0 THEN 0 ELSE t[i - 1] + p[i].assentos]

LEMMA JuntaExiste ==
    ASSUME NEW s, NEW n \in Nat
    PROVE  \E g : Junta(g, s, n)
<1> DEFINE A == {k \in Nat : \E g : Junta(g, s, k)}
<1>1. 0 \in A
  <2>1. Junta([i \in 1..0 |-> 0], s, 0)
    BY DEF Junta
  <2>2. QED
    BY <2>1
<1>2. ASSUME NEW k \in A PROVE k + 1 \in A
  <2>1. PICK g : Junta(g, s, k)
    OBVIOUS
  <2> DEFINE h == [i \in 1..(k + 1) |->
                      IF i = 1 THEN s[i] ELSE IF i <= k THEN g[i] ELSE g[k] \o s[i]]
  <2>2. /\ k \in Nat
        /\ \A i \in 1..k : g[i] = IF i = 1 THEN s[i] ELSE g[i - 1] \o s[i]
    BY <2>1 DEF Junta
  <2> HIDE DEF A
  <2>3. /\ \A i \in 1..k : h[i] = g[i]
        /\ k + 1 # 1 => h[k + 1] = g[k] \o s[k + 1]
        /\ k + 1 = 1 => h[k + 1] = s[k + 1]
    <3>1. \A i \in 1..k : i \in 1..(k + 1) /\ i <= k /\ (i = 1 => g[i] = s[i])
      BY <2>2
    <3>2. \A i \in 1..k : h[i] = g[i]
      BY <3>1
    <3>3. k + 1 \in 1..(k + 1) /\ ~ (k + 1 <= k)
      BY <2>2
    <3>4. QED
      BY <3>2, <3>3
  <2> DOMAIN h = 1..(k + 1) /\ h = [i \in 1..(k + 1) |-> h[i]]
    OBVIOUS
  <2> HIDE DEF h
  <2>4. \A i \in 1..(k + 1) : h[i] = IF i = 1 THEN s[i] ELSE h[i - 1] \o s[i]
    <3>1. ASSUME NEW i \in 1..k, i # 1 PROVE h[i] = h[i - 1] \o s[i]
      <4>1. i - 1 \in 1..k
        BY <2>2, <3>1
      <4>2. h[i] = g[i] /\ h[i - 1] = g[i - 1]
        BY <2>3, <4>1
      <4>3. g[i] = g[i - 1] \o s[i]
        BY <2>2, <3>1
      <4>4. QED
        BY <4>2, <4>3
    <3>2. \A i \in 1..k : i = 1 => h[i] = s[i]
      BY <2>2, <2>3
    <3>3. k + 1 # 1 => h[k + 1] = h[(k + 1) - 1] \o s[k + 1]
      <4>1. k + 1 # 1 => k \in 1..k /\ (k + 1) - 1 = k
        BY <2>2
      <4>2. QED
        BY <2>3, <4>1
    <3>4. \A i \in 1..(k + 1) : i \in 1..k \/ i = k + 1
      BY <2>2
    <3>5. QED
      BY <2>3, <3>1, <3>2, <3>3, <3>4, Zenon
  <2>5. Junta(h, s, k + 1)
    BY <2>4, Zenon DEF Junta
  <2>6. QED
    BY <2>2, <2>5 DEF A
<1>3. A \in SUBSET Nat
  OBVIOUS
<1> HIDE DEF A
<1>4. n \in A
  BY <1>1, <1>2, <1>3, Inducao
<1>5. QED
  BY <1>4 DEF A

LEMMA SomaExiste ==
    ASSUME NEW p, NEW n \in Nat
    PROVE  \E t : Soma(t, p, n)
<1> DEFINE A == {k \in Nat : \E t : Soma(t, p, k)}
<1>1. 0 \in A
  <2>1. Soma([i \in 0..0 |-> 0], p, 0)
    BY DEF Soma
  <2>2. QED
    BY <2>1
<1>2. ASSUME NEW k \in A PROVE k + 1 \in A
  <2>1. PICK t : Soma(t, p, k)
    OBVIOUS
  <2> DEFINE u == [i \in 0..(k + 1) |-> IF i <= k THEN t[i] ELSE t[k] + p[i].assentos]
  <2>2. \A i \in 0..(k + 1) : u[i] = IF i = 0 THEN 0 ELSE u[i - 1] + p[i].assentos
    <3> SUFFICES ASSUME NEW i \in 0..(k + 1)
                 PROVE  u[i] = IF i = 0 THEN 0 ELSE u[i - 1] + p[i].assentos
      OBVIOUS
    <3>1. CASE i \in 0..k
      BY <2>1, <3>1 DEF Soma
    <3>2. CASE i = k + 1
      BY <3>2
    <3>3. QED
      BY <3>1, <3>2
  <2> u = [i \in 0..(k + 1) |-> u[i]]
    OBVIOUS
  <2> HIDE DEF u
  <2>3. Soma(u, p, k + 1)
    BY <2>2 DEF Soma
  <2>4. QED
    BY <2>3
<1>3. A \in SUBSET Nat
  OBVIOUS
<1> HIDE DEF A
<1>4. n \in A
  BY <1>1, <1>2, <1>3, Inducao
<1>5. QED
  BY <1>4 DEF A

(* The seats of a layout are accepted by the inventory, and are as many as *)
(* the capacity the layout shows.                                          *)
LEMMA PlantaAceita ==
    ASSUME NEW p, EhPlanta(p)
    PROVE  MatrizAceita(Poltronas(p)) /\ Len(Poltronas(p)) = CapacidadeTotal(p)
<1> DEFINE n == Len(p)
           s == [i \in DOMAIN p |-> Assentos(p[i])]
           g == CHOOSE h : Junta(h, s, Len(s))
           t == CHOOSE u : Soma(u, p, n)
<1>1. /\ n \in Nat /\ n >= 1 /\ DOMAIN p = 1..n /\ Len(s) = n
      /\ \A i \in 1..n : p[i] \in Fileiras /\ p[i].letra \in Nat /\ p[i].assentos \in Nat
      /\ \A i, j \in 1..n : i < j => p[i].letra < p[j].letra
  <2>1. p \in Seq(Fileiras) /\ n \in Nat /\ n >= 1 /\ DOMAIN p = 1..n
    BY DEF EhPlanta
  <2>2. \A i \in 1..n : p[i] \in Fileiras /\ p[i].letra \in Nat /\ p[i].assentos \in Nat
    <3>1. \A f \in Fileiras : f.letra \in Nat /\ f.assentos \in Nat
      BY DEF Fileiras
    <3>2. \A i \in 1..n : p[i] \in Fileiras
      BY <2>1
    <3>3. QED
      BY <3>1, <3>2
  <2>3. s \in [1..n -> {Assentos(p[i]) : i \in 1..n}]
    BY <2>1
  <2>4. Len(s) = n
    <3> HIDE DEF n, s
    <3>1. QED
      BY <2>1, <2>3, ListaDe
  <2>5. QED
    BY <2>1, <2>2, <2>4 DEF EhPlanta
<1>2. Junta(g, s, n)
  BY <1>1, JuntaExiste
<1>3. Soma(t, p, n)
  BY <1>1, SomaExiste
<1>4. Poltronas(p) = g[n]
  <2>1. s # <<>>
    BY <1>1
  <2>2. FlattenSeq(s) = g[Len(s)]
    BY <1>1 DEF FlattenSeq, Junta
  <2>3. QED
    BY <1>1, <2>2 DEF Poltronas
<1>5. CapacidadeTotal(p) = t[n]
  BY DEF CapacidadeTotal, Soma
<1>6. \A i \in 1..n : s[i] = Assentos(p[i])
  BY <1>1
<1> HIDE DEF n, s, g, t
<1>7. \A i \in 1..n : g[i] = IF i = 1 THEN s[i] ELSE g[i - 1] \o s[i]
  BY <1>2 DEF Junta
<1>8. \A i \in 0..n : t[i] = IF i = 0 THEN 0 ELSE t[i - 1] + p[i].assentos
  BY <1>3 DEF Soma
<1> DEFINE A == {k \in Nat : k + 1 <= n => /\ AceitasAte(g[k + 1], p[k + 1].letra)
                                           /\ Len(g[k + 1]) = t[k + 1]}
<1>9. 0 \in A
  <2>1. g[1] = Assentos(p[1]) /\ p[1] \in Fileiras /\ p[1].assentos \in Nat
    BY <1>1, <1>6, <1>7
  <2>2. t[0] = 0 /\ t[1] = t[0] + p[1].assentos
    BY <1>1, <1>8
  <2>3. t[1] = p[1].assentos
    BY <2>1, <2>2
  <2>4. AceitasAte(g[1], p[1].letra) /\ Len(g[1]) = t[1]
    BY <2>1, <2>3, UmaFileira
  <2>5. QED
    BY <2>4
<1>10. ASSUME NEW k \in A PROVE k + 1 \in A
  <2> SUFFICES ASSUME k + 2 <= n
               PROVE  /\ AceitasAte(g[k + 2], p[k + 2].letra)
                      /\ Len(g[k + 2]) = t[k + 2]
    OBVIOUS
  <2>1. /\ k \in Nat /\ k + 1 \in 1..n /\ k + 2 \in 1..n /\ k + 1 < k + 2
        /\ AceitasAte(g[k + 1], p[k + 1].letra) /\ Len(g[k + 1]) = t[k + 1]
    BY <1>1
  <2> HIDE DEF A
  <2>2. p[k + 1].letra \in Nat /\ p[k + 2] \in Fileiras /\ p[k + 1].letra < p[k + 2].letra
    BY <1>1, <2>1
  <2>3. k + 2 # 1 /\ k + 2 # 0 /\ (k + 2) - 1 = k + 1 /\ k + 2 \in 0..n
    BY <2>1
  <2>4. g[k + 2] = g[k + 1] \o Assentos(p[k + 2])
    BY <1>6, <1>7, <2>1, <2>3, Zenon
  <2>5. t[k + 2] = t[k + 1] + p[k + 2].assentos
    BY <1>8, <2>3, Zenon
  <2>6. QED
    BY <2>1, <2>2, <2>4, <2>5, MaisUmaFileira
<1>11. A \in SUBSET Nat
  OBVIOUS
<1> HIDE DEF A
<1>12. n - 1 \in A
  <2>1. A = Nat
    BY <1>9, <1>10, <1>11, Inducao
  <2>2. QED
    BY <1>1, <2>1
<1>13. AceitasAte(g[n], p[n].letra) /\ Len(g[n]) = t[n]
  BY <1>1, <1>12 DEF A
<1>14. QED
  BY <1>4, <1>5, <1>13 DEF AceitasAte

(* Every list of rows NovoLayoutSala (layout.go) accepts makes a room whose *)
(* seats montarMatriz (provisionar_sessao.go) accepts, all of them.        *)
THEOREM PlantaValidaSeVende ==
    ASSUME NEW ds \in Seq(DadosFileira), PlantaValida(ds)
    PROVE  LET planta == NovoLayoutSala(ds) IN
           MatrizAceita(Poltronas(planta)) /\ Len(Poltronas(planta)) = CapacidadeTotal(planta)
  BY PlantaFeita, PlantaAceita

-----------------------------------------------------------------------------
(* A layout sent back. *)

(* The rows a layout shows, sent as they are, make the same layout. *)
LEMMA DadosVoltam ==
    ASSUME NEW p, EhPlanta(p)
    PROVE  /\ Dados(p) \in Seq(DadosFileira) /\ Len(Dados(p)) = Len(p)
           /\ PlantaValida(Dados(p))
           /\ NovoLayoutSala(Dados(p)) = p
<1> DEFINE n == Len(p)
           ds == Dados(p)
<1>1. /\ n \in Nat /\ n >= 1 /\ DOMAIN p = 1..n /\ p = [i \in 1..n |-> p[i]]
      /\ \A i \in 1..n : p[i] \in Fileiras
      /\ \A i, j \in 1..n : i < j => p[i].letra < p[j].letra
  BY DEF EhPlanta
<1>2. ds = [i \in 1..n |-> [fileira |-> <<p[i].letra, "limpa">>, assentos |-> p[i].assentos,
                            tipo |-> p[i].tipo]]
  BY <1>1 DEF Dados
<1> HIDE DEF ds, n
<1>3. \A f \in Fileiras :
         /\ f.letra \in Nat /\ f.letra > 0 /\ f.assentos \in Int /\ f.assentos > 0
         /\ f.tipo \in TiposPoltrona
         /\ f = [letra |-> f.letra, assentos |-> f.assentos, tipo |-> f.tipo]
  BY DEF Fileiras
<1>4. \A f \in Fileiras :
         [fileira |-> <<f.letra, "limpa">>, assentos |-> f.assentos, tipo |-> f.tipo]
             \in DadosFileira
  <2> SUFFICES ASSUME NEW f \in Fileiras
               PROVE  [fileira |-> <<f.letra, "limpa">>, assentos |-> f.assentos,
                       tipo |-> f.tipo] \in DadosFileira
    OBVIOUS
  <2>1. <<f.letra, "limpa">> \in Nat \X {"limpa", "crua"}
    BY <1>3
  <2>2. f.assentos \in Int
    BY <1>3
  <2>3. QED
    BY <1>3, <2>1, <2>2 DEF DadosFileira
<1>5. ds \in [1..n -> DadosFileira]
  BY <1>1, <1>2, <1>4
<1>6. ds \in Seq(DadosFileira) /\ Len(ds) = n /\ DOMAIN ds = 1..n
  BY <1>1, <1>5, ListaDe
<1>7. \A i \in 1..n : /\ Normalizar(ds[i].fileira) = p[i].letra
                       /\ ds[i].assentos = p[i].assentos
                       /\ ds[i].tipo = p[i].tipo
  BY <1>2 DEF Normalizar
<1>8. \A i \in 1..n : Fileira(ds[i]) = p[i]
  <2> SUFFICES ASSUME NEW i \in 1..n PROVE Fileira(ds[i]) = p[i]
    OBVIOUS
  <2>1. p[i].tipo # ""
    BY <1>1, <1>3 DEF TiposPoltrona
  <2>2. QED
    BY <1>1, <1>3, <1>7, <2>1 DEF Fileira
<1>9. \A i, j \in 1..n : p[i].letra = p[j].letra => i = j
  <2> SUFFICES ASSUME NEW i \in 1..n, NEW j \in 1..n, i # j
               PROVE  p[i].letra # p[j].letra
    OBVIOUS
  <2>1. i < j \/ j < i
    OBVIOUS
  <2>2. p[i].letra \in Nat /\ p[j].letra \in Nat
    BY <1>1, <1>3
  <2>3. QED
    BY <1>1, <2>1, <2>2
<1>10. PlantaValida(ds)
  <2>1. ds # <<>>
    BY <1>1, <1>6
  <2>2. \A i \in 1..n : FileiraValida(ds[i])
    BY <1>1, <1>3, <1>7 DEF FileiraValida
  <2>3. SemRepetida(ds)
    BY <1>6, <1>7, <1>9 DEF SemRepetida
  <2>4. QED
    BY <1>6, <2>1, <2>2, <2>3 DEF PlantaValida
<1>11. NovoLayoutSala(ds) = p
  <2>1. PICK q \in Bijection(1..n, 1..n) :
           NovoLayoutSala(ds) = [i \in 1..n |-> Fileira(ds[q[i]])]
    BY <1>6, <1>10, PlantaFeita
  <2>2. \A i \in 1..n : q[i] \in 1..n
    BY <1>1, <2>1, Permuta
  <2>3. NovoLayoutSala(ds) = [i \in 1..n |-> p[q[i]]]
    BY <1>8, <2>1, <2>2
  <2> DEFINE R == NovoLayoutSala(ds)
  <2>4. EhPlanta(R) /\ Len(R) = n /\ \A i \in 1..n : R[i] = p[q[i]]
    <3>1. EhPlanta(R)
      BY <1>6, <1>10, PlantaFeita
    <3>2. R = [i \in 1..n |-> p[q[i]]]
      BY <2>3
    <3>3. R \in [1..n -> Fileiras]
      BY <1>1, <2>2, <3>2
    <3> HIDE DEF R
    <3>4. Len(R) = n
      BY <1>1, <3>3, ListaDe
    <3>5. QED
      BY <3>1, <3>2, <3>4
  <2> HIDE DEF R
  <2>5. \A i, j \in 1..n : i < j => p[q[i]].letra <= p[q[j]].letra
    <3> SUFFICES ASSUME NEW i \in 1..n, NEW j \in 1..n, i < j
                 PROVE  R[i].letra <= R[j].letra
      BY <2>4
    <3>1. R[i].letra < R[j].letra
      BY <2>4 DEF EhPlanta
    <3>2. R[i].letra \in Nat /\ R[j].letra \in Nat
      BY <1>1, <1>3, <2>2, <2>4
    <3>3. QED
      BY <3>1, <3>2
  <2>6. [i \in 1..n |-> p[q[i]]] = p
    BY <2>1, <2>5, OrdemUnica DEF n
  <2>7. QED
    BY <2>3, <2>6
<1>12. QED
  BY <1>6, <1>10, <1>11 DEF ds, n

(* So do they in any other order. *)
LEMMA ReenvioMesmaPlanta ==
    ASSUME NEW p, EhPlanta(p), NEW ordem \in Bijection(DOMAIN p, DOMAIN p)
    PROVE  LET es == [i \in DOMAIN ordem |-> Dados(p)[ordem[i]]] IN
           PlantaValida(es) /\ NovoLayoutSala(es) = p
<1> DEFINE n == Len(p)
           es == [i \in DOMAIN ordem |-> Dados(p)[ordem[i]]]
<1>1. n \in Nat /\ DOMAIN p = 1..n
  BY DEF EhPlanta
<1>2. ordem \in Bijection(1..n, 1..n) /\ DOMAIN ordem = 1..n
  <2>1. ordem \in Bijection(1..n, 1..n)
    BY <1>1
  <2> HIDE DEF n
  <2>2. ordem \in [1..n -> 1..n]
    BY <1>1, <2>1, Permuta, Zenon
  <2>3. QED
    BY <2>1, <2>2
<1>3. /\ Dados(p) \in Seq(DadosFileira) /\ Len(Dados(p)) = n
      /\ PlantaValida(Dados(p)) /\ NovoLayoutSala(Dados(p)) = p
  BY DadosVoltam
<1>4. es = [i \in 1..n |-> Dados(p)[ordem[i]]]
  BY <1>2
<1> HIDE DEF n, es
<1>5. PlantaValida(es) /\ NovoLayoutSala(es) = p
  BY <1>2, <1>3, <1>4, OrdemNaoImporta
<1>6. QED
  BY <1>5 DEF es
=============================================================================
