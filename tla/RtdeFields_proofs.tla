-------------------------- MODULE RtdeFields_proofs --------------------------
(***************************************************************************)
(* Proofs about RtdeFields: what its functions over a sequence compute.    *)
(* They are defined by recursion on a position in it, and so is FlattenSeq,*)
(* with which the controller's layout of a payload is written.  That such  *)
(* a function exists, and that a fact of one position carries over to the  *)
(* next ones, follow from the order of the natural numbers, in which every *)
(* set has a least element.  The last section is about the values: what a  *)
(* number or a bit stored at one place of a payload leaves at the others.  *)
(***************************************************************************)
EXTENDS RtdeFields, SequenceTheorems, WellFoundedInduction, TLAPS

(* The order of the natural numbers and the two forms of induction.        *)
LEMMA LeastNat ==
    ASSUME NEW T \in SUBSET Nat, T # {}
    PROVE  \E x \in T : \A y \in T : x <= y
<1>1. PICK x \in T : \A y \in T : ~ (<<y, x>> \in OpToRel(<, Nat))
  BY WFMin, NatLessThanWellFounded
<1>2. \A y \in T : ~ (y < x)
  BY <1>1 DEF OpToRel
<1>3. \A y \in T : x <= y
  BY <1>2
<1> QED
  BY <1>3

LEMMA InductionOnSet ==
    ASSUME NEW T \in SUBSET Nat, 0 \in T, \A n \in T : n + 1 \in T
    PROVE  T = Nat
<1>1. SUFFICES ASSUME Nat \ T # {} PROVE FALSE
  OBVIOUS
<1>2. PICK x \in Nat \ T : \A y \in Nat \ T : x <= y
  BY <1>1, LeastNat
<1>3. x - 1 \in Nat /\ x - 1 \in T
  BY <1>2
<1> QED
  BY <1>2, <1>3

LEMMA InductionTo ==
    ASSUME NEW N \in Nat, NEW T, 1 \in T, \A n \in 1 .. N - 1 : n \in T => n + 1 \in T
    PROVE  1 .. N \subseteq T
<1> DEFINE U == {n \in Nat : n + 1 <= N => n + 1 \in T}
<1>1. 0 \in U
  OBVIOUS
<1>2. ASSUME NEW n \in U PROVE n + 1 \in U
  <2>1. n \in Nat /\ (n + 1 <= N => n + 1 \in T)
    OBVIOUS
  <2>2. ASSUME n + 1 + 1 <= N PROVE n + 1 + 1 \in T
    <3>1. n + 1 \in 1 .. N - 1 /\ n + 1 \in T
      BY <2>1, <2>2
    <3> QED
      BY <3>1
  <2> QED
    BY <2>1, <2>2
<1>3. U = Nat
  <2> HIDE DEF U
  <2>1. U \in SUBSET Nat
    BY DEF U
  <2> QED
    BY <1>1, <1>2, <2>1, InductionOnSet
<1>4. ASSUME NEW n \in 1 .. N PROVE n \in T
  <2>1. n - 1 \in U
    <3> HIDE DEF U
    <3>1. n - 1 \in Nat
      OBVIOUS
    <3> QED
      BY <1>3, <3>1
  <2>2. (n - 1) + 1 = n /\ n <= N
    OBVIOUS
  <2> QED
    BY <2>1, <2>2
<1> QED
  BY <1>4

(* A function by recursion on a position: it starts with x, and each       *)
(* further value is made from the one before it.                           *)
Iterates(f, X, N, x, g) ==
    f \in [1 .. N -> X] /\ f[1] = x /\ \A i \in 2 .. N : f[i] = g[i][f[i - 1]]

LEMMA Recursion ==
    ASSUME NEW X, NEW N \in Nat \ {0}, NEW x \in X, NEW g \in [1 .. N -> [X -> X]]
    PROVE  \E f : Iterates(f, X, N, x, g)
<1> DEFINE Upto(n) == \E f \in [1 .. n -> X] :
                          f[1] = x /\ \A i \in 2 .. n : f[i] = g[i][f[i - 1]]
           T == {n \in 1 .. N : Upto(n)}
<1>1. Upto(1)
  <2>1. [i \in 1 .. 1 |-> x] \in [1 .. 1 -> X] /\ [i \in 1 .. 1 |-> x][1] = x /\ 2 .. 1 = {}
    OBVIOUS
  <2> QED
    BY <2>1
<1>2. ASSUME NEW n \in 1 .. N - 1, Upto(n) PROVE Upto(n + 1)
  <2>1. PICK f \in [1 .. n -> X] : f[1] = x /\ \A i \in 2 .. n : f[i] = g[i][f[i - 1]]
    BY <1>2
  <2> DEFINE h == [i \in 1 .. n + 1 |-> IF i = n + 1 THEN g[n + 1][f[n]] ELSE f[i]]
  <2>2. h[1] = x
    BY <2>1
  <2>3. f[n] \in X /\ g[n + 1][f[n]] \in X
    <3>1. f[n] \in X /\ n + 1 \in 1 .. N
      OBVIOUS
    <3>2. g[n + 1] \in [X -> X]
      BY <3>1
    <3> QED
      BY <3>1, <3>2
  <2>4. h \in [1 .. n + 1 -> X]
    BY <2>3
  <2>5. ASSUME NEW i \in 2 .. n + 1 PROVE h[i] = g[i][h[i - 1]]
    <3>1. CASE i = n + 1
      BY <3>1
    <3>2. CASE i # n + 1
      <4>1. i \in 2 .. n /\ h[i] = f[i] /\ h[i - 1] = f[i - 1]
        BY <3>2
      <4> QED
        BY <4>1, <2>1
    <3> QED
      BY <3>1, <3>2
  <2> HIDE DEF h
  <2> QED
    BY <2>2, <2>4, <2>5
<1>3. 1 .. N \subseteq T
  <2> HIDE DEF Upto
  <2>1. 1 \in T
    BY <1>1
  <2>2. ASSUME NEW n \in 1 .. N - 1, n \in T PROVE n + 1 \in T
    BY <1>2, <2>2
  <2> HIDE DEF T
  <2> QED
    BY <2>1, <2>2, InductionTo
<1>4. N \in T
  BY <1>3
<1>5. PICK f \in [1 .. N -> X] : f[1] = x /\ \A i \in 2 .. N : f[i] = g[i][f[i - 1]]
  BY <1>4
<1> QED
  BY <1>5 DEF Iterates

(* Sizes are numbers, known type or not.                                   *)
LEMMA SizeIsNat ==
    ASSUME NEW ft
    PROVE  /\ field_size(ft) \in Nat /\ field_scalar_size(ft) \in Nat
           /\ field_arity(ft) \in Nat
<1>1. field_size(ft) \in {0, 1, 4, 8, 24, 48}
  BY DEF field_size
<1>2. field_scalar_size(ft) \in {0, 1, 4, 8}
  BY DEF field_scalar_size
<1>3. field_arity(ft) \in {0, 1, 3, 6}
  BY DEF field_arity
<1> QED
  BY <1>1, <1>2, <1>3

(* The bytes before a field are those before the last plus its size.       *)
LEMMA BeforeEquation ==
    ASSUME NEW names \in Seq(Bases)
    PROVE  /\ Before(names) \in [1 .. Len(names) + 1 -> Nat]
           /\ Before(names)[1] = 0
           /\ \A i \in 1 .. Len(names) :
                 Before(names)[i + 1] = Before(names)[i] + field_size(Types[names[i]])
<1> DEFINE N == Len(names) + 1
           size(i) == field_size(Types[names[i]])
           g == [i \in 1 .. N |-> [n \in Nat |-> n + size(i - 1)]]
<1>1. N \in Nat \ {0} /\ Len(names) \in Nat
  OBVIOUS
<1>2. \A i : size(i) \in Nat
  BY SizeIsNat
<1> HIDE DEF N
<1>3. g \in [1 .. N -> [Nat -> Nat]] /\ \A i \in 1 .. N, n \in Nat : g[i][n] = n + size(i - 1)
  <2> HIDE DEF size
  <2> QED
    BY <1>2
<1> HIDE DEF g
<1>4. PICK f : Iterates(f, Nat, N, 0, g)
  BY <1>1, <1>3, Recursion
<1>5. f \in [1 .. N -> Nat] /\ f[1] = 0 /\ \A i \in 2 .. N : f[i] = g[i][f[i - 1]]
  BY <1>4 DEF Iterates
<1> HIDE DEF size
<1>6. \A i \in 2 .. N : f[i] = f[i - 1] + size(i - 1)
  <2> TAKE i \in 2 .. N
  <2>1. i \in 1 .. N /\ i - 1 \in 1 .. N
    BY <1>1
  <2>2. f[i - 1] \in Nat
    BY <1>5, <2>1
  <2> QED
    BY <1>3, <1>5, <2>1, <2>2
<1>7. f = [i \in 1 .. N |-> IF i = 1 THEN 0 ELSE f[i - 1] + size(i - 1)]
  BY <1>1, <1>5, <1>6
<1>8. Before(names) = CHOOSE h : h = [i \in 1 .. N |-> IF i = 1 THEN 0 ELSE h[i - 1] + size(i - 1)]
  BY DEF Before, N, size
<1> DEFINE b == Before(names)
<1>9. b = [i \in 1 .. N |-> IF i = 1 THEN 0 ELSE b[i - 1] + size(i - 1)]
  BY <1>7, <1>8
<1> HIDE DEF b
<1>10. b[1] = 0 /\ \A i \in 1 .. Len(names) : b[i + 1] = b[i] + size(i)
  <2>1. b[1] = 0
    BY <1>1, <1>9
  <2>2. ASSUME NEW i \in 1 .. Len(names) PROVE b[i + 1] = b[i] + size(i)
    <3>1. i + 1 \in 1 .. N /\ i + 1 # 1 /\ (i + 1) - 1 = i
      BY <1>1 DEF N
    <3> QED
      BY <1>9, <3>1
  <2> QED
    BY <2>1, <2>2
<1>11. 1 .. N \subseteq {i \in 1 .. N : b[i] \in Nat}
  <2> DEFINE T == {i \in 1 .. N : b[i] \in Nat}
  <2>1. 1 \in T
    BY <1>1, <1>10
  <2>2. ASSUME NEW n \in 1 .. N - 1, n \in T PROVE n + 1 \in T
    <3>1. n \in 1 .. Len(names) /\ b[n] \in Nat /\ n + 1 \in 1 .. N
      BY <1>1, <2>2 DEF N
    <3> QED
      BY <1>2, <1>10, <3>1
  <2> HIDE DEF T
  <2>3. 1 .. N \subseteq T
    BY <1>1, <2>1, <2>2, InductionTo
  <2> QED
    BY <2>3 DEF T
<1>12. b \in [1 .. N -> Nat]
  BY <1>9, <1>11
<1> QED
  BY <1>10, <1>12 DEF b, N, size

(* FlattenSeq lays the sequences one after the other.                      *)
LEMMA FlattenEquation ==
    ASSUME NEW S, NEW seqs \in Seq(Seq(S)), Len(seqs) # 0
    PROVE  \E f \in [1 .. Len(seqs) -> Seq(S)] :
              /\ f[1] = seqs[1] /\ \A i \in 2 .. Len(seqs) : f[i] = f[i - 1] \o seqs[i]
              /\ FlattenSeq(seqs) = f[Len(seqs)]
<1> DEFINE N == Len(seqs)
           cat(s, i) == s \o seqs[i]
           g == [i \in 1 .. N |-> [s \in Seq(S) |-> cat(s, i)]]
<1>1. /\ N \in Nat \ {0} /\ 1 \in 1 .. N /\ seqs[1] \in Seq(S)
      /\ \A i \in 1 .. N, s \in Seq(S) : cat(s, i) \in Seq(S)
  OBVIOUS
<1>2. FlattenSeq(seqs) = (CHOOSE h : h = [i \in 1 .. N |-> IF i = 1 THEN seqs[i] ELSE cat(h[i - 1], i)])[N]
  BY <1>1 DEF FlattenSeq
<1> HIDE DEF N, cat
<1>3. /\ g \in [1 .. N -> [Seq(S) -> Seq(S)]]
      /\ \A i \in 1 .. N, s \in Seq(S) : g[i][s] = cat(s, i)
  BY <1>1
<1> HIDE DEF g
<1>4. PICK f : Iterates(f, Seq(S), N, seqs[1], g)
  BY <1>1, <1>3, Recursion
<1>5. f \in [1 .. N -> Seq(S)] /\ f[1] = seqs[1] /\ \A i \in 2 .. N : f[i] = g[i][f[i - 1]]
  BY <1>4 DEF Iterates
<1>6. \A i \in 2 .. N : f[i] = cat(f[i - 1], i)
  <2> TAKE i \in 2 .. N
  <2>1. i \in 1 .. N /\ i - 1 \in 1 .. N
    BY <1>1
  <2>2. f[i - 1] \in Seq(S)
    BY <1>5, <2>1
  <2> QED
    BY <1>3, <1>5, <2>1, <2>2
<1>7. f = [i \in 1 .. N |-> IF i = 1 THEN seqs[i] ELSE cat(f[i - 1], i)]
  BY <1>1, <1>5, <1>6
<1> DEFINE F == CHOOSE h : h = [i \in 1 .. N |-> IF i = 1 THEN seqs[i] ELSE cat(h[i - 1], i)]
<1>8. F = [i \in 1 .. N |-> IF i = 1 THEN seqs[i] ELSE cat(F[i - 1], i)]
  BY <1>7
<1>9. FlattenSeq(seqs) = F[N]
  BY <1>2
<1> HIDE DEF F
<1>10. F[1] = seqs[1] /\ \A i \in 2 .. N : F[i] = cat(F[i - 1], i)
  BY <1>1, <1>8
<1>11. 1 .. N \subseteq {i \in 1 .. N : F[i] \in Seq(S)}
  <2> DEFINE T == {i \in 1 .. N : F[i] \in Seq(S)}
  <2>1. 1 \in T
    BY <1>1, <1>10
  <2>2. ASSUME NEW n \in 1 .. N - 1, n \in T PROVE n + 1 \in T
    <3>1. n + 1 \in 2 .. N /\ n + 1 \in 1 .. N /\ F[n] \in Seq(S) /\ (n + 1) - 1 = n
      BY <1>1, <2>2
    <3>2. F[n + 1] = cat(F[n], n + 1)
      BY <1>10, <3>1
    <3>3. F[n + 1] \in Seq(S)
      BY <1>1, <3>1, <3>2
    <3> QED
      BY <3>1, <3>3
  <2> HIDE DEF T
  <2>3. 1 .. N \subseteq T
    BY <1>1, <2>1, <2>2, InductionTo
  <2> QED
    BY <2>3 DEF T
<1>12. F \in [1 .. N -> Seq(S)]
  BY <1>8, <1>11
<1> QED
  BY <1>9, <1>10, <1>12 DEF N, cat

(* Sequences laid one after the other, the i-th from b[i] on.              *)
LaidOut(flat, seqs, b) ==
    /\ Len(flat) = b[Len(seqs) + 1]
    /\ \A i \in 1 .. Len(seqs), k \in Nat : k \in 1 .. Len(seqs[i]) =>
          /\ b[i] + k \in 1 .. b[Len(seqs) + 1]
          /\ flat[b[i] + k] = seqs[i][k]
    /\ \A p \in 1 .. b[Len(seqs) + 1] :
          \E i \in 1 .. Len(seqs) : \E k \in 1 .. Len(seqs[i]) : p = b[i] + k

(* So each is found where the lengths before it add up to.                 *)
LEMMA FlattenLayout ==
    ASSUME NEW S, NEW seqs \in Seq(Seq(S)), NEW b \in [1 .. Len(seqs) + 1 -> Nat],
           b[1] = 0, \A i \in 1 .. Len(seqs) : b[i + 1] = b[i] + Len(seqs[i])
    PROVE  FlattenSeq(seqs) \in Seq(S) /\ LaidOut(FlattenSeq(seqs), seqs, b)
<1> DEFINE N == Len(seqs)
<1>1. N \in Nat /\ \A i \in 1 .. N : seqs[i] \in Seq(S) /\ Len(seqs[i]) \in Nat
  OBVIOUS
<1>2. CASE N = 0
  <2>1. seqs = << >> /\ FlattenSeq(seqs) = << >>
    BY <1>2 DEF FlattenSeq
  <2>2. 1 .. N = {} /\ b[N + 1] = 0 /\ 1 .. 0 = {} /\ << >> \in Seq(S) /\ Len(<< >>) = 0
    BY <1>2
  <2> QED
    BY <2>1, <2>2 DEF LaidOut
<1>3. CASE N # 0
  <2>1. PICK f \in [1 .. N -> Seq(S)] :
           /\ f[1] = seqs[1] /\ \A i \in 2 .. N : f[i] = f[i - 1] \o seqs[i]
           /\ FlattenSeq(seqs) = f[N]
    BY <1>3, FlattenEquation
  <2> DEFINE Good(n) == /\ Len(f[n]) = b[n + 1]
                        /\ \A i \in 1 .. n, k \in Nat : k \in 1 .. Len(seqs[i]) =>
                              b[i] + k \in 1 .. b[n + 1] /\ f[n][b[i] + k] = seqs[i][k]
                        /\ \A p \in 1 .. b[n + 1] :
                              \E i \in 1 .. n : \E k \in 1 .. Len(seqs[i]) : p = b[i] + k
             T == {n \in 1 .. N : Good(n)}
  <2> HIDE DEF N
  <2>2. Good(1)
    <3>1. 1 \in 1 .. N /\ seqs[1] \in Seq(S) /\ 1 .. 1 = {1}
      BY <1>1, <1>3
    <3>2. b[1 + 1] = Len(seqs[1]) /\ Len(seqs[1]) \in Nat
      BY <1>1, <3>1 DEF N
    <3> QED
      BY <2>1, <3>1, <3>2
  <2>3. ASSUME NEW n \in 1 .. N - 1, Good(n) PROVE Good(n + 1)
    <3> DEFINE s == f[n]
               t == seqs[n + 1]
    <3>1. /\ n \in 1 .. N /\ n + 1 \in 1 .. N /\ n + 1 \in 2 .. N /\ (n + 1) - 1 = n
          /\ 1 .. n + 1 = (1 .. n) \cup {n + 1}
      BY <1>1
    <3>2. s \in Seq(S) /\ t \in Seq(S) /\ f[n + 1] = s \o t
      BY <1>1, <2>1, <3>1
    <3>3. b[n + 1] \in Nat /\ b[n + 2] \in Nat /\ b[(n + 1) + 1] = b[n + 1] + Len(t) /\ Len(t) \in Nat
      <4>1. n + 1 \in 1 .. Len(seqs) /\ n + 2 = (n + 1) + 1 /\ Len(t) \in Nat
        BY <1>1, <3>1 DEF N
      <4>2. n + 1 \in 1 .. Len(seqs) + 1 /\ n + 2 \in 1 .. Len(seqs) + 1
        BY <4>1
      <4>3. b[n + 1] \in Nat /\ b[n + 2] \in Nat
        BY <4>2
      <4>4. b[(n + 1) + 1] = b[n + 1] + Len(t)
        BY <4>1
      <4> QED
        BY <4>1, <4>3, <4>4
    <3>4. /\ Len(s) = b[n + 1]
          /\ \A i \in 1 .. n, k \in Nat : k \in 1 .. Len(seqs[i]) =>
                b[i] + k \in 1 .. b[n + 1] /\ s[b[i] + k] = seqs[i][k]
          /\ \A p \in 1 .. b[n + 1] :
                \E i \in 1 .. n : \E k \in 1 .. Len(seqs[i]) : p = b[i] + k
      BY <2>3
    <3> HIDE DEF s, t
    <3>5. /\ s \o t \in Seq(S) /\ Len(s \o t) = Len(s) + Len(t)
          /\ \A p \in 1 .. Len(s) + Len(t) :
                (s \o t)[p] = IF p <= Len(s) THEN s[p] ELSE t[p - Len(s)]
      BY <3>2, ConcatProperties
    <3>6. Len(f[n + 1]) = b[(n + 1) + 1]
      BY <3>2, <3>3, <3>4, <3>5
    <3>7. ASSUME NEW i \in 1 .. n + 1, NEW k \in Nat, k \in 1 .. Len(seqs[i])
          PROVE  b[i] + k \in 1 .. b[(n + 1) + 1] /\ f[n + 1][b[i] + k] = seqs[i][k]
      <4>1. CASE i \in 1 .. n
        <5>1. b[i] + k \in 1 .. b[n + 1] /\ s[b[i] + k] = seqs[i][k]
          BY <3>4, <3>7, <4>1
        <5> QED
          BY <3>2, <3>3, <3>4, <3>5, <5>1
      <4>2. CASE i = n + 1
        <5>1. k \in 1 .. Len(t) /\ b[i] = Len(s) /\ Len(s) \in Nat /\ (Len(s) + k) - Len(s) = k
          BY <3>3, <3>4, <3>7, <4>2 DEF t
        <5>2. Len(s) + k \in 1 .. Len(s) + Len(t) /\ ~ (Len(s) + k <= Len(s))
          BY <3>3, <5>1
        <5>3. (s \o t)[Len(s) + k] = t[k]
          BY <3>5, <5>1, <5>2
        <5> QED
          BY <3>2, <3>3, <3>4, <4>2, <5>1, <5>2, <5>3 DEF t
      <4> QED
        BY <3>1, <4>1, <4>2
    <3>8. ASSUME NEW p \in 1 .. b[(n + 1) + 1]
          PROVE  \E i \in 1 .. n + 1 : \E k \in 1 .. Len(seqs[i]) : p = b[i] + k
      <4>1. CASE p <= b[n + 1]
        <5>1. p \in 1 .. b[n + 1]
          BY <3>3, <4>1
        <5>2. PICK i \in 1 .. n : \E k \in 1 .. Len(seqs[i]) : p = b[i] + k
          BY <3>4, <5>1
        <5> QED
          BY <3>1, <5>2
      <4>2. CASE ~ (p <= b[n + 1])
        <5>1. p - b[n + 1] \in 1 .. Len(t) /\ p = b[n + 1] + (p - b[n + 1])
          BY <3>3, <4>2
        <5> QED
          BY <3>1, <5>1 DEF t
      <4> QED
        BY <4>1, <4>2
    <3> QED
      BY <3>6, <3>7, <3>8
  <2>4. 1 .. N \subseteq T
    <3> HIDE DEF Good
    <3>1. 1 \in T
      BY <1>1, <1>3, <2>2
    <3>2. ASSUME NEW n \in 1 .. N - 1, n \in T PROVE n + 1 \in T
      BY <1>1, <2>3, <3>2
    <3> HIDE DEF T
    <3> QED
      BY <1>1, <3>1, <3>2, InductionTo
  <2>5. N \in 1 .. N /\ Good(N)
    <3>1. N \in 1 .. N
      BY <1>1, <1>3
    <3> QED
      BY <2>4, <3>1
  <2>6. f[N] \in Seq(S)
    BY <2>1, <2>5
  <2> DEFINE flat == f[N]
  <2>7. flat \in Seq(S) /\ LaidOut(flat, seqs, b)
    <3> HIDE DEF flat, T
    <3>1. Good(N)
      BY <2>5
    <3> QED
      BY <2>6, <3>1 DEF LaidOut, N, flat
  <2>8. FlattenSeq(seqs) = flat
    BY <2>1
  <2> HIDE DEF flat
  <2> QED
    BY <2>7, <2>8
<1> QED
  BY <1>2, <1>3

(* The three tables of field types agree: the elements of a field, each as *)
(* wide as its type says alone, fill the field, so that offsets in it      *)
(* (init_rtde_session) and sizes of payloads are of one layout.            *)
THEOREM FieldTablesAgree ==
    ASSUME NEW ft \in FieldTypes
    PROVE  /\ field_size(ft) = field_arity(ft) * field_scalar_size(ft)
           /\ field_scalar_size(field_element_type(ft)) = field_scalar_size(ft)
           /\ field_element_type(ft) \in FieldTypes
<1>1. /\ ft \in {"BOOL", "UINT8"} =>
           field_size(ft) = 1 /\ field_arity(ft) = 1 /\ field_scalar_size(ft) = 1
      /\ ft \in {"UINT32", "INT32"} =>
           field_size(ft) = 4 /\ field_arity(ft) = 1 /\ field_scalar_size(ft) = 4
      /\ ft \in {"UINT64", "DOUBLE"} =>
           field_size(ft) = 8 /\ field_arity(ft) = 1 /\ field_scalar_size(ft) = 8
      /\ ft = "VECTOR3D" =>
           field_size(ft) = 24 /\ field_arity(ft) = 3 /\ field_scalar_size(ft) = 8
      /\ ft = "VECTOR6D" =>
           field_size(ft) = 48 /\ field_arity(ft) = 6 /\ field_scalar_size(ft) = 8
      /\ ft \in {"VECTOR6INT32", "VECTOR6UINT32"} =>
           field_size(ft) = 24 /\ field_arity(ft) = 6 /\ field_scalar_size(ft) = 4
  BY DEF field_size, field_arity, field_scalar_size
<1>2. field_size(ft) = field_arity(ft) * field_scalar_size(ft)
  BY <1>1 DEF FieldTypes
<1>3. /\ ft \in {"VECTOR3D", "VECTOR6D"} => field_element_type(ft) = "DOUBLE"
      /\ ft = "VECTOR6INT32" => field_element_type(ft) = "INT32"
      /\ ft = "VECTOR6UINT32" => field_element_type(ft) = "UINT32"
      /\ ft \in {"BOOL", "UINT8", "UINT32", "UINT64", "INT32", "DOUBLE"} =>
           field_element_type(ft) = ft
  BY DEF field_element_type
<1>4. field_element_type(ft) \in FieldTypes
  BY <1>3 DEF FieldTypes
<1>5. /\ field_scalar_size("DOUBLE") = 8
      /\ field_scalar_size("INT32") = 4 /\ field_scalar_size("UINT32") = 4
  BY DEF field_scalar_size
<1>6. field_scalar_size(field_element_type(ft)) = field_scalar_size(ft)
  BY <1>1, <1>3, <1>5 DEF FieldTypes
<1> QED
  BY <1>2, <1>4, <1>6

(* A byte of a payload: of which field, which element, which byte of it.   *)
Cell == [base : Bases, element : Nat, byte : Nat]
CellOf(base, e, k) == [base |-> base, element |-> e, byte |-> k]

(* The elements of a type and their cells.                                 *)
LEMMA ElementSizes ==
    ASSUME NEW ft \in FieldTypes
    PROVE  /\ RobotElements[ft] \in Seq(Nat)
           /\ Len(RobotElements[ft]) = field_arity(ft)
           /\ \A e \in 1 .. field_arity(ft) : RobotElements[ft][e] = field_scalar_size(ft)
<1> DEFINE Filled(s, n, w) == s \in Seq(Nat) /\ Len(s) = n /\ \A e \in 1 .. n : s[e] = w
<1>1. /\ Filled(<<1>>, 1, 1) /\ Filled(<<4>>, 1, 4) /\ Filled(<<8>>, 1, 8)
  OBVIOUS
<1>2. Filled(<<8, 8, 8>>, 3, 8)
  OBVIOUS
<1>3. Filled(<<8, 8, 8, 8, 8, 8>>, 6, 8)
  OBVIOUS
<1>4. Filled(<<4, 4, 4, 4, 4, 4>>, 6, 4)
  OBVIOUS
<1>5. /\ ft \in {"BOOL", "UINT8"} => field_arity(ft) = 1 /\ field_scalar_size(ft) = 1
      /\ ft \in {"UINT32", "INT32"} => field_arity(ft) = 1 /\ field_scalar_size(ft) = 4
      /\ ft \in {"UINT64", "DOUBLE"} => field_arity(ft) = 1 /\ field_scalar_size(ft) = 8
      /\ ft = "VECTOR3D" => field_arity(ft) = 3 /\ field_scalar_size(ft) = 8
      /\ ft = "VECTOR6D" => field_arity(ft) = 6 /\ field_scalar_size(ft) = 8
      /\ ft \in {"VECTOR6INT32", "VECTOR6UINT32"} =>
            field_arity(ft) = 6 /\ field_scalar_size(ft) = 4
  BY DEF field_arity, field_scalar_size
<1>6. /\ RobotElements["BOOL"] = <<1>> /\ RobotElements["UINT8"] = <<1>>
      /\ RobotElements["UINT32"] = <<4>> /\ RobotElements["INT32"] = <<4>>
      /\ RobotElements["UINT64"] = <<8>> /\ RobotElements["DOUBLE"] = <<8>>
      /\ RobotElements["VECTOR3D"] = <<8, 8, 8>>
      /\ RobotElements["VECTOR6D"] = <<8, 8, 8, 8, 8, 8>>
      /\ RobotElements["VECTOR6INT32"] = <<4, 4, 4, 4, 4, 4>>
      /\ RobotElements["VECTOR6UINT32"] = <<4, 4, 4, 4, 4, 4>>
  BY DEF RobotElements
<1> HIDE DEF Filled
<1>7. Filled(RobotElements[ft], field_arity(ft), field_scalar_size(ft))
  BY <1>1, <1>2, <1>3, <1>4, <1>5, <1>6 DEF FieldTypes
<1> QED
  BY <1>7 DEF Filled

LEMMA ElementCellsFacts ==
    ASSUME NEW base \in Bases, NEW e \in Nat, NEW n \in Nat
    PROVE  /\ ElementCells(base, e, n) \in Seq(Cell) /\ Len(ElementCells(base, e, n)) = n
           /\ \A k \in 1 .. n : ElementCells(base, e, n)[k] = CellOf(base, e, k)
<1> DEFINE s == [k \in 1 .. n |-> CellOf(base, e, k)]
<1>1. \A k \in 1 .. n : CellOf(base, e, k) \in Cell
  BY DEF CellOf, Cell
<1> HIDE DEF CellOf
<1>2. s \in Seq(Cell) /\ Len(s) = n /\ \A k \in 1 .. n : s[k] = CellOf(base, e, k)
  BY <1>1
<1> QED
  BY <1>2 DEF ElementCells, CellOf

(* A field: its elements one after the other, each as wide as its type.    *)
LEMMA FieldLayout ==
    ASSUME NEW base \in Bases, NEW ft \in FieldTypes
    PROVE  /\ FieldCells(base, ft) \in Seq(Cell)
           /\ Len(FieldCells(base, ft)) = field_size(ft)
           /\ \A e \in Nat, k \in Nat :
                 e < field_arity(ft) /\ k \in 1 .. field_scalar_size(ft) =>
                    /\ e * field_scalar_size(ft) + k \in 1 .. field_size(ft)
                    /\ FieldCells(base, ft)[e * field_scalar_size(ft) + k] = CellOf(base, e, k)
           /\ \A p \in 1 .. field_size(ft) :
                 \E e \in 0 .. field_arity(ft) - 1 : \E k \in 1 .. field_scalar_size(ft) :
                    p = e * field_scalar_size(ft) + k
<1> DEFINE a == field_arity(ft)
           w == field_scalar_size(ft)
           seqs == [e \in DOMAIN RobotElements[ft] |->
                       ElementCells(base, e - 1, RobotElements[ft][e])]
           b == [e \in 1 .. a + 1 |-> (e - 1) * w]
<1>1. a \in Nat /\ w \in Nat /\ field_size(ft) = a * w
  BY SizeIsNat, FieldTablesAgree
<1>2. /\ DOMAIN RobotElements[ft] = 1 .. a
      /\ \A e \in 1 .. a : RobotElements[ft][e] = w
  <2>1. RobotElements[ft] \in Seq(Nat) /\ Len(RobotElements[ft]) = a
    BY ElementSizes
  <2> QED
    BY <2>1, ElementSizes
<1>3. FieldCells(base, ft) = FlattenSeq(seqs)
  BY DEF FieldCells
<1> HIDE DEF a, w
<1>4. seqs = [e \in 1 .. a |-> ElementCells(base, e - 1, w)]
  BY <1>2
<1> HIDE DEF seqs
<1>5. ASSUME NEW e \in 1 .. a
      PROVE  /\ seqs[e] \in Seq(Cell) /\ Len(seqs[e]) = w
             /\ \A k \in 1 .. w : seqs[e][k] = CellOf(base, e - 1, k)
  <2>1. e - 1 \in Nat /\ seqs[e] = ElementCells(base, e - 1, w)
    BY <1>1, <1>4
  <2> QED
    BY <1>1, <2>1, ElementCellsFacts
<1>6. seqs \in Seq(Seq(Cell)) /\ Len(seqs) = a
  BY <1>1, <1>4, <1>5
<1>7. ASSUME NEW n \in 1 .. a + 1 PROVE b[n] \in Nat /\ b[n] = (n - 1) * w
  <2>1. n - 1 \in Nat
    OBVIOUS
  <2> QED
    BY <1>1, <2>1
<1>8. /\ b \in [1 .. a + 1 -> Nat]
      /\ b[1] = 0 /\ b[a + 1] = a * w
      /\ \A e \in 1 .. a : b[e + 1] = b[e] + Len(seqs[e]) /\ b[e] = (e - 1) * w
  <2>1. b \in [1 .. a + 1 -> Nat]
    BY <1>7
  <2>2. b[1] = 0
    <3>1. 1 \in 1 .. a + 1 /\ 1 - 1 = 0
      BY <1>1
    <3> QED
      BY <1>1, <1>7, <3>1
  <2>3. b[a + 1] = a * w
    <3>1. a + 1 \in 1 .. a + 1 /\ (a + 1) - 1 = a
      BY <1>1
    <3> QED
      BY <1>1, <1>7, <3>1
  <2>4. ASSUME NEW e \in 1 .. a PROVE b[e + 1] = b[e] + Len(seqs[e]) /\ b[e] = (e - 1) * w
    <3>1. e \in 1 .. a + 1 /\ e + 1 \in 1 .. a + 1 /\ (e + 1) - 1 = e
      BY <1>1
    <3>2. b[e + 1] = e * w /\ b[e] = (e - 1) * w
      BY <1>7, <3>1
    <3>3. e * w = (e - 1) * w + w
      BY <1>1
    <3> QED
      BY <1>5, <3>2, <3>3
  <2> QED
    BY <2>1, <2>2, <2>3, <2>4
<1> HIDE DEF b
<1> DEFINE flat == FlattenSeq(seqs)
<1>9. /\ flat \in Seq(Cell) /\ Len(flat) = a * w
      /\ \A e \in 1 .. a, k \in Nat : k \in 1 .. w =>
            b[e] + k \in 1 .. a * w /\ flat[b[e] + k] = seqs[e][k]
      /\ \A p \in 1 .. a * w : \E e \in 1 .. a : \E k \in 1 .. w : p = b[e] + k
  <2>1. /\ flat \in Seq(Cell)
        /\ Len(flat) = b[Len(seqs) + 1]
        /\ \A i \in 1 .. Len(seqs), k \in Nat : k \in 1 .. Len(seqs[i]) =>
              /\ b[i] + k \in 1 .. b[Len(seqs) + 1]
              /\ flat[b[i] + k] = seqs[i][k]
        /\ \A p \in 1 .. b[Len(seqs) + 1] :
              \E i \in 1 .. Len(seqs) : \E k \in 1 .. Len(seqs[i]) : p = b[i] + k
    <3>1. \A e \in 1 .. Len(seqs) : b[e + 1] = b[e] + Len(seqs[e])
      BY <1>6, <1>8
    <3>2. b \in [1 .. Len(seqs) + 1 -> Nat] /\ b[1] = 0
      BY <1>6, <1>8
    <3>3. flat \in Seq(Cell) /\ LaidOut(flat, seqs, b)
      BY <1>6, <3>1, <3>2, FlattenLayout
    <3> HIDE DEF flat
    <3> QED
      BY <3>3 DEF LaidOut
  <2> HIDE DEF flat
  <2>2. Len(seqs) = a /\ b[Len(seqs) + 1] = a * w /\ \A e \in 1 .. a : Len(seqs[e]) = w
    BY <1>5, <1>6, <1>8
  <2> QED
    BY <2>1, <2>2
<1> HIDE DEF flat
<1>10. ASSUME NEW e \in Nat, NEW k \in Nat, e < a, k \in 1 .. w
       PROVE  e * w + k \in 1 .. a * w /\ flat[e * w + k] = CellOf(base, e, k)
  <2>1. e + 1 \in 1 .. a /\ (e + 1) - 1 = e
    BY <1>1, <1>10
  <2>2. b[e + 1] = e * w
    BY <1>8, <2>1
  <2> QED
    BY <1>5, <1>9, <1>10, <2>1, <2>2
<1>11. ASSUME NEW p \in 1 .. a * w
       PROVE  \E e \in 0 .. a - 1 : \E k \in 1 .. w : p = e * w + k
  <2>1. PICK n \in 1 .. a : \E k \in 1 .. w : p = b[n] + k
    BY <1>9
  <2>2. n - 1 \in 0 .. a - 1 /\ b[n] = (n - 1) * w
    BY <1>1, <1>8
  <2> QED
    BY <2>1, <2>2
<1>12. FieldCells(base, ft) = flat
  BY <1>3 DEF flat
<1> QED
  BY <1>1, <1>9, <1>10, <1>11, <1>12 DEF a, w

(* A payload: its fields one after the other, the i-th from where the      *)
(* client has counted its offset.                                          *)
THEOREM RobotLayout ==
    ASSUME NEW names \in Seq(Bases),
           \A i \in 1 .. Len(names) : Types[names[i]] \in FieldTypes
    PROVE  /\ RobotCells(names) \in Seq(Cell)
           /\ Len(RobotCells(names)) = PayloadSize(names)
           /\ \A i \in 1 .. Len(names), n \in Nat :
                 n \in 1 .. field_size(Types[names[i]]) =>
                    /\ Before(names)[i] + n \in 1 .. PayloadSize(names)
                    /\ RobotCells(names)[Before(names)[i] + n]
                          = FieldCells(names[i], Types[names[i]])[n]
           /\ \A p \in 1 .. PayloadSize(names) :
                 \E i \in 1 .. Len(names) : \E n \in 1 .. field_size(Types[names[i]]) :
                    p = Before(names)[i] + n
<1> DEFINE N == Len(names)
           b == Before(names)
           seqs == [i \in DOMAIN names |-> FieldCells(names[i], Types[names[i]])]
           flat == FlattenSeq(seqs)
<1>1. N \in Nat /\ DOMAIN names = 1 .. N /\ \A i \in 1 .. N : names[i] \in Bases
  OBVIOUS
<1>2. /\ b \in [1 .. N + 1 -> Nat] /\ b[1] = 0
      /\ \A i \in 1 .. N : b[i + 1] = b[i] + field_size(Types[names[i]])
  BY BeforeEquation
<1>3. PayloadSize(names) = b[N + 1] /\ RobotCells(names) = flat
  BY DEF PayloadSize, RobotCells
<1> HIDE DEF N, b
<1>4. ASSUME NEW i \in 1 .. N
      PROVE  /\ seqs[i] = FieldCells(names[i], Types[names[i]])
             /\ seqs[i] \in Seq(Cell) /\ Len(seqs[i]) = field_size(Types[names[i]])
  <2>1. seqs[i] = FieldCells(names[i], Types[names[i]])
    BY <1>1
  <2>2. names[i] \in Bases /\ Types[names[i]] \in FieldTypes
    BY <1>1 DEF N
  <2> HIDE DEF seqs
  <2> QED
    BY <2>1, <2>2, FieldLayout
<1>5. DOMAIN seqs = 1 .. N
  BY <1>1
<1>6. seqs = [i \in 1 .. N |-> seqs[i]]
  BY <1>5
<1> HIDE DEF seqs
<1>7. seqs \in Seq(Seq(Cell)) /\ Len(seqs) = N
  <2>1. seqs \in [1 .. N -> Seq(Cell)]
    BY <1>4, <1>6
  <2> QED
    BY <1>1, <2>1
<1>8. flat \in Seq(Cell) /\ LaidOut(flat, seqs, b)
  <2>1. /\ b \in [1 .. N + 1 -> Nat] /\ b[1] = 0
        /\ \A i \in 1 .. N : b[i + 1] = b[i] + Len(seqs[i])
    BY <1>2, <1>4
  <2>2. Len(seqs) = N /\ seqs \in Seq(Seq(Cell))
    BY <1>7
  <2>3. /\ b \in [1 .. Len(seqs) + 1 -> Nat] /\ b[1] = 0
        /\ \A i \in 1 .. Len(seqs) : b[i + 1] = b[i] + Len(seqs[i])
    BY <2>1, <2>2
  <2> QED
    BY <2>2, <2>3, FlattenLayout
<1> HIDE DEF flat
<1>9. /\ flat \in Seq(Cell) /\ Len(flat) = b[N + 1]
      /\ \A i \in 1 .. N, n \in Nat : n \in 1 .. field_size(Types[names[i]]) =>
            /\ b[i] + n \in 1 .. b[N + 1]
            /\ flat[b[i] + n] = FieldCells(names[i], Types[names[i]])[n]
      /\ \A p \in 1 .. b[N + 1] :
            \E i \in 1 .. N : \E n \in 1 .. field_size(Types[names[i]]) : p = b[i] + n
  <2>1. Len(seqs) = N
    BY <1>7
  <2>2. flat \in Seq(Cell) /\ Len(flat) = b[N + 1]
    BY <1>8, <2>1 DEF LaidOut
  <2>3. ASSUME NEW i \in 1 .. N, NEW n \in Nat, n \in 1 .. field_size(Types[names[i]])
        PROVE  /\ b[i] + n \in 1 .. b[N + 1]
               /\ flat[b[i] + n] = FieldCells(names[i], Types[names[i]])[n]
    <3>1. i \in 1 .. Len(seqs) /\ n \in 1 .. Len(seqs[i])
      BY <1>4, <2>1, <2>3
    <3>2. b[i] + n \in 1 .. b[N + 1] /\ flat[b[i] + n] = seqs[i][n]
      BY <1>8, <2>1, <2>3, <3>1 DEF LaidOut
    <3> QED
      BY <1>4, <3>2
  <2>4. ASSUME NEW p \in 1 .. b[N + 1]
        PROVE  \E i \in 1 .. N : \E n \in 1 .. field_size(Types[names[i]]) : p = b[i] + n
    <3>1. PICK i \in 1 .. N : \E k \in 1 .. Len(seqs[i]) : p = b[i] + k
      BY <1>8, <2>1, <2>4 DEF LaidOut
    <3> QED
      BY <1>4, <3>1
  <2> QED
    BY <2>2, <2>3, <2>4
<1> QED
  BY <1>3, <1>9 DEF N, b

(* A recipe has each of its variables once.                                *)
LEMMA RecipeFacts ==
    ASSUME NEW bases
    PROVE  /\ Recipe(bases) \in Seq(Bases)
           /\ \A base \in Bases : base \in bases <=>
                 \E i \in 1 .. Len(Recipe(bases)) : Recipe(bases)[i] = base
           /\ \A i, j \in 1 .. Len(Recipe(bases)) :
                 Recipe(bases)[i] = Recipe(bases)[j] => i = j
<1> DEFINE N == Len(BaseOrder) + 1
           put(s, i) == IF BaseOrder[i - 1] \in bases THEN Append(s, BaseOrder[i - 1]) ELSE s
           g == [i \in 1 .. N |-> [s \in Seq(Bases) |-> IF i = 1 THEN s ELSE put(s, i)]]
<1>1. /\ BaseOrder \in Seq(Bases) /\ Len(BaseOrder) \in Nat /\ N \in Nat \ {0}
      /\ \A i \in 2 .. N : i - 1 \in 1 .. Len(BaseOrder) /\ BaseOrder[i - 1] \in Bases
      /\ \A j, k \in 1 .. Len(BaseOrder) : BaseOrder[j] = BaseOrder[k] => j = k
      /\ Bases = {BaseOrder[k] : k \in 1 .. Len(BaseOrder)}
  <2>1. BaseOrder \in Seq(Bases)
    BY RtdeAssumption DEF RtdeAssumption
  <2>2. Len(BaseOrder) \in Nat /\ DOMAIN BaseOrder = 1 .. Len(BaseOrder)
    BY <2>1
  <2> QED
    BY <2>1, <2>2, RtdeAssumption DEF RtdeAssumption, Bases
<1>2. ASSUME NEW i \in 2 .. N, NEW s \in Seq(Bases) PROVE put(s, i) \in Seq(Bases)
  BY <1>1
<1>3. Recipe(bases) = (CHOOSE h : h = [i \in 1 .. N |-> IF i = 1 THEN <<>> ELSE put(h[i - 1], i)])[N]
  BY DEF Recipe
<1> HIDE DEF N, put
<1>4. /\ g \in [1 .. N -> [Seq(Bases) -> Seq(Bases)]]
      /\ \A i \in 2 .. N, s \in Seq(Bases) : g[i][s] = put(s, i)
  <2>1. ASSUME NEW i \in 1 .. N, NEW s \in Seq(Bases)
        PROVE  (IF i = 1 THEN s ELSE put(s, i)) \in Seq(Bases)
    <3>1. i # 1 => i \in 2 .. N
      BY <1>1
    <3> QED
      BY <3>1, <1>2
  <2>2. \A i \in 2 .. N : i \in 1 .. N /\ i # 1
    BY <1>1
  <2> QED
    BY <2>1, <2>2
<1> HIDE DEF g
<1>5. << >> \in Seq(Bases)
  OBVIOUS
<1>6. PICK f : Iterates(f, Seq(Bases), N, << >>, g)
  BY <1>1, <1>4, <1>5, Recursion
<1>7. f \in [1 .. N -> Seq(Bases)] /\ f[1] = << >> /\ \A i \in 2 .. N : f[i] = g[i][f[i - 1]]
  BY <1>6 DEF Iterates
<1>8. \A i \in 2 .. N : i - 1 \in 1 .. N /\ f[i - 1] \in Seq(Bases) /\ f[i] = put(f[i - 1], i)
  <2> TAKE i \in 2 .. N
  <2>1. i \in 1 .. N /\ i - 1 \in 1 .. N
    BY <1>1
  <2>2. f[i - 1] \in Seq(Bases)
    BY <1>7, <2>1
  <2> QED
    BY <1>4, <1>7, <2>1, <2>2
<1>9. f = [i \in 1 .. N |-> IF i = 1 THEN << >> ELSE put(f[i - 1], i)]
  <2>1. \A i \in 1 .. N : f[i] = IF i = 1 THEN << >> ELSE put(f[i - 1], i)
    <3> TAKE i \in 1 .. N
    <3>1. i = 1 \/ i \in 2 .. N
      BY <1>1
    <3> QED
      BY <1>7, <1>8, <3>1
  <2> QED
    BY <1>7, <2>1
<1> DEFINE F == CHOOSE h : h = [i \in 1 .. N |-> IF i = 1 THEN << >> ELSE put(h[i - 1], i)]
<1>10. F = [i \in 1 .. N |-> IF i = 1 THEN << >> ELSE put(F[i - 1], i)]
  BY <1>9
<1>11. Recipe(bases) = F[N]
  BY <1>3
<1> HIDE DEF F
<1>12. F[1] = << >> /\ \A i \in 2 .. N : F[i] = put(F[i - 1], i)
  <2>1. 1 \in 1 .. N /\ \A i \in 2 .. N : i \in 1 .. N /\ i # 1
    BY <1>1
  <2>2. \A i \in 1 .. N : F[i] = IF i = 1 THEN << >> ELSE put(F[i - 1], i)
    BY <1>10
  <2> QED
    BY <2>1, <2>2
<1> DEFINE Good(i) ==
              /\ F[i] \in Seq(Bases)
              /\ \A j \in 1 .. i - 1 : BaseOrder[j] \in bases <=>
                    \E k \in 1 .. Len(F[i]) : F[i][k] = BaseOrder[j]
              /\ \A k \in 1 .. Len(F[i]) :
                    \E j \in 1 .. i - 1 : F[i][k] = BaseOrder[j] /\ BaseOrder[j] \in bases
              /\ \A k, m \in 1 .. Len(F[i]) : F[i][k] = F[i][m] => k = m
           T == {i \in 1 .. N : Good(i)}
<1>13. Good(1)
  <2>1. Len(<< >>) = 0 /\ 1 .. 0 = {} /\ 1 - 1 = 0
    OBVIOUS
  <2> QED
    BY <1>5, <1>12, <2>1
<1>14. ASSUME NEW i \in 1 .. N - 1, Good(i) PROVE Good(i + 1)
  <2> DEFINE s == F[i]
             base == BaseOrder[i]
  <2>1. /\ i + 1 \in 2 .. N /\ (i + 1) - 1 = i /\ i \in 1 .. Len(BaseOrder) /\ base \in Bases
        /\ \A j \in 1 .. i - 1 : BaseOrder[j] # base
        /\ 1 .. i = (1 .. i - 1) \cup {i}
    <3>1. i + 1 \in 2 .. N /\ (i + 1) - 1 = i /\ 1 .. i = (1 .. i - 1) \cup {i}
      BY <1>1
    <3>2. i \in 1 .. Len(BaseOrder)
      BY <1>1 DEF N
    <3>3. \A j \in 1 .. i - 1 : j \in 1 .. Len(BaseOrder) /\ j # i
      BY <1>1, <3>2
    <3> QED
      BY <1>1, <3>1, <3>2, <3>3
  <2>2. F[i + 1] = IF base \in bases THEN Append(s, base) ELSE s
    BY <1>12, <2>1 DEF put
  <2>3. /\ s \in Seq(Bases)
        /\ \A j \in 1 .. i - 1 : BaseOrder[j] \in bases <=>
              \E k \in 1 .. Len(s) : s[k] = BaseOrder[j]
        /\ \A k \in 1 .. Len(s) : \E j \in 1 .. i - 1 : s[k] = BaseOrder[j] /\ BaseOrder[j] \in bases
        /\ \A k, m \in 1 .. Len(s) : s[k] = s[m] => k = m
    BY <1>14
  <2>4. \A k \in 1 .. Len(s) : s[k] # base
    BY <2>1, <2>3
  <2> HIDE DEF s
  <2>5. CASE base \notin bases
    <3>1. F[i + 1] = s
      BY <2>2, <2>5
    <3>2. \A j \in 1 .. i : BaseOrder[j] \in bases <=> \E k \in 1 .. Len(s) : s[k] = BaseOrder[j]
      BY <2>1, <2>3, <2>4, <2>5
    <3>3. \A k \in 1 .. Len(s) : \E j \in 1 .. i : s[k] = BaseOrder[j] /\ BaseOrder[j] \in bases
      BY <2>1, <2>3
    <3> QED
      BY <2>1, <2>3, <3>1, <3>2, <3>3
  <2>6. CASE base \in bases
    <3> DEFINE a == Append(s, base)
    <3>1. /\ a \in Seq(Bases) /\ Len(a) = Len(s) + 1 /\ Len(s) \in Nat
          /\ a[Len(s) + 1] = base /\ \A k \in 1 .. Len(s) : a[k] = s[k]
      BY <2>1, <2>3, AppendProperties
    <3>2. 1 .. Len(a) = (1 .. Len(s)) \cup {Len(s) + 1}
      BY <3>1
    <3> HIDE DEF a, base
    <3>3. \A j \in 1 .. i : BaseOrder[j] \in bases <=> \E k \in 1 .. Len(a) : a[k] = BaseOrder[j]
      <4>1. ASSUME NEW j \in 1 .. i - 1
            PROVE  BaseOrder[j] \in bases <=> \E k \in 1 .. Len(a) : a[k] = BaseOrder[j]
        <5>1. BaseOrder[j] # base
          BY <2>1
        <5>2. (\E k \in 1 .. Len(a) : a[k] = BaseOrder[j])
                 <=> \E k \in 1 .. Len(s) : s[k] = BaseOrder[j]
          BY <3>1, <3>2, <5>1
        <5> QED
          BY <2>3, <5>2
      <4>2. a[Len(s) + 1] = BaseOrder[i] /\ Len(s) + 1 \in 1 .. Len(a)
        BY <3>1, <3>2 DEF base
      <4>3. BaseOrder[i] \in bases
        BY <2>6 DEF base
      <4> QED
        BY <2>1, <4>1, <4>2, <4>3
    <3>4. \A k \in 1 .. Len(a) : \E j \in 1 .. i : a[k] = BaseOrder[j] /\ BaseOrder[j] \in bases
      <4> TAKE k \in 1 .. Len(a)
      <4>1. CASE k \in 1 .. Len(s)
        <5>1. a[k] = s[k]
          BY <3>1, <4>1
        <5>2. PICK j \in 1 .. i - 1 : s[k] = BaseOrder[j] /\ BaseOrder[j] \in bases
          BY <2>3, <4>1
        <5> QED
          BY <2>1, <5>1, <5>2
      <4>2. CASE k = Len(s) + 1
        BY <2>1, <2>6, <3>1, <4>2 DEF base
      <4> QED
        BY <3>2, <4>1, <4>2
    <3>5. \A k, m \in 1 .. Len(a) : a[k] = a[m] => k = m
      BY <2>3, <2>4, <3>1, <3>2
    <3>6. F[i + 1] = a
      BY <2>2, <2>6 DEF a, base
    <3> QED
      BY <2>1, <3>1, <3>3, <3>4, <3>5, <3>6
  <2> QED
    BY <2>5, <2>6
<1>15. N \in T
  <2> HIDE DEF Good
  <2>1. 1 \in T
    BY <1>1, <1>13
  <2>2. ASSUME NEW i \in 1 .. N - 1, i \in T PROVE i + 1 \in T
    <3>1. i + 1 \in 1 .. N
      BY <1>1
    <3> QED
      BY <1>14, <2>2, <3>1
  <2>3. N \in 1 .. N
    BY <1>1
  <2> HIDE DEF T
  <2> QED
    BY <1>1, <2>1, <2>2, <2>3, InductionTo
<1> HIDE DEF Good
<1>16. Good(N) /\ N - 1 = Len(BaseOrder)
  BY <1>1, <1>15 DEF N
<1> DEFINE r == F[N]
<1>17. /\ r \in Seq(Bases)
       /\ \A j \in 1 .. Len(BaseOrder) : BaseOrder[j] \in bases <=>
             \E k \in 1 .. Len(r) : r[k] = BaseOrder[j]
       /\ \A k, m \in 1 .. Len(r) : r[k] = r[m] => k = m
  BY <1>16 DEF Good
<1>18. r = Recipe(bases)
  BY <1>11
<1> HIDE DEF r, T
<1>19. \A base \in Bases : base \in bases <=> \E k \in 1 .. Len(r) : r[k] = base
  <2> TAKE base \in Bases
  <2>1. PICK j \in 1 .. Len(BaseOrder) : base = BaseOrder[j]
    BY <1>1
  <2> QED
    BY <1>17, <2>1
<1> QED
  BY <1>17, <1>18, <1>19

TypesKnown(names) == \A i \in DOMAIN names : Types[names[i]] \in FieldTypes

(* In a payload: the k-th byte of an element of a field.                   *)
LEMMA CellAt ==
    ASSUME NEW names \in Seq(Bases), TypesKnown(names),
           NEW i \in 1 .. Len(names), NEW e \in Nat, NEW k \in Nat,
           e < field_arity(Types[names[i]]), k \in 1 .. field_scalar_size(Types[names[i]])
    PROVE  LET p == Before(names)[i] + e * field_scalar_size(Types[names[i]]) + k
           IN p \in 1 .. PayloadSize(names) /\ RobotCells(names)[p] = CellOf(names[i], e, k)
<1> DEFINE ft == Types[names[i]]
           w == field_scalar_size(ft)
           n == e * w + k
<1>1. names[i] \in Bases /\ ft \in FieldTypes /\ \A j \in 1 .. Len(names) : Types[names[j]] \in FieldTypes
  BY DEF TypesKnown
<1>2. Before(names)[i] \in Nat /\ w \in Nat
  BY BeforeEquation, SizeIsNat
<1> HIDE DEF ft
<1>3. n \in 1 .. field_size(ft) /\ FieldCells(names[i], ft)[n] = CellOf(names[i], e, k)
  <2>1. e < field_arity(ft) /\ k \in 1 .. field_scalar_size(ft)
    BY DEF ft
  <2>2. /\ e * field_scalar_size(ft) + k \in 1 .. field_size(ft)
        /\ FieldCells(names[i], ft)[e * field_scalar_size(ft) + k] = CellOf(names[i], e, k)
    BY <1>1, <2>1, FieldLayout
  <2> QED
    BY <2>2
<1>4. n \in Nat /\ Before(names)[i] + n = Before(names)[i] + e * w + k
  <2>1. e * w \in Nat
    BY <1>2
  <2> HIDE DEF w
  <2> QED
    BY <1>2, <2>1
<1> HIDE DEF n, w
<1>5. /\ Before(names)[i] + n \in 1 .. PayloadSize(names)
      /\ RobotCells(names)[Before(names)[i] + n] = FieldCells(names[i], ft)[n]
  BY <1>1, <1>3, <1>4, RobotLayout DEF ft
<1> QED
  BY <1>3, <1>4, <1>5 DEF ft, w

(* Every byte of a payload is of an element of a field.                    *)
LEMMA CellOfPosition ==
    ASSUME NEW names \in Seq(Bases), TypesKnown(names), NEW p \in 1 .. PayloadSize(names)
    PROVE  \E i \in 1 .. Len(names), e \in Nat, k \in Nat :
              /\ p = Before(names)[i] + e * field_scalar_size(Types[names[i]]) + k
              /\ RobotCells(names)[p] = CellOf(names[i], e, k)
<1>1. \A j \in 1 .. Len(names) : names[j] \in Bases /\ Types[names[j]] \in FieldTypes
  BY DEF TypesKnown
<1>2. PICK i \in 1 .. Len(names) : \E n \in 1 .. field_size(Types[names[i]]) :
           p = Before(names)[i] + n
  BY <1>1, RobotLayout
<1> DEFINE ft == Types[names[i]]
<1>3. PICK n \in 1 .. field_size(ft) : p = Before(names)[i] + n
  BY <1>2
<1>4. names[i] \in Bases /\ ft \in FieldTypes
  BY <1>1
<1> DEFINE w == field_scalar_size(ft)
           a == field_arity(ft)
<1>5. Before(names)[i] \in Nat /\ w \in Nat /\ a \in Nat
  <2>1. Before(names) \in [1 .. Len(names) + 1 -> Nat] /\ i \in 1 .. Len(names) + 1
    BY BeforeEquation
  <2>2. w \in Nat /\ a \in Nat
    BY SizeIsNat
  <2> QED
    BY <2>1, <2>2
<1>6. PICK e \in 0 .. a - 1, k \in 1 .. w : n = e * w + k
  <2> HIDE DEF ft
  <2> QED
    BY <1>3, <1>4, FieldLayout
<1>7. p = Before(names)[i] + e * w + k
  <2> HIDE DEF w, a
  <2>1. e \in Nat
    BY <1>5
  <2>2. e * w \in Nat
    BY <1>5, <2>1
  <2> QED
    BY <1>3, <1>5, <1>6, <2>2
<1>8. e \in Nat /\ e < a /\ k \in Nat
  <2> HIDE DEF w, a
  <2> QED
    BY <1>5
<1>9. RobotCells(names)[p] = CellOf(names[i], e, k)
  BY <1>7, <1>8, CellAt
<1> QED
  BY <1>7, <1>8, <1>9

(* No two bytes of a payload are the same byte of the same element, if the *)
(* variables of the recipe are different ones.                             *)
LEMMA CellsApart ==
    ASSUME NEW names \in Seq(Bases), TypesKnown(names),
           \A i, j \in 1 .. Len(names) : names[i] = names[j] => i = j,
           NEW p \in 1 .. PayloadSize(names), NEW q \in 1 .. PayloadSize(names),
           RobotCells(names)[p] = RobotCells(names)[q]
    PROVE  p = q
<1> DEFINE At(i, e, k, r) ==
              /\ r = Before(names)[i] + e * field_scalar_size(Types[names[i]]) + k
              /\ RobotCells(names)[r] = CellOf(names[i], e, k)
<1>1. PICK i \in 1 .. Len(names), e \in Nat, k \in Nat : At(i, e, k, p)
  BY CellOfPosition
<1>2. PICK j \in 1 .. Len(names), m \in Nat, n \in Nat : At(j, m, n, q)
  BY CellOfPosition
<1>3. CellOf(names[i], e, k) = CellOf(names[j], m, n)
  BY <1>1, <1>2
<1>4. names[i] = names[j] /\ e = m /\ k = n
  BY <1>3 DEF CellOf
<1>5. i = j
  BY <1>4
<1> QED
  BY <1>1, <1>2, <1>4, <1>5

(* Where the value of a tag lies in a payload.                             *)
THEOREM TagPlaced ==
    ASSUME NEW names \in Seq(Bases), TypesKnown(names),
           \A i, j \in 1 .. Len(names) : names[i] = names[j] => i = j,
           NEW t \in [base : Bases, index : Int, brackets : BOOLEAN],
           \E i \in 1 .. Len(names) : names[i] = t.base, IndexInRange(t)
    PROVE  /\ ByteOffset(names, t) \in Nat
           /\ Width(t) = field_scalar_size(Types[t.base])
           /\ \A k \in 1 .. Width(t) :
                 /\ ByteOffset(names, t) + k \in 1 .. PayloadSize(names)
                 /\ RobotCells(names)[ByteOffset(names, t) + k]
                       = CellOf(t.base, IF IsBit(t) THEN 0 ELSE t.index, k)
<1> DEFINE e == IF IsBit(t) THEN 0 ELSE t.index
           w == field_scalar_size(Types[t.base])
<1>1. PICK i \in 1 .. Len(names) : names[i] = t.base
  OBVIOUS
<1>2. FieldOffset(names, t.base) = Before(names)[i]
  <2>1. \A k \in DOMAIN names : names[k] = t.base => k = i
    BY <1>1
  <2>2. i \in DOMAIN names
    OBVIOUS
  <2>3. (CHOOSE k \in DOMAIN names : names[k] = t.base) = i
    BY <1>1, <2>1, <2>2
  <2> QED
    BY <2>3 DEF FieldOffset
<1>3. Types[t.base] \in FieldTypes /\ Before(names)[i] \in Nat /\ w \in Nat
  <2>1. Types[names[i]] \in FieldTypes
    BY DEF TypesKnown
  <2>2. i \in 1 .. Len(names) + 1
    OBVIOUS
  <2>3. Before(names) \in [1 .. Len(names) + 1 -> Nat]
    BY BeforeEquation
  <2>4. Before(names)[i] \in Nat
    BY <2>2, <2>3
  <2>5. w \in Nat
    BY SizeIsNat
  <2> QED
    BY <1>1, <2>1, <2>4, <2>5
<1>4. Width(t) = w
  <2>1. field_scalar_size(field_element_type(Types[t.base])) = w
    BY <1>3, FieldTablesAgree
  <2> QED
    BY <2>1 DEF Width
<1>5. e \in Nat /\ e < field_arity(Types[t.base])
  <2>1. CASE IsBit(t)
    <3>1. Types[t.base] \in {"UINT8", "UINT32", "UINT64"}
      BY <2>1 DEF IsBit
    <3>2. field_arity(Types[t.base]) = 1
      BY <3>1 DEF field_arity
    <3> QED
      BY <2>1, <3>2
  <2>2. CASE ~IsBit(t)
    BY <2>2 DEF IndexInRange
  <2> QED
    BY <2>1, <2>2
<1>6. ByteOffset(names, t) = Before(names)[i] + e * w /\ e * w \in Nat
  <2>1. e * w \in Nat
    BY <1>3, <1>5
  <2>2. CASE IsBit(t)
    <3>1. e * w = 0
      BY <1>3, <2>2
    <3> QED
      BY <1>2, <1>3, <2>2, <3>1 DEF ByteOffset
  <2>3. CASE ~IsBit(t)
    BY <1>2, <2>1, <2>3 DEF ByteOffset
  <2> QED
    BY <2>1, <2>2, <2>3
<1> HIDE DEF e, w
<1>7. ASSUME NEW k \in 1 .. w
      PROVE  /\ ByteOffset(names, t) + k \in 1 .. PayloadSize(names)
             /\ RobotCells(names)[ByteOffset(names, t) + k] = CellOf(t.base, e, k)
  <2>1. k \in Nat /\ w = field_scalar_size(Types[names[i]])
    BY <1>1, <1>3 DEF w
  <2>2. LET p == Before(names)[i] + e * field_scalar_size(Types[names[i]]) + k
        IN p \in 1 .. PayloadSize(names) /\ RobotCells(names)[p] = CellOf(names[i], e, k)
    BY <1>1, <1>5, <1>7, <2>1, CellAt
  <2> QED
    BY <1>1, <1>6, <2>1, <2>2
<1> QED
  BY <1>3, <1>4, <1>6, <1>7 DEF e, w
---------------------------------------------------------------------------
(***************************************************************************)
(* Values in a payload: what is stored for one tag is read back, and what  *)
(* is stored for the others stays.                                         *)
(***************************************************************************)
(* The weights of the bits of a byte.                                      *)
Weights == {1, 2, 4, 8, 16, 32, 64, 128}
(* Each bit of a byte has its own weight.                                  *)
LEMMA PowersOfTwo ==
    ASSUME NEW n \in 0 .. 7
    PROVE  \/ n = 0 /\ 2 ^ n = 1
           \/ n = 1 /\ 2 ^ n = 2
           \/ n = 2 /\ 2 ^ n = 4
           \/ n = 3 /\ 2 ^ n = 8
           \/ n = 4 /\ 2 ^ n = 16
           \/ n = 5 /\ 2 ^ n = 32
           \/ n = 6 /\ 2 ^ n = 64
           \/ n = 7 /\ 2 ^ n = 128
<1>1. n = 0 => 2 ^ n = 1
  BY SMT
<1>2. n = 1 => 2 ^ n = 2
  BY SMT
<1>3. n = 2 => 2 ^ n = 4
  BY SMT
<1>4. n = 3 => 2 ^ n = 8
  BY SMT
<1>5. n = 4 => 2 ^ n = 16
  BY SMT
<1>6. n = 5 => 2 ^ n = 32
  BY SMT
<1>7. n = 6 => 2 ^ n = 64
  BY SMT
<1>8. n = 7 => 2 ^ n = 128
  BY SMT
<1>9. n \in {0, 1, 2, 3, 4, 5, 6, 7}
  OBVIOUS
<1> QED
  BY <1>1, <1>2, <1>3, <1>4, <1>5, <1>6, <1>7, <1>8, <1>9

LEMMA WeightOfBit ==
    ASSUME NEW b \in Nat, NEW c \in Nat
    PROVE  /\ 2 ^ (b % 8) \in Weights
           /\ b % 8 # c % 8 => 2 ^ (b % 8) # 2 ^ (c % 8)
<1> DEFINE m == b % 8
           n == c % 8
<1>1. m \in 0 .. 7 /\ n \in 0 .. 7
  OBVIOUS
<1> HIDE DEF m, n
<1>2. 2 ^ m \in Weights
  BY <1>1, PowersOfTwo DEF Weights
<1>3. 2 ^ m = 2 ^ n => m = n
  <2> DEFINE P(r, s) == \/ r = 0 /\ s = 1
                        \/ r = 1 /\ s = 2
                        \/ r = 2 /\ s = 4
                        \/ r = 3 /\ s = 8
                        \/ r = 4 /\ s = 16
                        \/ r = 5 /\ s = 32
                        \/ r = 6 /\ s = 64
                        \/ r = 7 /\ s = 128
  <2>1. P(m, 2 ^ m) /\ P(n, 2 ^ n)
    BY <1>1, PowersOfTwo
  <2>2. \A r, s, q : P(r, s) /\ P(q, s) => r = q
    OBVIOUS
  <2> HIDE DEF P
  <2> QED
    BY <2>1, <2>2
<1> QED
  BY <1>2, <1>3 DEF m, n

(* A byte, the weight of one of its bits and a value for that bit, and the *)
(* byte that StoreBit makes of them: its other bits are as they were.      *)
CanSet(x, w, v) == x \in 0 .. 255 /\ w \in Weights /\ v \in {0, 1}
WithBit(x, w, v) == x + (v - ((x \div w) % 2)) * w
LEMMA BitOfWeight ==
    ASSUME NEW x, NEW w, NEW v, CanSet(x, w, v)
    PROVE  /\ WithBit(x, w, v) \in 0 .. 255 /\ (WithBit(x, w, v) \div w) % 2 = v
           /\ \A u \in Weights \ {w} : (WithBit(x, w, v) \div u) % 2 = (x \div u) % 2
<1>1. CASE w = 1
  BY <1>1, SMTT(40) DEF CanSet, Weights, WithBit
<1>2. CASE w = 2
  BY <1>2, SMTT(40) DEF CanSet, Weights, WithBit
<1>3. CASE w = 4
  BY <1>3, SMTT(40) DEF CanSet, Weights, WithBit
<1>4. CASE w = 8
  BY <1>4, SMTT(40) DEF CanSet, Weights, WithBit
<1>5. CASE w = 16
  BY <1>5, SMTT(40) DEF CanSet, Weights, WithBit
<1>6. CASE w = 32
  BY <1>6, SMTT(40) DEF CanSet, Weights, WithBit
<1>7. CASE w = 64
  BY <1>7, SMTT(40) DEF CanSet, Weights, WithBit
<1>8. CASE w = 128
  BY <1>8, SMTT(40) DEF CanSet, Weights, WithBit
<1> QED
  BY <1>1, <1>2, <1>3, <1>4, <1>5, <1>6, <1>7, <1>8 DEF CanSet, Weights

(* The byte, counted from a tag's offset, that its value lies in, and the  *)
(* value of a tag of which a payload has the bytes from an offset on.      *)
ValueByte(t) == IF IsBit(t) THEN Width(t) - (t.index \div 8) ELSE Width(t)
ValueAt(payload, from, t) == IF IsBit(t) THEN BitOf(payload[from + ValueByte(t)], t.index)
                                         ELSE payload[from + ValueByte(t)]
StoredAt(payload, from, t, v) == IF IsBit(t) THEN StoreBit(payload, from, Width(t), t.index, v)
                                             ELSE StoreNumber(payload, from, Width(t), v)

(* That byte is one of the tag's, and the one that StoreBit changes.       *)
LEMMA ValueByteFacts ==
    ASSUME NEW t \in [base : Bases, index : Int, brackets : BOOLEAN],
           Types[t.base] \in FieldTypes, IndexInRange(t)
    PROVE  /\ Width(t) \in Nat /\ ValueByte(t) \in 1 .. Width(t)
           /\ IsBit(t) => t.index \in Nat
           /\ \A from \in Nat : IsBit(t) =>
                 BitByte(from, Width(t), t.index) = from + ValueByte(t)
<1> DEFINE ft == Types[t.base]
           w == field_scalar_size(ft)
<1>1. w \in Nat \ {0}
  BY DEF field_scalar_size, FieldTypes
<1>2. Width(t) = w
  BY FieldTablesAgree DEF Width
<1>3. IsBit(t) => t.index \in Nat /\ t.index < 8 * w
  BY DEF IndexInRange
<1> HIDE DEF w
<1>4. IsBit(t) => t.index \in Nat /\ t.index \div 8 \in 0 .. w - 1
  BY <1>1, <1>3
<1>5. Width(t) \in Nat /\ ValueByte(t) \in 1 .. Width(t)
  BY <1>1, <1>2, <1>4 DEF ValueByte
<1>6. \A from \in Nat : IsBit(t) => BitByte(from, Width(t), t.index) = from + ValueByte(t)
  BY <1>1, <1>2, <1>4 DEF ValueByte, BitByte
<1> QED
  BY <1>4, <1>5, <1>6

(* A payload p of n bytes, with a tag at an offset, and a value for it.    *)
CanStore(n, p, from, t, v) ==
    /\ n \in Nat /\ p \in [1 .. n -> 0 .. 255]
    /\ t \in [base : Bases, index : Int, brackets : BOOLEAN]
    /\ Types[t.base] \in FieldTypes /\ IndexInRange(t)
    /\ from \in Nat /\ from + Width(t) <= n
    /\ v \in 0 .. 255 /\ (IsBit(t) => v \in {0, 1})

(* A number or a bit that is stored is what is read there, and leaves the  *)
(* other bytes and the other bits of its byte as they were.                *)
LEMMA StoredFacts ==
    ASSUME NEW n, NEW p, NEW from, NEW t, NEW v, CanStore(n, p, from, t, v)
    PROVE  LET q == StoredAt(p, from, t, v)
           IN /\ q \in [1 .. n -> 0 .. 255]
              /\ ValueAt(q, from, t) = v
              /\ \A k \in 1 .. n : k \notin from + 1 .. from + Width(t) => q[k] = p[k]
              /\ IsBit(t) => \A k \in 1 .. n, c \in Nat :
                    k # from + ValueByte(t) \/ c % 8 # t.index % 8 => BitOf(q[k], c) = BitOf(p[k], c)
<1> DEFINE q == StoredAt(p, from, t, v)
           at == from + ValueByte(t)
           w == Width(t)
<1>0. /\ n \in Nat /\ p \in [1 .. n -> 0 .. 255]
      /\ t \in [base : Bases, index : Int, brackets : BOOLEAN]
      /\ Types[t.base] \in FieldTypes /\ IndexInRange(t)
      /\ from \in Nat /\ from + w <= n
      /\ v \in 0 .. 255 /\ (IsBit(t) => v \in {0, 1})
  BY DEF CanStore
<1>1. w \in Nat /\ at \in from + 1 .. from + w /\ at \in 1 .. n
  BY <1>0, ValueByteFacts
<1>2. CASE IsBit(t)
  <2> DEFINE weight == 2 ^ (t.index % 8)
             y == p[at] + (v - BitOf(p[at], t.index)) * weight
  <2>1. t.index \in Nat /\ BitByte(from, w, t.index) = at
    BY <1>0, <1>2, ValueByteFacts
  <2>2. q = [p EXCEPT ![at] = y]
    BY <1>2, <2>1 DEF StoredAt, StoreBit
  <2>3. weight \in Weights /\ p[at] \in 0 .. 255 /\ v \in {0, 1}
    BY <1>0, <1>1, <1>2, <2>1, WeightOfBit
  <2>4. /\ y \in 0 .. 255
        /\ BitOf(y, t.index) = v
        /\ \A u \in Weights \ {weight} : (y \div u) % 2 = (p[at] \div u) % 2
    <3> DEFINE x == p[at]
    <3>1. y = WithBit(x, weight, v) /\ BitOf(y, t.index) = (y \div weight) % 2
      <4>1. \A b : BitOf(b, t.index) = (b \div weight) % 2
        BY DEF BitOf
      <4>2. BitOf(x, t.index) = (x \div weight) % 2 /\ BitOf(y, t.index) = (y \div weight) % 2
        BY <4>1
      <4>3. y = x + (v - BitOf(x, t.index)) * weight
        OBVIOUS
      <4> HIDE DEF weight, x, y
      <4>4. y = x + (v - ((x \div weight) % 2)) * weight
        BY <4>2, <4>3
      <4> QED
        BY <4>2, <4>4 DEF WithBit
    <3>2. CanSet(x, weight, v)
      BY <2>3 DEF CanSet
    <3> HIDE DEF weight, y, x
    <3>3. /\ WithBit(x, weight, v) \in 0 .. 255 /\ (WithBit(x, weight, v) \div weight) % 2 = v
          /\ \A u \in Weights \ {weight} : (WithBit(x, weight, v) \div u) % 2 = (x \div u) % 2
      BY <3>2, BitOfWeight
    <3> QED
      BY <3>1, <3>3 DEF x
  <2>5. ASSUME NEW c \in Nat, c % 8 # t.index % 8 PROVE BitOf(y, c) = BitOf(p[at], c)
    <3>1. 2 ^ (c % 8) \in Weights \ {weight}
      BY <2>1, <2>5, WeightOfBit
    <3> HIDE DEF weight, y
    <3> QED
      BY <2>4, <3>1 DEF BitOf
  <2> HIDE DEF y, at, q
  <2>6. q \in [1 .. n -> 0 .. 255] /\ q[at] = y /\ \A k \in 1 .. n : k # at => q[k] = p[k]
    BY <1>0, <1>1, <2>2, <2>4
  <2>7. ValueAt(q, from, t) = v
    BY <1>2, <2>4, <2>6 DEF ValueAt, at
  <2>8. \A k \in 1 .. n, c \in Nat :
            k # at \/ c % 8 # t.index % 8 => BitOf(q[k], c) = BitOf(p[k], c)
    BY <1>0, <1>1, <2>5, <2>6
  <2>9. \A k \in 1 .. n : k \notin from + 1 .. from + w => q[k] = p[k]
    BY <1>0, <1>1, <2>6
  <2> QED
    BY <2>6, <2>7, <2>8, <2>9 DEF q, at
<1>3. CASE ~IsBit(t)
  <2>1. q = [k \in 1 .. n |-> IF k \in from + 1 .. from + w
                                 THEN IF k = from + w THEN v ELSE 0 ELSE p[k]]
    BY <1>0, <1>3 DEF StoredAt, StoreNumber
  <2>2. at = from + w /\ ValueAt(q, from, t) = q[at]
    BY <1>3 DEF ValueAt, ValueByte
  <2> HIDE DEF q, at, w
  <2>3. q \in [1 .. n -> 0 .. 255] /\ \A k \in 1 .. n : k \notin from + 1 .. from + w => q[k] = p[k]
    <3>1. n \in Nat /\ p \in [1 .. n -> 0 .. 255] /\ v \in 0 .. 255 /\ 0 \in 0 .. 255
      BY <1>0
    <3> QED
      BY <2>1, <3>1
  <2>4. q[at] = v
    BY <1>0, <1>1, <2>1, <2>2
  <2> QED
    BY <1>3, <2>2, <2>3, <2>4 DEF q, w
<1> QED
  BY <1>2, <1>3
=============================================================================
