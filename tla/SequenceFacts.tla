---------------------------- MODULE SequenceFacts ----------------------------
(***************************************************************************)
(* Facts about sequences of every length that the proofs about reports and *)
(* completion events rest on.  The induction theorems of the library take  *)
(* an operator as a parameter; here the induction is over a set of         *)
(* naturals, which exists because a non-empty set of naturals has a least  *)
(* element.                                                                *)
(***************************************************************************)
EXTENDS Integers, Sequences, SequencesExt, SequenceTheorems, WellFoundedInduction, TLAPS

\* Every non-empty set of naturals has a least element.
LEMMA LeastNatural ==
  ASSUME NEW T \in SUBSET Nat, T # {}
  PROVE  \E x \in T : \A y \in T : x <= y
<1> DEFINE R == OpToRel(<, Nat)
<1>1. IsWellFoundedOn(R, Nat)
  BY NatLessThanWellFounded
<1>2. R = {p \in Nat \X Nat : p[1] < p[2]}
  BY DEF OpToRel
<1> HIDE DEF R
<1>3. PICK x \in T : \A y \in T : <<y, x>> \notin R
  BY <1>1, WFMin
<1>4. ASSUME NEW y \in T PROVE x <= y
  <2>1. x \in Nat /\ y \in Nat
    OBVIOUS
  <2>2. <<y, x>> \notin {p \in Nat \X Nat : p[1] < p[2]}
    BY <1>2, <1>3
  <2> QED BY <2>1, <2>2
<1> QED BY <1>4

\* Induction: a set of naturals with zero and every successor is all of them.
LEMMA Induction ==
  ASSUME NEW S \in SUBSET Nat, 0 \in S, \A n \in S : n + 1 \in S
  PROVE  S = Nat
<1> DEFINE T == Nat \ S
<1>1. SUFFICES ASSUME T # {} PROVE FALSE
  OBVIOUS
<1>2. T \in SUBSET Nat
  OBVIOUS
<1> HIDE DEF T
<1>3. PICK x \in T : \A y \in T : x <= y
  BY <1>1, <1>2, LeastNatural
<1>4. x \in Nat /\ x # 0 /\ x - 1 \in Nat
  BY <1>2 DEF T
<1>5. x - 1 \in S
  BY <1>3, <1>4 DEF T
<1>6. (x - 1) + 1 \in S
  BY <1>5
<1> QED BY <1>4, <1>6 DEF T

\* Induction over sequences: a set of sequences with the empty one and, with
\* each of them, every sequence one longer, is all of them.
LEMMA SequenceInduction ==
  ASSUME NEW A, NEW T \in SUBSET Seq(A), <<>> \in T,
         \A s \in T, x \in A : Append(s, x) \in T
  PROVE  T = Seq(A)
<1> DEFINE D == {n \in Nat : \A s \in Seq(A) : Len(s) = n => s \in T}
<1>1. 0 \in D
  BY EmptySeq
<1>2. ASSUME NEW n \in D PROVE n + 1 \in D
  <2>1. n \in Nat /\ n + 1 \in Nat
    OBVIOUS
  <2>2. ASSUME NEW s \in Seq(A), Len(s) = n + 1 PROVE s \in T
    <3>1. s # <<>>
      BY <2>1, <2>2, EmptySeq
    <3>2. PICK u \in Seq(A), x \in A : s = Append(u, x)
      BY <3>1, SequenceEmptyOrAppend
    <3>3. Len(u) = n
      BY <2>1, <2>2, <3>2, AppendProperties, LenProperties
    <3>4. u \in T
      BY <3>3
    <3> QED BY <3>2, <3>4
  <2> QED BY <2>1, <2>2
<1>3. D = Nat
  <2> HIDE DEF D
  <2>1. D \in SUBSET Nat
    BY DEF D
  <2> QED BY <1>1, <1>2, <2>1, Induction
<1>4. ASSUME NEW s \in Seq(A) PROVE s \in T
  <2>1. Len(s) \in D
    BY <1>3, LenProperties
  <2> QED BY <2>1
<1> QED BY <1>4

-------------------------------------------------------------------------------
(***************************************************************************)
(* FlattenSeq.  Its recursive function exists and is what one expects.     *)
(***************************************************************************)

Flattens(F, s) == F = [i \in 1..Len(s) |-> IF i = 1 THEN s[i] ELSE F[i - 1] \o s[i]]

\* There is a function that joins the first elements of a sequence of
\* sequences one by one.
LEMMA FlattensExists ==
  ASSUME NEW S, NEW s \in Seq(Seq(S))
  PROVE  \E F \in [1..Len(s) -> Seq(S)] : Flattens(F, s)
<1> DEFINE Upto(n, F) == /\ F \in [1..n -> Seq(S)]
                         /\ \A i \in 1..n : F[i] = IF i = 1 THEN s[i] ELSE F[i - 1] \o s[i]
           D == {n \in Nat : n <= Len(s) => \E F : Upto(n, F)}
<1>1. 0 \in D
  <2> DEFINE E == [i \in 1..0 |-> <<>>]
  <2>1. 1..0 = {}
    OBVIOUS
  <2>2. E \in [1..0 -> Seq(S)]
    BY <2>1
  <2>3. Upto(0, E)
    BY <2>1, <2>2
  <2> QED BY <2>3
<1> HIDE DEF Upto
<1>2. ASSUME NEW n \in D PROVE n + 1 \in D
  <2>0. n \in Nat /\ Len(s) \in Nat
    BY LenProperties
  <2>1. SUFFICES ASSUME n + 1 <= Len(s) PROVE \E F : Upto(n + 1, F)
    BY <2>0
  <2>2. PICK F : Upto(n, F)
    BY <2>0, <2>1
  <2> DEFINE v == IF n = 0 THEN s[1] ELSE F[n] \o s[n + 1]
             G == [i \in 1..(n + 1) |-> IF i = n + 1 THEN v ELSE F[i]]
  <2>3. n \in Nat /\ s[n + 1] \in Seq(S)
    BY <2>1
  <2>4. v \in Seq(S)
    <3>1. CASE n = 0
      BY <3>1, <2>3
    <3>2. CASE n # 0
      <4>1. F[n] \in Seq(S)
        BY <2>2, <2>3, <3>2 DEF Upto
      <4> QED BY <4>1, <2>3, <3>2, ConcatProperties
    <3> QED BY <3>1, <3>2
  <2>5. \A i \in 1..(n + 1) : i # n + 1 => i \in 1..n
    BY <2>3
  <2>6. G \in [1..(n + 1) -> Seq(S)]
    BY <2>2, <2>3, <2>4, <2>5 DEF Upto
  <2>7. ASSUME NEW i \in 1..(n + 1) PROVE G[i] = IF i = 1 THEN s[i] ELSE G[i - 1] \o s[i]
    <3>1. CASE i = n + 1
      <4>1. i # 1 => n # 0 /\ i - 1 = n /\ n \in 1..(n + 1) /\ n # n + 1
        BY <2>3, <3>1
      <4> QED BY <4>1, <3>1
    <3>2. CASE i # n + 1
      <4>1. i \in 1..n /\ (i # 1 => i - 1 \in 1..(n + 1) /\ i - 1 # n + 1)
        BY <2>3, <3>2
      <4>2. F[i] = IF i = 1 THEN s[i] ELSE F[i - 1] \o s[i]
        BY <2>2, <4>1 DEF Upto
      <4> QED BY <3>2, <4>1, <4>2
    <3> QED BY <3>1, <3>2
  <2>8. Upto(n + 1, G)
    BY <2>6, <2>7 DEF Upto
  <2> QED BY <2>8
<1>3. Len(s) \in D
  <2> HIDE DEF D
  <2>1. D \in SUBSET Nat
    BY DEF D
  <2>2. D = Nat
    BY <1>1, <1>2, <2>1, Induction
  <2> QED BY <2>2, LenProperties
<1>4. PICK F : Upto(Len(s), F)
  BY <1>3, LenProperties
<1>5. F = [i \in 1..Len(s) |-> IF i = 1 THEN s[i] ELSE F[i - 1] \o s[i]]
  BY <1>4 DEF Upto
<1> QED BY <1>4, <1>5 DEF Flattens, Upto

\* Two such functions agree as far as their sequences do.
LEMMA FlattensAgree ==
  ASSUME NEW s, NEW t, NEW F, NEW G, NEW m \in Nat, m <= Len(s), m <= Len(t),
         Len(s) \in Nat, Len(t) \in Nat,
         Flattens(F, s), Flattens(G, t), \A i \in 1..m : s[i] = t[i]
  PROVE  \A i \in 1..m : F[i] = G[i]
<1> DEFINE D == {n \in Nat : n \in 1..m => F[n] = G[n]}
<1>1. 0 \in D
  OBVIOUS
<1>2. ASSUME NEW n \in D PROVE n + 1 \in D
  <2>1. SUFFICES ASSUME n + 1 \in 1..m PROVE F[n + 1] = G[n + 1]
    OBVIOUS
  <2>2. n \in Nat /\ n + 1 \in 1..Len(s) /\ n + 1 \in 1..Len(t) /\ s[n + 1] = t[n + 1]
    BY <2>1
  <2>3. /\ F[n + 1] = IF n + 1 = 1 THEN s[n + 1] ELSE F[(n + 1) - 1] \o s[n + 1]
        /\ G[n + 1] = IF n + 1 = 1 THEN t[n + 1] ELSE G[(n + 1) - 1] \o t[n + 1]
    BY <2>2 DEF Flattens
  <2>4. CASE n = 0
    BY <2>2, <2>3, <2>4
  <2>5. CASE n # 0
    <3>1. (n + 1) - 1 = n /\ n \in 1..m /\ n + 1 # 1
      BY <2>1, <2>2, <2>5
    <3>2. F[n] = G[n]
      BY <3>1
    <3> QED BY <2>2, <2>3, <3>1, <3>2
  <2> QED BY <2>4, <2>5
<1>3. D = Nat
  <2> HIDE DEF D
  <2>1. D \in SUBSET Nat
    BY DEF D
  <2> QED BY <1>1, <1>2, <2>1, Induction
<1> QED BY <1>3

LEMMA FlattenUnfold ==
  ASSUME NEW S, NEW s \in Seq(Seq(S)), s # <<>>
  PROVE  \E F \in [1..Len(s) -> Seq(S)] : Flattens(F, s) /\ FlattenSeq(s) = F[Len(s)]
<1>1. Len(s) \in Nat /\ Len(s) # 0
  BY EmptySeq, LenProperties
<1>2. PICK E \in [1..Len(s) -> Seq(S)] : Flattens(E, s)
  BY FlattensExists
<1>3. \E F : Flattens(F, s) /\ FlattenSeq(s) = F[Len(s)]
  BY <1>1, <1>2 DEF Flattens, FlattenSeq
<1>4. PICK F : Flattens(F, s) /\ FlattenSeq(s) = F[Len(s)]
  BY <1>3
<1>5. \A i \in 1..Len(s) : F[i] = E[i]
  BY <1>1, <1>2, <1>4, FlattensAgree
<1>6. F \in [1..Len(s) -> Seq(S)]
  BY <1>2, <1>4, <1>5 DEF Flattens
<1> QED BY <1>4, <1>6

\* FlattenSeq joins: nothing for no sequence, and one more at the end for one
\* more sequence.
LEMMA FlattenEmpty == FlattenSeq(<<>>) = <<>>
BY DEF FlattenSeq

LEMMA FlattenType ==
  ASSUME NEW S, NEW s \in Seq(Seq(S))
  PROVE  FlattenSeq(s) \in Seq(S)
<1>1. CASE s = <<>>
  BY <1>1, FlattenEmpty, EmptySeq
<1>2. CASE s # <<>>
  <2>1. PICK F \in [1..Len(s) -> Seq(S)] : FlattenSeq(s) = F[Len(s)]
    BY <1>2, FlattenUnfold
  <2>2. Len(s) \in 1..Len(s)
    BY <1>2, EmptySeq, LenProperties
  <2> QED BY <2>1, <2>2
<1> QED BY <1>1, <1>2

LEMMA FlattenAppend ==
  ASSUME NEW S, NEW s \in Seq(Seq(S)), NEW x \in Seq(S)
  PROVE  FlattenSeq(Append(s, x)) = FlattenSeq(s) \o x
<1> DEFINE t == Append(s, x)
<1>1. /\ t \in Seq(Seq(S)) /\ t # <<>> /\ Len(t) = Len(s) + 1 /\ t[Len(s) + 1] = x
      /\ Len(s) \in Nat /\ \A i \in 1..Len(s) : t[i] = s[i]
  BY AppendProperties, LenProperties
<1> HIDE DEF t
<1>2. PICK G \in [1..Len(t) -> Seq(S)] : Flattens(G, t) /\ FlattenSeq(t) = G[Len(t)]
  BY <1>1, FlattenUnfold
<1>a. Len(t) \in 1..Len(t) /\ Len(t) \in Nat
  BY <1>1
<1>3. G[Len(t)] = IF Len(t) = 1 THEN t[Len(t)] ELSE G[Len(t) - 1] \o t[Len(t)]
  BY <1>a, <1>2 DEF Flattens
<1>4. CASE s = <<>>
  <2>1. Len(s) = 0
    BY <1>4
  <2>2. FlattenSeq(t) = x
    BY <1>1, <1>2, <1>3, <2>1
  <2> QED BY <1>4, <2>2, FlattenEmpty, ConcatEmptySeq DEF t
<1>5. CASE s # <<>>
  <2>1. PICK F \in [1..Len(s) -> Seq(S)] : Flattens(F, s) /\ FlattenSeq(s) = F[Len(s)]
    BY <1>5, FlattenUnfold
  <2>2. Len(s) \in 1..Len(s) /\ Len(t) - 1 = Len(s) /\ Len(t) # 1
    BY <1>1, <1>5, EmptySeq
  <2>3. \A i \in 1..Len(s) : F[i] = G[i]
    <3>1. Len(s) <= Len(s) /\ Len(s) <= Len(t) /\ \A i \in 1..Len(s) : s[i] = t[i]
      BY <1>1
    <3>2. Len(s) \in Nat /\ Len(t) \in Nat /\ Flattens(F, s) /\ Flattens(G, t)
      BY <1>1, <1>a, <1>2, <2>1
    <3> QED BY ONLY <3>1, <3>2, FlattensAgree
  <2> QED BY <1>1, <1>2, <1>3, <2>1, <2>2, <2>3 DEF t
<1> QED BY <1>4, <1>5

\* What is in the joined sequence is in one of its parts.
LEMMA FlattenElements ==
  ASSUME NEW S, NEW s \in Seq(Seq(S)), NEW k \in 1..Len(FlattenSeq(s))
  PROVE  \E i \in 1..Len(s) : \E j \in 1..Len(s[i]) : FlattenSeq(s)[k] = s[i][j]
<1> DEFINE From(u) == \A n \in 1..Len(FlattenSeq(u)) :
                        \E i \in 1..Len(u) : \E j \in 1..Len(u[i]) : FlattenSeq(u)[n] = u[i][j]
           T == {u \in Seq(Seq(S)) : From(u)}
<1>1. <<>> \in T
  <2>1. 1..Len(FlattenSeq(<<>>)) = {}
    BY FlattenEmpty
  <2> QED BY <2>1, EmptySeq
<1>2. ASSUME NEW u \in T, NEW x \in Seq(S) PROVE Append(u, x) \in T
  <2> DEFINE v == Append(u, x)
  <2>1. u \in Seq(Seq(S)) /\ FlattenSeq(u) \in Seq(S) /\ From(u)
    BY FlattenType
  <2>2. /\ v \in Seq(Seq(S)) /\ Len(v) = Len(u) + 1 /\ v[Len(u) + 1] = x
        /\ Len(u) \in Nat /\ \A i \in 1..Len(u) : v[i] = u[i]
    BY <2>1, AppendProperties, LenProperties
  <2>3. FlattenSeq(v) = FlattenSeq(u) \o x
    BY <2>1, FlattenAppend
  <2> HIDE DEF v
  <2>4. ASSUME NEW n \in 1..Len(FlattenSeq(v))
        PROVE  \E i \in 1..Len(v) : \E j \in 1..Len(v[i]) : FlattenSeq(v)[n] = v[i][j]
    <3> DEFINE m == Len(FlattenSeq(u))
    <3>1. m \in Nat /\ Len(x) \in Nat /\ Len(FlattenSeq(v)) = m + Len(x)
      BY <2>1, <2>3, ConcatProperties, LenProperties
    <3>2. CASE n <= m
      <4>1. n \in 1..m
        BY <3>1, <3>2
      <4>2. FlattenSeq(v)[n] = FlattenSeq(u)[n]
        BY <2>1, <2>3, <4>1
      <4>3. PICK i \in 1..Len(u) : \E j \in 1..Len(u[i]) : FlattenSeq(u)[n] = u[i][j]
        BY <2>1, <4>1
      <4>4. i \in 1..Len(v) /\ v[i] = u[i]
        BY <2>2
      <4> QED BY <4>2, <4>3, <4>4
    <3>3. CASE n > m
      <4>1. n - m \in 1..Len(x)
        BY <3>1, <3>3
      <4>2. FlattenSeq(v)[n] = x[n - m]
        BY <2>1, <2>3, <3>1, <3>3
      <4>3. Len(u) + 1 \in 1..Len(v)
        BY <2>2
      <4> QED BY <2>2, <4>1, <4>2, <4>3
    <3> QED BY <3>1, <3>2, <3>3
  <2> QED BY <2>2, <2>4 DEF v
<1>3. T = Seq(Seq(S))
  <2> HIDE DEF T
  <2>1. T \in SUBSET Seq(Seq(S))
    BY DEF T
  <2> QED BY <1>1, <1>2, <2>1, SequenceInduction
<1>4. From(s)
  BY <1>3
<1> QED BY <1>4

\* No two elements of the sequence, or of the parts of one, are in relation R.
AllApart(s, R) == \A m, n \in 1..Len(s) : <<s[m], s[n]>> \in R => m = n
PartsApart(s, R) ==
  \A i, j \in 1..Len(s) : \A k \in 1..Len(s[i]), l \in 1..Len(s[j]) :
    <<s[i][k], s[j][l]>> \in R => i = j /\ k = l

\* What is apart in and between the parts is apart in the joined sequence.
LEMMA FlattenApart ==
  ASSUME NEW S, NEW R, NEW s \in Seq(Seq(S)), PartsApart(s, R)
  PROVE  AllApart(FlattenSeq(s), R)
<1> DEFINE T == {u \in Seq(Seq(S)) : PartsApart(u, R) => AllApart(FlattenSeq(u), R)}
<1>1. <<>> \in T
  <2>1. 1..Len(FlattenSeq(<<>>)) = {}
    BY FlattenEmpty
  <2> QED BY <2>1, EmptySeq DEF AllApart
<1>2. ASSUME NEW u \in T, NEW x \in Seq(S) PROVE Append(u, x) \in T
  <2> DEFINE v == Append(u, x)
             m == Len(FlattenSeq(u))
             n == Len(u) + 1
  <2>1. u \in Seq(Seq(S)) /\ FlattenSeq(u) \in Seq(S) /\ (PartsApart(u, R) => AllApart(FlattenSeq(u), R))
    BY FlattenType
  <2>2. /\ v \in Seq(Seq(S)) /\ Len(v) = n /\ v[n] = x
        /\ Len(u) \in Nat /\ \A i \in 1..Len(u) : v[i] = u[i]
    BY <2>1, AppendProperties, LenProperties
  <2>3. FlattenSeq(v) = FlattenSeq(u) \o x
    BY <2>1, FlattenAppend
  <2> HIDE DEF v, m, n
  <2>4. m \in Nat /\ Len(x) \in Nat /\ Len(FlattenSeq(v)) = m + Len(x)
    BY <2>1, <2>3, ConcatProperties, LenProperties DEF m
  <2>5. \A i \in 1..(m + Len(x)) : FlattenSeq(v)[i] = IF i <= m THEN FlattenSeq(u)[i] ELSE x[i - m]
    BY <2>1, <2>3, ConcatProperties DEF m
  <2>6. n \in 1..Len(v) /\ \A i \in 1..Len(u) : i \in 1..Len(v) /\ i # n
    <3>1. Len(u) \in Nat /\ n = Len(u) + 1 /\ Len(v) = n
      BY <2>2 DEF n
    <3> QED BY ONLY <3>1
  <2>7. ASSUME PartsApart(v, R) PROVE AllApart(FlattenSeq(v), R)
    <3>1. PartsApart(u, R)
      <4>1. \A i \in 1..Len(u) : i \in 1..Len(v) /\ v[i] = u[i]
        BY <2>2, <2>6
      <4>2. SUFFICES ASSUME NEW i \in 1..Len(u), NEW j \in 1..Len(u),
                            NEW k \in 1..Len(u[i]), NEW l \in 1..Len(u[j]), <<u[i][k], u[j][l]>> \in R
                     PROVE  i = j /\ k = l
        BY DEF PartsApart
      <4>3. i \in 1..Len(v) /\ j \in 1..Len(v) /\ v[i] = u[i] /\ v[j] = u[j]
        BY <4>1
      <4> QED BY ONLY <2>7, <4>2, <4>3 DEF PartsApart
    <3>2. \A a, b \in 1..m : <<FlattenSeq(u)[a], FlattenSeq(u)[b]>> \in R => a = b
      BY <2>1, <3>1 DEF AllApart, m
    <3>3. \A a, b \in 1..Len(x) : <<x[a], x[b]>> \in R => a = b
      <4>1. n \in 1..Len(v) /\ v[n] = x
        BY <2>2, <2>6
      <4> QED BY ONLY <2>7, <4>1 DEF PartsApart
    <3>4. ASSUME NEW a \in 1..m, NEW b \in 1..Len(x)
          PROVE  <<FlattenSeq(u)[a], x[b]>> \notin R /\ <<x[b], FlattenSeq(u)[a]>> \notin R
      <4>1. PICK i \in 1..Len(u) : \E j \in 1..Len(u[i]) : FlattenSeq(u)[a] = u[i][j]
        BY <2>1, FlattenElements DEF m
      <4>2. PICK j \in 1..Len(u[i]) : FlattenSeq(u)[a] = u[i][j]
        BY <4>1
      <4>3. i \in 1..Len(v) /\ n \in 1..Len(v) /\ i # n /\ j \in 1..Len(v[i]) /\ b \in 1..Len(v[n])
        BY <2>2, <2>6, <4>2
      <4>4. <<v[i][j], v[n][b]>> \notin R /\ <<v[n][b], v[i][j]>> \notin R
        BY ONLY <2>7, <4>3 DEF PartsApart
      <4> QED BY <2>2, <4>2, <4>4
    <3>5. ASSUME NEW a \in 1..(m + Len(x)), NEW b \in 1..(m + Len(x)), <<FlattenSeq(v)[a], FlattenSeq(v)[b]>> \in R
          PROVE  a = b
      <4>1. CASE a <= m /\ b <= m
        <5>1. a \in 1..m /\ b \in 1..m
          BY <2>4, <4>1
        <5>2. FlattenSeq(v)[a] = FlattenSeq(u)[a] /\ FlattenSeq(v)[b] = FlattenSeq(u)[b]
          BY <2>5, <4>1
        <5> QED BY <3>2, <3>5, <5>1, <5>2
      <4>2. CASE a <= m /\ ~(b <= m)
        <5>1. a \in 1..m /\ b - m \in 1..Len(x)
          BY <2>4, <4>2
        <5> QED BY <2>5, <3>4, <3>5, <4>2, <5>1
      <4>3. CASE ~(a <= m) /\ b <= m
        <5>1. b \in 1..m /\ a - m \in 1..Len(x)
          BY <2>4, <4>3
        <5> QED BY <2>5, <3>4, <3>5, <4>3, <5>1
      <4>4. CASE ~(a <= m) /\ ~(b <= m)
        <5>1. a - m \in 1..Len(x) /\ b - m \in 1..Len(x)
          BY <2>4, <4>4
        <5>2. a - m = b - m
          BY <2>5, <3>3, <3>5, <4>4, <5>1
        <5> QED BY <2>4, <5>2
      <4> QED BY <4>1, <4>2, <4>3, <4>4
    <3> QED BY <2>4, <3>5 DEF AllApart
  <2> QED BY <2>2, <2>7 DEF v
<1>3. T = Seq(Seq(S))
  <2> HIDE DEF T
  <2>1. T \in SUBSET Seq(Seq(S))
    BY DEF T
  <2> QED BY <1>1, <1>2, <2>1, SequenceInduction
<1> QED BY <1>3

\* No element occurs twice in the sequence, or in the parts of one.
NoRepeat(s) == \A m, n \in 1..Len(s) : s[m] = s[n] => m = n
Apart(s) ==
  \A i, j \in 1..Len(s) : \A k \in 1..Len(s[i]), l \in 1..Len(s[j]) :
    s[i][k] = s[j][l] => i = j /\ k = l

LEMMA FlattenDistinct ==
  ASSUME NEW S, NEW s \in Seq(Seq(S)), Apart(s)
  PROVE  NoRepeat(FlattenSeq(s))
<1> DEFINE R == {<<x, x>> : x \in S}
           F == FlattenSeq(s)
<1>1. \A x \in S, y \in S : <<x, y>> \in R <=> x = y
  OBVIOUS
<1> HIDE DEF R
<1>2. \A i \in 1..Len(s) : \A k \in 1..Len(s[i]) : s[i][k] \in S
  OBVIOUS
<1>3. PartsApart(s, R)
  BY <1>1, <1>2 DEF PartsApart, Apart
<1>4. AllApart(F, R) /\ F \in Seq(S)
  BY <1>3, FlattenApart, FlattenType
<1> HIDE DEF F
<1>5. \A k \in 1..Len(F) : F[k] \in S
  BY <1>4
<1>6. NoRepeat(F)
  BY <1>1, <1>4, <1>5 DEF AllApart, NoRepeat
<1> QED BY <1>6 DEF F

\* What is in one of the parts is in the joined sequence.
LEMMA FlattenHolds ==
  ASSUME NEW S, NEW s \in Seq(Seq(S)), NEW i \in 1..Len(s), NEW j \in 1..Len(s[i])
  PROVE  \E k \in 1..Len(FlattenSeq(s)) : FlattenSeq(s)[k] = s[i][j]
<1> DEFINE Holds(u) == \A a \in 1..Len(u) : \A b \in 1..Len(u[a]) :
                         \E k \in 1..Len(FlattenSeq(u)) : FlattenSeq(u)[k] = u[a][b]
           T == {u \in Seq(Seq(S)) : Holds(u)}
<1>1. <<>> \in T
  <2>1. 1..Len(<<>>) = {}
    OBVIOUS
  <2> QED BY <2>1, EmptySeq
<1>2. ASSUME NEW u \in T, NEW x \in Seq(S) PROVE Append(u, x) \in T
  <2> DEFINE v == Append(u, x)
             m == Len(FlattenSeq(u))
  <2>1. u \in Seq(Seq(S)) /\ FlattenSeq(u) \in Seq(S) /\ Holds(u)
    BY FlattenType
  <2>2. /\ v \in Seq(Seq(S)) /\ Len(v) = Len(u) + 1 /\ v[Len(u) + 1] = x
        /\ Len(u) \in Nat /\ \A a \in 1..Len(u) : v[a] = u[a]
    BY <2>1, AppendProperties, LenProperties
  <2>3. FlattenSeq(v) = FlattenSeq(u) \o x
    BY <2>1, FlattenAppend
  <2> HIDE DEF v, m
  <2>4. /\ m \in Nat /\ Len(x) \in Nat /\ Len(FlattenSeq(v)) = m + Len(x)
        /\ \A k \in 1..(m + Len(x)) : FlattenSeq(v)[k] = IF k <= m THEN FlattenSeq(u)[k] ELSE x[k - m]
    BY <2>1, <2>3, ConcatProperties, LenProperties DEF m
  <2>5. ASSUME NEW a \in 1..Len(v), NEW b \in 1..Len(v[a])
        PROVE  \E k \in 1..Len(FlattenSeq(v)) : FlattenSeq(v)[k] = v[a][b]
    <3>1. CASE a \in 1..Len(u)
      <4>1. b \in 1..Len(u[a]) /\ v[a] = u[a]
        BY <2>2, <3>1
      <4>2. PICK k \in 1..m : FlattenSeq(u)[k] = u[a][b]
        BY <2>1, <3>1, <4>1 DEF m
      <4>3. k \in 1..(m + Len(x)) /\ k <= m
        BY <2>4
      <4> QED BY <2>4, <4>1, <4>2, <4>3
    <3>2. CASE a = Len(u) + 1
      <4>1. b \in 1..Len(x) /\ v[a] = x
        BY <2>2, <3>2
      <4>2. m + b \in 1..(m + Len(x)) /\ ~(m + b <= m) /\ (m + b) - m = b
        BY <2>4, <4>1
      <4> QED BY <2>4, <4>1, <4>2
    <3> QED BY <2>2, <3>1, <3>2
  <2> QED BY <2>2, <2>5 DEF v
<1>3. T = Seq(Seq(S))
  <2> HIDE DEF T
  <2>1. T \in SUBSET Seq(Seq(S))
    BY DEF T
  <2> QED BY <1>1, <1>2, <2>1, SequenceInduction
<1>4. Holds(s)
  BY <1>3
<1> QED BY <1>4

\* The joined parts of a sequence indexed like another one.
LEMMA FlattenOver ==
  ASSUME NEW S, NEW A, NEW r \in Seq(A), NEW s, s = [i \in DOMAIN r |-> s[i]],
         \A i \in DOMAIN r : s[i] \in Seq(S)
  PROVE  s \in Seq(Seq(S)) /\ Len(s) = Len(r) /\ FlattenSeq(s) \in Seq(S)
<1>1. DOMAIN r = 1..Len(r) /\ Len(r) \in Nat
  BY LenProperties
<1>2. s \in [1..Len(r) -> Seq(S)]
  BY <1>1
<1>3. s \in Seq(Seq(S)) /\ Len(s) = Len(r)
  BY <1>1, <1>2, IsASeq
<1> QED BY <1>3, FlattenType

\* What an adaptor answers for one record: one element or none.
LEMMA OneOrNone ==
  ASSUME NEW S, NEW x \in S, NEW q, q = <<>> \/ q = <<x>>
  PROVE  q \in Seq(S)
<1>1. <<x>> \in Seq(S) /\ <<>> \in Seq(S)
  OBVIOUS
<1> QED BY <1>1

-------------------------------------------------------------------------------
(***************************************************************************)
(* The ends of a set of naturals, what a function makes of each element of *)
(* a sequence, and the stretches of a sequence.                            *)
(***************************************************************************)

\* A non-empty set of naturals up to a bound has a greatest element.
LEMMA GreatestNatural ==
  ASSUME NEW n \in Nat, NEW T \in SUBSET (1..n), T # {}
  PROVE  Max(T) \in T /\ \A x \in T : x <= Max(T)
<1> DEFINE U == {i \in Nat : \E x \in T : i = n - x}
<1>1. \E m \in U : \A i \in U : m <= i
  <2>1. PICK x \in T : TRUE
    OBVIOUS
  <2>2. n - x \in U
    OBVIOUS
  <2>3. U \in SUBSET Nat /\ U # {}
    BY <2>2
  <2> HIDE DEF U
  <2> QED BY <2>3, LeastNatural
<1>2. PICK m \in U : \A i \in U : m <= i
  BY <1>1
<1>3. PICK y \in T : m = n - y
  OBVIOUS
<1>4. \A x \in T : x \in Nat /\ x <= n /\ n - x \in U
  OBVIOUS
<1>5. \A x \in T : m <= n - x
  BY <1>2, <1>4
<1>6. \A x \in T : x <= y
  BY <1>3, <1>4, <1>5
<1> QED BY <1>6 DEF Max


\* A sequence made of the parts a function gives for each record, when one more
\* record comes.
Mapped(g, r) == [i \in DOMAIN r |-> g[r[i]]]

LEMMA MappedFit ==
  ASSUME NEW A, NEW S, NEW g \in [A -> Seq(S)], NEW r \in Seq(A)
  PROVE  Mapped(g, r) \in Seq(Seq(S)) /\ Len(Mapped(g, r)) = Len(r) /\ FlattenSeq(Mapped(g, r)) \in Seq(S)
<1> DEFINE w == Mapped(g, r)
<1>1. w = [i \in DOMAIN r |-> w[i]]
  BY DEF Mapped
<1>2. ASSUME NEW i \in DOMAIN r PROVE w[i] \in Seq(S)
  <2>1. r[i] \in A
    BY ONLY r \in Seq(A), i \in DOMAIN r
  <2>2. w[i] = g[r[i]]
    BY DEF Mapped
  <2> QED BY <2>1, <2>2
<1> HIDE DEF w
<1>3. w \in Seq(Seq(S)) /\ Len(w) = Len(r) /\ FlattenSeq(w) \in Seq(S)
  BY ONLY <1>1, <1>2, FlattenOver, r \in Seq(A)
<1> QED BY <1>3 DEF w

LEMMA MappedEmpty ==
  ASSUME NEW g
  PROVE  FlattenSeq(Mapped(g, <<>>)) = <<>>
<1>1. Mapped(g, <<>>) = <<>>
  BY DEF Mapped
<1> QED BY <1>1, FlattenEmpty

LEMMA MappedAppend ==
  ASSUME NEW A, NEW S, NEW g \in [A -> Seq(S)], NEW r \in Seq(A), NEW x \in A
  PROVE  FlattenSeq(Mapped(g, Append(r, x))) = FlattenSeq(Mapped(g, r)) \o g[x]
<1> DEFINE q == Append(r, x)
           n == Len(r)
           b == Append(Mapped(g, r), g[x])
<1>1. /\ q \in Seq(A) /\ Len(q) = n + 1 /\ n \in Nat /\ q[n + 1] = x /\ (\A i \in 1..n : q[i] = r[i])
      /\ DOMAIN q = 1..(n + 1) /\ DOMAIN r = 1..n
  BY AppendProperties, LenProperties
<1>2. Mapped(g, r) \in Seq(Seq(S)) /\ Len(Mapped(g, r)) = n /\ g[x] \in Seq(S)
  <2>1. Mapped(g, r) \in Seq(Seq(S)) /\ Len(Mapped(g, r)) = Len(r) /\ FlattenSeq(Mapped(g, r)) \in Seq(S)
    BY ONLY MappedFit, g \in [A -> Seq(S)], r \in Seq(A)
  <2> QED BY <2>1
<1>3. b \in Seq(Seq(S)) /\ Len(b) = n + 1 /\ b[n + 1] = g[x] /\ \A i \in 1..n : b[i] = Mapped(g, r)[i]
  BY <1>2, AppendProperties
<1> HIDE DEF q, b
<1>4. ASSUME NEW i \in 1..(n + 1) PROVE b[i] = Mapped(g, q)[i]
  <2>1. Mapped(g, q)[i] = g[q[i]]
    BY <1>1 DEF Mapped
  <2>2. CASE i = n + 1
    BY <1>1, <1>3, <2>1, <2>2
  <2>3. CASE i \in 1..n
    <3>1. Mapped(g, r)[i] = g[r[i]]
      BY <1>1, <2>3 DEF Mapped
    <3> QED BY <1>1, <1>3, <2>1, <2>3, <3>1
  <2> QED BY <1>1, <2>2, <2>3
<1>5. Mapped(g, q) \in Seq(Seq(S)) /\ Len(Mapped(g, q)) = n + 1
  <2>1. q \in Seq(A)
    BY <1>1
  <2>2. Mapped(g, q) \in Seq(Seq(S)) /\ Len(Mapped(g, q)) = Len(q) /\ FlattenSeq(Mapped(g, q)) \in Seq(S)
    BY ONLY MappedFit, g \in [A -> Seq(S)], <2>1
  <2> QED BY <1>1, <2>2
<1>6. b = Mapped(g, q)
  BY <1>1, <1>3, <1>4, <1>5, SeqEqual
<1>7. FlattenSeq(b) = FlattenSeq(Mapped(g, r)) \o g[x]
  BY <1>2, FlattenAppend DEF b
<1> QED BY <1>6, <1>7 DEF q

\* The records a function makes of a sequence, one for one.
LEMMA MappedTyped ==
  ASSUME NEW A, NEW S, NEW g, \A y \in A : g[y] \in S, NEW r \in Seq(A)
  PROVE  Mapped(g, r) \in Seq(S)
<1>1. DOMAIN r = 1..Len(r) /\ Len(r) \in Nat /\ \A i \in 1..Len(r) : r[i] \in A
  BY LenProperties
<1>2. Mapped(g, r) = [i \in 1..Len(r) |-> g[r[i]]]
  BY <1>1 DEF Mapped
<1>3. Mapped(g, r) \in [1..Len(r) -> S]
  BY <1>1, <1>2
<1> QED BY <1>1, <1>3

LEMMA MappedGrow ==
  ASSUME NEW A, NEW g, NEW r \in Seq(A), NEW x \in A
  PROVE  Mapped(g, Append(r, x)) = Append(Mapped(g, r), g[x])
<1> DEFINE S == {g[y] : y \in A}
           q == Append(r, x)
           n == Len(r)
           p == Mapped(g, r)
           b == Append(p, g[x])
<1>1. /\ q \in Seq(A) /\ Len(q) = n + 1 /\ n \in Nat /\ q[n + 1] = x /\ (\A i \in 1..n : q[i] = r[i])
      /\ \A y \in A : g[y] \in S
  BY AppendProperties, LenProperties
<1> HIDE DEF q, p, n, b, S
<1>2. p \in Seq(S) /\ Len(p) = n /\ \A i \in 1..n : p[i] = g[r[i]]
  <2>1. DOMAIN r = 1..n /\ \A i \in 1..n : r[i] \in A
    BY LenProperties DEF n
  <2>2. p = [i \in 1..n |-> g[r[i]]]
    BY <2>1 DEF Mapped, p
  <2>3. p \in [1..n -> S] /\ \A i \in 1..n : p[i] = g[r[i]]
    BY <1>1, <2>1, <2>2
  <2> QED BY <1>1, <2>3
<1>3. b \in Seq(S) /\ Len(b) = n + 1 /\ b[n + 1] = g[x] /\ \A i \in 1..n : b[i] = p[i]
  BY <1>1, <1>2, AppendProperties DEF b
<1>4. /\ Mapped(g, q) \in Seq(S) /\ Len(Mapped(g, q)) = n + 1
      /\ \A i \in 1..(n + 1) : Mapped(g, q)[i] = g[q[i]]
  <2>1. DOMAIN q = 1..(n + 1) /\ \A i \in 1..(n + 1) : q[i] \in A
    BY <1>1, LenProperties
  <2>2. Mapped(g, q) = [i \in 1..(n + 1) |-> g[q[i]]]
    BY <2>1 DEF Mapped
  <2>3. Mapped(g, q) \in [1..(n + 1) -> S] /\ \A i \in 1..(n + 1) : Mapped(g, q)[i] = g[q[i]]
    BY <1>1, <2>1, <2>2
  <2> QED BY <1>1, <2>3
<1>5. ASSUME NEW i \in 1..(n + 1) PROVE b[i] = Mapped(g, q)[i]
  <2>1. CASE i = n + 1
    BY <1>1, <1>3, <1>4, <2>1
  <2>2. CASE i \in 1..n
    BY <1>1, <1>2, <1>3, <1>4, <2>2
  <2>3. i = n + 1 \/ i \in 1..n
    <3>1. n \in Nat /\ i \in 1..(n + 1)
      BY <1>1
    <3> QED BY ONLY <3>1
  <2> QED BY <2>1, <2>2, <2>3
<1>6. b = Mapped(g, q)
  BY <1>1, <1>3, <1>4, <1>5, SeqEqual
<1> QED BY <1>6 DEF b, q, p

\* The least of a set that holds it.
LEMMA LeastIs ==
  ASSUME NEW T \in SUBSET Nat, NEW n \in T, \A i \in T : n <= i
  PROVE  Min(T) = n
<1>1. \A x \in T : (\A i \in T : x <= i) => x = n
  OBVIOUS
<1> QED BY <1>1 DEF Min

\* A stretch of a sequence that holds another one, element by element.
LEMMA Stretch ==
  ASSUME NEW S, NEW r \in Seq(S), NEW b \in Seq(S), NEW k \in Nat, k + Len(b) <= Len(r),
         \A i \in 1..Len(b) : r[k + i] = b[i]
  PROVE  SubSeq(r, k + 1, k + Len(b)) = b
<1> DEFINE m == Len(b)
           q == SubSeq(r, k + 1, k + m)
<1>1. m \in Nat /\ Len(r) \in Nat /\ k + m <= Len(r) /\ \A i \in 1..m : r[k + i] = b[i]
  BY LenProperties
<1> HIDE DEF m
<1>2. \A i \in (k + 1)..(k + m) : r[i] \in S
  BY <1>1
<1>3. /\ q \in Seq(S)
      /\ Len(q) = IF k + 1 <= k + m THEN (k + m) - (k + 1) + 1 ELSE 0
      /\ \A i \in 1..((k + m) - (k + 1) + 1) : q[i] = r[(k + 1) + i - 1]
  BY <1>1, <1>2, SubSeqProperties
<1> HIDE DEF q
<1>4. Len(q) = m
  BY <1>1, <1>3
<1>5. ASSUME NEW i \in 1..m PROVE q[i] = b[i]
  <2>1. i \in 1..((k + m) - (k + 1) + 1) /\ (k + 1) + i - 1 = k + i
    BY <1>1
  <2> QED BY <1>1, <1>3, <2>1
<1>6. q = b
  BY <1>3, <1>4, <1>5, SeqEqual DEF m
<1> QED BY <1>6 DEF q, m

-------------------------------------------------------------------------------
\* What comes before the first of the places in a set, all if there is none.
Cut(s, I) == IF I = {} THEN s ELSE SubSeq(s, 1, Min(I) - 1)

LEMMA CutIs ==
  ASSUME NEW S, NEW s \in Seq(S), NEW x \in Seq(S), NEW I \in SUBSET (1..Len(s)),
         Len(x) + 1 \in I, \A i \in I : Len(x) + 1 <= i, \A i \in 1..Len(x) : s[i] = x[i]
  PROVE  Cut(s, I) = x
<1>1. Len(x) \in Nat /\ Len(s) \in Nat /\ I \in SUBSET Nat /\ Len(x) + 1 <= Len(s)
  BY LenProperties
<1>2. Min(I) = Len(x) + 1
  BY <1>1, LeastIs
<1>3. SubSeq(s, 0 + 1, 0 + Len(x)) = x
  <2>1. 0 \in Nat /\ 0 + Len(x) <= Len(s) /\ \A i \in 1..Len(x) : s[0 + i] = x[i]
    BY <1>1
  <2> QED BY ONLY <2>1, Stretch, s \in Seq(S), x \in Seq(S)
<1>4. 0 + 1 = 1 /\ 0 + Len(x) = Min(I) - 1
  BY <1>1, <1>2
<1> QED BY <1>3, <1>4 DEF Cut

\* The first place, and what is before it.
LEMMA CutFirst ==
  ASSUME NEW S, NEW s \in Seq(S), NEW I \in SUBSET (1..Len(s)), I # {}
  PROVE  \E n \in I : /\ \A i \in I : n <= i
                      /\ Cut(s, I) \in Seq(S) /\ Len(Cut(s, I)) = n - 1
                      /\ \A i \in 1..(n - 1) : Cut(s, I)[i] = s[i]
<1>1. Len(s) \in Nat /\ I \in SUBSET Nat
  BY LenProperties
<1>2. PICK n \in I : \A i \in I : n <= i
  BY <1>1, LeastNatural
<1>3. Cut(s, I) = SubSeq(s, 1, n - 1)
  BY <1>1, <1>2, LeastIs DEF Cut
<1>4. n \in 1..Len(s) /\ \A i \in 1..(n - 1) : s[i] \in S
  BY <1>1
<1>5. /\ SubSeq(s, 1, n - 1) \in Seq(S)
      /\ Len(SubSeq(s, 1, n - 1)) = IF 1 <= n - 1 THEN (n - 1) - 1 + 1 ELSE 0
      /\ \A i \in 1..((n - 1) - 1 + 1) : SubSeq(s, 1, n - 1)[i] = s[1 + i - 1]
  BY <1>1, <1>4, SubSeqProperties
<1>6. \A i \in 1..(n - 1) : 1 + i - 1 = i /\ i \in 1..((n - 1) - 1 + 1)
  BY <1>1, <1>4
<1> QED BY <1>1, <1>2, <1>3, <1>4, <1>5, <1>6

LEMMA CutFits ==
  ASSUME NEW S, NEW s \in Seq(S), NEW I \in SUBSET (1..Len(s))
  PROVE  Cut(s, I) \in Seq(S)
<1>1. CASE I = {}
  BY <1>1 DEF Cut
<1>2. CASE I # {}
  BY <1>2, CutFirst
<1> QED BY <1>1, <1>2

\* Places of two sequences put together, and those in the one and the other.
Places(x, y, I, J, K) ==
  /\ I \in SUBSET (1..Len(x \o y))
  /\ J \in SUBSET (1..Len(x)) /\ \A i \in 1..Len(x) : i \in J <=> i \in I
  /\ K \in SUBSET (1..Len(y)) /\ \A k \in 1..Len(y) : k \in K <=> Len(x) + k \in I

\* The first place of two sequences is in the one or the other.
LEMMA CutConcat ==
  ASSUME NEW S, NEW x \in Seq(S), NEW y \in Seq(S), NEW I, NEW J, NEW K, Places(x, y, I, J, K)
  PROVE  Cut(x \o y, I) = IF J # {} THEN Cut(x, J) ELSE x \o Cut(y, K)
<1> DEFINE m == Len(x)
           n == Len(y)
           z == x \o y
<1>1. /\ m \in Nat /\ n \in Nat /\ z \in Seq(S) /\ Len(z) = m + n
      /\ \A i \in 1..(m + n) : z[i] = IF i <= m THEN x[i] ELSE y[i - m]
  BY LenProperties, ConcatProperties
<1> HIDE DEF z
<1>2. /\ I \in SUBSET (1..Len(z))
      /\ J \in SUBSET (1..m) /\ \A i \in 1..m : i \in J <=> i \in I
      /\ K \in SUBSET (1..n) /\ \A k \in 1..n : k \in K <=> m + k \in I
  BY DEF Places, z
<1>3. CASE J # {}
  <2>1. PICK f \in J : /\ \A i \in J : f <= i
                       /\ Cut(x, J) \in Seq(S) /\ Len(Cut(x, J)) = f - 1
                       /\ \A i \in 1..(f - 1) : Cut(x, J)[i] = x[i]
    BY ONLY <1>2, <1>3, CutFirst, x \in Seq(S)
  <2> DEFINE c == Cut(x, J)
  <2>2. f \in 1..m /\ f \in I /\ Len(c) + 1 = f
    BY <1>1, <1>2, <2>1
  <2>3. \A i \in I : Len(c) + 1 <= i
    <3>1. ASSUME NEW i \in I PROVE f <= i
      <4>1. i \in 1..(m + n) /\ (i \in 1..m => i \in J)
        BY <1>1, <1>2
      <4> QED BY <1>1, <2>1, <2>2, <4>1
    <3> QED BY <2>2, <3>1
  <2>4. \A i \in 1..Len(c) : z[i] = c[i]
    <3>1. ASSUME NEW i \in 1..Len(c) PROVE z[i] = c[i]
      <4>1. i \in 1..(f - 1) /\ i \in 1..(m + n) /\ i <= m
        BY <1>1, <2>2, <2>1
      <4> QED BY <1>1, <2>1, <4>1
    <3> QED BY <3>1
  <2>5. c \in Seq(S) /\ Len(c) + 1 \in I
    BY <2>1, <2>2
  <2> HIDE DEF c
  <2>6. Cut(z, I) = c
    BY ONLY <1>1, <1>2, <2>3, <2>4, <2>5, CutIs
  <2> QED BY <1>3, <2>6 DEF c, z
<1>4. CASE J = {} /\ K = {}
  <2>1. I = {}
    <3>1. ASSUME NEW i \in I PROVE FALSE
      <4>1. i \in 1..(m + n) /\ i \notin 1..m
        BY <1>1, <1>2, <1>4
      <4>2. i - m \in 1..n /\ m + (i - m) = i
        BY <1>1, <4>1
      <4> QED BY <1>2, <1>4, <4>2
    <3> QED BY <3>1
  <2> QED BY <1>4, <2>1 DEF Cut
<1>5. CASE J = {} /\ K # {}
  <2>1. PICK f \in K : /\ \A i \in K : f <= i
                       /\ Cut(y, K) \in Seq(S) /\ Len(Cut(y, K)) = f - 1
                       /\ \A i \in 1..(f - 1) : Cut(y, K)[i] = y[i]
    BY ONLY <1>2, <1>5, CutFirst, y \in Seq(S)
  <2> DEFINE d == Cut(y, K)
             c == x \o d
  <2>2. f \in 1..n /\ m + f \in I /\ Len(d) = f - 1 /\ d \in Seq(S)
    BY <1>2, <2>1
  <2> HIDE DEF d
  <2>3. /\ c \in Seq(S) /\ Len(c) = m + Len(d)
        /\ \A i \in 1..(m + Len(d)) : c[i] = IF i <= m THEN x[i] ELSE d[i - m]
    BY <2>2, ConcatProperties
  <2> HIDE DEF c
  <2>4. Len(c) + 1 = m + f
    BY <1>1, <2>2, <2>3
  <2>5. \A i \in I : Len(c) + 1 <= i
    <3>1. ASSUME NEW i \in I PROVE m + f <= i
      <4>1. i \in 1..(m + n) /\ i \notin 1..m
        BY <1>1, <1>2, <1>5
      <4>2. i - m \in 1..n /\ m + (i - m) = i
        BY <1>1, <4>1
      <4>3. f <= i - m
        BY <1>2, <2>1, <4>2
      <4> QED BY <1>1, <2>2, <4>1, <4>3
    <3> QED BY <2>4, <3>1
  <2>6. \A i \in 1..Len(c) : z[i] = c[i]
    <3>1. ASSUME NEW i \in 1..Len(c) PROVE z[i] = c[i]
      <4>1. i \in 1..(m + Len(d)) /\ i \in 1..(m + n)
        BY <1>1, <2>2, <2>3
      <4>2. i <= m \/ i - m \in 1..(f - 1)
        BY <1>1, <2>2, <4>1
      <4>3. i - m \in 1..(f - 1) => d[i - m] = y[i - m]
        BY <2>1 DEF d
      <4> QED BY <1>1, <2>3, <4>1, <4>2, <4>3
    <3> QED BY <3>1
  <2>7. Len(c) + 1 \in I
    BY <2>2, <2>4
  <2>8. Cut(z, I) = c
    BY ONLY <1>1, <1>2, <2>3, <2>5, <2>6, <2>7, CutIs
  <2> QED BY <1>5, <2>8 DEF c, d, z
<1> QED BY <1>3, <1>4, <1>5
=============================================================================
