------------------------------- MODULE Induction -------------------------------
(* Induction over sets of numbers instead of over predicates, and what it says *)
(* about a fold: FoldLeft of SequencesExt goes through the elements one by     *)
(* one.  Nothing here is about the program.                                    *)
EXTENDS Integers, Sequences, SequencesExt, WellFoundedInduction, TLAPS

(* A set of natural numbers has a smallest element.                            *)
LEMMA Least ==
  ASSUME NEW S \in SUBSET Nat, S # {}
  PROVE  \E n \in S : \A m \in S : n <= m
<1> DEFINE R == OpToRel(<, Nat)
<1>1. IsWellFoundedOn(R, Nat)
  BY NatLessThanWellFounded
<1>2. \A x, y \in Nat : y < x => <<y, x>> \in R
  BY DEF OpToRel
<1> HIDE DEF R
<1>3. PICK x \in S : \A y \in S : <<y, x>> \notin R
  BY <1>1, WFMin
<1>4. \A y \in S : y \in Nat /\ x \in Nat /\ ~(y < x)
  BY <1>2, <1>3
<1> QED BY <1>4

(* What holds of 0, and of n + 1 if it holds of n, holds of all numbers.       *)
LEMMA SetInduction ==
  ASSUME NEW S \in SUBSET Nat, 0 \in S, \A n \in S : n + 1 \in S
  PROVE  S = Nat
<1> SUFFICES ASSUME Nat \ S # {} PROVE FALSE
  OBVIOUS
<1>1. PICK x \in Nat \ S : \A y \in Nat \ S : x <= y
  BY Least
<1>2. x - 1 \in Nat
  BY <1>1
<1>3. x - 1 \in S
  BY <1>1, <1>2
<1> QED BY <1>1, <1>3

(* The same for the numbers up to a last one.                                  *)
LEMMA BoundedInduction ==
  ASSUME NEW n \in Nat, NEW S, 0 \in S,
         \A i \in 0..n - 1 : i \in S => i + 1 \in S
  PROVE  0..n \subseteq S
<1> DEFINE T == {i \in Nat : i \in S \/ i > n}
<1>1. T = Nat
  <2>1. \A i \in T : i + 1 \in T
    OBVIOUS
  <2>2. 0 \in T /\ T \in SUBSET Nat
    OBVIOUS
  <2> HIDE DEF T
  <2> QED BY <2>1, <2>2, SetInduction
<1> QED BY <1>1

(* A set of positions has a last one.                                          *)
LEMMA LastPosition ==
  ASSUME NEW n \in Nat, NEW s \in SUBSET (1..n), s # {}
  PROVE  Max(s) \in s /\ \A i \in s : i <= Max(s)
<1> DEFINE B == {k \in Nat : \A i \in s : i <= k}
<1>1. n \in B
  OBVIOUS
<1>2. PICK b \in B : \A k \in B : b <= k
  BY <1>1, Least
<1>3. b \in s
  <2> SUFFICES ASSUME b \notin s PROVE FALSE
    OBVIOUS
  <2>1. \A i \in s : i \in Int /\ 1 <= i /\ i <= b /\ i # b
    BY <1>2
  <2>4. b \in Nat
    BY <1>2
  <2>5. b > 0
    <3>1. PICK i \in s : TRUE
      OBVIOUS
    <3>2. i \in Int /\ 1 <= i /\ i <= b
      BY <2>1
    <3> QED BY <3>2, <2>4
  <2>6. \A i \in s : i <= b - 1
    BY <2>1, <2>4
  <2>3. b \in Nat /\ b > 0 /\ \A i \in s : i <= b - 1
    BY <2>4, <2>5, <2>6
  <2>2. b - 1 \in B
    BY <2>3
  <2> QED BY <2>2, <2>3, <1>2
<1>4. \E x \in s : \A i \in s : x >= i
  BY <1>2, <1>3
<1> QED BY <1>4 DEF Max

(* With one position more.                                                     *)
LEMMA NextPosition ==
  ASSUME NEW n \in Nat, NEW s \in SUBSET (1..n + 1)
  PROVE  /\ n + 1 \in s => Max(s) = n + 1 /\ s \ {n + 1} \in SUBSET (1..n)
         /\ n + 1 \notin s => s \in SUBSET (1..n)
         /\ s # {} => Max(s) \in 1..n + 1 /\ s \ {Max(s)} \in SUBSET (1..n + 1)
<1>1. n + 1 \in Nat /\ \A i \in s : i \in Int /\ 1 <= i /\ i <= n + 1
  OBVIOUS
<1>2. s # {} => Max(s) \in s /\ \A i \in s : i <= Max(s)
  BY <1>1, LastPosition
<1>3. ASSUME n + 1 \in s
      PROVE  Max(s) = n + 1
  <2>1. Max(s) \in s /\ n + 1 <= Max(s)
    BY <1>2, <1>3
  <2>2. Max(s) \in Int /\ Max(s) <= n + 1
    BY <2>1, <1>1
  <2> QED BY <2>1, <2>2, <1>1
<1>4. \A i \in s : i # n + 1 => i \in 1..n
  BY <1>1
<1>5. s # {} => Max(s) \in 1..n + 1
  BY <1>2, <1>1
<1> QED BY <1>3, <1>4, <1>5

(* The table of all partial folds of a sequence: a fold takes the last of a set *)
(* of positions first.                                                         *)
IsTable(g, S, F, v, q) ==
  /\ g \in [SUBSET (1..Len(q)) -> S]
  /\ \A s \in SUBSET (1..Len(q)) :
       g[s] = IF s = {} THEN v ELSE F[<<g[s \ {Max(s)}], q[Max(s)]>>]

(* The entries of two tables depend on smaller ones in the same way.           *)
SameRule(n, g, h) ==
  /\ g[{}] = h[{}]
  /\ \A s \in SUBSET (1..n) :
       s # {} /\ g[s \ {Max(s)}] = h[s \ {Max(s)}] => g[s] = h[s]

SameEntries(n, g, h) == \A s \in SUBSET (1..n) : g[s] = h[s]

(* There is such a table ...                                                   *)
LEMMA TableExists ==
  ASSUME NEW S, NEW M, NEW F \in [S \X M -> S], NEW v \in S, NEW q \in Seq(M)
  PROVE  \E g : IsTable(g, S, F, v, q)
<1> DEFINE Table(n, g) ==
             /\ g \in [SUBSET (1..n) -> S]
             /\ \A s \in SUBSET (1..n) :
                  g[s] = IF s = {} THEN v ELSE F[<<g[s \ {Max(s)}], q[Max(s)]>>]
           N == {n \in 0..Len(q) : \E g : Table(n, g)}
<1>1. 0 \in N
  <2> DEFINE g == [s \in SUBSET (1..0) |-> v]
  <2>1. SUBSET (1..0) = {{}}
    OBVIOUS
  <2>2. Table(0, g)
    BY <2>1
  <2> HIDE DEF g, Table
  <2> QED BY <2>2
<1>2. ASSUME NEW n \in 0..Len(q) - 1, n \in N
      PROVE  n + 1 \in N
  <2>1. PICK g : Table(n, g)
    BY <1>2
  <2>2. n + 1 \in 1..Len(q) /\ q[n + 1] \in M /\ n \in Nat
    OBVIOUS
  <2> DEFINE h == [s \in SUBSET (1..n + 1) |->
                     IF n + 1 \in s THEN F[<<g[s \ {n + 1}], q[n + 1]>>] ELSE g[s]]
  <2>3. \A s \in SUBSET (1..n) : h[s] = g[s] /\ g[s] \in S
    <3>1. \A s \in SUBSET (1..n) : n + 1 \notin s /\ s \in SUBSET (1..n + 1)
      BY <2>2
    <3> QED BY <3>1, <2>1
  <2>4. ASSUME NEW s \in SUBSET (1..n + 1)
        PROVE  h[s] \in S /\ h[s] = IF s = {} THEN v ELSE F[<<h[s \ {Max(s)}], q[Max(s)]>>]
    <3>1. CASE n + 1 \in s
      <4>1. Max(s) = n + 1 /\ s \ {n + 1} \in SUBSET (1..n) /\ s # {}
        BY <3>1, <2>2, NextPosition
      <4>2. h[s] = F[<<g[s \ {n + 1}], q[n + 1]>>]
        BY <3>1
      <4>3. h[s \ {n + 1}] = g[s \ {n + 1}] /\ g[s \ {n + 1}] \in S
        BY <4>1, <2>3
      <4>4. F[<<g[s \ {n + 1}], q[n + 1]>>] \in S
        BY <4>3, <2>2
      <4> HIDE DEF h
      <4> QED BY <4>1, <4>2, <4>3, <4>4
    <3>2. CASE n + 1 \notin s
      <4>1. s \in SUBSET (1..n)
        BY <3>2, <2>2, NextPosition
      <4>2. CASE s = {}
        BY <4>1, <4>2, <2>1, <2>3
      <4>3. CASE s # {}
        <5>1. Max(s) \in s
          BY <4>1, <4>3, <2>2, LastPosition
        <5>2. s \ {Max(s)} \in SUBSET (1..n)
          BY <4>1
        <5>3. h[s] = g[s] /\ g[s] \in S /\ h[s \ {Max(s)}] = g[s \ {Max(s)}]
          BY <4>1, <5>2, <2>3
        <5>4. g[s] = F[<<g[s \ {Max(s)}], q[Max(s)]>>]
          BY <4>1, <4>3, <2>1
        <5> HIDE DEF h
        <5> QED BY <5>3, <5>4, <4>3
      <4> QED BY <4>2, <4>3
    <3> QED BY <3>1, <3>2
  <2>5. h \in [SUBSET (1..n + 1) -> S]
    BY <2>4
  <2>6. Table(n + 1, h)
    <3> HIDE DEF h
    <3> QED BY <2>4, <2>5
  <2> HIDE DEF Table
  <2>7. n + 1 \in 0..Len(q)
    BY <2>2
  <2> QED BY <2>6, <2>7
<1> HIDE DEF Table
<1>3. Len(q) \in Nat
  OBVIOUS
<1>4. 0..Len(q) \subseteq N
  <2> HIDE DEF N
  <2> QED BY <1>1, <1>2, <1>3, BoundedInduction
<1>5. \E g : Table(Len(q), g)
  BY <1>3, <1>4
<1> QED BY <1>5 DEF Table, IsTable

(* ... and there is only one.                                                  *)
LEMMA TableUnique ==
  ASSUME NEW n \in Nat, NEW g, NEW h, SameRule(n, g, h)
  PROVE  SameEntries(n, g, h)
<1> USE DEF SameRule, SameEntries
<1> DEFINE N == {k \in 0..n : \A s \in SUBSET (1..k) : g[s] = h[s]}
<1>1. 0 \in N
  <2>1. \A s \in SUBSET (1..0) : s = {}
    OBVIOUS
  <2>2. \A s \in SUBSET (1..0) : g[s] = h[s]
    BY <2>1
  <2>3. 0 \in 0..n
    OBVIOUS
  <2> QED BY <2>2, <2>3
<1>2. ASSUME NEW k \in 0..n - 1, k \in N
      PROVE  k + 1 \in N
  <2>1. ASSUME NEW s \in SUBSET (1..k + 1)
        PROVE  g[s] = h[s]
    <3>1. CASE k + 1 \in s
      <4>1. Max(s) = k + 1 /\ s \ {k + 1} \in SUBSET (1..k) /\ s # {}
        BY <3>1, NextPosition
      <4>2. g[s \ {k + 1}] = h[s \ {k + 1}] /\ s \in SUBSET (1..n)
        BY <4>1, <1>2
      <4> QED BY <4>1, <4>2
    <3>2. CASE k + 1 \notin s
      <4>1. s \in SUBSET (1..k)
        BY <3>2, NextPosition
      <4> QED BY <4>1, <1>2
    <3> QED BY <3>1, <3>2
  <2> QED BY <2>1
<1>3. 0..n \subseteq N
  <2> HIDE DEF N
  <2> QED BY <1>1, <1>2, BoundedInduction
<1> QED BY <1>3

(* Two runs of the same steps from the same start agree.                       *)
LEMMA TraceUnique ==
  ASSUME NEW n \in Nat, NEW t, NEW u, t[0] = u[0],
         \A i \in 1..n : t[i - 1] = u[i - 1] => t[i] = u[i]
  PROVE  \A i \in 0..n : t[i] = u[i]
<1> DEFINE N == {i \in 0..n : t[i] = u[i]}
<1>1. 0 \in N
  OBVIOUS
<1>2. ASSUME NEW i \in 0..n - 1, i \in N
      PROVE  i + 1 \in N
  <2>1. i + 1 \in 1..n /\ (i + 1) - 1 = i
    OBVIOUS
  <2> QED BY <2>1, <1>2
<1>3. 0..n \subseteq N
  <2> HIDE DEF N
  <2> QED BY <1>1, <1>2, BoundedInduction
<1> QED BY <1>3

(* Two elements one after the other.                                           *)
LEMMA Pair ==
  ASSUME NEW S, NEW a \in S, NEW b \in S
  PROVE  <<a>> \o <<b>> = <<a, b>>
<1> DEFINE s == <<a>> \o <<b>>
           t == <<a, b>>
<1>1. s \in Seq(S) /\ Len(s) = 2 /\ s[1] = a /\ s[2] = b
  OBVIOUS
<1>2. t \in Seq(S) /\ Len(t) = 2 /\ t[1] = a /\ t[2] = b
  OBVIOUS
<1> HIDE DEF s, t
<1>3. s \in [1..2 -> S] /\ t \in [1..2 -> S]
  BY <1>1, <1>2
<1>4. \A i \in 1..2 : s[i] = t[i]
  BY <1>1, <1>2
<1>5. s = t
  BY <1>3, <1>4
<1> QED BY <1>5 DEF s, t

(* A part of a sequence, and two sequences one after the other.                *)
LEMMA SubSeqElements ==
  ASSUME NEW S, NEW s \in Seq(S), NEW m \in Nat \ {0}, NEW n \in 0..Len(s), m <= n + 1
  PROVE  /\ SubSeq(s, m, n) \in Seq(S)
         /\ Len(SubSeq(s, m, n)) = n - m + 1
         /\ \A i \in 1..n - m + 1 : SubSeq(s, m, n)[i] = s[m + i - 1]
<1>1. Len(s) \in Nat
  OBVIOUS
<1>2. Len(SubSeq(s, m, n)) = n - m + 1
  BY <1>1
<1>3. \A i \in 1..n - m + 1 : SubSeq(s, m, n)[i] = s[m + i - 1]
  BY <1>1
<1>4. SubSeq(s, m, n) \in Seq(S)
  BY <1>1
<1> QED BY <1>2, <1>3, <1>4

LEMMA ConcatElements ==
  ASSUME NEW S, NEW a \in Seq(S), NEW b \in Seq(S)
  PROVE  /\ a \o b \in Seq(S) /\ Len(a \o b) = Len(a) + Len(b)
         /\ \A i \in 1..Len(a) : (a \o b)[i] = a[i]
         /\ \A i \in 1..Len(b) : (a \o b)[Len(a) + i] = b[i]
OBVIOUS
(* One left out: the rest moves up.                                            *)
Skips(n, at, s, r) ==
  /\ \A i \in 1..at - 1 : r[i] = s[i]
  /\ \A i \in 1..n - at : r[(at - 1) + i] = s[(at + 1) + i - 1]

LEMMA Skipped ==
  ASSUME NEW n \in Nat, NEW at \in 1..n, NEW s, NEW r, Skips(n, at, s, r)
  PROVE  \A i \in 1..n - 1 : r[i] = IF i < at THEN s[i] ELSE s[i + 1]
<1> USE DEF Skips
<1> SUFFICES ASSUME NEW i \in 1..n - 1 PROVE r[i] = IF i < at THEN s[i] ELSE s[i + 1]
  OBVIOUS
<1>1. CASE i < at
  BY <1>1
<1>2. CASE i >= at
  <2>1. i - at + 1 \in 1..n - at
    BY <1>2
  <2>2. (at - 1) + (i - at + 1) = i /\ (at + 1) + (i - at + 1) - 1 = i + 1
    BY <1>2
  <2>3. r[(at - 1) + (i - at + 1)] = s[(at + 1) + (i - at + 1) - 1]
    BY <2>1
  <2> QED BY <2>2, <2>3, <1>2
<1> QED BY <1>1, <1>2
================================================================================
