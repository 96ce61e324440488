------------------------------ MODULE ReplayProofs ------------------------------
(* Theorems about Replay, for any inputs, save point period, lengths, speeds   *)
(* and clicks that the assumptions allow.                                      *)
EXTENDS Replay, Induction

-----------------------------------------------------------------------------
(* Numbers and sequences.                                                      *)

LEMMA Division ==
  ASSUME NEW a \in Nat, NEW b \in Nat \ {0}
  PROVE  /\ a \div b \in Nat /\ a % b \in Nat /\ a % b < b
         /\ b * (a \div b) <= a /\ a = (b * (a \div b)) + (a % b)
OBVIOUS

LEMMA Multiples ==
  ASSUME NEW j \in Nat, NEW k \in Nat, NEW b \in Nat \ {0}, j < k
  PROVE  j * b + b <= k * b /\ j * b \in Nat /\ k * b \in Nat
OBVIOUS

LEMMA NoRemainder ==
  ASSUME NEW k \in Nat, NEW b \in Nat \ {0}
  PROVE  (k * b) % b = 0
<1> DEFINE q == (k * b) \div b
           r == (k * b) % b
<1>1. k * b \in Nat
  OBVIOUS
<1>2. q \in Nat /\ r \in Nat /\ r < b /\ k * b = (b * q) + r
  BY <1>1, Division
<1> HIDE DEF q, r
<1>3. b * q = q * b /\ q * b \in Nat
  BY <1>2
<1>4. ~(q < k)
  <2> SUFFICES ASSUME q < k PROVE FALSE
    OBVIOUS
  <2>1. q * b + b <= k * b
    BY <1>2, Multiples
  <2> QED BY <1>1, <1>2, <1>3, <2>1
<1>5. ~(k < q)
  <2> SUFFICES ASSUME k < q PROVE FALSE
    OBVIOUS
  <2>1. k * b + b <= q * b
    BY <1>2, Multiples
  <2> QED BY <1>1, <1>2, <1>3, <2>1
<1>6. q = k
  BY <1>2, <1>4, <1>5
<1>7. r = 0
  BY <1>1, <1>2, <1>3, <1>6
<1> QED BY <1>7 DEF r

(* Frames added to a match or a recording; there may be none.                  *)
LEMMA Extended ==
  ASSUME NEW S, NEW s \in Seq(S), NEW n \in Int, NEW f \in [1..n -> S]
  PROVE  /\ s \o f \in Seq(S)
         /\ n >= 0 => Len(s \o f) = Len(s) + n
         /\ n < 0 => Len(s \o f) = Len(s)
         /\ \A i \in 1..Len(s) : (s \o f)[i] = s[i]
         /\ \A i \in 1..n : (s \o f)[Len(s) + i] = f[i]
<1> DEFINE k == IF n >= 0 THEN n ELSE 0
<1>1. k \in Nat /\ 1..n = 1..k /\ (n >= 0 => k = n) /\ (n < 0 => k = 0)
  OBVIOUS
<1> HIDE DEF k
<1>2. f \in [1..k -> S]
  BY <1>1
<1>3. f \in Seq(S) /\ Len(f) = k
  BY <1>1, <1>2
<1>4. Len(s) \in Nat /\ s \o f \in Seq(S) /\ Len(s \o f) = Len(s) + k
  BY <1>1, <1>3
<1>5. \A i \in 1..Len(s) : (s \o f)[i] = s[i]
  BY <1>3
<1>6. \A i \in 1..k : (s \o f)[Len(s) + i] = f[i]
  BY <1>1, <1>3
<1> DEFINE w == s \o f
<1> HIDE DEF w
<1>7. n >= 0 => Len(w) = Len(s) + n
  BY <1>1, <1>4 DEF w
<1>8. n < 0 => Len(w) = Len(s)
  BY <1>1, <1>4 DEF w
<1>9. \A i \in 1..n : w[Len(s) + i] = f[i]
  BY <1>1, <1>6 DEF w
<1> QED BY <1>4, <1>5, <1>7, <1>8, <1>9 DEF w

LEMMA SameSequence ==
  ASSUME NEW S, NEW s \in Seq(S), NEW t \in Seq(S), Len(s) = Len(t), \A i \in 1..Len(s) : s[i] = t[i]
  PROVE  s = t
OBVIOUS

LEMMA FirstFrames ==
  ASSUME NEW S, NEW s \in Seq(S), NEW p \in 0..Len(s)
  PROVE  /\ SubSeq(s, 1, p) \in Seq(S) /\ Len(SubSeq(s, 1, p)) = p
         /\ \A i \in 1..p : SubSeq(s, 1, p)[i] = s[i]
OBVIOUS

-----------------------------------------------------------------------------
(* Recording.                                                                  *)

SavePoint == [step : Nat, state : Seq(Input)]

IsRecorder(r) ==
  /\ r = [mSaveData |-> r.mSaveData, mSavePoints |-> r.mSavePoints, mEndScore |-> r.mEndScore]
  /\ r.mSaveData \in Seq(Input) /\ r.mSavePoints \in Seq(SavePoint) /\ r.mEndScore \in Nat

(* The frames of a match g, and the idle ones after its end.                   *)
Rest       == [i \in 1..FillSteps |-> Idle]
Whole(g)   == g \o Rest

(* The recorder keeps the input that led to each state.                        *)
InputsOf(r, g) ==
  \A p \in 1..Len(r.mSaveData) - 1 : r.mSaveData[p + 1] = Whole(g)[p]

StatesOf(r, g) ==
  \A i \in 1..Len(r.mSavePoints) :
    /\ r.mSavePoints[i].step <= Len(g) /\ r.mSavePoints[i].step < Len(r.mSaveData)
    /\ r.mSavePoints[i].state = SubSeq(g, 1, r.mSavePoints[i].step)

InOrder(r) ==
  \A i, j \in 1..Len(r.mSavePoints) : i < j => r.mSavePoints[i].step < r.mSavePoints[j].step

(* In every period there is a save point: one for each multiple of it.         *)
Dense(r) ==
  \A k \in Nat : k * REPLAY_SAVEPOINT_PERIOD < Len(r.mSaveData) =>
    k + 1 <= Len(r.mSavePoints) /\ r.mSavePoints[k + 1].step <= k * REPLAY_SAVEPOINT_PERIOD

Records(r, g) == IsRecorder(r) /\ InputsOf(r, g) /\ StatesOf(r, g) /\ InOrder(r) /\ Dense(r)

LEMMA WholeFrames ==
  ASSUME NEW g \in Seq(Input)
  PROVE  /\ Whole(g) \in Seq(Input) /\ Len(Whole(g)) = Len(g) + FillSteps /\ Len(g) \in Nat
         /\ \A i \in 1..Len(g) : Whole(g)[i] = g[i]
         /\ \A i \in 1..FillSteps : Whole(g)[Len(g) + i] = Idle
<1>1. Rest \in [1..FillSteps -> Input] /\ FillSteps \in Nat /\ \A i \in 1..FillSteps : Rest[i] = Idle
  BY InputAssumption, PeriodAssumption DEF Rest
<1>2. Len(g) \in Nat
  OBVIOUS
<1> QED BY <1>1, <1>2, Extended DEF Whole

LEMMA RecordFrame ==
  ASSUME NEW g \in Seq(Input), NEW r, Records(r, g), Len(r.mSaveData) = Len(g), NEW score \in Nat,
         NEW n, n = record(r, g, score)
  PROVE  /\ Records(n, g) /\ Len(n.mSaveData) = Len(g) + 1 /\ n.mEndScore = score
         /\ r.mEndScore # score =>
              /\ n.mSavePoints # <<>>
              /\ n.mSavePoints[Len(n.mSavePoints)].step = Len(g)
<1> DEFINE d == r.mSaveData
           e == n.mSaveData
           s == r.mSavePoints
           t == n.mSavePoints
           P == REPLAY_SAVEPOINT_PERIOD
           sp == savePoint(r, g)
<1>1. IsRecorder(r) /\ d \in Seq(Input) /\ s \in Seq(SavePoint) /\ Len(g) \in Nat /\ Len(d) = Len(g)
  BY DEF Records, IsRecorder
<1>2. P \in Nat \ {0}
  BY PeriodAssumption
<1>3. lastInput(g) \in Input
  BY InputAssumption DEF lastInput
<1>4. e = Append(d, lastInput(g)) /\ n.mEndScore = score
  BY DEF record
<1>5. e \in Seq(Input) /\ Len(e) = Len(g) + 1 /\ e[Len(g) + 1] = lastInput(g)
      /\ \A i \in 1..Len(g) : e[i] = d[i]
  BY <1>1, <1>3, <1>4
<1>6. sp \in SavePoint /\ sp.step = Len(g) /\ sp.state = g
  BY <1>1 DEF savePoint, SavePoint
<1>7. t = IF isDue(r, score) THEN Append(s, sp) ELSE s
  BY DEF record
<1>8. isDue(r, score) <=> (Len(g) % P = 0 \/ r.mEndScore # score)
  BY <1>1 DEF isDue
<1>9. n = [mSaveData |-> e, mSavePoints |-> t, mEndScore |-> n.mEndScore]
  BY DEF record
<1> HIDE DEF sp
<1>10. /\ t \in Seq(SavePoint) /\ Len(s) \in Nat /\ Len(t) \in Nat
       /\ \A i \in 1..Len(s) : i \in 1..Len(t) /\ t[i] = s[i]
       /\ Len(t) = IF isDue(r, score) THEN Len(s) + 1 ELSE Len(s)
       /\ isDue(r, score) => t[Len(s) + 1] = sp
  BY <1>1, <1>6, <1>7
<1> HIDE DEF d, e, s, t
<1>11. IsRecorder(n)
  BY <1>4, <1>5, <1>9, <1>10 DEF IsRecorder, e, t
<1>12. /\ InputsOf(r, g) <=> \A p \in 1..Len(d) - 1 : d[p + 1] = Whole(g)[p]
       /\ InputsOf(n, g) <=> \A p \in 1..Len(e) - 1 : e[p + 1] = Whole(g)[p]
  BY DEF InputsOf, d, e
<1>13. InputsOf(n, g)
  <2> SUFFICES ASSUME NEW p \in 1..Len(g)
               PROVE  e[p + 1] = Whole(g)[p]
    BY <1>1, <1>5, <1>12
  <2>1. Whole(g)[p] = g[p]
    BY WholeFrames
  <2>2. CASE p = Len(g)
    <3>1. g # <<>>
      BY <1>1, <2>2
    <3> QED BY <1>5, <2>1, <2>2, <3>1 DEF lastInput
  <2>3. CASE p # Len(g)
    <3>1. p \in 1..Len(d) - 1 /\ p + 1 \in 1..Len(g)
      BY <1>1, <2>3
    <3>2. InputsOf(r, g)
      BY DEF Records
    <3>3. d[p + 1] = Whole(g)[p]
      BY <1>12, <3>1, <3>2
    <3> QED BY <1>5, <3>1, <3>3
  <2> QED BY <2>2, <2>3
<1>14. \A i \in 1..Len(s) : s[i].step \in Nat /\ s[i].step < Len(g) /\ s[i].state = SubSeq(g, 1, s[i].step)
  <2>1. \A i \in 1..Len(s) : s[i] \in SavePoint
    BY <1>1 DEF s
  <2> QED BY <1>1, <2>1 DEF Records, StatesOf, s, d, SavePoint
<1>15. \A i \in 1..Len(t) : i \in 1..Len(s) \/ (isDue(r, score) /\ i = Len(s) + 1 /\ t[i] = sp)
  BY <1>10
<1>16. StatesOf(n, g)
  <2>1. SubSeq(g, 1, Len(g)) = g
    OBVIOUS
  <2>2. ASSUME NEW i \in 1..Len(t)
        PROVE  /\ t[i].step <= Len(g) /\ t[i].step < Len(e)
               /\ t[i].state = SubSeq(g, 1, t[i].step)
    <3>1. CASE i \in 1..Len(s)
      <4>1. t[i] = s[i]
        BY <1>10, <3>1
      <4>2. s[i].step \in Nat /\ s[i].step < Len(g) /\ s[i].state = SubSeq(g, 1, s[i].step)
        BY <1>14, <3>1
      <4> QED BY <1>1, <1>5, <4>1, <4>2
    <3>2. CASE t[i] = sp
      BY <1>1, <1>5, <1>6, <2>1, <3>2
    <3> QED BY <1>15, <3>1, <3>2
  <2> QED BY <2>2 DEF StatesOf, t, e
<1>17. InOrder(n)
  <2>1. \A i, j \in 1..Len(s) : i < j => s[i].step < s[j].step
    BY DEF Records, InOrder, s
  <2>2. ASSUME NEW i \in 1..Len(t), NEW j \in 1..Len(t), i < j
        PROVE  t[i].step < t[j].step
    <3>1. i \in 1..Len(s)
      BY <1>10, <2>2
    <3>2. CASE j \in 1..Len(s)
      BY <1>10, <2>1, <2>2, <3>1, <3>2
    <3>3. CASE t[j] = sp
      BY <1>6, <1>10, <1>14, <3>1, <3>3
    <3> QED BY <1>15, <3>2, <3>3
  <2> QED BY <2>2 DEF InOrder, t
<1>18. Dense(n)
  <2> SUFFICES ASSUME NEW k \in Nat, k * P < Len(e)
               PROVE  k + 1 <= Len(t) /\ t[k + 1].step <= k * P
    BY DEF Dense, t, e
  <2>1. \A i \in Nat : i * P < Len(g) => i + 1 <= Len(s) /\ s[i + 1].step <= i * P
    BY <1>1 DEF Records, Dense, s, d
  <2>2. CASE k * P < Len(g)
    BY <1>10, <2>1, <2>2
  <2>3. CASE k * P = Len(g)
    <3>1. Len(g) % P = 0
      BY <1>2, <2>3, NoRemainder
    <3>2. isDue(r, score)
      BY <1>8, <3>1
    <3>3. k <= Len(s)
      <4>1. CASE k = 0
        BY <1>10, <4>1
      <4>2. CASE k # 0
        <5>1. k - 1 \in Nat /\ k - 1 < k
          BY <4>2
        <5>2. (k - 1) * P + P <= k * P /\ (k - 1) * P \in Nat /\ k * P \in Nat
          BY <1>2, <5>1, Multiples
        <5>3. (k - 1) * P < Len(g)
          BY <1>2, <2>3, <5>2
        <5> QED BY <2>1, <5>1, <5>3
      <4> QED BY <4>1, <4>2
    <3>4. CASE k < Len(s)
      <4>1. k + 1 \in 1..Len(s)
        BY <1>10, <3>4
      <4>2. t[k + 1] = s[k + 1] /\ k + 1 <= Len(t)
        BY <1>10, <4>1
      <4>3. s[k + 1].step \in Nat /\ s[k + 1].step < Len(g)
        BY <1>14, <4>1
      <4> QED BY <1>1, <2>3, <4>2, <4>3
    <3>5. CASE k = Len(s)
      BY <1>1, <1>6, <1>10, <2>3, <3>2, <3>5
    <3> QED BY <1>10, <3>3, <3>4, <3>5
  <2>4. k * P \in Nat
    BY <1>2
  <2> QED BY <1>1, <1>5, <2>2, <2>3, <2>4
<1>19. ASSUME r.mEndScore # score
       PROVE  t # <<>> /\ t[Len(t)].step = Len(g)
  BY <1>6, <1>8, <1>10, <1>19
<1> QED BY <1>4, <1>5, <1>11, <1>13, <1>16, <1>17, <1>18, <1>19 DEF Records, e, t

(* The match goes on: what was recorded of it stays.                           *)
LEMMA GameGrows ==
  ASSUME NEW g \in Seq(Input), NEW r, Records(r, g), Len(r.mSaveData) = Len(g) + 1, NEW input \in Input,
         NEW h, h = Append(g, input)
  PROVE  h \in Seq(Input) /\ Len(h) = Len(g) + 1 /\ Records(r, h)
<1>1. /\ h \in Seq(Input) /\ Len(g) \in Nat /\ Len(h) = Len(g) + 1
      /\ \A i \in 1..Len(g) : h[i] = g[i]
  OBVIOUS
<1>2. InputsOf(r, h)
  <2>1. \A p \in 1..Len(g) : p \in 1..Len(h) /\ Whole(g)[p] = g[p] /\ Whole(h)[p] = h[p]
    <3>1. \A p \in 1..Len(g) : p \in 1..Len(h)
      BY <1>1
    <3>2. \A p \in 1..Len(h) : Whole(h)[p] = h[p]
      BY <1>1, WholeFrames
    <3>3. \A p \in 1..Len(g) : Whole(g)[p] = g[p]
      BY WholeFrames
    <3> QED BY <3>1, <3>2, <3>3
  <2>2. \A p \in 1..Len(g) : r.mSaveData[p + 1] = Whole(g)[p]
    BY <1>1 DEF Records, InputsOf
  <2> QED BY <1>1, <2>1, <2>2 DEF InputsOf
<1>3. ASSUME NEW p \in 0..Len(g)
      PROVE  SubSeq(h, 1, p) = SubSeq(g, 1, p)
  <2>1. p \in 0..Len(h) /\ \A i \in 1..p : i \in 1..Len(g)
    BY <1>1
  <2>2. /\ SubSeq(g, 1, p) \in Seq(Input) /\ Len(SubSeq(g, 1, p)) = p
        /\ SubSeq(h, 1, p) \in Seq(Input) /\ Len(SubSeq(h, 1, p)) = p
        /\ \A i \in 1..p : SubSeq(g, 1, p)[i] = g[i] /\ SubSeq(h, 1, p)[i] = h[i]
    BY <1>1, <2>1, FirstFrames
  <2>3. \A i \in 1..p : SubSeq(h, 1, p)[i] = SubSeq(g, 1, p)[i]
    BY <1>1, <2>1, <2>2
  <2> QED BY <2>2, <2>3, SameSequence
<1>4. StatesOf(r, h)
  <2> SUFFICES ASSUME NEW i \in 1..Len(r.mSavePoints)
               PROVE  /\ r.mSavePoints[i].step <= Len(h) /\ r.mSavePoints[i].step < Len(r.mSaveData)
                      /\ r.mSavePoints[i].state = SubSeq(h, 1, r.mSavePoints[i].step)
    BY DEF StatesOf
  <2>1. r.mSavePoints[i] \in SavePoint
    BY DEF Records, IsRecorder
  <2>2. /\ r.mSavePoints[i].step \in Nat /\ r.mSavePoints[i].step <= Len(g)
        /\ r.mSavePoints[i].step < Len(r.mSaveData)
        /\ r.mSavePoints[i].state = SubSeq(g, 1, r.mSavePoints[i].step)
    BY <2>1 DEF SavePoint, Records, StatesOf
  <2>3. r.mSavePoints[i].step \in 0..Len(g)
    BY <1>1, <2>2
  <2> QED BY <1>1, <1>3, <2>2, <2>3
<1> QED BY <1>1, <1>2, <1>4 DEF Records

(* The idle frames of the end: fewer than a period, after the save point of    *)
(* the point that decided the match.                                           *)
LEMMA Finalized ==
  ASSUME NEW g \in Seq(Input), NEW r, Records(r, g), Len(r.mSaveData) = Len(g) + 1,
         r.mSavePoints # <<>>, r.mSavePoints[Len(r.mSavePoints)].step = Len(g),
         NEW n, n = finalize(r)
  PROVE  Records(n, g) /\ Len(n.mSaveData) = Len(g) + 1 + FillSteps
<1> DEFINE d == r.mSaveData
           e == n.mSaveData
           s == r.mSavePoints
           P == REPLAY_SAVEPOINT_PERIOD
<1>1. IsRecorder(r) /\ d \in Seq(Input) /\ s \in Seq(SavePoint) /\ Len(g) \in Nat /\ Len(d) = Len(g) + 1
      /\ Len(s) \in Nat \ {0}
  <2>1. IsRecorder(r) /\ d \in Seq(Input) /\ s \in Seq(SavePoint) /\ s # <<>>
    BY DEF Records, IsRecorder
  <2> QED BY <2>1
<1>2. P \in Nat \ {0} /\ FillSteps \in Nat /\ FillSteps < P
  BY PeriodAssumption
<1>3. n = [r EXCEPT !.mSaveData = d \o Rest]
  BY DEF finalize, Rest
<1> DEFINE x == d \o Rest
<1> HIDE DEF x
<1>4. n = [mSaveData |-> x, mSavePoints |-> s, mEndScore |-> r.mEndScore]
  BY <1>1, <1>3 DEF IsRecorder, x
<1>5. e = x /\ n.mSavePoints = s /\ n.mEndScore = r.mEndScore
  BY <1>4
<1>6. /\ x \in Seq(Input) /\ Len(x) = Len(g) + 1 + FillSteps
      /\ \A i \in 1..Len(g) + 1 : x[i] = d[i]
      /\ \A i \in 1..FillSteps : x[Len(g) + 1 + i] = Idle
  <2>1. Rest \in [1..FillSteps -> Input] /\ \A i \in 1..FillSteps : Rest[i] = Idle
    BY InputAssumption DEF Rest
  <2> HIDE DEF d
  <2>2. FillSteps \in Int /\ FillSteps >= 0 /\ d \in Seq(Input) /\ Rest \in [1..FillSteps -> Input]
    BY <1>1, <1>2, <2>1
  <2>3. x = d \o Rest
    BY DEF x
  <2>4. /\ d \o Rest \in Seq(Input) /\ Len(d \o Rest) = Len(d) + FillSteps
        /\ \A i \in 1..Len(d) : (d \o Rest)[i] = d[i]
        /\ \A i \in 1..FillSteps : (d \o Rest)[Len(d) + i] = Rest[i]
    BY <2>2, Extended
  <2> QED BY <1>1, <1>2, <2>1, <2>3, <2>4
<1> HIDE DEF d, e, s
<1>7. IsRecorder(n)
  BY <1>1, <1>4, <1>5, <1>6 DEF IsRecorder, e, s
<1>8. InputsOf(n, g)
  <2> SUFFICES ASSUME NEW p \in 1..Len(g) + FillSteps
               PROVE  x[p + 1] = Whole(g)[p]
    BY <1>1, <1>2, <1>5, <1>6 DEF InputsOf, e
  <2>1. CASE p <= Len(g)
    <3>1. p \in 1..Len(d) - 1 /\ p + 1 \in 1..Len(g) + 1
      BY <1>1, <2>1
    <3>2. d[p + 1] = Whole(g)[p]
      BY <3>1 DEF Records, InputsOf, d
    <3> QED BY <1>6, <3>1, <3>2
  <2>2. CASE p > Len(g)
    <3>1. p - Len(g) \in 1..FillSteps /\ Len(g) + (p - Len(g)) = p /\ Len(g) + 1 + (p - Len(g)) = p + 1
      BY <1>1, <1>2, <2>2
    <3>2. x[Len(g) + 1 + (p - Len(g))] = Idle /\ Whole(g)[Len(g) + (p - Len(g))] = Idle
      BY <1>6, <3>1, WholeFrames
    <3> QED BY <3>1, <3>2
  <2> QED BY <1>1, <1>2, <2>1, <2>2
<1>9. \A i \in 1..Len(s) : /\ s[i].step \in Nat /\ s[i].step <= Len(g)
                           /\ s[i].state = SubSeq(g, 1, s[i].step)
  <2>1. \A i \in 1..Len(s) : s[i] \in SavePoint
    BY <1>1
  <2> QED BY <2>1 DEF Records, StatesOf, s, SavePoint
<1>10. StatesOf(n, g) /\ InOrder(n)
  <2>1. \A i \in 1..Len(s) : s[i].step < Len(x)
    BY <1>1, <1>2, <1>6, <1>9
  <2>2. InOrder(n)
    BY <1>5 DEF Records, InOrder, s
  <2> QED BY <1>5, <1>9, <2>1, <2>2 DEF StatesOf, e
<1>11. Dense(n)
  <2> SUFFICES ASSUME NEW k \in Nat, k * P < Len(x)
               PROVE  k + 1 <= Len(s) /\ s[k + 1].step <= k * P
    BY <1>5 DEF Dense, e
  <2>1. \A i \in Nat : i * P < Len(g) + 1 => i + 1 <= Len(s) /\ s[i + 1].step <= i * P
    BY <1>1 DEF Records, Dense, s, d
  <2>2. CASE k * P < Len(g) + 1
    BY <2>1, <2>2
  <2>3. CASE k * P >= Len(g) + 1
    <3>1. k # 0
      BY <1>1, <1>2, <2>3
    <3>2. k - 1 \in Nat /\ k - 1 < k
      BY <3>1
    <3>3. (k - 1) * P + P <= k * P /\ (k - 1) * P \in Nat /\ k * P \in Nat
      BY <1>2, <3>2, Multiples
    <3>4. (k - 1) * P < Len(g)
      BY <1>1, <1>2, <1>6, <3>3
    <3>5. k <= Len(s) /\ s[k].step <= (k - 1) * P
      BY <1>1, <2>1, <3>2, <3>3, <3>4
    <3>6. k # Len(s)
      BY <1>1, <3>3, <3>4, <3>5 DEF s
    <3>7. k + 1 \in 1..Len(s)
      BY <1>1, <3>5, <3>6
    <3>8. s[k + 1].step <= k * P
      BY <1>1, <1>9, <2>3, <3>3, <3>7
    <3> QED BY <3>7, <3>8
  <2>4. k * P \in Nat
    BY <1>2
  <2> QED BY <1>1, <2>2, <2>3, <2>4
<1> QED BY <1>5, <1>6, <1>7, <1>8, <1>10, <1>11 DEF Records, e

-----------------------------------------------------------------------------
(* The inductive invariant.                                                    *)

IInv ==
  /\ TypeOK
  /\ Records(recorder, game)
  /\ points <= Len(game) /\ Len(game) <= MaxFrames
  /\ ~mWinner => mLength = Len(game)
  /\ mWinner => mLength = Len(game) + 1 + FillSteps
  /\ phase = "game" => match = NewMatch /\ mPosition = 0
  /\ phase = "replay" => mLength > 0
  /\ ReplayIsFaithful

LEMMA Lengths ==
  ASSUME IInv
  PROVE  /\ game \in Seq(Input) /\ Len(game) \in Nat /\ mLength \in Nat
         /\ mLength - 1 <= Len(game) + FillSteps
<1>1. game \in Seq(Input) /\ recorder.mSaveData \in Seq(Input) /\ mWinner \in BOOLEAN /\ FillSteps \in Nat
  BY PeriodAssumption DEF IInv, TypeOK
<1>2. Len(game) \in Nat /\ mLength \in Nat
  BY <1>1 DEF mLength
<1>3. mLength = Len(game) \/ mLength = Len(game) + 1 + FillSteps
  BY <1>1 DEF IInv
<1> HIDE DEF mLength
<1> QED BY <1>1, <1>2, <1>3

(* What the loader reads is what the game went through.                        *)
LEMMA RecordedFrames ==
  ASSUME IInv
  PROVE  /\ \A p \in 0..mLength - 1 :
              /\ Recorded(p) \in Seq(Input) /\ Len(Recorded(p)) = p
              /\ \A i \in 1..p : Recorded(p)[i] = Whole(game)[i]
         /\ \A p \in 1..mLength - 1 : getInputAt(p) = Whole(game)[p] /\ getInputAt(p) \in Input
<1>1. game \in Seq(Input) /\ Whole(game) \in Seq(Input) /\ mLength - 1 <= Len(Whole(game))
      /\ Len(Whole(game)) \in Nat /\ mLength \in Nat
  BY Lengths, WholeFrames
<1>2. ASSUME NEW p \in 0..mLength - 1
      PROVE  /\ Recorded(p) \in Seq(Input) /\ Len(Recorded(p)) = p
             /\ \A i \in 1..p : Recorded(p)[i] = Whole(game)[i]
  <2>1. p \in 0..Len(Whole(game))
    BY <1>1
  <2>2. Recorded(p) = SubSeq(Whole(game), 1, p)
    BY DEF Recorded, Whole, Rest
  <2> QED BY <1>1, <2>1, <2>2, FirstFrames
<1>3. ASSUME NEW p \in 1..mLength - 1
      PROVE  getInputAt(p) = Whole(game)[p] /\ getInputAt(p) \in Input
  <2>1. recorder.mSaveData[p + 1] = Whole(game)[p]
    BY <1>3 DEF IInv, Records, InputsOf, mLength
  <2>2. p \in 1..Len(Whole(game))
    BY <1>1
  <2>3. Whole(game)[p] \in Input
    BY <1>1, <2>2
  <2> QED BY <2>1, <2>3 DEF getInputAt
<1> QED BY <1>2, <1>3

LEMMA SavedStates ==
  ASSUME IInv, NEW i \in SavePoints
  PROVE  /\ stepOf(i) \in 0..mLength - 1 /\ stateAt(i) = Recorded(stepOf(i)) /\ stateAt(i) \in Seq(Input)
         /\ \A j \in SavePoints : i < j => stepOf(i) < stepOf(j)
<1> DEFINE s == recorder.mSavePoints
<1>1. s \in Seq(SavePoint) /\ Len(s) \in Nat
  BY DEF IInv, Records, IsRecorder
<1>2. i \in Int /\ i + 1 \in 1..Len(s)
  BY <1>1 DEF SavePoints
<1>3. s[i + 1] \in SavePoint
  BY <1>1, <1>2
<1>4. /\ s[i + 1].step <= Len(game) /\ s[i + 1].step < mLength
      /\ s[i + 1].state = SubSeq(game, 1, s[i + 1].step)
  BY <1>2 DEF IInv, Records, StatesOf, mLength
<1>5. stepOf(i) \in Nat /\ stepOf(i) <= Len(game) /\ stepOf(i) < mLength
      /\ stateAt(i) = SubSeq(game, 1, stepOf(i)) /\ stateAt(i) \in Seq(Input)
  BY <1>3, <1>4 DEF stepOf, stateAt, SavePoint
<1>6. stepOf(i) \in 0..mLength - 1 /\ stepOf(i) \in 0..Len(game)
  BY <1>5, Lengths
<1>7. SubSeq(game, 1, stepOf(i)) = Recorded(stepOf(i))
  <2> DEFINE p == stepOf(i)
             t == SubSeq(game, 1, p)
             u == Recorded(p)
  <2>1. /\ t \in Seq(Input) /\ Len(t) = p /\ \A k \in 1..p : t[k] = game[k]
    BY <1>6, Lengths, FirstFrames
  <2>2. /\ u \in Seq(Input) /\ Len(u) = p /\ \A k \in 1..p : u[k] = Whole(game)[k]
    BY <1>6, RecordedFrames
  <2>3. \A k \in 1..p : k \in 1..Len(game)
    BY <1>6, Lengths
  <2>4. \A k \in 1..p : Whole(game)[k] = game[k]
    BY <2>3, Lengths, WholeFrames
  <2> HIDE DEF t, u, p
  <2>5. t = u
    BY <2>1, <2>2, <2>4, SameSequence
  <2> QED BY <2>5 DEF t, u, p
<1>8. ASSUME NEW j \in SavePoints, i < j
      PROVE  stepOf(i) < stepOf(j)
  <2>1. j + 1 \in 1..Len(s) /\ i + 1 < j + 1
    BY <1>1, <1>2, <1>8 DEF SavePoints
  <2> QED BY <1>2, <2>1 DEF IInv, Records, InOrder, stepOf
<1> QED BY <1>5, <1>6, <1>7, <1>8

(* The search that starts from a guess ends, on the last save point that is    *)
(* not after the target.                                                       *)
LEMMA SavePointFound ==
  ASSUME IInv, NEW target \in Int, firstGuess(target) \in SavePoints
  PROVE  /\ getSavePoint(target) \in SavePoints
         /\ getSavePoint(target) >= firstGuess(target)
         /\ getSavePoint(target) + 1 \in SavePoints => stepOf(getSavePoint(target) + 1) > target
         /\ \A j \in SavePoints :
              firstGuess(target) < j /\ j <= getSavePoint(target) => stepOf(j) <= target
<1> DEFINE a == firstGuess(target)
           G == {i \in SavePoints : i >= a /\ (i + 1 \in SavePoints => stepOf(i + 1) > target)}
           Right(i) == /\ i >= a
                       /\ i + 1 \in SavePoints => stepOf(i + 1) > target
                       /\ \A j \in SavePoints : a < j /\ j <= i => stepOf(j) <= target
           last == Len(recorder.mSavePoints) - 1
<1>1. Len(recorder.mSavePoints) \in Nat
  BY DEF IInv, Records, IsRecorder
<1>2. \A i \in SavePoints : i \in Nat /\ i <= last
  BY <1>1 DEF SavePoints
<1>3. a \in SavePoints /\ last \in SavePoints /\ last + 1 \notin SavePoints /\ last >= a
  BY <1>1, <1>2 DEF SavePoints
<1> HIDE DEF a, last
<1>4. G \in SUBSET Nat /\ last \in G
  BY <1>2, <1>3
<1>5. PICK i \in G : \A k \in G : i <= k
  BY <1>4, Least
<1>6. Right(i)
  <2> SUFFICES ASSUME NEW j \in SavePoints, a < j, j <= i
               PROVE  stepOf(j) <= target
    BY <1>5
  <2>1. j \in Nat /\ a \in Nat /\ i \in Nat /\ i \in SavePoints
    BY <1>2, <1>3, <1>5
  <2>2. j - 1 \in SavePoints /\ j - 1 >= a /\ j - 1 < i /\ (j - 1) + 1 = j
    BY <2>1 DEF SavePoints
  <2>3. j - 1 \notin G
    BY <1>5, <2>1, <2>2
  <2>4. ~(stepOf(j) > target)
    BY <2>2, <2>3
  <2>5. stepOf(j) \in Nat
    BY SavedStates, Lengths
  <2> QED BY <2>4, <2>5
<1>7. getSavePoint(target) = CHOOSE k \in SavePoints : Right(k)
  BY <1>3 DEF getSavePoint, a
<1>8. getSavePoint(target) \in SavePoints /\ Right(getSavePoint(target))
  <2>1. \E k \in SavePoints : Right(k)
    BY <1>5, <1>6
  <2> HIDE DEF Right
  <2> QED BY <1>7, <2>1
<1> QED BY <1>8 DEF a

LEMMA FoundOrNot ==
  ASSUME IInv, NEW target \in Int, getSavePoint(target) # NoSavePoint
  PROVE  getSavePoint(target) \in SavePoints
<1>1. firstGuess(target) \in SavePoints
  BY DEF getSavePoint
<1> QED BY <1>1, SavePointFound

LEMMA LastSavePoint ==
  ASSUME IInv
  PROVE  FindsLastSavePoint
<1> SUFFICES ASSUME NEW p \in 0..mLength - 1
             PROVE  LET i == getSavePoint(p)
                    IN /\ i # NoSavePoint
                       /\ stepOf(i) <= p
                       /\ \A j \in SavePoints : stepOf(j) <= p => stepOf(j) <= stepOf(i)
  BY DEF FindsLastSavePoint
<1> DEFINE P == REPLAY_SAVEPOINT_PERIOD
           k == p \div P
           i == getSavePoint(p)
<1>1. P \in Nat \ {0} /\ mLength \in Nat /\ p \in Nat /\ p < mLength /\ p \in Int
  BY PeriodAssumption, Lengths
<1>2. k \in Nat /\ P * k <= p /\ firstGuess(p) = k
  BY <1>1, Division DEF firstGuess
<1> HIDE DEF k
<1>3. k * P <= p /\ k * P \in Nat /\ k * P < mLength
  BY <1>1, <1>2
<1>4. k + 1 <= Len(recorder.mSavePoints) /\ recorder.mSavePoints[k + 1].step <= k * P
  BY <1>2, <1>3 DEF IInv, Records, Dense, mLength
<1>5. Len(recorder.mSavePoints) \in Nat
  BY DEF IInv, Records, IsRecorder
<1>6. k \in SavePoints
  BY <1>2, <1>4, <1>5 DEF SavePoints
<1>7. stepOf(k) <= p
  <2>1. stepOf(k) \in Nat /\ stepOf(k) <= k * P
    BY <1>4, <1>6, SavedStates, Lengths DEF stepOf
  <2> QED BY <1>1, <1>3, <2>1
<1>8. /\ i \in SavePoints /\ i >= k
      /\ i + 1 \in SavePoints => stepOf(i + 1) > p
      /\ \A j \in SavePoints : k < j /\ j <= i => stepOf(j) <= p
  BY <1>1, <1>2, <1>6, SavePointFound
<1> HIDE DEF i
<1>9. i # NoSavePoint /\ \A j \in SavePoints : j \in Nat /\ j <= Len(recorder.mSavePoints) - 1
  BY <1>5, <1>8 DEF SavePoints, NoSavePoint
<1>10. stepOf(i) <= p
  BY <1>2, <1>7, <1>8, <1>9
<1>11. ASSUME NEW j \in SavePoints, stepOf(j) <= p
       PROVE  stepOf(j) <= stepOf(i)
  <2>1. j \in Nat /\ i \in Nat /\ stepOf(i) \in Nat /\ stepOf(j) \in Nat
    BY <1>8, <1>9, SavedStates, Lengths
  <2>2. CASE j = i
    BY <2>1, <2>2
  <2>3. CASE j < i
    BY <1>8, <2>1, <2>3, SavedStates
  <2>4. CASE i < j
    <3>1. i + 1 \in SavePoints
      BY <1>5, <1>9, <2>1, <2>4 DEF SavePoints
    <3>2. stepOf(i + 1) > p /\ stepOf(i + 1) \in Nat
      BY <1>8, <3>1, SavedStates, Lengths
    <3>3. stepOf(i + 1) <= stepOf(j)
      <4>1. CASE j = i + 1
        BY <3>2, <4>1
      <4>2. CASE i + 1 < j
        BY <2>1, <3>1, <3>2, <4>2, SavedStates
      <4> QED BY <2>1, <2>4, <4>1, <4>2
    <3> QED BY <1>1, <1>11, <2>1, <3>2, <3>3
  <2> QED BY <2>1, <2>2, <2>3, <2>4
<1> QED BY <1>9, <1>10, <1>11 DEF i

-----------------------------------------------------------------------------
(* Playing.                                                                    *)

Match == [frames : Seq(Input \cup {Unheard}), deaf : BOOLEAN]

ShownAt(p) == IF p < mLength THEN p ELSE mLength - 1

(* A player whose match is where its position says, unless it is deaf.         *)
Faithful(r) ==
  /\ r.position \in Nat /\ r.match \in Match
  /\ r.match.deaf = FALSE => r.match.frames = Recorded(ShownAt(r.position))

(* A match m that has gone through the frames from one to another is n.        *)
Stepped(m, n, from, to) ==
  /\ n \in Match /\ n.deaf = m.deaf
  /\ to < from => n.frames = m.frames
  /\ m.deaf = FALSE /\ m.frames = Recorded(from - 1) /\ to >= from - 1 => n.frames = Recorded(to)

Steppable(m, from, to) == m \in Match /\ from \in Nat /\ from > 0 /\ to \in Int /\ to <= mLength - 1

LEMMA MatchSteps ==
  ASSUME IInv, NEW m, NEW from, NEW to, Steppable(m, from, to), NEW n, n = matchSteps(m, from, to)
  PROVE  Stepped(m, n, from, to)
<1> USE DEF Steppable
<1> DEFINE S == Input \cup {Unheard}
           k == to - from + 1
           added == [i \in 1..k |-> IF m.deaf THEN Unheard ELSE getInputAt(from + i - 1)]
           s == m.frames
           t == s \o added
<1>1. s \in Seq(S) /\ m.deaf \in BOOLEAN /\ m = [frames |-> s, deaf |-> m.deaf] /\ k \in Int
  BY DEF Match
<1>2. n = [m EXCEPT !.frames = t]
  BY DEF matchSteps
<1>3. mLength \in Nat
  BY Lengths
<1>4. \A i \in 1..k : from + i - 1 \in 1..mLength - 1
  BY <1>3
<1>5. added \in [1..k -> S]
  <2> SUFFICES ASSUME NEW i \in 1..k
               PROVE  (IF m.deaf THEN Unheard ELSE getInputAt(from + i - 1)) \in S
    OBVIOUS
  <2>1. getInputAt(from + i - 1) \in Input
    BY <1>4, RecordedFrames
  <2> QED BY <2>1
<1>6. m.deaf = FALSE => \A i \in 1..k : added[i] = getInputAt(from + i - 1)
  OBVIOUS
<1> HIDE DEF added
<1>7. /\ t \in Seq(S) /\ Len(s) \in Nat
      /\ k >= 0 => Len(t) = Len(s) + k
      /\ k < 0 => Len(t) = Len(s)
      /\ \A i \in 1..Len(s) : t[i] = s[i]
      /\ \A i \in 1..k : t[Len(s) + i] = added[i]
  <2> HIDE DEF S, k, s
  <2>1. Len(s) \in Nat
    BY <1>1
  <2> QED BY <1>1, <1>5, <2>1, Extended
<1> HIDE DEF t
<1>8. n.frames = t /\ n.deaf = m.deaf /\ n = [frames |-> t, deaf |-> m.deaf]
  BY <1>1, <1>2
<1>9. n \in Match
  BY <1>1, <1>7, <1>8 DEF Match
<1>10. ASSUME to < from
       PROVE  t = s
  <2>1. k <= 0
    BY <1>10
  <2>2. Len(t) = Len(s)
    BY <1>1, <1>7, <2>1
  <2> HIDE DEF S, s
  <2> QED BY <1>1, <1>7, <2>2, SameSequence
<1>11. ASSUME m.deaf = FALSE, s = Recorded(from - 1), to >= from - 1
       PROVE  t = Recorded(to)
  <2> DEFINE u == Recorded(to)
  <2>1. from - 1 \in 0..mLength - 1 /\ to \in 0..mLength - 1
    BY <1>3, <1>11
  <2>2. Len(s) = from - 1 /\ \A i \in 1..from - 1 : s[i] = Whole(game)[i]
    BY <1>11, <2>1, RecordedFrames
  <2>3. u \in Seq(Input) /\ Len(u) = to /\ \A i \in 1..to : u[i] = Whole(game)[i]
    BY <2>1, RecordedFrames
  <2>4. Len(t) = to
    BY <1>7, <1>11, <2>2
  <2>5. ASSUME NEW i \in 1..to
        PROVE  t[i] = Whole(game)[i]
    <3>1. CASE i <= from - 1
      <4>1. i \in 1..from - 1
        BY <3>1
      <4> QED BY <1>7, <2>2, <4>1
    <3>2. CASE i >= from
      <4>1. i - from + 1 \in 1..k /\ from + (i - from + 1) - 1 = i /\ (from - 1) + (i - from + 1) = i
            /\ i \in 1..mLength - 1
        BY <1>3, <3>2
      <4>2. t[(from - 1) + (i - from + 1)] = getInputAt(from + (i - from + 1) - 1)
        BY <1>6, <1>7, <1>11, <2>2, <4>1
      <4>3. getInputAt(i) = Whole(game)[i]
        BY <4>1, RecordedFrames
      <4> QED BY <4>1, <4>2, <4>3
    <3> QED BY <3>1, <3>2
  <2> HIDE DEF u
  <2>6. u \in Seq(S)
    BY <2>3
  <2>7. \A i \in 1..Len(t) : t[i] = u[i]
    BY <2>3, <2>4, <2>5
  <2> HIDE DEF S
  <2>8. t = u
    BY <1>7, <2>3, <2>4, <2>6, <2>7, SameSequence
  <2> QED BY <2>8 DEF u
<1> QED BY <1>8, <1>9, <1>10, <1>11 DEF Stepped

LEMMA SetState ==
  ASSUME IInv, NEW m \in Match, NEW i \in SavePoints
  PROVE  /\ setState(m, stateAt(i)) \in Match
         /\ setState(m, stateAt(i)).frames = Recorded(stepOf(i))
<1>1. stateAt(i) \in Seq(Input) /\ stateAt(i) = Recorded(stepOf(i))
  BY SavedStates
<1>2. stateAt(i) \in Seq(Input \cup {Unheard})
  BY <1>1
<1>3. m = [frames |-> m.frames, deaf |-> m.deaf] /\ m.deaf \in BOOLEAN
  BY DEF Match
<1>4. setState(m, stateAt(i)) = [frames |-> stateAt(i), deaf |-> m.deaf]
  BY <1>3 DEF setState
<1> QED BY <1>1, <1>2, <1>3, <1>4 DEF Match

LEMMA Plays ==
  ASSUME IInv, mLength > 0, NEW r, Faithful(r), NEW n \in Nat
  PROVE  Faithful(plays(r, n)) /\ plays(r, n).position = r.position + n
<1> DEFINE end    == IF r.position + n < mLength THEN r.position + n ELSE mLength - 1
           passed == {p \in r.position + 1..end : isSavePoint(p)}
           from   == IF passed = {} THEN r.position
                     ELSE CHOOSE p \in passed : \A q \in passed : q <= p
           known  == IF passed = {} THEN r.match ELSE setState(r.match, stateAt(getSavePoint(from)))
           next   == matchSteps(known, from + 1, end)
<1>1. plays(r, n) = [position |-> r.position + n, match |-> next]
  BY DEF plays
<1>2. r.position \in Nat /\ r.match \in Match /\ mLength \in Nat
  BY Lengths DEF Faithful
<1>3. end \in Nat /\ end <= mLength - 1 /\ end = ShownAt(r.position + n)
  BY <1>2 DEF ShownAt
<1>4. r.position < mLength => end >= r.position
  BY <1>2
<1> HIDE DEF end
<1>5. /\ from \in Nat /\ known \in Match /\ end \in Int
      /\ known.deaf = FALSE =>
           \/ known.frames = Recorded(from) /\ end >= from
           \/ known.frames = Recorded(end) /\ end < from
  <2>1. CASE passed = {}
    <3>1. from = r.position /\ known = r.match
      BY <2>1
    <3> HIDE DEF from, known, passed
    <3>2. CASE r.position < mLength
      BY <1>2, <1>3, <1>4, <3>1, <3>2 DEF Faithful, ShownAt
    <3>3. CASE ~(r.position < mLength)
      <4>1. end = mLength - 1 /\ end < r.position
        BY <1>2, <1>3, <3>3 DEF ShownAt
      <4> QED BY <1>2, <1>3, <3>1, <3>3, <4>1 DEF Faithful, ShownAt
    <3> QED BY <3>2, <3>3
  <2>2. CASE passed # {}
    <3>1. passed \in SUBSET (1..end)
      BY <1>2, <1>3
    <3>2. from = CHOOSE p \in passed : \A q \in passed : q <= p
      BY <2>2
    <3>3. known = setState(r.match, stateAt(getSavePoint(from)))
      BY <2>2
    <3>4. \A p \in passed : isSavePoint(p)
      OBVIOUS
    <3> HIDE DEF passed, from, known
    <3>5. \E p \in passed : \A q \in passed : q <= p
      BY <1>3, <2>2, <3>1, LastPosition
    <3>6. from \in passed
      BY <3>2, <3>5
    <3>7. from \in 1..end /\ isSavePoint(from)
      BY <3>1, <3>4, <3>6
    <3>8. from \in Int /\ getSavePoint(from) \in SavePoints /\ stepOf(getSavePoint(from)) = from
      BY <3>7, FoundOrNot DEF isSavePoint
    <3>9. known \in Match /\ known.frames = Recorded(from)
      BY <1>2, <3>3, <3>8, SetState
    <3> QED BY <1>3, <3>7, <3>9
  <2> QED BY <2>1, <2>2
<1> HIDE DEF from, known
<1> DEFINE first == from + 1
<1>6. first \in Nat \ {0} /\ first - 1 = from /\ next = matchSteps(known, first, end)
  BY <1>5
<1> HIDE DEF first, next
<1>7. /\ next \in Match /\ next.deaf = known.deaf
      /\ end < from + 1 => next.frames = known.frames
      /\ known.deaf = FALSE /\ known.frames = Recorded(from) /\ end >= from => next.frames = Recorded(end)
  <2> HIDE DEF passed
  <2>1. Steppable(known, first, end)
    BY <1>3, <1>5, <1>6 DEF Steppable
  <2>2. Stepped(known, next, first, end)
    BY <1>6, <2>1, MatchSteps
  <2> QED BY <1>5, <1>6, <2>2 DEF first, Stepped
<1>8. next.deaf = FALSE => next.frames = Recorded(end)
  BY <1>5, <1>7
<1> DEFINE res == plays(r, n)
<1>9. res.position = r.position + n /\ res.match = next
  BY <1>1
<1> HIDE DEF res
<1>10. Faithful(res)
  BY <1>2, <1>3, <1>7, <1>8, <1>9 DEF Faithful
<1> QED BY <1>9, <1>10 DEF res

LEMMA Going ==
  ASSUME IInv, mLength > 0, NEW r, Faithful(r), NEW target \in Int
  PROVE  Faithful(gotoPlayingPosition(r, target).player)
<1> DEFINE back == jumpBack(r, target)
           start == startAgain(back, target)
           needed == framesTo(start.position, target)
           n == IF needed < StepsPerCall THEN needed ELSE StepsPerCall
<1>1. Faithful(back)
  <2> DEFINE sp == getSavePoint(target)
             t == [position |-> stepOf(sp), match |-> setState(r.match, stateAt(sp))]
  <2>1. back = r \/ (sp # NoSavePoint /\ back = t)
    BY DEF jumpBack
  <2>2. ASSUME sp # NoSavePoint
        PROVE  Faithful(t)
    <3>1. sp \in SavePoints
      BY <2>2, FoundOrNot
    <3> DEFINE s == setState(r.match, stateAt(sp))
    <3>2. s \in Match /\ s.frames = Recorded(stepOf(sp)) /\ stepOf(sp) \in 0..mLength - 1
      BY <3>1, SetState, SavedStates DEF Faithful
    <3>3. t.position = stepOf(sp) /\ t.match = s
      OBVIOUS
    <3> HIDE DEF s, t, sp
    <3> QED BY <3>2, <3>3, Lengths DEF Faithful, ShownAt
  <2> HIDE DEF back, t, sp
  <2> QED BY <2>1, <2>2
<1> HIDE DEF back
<1>2. Faithful(start)
  <2> DEFINE t == [position |-> 0, match |-> reset(back.match)]
  <2>1. start = back \/ start = t
    BY DEF startAgain
  <2>2. t.position = 0 /\ t.match = [frames |-> <<>>, deaf |-> TRUE]
    BY DEF reset
  <2>3. [frames |-> <<>>, deaf |-> TRUE] \in Match
    BY DEF Match
  <2> HIDE DEF t, start
  <2>4. Faithful(t)
    BY <2>2, <2>3 DEF Faithful
  <2> QED BY <1>1, <2>1, <2>4
<1> HIDE DEF start
<1>3. needed \in Nat
  <2>1. start.position \in Nat /\ mLength \in Nat
    BY <1>2, Lengths DEF Faithful
  <2> QED BY <2>1 DEF framesTo, endOfFile
<1> HIDE DEF needed
<1>4. n \in Nat
  BY <1>3, PeriodAssumption
<1>5. gotoPlayingPosition(r, target).player = plays(start, n)
  BY DEF gotoPlayingPosition, start, back, needed
<1> QED BY <1>2, <1>4, <1>5, Plays

-----------------------------------------------------------------------------
(* Every step keeps the invariant.                                             *)

LEMMA InitInv ==
  ASSUME Init
  PROVE  IInv
<1> DEFINE r == recorder
<1>1. r = [mSaveData |-> <<>>, mSavePoints |-> <<>>, mEndScore |-> r.mEndScore] /\ r.mEndScore \in 0..1
  BY DEF Init
<1>2. r.mSaveData = <<>> /\ r.mSavePoints = <<>> /\ r.mEndScore \in Nat
  BY <1>1
<1>3. <<>> \in Seq(Input) /\ <<>> \in Seq(SavePoint) /\ Len(<<>>) = 0
  OBVIOUS
<1>4. IsRecorder(r)
  BY <1>1, <1>2, <1>3 DEF IsRecorder
<1>5. \A k \in Nat : ~(k * REPLAY_SAVEPOINT_PERIOD < 0)
  BY PeriodAssumption
<1>6. InputsOf(r, game) /\ StatesOf(r, game) /\ InOrder(r)
  BY <1>2, <1>3 DEF InputsOf, StatesOf, InOrder
<1>7. Dense(r)
  BY <1>2, <1>3, <1>5 DEF Dense
<1> HIDE DEF r
<1>8. Records(r, game)
  BY <1>4, <1>6, <1>7 DEF Records
<1>9. game \in Seq(Input) /\ Len(game) = 0 /\ points = 0 /\ mWinner = FALSE /\ mLength = 0
  BY <1>2, <1>3 DEF Init, mLength, r
<1>10. NewMatch \in [frames : Seq(Input \cup {Unheard}), deaf : BOOLEAN]
  BY DEF NewMatch
<1>11. TypeOK
  <2>1. recorder.mSaveData \in Seq(Input) /\ recorder.mSavePoints \in Seq(SavePoint) /\ recorder.mEndScore \in Nat
    BY <1>2, <1>3 DEF r
  <2>2. /\ match \in [frames : Seq(Input \cup {Unheard}), deaf : BOOLEAN]
        /\ game \in Seq(Input) /\ points \in 0..MaxFrames /\ clicks \in 0..MaxClicks
    BY <1>9, <1>10, BoundAssumption DEF Init
  <2>3. /\ phase \in {"game", "replay"} /\ mPosition \in Nat /\ mPositionJump \in Int
        /\ mSpeedValue \in 1..MaxSpeed /\ mSpeedTimer \in 0..NormalSpeed + MaxSpeed
    BY SpeedAssumption DEF Init
  <2>4. mWinner \in BOOLEAN /\ mPaused \in BOOLEAN /\ tick \in BOOLEAN
    BY DEF Init
  <2> QED BY <2>1, <2>2, <2>3, <2>4 DEF TypeOK, SavePoint
<1>12. ReplayIsFaithful
  BY DEF Init, ReplayIsFaithful, ShowsTheGame
<1> QED BY <1>8, <1>9, <1>11, <1>12, BoundAssumption DEF IInv, Init, r

(* The state that decides the match is recorded with its save point.           *)
LEMMA LastRecord ==
  ASSUME NEW g \in Seq(Input), NEW r, Records(r, g), Len(r.mSaveData) = Len(g), NEW score \in Nat,
         r.mEndScore # score, NEW n, n = finalize(record(r, g, score))
  PROVE  Records(n, g) /\ Len(n.mSaveData) = Len(g) + 1 + FillSteps
<1> DEFINE last == record(r, g, score)
<1>1. /\ Records(last, g) /\ Len(last.mSaveData) = Len(g) + 1
      /\ last.mSavePoints # <<>> /\ last.mSavePoints[Len(last.mSavePoints)].step = Len(g)
  BY RecordFrame
<1>2. n = finalize(last)
  OBVIOUS
<1> HIDE DEF last
<1> QED BY <1>1, <1>2, Finalized

(* The recorder has seen every state of a match that goes on, and the last one *)
(* of a match that is over, before the idle frames.                            *)
LEMMA GameFrameRecords ==
  ASSUME IInv, NEW input \in Input, NEW point \in BOOLEAN, NEW won \in BOOLEAN,
         GameFrame(input, point, won)
  PROVE  /\ game' \in Seq(Input) /\ Len(game') = Len(game) + 1
         /\ Records(recorder', game')
         /\ won = FALSE => Len(recorder'.mSaveData) = Len(game')
         /\ won = TRUE => Len(recorder'.mSaveData) = Len(game') + 1 + FillSteps
<1> DEFINE before == record(recorder, game, points)
           after  == record(before, game', points')
           score  == points'
           h      == game'
<1>1. game \in Seq(Input) /\ Records(recorder, game) /\ points \in Nat
  BY BoundAssumption DEF IInv, TypeOK
<1>2. Len(recorder.mSaveData) = Len(game)
  BY DEF IInv, GameFrame, mLength
<1>3. Records(before, game) /\ Len(before.mSaveData) = Len(game) + 1 /\ before.mEndScore = points
  BY <1>1, <1>2, RecordFrame
<1>4. h = Append(game, input) /\ score \in Nat /\ (won = TRUE => score = points + 1)
  BY <1>1 DEF GameFrame
<1>5. recorder' = IF won THEN finalize(after) ELSE before
  BY DEF GameFrame
<1> HIDE DEF before, score, h
<1>6. h \in Seq(Input) /\ Len(h) = Len(game) + 1 /\ Records(before, h)
  BY <1>1, <1>3, <1>4, GameGrows
<1>7. CASE won = FALSE
  BY <1>3, <1>5, <1>6, <1>7 DEF h
<1>8. CASE won = TRUE
  <2>1. Len(before.mSaveData) = Len(h) /\ before.mEndScore # score
    BY <1>1, <1>3, <1>4, <1>6, <1>8
  <2>2. recorder' = finalize(record(before, h, score))
    BY <1>5, <1>8 DEF h, score
  <2>3. Records(recorder', h) /\ Len(recorder'.mSaveData) = Len(h) + 1 + FillSteps
    BY <1>4, <1>6, <2>1, <2>2, LastRecord
  <2> QED BY <1>6, <1>8, <2>3 DEF h
<1> QED BY <1>7, <1>8

LEMMA GameFrameInv ==
  ASSUME IInv, NEW input \in Input, NEW point \in BOOLEAN, NEW won \in BOOLEAN,
         GameFrame(input, point, won)
  PROVE  IInv'
<1>1. /\ game' \in Seq(Input) /\ Len(game') = Len(game) + 1
      /\ Records(recorder', game')
      /\ won = FALSE => Len(recorder'.mSaveData) = Len(game')
      /\ won = TRUE => Len(recorder'.mSaveData) = Len(game') + 1 + FillSteps
  BY GameFrameRecords
<1>2. mWinner' = won /\ phase = "game" /\ phase' = "game" /\ UNCHANGED replay
  BY DEF GameFrame
<1>3. Len(game) \in Nat /\ Len(game) < MaxFrames /\ points \in Nat /\ points <= Len(game)
  BY Lengths, BoundAssumption DEF GameFrame, IInv, TypeOK
<1>4. points' \in Nat /\ points' <= Len(game')
  BY <1>1, <1>3 DEF GameFrame
<1>5. points' \in 0..MaxFrames /\ Len(game') <= MaxFrames
  BY <1>1, <1>3, <1>4, BoundAssumption
<1>6. IsRecorder(recorder')
  BY <1>1 DEF Records
<1>7. TypeOK'
  BY <1>1, <1>2, <1>5, <1>6 DEF IInv, TypeOK, IsRecorder, SavePoint, replay, speed
<1>8. mLength' = Len(recorder'.mSaveData)
  BY DEF mLength
<1>9. (~mWinner => mLength = Len(game))' /\ (mWinner => mLength = Len(game) + 1 + FillSteps)'
  BY <1>1, <1>2, <1>8
<1>10. (phase = "game" => match = NewMatch /\ mPosition = 0)'
  BY <1>2 DEF IInv, replay, NewMatch
<1>11. ReplayIsFaithful' /\ (phase = "replay" => mLength > 0)'
  BY <1>2 DEF ReplayIsFaithful, ShowsTheGame
<1> QED BY <1>1, <1>4, <1>5, <1>7, <1>9, <1>10, <1>11 DEF IInv

LEMMA WatchInv ==
  ASSUME IInv, Watch
  PROVE  IInv'
<1>1. /\ phase = "game" /\ phase' = "replay" /\ UNCHANGED <<recording, replay>>
      /\ recorder.mSaveData # <<>>
  BY DEF Watch
<1>2. match = NewMatch /\ mPosition = 0
  BY <1>1 DEF IInv
<1>3. mLength \in Nat /\ mLength > 0
  <2>1. recorder.mSaveData \in Seq(Input)
    BY DEF IInv, TypeOK
  <2> QED BY <1>1, <2>1 DEF mLength
<1>4. Recorded(0) = <<>>
  <2>1. Recorded(0) \in Seq(Input) /\ Len(Recorded(0)) = 0
    BY <1>3, RecordedFrames
  <2> QED BY <2>1
<1>5. mLength' = mLength /\ Recorded(0)' = Recorded(0) /\ Shown' = 0
  BY <1>1, <1>2, <1>3 DEF mLength, Recorded, recording, replay, Shown
<1>6. match' = NewMatch
  BY <1>1, <1>2 DEF replay
<1>7. ReplayIsFaithful'
  <2>1. match'.frames = <<>>
    BY <1>6 DEF NewMatch
  <2>2. Recorded(Shown)' = <<>>
    BY <1>1, <1>4, <1>5 DEF Recorded, recording
  <2> QED BY <2>1, <2>2 DEF ReplayIsFaithful, ShowsTheGame
<1>8. TypeOK'
  BY <1>1 DEF IInv, TypeOK, recording, replay, speed
<1> QED BY <1>1, <1>3, <1>5, <1>7, <1>8 DEF IInv, recording

-----------------------------------------------------------------------------
(* In a replay only the player and the controls change.                        *)

Controls ==
  /\ mPositionJump \in Int /\ mPaused \in BOOLEAN
  /\ mSpeedValue \in 1..MaxSpeed /\ mSpeedTimer \in 0..NormalSpeed + MaxSpeed
  /\ tick \in BOOLEAN /\ clicks \in 0..MaxClicks

LEMMA PlayerIsFaithful ==
  ASSUME IInv, phase = "replay"
  PROVE  Faithful(player) /\ mLength > 0 /\ Controls
<1> DEFINE r == player
<1>1. r.position = mPosition /\ r.match = match
  BY DEF player
<1>2. mPosition \in Nat /\ match \in Match
  BY DEF IInv, TypeOK, Match
<1>3. match.deaf = FALSE => match.frames = Recorded(ShownAt(mPosition))
  BY DEF IInv, ReplayIsFaithful, ShowsTheGame, Shown, ShownAt
<1> HIDE DEF r
<1>4. Faithful(r)
  BY <1>1, <1>2, <1>3 DEF Faithful
<1> QED BY <1>4 DEF r, IInv, TypeOK, Controls

LEMMA Moves ==
  ASSUME IInv, phase = "replay", UNCHANGED <<phase, recording>>, NEW r, Faithful(r), MoveTo(r), Controls'
  PROVE  IInv'
<1>1. mPosition' = r.position /\ match' = r.match /\ r.position \in Nat /\ r.match \in Match
  BY DEF MoveTo, Faithful
<1>2. mLength' = mLength /\ game' = game /\ phase' = "replay"
  BY DEF mLength, recording
<1>3. TypeOK'
  BY <1>1 DEF IInv, TypeOK, recording, Controls, Match
<1>4. ReplayIsFaithful'
  <2> SUFFICES ASSUME match'.deaf = FALSE
               PROVE  match'.frames = Recorded(Shown)'
    <3>1. match'.deaf \in BOOLEAN
      BY <1>1 DEF Match
    <3> QED BY <3>1 DEF ReplayIsFaithful, ShowsTheGame
  <2>1. match'.frames = Recorded(ShownAt(r.position))
    BY <1>1 DEF Faithful
  <2>2. Shown' = ShownAt(r.position)
    BY <1>1, <1>2 DEF Shown, ShownAt
  <2>3. Recorded(Shown)' = Recorded(ShownAt(r.position))
    BY <1>2, <2>2 DEF Recorded
  <2> QED BY <2>1, <2>3
<1> QED BY <1>2, <1>3, <1>4 DEF IInv, recording

LEMMA JumpInv ==
  ASSUME IInv, Jump
  PROVE  IInv'
<1> DEFINE r == gotoPlayingPosition(player, mPositionJump).player
<1>1. phase = "replay" /\ UNCHANGED <<phase, recording, mPaused, speed, clicks>> /\ tick' = ~tick
  BY DEF Jump, Tick
<1>2. Faithful(player) /\ mLength > 0 /\ Controls
  BY <1>1, PlayerIsFaithful
<1>3. mPositionJump \in Int
  BY <1>2 DEF Controls
<1>4. Faithful(r)
  BY <1>2, <1>3, Going
<1>5. MoveTo(r) /\ (mPositionJump' = -1 \/ mPositionJump' = mPositionJump)
  BY DEF Jump
<1> HIDE DEF r
<1>6. Controls'
  BY <1>1, <1>2, <1>5 DEF Controls, speed
<1> QED BY <1>1, <1>4, <1>5, <1>6, Moves

LEMMA PlayInv ==
  ASSUME IInv, Play
  PROVE  IInv'
<1> DEFINE n == mSpeedTimer \div NormalSpeed
           r == plays(player, n)
<1>1. phase = "replay" /\ UNCHANGED <<phase, recording, mPositionJump, mSpeedValue, clicks>> /\ tick' = ~tick
  BY DEF Play, Tick
<1>2. Faithful(player) /\ mLength > 0 /\ Controls
  BY <1>1, PlayerIsFaithful
<1>3. /\ MoveTo(r) /\ mPaused' \in BOOLEAN
      /\ mSpeedTimer' = (mSpeedTimer % NormalSpeed) + mSpeedValue
  BY DEF Play
<1>4. mSpeedTimer \in Nat /\ NormalSpeed \in Nat \ {0} /\ MaxSpeed \in Nat
  BY <1>2, SpeedAssumption DEF Controls
<1>5. n \in Nat /\ mSpeedTimer % NormalSpeed \in Nat /\ mSpeedTimer % NormalSpeed < NormalSpeed
  BY <1>4, Division
<1> HIDE DEF n
<1>6. Faithful(r)
  BY <1>2, <1>5, Plays
<1> HIDE DEF r
<1>7. mSpeedTimer' \in 0..NormalSpeed + MaxSpeed
  BY <1>2, <1>3, <1>4, <1>5 DEF Controls
<1>8. Controls'
  BY <1>1, <1>2, <1>3, <1>7 DEF Controls
<1> QED BY <1>1, <1>3, <1>6, <1>8, Moves

LEMMA ClickInv ==
  ASSUME IInv, Click,
         mPositionJump' \in Int, mPaused' \in BOOLEAN, mSpeedValue' \in 1..MaxSpeed
  PROVE  IInv'
<1>1. /\ phase = "replay" /\ UNCHANGED <<phase, recording, match, mPosition, mSpeedTimer, tick>>
      /\ clicks < MaxClicks /\ clicks' = clicks + 1
  BY DEF Click
<1>2. Faithful(player) /\ Controls
  BY <1>1, PlayerIsFaithful
<1>3. MoveTo(player)
  BY <1>1 DEF MoveTo, player
<1>4. Controls'
  BY <1>1, <1>2, BoundAssumption DEF Controls
<1> QED BY <1>1, <1>2, <1>3, <1>4, Moves

LEMMA ClicksInv ==
  ASSUME IInv, ClickBar \/ ClickPause \/ ClickFaster \/ ClickSlower \/ ShowAgain
  PROVE  IInv'
<1>1. Click
  BY DEF ClickBar, ClickPause, ClickFaster, ClickSlower, ShowAgain
<1>2. Controls
  BY <1>1, PlayerIsFaithful DEF Click
<1>3. mLength \in Nat /\ MaxSpeed \in Nat
  BY Lengths, SpeedAssumption
<1>4. CASE ClickBar
  <2>1. mPositionJump' \in Int
    BY <1>3, <1>4 DEF ClickBar, Targets
  <2> QED BY <1>1, <1>2, <1>4, <2>1, ClickInv DEF ClickBar, Controls
<1>5. CASE ClickPause
  <2>1. mPositionJump' \in Int
    BY <1>2, <1>5 DEF ClickPause, Controls
  <2>2. mPaused' \in BOOLEAN
    BY <1>5 DEF ClickPause
  <2> QED BY <1>1, <1>2, <1>5, <2>1, <2>2, ClickInv DEF ClickPause, Controls
<1>6. CASE ClickFaster
  <2>1. mSpeedValue' \in 1..MaxSpeed
    BY <1>2, <1>3, <1>6 DEF ClickFaster, Controls
  <2> QED BY <1>1, <1>2, <1>6, <2>1, ClickInv DEF ClickFaster, Controls
<1>7. CASE ClickSlower
  <2>1. mSpeedValue \in 1..MaxSpeed /\ mSpeedValue \in Nat
    BY <1>2, <1>3 DEF Controls
  <2>2. slower \in 1..MaxSpeed
    <3>1. CASE mSpeedValue = 1
      BY <1>3, <2>1, <3>1 DEF slower
    <3>2. CASE mSpeedValue # 1
      <4>1. slower = mSpeedValue \div 2
        BY <3>2 DEF slower
      <4>2. mSpeedValue \div 2 \in 1..mSpeedValue
        BY <2>1, <3>2
      <4> QED BY <1>3, <2>1, <4>1, <4>2
    <3> QED BY <3>1, <3>2
  <2>3. mSpeedValue' \in 1..MaxSpeed
    BY <1>7, <2>2 DEF ClickSlower
  <2> QED BY <1>1, <1>2, <1>7, <2>3, ClickInv DEF ClickSlower, Controls
<1>8. CASE ShowAgain
  <2>1. mPositionJump' = 0 /\ mPaused' = FALSE /\ mSpeedValue' = mSpeedValue
    BY <1>8 DEF ShowAgain
  <2>2. mPositionJump' \in Int /\ mSpeedValue' \in 1..MaxSpeed
    BY <1>2, <2>1 DEF Controls
  <2>3. mPaused' \in BOOLEAN
    BY <2>1
  <2> QED BY <1>1, <2>2, <2>3, ClickInv
<1> QED BY <1>4, <1>5, <1>6, <1>7, <1>8, <1>1

LEMMA NextInv ==
  ASSUME IInv, [Next]_vars
  PROVE  IInv'
<1>1. ASSUME NEW input \in Input, NEW point \in BOOLEAN, NEW won \in BOOLEAN, GameFrame(input, point, won)
      PROVE  IInv'
  BY <1>1, GameFrameInv
<1>2. CASE Watch
  BY <1>2, WatchInv
<1>3. CASE Frame
  BY <1>3, JumpInv, PlayInv DEF Frame
<1>4. CASE ClickBar \/ ClickPause \/ ClickFaster \/ ClickSlower \/ ShowAgain
  BY <1>4, ClicksInv
<1>5. CASE UNCHANGED vars
  <2>1. /\ phase' = phase /\ game' = game /\ points' = points /\ mWinner' = mWinner /\ recorder' = recorder
        /\ match' = match /\ mPosition' = mPosition /\ mPositionJump' = mPositionJump /\ mPaused' = mPaused
        /\ mSpeedValue' = mSpeedValue /\ mSpeedTimer' = mSpeedTimer /\ tick' = tick /\ clicks' = clicks
    BY <1>5 DEF vars, recording, speed
  <2>2. TypeOK'
    BY <2>1 DEF IInv, TypeOK
  <2>3. mLength' = mLength /\ Shown' = Shown /\ Recorded(Shown)' = Recorded(Shown)
    BY <2>1 DEF mLength, Shown, Recorded
  <2>4. ReplayIsFaithful'
    BY <2>1, <2>3 DEF IInv, ReplayIsFaithful, ShowsTheGame
  <2> QED BY <2>1, <2>2, <2>3, <2>4 DEF IInv, NewMatch
<1> QED BY <1>1, <1>2, <1>3, <1>4, <1>5 DEF Next

LEMMA Invariance == Spec => []IInv
<1>1. Init => IInv
  BY InitInv
<1>2. IInv /\ [Next]_vars => IInv'
  BY NextInv
<1> QED BY <1>1, <1>2, PTL DEF Spec

-----------------------------------------------------------------------------
(* The theorems.                                                               *)

(* The recorder, the loader, the player and the controls of the replay keep    *)
(* values of their types: no position before the start is ever shown, and the  *)
(* speed never falls to zero (ReplayState.cpp, ReplayPlayer.cpp).              *)
THEOREM TypeCorrect == Spec => []TypeOK
<1>1. IInv => TypeOK
  BY DEF IInv
<1> QED BY <1>1, Invariance, PTL

(* Whatever is played, skipped or looked for, the match of the replay is in    *)
(* the very state the game was in after as many frames as its position says,   *)
(* unless it had to be reset (ReplayPlayer::play and gotoPlayingPosition).     *)
THEOREM ReplayStaysFaithful == Spec => []ReplayIsFaithful
<1>1. IInv => ReplayIsFaithful
  BY DEF IInv
<1> QED BY <1>1, Invariance, PTL

(* For every position of a recording the loader finds the last save point that *)
(* is not after it, although it begins at a guess and although finalize appends *)
(* frames without save points (ReplayLoader_V2X::getSavePoint).                *)
THEOREM SavePointsAreFound == Spec => []FindsLastSavePoint
<1>1. IInv => FindsLastSavePoint
  BY LastSavePoint
<1> QED BY <1>1, Invariance, PTL
================================================================================
