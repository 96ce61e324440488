------------------------- MODULE ReliabilityLayerProofs -------------------------
(* Theorems about ReliabilityLayer, for any traffic, window, timeout and delays, *)
(* and any number of losses and copies.                                        *)
EXTENDS ReliabilityLayer, Induction, FiniteSetTheorems

-----------------------------------------------------------------------------
(* Two ends, two numbers, and functions that go on from one number to the next. *)

LEMMA TwoEnds ==
  /\ Peer = {"client", "server"}
  /\ Other("client") = "server" /\ Other("server") = "client"
  /\ \A p \in Peer : Other(p) \in Peer /\ Other(p) # p /\ Other(Other(p)) = p
<1>1. Other("client") = "server" /\ Other("server") = "client"
  BY DEF Other, Peer
<1> QED BY <1>1 DEF Peer

LEMMA OfTwo ==
  ASSUME NEW a \in Int, NEW b \in Int
  PROVE  /\ Max({a, b}) = IF a >= b THEN a ELSE b
         /\ Min({a, b}) = IF a <= b THEN a ELSE b
<1>1. \E x \in {a, b} : \A y \in {a, b} : x >= y
  OBVIOUS
<1>2. \E x \in {a, b} : \A y \in {a, b} : x <= y
  OBVIOUS
<1>3. Max({a, b}) \in {a, b} /\ \A y \in {a, b} : Max({a, b}) >= y
  BY <1>1 DEF Max
<1>4. Min({a, b}) \in {a, b} /\ \A y \in {a, b} : Min({a, b}) <= y
  BY <1>2 DEF Min
<1> QED BY <1>3, <1>4

(* A count has a largest value, a set of positions a smallest.                 *)
LEMMA LargestCount ==
  ASSUME NEW n \in Nat, NEW S \in SUBSET (0..n), S # {}
  PROVE  Max(S) \in S
<1> DEFINE B == {k \in Nat : n - k \in S}
<1>1. PICK i \in S : TRUE
  OBVIOUS
<1>2. i \in Nat /\ i <= n
  OBVIOUS
<1>3. n - i \in B
  BY <1>2
<1>4. PICK b \in B : \A k \in B : b <= k
  BY <1>3, Least
<1>5. \A k \in S : k \in Nat /\ k <= n /\ n - k \in Nat /\ n - (n - k) = k
  OBVIOUS
<1>6. \A k \in S : n - k \in B
  BY <1>5
<1>7. n - b \in S /\ \A k \in S : n - b >= k
  BY <1>4, <1>5, <1>6
<1>8. \E x \in S : \A k \in S : x >= k
  BY <1>7
<1> QED BY <1>8 DEF Max

LEMMA FirstPosition ==
  ASSUME NEW n \in Nat, NEW S \in SUBSET (1..n), S # {}
  PROVE  Min(S) \in S
<1>1. S \in SUBSET Nat
  OBVIOUS
<1>2. \E x \in S : \A k \in S : x <= k
  BY <1>1, Least
<1> QED BY <1>2 DEF Min

IsChain(f, S, n, F, v) ==
  /\ f \in [0..n -> S] /\ f[0] = v
  /\ \A k \in 1..n : f[k] = F[<<f[k - 1], k>>]

LEMMA ChainExists ==
  ASSUME NEW S, NEW n \in Nat, NEW F \in [S \X (1..n) -> S], NEW v \in S
  PROVE  \E f : IsChain(f, S, n, F, v)
<1> DEFINE Chain(m, f) == /\ f \in [0..m -> S] /\ f[0] = v
                          /\ \A k \in 1..m : f[k] = F[<<f[k - 1], k>>]
           N == {m \in 0..n : \E f : Chain(m, f)}
<1>1. 0 \in N
  <2> DEFINE f == [k \in 0..0 |-> v]
  <2>1. Chain(0, f)
    OBVIOUS
  <2> HIDE DEF f, Chain
  <2> QED BY <2>1
<1>2. ASSUME NEW m \in 0..n - 1, m \in N
      PROVE  m + 1 \in N
  <2>1. PICK f : Chain(m, f)
    BY <1>2
  <2>2. m \in 0..m /\ m + 1 \in 1..n /\ f[m] \in S
    BY <2>1
  <2> DEFINE w == F[<<f[m], m + 1>>]
             h == [k \in 0..m + 1 |-> IF k = m + 1 THEN w ELSE f[k]]
  <2>3. w \in S
    BY <2>2
  <2> HIDE DEF w
  <2>4. \A k \in 0..m : h[k] = f[k] /\ f[k] \in S
    BY <2>1
  <2>5. h \in [0..m + 1 -> S] /\ h[0] = v /\ h[m + 1] = w
    BY <2>1, <2>3, <2>4
  <2> HIDE DEF h
  <2>6. ASSUME NEW k \in 1..m + 1
        PROVE  h[k] = F[<<h[k - 1], k>>]
    <3>1. k - 1 \in 0..m /\ (k # m + 1 => k \in 1..m /\ k \in 0..m)
      OBVIOUS
    <3>2. CASE k = m + 1
      BY <2>4, <2>5, <3>1, <3>2 DEF w
    <3>3. CASE k # m + 1
      BY <2>1, <2>4, <3>1, <3>3
    <3> QED BY <3>2, <3>3
  <2>7. Chain(m + 1, h)
    BY <2>5, <2>6
  <2> QED BY <2>2, <2>7
<1>3. 0..n \subseteq N
  <2> HIDE DEF N
  <2>1. \A m \in 0..n - 1 : m \in N => m + 1 \in N
    BY <1>2
  <2> QED BY <1>1, <2>1, BoundedInduction
<1> QED BY <1>3, SMTT(20) DEF IsChain

LEMMA ChainStays ==
  ASSUME NEW S, NEW n \in Nat, NEW f, f[0] \in S, \A k \in 1..n : f[k - 1] \in S => f[k] \in S
  PROVE  f[n] \in S
<1> DEFINE N == {k \in 0..n : f[k] \in S}
<1>1. 0 \in N
  OBVIOUS
<1>2. ASSUME NEW k \in 0..n - 1, k \in N
      PROVE  k + 1 \in N
  <2>1. k + 1 \in 1..n /\ (k + 1) - 1 = k
    OBVIOUS
  <2> QED BY <1>2, <2>1
<1>3. 0..n \subseteq N
  <2> HIDE DEF N
  <2> QED BY <1>1, <1>2, BoundedInduction
<1> QED BY <1>3

-----------------------------------------------------------------------------
(* The elements of a sequence that are in a set.                               *)

Picks(s, S, n, f) ==
  /\ f[0] = <<>>
  /\ \A k \in 1..n : f[k] = IF s[k] \in S THEN Append(f[k - 1], s[k]) ELSE f[k - 1]

LEMMA Picking ==
  ASSUME NEW M, NEW s \in Seq(M), NEW S
  PROVE  \E f : Picks(s, S, Len(s), f) /\ Only(s, S) = f[Len(s)]
<1> DEFINE n == Len(s)
           F == [x \in Seq(M) \X (1..n) |-> IF s[x[2]] \in S THEN Append(x[1], s[x[2]]) ELSE x[1]]
           Rule(h) == [k \in 0..n |-> IF k = 0 THEN <<>>
                                      ELSE IF s[k] \in S THEN Append(h[k - 1], s[k]) ELSE h[k - 1]]
           c == CHOOSE h : h = Rule(h)
<1>1. n \in Nat /\ \A k \in 1..n : s[k] \in M
  OBVIOUS
<1>2. F \in [Seq(M) \X (1..n) -> Seq(M)] /\ <<>> \in Seq(M)
  BY <1>1
<1>3. \A x \in Seq(M), k \in 1..n : F[<<x, k>>] = IF s[k] \in S THEN Append(x, s[k]) ELSE x
  OBVIOUS
<1>4. Only(s, S) = c[n]
  BY DEF Only
<1> HIDE DEF F, n
<1>5. PICK f : IsChain(f, Seq(M), n, F, <<>>)
  BY <1>1, <1>2, ChainExists
<1>6. \A k \in 0..n : k # 0 => k \in 1..n /\ k - 1 \in 0..n
  BY <1>1
<1>7. f = Rule(f)
  BY <1>3, <1>5, <1>6 DEF IsChain
<1>8. c = Rule(c)
  <2> HIDE DEF Rule
  <2> QED BY <1>7
<1> HIDE DEF c
<1>9. c[0] = <<>> /\ \A k \in 1..n : c[k] = IF s[k] \in S THEN Append(c[k - 1], s[k]) ELSE c[k - 1]
  <2>1. \A k \in 1..n : k \in 0..n /\ k # 0
    BY <1>1
  <2>2. 0 \in 0..n
    BY <1>1
  <2> QED BY <1>8, <2>1, <2>2
<1> QED BY <1>4, <1>9 DEF Picks, n

LEMMA PickingUnique ==
  ASSUME NEW M, NEW s \in Seq(M), NEW S, NEW f, Picks(s, S, Len(s), f)
  PROVE  Only(s, S) = f[Len(s)]
<1>1. PICK g : Picks(s, S, Len(s), g) /\ Only(s, S) = g[Len(s)]
  BY Picking
<1>2. Len(s) \in Nat /\ f[0] = g[0]
  BY <1>1 DEF Picks
<1>3. \A k \in 1..Len(s) : f[k - 1] = g[k - 1] => f[k] = g[k]
  BY <1>1 DEF Picks
<1>4. \A k \in 0..Len(s) : f[k] = g[k]
  <2> DEFINE n == Len(s)
  <2>1. n \in Nat /\ f[0] = g[0] /\ \A k \in 1..n : f[k - 1] = g[k - 1] => f[k] = g[k]
    BY <1>2, <1>3
  <2> HIDE DEF n
  <2>2. \A k \in 0..n : f[k] = g[k]
    BY <2>1, TraceUnique, ZenonT(30)
  <2> QED BY <2>2 DEF n
<1> QED BY <1>1, <1>2, <1>4

LEMMA OnlyNone ==
  ASSUME NEW S
  PROVE  Only(<<>>, S) = <<>>
<1>1. <<>> \in Seq({}) /\ Len(<<>>) = 0
  OBVIOUS
<1>2. PICK f : Picks(<<>>, S, Len(<<>>), f) /\ Only(<<>>, S) = f[Len(<<>>)]
  BY <1>1, Picking
<1> QED BY <1>1, <1>2 DEF Picks

LEMMA OnlyAppend ==
  ASSUME NEW M, NEW s \in Seq(M), NEW S, NEW e \in M
  PROVE  Only(Append(s, e), S) = IF e \in S THEN Append(Only(s, S), e) ELSE Only(s, S)
<1> DEFINE t == Append(s, e)
           n == Len(s)
<1>1. t \in Seq(M) /\ n \in Nat /\ Len(t) = n + 1 /\ t[n + 1] = e /\ \A k \in 1..n : t[k] = s[k]
  OBVIOUS
<1> HIDE DEF t
<1>2. PICK f : Picks(t, S, Len(t), f) /\ Only(t, S) = f[Len(t)]
  BY <1>1, Picking
<1>3. Picks(s, S, n, f)
  BY <1>1, <1>2 DEF Picks
<1>4. Only(s, S) = f[n]
  BY <1>3, PickingUnique
<1>5. f[n + 1] = IF e \in S THEN Append(f[n], e) ELSE f[n]
  <2>1. n + 1 \in 1..Len(t) /\ (n + 1) - 1 = n
    BY <1>1
  <2> QED BY <1>1, <1>2, <2>1 DEF Picks
<1> QED BY <1>1, <1>2, <1>4, <1>5 DEF t

(* Sets that agree on the elements pick the same.                              *)
LEMMA OnlySame ==
  ASSUME NEW M, NEW s \in Seq(M), NEW S, NEW T, \A k \in 1..Len(s) : s[k] \in S <=> s[k] \in T
  PROVE  Only(s, S) = Only(s, T)
<1>1. PICK f : Picks(s, S, Len(s), f) /\ Only(s, S) = f[Len(s)]
  BY Picking
<1>2. Picks(s, T, Len(s), f)
  BY <1>1 DEF Picks
<1> QED BY <1>1, <1>2, PickingUnique

(* What is picked is there, and in the set; what is there and in the set is    *)
(* picked.                                                                     *)
LEMMA OnlyElements ==
  ASSUME NEW M, NEW s \in Seq(M), NEW S
  PROVE  /\ Only(s, S) \in Seq(M)
         /\ \A k \in 1..Len(Only(s, S)) :
              Only(s, S)[k] \in S /\ \E i \in 1..Len(s) : Only(s, S)[k] = s[i]
         /\ \A i \in 1..Len(s) : s[i] \in S => \E k \in 1..Len(Only(s, S)) : Only(s, S)[k] = s[i]
<1> DEFINE n == Len(s)
           Here(j, t) == /\ t \in Seq(M)
                         /\ \A k \in 1..Len(t) : t[k] \in S /\ \E i \in 1..j : t[k] = s[i]
                         /\ \A i \in 1..j : s[i] \in S => \E k \in 1..Len(t) : t[k] = s[i]
<1>1. PICK f : Picks(s, S, n, f) /\ Only(s, S) = f[n]
  BY Picking
<1>2. n \in Nat /\ \A k \in 1..n : s[k] \in M
  OBVIOUS
<1> HIDE DEF n
<1> DEFINE N == {j \in 0..n : Here(j, f[j])}
<1>3. 0 \in N
  <2>1. f[0] = <<>> /\ 0 \in 0..n /\ <<>> \in Seq(M) /\ Len(<<>>) = 0
    BY <1>1, <1>2 DEF Picks
  <2>2. Here(0, <<>>)
    BY <2>1
  <2> HIDE DEF Here
  <2>3. Here(0, f[0])
    BY <2>1, <2>2
  <2> QED BY <2>1, <2>3
<1>4. ASSUME NEW j \in 0..n - 1, j \in N
      PROVE  j + 1 \in N
  <2> DEFINE t == f[j]
             u == f[j + 1]
             e == s[j + 1]
  <2>1. j + 1 \in 1..n /\ (j + 1) - 1 = j /\ j + 1 \in 0..n /\ e \in M
    BY <1>2
  <2>2. u = IF e \in S THEN Append(t, e) ELSE t
    BY <1>1, <2>1 DEF Picks
  <2>3. Here(j, t)
    BY <1>4
  <2> HIDE DEF t, u, N
  <2>4. CASE e \in S
    <3>1. u \in Seq(M) /\ Len(t) \in Nat /\ Len(u) = Len(t) + 1 /\ u[Len(t) + 1] = e
          /\ \A k \in 1..Len(t) : u[k] = t[k]
      BY <2>1, <2>2, <2>3, <2>4
    <3>2. ASSUME NEW k \in 1..Len(u)
          PROVE  u[k] \in S /\ \E i \in 1..j + 1 : u[k] = s[i]
      <4>1. CASE k = Len(t) + 1
        BY <2>1, <2>4, <3>1, <4>1
      <4>2. CASE k # Len(t) + 1
        <5>1. k \in 1..Len(t)
          BY <3>1, <4>2
        <5>2. PICK i \in 1..j : t[k] = s[i]
          BY <2>3, <5>1
        <5>3. i \in 1..j + 1
          BY <2>1
        <5> QED BY <2>3, <3>1, <5>1, <5>2, <5>3
      <4> QED BY <4>1, <4>2
    <3>3. ASSUME NEW i \in 1..j + 1, s[i] \in S
          PROVE  \E k \in 1..Len(u) : u[k] = s[i]
      <4>1. CASE i = j + 1
        <5>1. Len(t) + 1 \in 1..Len(u)
          BY <3>1
        <5> QED BY <3>1, <4>1, <5>1
      <4>2. CASE i # j + 1
        <5>1. i \in 1..j
          BY <2>1, <4>2
        <5>2. PICK k \in 1..Len(t) : t[k] = s[i]
          BY <2>3, <3>3, <5>1
        <5>3. k \in 1..Len(u)
          BY <3>1
        <5> QED BY <3>1, <5>2, <5>3
      <4> QED BY <4>1, <4>2
    <3> QED BY <2>1, <3>1, <3>2, <3>3 DEF N, u
  <2>5. CASE e \notin S
    <3>1. u = t
      BY <2>2, <2>5
    <3>2. ASSUME NEW k \in 1..Len(t)
          PROVE  t[k] \in S /\ \E i \in 1..j + 1 : t[k] = s[i]
      <4>1. PICK i \in 1..j : t[k] = s[i]
        BY <2>3
      <4>2. i \in 1..j + 1
        BY <2>1
      <4> QED BY <2>3, <4>1, <4>2
    <3>3. ASSUME NEW i \in 1..j + 1, s[i] \in S
          PROVE  \E k \in 1..Len(t) : t[k] = s[i]
      <4>1. i \in 1..j
        BY <2>1, <2>5, <3>3
      <4> QED BY <2>3, <3>3, <4>1
    <3> QED BY <2>1, <2>3, <3>1, <3>2, <3>3 DEF N, u
  <2> QED BY <2>4, <2>5
<1>5. n \in N
  <2> HIDE DEF N
  <2>1. 0..n \subseteq N
    BY <1>2, <1>3, <1>4, BoundedInduction
  <2> QED BY <1>2, <2>1
<1>6. Here(n, Only(s, S))
  BY <1>1, <1>5
<1> QED BY <1>6 DEF n

-----------------------------------------------------------------------------
(* The half of a layer that sends.  N are the numbers of its packets, V *)
(* the values that its next two indices may have.                              *)

Timer(N) == [number : N \cup {None}, wait : Int]

Sender(N, V) ==
  [queue : [Priority -> Seq(N)], orderedWrite : V[1], sequencedWrite : V[2],
   resend : Seq(Timer(N)), lastAck : -1..Timeout + 1,
   window : MinWindow..MaxWindow, lossyWindow : Int, sinceIncrease : Int, dead : BOOLEAN]

LEMMA Constants ==
  /\ OrderModulus \in Nat /\ OrderModulus >= 4
  /\ MinWindow \in Nat /\ MinWindow > 0 /\ MaxWindow \in Nat /\ MinWindow <= MaxWindow
  /\ Timeout \in Nat /\ ResendDelay \in Nat /\ ResendDelay > 0 /\ Uptime \in 0..Timeout
  /\ MaxDelay \in Nat /\ MaxLosses \in Nat /\ MaxCopies \in Nat
<1>1. PICK k \in 2..128 : OrderModulus = 2 * k
  BY LayerAssumption
<1>2. OrderModulus \in Nat /\ OrderModulus >= 4
  BY <1>1
<1>3. /\ MinWindow \in Nat \ {0} /\ MaxWindow \in Nat /\ MinWindow <= MaxWindow
      /\ Timeout \in Nat /\ ResendDelay \in Nat \ {0} /\ Uptime \in 0..Timeout
      /\ MaxDelay \in Nat /\ MaxLosses \in Nat /\ MaxCopies \in Nat
  BY LayerAssumption
<1> QED BY <1>2, <1>3

LEMMA WaitingTimers ==
  ASSUME NEW N, NEW s \in Seq(N)
  PROVE  Waiting(s) \in Seq(Timer(N))
<1>1. Len(s) \in Nat /\ DOMAIN s = 1..Len(s) /\ \A k \in 1..Len(s) : s[k] \in N
  OBVIOUS
<1>2. Waiting(s) = [k \in 1..Len(s) |-> [number |-> s[k], wait |-> ResendDelay]]
  BY <1>1 DEF Waiting
<1>3. \A k \in 1..Len(s) : [number |-> s[k], wait |-> ResendDelay] \in Timer(N)
  BY <1>1, Constants DEF Timer
<1>4. Waiting(s) \in [1..Len(s) -> Timer(N)]
  BY <1>2, <1>3
<1> QED BY <1>1, <1>4

(* A sender with other values of its fields.                                   *)
LEMMA SenderFields ==
  ASSUME NEW V, NEW N, NEW o \in Sender(N, V)
  PROVE  /\ o.queue \in [Priority -> Seq(N)] /\ o.resend \in Seq(Timer(N)) /\ o.lastAck \in -1..Timeout + 1
         /\ o.window \in MinWindow..MaxWindow /\ o.lossyWindow \in Int /\ o.sinceIncrease \in Int
BY DEF Sender

LEMMA SenderResend ==
  ASSUME NEW V, NEW N, NEW o \in Sender(N, V), NEW s \in Seq(Timer(N)), NEW a \in -1..Timeout + 1
  PROVE  [o EXCEPT !.resend = s, !.lastAck = a] \in Sender(N, V)
BY DEF Sender

LEMMA SenderWindow ==
  ASSUME NEW V, NEW N, NEW o \in Sender(N, V), NEW w \in MinWindow..MaxWindow, NEW l \in Int, NEW a \in Int
  PROVE  [o EXCEPT !.window = w, !.lossyWindow = l, !.sinceIncrease = a] \in Sender(N, V)
BY DEF Sender

LEMMA Smaller ==
  ASSUME NEW V, NEW N, NEW o \in Sender(N, V)
  PROVE  UpdatePacketloss(o) \in Sender(N, V)
<1> DEFINE w == Max({o.window - 1, MinWindow})
<1>1. o.window \in Int /\ MinWindow <= o.window /\ o.window <= MaxWindow
  BY Constants, SenderFields
<1>2. w \in MinWindow..MaxWindow /\ w \in Int /\ 0 \in Int
  BY <1>1, Constants, OfTwo
<1>3. UpdatePacketloss(o) = [o EXCEPT !.window = w, !.lossyWindow = w, !.sinceIncrease = 0]
  BY DEF UpdatePacketloss
<1> HIDE DEF w
<1>4. [o EXCEPT !.window = w, !.lossyWindow = w, !.sinceIncrease = 0] \in Sender(N, V)
  BY <1>2, SenderWindow
<1> QED BY ONLY <1>3, <1>4

Filling(N, V) == [packets : Seq(N), full : BOOLEAN, out : Sender(N, V)]

LEMMA ResendTyped ==
  ASSUME NEW V, NEW N \in SUBSET Nat, NEW o \in Sender(N, V), NEW n \in 0..Len(o.resend)
  PROVE  ResendFirst(o, n) \in Filling(N, V)
<1> DEFINE s == o.resend
           before == NumbersOf(o, n)
           lost == ResendPackets(o, n)
           rest == SubSeq(s, n + 1, Len(s))
           new  == rest \o Waiting(lost)
           ack  == IF lost # <<>> THEN Started(o.lastAck) ELSE o.lastAck
           o1   == [o EXCEPT !.resend = new, !.lastAck = ack]
           out1 == IF lost # <<>> THEN UpdatePacketloss(o1) ELSE o1
           full == rest # <<>> /\ Due(Head(rest))
<1>1. s \in Seq(Timer(N)) /\ Len(s) \in Nat /\ n \in Nat /\ n <= Len(s)
  BY SenderFields
<1>2. \A k \in 1..Len(s) : s[k].number \in N \cup {None}
  <2> HIDE DEF s
  <2>1. \A k \in 1..Len(s) : s[k] \in Timer(N)
    BY <1>1
  <2> QED BY <2>1 DEF Timer
<1>3. before \in Seq(N \cup {None})
  <2>1. before = [k \in 1..n |-> s[k].number]
    BY DEF NumbersOf
  <2>2. \A k \in 1..n : s[k].number \in N \cup {None}
    BY <1>1, <1>2
  <2>3. before \in [1..n -> N \cup {None}]
    BY <2>1, <2>2
  <2> QED BY <1>1, <2>3
<1>4. lost \in Seq(N)
  <2> HIDE DEF before
  <2>1. lost = Only(before, Nat)
    BY DEF ResendPackets, before
  <2>2. lost \in Seq(N \cup {None}) /\ \A k \in 1..Len(lost) : lost[k] \in Nat
    BY <1>3, <2>1, OnlyElements
  <2> HIDE DEF lost
  <2>3. \A k \in 1..Len(lost) : lost[k] \in N
    <3>1. \A k \in 1..Len(lost) : lost[k] \in N \cup {None}
      BY <2>2
    <3> QED BY <2>2, <3>1 DEF None
  <2>4. Len(lost) \in Nat /\ lost = [k \in 1..Len(lost) |-> lost[k]]
    BY <2>2
  <2> QED BY <2>3, <2>4
<1> HIDE DEF lost
<1>5. rest \in Seq(Timer(N))
  BY <1>1
<1>6. new \in Seq(Timer(N))
  <2> DEFINE w == Waiting(lost)
  <2>1. w \in Seq(Timer(N))
    BY <1>4, WaitingTimers
  <2> HIDE DEF w, rest
  <2> QED BY <1>5, <2>1 DEF w
<1>7. ack \in -1..Timeout + 1
  <2>1. o.lastAck \in -1..Timeout + 1
    BY SenderFields
  <2> QED BY <2>1, Constants DEF Started
<1>8. ResendFirst(o, n) = [packets |-> lost, full |-> full, out |-> out1]
  BY DEF ResendFirst, Resent, lost
<1> HIDE DEF new, ack, rest, s
<1>9. o1 \in Sender(N, V)
  BY <1>6, <1>7, SenderResend
<1> HIDE DEF o1
<1>10. out1 \in Sender(N, V)
  BY <1>9, Smaller
<1> HIDE DEF out1
<1>11. full \in BOOLEAN
  OBVIOUS
<1> HIDE DEF full
<1> QED BY <1>4, <1>8, <1>10, <1>11 DEF Filling

LEMMA FillingFields ==
  ASSUME NEW V, NEW N, NEW r \in Filling(N, V)
  PROVE  r.packets \in Seq(N) /\ r.out \in Sender(N, V) /\ r.full \in BOOLEAN
BY DEF Filling

LEMMA FillingOther ==
  ASSUME NEW V, NEW N, NEW r \in Filling(N, V), NEW s \in Seq(N), NEW o \in Sender(N, V)
  PROVE  [r EXCEPT !.packets = s, !.out = o] \in Filling(N, V)
BY DEF Filling

LEMMA SenderTaken ==
  ASSUME NEW V, NEW N, NEW o \in Sender(N, V), NEW i \in Priority, NEW u \in Seq(N), NEW s \in Seq(Timer(N)),
         NEW a \in -1..Timeout + 1
  PROVE  [o EXCEPT !.queue[i] = u, !.resend = s, !.lastAck = a] \in Sender(N, V)
BY DEF Sender

LEMMA TakeWaitingTyped ==
  ASSUME NEW V, NEW p, NEW r \in Filling(Numbers(p), V), NEW i \in Priority, NEW now \in Seq(Numbers(p)),
         Len(now) <= Len(r.out.queue[i])
  PROVE  TakeWaiting(p, r, i, now) \in Filling(Numbers(p), V)
<1> DEFINE N == Numbers(p)
           o == r.out
           q == o.queue[i]
           kept == Only(now, {n \in Numbers(p): Reliable(packet[p][n + 1].kind)})
           sub == SubSeq(q, Len(now) + 1, Len(q))
           re == o.resend \o Waiting(kept)
           ack == IF kept # <<>> THEN 0 ELSE o.lastAck
           o1 == [o EXCEPT !.queue[i] = sub, !.resend = re, !.lastAck = ack]
           both == r.packets \o now
<1>1. o \in Sender(N, V) /\ r.packets \in Seq(N)
  BY FillingFields
<1>2. q \in Seq(N) /\ o.resend \in Seq(Timer(N)) /\ o.lastAck \in -1..Timeout + 1
  BY <1>1, SenderFields
<1>3. TakeWaiting(p, r, i, now) = [r EXCEPT !.packets = both, !.out = o1]
  BY DEF TakeWaiting
<1>4. kept \in Seq(N)
  BY OnlyElements
<1> HIDE DEF kept
<1>5. re \in Seq(Timer(N))
  <2> DEFINE w == Waiting(kept)
  <2>1. w \in Seq(Timer(N))
    BY <1>4, WaitingTimers
  <2> HIDE DEF w, o
  <2> QED BY <1>2, <2>1 DEF w
<1>6. ack \in -1..Timeout + 1
  BY <1>2, Constants
<1>7. sub \in Seq(N)
  <2>1. Len(q) \in Nat /\ Len(now) \in Nat
    BY <1>2
  <2> QED BY <1>2, <2>1
<1>8. both \in Seq(N)
  BY <1>1
<1> HIDE DEF o, q, sub, re, ack, both, N
<1>9. o1 \in Sender(N, V)
  BY <1>1, <1>5, <1>6, <1>7, SenderTaken
<1> HIDE DEF o1
<1>10. [r EXCEPT !.packets = both, !.out = o1] \in Filling(N, V)
  BY <1>8, <1>9, FillingOther DEF N
<1> QED BY ONLY <1>3, <1>10 DEF N

LEMMA FillFromTyped ==
  ASSUME NEW V, NEW p, NEW r \in Filling(Numbers(p), V), NEW i \in Priority
  PROVE  FillFrom(p, r, i) \in Filling(Numbers(p), V)
<1> DEFINE q == r.out.queue[i]
           S == {n \in 0..Len(q) : \A k \in 1..n :
                   Weight(p, r.packets \o SubSeq(q, 1, k)) <= FrameSize}
           m == Max(S)
           now == SubSeq(q, 1, m)
<1>1. q \in Seq(Numbers(p)) /\ Len(q) \in Nat
  BY FillingFields, SenderFields
<1>2. FillFrom(p, r, i) = TakeWaiting(p, r, i, now)
  BY DEF FillFrom, Leading
<1>3. S \in SUBSET (0..Len(q)) /\ 0 \in S
  BY <1>1
<1> HIDE DEF S
<1>4. m \in 0..Len(q)
  <2>1. m \in S
    BY <1>1, <1>3, LargestCount
  <2> QED BY <1>3, <2>1
<1> HIDE DEF m
<1>5. now \in Seq(Numbers(p)) /\ Len(now) = m
  <2> HIDE DEF q
  <2>1. m \in Nat /\ m <= Len(q)
    BY <1>1, <1>4
  <2> QED BY <1>1, <2>1
<1>6. Len(now) <= Len(q)
  BY <1>1, <1>4, <1>5
<1> HIDE DEF now
<1> QED BY <1>2, <1>5, <1>6, TakeWaitingTyped

(* What is done again and again stays in a set that no turn of it leaves.     *)
LEMMA FillStays ==
  ASSUME NEW p, NEW S, NEW r \in S, [r EXCEPT !.full = TRUE] \in S,
         \A x \in S : \A i \in Priority : FillFrom(p, x, i) \in S
  PROVE  Fill(p, r) \in S
<1> DEFINE n == Len(Priorities)
           F == [x \in S \X (1..n) |-> FillFrom(p, x[1], Priorities[x[2]])]
           Rule(h) == [k \in 0..n |-> IF k = 0 THEN r ELSE FillFrom(p, h[k - 1], Priorities[k])]
           c == CHOOSE h : h = Rule(h)
<1>1. n \in Nat /\ \A k \in 1..n : Priorities[k] \in Priority
  BY DEF Priorities, Priority, Range
<1>2. F \in [S \X (1..n) -> S]
  BY <1>1
<1>3. \A x \in S, k \in 1..n : F[<<x, k>>] = FillFrom(p, x, Priorities[k])
  OBVIOUS
<1>4. Fill(p, r) = [r EXCEPT !.full = TRUE] \/ Fill(p, r) = c[n]
  BY DEF Fill
<1> HIDE DEF F, n
<1>5. PICK f : IsChain(f, S, n, F, r)
  BY <1>1, <1>2, ChainExists
<1>6. f \in [0..n -> S] /\ f[0] = r
  BY <1>5 DEF IsChain
<1>7. ASSUME NEW k \in 0..n, k # 0
      PROVE  f[k] = FillFrom(p, f[k - 1], Priorities[k])
  <2>1. k \in 1..n /\ k - 1 \in 0..n
    BY <1>1, <1>7
  <2>2. f[k - 1] \in S /\ f[k] = F[<<f[k - 1], k>>]
    BY <1>5, <1>6, <2>1 DEF IsChain
  <2> QED BY <1>3, <2>1, <2>2
<1>8. f = Rule(f)
  BY <1>6, <1>7
<1>9. c = Rule(c)
  <2> HIDE DEF Rule
  <2> QED BY <1>8
<1> HIDE DEF c
<1>10. c[0] = r /\ \A k \in 1..n : c[k] = FillFrom(p, c[k - 1], Priorities[k])
  <2>1. 0 \in 0..n /\ \A k \in 1..n : k \in 0..n /\ k # 0
    BY <1>1
  <2> QED BY <1>9, <2>1
<1>11. \A k \in 1..n : c[k - 1] \in S => c[k] \in S
  BY <1>1, <1>10
<1>12. c[n] \in S
  BY <1>1, <1>10, <1>11, ChainStays
<1> QED BY <1>4, <1>12

LEMMA FillTyped ==
  ASSUME NEW V, NEW p, NEW r \in Filling(Numbers(p), V)
  PROVE  Fill(p, r) \in Filling(Numbers(p), V)
<1> DEFINE S == Filling(Numbers(p), V)
<1>1. [r EXCEPT !.full = TRUE] \in S
  BY DEF Filling
<1>2. \A x \in S : \A i \in Priority : FillFrom(p, x, i) \in S
  BY FillFromTyped
<1> HIDE DEF S
<1> QED BY <1>1, <1>2, FillStays DEF S

LEMMA ResendAllTyped ==
  ASSUME NEW V, NEW p, NEW N \in SUBSET Nat, NEW o \in Sender(N, V)
  PROVE  Resend(p, o) \in Filling(N, V)
<1> DEFINE n == Len(o.resend)
           S == {m \in 0..n : \A i \in 1..m :
                   /\ IsDone(o.resend[i]) \/ Due(o.resend[i])
                   /\ Weight(p, NumbersOf(o, i)) <= FrameSize}
<1>1. n \in Nat
  BY SenderFields
<1>2. Resend(p, o) = ResendFirst(o, Max(S))
  BY DEF Resend, Leading
<1>3. S \in SUBSET (0..n) /\ 0 \in S
  BY <1>1
<1> HIDE DEF S
<1>4. Max(S) \in S
  BY <1>1, <1>3, LargestCount
<1>5. Max(S) \in 0..n
  BY <1>3, <1>4
<1> QED BY <1>2, <1>5, ResendTyped

(* A datagram has packets of one end and acknowledges some of the other.       *)
Datagram(N, A) == [age : Int, packets : Seq(N), acks : Seq(A)]
Ack(A) == [number : A, wait : Int]
Generated(N, V, A) == [out : Sender(N, V), acks : Seq(Ack(A)), sent : Datagram(N, A)]
Frames(N, V, A) == [out : Sender(N, V), acks : Seq(Ack(A)), more : BOOLEAN, sent : Seq(Datagram(N, A))]

LEMMA FrameTyped ==
  ASSUME NEW V, NEW N, NEW A, NEW f \in Filling(N, V), NEW acks \in Seq(Ack(A))
  PROVE  Frame(f, acks) \in Generated(N, V, A)
<1> DEFINE go == AcksFirst(acks) \/ (~f.full /\ f.packets # <<>>)
           left == IF go THEN <<>> ELSE acks
           now == IF go THEN [i \in DOMAIN acks |-> acks[i].number] ELSE <<>>
           d == [age |-> 0, packets |-> f.packets, acks |-> now]
<1>1. f.packets \in Seq(N) /\ f.out \in Sender(N, V)
  BY FillingFields
<1>2. left \in Seq(Ack(A))
  OBVIOUS
<1>3. now \in Seq(A)
  <2>1. Len(acks) \in Nat /\ DOMAIN acks = 1..Len(acks) /\ \A i \in 1..Len(acks) : acks[i] \in Ack(A)
    OBVIOUS
  <2>2. \A i \in 1..Len(acks) : acks[i].number \in A
    BY <2>1 DEF Ack
  <2>3. [i \in DOMAIN acks |-> acks[i].number] \in [1..Len(acks) -> A]
    BY <2>1, <2>2
  <2>4. [i \in DOMAIN acks |-> acks[i].number] \in Seq(A)
    BY <2>1, <2>3
  <2> QED BY <2>4
<1>4. Frame(f, acks) = [out |-> f.out, acks |-> left, sent |-> d]
  BY DEF Frame
<1> HIDE DEF left, now
<1>5. d \in Datagram(N, A)
  BY <1>1, <1>3 DEF Datagram
<1> HIDE DEF d
<1> QED BY <1>1, <1>2, <1>4, <1>5 DEF Generated

LEMMA NextFrameTyped ==
  ASSUME NEW V, NEW p, Numbers(p) \in SUBSET Nat, NEW A, NEW s \in Frames(Numbers(p), V, A)
  PROVE  NextFrame(p, s) \in Frames(Numbers(p), V, A)
<1> DEFINE N == Numbers(p)
           g == GenerateFrame(p, s)
           empty == g.sent.packets = <<>> /\ g.sent.acks = <<>>
           t == IF empty THEN s.sent ELSE Append(s.sent, g.sent)
           all == [out |-> g.out, acks |-> g.acks, more |-> ~empty, sent |-> t]
<1>1. s.out \in Sender(N, V) /\ s.acks \in Seq(Ack(A)) /\ s.sent \in Seq(Datagram(N, A))
  BY DEF Frames
<1>2. g \in Generated(N, V, A)
  BY <1>1, ResendAllTyped, FillTyped, FrameTyped DEF GenerateFrame
<1>3. NextFrame(p, s) = [s EXCEPT !.more = FALSE] \/ NextFrame(p, s) = all
  BY DEF NextFrame, Sending
<1> HIDE DEF g, N
<1>4. g.out \in Sender(N, V) /\ g.acks \in Seq(Ack(A)) /\ g.sent \in Datagram(N, A)
  BY <1>2 DEF Generated
<1>5. t \in Seq(Datagram(N, A))
  BY <1>1, <1>4
<1>6. (~empty) \in BOOLEAN
  OBVIOUS
<1> HIDE DEF t, empty
<1>7. all \in Frames(N, V, A)
  BY <1>4, <1>5, <1>6 DEF Frames
<1>8. [s EXCEPT !.more = FALSE] \in Frames(N, V, A)
  BY DEF Frames, N
<1> QED BY <1>3, <1>7, <1>8 DEF N

LEMMA UpdatedStays ==
  ASSUME NEW p, Len(packet[p]) \in Nat, NEW S,
         [out |-> out[p], acks |-> in[p].acks, more |-> TRUE, sent |-> <<>>] \in S,
         \A x \in S : NextFrame(p, x) \in S
  PROVE  Updated(p) \in S
<1> DEFINE v == [out |-> out[p], acks |-> in[p].acks, more |-> TRUE, sent |-> <<>>]
           n == Len(packet[p]) + 2
           F == [x \in S \X (1..n) |-> NextFrame(p, x[1])]
           Rule(h) == [k \in 0..n |-> IF k = 0 THEN v ELSE NextFrame(p, h[k - 1])]
           c == CHOOSE h : h = Rule(h)
<1>1. n \in Nat
  OBVIOUS
<1>2. F \in [S \X (1..n) -> S]
  OBVIOUS
<1>3. \A x \in S, k \in 1..n : F[<<x, k>>] = NextFrame(p, x)
  OBVIOUS
<1>4. Updated(p) = c[n]
  BY DEF Updated
<1> HIDE DEF F, n, v
<1>5. PICK f : IsChain(f, S, n, F, v)
  BY <1>1, <1>2, ChainExists DEF v
<1>6. f \in [0..n -> S] /\ f[0] = v
  BY <1>5 DEF IsChain
<1>7. ASSUME NEW k \in 0..n, k # 0
      PROVE  f[k] = NextFrame(p, f[k - 1])
  <2>1. k \in 1..n /\ k - 1 \in 0..n
    BY <1>1, <1>7
  <2>2. f[k - 1] \in S /\ f[k] = F[<<f[k - 1], k>>]
    BY <1>5, <1>6, <2>1 DEF IsChain
  <2> QED BY <1>3, <2>1, <2>2
<1>8. f = Rule(f)
  BY <1>6, <1>7
<1>9. c = Rule(c)
  <2> HIDE DEF Rule
  <2> QED BY <1>8
<1> HIDE DEF c
<1>10. c[0] = v /\ \A k \in 1..n : c[k] = NextFrame(p, c[k - 1])
  <2>1. 0 \in 0..n /\ \A k \in 1..n : k \in 0..n /\ k # 0
    BY <1>1
  <2> QED BY <1>9, <2>1
<1>11. \A k \in 1..n : c[k - 1] \in S => c[k] \in S
  BY <1>10
<1>12. c[n] \in S
  BY <1>1, <1>10, <1>11, ChainStays DEF v
<1> QED BY <1>4, <1>12

LEMMA UpdatedTyped ==
  ASSUME NEW V, NEW p, Len(packet[p]) \in Nat, NEW A, out[p] \in Sender(Numbers(p), V), in[p].acks \in Seq(Ack(A))
  PROVE  Updated(p) \in Frames(Numbers(p), V, A)
<1> DEFINE S == Frames(Numbers(p), V, A)
<1>1. [out |-> out[p], acks |-> in[p].acks, more |-> TRUE, sent |-> <<>>] \in S
  BY DEF Frames
<1>2. \A x \in S : NextFrame(p, x) \in S
  <2>1. Numbers(p) \in SUBSET Nat
    BY DEF Numbers
  <2> QED BY <2>1, NextFrameTyped
<1> HIDE DEF S
<1> QED BY <1>1, <1>2, UpdatedStays DEF S

LEMMA AcknowledgeTyped ==
  ASSUME NEW V, NEW p, NEW N, NEW o \in Sender(N, V), NEW n
  PROVE  Acknowledge(p, o, n) \in Sender(N, V)
<1> DEFINE s == o.resend
           pos == {i \in DOMAIN s : s[i].number = n}
           Superfluous(k) ==
             /\ packet[p][n + 1].kind = "RELIABLE_SEQUENCED"
             /\ k # None
             /\ packet[p][k + 1].kind = "RELIABLE_SEQUENCED"
             /\ IsOlderOrderedPacket(packet[p][k + 1].index, packet[p][n + 1].index)
           rest == IF pos = {1} THEN Tail(s) ELSE [i \in DOMAIN s |-> IF i \in pos THEN Hole ELSE s[i]]
           a == IF s = <<>> THEN None ELSE 0
           o1 == [o EXCEPT !.lastAck = a]
           new == [i \in DOMAIN rest |-> IF Superfluous(rest[i].number) THEN Hole ELSE rest[i]]
<1>1. Acknowledge(p, o, n) = IF pos = {} THEN o1 ELSE [o1 EXCEPT !.resend = new]
  BY DEF Acknowledge
<1>2. s \in Seq(Timer(N)) /\ Len(s) \in Nat /\ DOMAIN s = 1..Len(s)
  BY SenderFields
<1>3. Hole \in Timer(N)
  BY DEF Hole, Timer
<1>4. a \in -1..Timeout + 1
  BY Constants DEF None
<1>5. pos \in SUBSET (1..Len(s))
  BY <1>2
<1> HIDE DEF pos, s, a
<1>6. rest \in Seq(Timer(N))
  <2>1. [i \in DOMAIN s |-> IF i \in pos THEN Hole ELSE s[i]] \in [1..Len(s) -> Timer(N)]
    BY <1>2, <1>3
  <2>2. [i \in DOMAIN s |-> IF i \in pos THEN Hole ELSE s[i]] \in Seq(Timer(N))
    BY <1>2, <2>1
  <2>3. CASE pos = {1}
    <3>1. s # <<>>
      BY <1>2, <1>5, <2>3
    <3>2. Tail(s) \in Seq(Timer(N))
      BY <1>2, <3>1
    <3> QED BY <2>3, <3>2
  <2> QED BY <2>2, <2>3
<1> HIDE DEF rest, Superfluous
<1>7. new \in Seq(Timer(N))
  <2>1. Len(rest) \in Nat /\ DOMAIN rest = 1..Len(rest) /\ \A i \in 1..Len(rest) : rest[i] \in Timer(N)
    BY <1>6
  <2>2. new \in [1..Len(rest) -> Timer(N)]
    BY <1>3, <2>1
  <2> HIDE DEF new
  <2> QED BY <2>1, <2>2
<1> HIDE DEF new
<1>8. o1 \in Sender(N, V) /\ [o1 EXCEPT !.resend = new] \in Sender(N, V)
  BY <1>4, <1>7 DEF Sender
<1> QED BY <1>1, <1>8

LEMMA AcknowledgedStay ==
  ASSUME NEW p, NEW S, NEW o \in S, NEW acks, Len(acks) \in Nat,
         \A x \in S : \A k \in 1..Len(acks) : Acknowledge(p, x, acks[k]) \in S
  PROVE  Acknowledged(p, o, acks) \in S
<1> DEFINE n == Len(acks)
           F == [x \in S \X (1..n) |-> Acknowledge(p, x[1], acks[x[2]])]
           Rule(h) == [k \in 0..n |-> IF k = 0 THEN o ELSE Acknowledge(p, h[k - 1], acks[k])]
           c == CHOOSE h : h = Rule(h)
<1>1. n \in Nat
  OBVIOUS
<1>2. F \in [S \X (1..n) -> S]
  OBVIOUS
<1>3. \A x \in S, k \in 1..n : F[<<x, k>>] = Acknowledge(p, x, acks[k])
  OBVIOUS
<1>4. Acknowledged(p, o, acks) = c[n]
  BY DEF Acknowledged
<1> HIDE DEF F, n
<1>5. PICK f : IsChain(f, S, n, F, o)
  BY <1>1, <1>2, ChainExists
<1>6. f \in [0..n -> S] /\ f[0] = o
  BY <1>5 DEF IsChain
<1>7. ASSUME NEW k \in 0..n, k # 0
      PROVE  f[k] = Acknowledge(p, f[k - 1], acks[k])
  <2>1. k \in 1..n /\ k - 1 \in 0..n
    BY <1>1, <1>7
  <2>2. f[k - 1] \in S /\ f[k] = F[<<f[k - 1], k>>]
    BY <1>5, <1>6, <2>1 DEF IsChain
  <2> QED BY <1>3, <2>1, <2>2
<1>8. f = Rule(f)
  BY <1>6, <1>7
<1>9. c = Rule(c)
  <2> HIDE DEF Rule
  <2> QED BY <1>8
<1> HIDE DEF c
<1>10. c[0] = o /\ \A k \in 1..n : c[k] = Acknowledge(p, c[k - 1], acks[k])
  <2>1. 0 \in 0..n /\ \A k \in 1..n : k \in 0..n /\ k # 0
    BY <1>1
  <2> QED BY <1>9, <2>1
<1>11. \A k \in 1..n : c[k - 1] \in S => c[k] \in S
  BY <1>10 DEF n
<1>12. c[n] \in S
  BY <1>1, <1>10, <1>11, ChainStays
<1> QED BY <1>4, <1>12

LEMMA AcknowledgedTyped ==
  ASSUME NEW V, NEW p, NEW N, NEW o \in Sender(N, V), NEW A, NEW acks \in Seq(A)
  PROVE  Acknowledged(p, o, acks) \in Sender(N, V)
<1> DEFINE S == Sender(N, V)
<1>1. o \in S /\ Len(acks) \in Nat
  OBVIOUS
<1>2. \A x \in S : \A k \in 1..Len(acks) : Acknowledge(p, x, acks[k]) \in S
  BY AcknowledgeTyped
<1> HIDE DEF S
<1> QED BY <1>1, <1>2, AcknowledgedStay DEF S

LEMMA GrowTyped ==
  ASSUME NEW V, NEW N, NEW o \in Sender(N, V), NEW a
  PROVE  Grow(o, a) \in Sender(N, V)
<1> DEFINE probe == o.sinceIncrease > 2 * ResendDelay
           larger == Min({o.window + 1, MaxWindow})
           since == IF probe THEN 0 ELSE o.sinceIncrease
           lossy == IF larger = MaxWindow \/ larger - o.lossyWindow > 5 THEN o.lossyWindow + 1 ELSE o.lossyWindow
<1>1. o.window \in Int /\ MinWindow <= o.window /\ o.window <= MaxWindow
      /\ o.lossyWindow \in Int /\ o.sinceIncrease \in Int
  BY Constants, SenderFields
<1>2. larger \in MinWindow..MaxWindow
  <2>1. o.window + 1 \in Int /\ MaxWindow \in Int
    BY <1>1, Constants
  <2>2. larger = IF o.window + 1 <= MaxWindow THEN o.window + 1 ELSE MaxWindow
    BY <2>1, OfTwo
  <2> HIDE DEF larger
  <2> QED BY <1>1, <2>2, Constants
<1>3. Grow(o, a) = [o EXCEPT !.window = larger, !.sinceIncrease = since, !.lossyWindow = lossy] \/ Grow(o, a) = o
  BY DEF Grow
<1>4. since \in Int /\ lossy \in Int
  BY <1>1
<1> HIDE DEF larger, since, lossy
<1>5. [o EXCEPT !.window = larger, !.sinceIncrease = since, !.lossyWindow = lossy] \in Sender(N, V)
  BY <1>2, <1>4 DEF Sender
<1> QED BY ONLY <1>3, <1>5

(* A unit of time goes by.                                                     *)
LEMMA WaitedTyped ==
  ASSUME NEW N, NEW s \in Seq(Ack(N))
  PROVE  Waited(s) \in Seq(Ack(N))
<1>1. Len(s) \in Nat /\ DOMAIN s = 1..Len(s) /\ \A k \in 1..Len(s) : s[k] \in Ack(N)
  OBVIOUS
<1>2. ASSUME NEW k \in 1..Len(s)
      PROVE  (IF s[k] = Hole THEN Hole ELSE [s[k] EXCEPT !.wait = Max({s[k].wait - 1, -1})]) \in Ack(N)
  <2>1. s[k].wait - 1 \in Int /\ -1 \in Int
    BY <1>1 DEF Ack
  <2>2. Max({s[k].wait - 1, -1}) \in Int
    BY <2>1, OfTwo
  <2>3. [s[k] EXCEPT !.wait = Max({s[k].wait - 1, -1})] \in Ack(N)
    BY <1>1, <2>2 DEF Ack
  <2> QED BY <1>1, <2>3
<1>3. Waited(s) = [k \in 1..Len(s) |-> IF s[k] = Hole THEN Hole ELSE [s[k] EXCEPT !.wait = Max({s[k].wait - 1, -1})]]
  BY <1>1 DEF Waited
<1>4. Waited(s) \in [1..Len(s) -> Ack(N)]
  BY <1>2, <1>3
<1> QED BY <1>1, <1>4

LEMMA OlderTyped ==
  ASSUME NEW age \in Int, NEW limit \in Int
  PROVE  /\ Older(age, limit) \in Int
         /\ age \in -1..limit /\ limit >= 0 => Older(age, limit) \in -1..limit
<1>1. age + 1 \in Int
  OBVIOUS
<1>2. Min({age + 1, limit}) = IF age + 1 <= limit THEN age + 1 ELSE limit
  BY <1>1, OfTwo
<1> QED BY <1>2 DEF Older, None

LEMMA TimerIsAck ==
  ASSUME NEW N
  PROVE  Timer(N) = Ack(N \cup {None})
BY DEF Timer, Ack

LEMMA SenderTicks ==
  ASSUME NEW V, NEW N, NEW o \in Sender(N, V)
  PROVE  [o EXCEPT !.lastAck = Older(o.lastAck, Timeout + 1),
                   !.sinceIncrease = Older(o.sinceIncrease, 2 * ResendDelay + 1),
                   !.resend = Waited(o.resend)] \in Sender(N, V)
<1> DEFINE l == Older(o.lastAck, Timeout + 1)
           a == Older(o.sinceIncrease, 2 * ResendDelay + 1)
           r == Waited(o.resend)
<1>1. o.resend \in Seq(Timer(N)) /\ o.lastAck \in -1..Timeout + 1 /\ o.sinceIncrease \in Int
  BY SenderFields
<1>2. Timeout + 1 \in Int /\ Timeout + 1 >= 0 /\ 2 * ResendDelay + 1 \in Int /\ o.lastAck \in Int
  BY <1>1, Constants
<1>3. l \in -1..Timeout + 1
  BY <1>1, <1>2, OlderTyped
<1>4. a \in Int
  BY <1>1, <1>2, OlderTyped
<1>5. r \in Seq(Timer(N))
  BY <1>1, WaitedTyped, TimerIsAck
<1> HIDE DEF l, a, r
<1>6. [o EXCEPT !.lastAck = l, !.sinceIncrease = a, !.resend = r] \in Sender(N, V)
  BY <1>3, <1>4, <1>5 DEF Sender
<1> QED BY <1>6 DEF l, a, r

-----------------------------------------------------------------------------
(* The packets of an end, and the messages of some kinds among them.           *)

Packet == [kind : Kind, index : Int, priority : Priority, message : Nat, part : 1..3, parts : 1..3]

OrderedKinds == {"RELIABLE_ORDERED"}
SequencedKinds == {"UNRELIABLE_SEQUENCED", "RELIABLE_SEQUENCED"}

Firsts(s, K) == {n \in 0..Len(s) - 1 : s[n + 1].part = 1 /\ s[n + 1].kind \in K}
OfKind(s, K) == {n \in 0..Len(s) - 1 : s[n + 1].kind \in K}
SentOf(s, K) == Only([n \in 1..Len(s) |-> n - 1], Firsts(s, K))
GotOf(s, K, output) == Only(output, OfKind(s, K))

(* All parts of a message say what the first says.                             *)
IsPartOf(s, n, k) ==
  /\ k \in 0..n /\ s[k + 1].message = k /\ s[k + 1].part = 1
  /\ s[k + 1].kind = s[n + 1].kind /\ s[k + 1].index = s[n + 1].index
Sensible(s) ==
  /\ s \in Seq(Packet)
  /\ \A n \in 0..Len(s) - 1 : IsPartOf(s, n, s[n + 1].message)
  /\ \A n \in 0..Len(s) - 1 : s[n + 1].parts = 1 \/ s[n + 1].kind \notin SequencedKinds
  /\ \A n \in 0..Len(s) - 1 : s[n + 1].parts = 1 => s[n + 1].message = n

(* The j-th message of its kind has index j - 1, and w is the index of the     *)
(* next, as far as an index goes.                                              *)
Numbered(s, K, w) ==
  /\ w = Len(SentOf(s, K)) % OrderModulus
  /\ \A j \in 1..Len(SentOf(s, K)) : s[SentOf(s, K)[j] + 1].index = (j - 1) % OrderModulus

Ascending(t) == \A i, j \in 1..Len(t) : i < j => t[i] < t[j]

LEMMA OnlyRises ==
  ASSUME NEW M \in SUBSET Int, NEW s \in Seq(M), NEW S, Ascending(s)
  PROVE  Ascending(Only(s, S))
<1> DEFINE n == Len(s)
           Here(j, t) == /\ t \in Seq(M) /\ Ascending(t)
                         /\ \A k \in 1..Len(t) : \E i \in 1..j : t[k] = s[i]
<1>1. PICK f : Picks(s, S, n, f) /\ Only(s, S) = f[n]
  BY Picking
<1>2. n \in Nat /\ \A k \in 1..n : s[k] \in M
  OBVIOUS
<1>3. \A i, j \in 1..n : i < j => s[i] < s[j]
  BY DEF Ascending
<1> HIDE DEF n
<1> DEFINE N == {j \in 0..n : Here(j, f[j])}
<1>4. 0 \in N
  <2>1. f[0] = <<>> /\ 0 \in 0..n /\ <<>> \in Seq(M) /\ Len(<<>>) = 0
    BY <1>1, <1>2 DEF Picks
  <2>2. Here(0, <<>>)
    BY <2>1 DEF Ascending
  <2> HIDE DEF Here
  <2>3. Here(0, f[0])
    BY <2>1, <2>2
  <2> QED BY <2>1, <2>3
<1>5. ASSUME NEW j \in 0..n - 1, j \in N
      PROVE  j + 1 \in N
  <2> DEFINE t == f[j]
             u == f[j + 1]
             e == s[j + 1]
  <2>1. j + 1 \in 1..n /\ (j + 1) - 1 = j /\ j + 1 \in 0..n /\ e \in M
    BY <1>2
  <2>2. u = IF e \in S THEN Append(t, e) ELSE t
    BY <1>1, <2>1 DEF Picks
  <2>3. Here(j, t)
    BY <1>5
  <2>4. \A k \in 1..Len(t) : t[k] < e /\ \E i \in 1..j + 1 : t[k] = s[i]
    <3> TAKE k \in 1..Len(t)
    <3>1. PICK i \in 1..j : t[k] = s[i]
      BY <2>3
    <3>2. i \in 1..n /\ i < j + 1 /\ i \in 1..j + 1
      BY <1>2, <2>1
    <3> QED BY <1>3, <2>1, <3>1, <3>2
  <2> HIDE DEF t, u, N
  <2>5. CASE e \in S
    <3>1. u \in Seq(M) /\ Len(t) \in Nat /\ Len(u) = Len(t) + 1 /\ u[Len(t) + 1] = e
          /\ \A k \in 1..Len(t) : u[k] = t[k]
      BY <2>1, <2>2, <2>3, <2>5
    <3>2. \A k \in 1..Len(u) : k = Len(t) + 1 \/ k \in 1..Len(t)
      BY <3>1
    <3>3. \A k \in 1..Len(u) : \E i \in 1..j + 1 : u[k] = s[i]
      <4>1. j + 1 \in 1..j + 1
        BY <2>1
      <4> QED BY <2>4, <3>1, <3>2, <4>1
    <3>4. Ascending(u)
      <4> SUFFICES ASSUME NEW a \in 1..Len(u), NEW b \in 1..Len(u), a < b
                   PROVE  u[a] < u[b]
        BY DEF Ascending
      <4>1. a \in 1..Len(t)
        BY <3>1
      <4>2. CASE b = Len(t) + 1
        BY <2>4, <3>1, <4>1, <4>2
      <4>3. CASE b \in 1..Len(t)
        BY <2>3, <3>1, <4>1, <4>3 DEF Ascending
      <4> QED BY <3>2, <4>2, <4>3
    <3> QED BY <2>1, <3>1, <3>3, <3>4 DEF N, u
  <2>6. CASE e \notin S
    <3>1. u = t
      BY <2>2, <2>6
    <3> QED BY <2>1, <2>3, <2>4, <3>1 DEF N, u
  <2> QED BY <2>5, <2>6
<1>6. n \in N
  <2> HIDE DEF N
  <2>1. 0..n \subseteq N
    BY <1>2, <1>4, <1>5, BoundedInduction
  <2> QED BY <1>2, <2>1
<1> QED BY <1>1, <1>6

LEMMA SentElements ==
  ASSUME NEW s, Len(s) \in Nat, NEW K
  PROVE  /\ SentOf(s, K) \in Seq(0..Len(s) - 1) /\ Len(SentOf(s, K)) \in Nat
         /\ \A j \in 1..Len(SentOf(s, K)) : SentOf(s, K)[j] \in Firsts(s, K)
         /\ \A n \in Firsts(s, K) : \E j \in 1..Len(SentOf(s, K)) : SentOf(s, K)[j] = n
         /\ Ascending(SentOf(s, K))
<1> DEFINE N == 0..Len(s) - 1
           t == [n \in 1..Len(s) |-> n - 1]
           M == SentOf(s, K)
           S == Firsts(s, K)
<1>1. t \in Seq(N) /\ Len(t) = Len(s) /\ \A k \in 1..Len(s) : t[k] = k - 1
  OBVIOUS
<1>2. N \in SUBSET Int
  OBVIOUS
<1>3. S \in SUBSET N
  BY DEF Firsts
<1>4. M = Only(t, S)
  BY DEF SentOf
<1> HIDE DEF t, S, M
<1>5. /\ M \in Seq(N)
      /\ \A k \in 1..Len(M) : M[k] \in S
      /\ \A i \in 1..Len(t) : t[i] \in S => \E k \in 1..Len(M) : M[k] = t[i]
  <2> HIDE DEF N
  <2>1. /\ Only(t, S) \in Seq(N)
        /\ \A k \in 1..Len(Only(t, S)) : Only(t, S)[k] \in S /\ \E i \in 1..Len(t) : Only(t, S)[k] = t[i]
        /\ \A i \in 1..Len(t) : t[i] \in S => \E k \in 1..Len(Only(t, S)) : Only(t, S)[k] = t[i]
    BY <1>1, OnlyElements
  <2> QED BY <1>4, <2>1
<1>6. Ascending(t)
  BY <1>1 DEF Ascending
<1>7. Ascending(M)
  BY <1>1, <1>2, <1>4, <1>6, OnlyRises
<1>8. ASSUME NEW n \in S
      PROVE  \E k \in 1..Len(M) : M[k] = n
  <2>1. n \in N
    BY <1>3
  <2>2. n + 1 \in 1..Len(t) /\ t[n + 1] = n
    BY <1>1, <2>1
  <2> QED BY <1>5, <2>2
<1>9. Len(M) \in Nat
  BY <1>5
<1> QED BY <1>5, <1>7, <1>8, <1>9 DEF M, S

(* What comes after and is not in the set changes nothing.                     *)
LEMMA OnlyNoMore ==
  ASSUME NEW M, NEW s \in Seq(M), NEW r \in Seq(M), NEW S, Len(s) <= Len(r),
         \A k \in 1..Len(s) : r[k] = s[k],
         \A k \in Len(s) + 1..Len(r) : r[k] \notin S
  PROVE  Only(r, S) = Only(s, S)
<1> DEFINE n == Len(s)
           m == Len(r)
<1>1. n \in Nat /\ m \in Nat /\ n <= m
  OBVIOUS
<1>2. PICK f : Picks(r, S, m, f) /\ Only(r, S) = f[m]
  BY Picking
<1>3. \A k \in 1..m : f[k] = IF r[k] \in S THEN Append(f[k - 1], r[k]) ELSE f[k - 1]
  BY <1>2 DEF Picks
<1>4. Picks(s, S, n, f)
  BY <1>1, <1>2 DEF Picks
<1>5. Only(s, S) = f[n]
  BY <1>4, PickingUnique
<1>6. \A k \in n + 1..m : f[k] = f[k - 1]
  BY <1>1, <1>3
<1> HIDE DEF n, m
<1> DEFINE N == {k \in 0..m - n : f[n + k] = f[n]}
<1>7. 0 \in N
  <2>1. n + 0 = n /\ 0 \in 0..m - n
    BY <1>1
  <2> QED BY <2>1
<1>8. ASSUME NEW k \in 0..(m - n) - 1, k \in N
      PROVE  k + 1 \in N
  <2>1. n + (k + 1) \in n + 1..m /\ (n + (k + 1)) - 1 = n + k /\ k + 1 \in 0..m - n
    BY <1>1
  <2> QED BY <1>6, <1>8, <2>1
<1>9. m - n \in N
  <2> HIDE DEF N
  <2>1. m - n \in Nat
    BY <1>1
  <2>2. 0..m - n \subseteq N
    BY <1>7, <1>8, <2>1, BoundedInduction
  <2> QED BY <2>1, <2>2
<1>10. n + (m - n) = m
  BY <1>1
<1> QED BY <1>2, <1>5, <1>9, <1>10

LEMMA Divides ==
  ASSUME NEW a \in Int
  PROVE  a \div OrderModulus \in Int /\ a % OrderModulus \in 0..OrderModulus - 1 /\ a = OrderModulus * (a \div OrderModulus) + (a % OrderModulus)
BY Constants

LEMMA Remainder ==
  ASSUME NEW q \in Int, NEW r \in 0..OrderModulus - 1
  PROVE  (OrderModulus * q + r) % OrderModulus = r
BY Constants

LEMMA Multiple ==
  ASSUME NEW k \in Int, OrderModulus * k < OrderModulus, -OrderModulus < OrderModulus * k
  PROVE  k = 0
<1>1. CASE k >= 1
  <2>1. OrderModulus * k = OrderModulus + OrderModulus * (k - 1) /\ k - 1 >= 0
    BY Constants, <1>1
  <2>2. OrderModulus * (k - 1) >= 0
    BY Constants, <1>1
  <2>3. OrderModulus * k \in Int /\ OrderModulus * (k - 1) \in Int
    BY Constants
  <2> QED BY Constants, <2>1, <2>2, <2>3
<1>2. CASE k <= -1
  <2>1. OrderModulus * k = (-OrderModulus) + OrderModulus * (k + 1) /\ k + 1 <= 0
    BY Constants, <1>2
  <2>2. OrderModulus * (k + 1) <= 0
    BY Constants, <1>2
  <2>3. OrderModulus * k \in Int /\ OrderModulus * (k + 1) \in Int
    BY Constants
  <2> QED BY Constants, <2>1, <2>2, <2>3
<1> QED BY <1>1, <1>2

(* Two numbers with the same index that are not too far apart are the same.    *)
LEMMA SameRemainder ==
  ASSUME NEW a \in Int, NEW b \in Int, a % OrderModulus = b % OrderModulus, a - b < OrderModulus, b - a < OrderModulus
  PROVE  a = b
<1> DEFINE x == a \div OrderModulus
           y == b \div OrderModulus
<1>1. x \in Int /\ y \in Int /\ a = OrderModulus * x + (a % OrderModulus) /\ b = OrderModulus * y + (b % OrderModulus) /\ a % OrderModulus \in Int
  <2>1. a % OrderModulus \in 0..OrderModulus - 1
    BY Divides
  <2> QED BY Divides, <2>1, Constants
<1> HIDE DEF x, y
<1>2. a - b = OrderModulus * (x - y)
  <2>1. OrderModulus * (x - y) = OrderModulus * x - OrderModulus * y /\ OrderModulus * x \in Int /\ OrderModulus * y \in Int
    BY <1>1, Constants
  <2> QED BY <1>1, <2>1
<1>3. x - y = 0
  <2>1. x - y \in Int /\ OrderModulus * (x - y) < OrderModulus /\ -OrderModulus < OrderModulus * (x - y)
    BY <1>1, <1>2, Constants
  <2> QED BY <2>1, Multiple
<1>4. OrderModulus * (x - y) = 0
  BY <1>3, Constants
<1> QED BY <1>2, <1>4

LEMMA NextRemainder ==
  ASSUME NEW a \in Int
  PROVE  ((a % OrderModulus) + 1) % OrderModulus = (a + 1) % OrderModulus
<1> DEFINE q == a \div OrderModulus
           r == a % OrderModulus
<1>1. q \in Int /\ r \in 0..OrderModulus - 1 /\ a = OrderModulus * q + r
  BY Divides
<1> HIDE DEF q, r
<1>2. CASE r < OrderModulus - 1
  <2>1. r + 1 \in 0..OrderModulus - 1 /\ a + 1 = OrderModulus * q + (r + 1)
    <3>1. OrderModulus * q \in Int /\ r \in Int
      BY <1>1, Constants
    <3> QED BY <1>1, <1>2, <3>1, Constants
  <2>2. (a + 1) % OrderModulus = r + 1
    BY <1>1, <2>1, Remainder
  <2>3. (OrderModulus * 0 + (r + 1)) % OrderModulus = r + 1
    BY <2>1, Remainder
  <2>4. OrderModulus * 0 + (r + 1) = r + 1
    BY <2>1, Constants
  <2> QED BY <2>2, <2>3, <2>4 DEF r
<1>3. CASE r = OrderModulus - 1
  <2>1. a + 1 = OrderModulus * (q + 1) + 0 /\ q + 1 \in Int /\ 0 \in 0..OrderModulus - 1 /\ r + 1 = OrderModulus * 1 + 0
    <3>1. OrderModulus * (q + 1) = OrderModulus * q + OrderModulus /\ OrderModulus * q \in Int /\ r \in Int /\ OrderModulus * 1 = OrderModulus
      BY <1>1, Constants
    <3> QED BY <1>1, <1>3, <3>1, Constants
  <2>2. (a + 1) % OrderModulus = 0
    BY <2>1, Remainder
  <2>3. (r + 1) % OrderModulus = 0
    BY <2>1, Remainder
  <2> QED BY <2>2, <2>3 DEF r
<1> QED BY <1>1, <1>2, <1>3, Constants

LEMMA EarlierRemainder ==
  ASSUME NEW a \in Int, NEW d \in 0..OrderModulus
  PROVE  (a - d) % OrderModulus = IF d <= a % OrderModulus THEN (a % OrderModulus) - d ELSE (a % OrderModulus) - d + OrderModulus
<1> DEFINE q == a \div OrderModulus
           r == a % OrderModulus
<1>1. q \in Int /\ r \in 0..OrderModulus - 1 /\ a = OrderModulus * q + r
  BY Divides
<1> HIDE DEF q, r
<1>2. OrderModulus * q \in Int /\ r \in Int /\ OrderModulus * (q - 1) = OrderModulus * q - OrderModulus /\ q - 1 \in Int
  BY <1>1, Constants
<1>3. CASE d <= r
  <2>1. r - d \in 0..OrderModulus - 1 /\ a - d = OrderModulus * q + (r - d)
    BY <1>1, <1>2, <1>3, Constants
  <2> QED BY <1>1, <1>3, <2>1, Remainder DEF r
<1>4. CASE ~(d <= r)
  <2>1. r - d + OrderModulus \in 0..OrderModulus - 1 /\ a - d = OrderModulus * (q - 1) + (r - d + OrderModulus)
    BY <1>1, <1>2, <1>4, Constants
  <2> QED BY <1>2, <1>4, <2>1, Remainder DEF r
<1> QED BY <1>3, <1>4

LEMMA IndexTyped ==
  ASSUME NEW a \in Int
  PROVE  a % OrderModulus \in 0..OrderModulus - 1
BY Constants

(* A message is added, in one or more parts.                                   *)
Extends(s, t) == Len(s) <= Len(t) /\ \A k \in 1..Len(s) : t[k] = s[k]
OneMore(s, t) ==
  /\ Extends(s, t) /\ Len(s) < Len(t) /\ t[Len(s) + 1].part = 1
  /\ \A k \in Len(s) + 2..Len(t) : t[k].part # 1

LEMMA AppendExtends ==
  ASSUME NEW M, NEW s \in Seq(M), NEW e \in M
  PROVE  Extends(s, s) /\ Extends(s, Append(s, e))
<1>1. Len(s) \in Nat /\ Len(Append(s, e)) = Len(s) + 1 /\ \A k \in 1..Len(s) : Append(s, e)[k] = s[k]
  OBVIOUS
<1> QED BY <1>1 DEF Extends

LEMMA SentGrows ==
  ASSUME NEW s, NEW t, Len(s) \in Nat, Len(t) \in Nat, OneMore(s, t), NEW K
  PROVE  SentOf(t, K) = IF t[Len(s) + 1].kind \in K THEN Append(SentOf(s, K), Len(s)) ELSE SentOf(s, K)
<1> DEFINE a == [n \in 1..Len(s) |-> n - 1]
           b == [n \in 1..Len(t) |-> n - 1]
           u == Append(a, Len(s))
           S == Firsts(s, K)
           T == Firsts(t, K)
<1>1. Len(s) < Len(t) /\ \A k \in 1..Len(s) : t[k] = s[k]
  BY DEF OneMore, Extends
<1>2. a \in Seq(Nat) /\ Len(a) = Len(s) /\ \A k \in 1..Len(s) : a[k] = k - 1
  OBVIOUS
<1>3. b \in Seq(Nat) /\ Len(b) = Len(t) /\ \A k \in 1..Len(t) : b[k] = k - 1
  OBVIOUS
<1>4. SentOf(s, K) = Only(a, S) /\ SentOf(t, K) = Only(b, T)
  BY DEF SentOf
<1>5. Len(s) \in T <=> t[Len(s) + 1].kind \in K
  <2>1. Len(s) \in 0..Len(t) - 1
    BY <1>1
  <2>2. t[Len(s) + 1].part = 1
    BY DEF OneMore
  <2> QED BY <2>1, <2>2 DEF Firsts
<1>6. \A k \in 1..Len(s) : (k - 1 \in S) <=> (k - 1 \in T)
  <2> TAKE k \in 1..Len(s)
  <2>1. k - 1 \in 0..Len(s) - 1 /\ k - 1 \in 0..Len(t) - 1 /\ (k - 1) + 1 = k /\ t[k] = s[k]
    BY <1>1
  <2> QED BY <2>1 DEF Firsts
<1>7. \A k \in Len(s) + 2..Len(t) : k - 1 \notin T
  <2> TAKE k \in Len(s) + 2..Len(t)
  <2>1. (k - 1) + 1 = k /\ t[k].part # 1
    BY DEF OneMore
  <2> QED BY <2>1 DEF Firsts
<1> HIDE DEF a, b, S, T
<1>8. u \in Seq(Nat) /\ Len(u) = Len(s) + 1 /\ u[Len(s) + 1] = Len(s) /\ \A k \in 1..Len(s) : u[k] = k - 1
  BY <1>2
<1>9. Only(u, T) = IF Len(s) \in T THEN Append(Only(a, T), Len(s)) ELSE Only(a, T)
  BY <1>2, OnlyAppend
<1> HIDE DEF u
<1>10. Only(a, T) = Only(a, S)
  <2>1. \A k \in 1..Len(a) : a[k] \in T <=> a[k] \in S
    BY <1>2, <1>6
  <2> QED BY <1>2, <2>1, OnlySame
<1>11. Only(b, T) = Only(u, T)
  <2>1. Len(u) <= Len(b)
    BY <1>1, <1>3, <1>8
  <2>2. \A k \in 1..Len(u) : b[k] = u[k]
    <3> TAKE k \in 1..Len(u)
    <3>1. k \in 1..Len(t) /\ (k = Len(s) + 1 \/ k \in 1..Len(s))
      BY <1>1, <1>8
    <3>2. b[k] = k - 1 /\ u[k] = k - 1
      BY <1>3, <1>8, <3>1
    <3> QED BY <3>2
  <2>3. \A k \in Len(u) + 1..Len(b) : b[k] \notin T
    <3> TAKE k \in Len(u) + 1..Len(b)
    <3>1. k \in Len(s) + 2..Len(t) /\ k \in 1..Len(t)
      BY <1>3, <1>8
    <3> QED BY <1>3, <1>7, <3>1
  <2> QED BY <1>3, <1>8, <2>1, <2>2, <2>3, OnlyNoMore
<1> QED BY <1>4, <1>5, <1>9, <1>10, <1>11

LEMMA SentStays ==
  ASSUME NEW s, NEW t, Len(s) \in Nat, Len(t) \in Nat, OneMore(s, t), NEW K
  PROVE  Extends(SentOf(s, K), SentOf(t, K))
<1>1. SentOf(t, K) = SentOf(s, K) \/ SentOf(t, K) = Append(SentOf(s, K), Len(s))
  BY SentGrows
<1>2. SentOf(s, K) \in Seq(0..Len(s) - 1)
  BY SentElements
<1>3. SentOf(s, K) \in Seq(Nat)
  BY <1>2
<1> QED BY <1>1, <1>3, AppendExtends

LEMMA GotStays ==
  ASSUME NEW s, NEW t, Len(s) \in Nat, Len(t) \in Nat, Extends(s, t), NEW K, NEW output \in Seq(0..Len(s) - 1)
  PROVE  GotOf(t, K, output) = GotOf(s, K, output)
<1>1. Len(s) <= Len(t) /\ \A k \in 1..Len(s) : t[k] = s[k]
  BY DEF Extends
<1>2. \A n \in 0..Len(s) - 1 : n \in 0..Len(t) - 1 /\ t[n + 1] = s[n + 1]
  BY <1>1
<1>3. \A k \in 1..Len(output) : output[k] \in 0..Len(s) - 1
  OBVIOUS
<1>4. \A k \in 1..Len(output) : output[k] \in OfKind(t, K) <=> output[k] \in OfKind(s, K)
  BY <1>2, <1>3 DEF OfKind
<1> QED BY <1>4, OnlySame DEF GotOf

LEMMA NumberedGrows ==
  ASSUME NEW s, NEW t, Len(s) \in Nat, Len(t) \in Nat, OneMore(s, t), NEW K,
         NEW w \in 0..OrderModulus - 1, Numbered(s, K, w), NEW v \in 0..OrderModulus - 1,
         IF t[Len(s) + 1].kind \in K THEN t[Len(s) + 1].index = w /\ v = (w + 1) % OrderModulus ELSE v = w
  PROVE  Numbered(t, K, v)
<1> DEFINE a == SentOf(s, K)
           b == SentOf(t, K)
<1>1. b = IF t[Len(s) + 1].kind \in K THEN Append(a, Len(s)) ELSE a
  BY SentGrows
<1>2. a \in Seq(0..Len(s) - 1) /\ Len(a) \in Nat
  BY SentElements
<1>3. \A n \in 0..Len(s) - 1 : t[n + 1] = s[n + 1]
  <2>1. \A k \in 1..Len(s) : t[k] = s[k]
    BY DEF OneMore, Extends
  <2>2. \A n \in 0..Len(s) - 1 : n + 1 \in 1..Len(s)
    OBVIOUS
  <2> QED BY <2>1, <2>2
<1>4. w = Len(a) % OrderModulus /\ \A j \in 1..Len(a) : s[a[j] + 1].index = (j - 1) % OrderModulus
  BY DEF Numbered
<1>5. Numbered(t, K, v) <=> v = Len(b) % OrderModulus
                            /\ \A j \in 1..Len(b) : t[b[j] + 1].index = (j - 1) % OrderModulus
  BY DEF Numbered
<1> HIDE DEF a, b
<1>6. \A j \in 1..Len(a) : a[j] \in 0..Len(s) - 1 /\ t[a[j] + 1] = s[a[j] + 1]
  <2>1. \A j \in 1..Len(a) : a[j] \in 0..Len(s) - 1
    BY <1>2
  <2> QED BY <1>3, <2>1
<1>7. CASE t[Len(s) + 1].kind \in K
  <2>1. b = Append(a, Len(s)) /\ t[Len(s) + 1].index = w /\ v = (w + 1) % OrderModulus
    BY <1>1, <1>7
  <2>2. Len(b) = Len(a) + 1 /\ b[Len(a) + 1] = Len(s) /\ \A j \in 1..Len(a) : b[j] = a[j]
    BY <1>2, <2>1
  <2>3. v = Len(b) % OrderModulus
    <3>1. ((Len(a) % OrderModulus) + 1) % OrderModulus = (Len(a) + 1) % OrderModulus
      BY <1>2, NextRemainder
    <3> QED BY <1>4, <2>1, <2>2, <3>1
  <2>4. ASSUME NEW j \in 1..Len(b)
        PROVE  t[b[j] + 1].index = (j - 1) % OrderModulus
    <3>1. CASE j = Len(a) + 1
      <4>1. j - 1 = Len(a)
        BY <1>2, <3>1
      <4> QED BY <1>4, <2>1, <2>2, <3>1, <4>1
    <3>2. CASE j # Len(a) + 1
      <4>1. j \in 1..Len(a)
        <5>1. Len(a) \in Nat /\ Len(b) = Len(a) + 1
          BY <1>2, <2>2
        <5> QED BY <3>2, <5>1
      <4> QED BY <1>4, <1>6, <2>2, <4>1
    <3> QED BY <3>1, <3>2
  <2> QED BY <1>5, <2>3, <2>4
<1>8. CASE t[Len(s) + 1].kind \notin K
  <2>1. b = a /\ v = w
    BY <1>1, <1>8
  <2> QED BY <1>4, <1>5, <1>6, <2>1
<1> QED BY <1>7, <1>8

-----------------------------------------------------------------------------
(* What the game has got: of the ordered messages the first ones, of the       *)
(* sequenced ones none that is older than another before it.                   *)

InOrder(s, output, read) ==
  LET got == GotOf(s, OrderedKinds, output)
  IN Extends(got, SentOf(s, OrderedKinds)) /\ read = Len(got) % OrderModulus

Rising(s, output, read) ==
  LET got  == GotOf(s, SequencedKinds, output)
      sent == SentOf(s, SequencedKinds)
  IN /\ Ascending(got)
     /\ got # <<>> => \E r \in 1..Len(sent) : sent[r] = got[Len(got)] /\ read = r % OrderModulus

(* No place in T is more than d behind one in S.                               *)
Behind(S, T, d) == \A x \in S, y \in T : x - y <= d

(* Which of the messages of a kind, counted from 1, are in a set.              *)
Places(s, K, E) == {j \in 1..Len(SentOf(s, K)) : SentOf(s, K)[j] \in E}

(* The messages in E have come in time: an index says which message it is.     *)
OrderedNear(s, E, output) ==
  LET near == Places(s, OrderedKinds, E) \cup {Len(GotOf(s, OrderedKinds, output))}
  IN Behind(near, near, OrderModulus - 2)

SequencedNear(s, E, output) ==
  LET got == GotOf(s, SequencedKinds, output)
  IN Behind(Places(s, SequencedKinds, E \cup Range(got)), Places(s, SequencedKinds, E),
            (OrderModulus - 1) \div 2 - 2)

LEMMA Half ==
  /\ (OrderModulus - 1) \div 2 \in Nat
  /\ 2 * ((OrderModulus - 1) \div 2) + 2 = OrderModulus
<1>1. PICK k \in 2..128 : OrderModulus = 2 * k
  BY LayerAssumption
<1>2. (2 * k - 1) \div 2 = k - 1
  BY <1>1
<1> QED BY <1>1, <1>2

(* An index is recognised as older when it is less than half behind.           *)
LEMMA OlderBehind ==
  ASSUME NEW r \in Nat, NEW d \in Nat, 1 <= d, d <= (OrderModulus - 1) \div 2 - 1
  PROVE  IsOlderOrderedPacket((r - d) % OrderModulus, r % OrderModulus)
<1> DEFINE half == (OrderModulus - 1) \div 2
           a == (r - d) % OrderModulus
           b == r % OrderModulus
           c == b - (half + 1)
<1>1. half \in Nat /\ OrderModulus = 2 * half + 2 /\ 1 <= d /\ d <= half - 1
  BY Half
<1>2. IsOlderOrderedPacket(a, b) <=> IF b > half THEN b - half + 1 <= a /\ a < b
                                     ELSE c % OrderModulus <= a \/ a < b
  BY DEF IsOlderOrderedPacket
<1> HIDE DEF half
<1>3. b \in 0..OrderModulus - 1 /\ d \in 0..OrderModulus
  <2>1. d \in 0..OrderModulus
    BY <1>1, Constants
  <2> QED BY <2>1, Divides
<1>4. a = IF d <= b THEN b - d ELSE b - d + OrderModulus
  BY <1>3, EarlierRemainder
<1> HIDE DEF a, b
<1>5. CASE b > half
  <2>1. a = b - d
    BY <1>1, <1>3, <1>4, <1>5
  <2> QED BY <1>1, <1>2, <1>3, <1>5, <2>1 DEF a, b
<1>6. CASE ~(b > half) /\ d <= b
  <2>1. a < b
    BY <1>1, <1>3, <1>4, <1>6
  <2> QED BY <1>2, <1>6, <2>1 DEF a, b
<1>7. CASE ~(b > half) /\ ~(d <= b)
  <2>1. a = b - d + OrderModulus
    BY <1>4, <1>7
  <2>2. c % OrderModulus = c + OrderModulus
    <3>1. c \in Int /\ c + OrderModulus \in 0..OrderModulus - 1 /\ c = (OrderModulus * (-1)) + (c + OrderModulus) /\ -1 \in Int
      BY <1>1, <1>3, <1>7, Constants
    <3> HIDE DEF c
    <3> DEFINE e == c + OrderModulus
    <3>2. c = (OrderModulus * (-1)) + e /\ e \in 0..OrderModulus - 1
      BY <3>1
    <3> HIDE DEF e
    <3>3. ((OrderModulus * (-1)) + e) % OrderModulus = e
      BY <3>1, <3>2, Remainder
    <3> QED BY <3>2, <3>3 DEF e
  <2>3. c % OrderModulus <= a
    BY <1>1, <1>3, <2>1, <2>2, Constants
  <2> QED BY <1>2, <1>7, <2>3 DEF a, b
<1> QED BY <1>5, <1>6, <1>7

LEMMA GotNext ==
  ASSUME NEW s, Len(s) \in Nat, NEW K, NEW output \in Seq(0..Len(s) - 1), NEW m \in 0..Len(s) - 1
  PROVE  /\ GotOf(s, K, output) \in Seq(0..Len(s) - 1)
         /\ GotOf(s, K, Append(output, m)) =
              IF s[m + 1].kind \in K THEN Append(GotOf(s, K, output), m) ELSE GotOf(s, K, output)
         /\ \A k \in 1..Len(GotOf(s, K, output)) : GotOf(s, K, output)[k] \in OfKind(s, K)
<1> DEFINE N == 0..Len(s) - 1
           S == OfKind(s, K)
<1>1. m \in S <=> s[m + 1].kind \in K
  BY DEF OfKind
<1>2. m \in N /\ output \in Seq(N)
  OBVIOUS
<1> HIDE DEF N, S
<1>3. Only(output, S) \in Seq(N) /\ \A k \in 1..Len(Only(output, S)) : Only(output, S)[k] \in S
  BY <1>2, OnlyElements
<1>4. Only(Append(output, m), S) = IF m \in S THEN Append(Only(output, S), m) ELSE Only(output, S)
  BY <1>2, OnlyAppend
<1> QED BY <1>1, <1>3, <1>4 DEF GotOf, N, S

LEMMA OrderedSkip ==
  ASSUME NEW s, Len(s) \in Nat, NEW output \in Seq(0..Len(s) - 1), NEW m \in 0..Len(s) - 1,
         s[m + 1].kind \notin OrderedKinds
  PROVE  /\ GotOf(s, OrderedKinds, Append(output, m)) = GotOf(s, OrderedKinds, output)
         /\ \A read : InOrder(s, output, read) => InOrder(s, Append(output, m), read)
         /\ \A E : OrderedNear(s, E, output) => OrderedNear(s, E, Append(output, m))
<1>1. GotOf(s, OrderedKinds, Append(output, m)) = GotOf(s, OrderedKinds, output)
  BY GotNext
<1> QED BY <1>1 DEF InOrder, OrderedNear

LEMMA SequencedSkip ==
  ASSUME NEW s, Len(s) \in Nat, NEW output \in Seq(0..Len(s) - 1), NEW m \in 0..Len(s) - 1,
         s[m + 1].kind \notin SequencedKinds
  PROVE  /\ \A read : Rising(s, output, read) => Rising(s, Append(output, m), read)
         /\ \A E : SequencedNear(s, E, output) => SequencedNear(s, E, Append(output, m))
<1>1. GotOf(s, SequencedKinds, Append(output, m)) = GotOf(s, SequencedKinds, output)
  BY GotNext
<1> QED BY <1>1 DEF Rising, SequencedNear

(* The ordered message whose index is waited for is the next.                  *)
LEMMA OrderedNext ==
  ASSUME NEW s, Len(s) \in Nat, NEW output \in Seq(0..Len(s) - 1), NEW m \in Firsts(s, OrderedKinds),
         NEW w, Numbered(s, OrderedKinds, w), NEW read, InOrder(s, output, read), s[m + 1].index = read,
         NEW E, m \in E, OrderedNear(s, E, output)
  PROVE  /\ InOrder(s, Append(output, m), (read + 1) % OrderModulus)
         /\ OrderedNear(s, E, Append(output, m))
<1> DEFINE G == GotOf(s, OrderedKinds, output)
           H == GotOf(s, OrderedKinds, Append(output, m))
           M == SentOf(s, OrderedKinds)
           P == Places(s, OrderedKinds, E)
           d == OrderModulus - 2
<1>1. m \in 0..Len(s) - 1 /\ s[m + 1].kind \in OrderedKinds
  BY DEF Firsts
<1>2. G \in Seq(0..Len(s) - 1) /\ H = Append(G, m)
  BY <1>1, GotNext
<1>3. Extends(G, M) /\ read = Len(G) % OrderModulus
  BY DEF InOrder
<1>4. \A j \in 1..Len(M) : s[M[j] + 1].index = (j - 1) % OrderModulus
  BY DEF Numbered
<1>5. Len(M) \in Nat /\ \E j \in 1..Len(M) : M[j] = m
  BY SentElements
<1>6. P = {j \in 1..Len(M) : M[j] \in E}
  BY DEF Places
<1>7. Behind(P \cup {Len(G)}, P \cup {Len(G)}, d)
  BY DEF OrderedNear
<1>8. OrderedNear(s, E, Append(output, m)) <=> Behind(P \cup {Len(H)}, P \cup {Len(H)}, d)
  BY DEF OrderedNear
<1>9. InOrder(s, Append(output, m), (read + 1) % OrderModulus)
      <=> Extends(H, M) /\ (read + 1) % OrderModulus = Len(H) % OrderModulus
  BY DEF InOrder
<1>10. d = OrderModulus - 2 /\ OrderModulus \in Nat
  BY Constants
<1> HIDE DEF G, H, M, P, d
<1>11. PICK j \in 1..Len(M) : M[j] = m
  BY <1>5
<1>12. Len(G) \in Nat /\ Len(H) = Len(G) + 1 /\ H[Len(G) + 1] = m /\ \A k \in 1..Len(G) : H[k] = G[k]
  BY <1>1, <1>2
<1>13. j \in P /\ P \in SUBSET Nat
  BY <1>5, <1>6, <1>11
<1>14. j - 1 = Len(G)
  <2>1. j - Len(G) <= d /\ Len(G) - j <= d
    BY <1>7, <1>13 DEF Behind
  <2>2. (j - 1) % OrderModulus = Len(G) % OrderModulus
    BY <1>3, <1>4, <1>11
  <2>3. (j - 1) \in Int /\ Len(G) \in Int /\ (j - 1) - Len(G) < OrderModulus /\ Len(G) - (j - 1) < OrderModulus
    BY <1>10, <1>12, <1>13, <2>1
  <2> QED BY <2>2, <2>3, SameRemainder
<1>15. j = Len(G) + 1 /\ j = Len(H) /\ Len(H) <= Len(M)
  BY <1>5, <1>12, <1>14
<1>16. Extends(H, M)
  <2>1. \A k \in 1..Len(H) : M[k] = H[k]
    <3> TAKE k \in 1..Len(H)
    <3>1. CASE k = Len(G) + 1
      BY <1>11, <1>12, <1>15, <3>1
    <3>2. CASE k # Len(G) + 1
      <4>1. k \in 1..Len(G)
        BY <1>12, <3>2
      <4> QED BY <1>3, <1>12, <4>1 DEF Extends
    <3> QED BY <3>1, <3>2
  <2> QED BY <1>15, <2>1 DEF Extends
<1>17. (read + 1) % OrderModulus = Len(H) % OrderModulus
  BY <1>3, <1>12, NextRemainder
<1>18. Behind(P \cup {Len(H)}, P \cup {Len(H)}, d)
  <2>1. P \cup {Len(H)} \in SUBSET (P \cup {Len(G)})
    BY <1>13, <1>15
  <2> QED BY <1>7, <2>1 DEF Behind
<1> QED BY <1>8, <1>9, <1>16, <1>17, <1>18

(* A sequenced message that is not older than what is waited for is newer than *)
(* all before it.                                                              *)
LEMMA SequencedNext ==
  ASSUME NEW s, Sensible(s), Len(s) \in Nat, NEW output \in Seq(0..Len(s) - 1), NEW m \in 0..Len(s) - 1,
         s[m + 1].kind \in SequencedKinds, NEW w, Numbered(s, SequencedKinds, w),
         NEW read, Rising(s, output, read), ~IsOlderOrderedPacket(s[m + 1].index, read),
         NEW E, m \in E, SequencedNear(s, E, output)
  PROVE  /\ Rising(s, Append(output, m), (s[m + 1].index + 1) % OrderModulus)
         /\ SequencedNear(s, E, Append(output, m))
<1> DEFINE G == GotOf(s, SequencedKinds, output)
           H == GotOf(s, SequencedKinds, Append(output, m))
           M == SentOf(s, SequencedKinds)
           P(X) == Places(s, SequencedKinds, X)
           half == (OrderModulus - 1) \div 2
           a == s[m + 1].index
           d == half - 2
<1>1. half \in Nat
  BY Half
<1>2. G \in Seq(0..Len(s) - 1) /\ H = Append(G, m)
  BY GotNext
<1>3. Ascending(G) /\ (G # <<>> => \E r \in 1..Len(M) : M[r] = G[Len(G)] /\ read = r % OrderModulus)
  BY DEF Rising
<1>4. \A j \in 1..Len(M) : s[M[j] + 1].index = (j - 1) % OrderModulus
  BY DEF Numbered
<1>5. Len(M) \in Nat /\ Ascending(M) /\ M \in Seq(0..Len(s) - 1)
      /\ \A n \in Firsts(s, SequencedKinds) : \E j \in 1..Len(M) : M[j] = n
  BY SentElements
<1>6. PICK j \in 1..Len(M) : M[j] = m
  <2>1. s[m + 1].message = m
    BY DEF Sensible
  <2>2. s[m + 1].part = 1
    BY <2>1 DEF Sensible, IsPartOf
  <2>3. m \in Firsts(s, SequencedKinds)
    BY <2>2 DEF Firsts
  <2> QED BY <1>5, <2>3
<1>7. \A X : P(X) = {k \in 1..Len(M) : M[k] \in X}
  BY DEF Places
<1>8. Behind(P(E \cup Range(G)), P(E), d)
  BY DEF SequencedNear
<1>9. SequencedNear(s, E, Append(output, m)) <=> Behind(P(E \cup Range(H)), P(E), d)
  BY DEF SequencedNear
<1>10. Rising(s, Append(output, m), (a + 1) % OrderModulus)
       <=> /\ Ascending(H)
           /\ H # <<>> => \E r \in 1..Len(M) : M[r] = H[Len(H)] /\ (a + 1) % OrderModulus = r % OrderModulus
  BY DEF Rising
<1>11. a = (j - 1) % OrderModulus
  BY <1>4, <1>6
<1>12. ~IsOlderOrderedPacket(a, read)
  OBVIOUS
<1> HIDE DEF G, H, M, P, a
<1>13. Len(G) \in Nat /\ Len(H) = Len(G) + 1 /\ H[Len(G) + 1] = m /\ (\A k \in 1..Len(G) : H[k] = G[k])
       /\ G \in Seq(Int) /\ DOMAIN G = 1..Len(G) /\ DOMAIN H = 1..Len(H) /\ (Len(G) > 0 => G # <<>>)
  BY <1>2
<1>14. ASSUME NEW k \in 1..Len(G)
       PROVE  G[k] < m
  <2>1. G # <<>> /\ Len(G) \in 1..Len(G)
    BY <1>13
  <2>2. PICK r \in 1..Len(M) : M[r] = G[Len(G)] /\ read = r % OrderModulus
    BY <1>3, <2>1
  <2>3. r < j
    <3> SUFFICES ASSUME ~(r < j) PROVE FALSE
      OBVIOUS
    <3> DEFINE e == r - (j - 1)
    <3>1. G[Len(G)] \in Range(G)
      BY <1>13, <2>1 DEF Range
    <3>2. r \in P(E \cup Range(G)) /\ j \in P(E)
      BY <1>6, <1>7, <2>2, <3>1
    <3>3. r - j <= d
      BY <1>8, <3>2 DEF Behind
    <3>4. r \in Nat /\ j \in Nat /\ e \in Nat /\ 1 <= e /\ e <= half - 1 /\ r - e = j - 1
      <4>1. r \in Nat /\ j \in Nat /\ d = half - 2
        BY <1>5
      <4> HIDE DEF d, half
      <4> QED BY <1>1, <3>3, <4>1
    <3> HIDE DEF e
    <3>5. IsOlderOrderedPacket((r - e) % OrderModulus, r % OrderModulus)
      BY <3>4, OlderBehind
    <3> QED BY <1>11, <1>12, <2>2, <3>4, <3>5
  <2>4. G[Len(G)] < m
    BY <1>5, <1>6, <2>2, <2>3 DEF Ascending
  <2>5. G[k] <= G[Len(G)]
    <3>1. CASE k = Len(G)
      BY <1>13, <3>1
    <3>2. CASE k # Len(G)
      <4>1. Len(G) \in Nat /\ G[k] \in Int /\ G[Len(G)] \in Int
        BY <1>13, <2>1
      <4>2. k < Len(G)
        BY ONLY <3>2, <4>1, k \in 1..Len(G)
      <4>3. G[k] < G[Len(G)]
        BY <1>3, <2>1, <4>2 DEF Ascending
      <4> QED BY ONLY <4>1, <4>3
    <3> QED BY <3>1, <3>2
  <2>6. G[k] \in Int /\ G[Len(G)] \in Int /\ m \in Int
    BY <1>13, <2>1
  <2> QED BY <2>4, <2>5, <2>6
<1>15. \A k \in 1..Len(H) : k = Len(G) + 1 \/ k \in 1..Len(G)
  BY <1>13
<1>16. Ascending(H)
  <2> SUFFICES ASSUME NEW x \in 1..Len(H), NEW y \in 1..Len(H), x < y
               PROVE  H[x] < H[y]
    BY DEF Ascending
  <2>1. x \in 1..Len(G)
    BY <1>13
  <2>2. CASE y = Len(G) + 1
    BY <1>13, <1>14, <2>1, <2>2
  <2>3. CASE y \in 1..Len(G)
    BY <1>3, <1>13, <2>1, <2>3 DEF Ascending
  <2> QED BY <1>15, <2>2, <2>3
<1>17. M[j] = H[Len(H)] /\ (a + 1) % OrderModulus = j % OrderModulus
  <2>1. j - 1 \in Int /\ (j - 1) + 1 = j
    BY <1>5
  <2>2. (((j - 1) % OrderModulus) + 1) % OrderModulus = ((j - 1) + 1) % OrderModulus
    BY <2>1, NextRemainder
  <2> QED BY <1>6, <1>11, <1>13, <2>1, <2>2
<1>18. E \cup Range(H) = E \cup Range(G)
  <2>1. Range(H) = Range(G) \cup {m}
    <3>1. \A x \in Range(H) : x \in Range(G) \/ x = m
      BY <1>13, <1>15 DEF Range
    <3>2. \A k \in 1..Len(G) : k \in 1..Len(H)
      BY <1>13
    <3>3. \A x \in Range(G) : x \in Range(H)
      BY <1>13, <3>2 DEF Range
    <3>4. m \in Range(H)
      <4>1. Len(G) + 1 \in 1..Len(H)
        BY <1>13
      <4> QED BY <1>13, <4>1 DEF Range
    <3> QED BY <3>1, <3>3, <3>4
  <2> QED BY <2>1
<1> QED BY <1>8, <1>9, <1>10, <1>16, <1>17, <1>18 DEF a

-----------------------------------------------------------------------------
(* The half of a layer that receives.                                          *)

Arrival == [hole : BOOLEAN, age : Int]

Receiver(N) ==
  [base : Int, received : Seq(Arrival), acks : Seq(Ack(N)),
   orderedRead : 0..OrderModulus - 1, sequencedRead : 0..OrderModulus - 1,
   ordering : Seq(N), splits : SUBSET N, output : Seq(N), taken : SUBSET N]

(* c says which of the two orders is claimed.                                  *)
Right(s, c, i) ==
  /\ i \in Receiver(0..Len(s) - 1)
  /\ i.ordering \in Seq(Firsts(s, OrderedKinds))
  /\ "ordered" \in c => InOrder(s, i.output, i.orderedRead)
  /\ "sequenced" \in c => Rising(s, i.output, i.sequencedRead)

(* While the packets of a datagram are looked at: e.got is how many ordered    *)
(* messages the game had got before, e.there all messages that wait or come.   *)
Good(s, e, i) ==
  /\ Right(s, e.claims, i)
  /\ i.ordering \in Seq(e.there)
  /\ "ordered" \in e.claims => /\ OrderedNear(s, e.there, i.output)
                              /\ e.got <= Len(GotOf(s, OrderedKinds, i.output))
  /\ "sequenced" \in e.claims => SequencedNear(s, e.there, i.output)

Sound(s) ==
  /\ Sensible(s)
  /\ \E w : Numbered(s, OrderedKinds, w)
  /\ \E w : Numbered(s, SequencedKinds, w)

LEMMA ReceiverFields ==
  ASSUME NEW N, NEW i \in Receiver(N)
  PROVE  /\ i.base \in Int /\ i.received \in Seq(Arrival) /\ i.acks \in Seq(Ack(N))
         /\ i.orderedRead \in 0..OrderModulus - 1 /\ i.sequencedRead \in 0..OrderModulus - 1
         /\ i.ordering \in Seq(N) /\ i.splits \in SUBSET N /\ i.output \in Seq(N) /\ i.taken \in SUBSET N
BY DEF Receiver

LEMMA ReceiverArrivals ==
  ASSUME NEW N, NEW i \in Receiver(N), NEW r \in Seq(Arrival), NEW b \in Int, NEW k \in SUBSET N
  PROVE  [i EXCEPT !.received = r, !.base = b, !.taken = k] \in Receiver(N)
BY DEF Receiver

LEMMA ReceiverOrdered ==
  ASSUME NEW N, NEW i \in Receiver(N), NEW u \in Seq(N), NEW o \in Seq(N), NEW r \in 0..OrderModulus - 1
  PROVE  [i EXCEPT !.output = u, !.ordering = o, !.orderedRead = r] \in Receiver(N)
BY DEF Receiver

(* What the game has got does not depend on when packets arrive.               *)
GameFields(i) == <<i.ordering, i.output, i.orderedRead, i.sequencedRead>>

LEMMA RightSame ==
  ASSUME NEW s, NEW c, NEW i, Right(s, c, i), NEW j \in Receiver(0..Len(s) - 1), GameFields(j) = GameFields(i)
  PROVE  Right(s, c, j)
<1>1. j.ordering = i.ordering /\ j.output = i.output /\ j.orderedRead = i.orderedRead
      /\ j.sequencedRead = i.sequencedRead
  BY DEF GameFields
<1> QED BY <1>1 DEF Right

LEMMA GoodSame ==
  ASSUME NEW s, NEW e, NEW i, Good(s, e, i), NEW j \in Receiver(0..Len(s) - 1), GameFields(j) = GameFields(i)
  PROVE  Good(s, e, j)
<1>1. j.ordering = i.ordering /\ j.output = i.output
  BY DEF GameFields
<1>2. Right(s, e.claims, j)
  BY RightSame DEF Good
<1> QED BY <1>1, <1>2 DEF Good

LEMMA RegisterTyped ==
  ASSUME NEW q, NEW N, N \in SUBSET Int, NEW i \in Receiver(N), NEW n \in N, ~IsDuplicate(i, n)
  PROVE  Register(q, i, n) \in Receiver(N) /\ GameFields(Register(q, i, n)) = GameFields(i)
<1> DEFINE pos == Position(i, n)
           s == i.received
           more == [k \in 1..pos - Len(s) + 1 |->
                      IF k = pos - Len(s) + 1 THEN MakeReceivedPacketTime ELSE MakeReceivedPacketHole]
           i1 == IF pos = 0
                 THEN [i EXCEPT !.received = IF s = <<>> THEN s ELSE Tail(s), !.base = i.base + 1]
                 ELSE IF pos < Len(s)
                 THEN [i EXCEPT !.received[pos + 1] = MakeReceivedPacketTime]
                 ELSE [i EXCEPT !.received = s \o more]
           S == {m \in 0..Len(i1.received) : \A k \in 1..m : Expired(q, i1.received[k])}
           gone == Max(S)
           r == SubSeq(i1.received, gone + 1, Len(i1.received))
           b == i1.base + gone
           t == i1.taken \cup {n}
<1>1. Register(q, i, n) = [i1 EXCEPT !.received = r, !.base = b, !.taken = t]
  BY DEF Register, Leading
<1>2. i.base \in Int /\ s \in Seq(Arrival) /\ Len(s) \in Nat /\ i.taken \in SUBSET N
  BY ReceiverFields
<1>3. pos \in Int /\ ~(pos < 0)
  BY <1>2 DEF IsDuplicate, Position
<1>4. MakeReceivedPacketTime \in Arrival /\ MakeReceivedPacketHole \in Arrival
  BY DEF MakeReceivedPacketTime, MakeReceivedPacketHole, Arrival
<1> HIDE DEF pos, s
<1>5. i1 \in Receiver(N) /\ GameFields(i1) = GameFields(i)
  <2>1. CASE pos = 0
    <3> DEFINE u == IF s = <<>> THEN s ELSE Tail(s)
               c == i.base + 1
    <3>1. u \in Seq(Arrival) /\ c \in Int
      BY <1>2
    <3>2. i1 = [i EXCEPT !.received = u, !.base = c]
      BY <2>1
    <3> HIDE DEF u, c
    <3> QED BY <3>1, <3>2 DEF Receiver, GameFields
  <2>2. CASE pos # 0 /\ pos < Len(s)
    <3> DEFINE u == [s EXCEPT ![pos + 1] = MakeReceivedPacketTime]
    <3>1. u \in Seq(Arrival)
      BY <1>2, <1>3, <1>4, <2>2
    <3>2. i1 = [i EXCEPT !.received = u]
      BY <2>2 DEF s
    <3> HIDE DEF u
    <3> QED BY <3>1, <3>2 DEF Receiver, GameFields
  <2>3. CASE pos # 0 /\ ~(pos < Len(s))
    <3> DEFINE u == s \o more
    <3>1. more \in Seq(Arrival)
      <4>1. pos - Len(s) + 1 \in Nat
        BY <1>2, <1>3, <2>3
      <4>2. more \in [1..pos - Len(s) + 1 -> Arrival]
        BY <1>4
      <4> QED BY <4>1, <4>2
    <3> HIDE DEF more
    <3>2. u \in Seq(Arrival)
      BY <1>2, <3>1
    <3>3. i1 = [i EXCEPT !.received = u]
      BY <2>3
    <3> HIDE DEF u
    <3> QED BY <3>2, <3>3 DEF Receiver, GameFields
  <2> QED BY <2>1, <2>2, <2>3
<1> HIDE DEF i1
<1>6. i1.received \in Seq(Arrival) /\ i1.base \in Int /\ i1.taken \in SUBSET N /\ Len(i1.received) \in Nat
  BY <1>5, ReceiverFields
<1>7. gone \in 0..Len(i1.received)
  <2>1. S \in SUBSET (0..Len(i1.received)) /\ 0 \in S
    BY <1>6
  <2> HIDE DEF S
  <2>2. gone \in S
    BY <1>6, <2>1, LargestCount
  <2> QED BY <2>1, <2>2
<1> HIDE DEF gone
<1>8. r \in Seq(Arrival) /\ b \in Int /\ t \in SUBSET N
  <2>1. gone \in Nat /\ gone <= Len(i1.received)
    BY <1>6, <1>7
  <2> QED BY <1>6, <2>1
<1> HIDE DEF r, b, t
<1>9. [i1 EXCEPT !.received = r, !.base = b, !.taken = t] \in Receiver(N)
  BY <1>5, <1>8, ReceiverArrivals
<1>10. GameFields([i1 EXCEPT !.received = r, !.base = b, !.taken = t]) = GameFields(i1)
  BY <1>5 DEF GameFields, Receiver
<1> QED BY <1>1, <1>5, <1>9, <1>10

LEMMA RemoveTyped ==
  ASSUME NEW M, NEW s \in Seq(M), NEW k \in 1..Len(s)
  PROVE  RemoveAt(s, k) \in Seq(M)
<1>1. Len(s) \in Nat /\ k \in Nat
  OBVIOUS
<1>2. SubSeq(s, 1, k - 1) \in Seq(M) /\ SubSeq(s, k + 1, Len(s)) \in Seq(M)
  BY <1>1
<1> QED BY <1>2 DEF RemoveAt

(* The messages of one end that were sent in order, as numbers.                *)
LEMMA FirstsTyped ==
  ASSUME NEW s, NEW K
  PROVE  Firsts(s, K) \in SUBSET (0..Len(s) - 1)
BY DEF Firsts

(* The ordered message that is waited for goes to the game.                    *)
LEMMA GoesOn ==
  ASSUME NEW s, Sound(s), NEW e, e.got \in Int, NEW i, Good(s, e, i),
         NEW m \in Firsts(s, OrderedKinds), m \in e.there, s[m + 1].index = i.orderedRead,
         NEW o \in Seq(Firsts(s, OrderedKinds)), o \in Seq(e.there), NEW u, u = Append(i.output, m),
         NEW r, r = (i.orderedRead + 1) % OrderModulus
  PROVE  Good(s, e, [i EXCEPT !.output = u, !.ordering = o, !.orderedRead = r])
<1> DEFINE N == 0..Len(s) - 1
           j == [i EXCEPT !.output = u, !.ordering = o, !.orderedRead = r]
<1>1. i \in Receiver(N)
  BY DEF Good, Right
<1>2. i.output \in Seq(N) /\ i.orderedRead \in 0..OrderModulus - 1
  BY <1>1, ReceiverFields
<1>3. Len(s) \in Nat /\ m \in N /\ s[m + 1].kind = "RELIABLE_ORDERED"
  BY FirstsTyped DEF Sound, Sensible, Firsts, OrderedKinds
<1>4. o \in Seq(N)
  BY FirstsTyped
<1>5. r \in 0..OrderModulus - 1
  <2>1. i.orderedRead + 1 \in Int
    BY <1>2
  <2> QED BY <2>1, IndexTyped
<1> HIDE DEF N
<1>6. u \in Seq(N)
  BY <1>2, <1>3
<1>7. j \in Receiver(N)
  BY <1>1, <1>4, <1>5, <1>6, ReceiverOrdered
<1>8. j.output = u /\ j.ordering = o /\ j.orderedRead = r /\ j.sequencedRead = i.sequencedRead
  BY <1>1 DEF Receiver
<1>9. "ordered" \in e.claims => /\ InOrder(s, u, r) /\ OrderedNear(s, e.there, u)
                                /\ e.got <= Len(GotOf(s, OrderedKinds, u))
  <2> SUFFICES ASSUME "ordered" \in e.claims
               PROVE  /\ InOrder(s, u, r) /\ OrderedNear(s, e.there, u)
                      /\ e.got <= Len(GotOf(s, OrderedKinds, u))
    OBVIOUS
  <2>1. PICK w : Numbered(s, OrderedKinds, w)
    BY DEF Sound
  <2>2. InOrder(s, i.output, i.orderedRead) /\ OrderedNear(s, e.there, i.output)
        /\ e.got <= Len(GotOf(s, OrderedKinds, i.output))
    BY DEF Good, Right
  <2>3. InOrder(s, u, r) /\ OrderedNear(s, e.there, u)
    BY <1>2, <1>3, <2>1, <2>2, OrderedNext DEF N
  <2> DEFINE G == GotOf(s, OrderedKinds, i.output)
             H == GotOf(s, OrderedKinds, u)
  <2>4. G \in Seq(N) /\ H = Append(G, m)
    <3>1. s[m + 1].kind \in OrderedKinds
      BY <1>3 DEF OrderedKinds
    <3> QED BY <1>2, <1>3, <3>1, GotNext DEF N
  <2>5. e.got <= Len(G)
    BY <2>2
  <2> HIDE DEF G, H
  <2>6. Len(G) \in Nat /\ Len(H) = Len(G) + 1
    BY <1>3, <2>4
  <2>7. e.got <= Len(H)
    BY <2>5, <2>6
  <2> QED BY <2>3, <2>7 DEF H
<1>10. "sequenced" \in e.claims => Rising(s, u, i.sequencedRead) /\ SequencedNear(s, e.there, u)
  <2> SUFFICES ASSUME "sequenced" \in e.claims
               PROVE  Rising(s, u, i.sequencedRead) /\ SequencedNear(s, e.there, u)
    OBVIOUS
  <2>1. s[m + 1].kind \notin SequencedKinds
    BY <1>3 DEF SequencedKinds
  <2>2. Rising(s, i.output, i.sequencedRead) /\ SequencedNear(s, e.there, i.output)
    BY DEF Good, Right
  <2> QED BY <1>2, <1>3, <2>1, <2>2, SequencedSkip DEF N
<1> HIDE DEF j
<1>11. Right(s, e.claims, j)
  BY <1>7, <1>8, <1>9, <1>10 DEF Right, N
<1>12. Good(s, e, j)
  BY <1>8, <1>9, <1>10, <1>11 DEF Good
<1> QED BY <1>12 DEF j

LEMMA TakeReadyGood ==
  ASSUME NEW p, Sound(packet[p]), NEW e, e.got \in Int, NEW i, Good(packet[p], e, i)
  PROVE  Good(packet[p], e, TakeReady(p, i))
<1> DEFINE s == packet[p]
           ready == {k \in DOMAIN i.ordering : s[i.ordering[k] + 1].index = i.orderedRead}
           k == Min(ready)
           u == Append(i.output, i.ordering[k])
           o == RemoveAt(i.ordering, k)
           r == (i.orderedRead + 1) % OrderModulus
<1>1. TakeReady(p, i) = IF ready = {} THEN i ELSE [i EXCEPT !.output = u, !.ordering = o, !.orderedRead = r]
  BY DEF TakeReady
<1>2. i.ordering \in Seq(Firsts(s, OrderedKinds)) /\ i.ordering \in Seq(e.there)
  BY DEF Good, Right
<1>3. CASE ready = {}
  BY <1>1, <1>3
<1>4. CASE ready # {}
  <2>1. Len(i.ordering) \in Nat /\ ready \in SUBSET (1..Len(i.ordering))
    BY <1>2
  <2>2. k \in ready
    <3> HIDE DEF ready
    <3> QED BY <1>4, <2>1, FirstPosition, ZenonT(30)
  <2>3. k \in 1..Len(i.ordering) /\ s[i.ordering[k] + 1].index = i.orderedRead
    BY <2>1, <2>2, ZenonT(30)
  <2> HIDE DEF k
  <2>4. i.ordering[k] \in Firsts(s, OrderedKinds) /\ i.ordering[k] \in e.there
    BY <1>2, <2>3
  <2>5. o \in Seq(Firsts(s, OrderedKinds)) /\ o \in Seq(e.there)
    BY <1>2, <2>3, RemoveTyped
  <2> DEFINE m == i.ordering[k]
  <2>6. u = Append(i.output, m) /\ m \in Firsts(s, OrderedKinds) /\ m \in e.there /\ s[m + 1].index = i.orderedRead
    BY <2>3, <2>4
  <2> HIDE DEF m, u, o, r, ready
  <2>7. Good(s, e, [i EXCEPT !.output = u, !.ordering = o, !.orderedRead = r])
    BY <2>5, <2>6, GoesOn DEF r
  <2> QED BY <1>1, <1>4, <2>7
<1> QED BY <1>3, <1>4

LEMMA DrainStays ==
  ASSUME NEW p, NEW S, NEW i \in S, Len(i.ordering) \in Nat, \A x \in S : TakeReady(p, x) \in S
  PROVE  Drain(p, i) \in S
<1> DEFINE n == Len(i.ordering)
           F == [x \in S \X (1..n) |-> TakeReady(p, x[1])]
           Rule(h) == [k \in 0..n |-> IF k = 0 THEN i ELSE TakeReady(p, h[k - 1])]
           c == CHOOSE h : h = Rule(h)
<1>1. n \in Nat
  OBVIOUS
<1>2. F \in [S \X (1..n) -> S]
  OBVIOUS
<1>3. \A x \in S, k \in 1..n : F[<<x, k>>] = TakeReady(p, x)
  OBVIOUS
<1>4. Drain(p, i) = c[n]
  BY DEF Drain
<1> HIDE DEF F, n
<1>5. PICK f : IsChain(f, S, n, F, i)
  BY <1>1, <1>2, ChainExists
<1>6. f \in [0..n -> S] /\ f[0] = i
  BY <1>5 DEF IsChain
<1>7. ASSUME NEW k \in 0..n, k # 0
      PROVE  f[k] = TakeReady(p, f[k - 1])
  <2>1. k \in 1..n /\ k - 1 \in 0..n
    BY <1>1, <1>7
  <2>2. f[k - 1] \in S /\ f[k] = F[<<f[k - 1], k>>]
    BY <1>5, <1>6, <2>1 DEF IsChain
  <2> QED BY <1>3, <2>1, <2>2
<1>8. f = Rule(f)
  BY <1>6, <1>7
<1>9. c = Rule(c)
  <2> HIDE DEF Rule
  <2> QED BY <1>8
<1> HIDE DEF c
<1>10. c[0] = i /\ \A k \in 1..n : c[k] = TakeReady(p, c[k - 1])
  <2>1. 0 \in 0..n /\ \A k \in 1..n : k \in 0..n /\ k # 0
    BY <1>1
  <2> QED BY <1>9, <2>1
<1>11. \A k \in 1..n : c[k - 1] \in S => c[k] \in S
  BY <1>10
<1>12. c[n] \in S
  BY <1>1, <1>10, <1>11, ChainStays
<1> QED BY <1>4, <1>12

LEMMA DrainGood ==
  ASSUME NEW p, Sound(packet[p]), NEW e, e.got \in Int, NEW i, Good(packet[p], e, i)
  PROVE  Good(packet[p], e, Drain(p, i))
<1> DEFINE S == {x \in Receiver(0..Len(packet[p]) - 1) : Good(packet[p], e, x)}
<1>1. i \in S /\ Len(i.ordering) \in Nat
  BY DEF Good, Right
<1>2. ASSUME NEW x \in S
      PROVE  TakeReady(p, x) \in S
  <2>1. Good(packet[p], e, TakeReady(p, x))
    BY TakeReadyGood
  <2> QED BY <2>1 DEF Good, Right
<1>3. \A x \in S : Good(packet[p], e, x)
  OBVIOUS
<1> HIDE DEF S
<1>4. Drain(p, i) \in S
  BY <1>1, <1>2, DrainStays
<1> QED BY <1>3, <1>4

LEMMA WholeGood ==
  ASSUME NEW p, Sound(packet[p]), NEW e, e.got \in Int, NEW i, Good(packet[p], e, i), NEW n \in Numbers(p),
         packet[p][n + 1].message \in e.there, ~Sequenced(packet[p][n + 1].kind)
  PROVE  Good(packet[p], e, Whole(p, i, packet[p][n + 1]))
<1> DEFINE s == packet[p]
           N == 0..Len(s) - 1
           m == s[n + 1]
           k == m.message
           u == Append(i.output, k)
           r == (i.orderedRead + 1) % OrderModulus
           o == Append(i.ordering, k)
<1>1. Len(s) \in Nat /\ n \in N
  BY DEF Sound, Sensible, Numbers
<1>2. /\ k \in 0..n /\ s[k + 1].message = k /\ s[k + 1].part = 1
      /\ s[k + 1].kind = m.kind /\ s[k + 1].index = m.index
  BY <1>1 DEF Sound, Sensible, IsPartOf
<1>3. k \in N /\ k \in e.there
  BY <1>1, <1>2
<1>4. i \in Receiver(N) /\ i.ordering \in Seq(Firsts(s, OrderedKinds)) /\ i.ordering \in Seq(e.there)
  BY DEF Good, Right
<1>5. i.output \in Seq(N) /\ i.ordering \in Seq(N) /\ i.orderedRead \in 0..OrderModulus - 1
  BY <1>4, ReceiverFields
<1>6. m.kind \notin SequencedKinds
  BY DEF Sequenced, SequencedKinds
<1>7. m.kind = "RELIABLE_ORDERED" => k \in Firsts(s, OrderedKinds)
  BY <1>2, <1>3 DEF Firsts, OrderedKinds
<1>8. Whole(p, i, m) = IF m.kind # "RELIABLE_ORDERED" THEN [i EXCEPT !.output = u]
                       ELSE IF m.index = i.orderedRead
                       THEN Drain(p, [i EXCEPT !.output = u, !.orderedRead = r])
                       ELSE [i EXCEPT !.ordering = o]
  BY DEF Whole
<1> HIDE DEF k, m, N, s
<1>9. CASE m.kind # "RELIABLE_ORDERED"
  <2> DEFINE j == [i EXCEPT !.output = u]
  <2>1. u \in Seq(N)
    BY <1>3, <1>5
  <2>2. /\ "ordered" \in e.claims => /\ InOrder(s, u, i.orderedRead) /\ OrderedNear(s, e.there, u)
                                     /\ e.got <= Len(GotOf(s, OrderedKinds, u))
    <3>1. s[k + 1].kind \notin OrderedKinds
      BY <1>2, <1>9 DEF OrderedKinds
    <3>2. "ordered" \in e.claims => /\ InOrder(s, i.output, i.orderedRead) /\ OrderedNear(s, e.there, i.output)
                                    /\ e.got <= Len(GotOf(s, OrderedKinds, i.output))
      BY DEF Good, Right, s
    <3> QED BY <1>1, <1>3, <1>5, <3>1, <3>2, OrderedSkip DEF N
  <2>3. "sequenced" \in e.claims => Rising(s, u, i.sequencedRead) /\ SequencedNear(s, e.there, u)
    <3>1. s[k + 1].kind \notin SequencedKinds
      BY <1>2, <1>6
    <3>2. "sequenced" \in e.claims => Rising(s, i.output, i.sequencedRead) /\ SequencedNear(s, e.there, i.output)
      BY DEF Good, Right, s
    <3> QED BY <1>1, <1>3, <1>5, <3>1, <3>2, SequencedSkip DEF N
  <2> HIDE DEF u
  <2>4. j \in Receiver(N) /\ j.output = u /\ j.ordering = i.ordering /\ j.orderedRead = i.orderedRead
        /\ j.sequencedRead = i.sequencedRead
    BY <1>4, <2>1 DEF Receiver
  <2> HIDE DEF j
  <2>5. Good(s, e, j)
    BY <1>4, <2>2, <2>3, <2>4 DEF Good, Right, N
  <2>6. Whole(p, i, m) = j
    BY <1>8, <1>9 DEF j
  <2> QED BY <2>5, <2>6 DEF s, m
<1>10. CASE m.kind = "RELIABLE_ORDERED" /\ m.index = i.orderedRead
  <2> DEFINE j == [i EXCEPT !.output = u, !.ordering = i.ordering, !.orderedRead = r]
  <2>1. j = [i EXCEPT !.output = u, !.orderedRead = r]
    BY <1>4 DEF Receiver
  <2>2. s[k + 1].index = i.orderedRead /\ k \in Firsts(s, OrderedKinds) /\ Sound(s) /\ k \in e.there
        /\ Good(s, e, i)
    BY <1>2, <1>3, <1>7, <1>10 DEF s
  <2>3. u = Append(i.output, k) /\ r = (i.orderedRead + 1) % OrderModulus
    OBVIOUS
  <2> HIDE DEF u, r
  <2>4. Good(s, e, j)
    BY <1>4, <2>2, <2>3, GoesOn DEF s
  <2> HIDE DEF j
  <2>5. Good(packet[p], e, Drain(p, j))
    BY <2>4, DrainGood DEF s
  <2>6. Whole(p, i, m) = Drain(p, j)
    BY <1>8, <1>10, <2>1
  <2> QED BY <2>5, <2>6 DEF s, m
<1>11. CASE m.kind = "RELIABLE_ORDERED" /\ m.index # i.orderedRead
  <2> DEFINE j == [i EXCEPT !.ordering = o]
  <2>1. o \in Seq(N) /\ o \in Seq(Firsts(s, OrderedKinds)) /\ o \in Seq(e.there)
    <3>1. k \in Firsts(s, OrderedKinds)
      BY <1>7, <1>11
    <3>2. o \in Seq(N)
      BY <1>3, <1>5
    <3>3. o \in Seq(Firsts(s, OrderedKinds))
      BY <1>4, <3>1
    <3>4. o \in Seq(e.there)
      <4> DEFINE S == e.there
                 x == i.ordering
      <4>1. x \in Seq(S) /\ k \in S /\ o = Append(x, k)
        BY <1>3, <1>4
      <4> HIDE DEF S, x, o
      <4>2. o \in Seq(S)
        BY <4>1
      <4> QED BY <4>2 DEF S
    <3> QED BY <3>2, <3>3, <3>4
  <2> HIDE DEF o
  <2>2. j \in Receiver(N) /\ j.output = i.output /\ j.ordering = o /\ j.orderedRead = i.orderedRead
        /\ j.sequencedRead = i.sequencedRead
    BY <1>4, <2>1 DEF Receiver
  <2> HIDE DEF j
  <2>3. Good(s, e, j)
    <3>1. Good(s, e, i)
      BY DEF s
    <3> QED BY <2>1, <2>2, <3>1 DEF Good, Right, N
  <2>4. Whole(p, i, m) = j
    BY <1>8, <1>11 DEF j
  <2> QED BY <2>3, <2>4 DEF s, m
<1> QED BY <1>9, <1>10, <1>11

LEMMA PartGood ==
  ASSUME NEW p, Sound(packet[p]), NEW e, e.got \in Int, NEW i, Good(packet[p], e, i), NEW n \in Numbers(p),
         packet[p][n + 1].message \in e.there, ~Sequenced(packet[p][n + 1].kind)
  PROVE  Good(packet[p], e, Part(p, i, n))
<1> DEFINE N == 0..Len(packet[p]) - 1
           m == packet[p][n + 1]
           parts == {k \in Numbers(p): packet[p][k + 1].message = m.message}
           here == i.splits \cup {n}
           left == here \ parts
           i1 == [i EXCEPT !.splits = left]
           i2 == [i EXCEPT !.splits = here]
<1>1. Part(p, i, n) = IF n \in i.splits THEN i ELSE IF parts \subseteq here THEN Whole(p, i1, m) ELSE i2
  BY DEF Part
<1>2. i \in Receiver(N) /\ n \in N
  BY DEF Good, Right, Numbers
<1>3. here \in SUBSET N /\ left \in SUBSET N
  BY <1>2, ReceiverFields
<1> HIDE DEF here, left
<1>4. i1 \in Receiver(N) /\ GameFields(i1) = GameFields(i) /\ i2 \in Receiver(N) /\ GameFields(i2) = GameFields(i)
  BY <1>2, <1>3 DEF Receiver, GameFields
<1> HIDE DEF i1, i2
<1>5. Good(packet[p], e, i1) /\ Good(packet[p], e, i2)
  BY <1>4, GoodSame
<1>6. Good(packet[p], e, Whole(p, i1, m))
  BY <1>5, WholeGood
<1> QED BY <1>1, <1>5, <1>6

LEMMA LatestGood ==
  ASSUME NEW p, Sound(packet[p]), NEW e, e.got \in Int, NEW i, Good(packet[p], e, i), NEW n \in Numbers(p),
         packet[p][n + 1].message \in e.there, Sequenced(packet[p][n + 1].kind)
  PROVE  Good(packet[p], e, Latest(i, packet[p][n + 1]))
<1> DEFINE s == packet[p]
           N == 0..Len(s) - 1
           m == s[n + 1]
           r == (m.index + 1) % OrderModulus
           u == Append(i.output, m.message)
           j == [i EXCEPT !.sequencedRead = r, !.output = u]
<1>1. Latest(i, m) = IF IsOlderOrderedPacket(m.index, i.sequencedRead) THEN i ELSE j
  BY DEF Latest
<1>2. Len(s) \in Nat /\ n \in N /\ s \in Seq(Packet)
  BY DEF Sound, Sensible, Numbers
<1>3. m \in Packet
  BY <1>2
<1>4. m.index \in Int
  BY <1>3 DEF Packet
<1>5. m.kind \in SequencedKinds
  BY DEF Sequenced, SequencedKinds
<1>6. m.message = n
  BY <1>2, <1>5 DEF Sound, Sensible
<1>7. i \in Receiver(N) /\ i.ordering \in Seq(Firsts(s, OrderedKinds)) /\ i.ordering \in Seq(e.there)
  BY DEF Good, Right
<1>8. i.output \in Seq(N) /\ i.sequencedRead \in 0..OrderModulus - 1
  BY <1>7, ReceiverFields
<1>9. u = Append(i.output, n)
  BY <1>6
<1>10. r \in 0..OrderModulus - 1
  <2>1. m.index + 1 \in Int
    BY <1>4
  <2> QED BY <2>1, IndexTyped
<1>11. u \in Seq(N)
  BY <1>2, <1>8, <1>9
<1>12. "ordered" \in e.claims => /\ InOrder(s, u, i.orderedRead) /\ OrderedNear(s, e.there, u)
                                /\ e.got <= Len(GotOf(s, OrderedKinds, u))
  <2>1. m.kind \notin OrderedKinds
    BY <1>5 DEF OrderedKinds, SequencedKinds
  <2>2. "ordered" \in e.claims => /\ InOrder(s, i.output, i.orderedRead) /\ OrderedNear(s, e.there, i.output)
                                  /\ e.got <= Len(GotOf(s, OrderedKinds, i.output))
    BY DEF Good, Right
  <2> QED BY <1>2, <1>8, <1>9, <2>1, <2>2, OrderedSkip
<1>13. SUFFICES ASSUME ~IsOlderOrderedPacket(m.index, i.sequencedRead)
                PROVE  Good(s, e, j)
  BY <1>1
<1>14. "sequenced" \in e.claims => Rising(s, u, r) /\ SequencedNear(s, e.there, u)
  <2>1. PICK w : Numbered(s, SequencedKinds, w)
    BY DEF Sound
  <2>2. Sensible(s) /\ n \in e.there
    BY <1>6 DEF Sound
  <2>3. "sequenced" \in e.claims => Rising(s, i.output, i.sequencedRead) /\ SequencedNear(s, e.there, i.output)
    BY DEF Good, Right
  <2> QED BY <1>2, <1>5, <1>8, <1>9, <1>13, <2>1, <2>2, <2>3, SequencedNext
<1> HIDE DEF u, r, s, N
<1>15. j \in Receiver(N) /\ j.output = u /\ j.ordering = i.ordering /\ j.orderedRead = i.orderedRead
       /\ j.sequencedRead = r
  BY <1>7, <1>10, <1>11 DEF Receiver
<1> HIDE DEF j
<1> QED BY <1>7, <1>12, <1>14, <1>15 DEF Good, Right, N

LEMMA TakePacketGood ==
  ASSUME NEW q, NEW p, p = Other(q), Sound(packet[p]), NEW e, e.got \in Int, NEW i, Good(packet[p], e, i),
         NEW n \in Numbers(p), packet[p][n + 1].message \in e.there
  PROVE  Good(packet[p], e, TakePacket(q, i, n))
<1> DEFINE N == 0..Len(packet[p]) - 1
           m == packet[p][n + 1]
           a == [number |-> n, wait |-> ResendDelay \div 4]
           acks == Append(i.acks, a)
           i1 == IF Reliable(m.kind) THEN [i EXCEPT !.acks = acks] ELSE i
           i2 == Register(q, i1, n)
<1>1. TakePacket(q, i, n) = IF IsDuplicate(i, n) THEN i1 ELSE Sorted(p, i2, n)
  BY DEF TakePacket
<1>2. i \in Receiver(N) /\ n \in N /\ N \in SUBSET Int
  BY DEF Good, Right, Numbers
<1>3. i.acks \in Seq(Ack(N))
  BY <1>2, ReceiverFields
<1> HIDE DEF N
<1>4. a \in Ack(N)
  <2>1. ResendDelay \div 4 \in Int
    BY Constants
  <2> QED BY <1>2, <2>1 DEF Ack
<1> HIDE DEF a
<1>5. acks \in Seq(Ack(N))
  BY <1>3, <1>4
<1> HIDE DEF acks
<1>6. i1 \in Receiver(N) /\ GameFields(i1) = GameFields(i) /\ i1.base = i.base /\ i1.received = i.received
  BY <1>2, <1>5 DEF Receiver, GameFields
<1> HIDE DEF i1
<1>7. Good(packet[p], e, i1)
  BY <1>6, GoodSame DEF N
<1>8. SUFFICES ASSUME ~IsDuplicate(i, n)
               PROVE  Good(packet[p], e, Sorted(p, i2, n))
  BY <1>1, <1>7
<1>9. ~IsDuplicate(i1, n)
  BY <1>6, <1>8 DEF IsDuplicate, Position
<1>10. i2 \in Receiver(N) /\ GameFields(i2) = GameFields(i1)
  BY <1>2, <1>6, <1>9, RegisterTyped
<1> HIDE DEF i2
<1>11. Good(packet[p], e, i2)
  BY <1>7, <1>10, GoodSame DEF N
<1>12. Sorted(p, i2, n) = IF Sequenced(m.kind) THEN Latest(i2, m)
                          ELSE IF m.parts > 1 THEN Part(p, i2, n) ELSE Whole(p, i2, m)
  BY DEF Sorted
<1> QED BY <1>11, <1>12, LatestGood, PartGood, WholeGood

LEMMA TakePacketsStay ==
  ASSUME NEW q, NEW S, NEW i \in S, NEW s, Len(s) \in Nat,
         \A x \in S : \A k \in 1..Len(s) : TakePacket(q, x, s[k]) \in S
  PROVE  TakePackets(q, i, s) \in S
<1> DEFINE n == Len(s)
           F == [x \in S \X (1..n) |-> TakePacket(q, x[1], s[x[2]])]
           Rule(h) == [k \in 0..n |-> IF k = 0 THEN i ELSE TakePacket(q, h[k - 1], s[k])]
           c == CHOOSE h : h = Rule(h)
<1>1. n \in Nat
  OBVIOUS
<1>2. F \in [S \X (1..n) -> S]
  OBVIOUS
<1>3. \A x \in S, k \in 1..n : F[<<x, k>>] = TakePacket(q, x, s[k])
  OBVIOUS
<1>4. TakePackets(q, i, s) = c[n]
  BY DEF TakePackets
<1> HIDE DEF F, n
<1>5. PICK f : IsChain(f, S, n, F, i)
  BY <1>1, <1>2, ChainExists
<1>6. f \in [0..n -> S] /\ f[0] = i
  BY <1>5 DEF IsChain
<1>7. ASSUME NEW k \in 0..n, k # 0
      PROVE  f[k] = TakePacket(q, f[k - 1], s[k])
  <2>1. k \in 1..n /\ k - 1 \in 0..n
    BY <1>1, <1>7
  <2>2. f[k - 1] \in S /\ f[k] = F[<<f[k - 1], k>>]
    BY <1>5, <1>6, <2>1 DEF IsChain
  <2> QED BY <1>3, <2>1, <2>2
<1>8. f = Rule(f)
  BY <1>6, <1>7
<1>9. c = Rule(c)
  <2> HIDE DEF Rule
  <2> QED BY <1>8
<1> HIDE DEF c
<1>10. c[0] = i /\ \A k \in 1..n : c[k] = TakePacket(q, c[k - 1], s[k])
  <2>1. 0 \in 0..n /\ \A k \in 1..n : k \in 0..n /\ k # 0
    BY <1>1
  <2> QED BY <1>9, <2>1
<1>11. \A k \in 1..n : c[k - 1] \in S => c[k] \in S
  BY <1>10 DEF n
<1>12. c[n] \in S
  BY <1>1, <1>10, <1>11, ChainStays
<1> QED BY <1>4, <1>12

LEMMA TakePacketsGood ==
  ASSUME NEW q, NEW p, p = Other(q), Sound(packet[p]), NEW e, e.got \in Int, NEW i, Good(packet[p], e, i),
         NEW s \in Seq(Numbers(p)), \A k \in 1..Len(s) : packet[p][s[k] + 1].message \in e.there
  PROVE  Good(packet[p], e, TakePackets(q, i, s))
<1> DEFINE S == {x \in Receiver(0..Len(packet[p]) - 1) : Good(packet[p], e, x)}
<1>1. i \in S /\ Len(s) \in Nat
  BY DEF Good, Right
<1>2. ASSUME NEW x \in S, NEW k \in 1..Len(s)
      PROVE  TakePacket(q, x, s[k]) \in S
  <2>1. s[k] \in Numbers(p) /\ Good(packet[p], e, x)
    OBVIOUS
  <2>2. Good(packet[p], e, TakePacket(q, x, s[k]))
    BY <2>1, TakePacketGood
  <2> QED BY <2>2 DEF Good, Right
<1>3. \A x \in S : Good(packet[p], e, x)
  OBVIOUS
<1> HIDE DEF S
<1>4. TakePackets(q, i, s) \in S
  BY <1>1, <1>2, TakePacketsStay
<1> QED BY <1>3, <1>4

-----------------------------------------------------------------------------
(* Both halves of an end, the packets of the other, and what is on its way.    *)

All(s) == 0..Len(s) - 1

Indices == <<0..OrderModulus - 1, 0..OrderModulus - 1>>
Kept(o) == <<{o.orderedWrite}, {o.sequencedWrite}>>

Sends(s, o) ==
  /\ Sensible(s) /\ o \in Sender(All(s), Indices)
  /\ Numbered(s, OrderedKinds, o.orderedWrite) /\ Numbered(s, SequencedKinds, o.sequencedWrite)

End(claims, s, t, o, i, ds) ==
  /\ Sends(s, o) /\ Right(t, claims, i)
  /\ ds \in Seq(Datagram(All(t), All(s)))

Fits(l) == \A p \in Peer : Len(packet[p]) + 3 * Len(load.messages[p]) <= 3 * Len(l.messages[p])

IInv(claims) ==
  /\ load \in [inOrder : BOOLEAN, messages : [Peer -> Seq(Message)]]
  /\ \E l \in Loads : Fits(l)
  /\ DOMAIN packet = Peer /\ DOMAIN out = Peer /\ DOMAIN in = Peer /\ DOMAIN net = Peer
  /\ \A p \in Peer : End(claims, packet[p], packet[Other(p)], out[p], in[p], net[p])
  /\ uptime \in [Peer -> 0..Timeout] /\ losses \in 0..MaxLosses /\ copies \in 0..MaxCopies
  /\ cut \in BOOLEAN /\ (cut => \A p \in Peer : net[p] = <<>>)

LEMMA AllGrows ==
  ASSUME NEW s, NEW t, Len(s) \in Nat, Len(t) \in Nat, Len(s) <= Len(t)
  PROVE  All(s) \in SUBSET All(t)
BY DEF All

LEMMA SenderGrows ==
  ASSUME NEW V, NEW N, NEW M, N \in SUBSET M, NEW o \in Sender(N, V)
  PROVE  o \in Sender(M, V)
<1>1. Timer(N) \in SUBSET Timer(M)
  BY DEF Timer
<1>2. Seq(N) \in SUBSET Seq(M) /\ Seq(Timer(N)) \in SUBSET Seq(Timer(M))
  BY <1>1
<1> QED BY <1>2 DEF Sender

LEMMA ReceiverGrows ==
  ASSUME NEW N, NEW M, N \in SUBSET M, NEW i \in Receiver(N)
  PROVE  i \in Receiver(M)
<1>1. Ack(N) \in SUBSET Ack(M)
  BY DEF Ack
<1>2. Seq(N) \in SUBSET Seq(M) /\ Seq(Ack(N)) \in SUBSET Seq(Ack(M)) /\ SUBSET N \in SUBSET (SUBSET M)
  BY <1>1
<1> QED BY <1>2 DEF Receiver

LEMMA DatagramGrows ==
  ASSUME NEW N, NEW M, N \in SUBSET M, NEW A, NEW B, A \in SUBSET B
  PROVE  Seq(Datagram(N, A)) \in SUBSET Seq(Datagram(M, B))
<1>1. Seq(N) \in SUBSET Seq(M) /\ Seq(A) \in SUBSET Seq(B)
  OBVIOUS
<1>2. Datagram(N, A) \in SUBSET Datagram(M, B)
  BY <1>1 DEF Datagram
<1> QED BY <1>2

(* What the game has got stays as good when more is sent.                      *)
LEMMA RightStays ==
  ASSUME NEW s, NEW t, Len(s) \in Nat, Len(t) \in Nat, OneMore(s, t), NEW claims, NEW i, Right(s, claims, i)
  PROVE  Right(t, claims, i)
<1> DEFINE G(K) == GotOf(s, K, i.output)
           H(K) == GotOf(t, K, i.output)
<1>1. Extends(s, t) /\ Len(s) <= Len(t) /\ \A k \in 1..Len(s) : t[k] = s[k]
  BY DEF OneMore, Extends
<1>2. i \in Receiver(All(s)) /\ i.output \in Seq(All(s))
  BY ReceiverFields DEF Right, All
<1>3. i \in Receiver(All(t))
  BY <1>1, <1>2, AllGrows, ReceiverGrows
<1>4. \A K : H(K) = G(K)
  BY <1>1, <1>2, GotStays DEF All
<1>5. \A K : Extends(SentOf(s, K), SentOf(t, K)) /\ Len(SentOf(s, K)) \in Nat /\ Len(SentOf(t, K)) \in Nat
  BY SentStays, SentElements
<1>6. i.ordering \in Seq(Firsts(t, OrderedKinds))
  <2>1. Firsts(s, OrderedKinds) \in SUBSET Firsts(t, OrderedKinds)
    <3>1. \A n \in 0..Len(s) - 1 : n \in 0..Len(t) - 1 /\ t[n + 1] = s[n + 1]
      BY <1>1
    <3> QED BY <3>1 DEF Firsts
  <2>2. i.ordering \in Seq(Firsts(s, OrderedKinds))
    BY DEF Right
  <2> QED BY <2>1, <2>2
<1>7. "ordered" \in claims => InOrder(t, i.output, i.orderedRead)
  <2> DEFINE g == G(OrderedKinds)
             a == SentOf(s, OrderedKinds)
             c == SentOf(t, OrderedKinds)
  <2> SUFFICES ASSUME "ordered" \in claims
               PROVE  Extends(g, c) /\ i.orderedRead = Len(g) % OrderModulus
    BY <1>4 DEF InOrder
  <2>1. Extends(g, a) /\ i.orderedRead = Len(g) % OrderModulus
    BY DEF Right, InOrder
  <2>2. Extends(a, c) /\ Len(a) \in Nat /\ Len(c) \in Nat
    BY <1>5
  <2>3. g \in Seq(All(s))
    BY <1>2, OnlyElements DEF GotOf
  <2> HIDE DEF g, a, c
  <2>4. Len(g) \in Nat /\ Len(g) <= Len(c)
    BY <2>1, <2>2, <2>3 DEF Extends
  <2>5. \A k \in 1..Len(g) : k \in 1..Len(a) /\ c[k] = g[k]
    BY <2>1, <2>2, <2>4 DEF Extends
  <2> QED BY <2>1, <2>4, <2>5 DEF Extends
<1>8. "sequenced" \in claims => Rising(t, i.output, i.sequencedRead)
  <2> DEFINE g == G(SequencedKinds)
             a == SentOf(s, SequencedKinds)
             c == SentOf(t, SequencedKinds)
             LastIs(x) == g # <<>> => \E r \in 1..Len(x) : x[r] = g[Len(g)] /\ i.sequencedRead = r % OrderModulus
  <2> SUFFICES ASSUME "sequenced" \in claims
               PROVE  Ascending(g) /\ LastIs(c)
    BY <1>4 DEF Rising
  <2>1. Ascending(g) /\ LastIs(a)
    BY DEF Right, Rising
  <2>2. Len(a) <= Len(c) /\ Len(a) \in Nat /\ Len(c) \in Nat /\ \A k \in 1..Len(a) : c[k] = a[k]
    BY <1>5 DEF Extends
  <2> HIDE DEF g, a, c
  <2>3. \A r \in 1..Len(a) : r \in 1..Len(c)
    BY <2>2
  <2> QED BY <2>1, <2>2, <2>3
<1> QED BY <1>3, <1>6, <1>7, <1>8 DEF Right, All

(* The parts of a message are added to the packets.                            *)
IsPiece(x, kind, index, n, i, c) ==
  x.kind = kind /\ x.index = index /\ x.message = n /\ x.part = i /\ x.parts = c

LEMMA PiecesAdded ==
  ASSUME NEW s, Sensible(s), NEW n \in Nat, n = Len(s), NEW c \in 1..3, NEW t \in Seq(Packet), Len(t) = n + c,
         \A k \in 1..n : t[k] = s[k], NEW kind, NEW index, c > 1 => kind \notin SequencedKinds,
         \A i \in 1..c : IsPiece(t[n + i], kind, index, n, i, c)
  PROVE  Sensible(t) /\ OneMore(s, t)
<1>1. n + c \in Nat /\ n < n + c /\ c \in Nat
  OBVIOUS
<1>2. IsPiece(t[n + 1], kind, index, n, 1, c)
  <2>1. 1 \in 1..c
    OBVIOUS
  <2> QED BY <2>1
<1>3. \A k \in n + 2..n + c : t[k].part # 1
  <2> TAKE k \in n + 2..n + c
  <2> DEFINE i == k - n
  <2>1. i \in 1..c /\ n + i = k /\ i # 1
    BY <1>1
  <2> HIDE DEF i
  <2>2. IsPiece(t[n + i], kind, index, n, i, c)
    BY <2>1
  <2> QED BY <2>1, <2>2 DEF IsPiece
<1>4. OneMore(s, t)
  BY <1>1, <1>2, <1>3 DEF OneMore, Extends, IsPiece
<1>5. ASSUME NEW k \in 0..Len(t) - 1
      PROVE  /\ IsPartOf(t, k, t[k + 1].message)
             /\ t[k + 1].parts = 1 \/ t[k + 1].kind \notin SequencedKinds
             /\ t[k + 1].parts = 1 => t[k + 1].message = k
  <2>1. k \in Nat /\ k <= n + c - 1
    BY <1>1
  <2>2. CASE k < n
    <3>1. k \in 0..n - 1 /\ k + 1 \in 1..n
      BY <2>1, <2>2
    <3>2. t[k + 1] = s[k + 1]
      BY <3>1
    <3>3. /\ IsPartOf(s, k, s[k + 1].message)
          /\ s[k + 1].parts = 1 \/ s[k + 1].kind \notin SequencedKinds
          /\ s[k + 1].parts = 1 => s[k + 1].message = k
      BY <3>1 DEF Sensible
    <3> DEFINE j == s[k + 1].message
    <3>4. j \in 0..k
      BY <3>3 DEF IsPartOf
    <3>5. t[j + 1] = s[j + 1]
      <4> HIDE DEF j
      <4>1. j + 1 \in 1..n
        BY <3>1, <3>4
      <4> QED BY <4>1
    <3>6. IsPartOf(t, k, j)
      BY <3>2, <3>3, <3>5 DEF IsPartOf
    <3> QED BY <3>2, <3>3, <3>6
  <2>3. CASE k >= n
    <3> DEFINE i == (k + 1) - n
    <3>1. i \in 1..c /\ n + i = k + 1 /\ n \in 0..k /\ (c = 1 => n = k)
      BY <1>1, <2>1, <2>3
    <3> HIDE DEF i
    <3>2. IsPiece(t[k + 1], kind, index, n, i, c)
      BY <3>1
    <3>3. t[k + 1].message = n /\ t[k + 1].kind = kind /\ t[k + 1].parts = c
      BY <3>2 DEF IsPiece
    <3>4. IsPartOf(t, k, n)
      BY <1>2, <3>1, <3>2 DEF IsPartOf, IsPiece
    <3>5. c = 1 \/ kind \notin SequencedKinds
      OBVIOUS
    <3> QED BY <3>1, <3>3, <3>4, <3>5
  <2> QED BY <2>1, <2>2, <2>3
<1>6. Sensible(t)
  BY <1>5 DEF Sensible
<1> QED BY <1>4, <1>6

IsAdded(s, n, m, index, t) ==
  t = s \o [i \in 1..m.parts |-> [kind |-> m.kind, index |-> index, priority |-> m.priority,
                                  message |-> n, part |-> i, parts |-> m.parts]]

LEMMA PartsAdded ==
  ASSUME NEW s, Sensible(s), NEW n, n = Len(s), NEW m \in Message, NEW index \in Int, NEW t,
         IsAdded(s, n, m, index, t)
  PROVE  /\ Sensible(t) /\ OneMore(s, t) /\ Len(t) = n + m.parts
         /\ t[n + 1].kind = m.kind /\ t[n + 1].index = index
<1> DEFINE c == m.parts
           kind == m.kind
           priority == m.priority
           u == [i \in 1..c |-> [kind |-> kind, index |-> index, priority |-> priority,
                                 message |-> n, part |-> i, parts |-> c]]
<1>1. s \in Seq(Packet) /\ n \in Nat
  BY DEF Sensible
<1>2. kind \in Kind /\ priority \in Priority /\ c \in 1..3 /\ (c > 1 => kind \notin SequencedKinds)
  BY DEF Message, Sequenced, SequencedKinds
<1>3. t = s \o u
  BY DEF IsAdded
<1> HIDE DEF c, kind, priority
<1>4. \A i \in 1..c : u[i] \in Packet /\ IsPiece(u[i], kind, index, n, i, c)
  BY <1>1, <1>2 DEF Packet, IsPiece
<1>5. u \in Seq(Packet) /\ Len(u) = c
  <2>1. u = [i \in 1..c |-> u[i]]
    OBVIOUS
  <2> HIDE DEF u
  <2>2. u \in [1..c -> Packet]
    BY <1>4, <2>1
  <2> QED BY <1>2, <2>2
<1> HIDE DEF u
<1>6. /\ t \in Seq(Packet) /\ Len(t) = Len(s) + Len(u)
      /\ \A k \in 1..Len(s) : t[k] = s[k]
      /\ \A i \in 1..Len(u) : t[Len(s) + i] = u[i]
  <2>1. s \o u \in Seq(Packet) /\ Len(s \o u) = Len(s) + Len(u)
    BY ONLY <1>1, <1>5, ConcatElements
  <2>2. \A k \in 1..Len(s) : (s \o u)[k] = s[k]
    BY ONLY <1>1, <1>5, ConcatElements
  <2>3. \A i \in 1..Len(u) : (s \o u)[Len(s) + i] = u[i]
    BY ONLY <1>1, <1>5, ConcatElements
  <2> QED BY ONLY <1>3, <2>1, <2>2, <2>3
<1>7. Len(t) = n + c /\ \A k \in 1..n : t[k] = s[k]
  BY <1>5, <1>6
<1>8. \A i \in 1..c : IsPiece(t[n + i], kind, index, n, i, c)
  BY <1>4, <1>5, <1>6
<1>9. Sensible(t) /\ OneMore(s, t)
  BY <1>1, <1>2, <1>6, <1>7, <1>8, PiecesAdded
<1>10. 1 \in 1..c
  BY <1>2
<1>11. t[n + 1].kind = kind /\ t[n + 1].index = index
  BY <1>8, <1>10 DEF IsPiece
<1> QED BY <1>7, <1>9, <1>11 DEF c, kind

LEMMA SendsOf ==
  ASSUME NEW s, NEW o, Sends(s, o)
  PROVE  Len(s) \in Nat /\ Sound(s) /\ o \in Sender(All(s), Kept(o))
<1>1. o \in Sender(All(s), Kept(o))
  <2>1. o \in Sender(All(s), Indices)
    BY DEF Sends
  <2> QED BY <2>1 DEF Sender, Kept
<1>2. Sound(s)
  BY DEF Sends, Sound
<1>3. Len(s) \in Nat
  BY DEF Sends, Sensible
<1> QED BY <1>1, <1>2, <1>3

LEMMA SendsSame ==
  ASSUME NEW s, NEW o, Sends(s, o), NEW r, r \in Sender(All(s), Kept(o))
  PROVE  Sends(s, r)
<1>1. o.orderedWrite \in 0..OrderModulus - 1 /\ o.sequencedWrite \in 0..OrderModulus - 1
  <2>1. o \in Sender(All(s), Indices)
    BY DEF Sends
  <2> QED BY <2>1 DEF Sender, Indices
<1>2. r.orderedWrite = o.orderedWrite /\ r.sequencedWrite = o.sequencedWrite
  BY DEF Sender, Kept
<1>3. r \in Sender(All(s), Indices)
  <2>1. r.orderedWrite \in Indices[1] /\ r.sequencedWrite \in Indices[2]
    BY <1>1, <1>2 DEF Indices
  <2> HIDE DEF Indices
  <2> QED BY <2>1 DEF Sender
<1> QED BY <1>2, <1>3 DEF Sends

LEMMA NothingSent ==
  ASSUME NEW K
  PROVE  SentOf(<<>>, K) = <<>> /\ Sensible(<<>>) /\ Numbered(<<>>, K, 0)
<1>1. Len(<<>>) = 0 /\ 0..-1 = {}
  OBVIOUS
<1>2. SentOf(<<>>, K) \in Seq(0..Len(<<>>) - 1)
  BY <1>1, SentElements
<1>3. SentOf(<<>>, K) \in Seq({})
  BY <1>1, <1>2
<1>4. SentOf(<<>>, K) = <<>>
  BY <1>3
<1>5. Sensible(<<>>)
  BY <1>1 DEF Sensible
<1>6. 0 % OrderModulus = 0
  BY Constants
<1> QED BY <1>1, <1>4, <1>5, <1>6 DEF Numbered

LEMMA InitIInv ==
  ASSUME NEW claims, Init
  PROVE  IInv(claims)
<1>1. load \in Loads /\ load \in [inOrder : BOOLEAN, messages : [Peer -> Seq(Message)]]
  BY LayerAssumption DEF Init
<1>2. \A p \in Peer : packet[p] = <<>> /\ net[p] = <<>>
  BY DEF Init
<1>3. Fits(load)
  <2>1. \A p \in Peer : Len(load.messages[p]) \in Nat
    BY <1>1
  <2>2. \A p \in Peer : Len(packet[p]) = 0
    BY <1>2
  <2>3. ASSUME NEW p \in Peer
        PROVE  Len(packet[p]) + 3 * Len(load.messages[p]) <= 3 * Len(load.messages[p])
    <3> DEFINE a == Len(packet[p])
               c == Len(load.messages[p])
    <3>1. a = 0 /\ c \in Nat
      BY <2>1, <2>2
    <3> HIDE DEF a, c
    <3>2. a + 3 * c <= 3 * c
      BY <3>1
    <3> QED BY <3>2 DEF a, c
  <2> QED BY <2>3 DEF Fits
<1>4. DOMAIN packet = Peer /\ DOMAIN out = Peer /\ DOMAIN in = Peer /\ DOMAIN net = Peer
  BY DEF Init
<1>5. uptime \in [Peer -> 0..Timeout] /\ losses \in 0..MaxLosses /\ copies \in 0..MaxCopies /\ cut = FALSE
  BY Constants DEF Init
<1>6. ASSUME NEW p \in Peer
      PROVE  End(claims, packet[p], packet[Other(p)], out[p], in[p], net[p])
  <2> DEFINE o == [queue |-> [i \in Priority |-> <<>>], orderedWrite |-> 0, sequencedWrite |-> 0,
                   resend |-> <<>>, lastAck |-> None, window |-> MinWindow, lossyWindow |-> MaxWindow + 1,
                   sinceIncrease |-> 2 * ResendDelay + 1, dead |-> FALSE]
             i == [base |-> 0, received |-> <<>>, acks |-> <<>>, orderedRead |-> 0, sequencedRead |-> 0,
                   ordering |-> <<>>, splits |-> {}, output |-> <<>>, taken |-> {}]
  <2>1. out[p] = o /\ in[p] = i /\ packet[p] = <<>> /\ packet[Other(p)] = <<>> /\ net[p] = <<>>
    BY <1>2, TwoEnds DEF Init
  <2>2. o \in Sender(All(<<>>), Indices)
    <3>1. 0 \in Indices[1] /\ 0 \in Indices[2]
      BY Constants DEF Indices
    <3>2. None \in -1..Timeout + 1 /\ MinWindow \in MinWindow..MaxWindow /\ MaxWindow + 1 \in Int
          /\ 2 * ResendDelay + 1 \in Int
      BY Constants DEF None
    <3> HIDE DEF Indices
    <3> QED BY <3>1, <3>2 DEF Sender
  <2>3. Sends(<<>>, o)
    <3>1. o.orderedWrite = 0 /\ o.sequencedWrite = 0
      OBVIOUS
    <3> HIDE DEF o
    <3> QED BY <2>2, <3>1, NothingSent DEF Sends
  <2>4. Right(<<>>, claims, i)
    <3>1. i \in Receiver(0..Len(<<>>) - 1)
      BY Constants DEF Receiver
    <3>2. i.ordering = <<>> /\ i.output = <<>> /\ i.orderedRead = 0 /\ i.sequencedRead = 0
      OBVIOUS
    <3> HIDE DEF i
    <3>3. \A K : GotOf(<<>>, K, <<>>) = <<>>
      BY OnlyNone DEF GotOf
    <3>4. Len(<<>>) = 0 /\ \A K : SentOf(<<>>, K) = <<>>
      BY NothingSent
    <3>5. InOrder(<<>>, <<>>, 0)
      <4>1. 0 % OrderModulus = 0
        BY Constants
      <4> QED BY <3>3, <3>4, <4>1 DEF InOrder, Extends
    <3>6. Rising(<<>>, <<>>, 0)
      BY <3>3, <3>4 DEF Rising, Ascending
    <3> QED BY <3>1, <3>2, <3>5, <3>6 DEF Right
  <2> HIDE DEF o, i
  <2> QED BY <2>1, <2>3, <2>4 DEF End
<1> QED BY <1>1, <1>2, <1>3, <1>4, <1>5, <1>6 DEF IInv

-----------------------------------------------------------------------------
(* The steps.                                                                  *)

LEMMA OneEnd ==
  ASSUME NEW claims, IInv(claims), NEW p \in Peer
  PROVE  /\ Sends(packet[p], out[p]) /\ Right(packet[Other(p)], claims, in[p])
         /\ net[p] \in Seq(Datagram(All(packet[Other(p)]), All(packet[p])))
         /\ Len(packet[p]) \in Nat /\ Sound(packet[p])
BY SendsOf DEF IInv, End

LEMMA Room ==
  ASSUME NEW a \in Nat, NEW b \in Nat, NEW c \in Nat, a + 3 * b <= 3 * c,
         NEW x \in Nat, x <= a + 3, NEW y \in Int, y = b - 1
  PROVE  x + 3 * y <= 3 * c
OBVIOUS

LEMMA HeadTail ==
  ASSUME NEW M, NEW s \in Seq(M), s # <<>>
  PROVE  Head(s) \in M /\ Tail(s) \in Seq(M) /\ Len(Tail(s)) = Len(s) - 1 /\ Len(s) \in Nat
OBVIOUS

LEMMA NewNumbers ==
  ASSUME NEW n \in Nat, NEW c \in Nat, NEW s, Len(s) = n + c
  PROVE  [i \in 1..c |-> n + i - 1] \in Seq(All(s))
<1>1. All(s) = 0..n + c - 1
  BY DEF All
<1>2. [i \in 1..c |-> n + i - 1] \in [1..c -> 0..n + c - 1]
  OBVIOUS
<1>3. [i \in 1..c |-> n + i - 1] \in Seq(0..n + c - 1)
  BY <1>2
<1> QED BY <1>1, <1>3

LEMMA SendStep ==
  ASSUME NEW claims, IInv(claims), NEW p \in Peer, Send(p)
  PROVE  /\ IInv(claims)'
         /\ OneMore(packet[p], packet'[p]) /\ Len(packet'[p]) \in Nat
         /\ (\A q \in Peer : q # p => packet'[q] = packet[q]) /\ in' = in /\ cut' = cut
<1> DEFINE s == packet[p]
           o == out[p]
           m == Head(load.messages[p])
           n == Len(s)
           index == IF Sequenced(m.kind) THEN o.sequencedWrite
                    ELSE IF m.kind = "RELIABLE_ORDERED" THEN o.orderedWrite
                    ELSE None
           next == (index + 1) % OrderModulus
           Part_(i) == [kind |-> m.kind, index |-> index, priority |-> m.priority,
                        message |-> n, part |-> i, parts |-> m.parts]
           t == s \o [i \in 1..m.parts |-> Part_(i)]
           u == o.queue[m.priority] \o [i \in 1..m.parts |-> n + i - 1]
           w == IF m.kind = "RELIABLE_ORDERED" THEN next ELSE o.orderedWrite
           v == IF Sequenced(m.kind) THEN next ELSE o.sequencedWrite
           r == [o EXCEPT !.queue[m.priority] = u, !.sequencedWrite = v, !.orderedWrite = w]
           rest == Tail(load.messages[p])
<1>1. /\ load.messages[p] # <<>>
      /\ load' = [load EXCEPT !.messages[p] = rest]
      /\ packet' = [packet EXCEPT ![p] = t]
      /\ out' = [out EXCEPT ![p] = r]
      /\ UNCHANGED <<in, uptime, net, cut, losses, copies, tick>>
  BY ZenonT(30) DEF Send
<1>2. /\ load \in [inOrder : BOOLEAN, messages : [Peer -> Seq(Message)]]
      /\ DOMAIN packet = Peer /\ DOMAIN out = Peer /\ DOMAIN in = Peer /\ DOMAIN net = Peer
      /\ uptime \in [Peer -> 0..Timeout] /\ losses \in 0..MaxLosses /\ copies \in 0..MaxCopies
      /\ cut \in BOOLEAN /\ (cut => \A q \in Peer : net[q] = <<>>)
  BY DEF IInv
<1>3. load.messages[p] \in Seq(Message) /\ load.messages \in [Peer -> Seq(Message)]
  BY <1>2
<1>4. m \in Message /\ rest \in Seq(Message) /\ Len(rest) = Len(load.messages[p]) - 1
      /\ Len(load.messages[p]) \in Nat
  BY <1>1, <1>3, HeadTail, ZenonT(30)
<1>5. m.kind \in Kind /\ m.priority \in Priority /\ m.parts \in 1..3
  BY <1>4 DEF Message
<1>6. Sends(s, o) /\ Sensible(s) /\ o \in Sender(All(s), Indices) /\ n \in Nat
  BY OneEnd DEF Sends
<1>7. o.orderedWrite \in 0..OrderModulus - 1 /\ o.sequencedWrite \in 0..OrderModulus - 1
      /\ o.queue \in [Priority -> Seq(All(s))]
  BY <1>6 DEF Sender, Indices
<1>8. index \in Int
  BY <1>7 DEF None
<1>9. Sensible(t) /\ OneMore(s, t) /\ Len(t) = n + m.parts /\ t[n + 1].kind = m.kind /\ t[n + 1].index = index
  <2>1. IsAdded(s, n, m, index, t)
    BY DEF IsAdded
  <2>2. n = Len(s)
    OBVIOUS
  <2> HIDE DEF index, m, n, s, t
  <2> QED BY <1>4, <1>6, <1>8, <2>1, <2>2, PartsAdded
<1> HIDE DEF t
<1>10. Len(t) \in Nat /\ Len(s) < Len(t) /\ All(s) \in SUBSET All(t)
  <2>1. n = Len(s) /\ Len(t) = n + m.parts /\ n \in Nat /\ m.parts \in 1..3
    BY <1>5, <1>6, <1>9
  <2> HIDE DEF n, m, s
  <2>2. Len(t) \in Nat /\ Len(s) \in Nat /\ Len(s) < Len(t) /\ Len(s) <= Len(t)
    BY <2>1
  <2> QED BY <2>2, AllGrows
<1>11. next \in 0..OrderModulus - 1
  <2>1. index + 1 \in Int
    BY <1>8
  <2> HIDE DEF index
  <2> QED BY <2>1, IndexTyped
<1>12. w \in 0..OrderModulus - 1 /\ v \in 0..OrderModulus - 1
  BY <1>7, <1>11
<1>13. Numbered(t, OrderedKinds, w)
  <2>1. IF t[Len(s) + 1].kind \in OrderedKinds THEN t[Len(s) + 1].index = o.orderedWrite
                                                    /\ w = (o.orderedWrite + 1) % OrderModulus
        ELSE w = o.orderedWrite
    BY <1>9 DEF OrderedKinds, Sequenced
  <2>2. Numbered(s, OrderedKinds, o.orderedWrite)
    BY <1>6 DEF Sends
  <2> HIDE DEF w, s, o
  <2> QED BY <1>6, <1>7, <1>9, <1>10, <1>12, <2>1, <2>2, NumberedGrows DEF n
<1>14. Numbered(t, SequencedKinds, v)
  <2>1. IF t[Len(s) + 1].kind \in SequencedKinds THEN t[Len(s) + 1].index = o.sequencedWrite
                                                      /\ v = (o.sequencedWrite + 1) % OrderModulus
        ELSE v = o.sequencedWrite
    BY <1>9 DEF SequencedKinds, Sequenced
  <2>2. Numbered(s, SequencedKinds, o.sequencedWrite)
    BY <1>6 DEF Sends
  <2> HIDE DEF v, s, o
  <2> QED BY <1>6, <1>7, <1>9, <1>10, <1>12, <2>1, <2>2, NumberedGrows DEF n
<1>15. u \in Seq(All(t))
  <2> DEFINE x == [i \in 1..m.parts |-> n + i - 1]
             y == o.queue[m.priority]
  <2>1. m.parts \in Nat
    BY <1>5
  <2>2. x \in Seq(All(t))
    <3> HIDE DEF m, n
    <3> QED BY <1>6, <1>9, <2>1, NewNumbers
  <2>3. y \in Seq(All(t))
    BY <1>5, <1>7, <1>10
  <2>4. u = y \o x
    OBVIOUS
  <2> HIDE DEF x, y, u
  <2> QED BY <2>2, <2>3, <2>4
<1>16. Sends(t, r)
  <2>1. o \in Sender(All(t), Indices)
    BY <1>6, <1>10, SenderGrows
  <2>2. w \in Indices[1] /\ v \in Indices[2]
    BY <1>12 DEF Indices
  <2> HIDE DEF u, w, v, m, o, Indices
  <2>3. r \in Sender(All(t), Indices)
    BY <1>5, <1>15, <2>1, <2>2 DEF Sender
  <2>4. r.orderedWrite = w /\ r.sequencedWrite = v
    BY <2>1 DEF Sender
  <2> HIDE DEF r
  <2> QED BY <1>9, <1>13, <1>14, <2>3, <2>4 DEF Sends
<1> HIDE DEF r, rest, u, w, v, next, index
<1>17. ASSUME NEW q \in Peer
       PROVE  End(claims, packet'[q], packet'[Other(q)], out'[q], in'[q], net'[q])
  <2>1. Right(packet[Other(q)], claims, in[q]) /\ Sends(packet[q], out[q])
        /\ net[q] \in Seq(Datagram(All(packet[Other(q)]), All(packet[q])))
    BY OneEnd
  <2>2. CASE q = p
    <3>1. packet'[q] = t /\ packet'[Other(q)] = packet[Other(q)] /\ out'[q] = r /\ in'[q] = in[q] /\ net'[q] = net[q]
      BY <1>1, <1>2, <2>2, TwoEnds
    <3>2. net[q] \in Seq(Datagram(All(packet[Other(q)]), All(t)))
      BY <1>10, <2>1, <2>2, DatagramGrows
    <3> QED BY <1>16, <2>1, <3>1, <3>2 DEF End
  <2>3. CASE q # p
    <3>1. Other(q) = p
      BY <2>3, TwoEnds
    <3>2. packet'[q] = packet[q] /\ packet'[Other(q)] = t /\ out'[q] = out[q] /\ in'[q] = in[q] /\ net'[q] = net[q]
      BY <1>1, <1>2, <2>3, <3>1
    <3>3. net[q] \in Seq(Datagram(All(t), All(packet[q])))
      BY <1>10, <2>1, <3>1, DatagramGrows
    <3>4. Right(t, claims, in[q])
      BY <1>6, <1>9, <1>10, <2>1, <3>1, RightStays
    <3> QED BY <2>1, <3>2, <3>3, <3>4 DEF End
  <2> QED BY <2>2, <2>3
<1>18. \E l \in Loads : Fits(l)'
  <2>1. PICK l \in Loads : \A q \in Peer : Len(packet[q]) + 3 * Len(load.messages[q]) <= 3 * Len(l.messages[q])
    BY DEF IInv, Fits
  <2>2. \A q \in Peer : Len(packet[q]) \in Nat /\ Len(load.messages[q]) \in Nat /\ Len(l.messages[q]) \in Nat
    <3>1. l.messages \in [Peer -> Seq(Message)]
      BY LayerAssumption
    <3> QED BY <1>3, <3>1, OneEnd
  <2>3. ASSUME NEW q \in Peer
        PROVE  Len(packet'[q]) + 3 * Len(load'.messages[q]) <= 3 * Len(l.messages[q])
    <3>1. load'.messages[q] = IF q = p THEN rest ELSE load.messages[q]
      BY <1>1, <1>2, <1>3
    <3>2. packet'[q] = IF q = p THEN t ELSE packet[q]
      BY <1>1, <1>2
    <3>3. CASE q = p
      <4>1. Len(t) <= Len(packet[q]) + 3 /\ Len(rest) = Len(load.messages[q]) - 1
        <5>1. n = Len(packet[q]) /\ Len(t) = n + m.parts /\ n \in Nat /\ m.parts \in 1..3
          BY <1>5, <1>6, <1>9, <3>3
        <5> HIDE DEF n, m
        <5>2. Len(t) <= Len(packet[q]) + 3
          BY <5>1
        <5> QED BY <1>4, <3>3, <5>2
      <4>2. packet'[q] = t /\ load'.messages[q] = rest
        BY <3>1, <3>2, <3>3
      <4>3. Len(packet[q]) \in Nat /\ Len(load.messages[q]) \in Nat /\ Len(l.messages[q]) \in Nat
            /\ Len(packet[q]) + 3 * Len(load.messages[q]) <= 3 * Len(l.messages[q])
        BY <2>1, <2>2
      <4>4. Len(t) + 3 * Len(rest) <= 3 * Len(l.messages[q])
        <5> DEFINE a == Len(packet[q])
                   b == Len(load.messages[q])
                   c == Len(l.messages[q])
                   x == Len(t)
                   y == Len(rest)
        <5>1. a \in Nat /\ b \in Nat /\ c \in Nat /\ a + 3 * b <= 3 * c /\ x \in Nat /\ x <= a + 3 /\ y = b - 1
          BY <1>10, <4>1, <4>3
        <5> HIDE DEF a, b, c, x, y
        <5>2. x + 3 * y <= 3 * c
          BY <5>1, Room
        <5> QED BY <5>2 DEF x, y, c
      <4> QED BY <4>2, <4>4
    <3>4. CASE q # p
      BY <2>1, <3>1, <3>2, <3>4
    <3> QED BY <3>3, <3>4
  <2> QED BY <2>3 DEF Fits
<1>19. load' \in [inOrder : BOOLEAN, messages : [Peer -> Seq(Message)]]
  BY <1>1, <1>2, <1>4
<1>20. DOMAIN packet' = Peer /\ DOMAIN out' = Peer /\ DOMAIN in' = Peer /\ DOMAIN net' = Peer
  BY <1>1, <1>2
<1>21. IInv(claims)'
  BY <1>1, <1>2, <1>17, <1>18, <1>19, <1>20 DEF IInv
<1>22. packet'[p] = t /\ \A q \in Peer : q # p => packet'[q] = packet[q]
  BY <1>1, <1>2
<1> QED BY <1>1, <1>9, <1>10, <1>21, <1>22, SMTT(30)

(* Nothing new is sent.                                                        *)
EndsOf(claims, o, i, ds) ==
  /\ DOMAIN o = Peer /\ DOMAIN i = Peer /\ DOMAIN ds = Peer
  /\ \A p \in Peer : /\ Sends(packet[p], o[p]) /\ Right(packet[Other(p)], claims, i[p])
                     /\ ds[p] \in Seq(Datagram(All(packet[Other(p)]), All(packet[p])))

LEMMA EndsNow ==
  ASSUME NEW claims, IInv(claims)
  PROVE  EndsOf(claims, out, in, net)
BY OneEnd DEF IInv, EndsOf

LEMMA SamePackets ==
  ASSUME NEW claims, IInv(claims), UNCHANGED <<load, packet>>, EndsOf(claims, out', in', net'),
         uptime' \in [Peer -> 0..Timeout], losses' \in 0..MaxLosses, copies' \in 0..MaxCopies,
         cut' \in BOOLEAN, cut' => \A p \in Peer : net'[p] = <<>>
  PROVE  IInv(claims)'
<1>1. load' = load /\ packet' = packet
  OBVIOUS
<1>2. ASSUME NEW p \in Peer
      PROVE  End(claims, packet'[p], packet'[Other(p)], out'[p], in'[p], net'[p])
  BY <1>1 DEF EndsOf, End
<1>3. \E l \in Loads : Fits(l)'
  <2>1. PICK l \in Loads : Fits(l)
    BY DEF IInv
  <2>2. Fits(l)'
    BY <1>1, <2>1 DEF Fits
  <2> QED BY <2>2
<1>4. load' \in [inOrder : BOOLEAN, messages : [Peer -> Seq(Message)]] /\ DOMAIN packet' = Peer
  BY <1>1 DEF IInv
<1> QED BY <1>2, <1>3, <1>4 DEF IInv, EndsOf

LEMMA Bounds ==
  ASSUME NEW claims, IInv(claims)
  PROVE  /\ uptime \in [Peer -> 0..Timeout] /\ losses \in 0..MaxLosses /\ copies \in 0..MaxCopies
         /\ cut \in BOOLEAN /\ (cut => \A p \in Peer : net[p] = <<>>)
BY DEF IInv

LEMMA GiveUpStep ==
  ASSUME NEW claims, IInv(claims), NEW p \in Peer, GiveUp(p)
  PROVE  EndsOf(claims, out', in', net')
<1>1. out' = [out EXCEPT ![p].dead = TRUE] /\ in' = in /\ net' = net
  BY DEF GiveUp
<1>2. EndsOf(claims, out, in, net)
  BY EndsNow
<1>3. ASSUME NEW q \in Peer
      PROVE  Sends(packet[q], out'[q])
  <2>1. Sends(packet[q], out[q])
    BY <1>2 DEF EndsOf
  <2>2. CASE q = p
    <3> DEFINE r == [out[q] EXCEPT !.dead = TRUE]
    <3>1. out'[q] = r
      BY <1>1, <1>2, <2>2 DEF EndsOf
    <3>2. r \in Sender(All(packet[q]), Kept(out[q]))
      <4>1. out[q] \in Sender(All(packet[q]), Kept(out[q]))
        BY <2>1, SendsOf
      <4> QED BY <4>1 DEF Sender
    <3> HIDE DEF r
    <3> QED BY <2>1, <3>1, <3>2, SendsSame
  <2>3. CASE q # p
    BY <1>1, <1>2, <2>1, <2>3 DEF EndsOf
  <2> QED BY <2>2, <2>3
<1>4. DOMAIN out' = Peer
  BY <1>1, <1>2 DEF EndsOf
<1> QED BY <1>1, <1>2, <1>3, <1>4 DEF EndsOf

LEMMA SendWhatIsDueStep ==
  ASSUME NEW claims, IInv(claims), NEW p \in Peer, SendWhatIsDue(p)
  PROVE  EndsOf(claims, out', in', net') /\ (cut => net' = net) /\ \A q \in Peer : GameFields(in'[q]) = GameFields(in[q])
<1> DEFINE s == Updated(p)
           r == Other(p)
           N == All(packet[p])
           A == All(packet[r])
           V == Kept(out[p])
           i == [in[p] EXCEPT !.acks = s.acks]
           ds == net[r] \o s.sent
<1>1. /\ out' = [out EXCEPT ![p] = s.out]
      /\ in'  = [in EXCEPT ![p].acks = s.acks]
      /\ net' = IF cut THEN net ELSE [net EXCEPT ![r] = ds]
  BY DEF SendWhatIsDue
<1>2. EndsOf(claims, out, in, net)
  BY EndsNow
<1>3. r \in Peer /\ r # p /\ Other(r) = p
  BY TwoEnds
<1>4. Sends(packet[p], out[p]) /\ out[p] \in Sender(N, V) /\ Right(packet[r], claims, in[p])
      /\ net[r] \in Seq(Datagram(N, A)) /\ Len(packet[p]) \in Nat
  BY <1>2, <1>3, SendsOf DEF EndsOf
<1>5. in[p] \in Receiver(A)
  BY <1>4 DEF Right, All
<1>6. in[p].acks \in Seq(Ack(A))
  BY <1>5, ReceiverFields
<1>7. s \in Frames(N, V, A)
  <2>1. N = Numbers(p)
    BY DEF All, Numbers
  <2> HIDE DEF N, V, A
  <2> QED BY <1>4, <1>6, <2>1, UpdatedTyped
<1> HIDE DEF s, N, V, A
<1>8. s.out \in Sender(N, V) /\ s.acks \in Seq(Ack(A)) /\ s.sent \in Seq(Datagram(N, A))
  BY <1>7 DEF Frames
<1>9. Sends(packet[p], s.out)
  BY <1>4, <1>8, SendsSame DEF N, V
<1>10. Right(packet[r], claims, i) /\ GameFields(i) = GameFields(in[p])
  <2>1. i \in Receiver(A) /\ GameFields(i) = GameFields(in[p])
    BY <1>5, <1>8 DEF Receiver, GameFields
  <2> HIDE DEF i
  <2>2. i \in Receiver(0..Len(packet[r]) - 1)
    BY <2>1 DEF A, All
  <2> QED BY <1>4, <2>1, <2>2, RightSame
<1>11. ds \in Seq(Datagram(N, A))
  BY <1>4, <1>8
<1> HIDE DEF i, ds
<1>12. DOMAIN out' = Peer /\ DOMAIN in' = Peer /\ DOMAIN net' = Peer
  BY <1>1, <1>2 DEF EndsOf
<1>13. ASSUME NEW q \in Peer
       PROVE  /\ Sends(packet[q], out'[q]) /\ Right(packet[Other(q)], claims, in'[q])
              /\ net'[q] \in Seq(Datagram(All(packet[Other(q)]), All(packet[q])))
              /\ GameFields(in'[q]) = GameFields(in[q])
  <2>1. /\ Sends(packet[q], out[q]) /\ Right(packet[Other(q)], claims, in[q])
        /\ net[q] \in Seq(Datagram(All(packet[Other(q)]), All(packet[q])))
    BY <1>2 DEF EndsOf
  <2>2. CASE q = p
    <3>1. out'[q] = s.out /\ in'[q] = i /\ net'[q] = net[q]
      BY <1>1, <1>2, <1>3, <2>2 DEF EndsOf, i
    <3> QED BY <1>9, <1>10, <2>1, <2>2, <3>1
  <2>3. CASE q # p
    <3>1. q = r
      BY <2>3, TwoEnds
    <3>2. out'[q] = out[q] /\ in'[q] = in[q] /\ (net'[q] = net[q] \/ net'[q] = ds)
      BY <1>1, <1>2, <2>3, <3>1 DEF EndsOf
    <3> QED BY <1>3, <1>11, <2>1, <3>1, <3>2 DEF N, A
  <2> QED BY <2>2, <2>3
<1> QED BY <1>1, <1>12, <1>13 DEF EndsOf

LEMMA UpdateStep ==
  ASSUME NEW claims, IInv(claims), NEW p \in Peer, Update(p)
  PROVE  IInv(claims)' /\ \A q \in Peer : GameFields(in'[q]) = GameFields(in[q])
<1>1. UNCHANGED <<load, packet, uptime, cut, losses, copies, tick>>
  BY DEF Update
<1>2. EndsOf(claims, out', in', net') /\ (cut => net' = net) /\ \A q \in Peer : GameFields(in'[q]) = GameFields(in[q])
  <2>1. CASE GiveUp(p)
    BY <2>1, GiveUpStep DEF GiveUp
  <2>2. CASE SendWhatIsDue(p)
    BY <2>2, SendWhatIsDueStep
  <2> QED BY <2>1, <2>2 DEF Update
<1>3. /\ uptime' \in [Peer -> 0..Timeout] /\ losses' \in 0..MaxLosses /\ copies' \in 0..MaxCopies
      /\ cut' \in BOOLEAN /\ (cut' => \A q \in Peer : net'[q] = <<>>)
  BY <1>1, <1>2, Bounds
<1>4. UNCHANGED <<load, packet>>
  BY <1>1
<1> QED BY <1>2, <1>3, <1>4, SamePackets

(* Nothing is on its way on a line that is cut.                                *)
LEMMA NotCut ==
  ASSUME NEW claims, IInv(claims), NEW q \in Peer, NEW k \in DOMAIN net[q]
  PROVE  /\ ~cut /\ net[q][k] \in Datagram(All(packet[Other(q)]), All(packet[q]))
<1>1. net[q] \in Seq(Datagram(All(packet[Other(q)]), All(packet[q])))
  BY OneEnd
<1>2. net[q] # <<>>
  BY <1>1
<1> QED BY <1>1, <1>2, Bounds

(* The messages that may come to q: those that wait for another, and those     *)
(* with a packet on its way.                                                   *)
OnTheWay(q) == UNION {Range(net[q][k].packets) : k \in DOMAIN net[q]}
There(q) == {packet[Other(q)][n + 1].message : n \in OnTheWay(q)} \cup Range(in[q].ordering)

(* No ordered message is on its way, or waits, that is OrderModulus - 1 places *)
(* or more from another or from what the game has got: 255 in the code.        *)
OrderedInTime == \A q \in Peer : OrderedNear(packet[Other(q)], There(q), in[q].output)

(* No sequenced message is on its way so many places behind another that is on *)
(* its way, or that the game has got, that its index looks new: 126 in the code. *)
SequencedInTime == \A q \in Peer : SequencedNear(packet[Other(q)], There(q), in[q].output)

InTime(claims) == ("ordered" \in claims => OrderedInTime) /\ ("sequenced" \in claims => SequencedInTime)

Had(q)  == Len(GotOf(packet[Other(q)], OrderedKinds, in[q].output))
HasGot(q) == Len(GotOf(packet[Other(q)], OrderedKinds, in'[q].output))

(* A datagram comes in at q.                                                   *)
LEMMA HandleStep ==
  ASSUME NEW claims, IInv(claims), InTime(claims), NEW q \in Peer, NEW k \in DOMAIN net[q],
         HandleSocketReceive(q, net[q][k])
  PROVE  /\ EndsOf(claims, out', in', net)
         /\ in'[Other(q)] = in[Other(q)]
         /\ "ordered" \in claims => Had(q) <= HasGot(q)
<1> DEFINE p == Other(q)
           s == packet[p]
           d == net[q][k]
           o == Grow(Acknowledged(q, out[q], d.acks), Len(d.acks))
           i == TakePackets(q, in[q], d.packets)
           e == [claims |-> claims, got |-> Had(q), there |-> There(q)]
<1>1. EndsOf(claims, out, in, net)
  BY EndsNow
<1>2. Sends(packet[q], out[q]) /\ Right(s, claims, in[q]) /\ Sound(s)
  BY OneEnd, TwoEnds
<1>3. d \in Datagram(All(s), All(packet[q]))
  BY NotCut
<1>4. d.packets \in Seq(All(s)) /\ d.acks \in Seq(All(packet[q]))
  BY <1>3 DEF Datagram
<1>5. Sends(packet[q], o)
  <2>1. out[q] \in Sender(All(packet[q]), Kept(out[q]))
    BY <1>2, SendsOf
  <2>2. Acknowledged(q, out[q], d.acks) \in Sender(All(packet[q]), Kept(out[q]))
    BY <1>4, <2>1, AcknowledgedTyped
  <2>3. o \in Sender(All(packet[q]), Kept(out[q]))
    BY <2>2, GrowTyped
  <2> HIDE DEF o
  <2> QED BY <1>2, <2>3, SendsSame
<1>6. e.claims = claims /\ e.got = Had(q) /\ e.there = There(q)
  OBVIOUS
<1> HIDE DEF e
<1>7. in[q].ordering \in Seq(Firsts(s, OrderedKinds)) /\ in[q].output \in Seq(All(s)) /\ Len(s) \in Nat
  BY <1>2, ReceiverFields DEF Right, All, Sound, Sensible
<1>8. Had(q) \in Int
  <2>1. GotOf(s, OrderedKinds, in[q].output) \in Seq(All(s))
    BY <1>7, OnlyElements DEF GotOf
  <2> QED BY <2>1 DEF Had
<1>9. Good(s, e, in[q])
  <2>1. in[q].ordering \in Seq(There(q))
    <3>1. in[q].ordering \in Seq(Range(in[q].ordering))
      BY <1>7 DEF Range
    <3> QED BY <3>1 DEF There
  <2>2. "ordered" \in claims => OrderedNear(s, There(q), in[q].output)
    BY DEF InTime, OrderedInTime
  <2>3. "sequenced" \in claims => SequencedNear(s, There(q), in[q].output)
    BY DEF InTime, SequencedInTime
  <2>4. Had(q) <= Len(GotOf(s, OrderedKinds, in[q].output))
    BY <1>8 DEF Had
  <2> QED BY <1>2, <1>6, <2>1, <2>2, <2>3, <2>4 DEF Good
<1>10. \A j \in 1..Len(d.packets) : s[d.packets[j] + 1].message \in There(q)
  <2> TAKE j \in 1..Len(d.packets)
  <2>1. d.packets[j] \in Range(d.packets)
    BY <1>4 DEF Range
  <2>2. d.packets[j] \in OnTheWay(q)
    BY <2>1 DEF OnTheWay
  <2> QED BY <2>2 DEF There
<1>11. Good(s, e, i)
  <2>1. d.packets \in Seq(Numbers(p))
    BY <1>4 DEF All, Numbers
  <2>2. e.got \in Int /\ \A j \in 1..Len(d.packets) : packet[p][d.packets[j] + 1].message \in e.there
    BY <1>6, <1>8, <1>10
  <2> HIDE DEF p, d
  <2> QED BY <1>2, <1>9, <2>1, <2>2, TakePacketsGood DEF p
<1>12. Right(s, claims, i)
  BY <1>6, <1>11 DEF Good
<1>13. "ordered" \in claims => Had(q) <= Len(GotOf(s, OrderedKinds, i.output))
  BY <1>6, <1>11 DEF Good
<1>14. \/ out' = out /\ in' = in
       \/ out' = [out EXCEPT ![q] = o] /\ in' = [in EXCEPT ![q] = i]
  BY DEF HandleSocketReceive
<1> HIDE DEF o, i, s, d
<1>15. DOMAIN out' = Peer /\ DOMAIN in' = Peer /\ DOMAIN net = Peer
  BY <1>1, <1>14 DEF EndsOf
<1>16. (out'[q] = out[q] \/ out'[q] = o) /\ (in'[q] = in[q] \/ in'[q] = i)
  BY <1>1, <1>14 DEF EndsOf
<1>17. p # q /\ p \in Peer /\ Other(p) = q /\ \A r \in Peer : r = q \/ r = p
  BY TwoEnds
<1>18. out'[p] = out[p] /\ in'[p] = in[p]
  BY <1>1, <1>14, <1>17 DEF EndsOf
<1>19. ASSUME NEW r \in Peer
       PROVE  Sends(packet[r], out'[r]) /\ Right(packet[Other(r)], claims, in'[r])
  <2>1. CASE r = q
    BY <1>2, <1>5, <1>12, <1>16, <2>1 DEF s
  <2>2. CASE r = p
    <3>1. Sends(packet[r], out[r]) /\ Right(packet[Other(r)], claims, in[r])
      BY <1>1 DEF EndsOf
    <3> QED BY <1>18, <2>2, <3>1
  <2> QED BY <1>17, <2>1, <2>2
<1>20. EndsOf(claims, out', in', net)
  BY <1>1, <1>15, <1>19 DEF EndsOf
<1>21. "ordered" \in claims => Had(q) <= HasGot(q)
  BY <1>8, <1>13, <1>16 DEF Had, HasGot, s
<1> QED BY <1>18, <1>20, <1>21

(* Some datagrams are gone, or none.                                           *)
LEMMA FewerDatagrams ==
  ASSUME NEW claims, NEW o, NEW i, EndsOf(claims, o, i, net), NEW q \in Peer, NEW k \in DOMAIN net[q], NEW ds,
         ds = [net EXCEPT ![q] = RemoveAt(net[q], k)]
  PROVE  EndsOf(claims, o, i, ds)
<1>1. DOMAIN net = Peer
  BY DEF EndsOf
<1>2. ASSUME NEW p \in Peer
      PROVE  ds[p] \in Seq(Datagram(All(packet[Other(p)]), All(packet[p])))
  <2> DEFINE D == Datagram(All(packet[Other(p)]), All(packet[p]))
  <2>1. net[p] \in Seq(D)
    BY DEF EndsOf
  <2> HIDE DEF D
  <2>2. CASE p = q
    <3>1. k \in 1..Len(net[p])
      BY <2>1, <2>2
    <3>2. RemoveAt(net[p], k) \in Seq(D)
      BY <2>1, <3>1, RemoveTyped
    <3> QED BY <1>1, <2>2, <3>2 DEF D
  <2>3. CASE p # q
    BY <1>1, <2>1, <2>3 DEF D
  <2> QED BY <2>2, <2>3
<1>3. DOMAIN ds = Peer
  BY <1>1
<1> QED BY <1>2, <1>3 DEF EndsOf

Handles(q, claims) ==
  /\ ~cut /\ in'[Other(q)] = in[Other(q)]
  /\ "ordered" \in claims => Had(q) <= HasGot(q)

LEMMA DeliverStep ==
  ASSUME NEW claims, IInv(claims), InTime(claims), NEW q \in Peer, Deliver(q)
  PROVE  IInv(claims)' /\ Handles(q, claims)
<1>1. PICK k \in DOMAIN net[q] : HandleSocketReceive(q, net[q][k]) /\ net' = [net EXCEPT ![q] = RemoveAt(@, k)]
  BY DEF Deliver
<1>2. UNCHANGED <<load, packet, uptime, cut, losses, copies, tick>>
  BY DEF Deliver
<1>3. ~cut /\ net[q][k] \in Datagram(All(packet[Other(q)]), All(packet[q]))
  BY NotCut
<1>4. EndsOf(claims, out', in', net) /\ Handles(q, claims)
  BY <1>1, <1>3, HandleStep DEF Handles
<1>5. EndsOf(claims, out', in', net')
  BY <1>1, <1>4, FewerDatagrams
<1>6. /\ uptime' \in [Peer -> 0..Timeout] /\ losses' \in 0..MaxLosses /\ copies' \in 0..MaxCopies
      /\ cut' \in BOOLEAN /\ ~cut'
  BY <1>2, <1>3, Bounds
<1>7. UNCHANGED <<load, packet>>
  BY <1>2
<1> QED BY <1>4, <1>5, <1>6, <1>7, SamePackets

LEMMA DeliverCopyStep ==
  ASSUME NEW claims, IInv(claims), InTime(claims), NEW q \in Peer, DeliverCopy(q)
  PROVE  IInv(claims)' /\ Handles(q, claims)
<1>1. PICK k \in DOMAIN net[q] : HandleSocketReceive(q, net[q][k])
  BY DEF DeliverCopy
<1>2. copies < MaxCopies /\ copies' = copies + 1 /\ UNCHANGED <<load, packet, uptime, net, cut, losses, tick>>
  BY DEF DeliverCopy
<1>3. ~cut /\ net[q][k] \in Datagram(All(packet[Other(q)]), All(packet[q]))
  BY NotCut
<1>4. EndsOf(claims, out', in', net) /\ Handles(q, claims)
  BY <1>1, <1>3, HandleStep DEF Handles
<1>5. EndsOf(claims, out', in', net')
  BY <1>2, <1>4
<1>6. /\ uptime' \in [Peer -> 0..Timeout] /\ losses' \in 0..MaxLosses /\ copies' \in 0..MaxCopies
      /\ cut' \in BOOLEAN /\ ~cut'
  BY <1>2, <1>3, Bounds, Constants
<1>7. UNCHANGED <<load, packet>>
  BY <1>2
<1> QED BY <1>4, <1>5, <1>6, <1>7, SamePackets

LEMMA LoseStep ==
  ASSUME NEW claims, IInv(claims), NEW q \in Peer, Lose(q)
  PROVE  IInv(claims)'
<1>1. PICK k \in DOMAIN net[q] : net' = [net EXCEPT ![q] = RemoveAt(@, k)]
  BY DEF Lose
<1>2. losses < MaxLosses /\ losses' = losses + 1 /\ UNCHANGED <<load, packet, out, in, uptime, cut, copies, tick>>
  BY DEF Lose
<1>3. EndsOf(claims, out, in, net) /\ ~cut
  BY EndsNow, NotCut
<1>4. EndsOf(claims, out', in', net')
  <2>1. EndsOf(claims, out, in, net')
    BY <1>1, <1>3, FewerDatagrams
  <2> QED BY <1>2, <2>1
<1>5. /\ uptime' \in [Peer -> 0..Timeout] /\ losses' \in 0..MaxLosses /\ copies' \in 0..MaxCopies
      /\ cut' \in BOOLEAN /\ ~cut'
  BY <1>2, <1>3, Bounds, Constants
<1>6. UNCHANGED <<load, packet>>
  BY <1>2
<1> QED BY <1>4, <1>5, <1>6, SamePackets

LEMMA CutStep ==
  ASSUME NEW claims, IInv(claims), Cut
  PROVE  IInv(claims)'
<1>1. cut' = TRUE /\ net' = [q \in Peer |-> <<>>] /\ UNCHANGED <<load, packet, out, in, uptime, losses, copies, tick>>
  BY DEF Cut
<1>2. EndsOf(claims, out, in, net)
  BY EndsNow
<1>3. EndsOf(claims, out', in', net')
  BY <1>1, <1>2 DEF EndsOf
<1>4. /\ uptime' \in [Peer -> 0..Timeout] /\ losses' \in 0..MaxLosses /\ copies' \in 0..MaxCopies
      /\ cut' \in BOOLEAN /\ \A q \in Peer : net'[q] = <<>>
  BY <1>1, Bounds
<1>5. UNCHANGED <<load, packet>>
  BY <1>1
<1> QED BY <1>3, <1>4, <1>5, SamePackets

LEMMA DatagramAges ==
  ASSUME NEW N, NEW A, NEW d \in Datagram(N, A)
  PROVE  [d EXCEPT !.age = d.age + 1] \in Datagram(N, A)
<1>1. d.age + 1 \in Int
  BY DEF Datagram
<1> QED BY <1>1 DEF Datagram

LEMMA DatagramsAge ==
  ASSUME NEW N, NEW A, NEW ds \in Seq(Datagram(N, A))
  PROVE  [k \in DOMAIN ds |-> [ds[k] EXCEPT !.age = ds[k].age + 1]] \in Seq(Datagram(N, A))
<1> DEFINE D == Datagram(N, A)
           older == [k \in DOMAIN ds |-> [ds[k] EXCEPT !.age = ds[k].age + 1]]
<1>1. Len(ds) \in Nat /\ DOMAIN ds = 1..Len(ds) /\ \A k \in 1..Len(ds) : ds[k] \in D
  OBVIOUS
<1>2. \A k \in 1..Len(ds) : [ds[k] EXCEPT !.age = ds[k].age + 1] \in D
  BY <1>1, DatagramAges
<1> HIDE DEF D
<1>3. older \in [1..Len(ds) -> D]
  BY <1>1, <1>2
<1> HIDE DEF older
<1>4. older \in Seq(D)
  BY <1>1, <1>3
<1> QED BY <1>4 DEF older, D

LEMMA ArrivalsAge ==
  ASSUME NEW r \in Seq(Arrival)
  PROVE  [k \in DOMAIN r |-> [hole |-> r[k].hole, age |-> Older(r[k].age, Timeout + 1)]] \in Seq(Arrival)
<1> DEFINE older == [k \in DOMAIN r |-> [hole |-> r[k].hole, age |-> Older(r[k].age, Timeout + 1)]]
<1>1. Len(r) \in Nat /\ DOMAIN r = 1..Len(r) /\ \A k \in 1..Len(r) : r[k] \in Arrival
  OBVIOUS
<1>2. \A k \in 1..Len(r) : r[k].hole \in BOOLEAN /\ r[k].age \in Int
  BY <1>1 DEF Arrival
<1>3. \A k \in 1..Len(r) : Older(r[k].age, Timeout + 1) \in Int
  <2>1. Timeout + 1 \in Int
    BY Constants
  <2> QED BY <1>2, <2>1, OlderTyped
<1>4. \A k \in 1..Len(r) : [hole |-> r[k].hole, age |-> Older(r[k].age, Timeout + 1)] \in Arrival
  BY <1>2, <1>3 DEF Arrival
<1>5. older \in [1..Len(r) -> Arrival]
  BY <1>1, <1>4
<1> HIDE DEF older
<1>6. older \in Seq(Arrival)
  BY <1>1, <1>5
<1> QED BY <1>6 DEF older

LEMMA TickStep ==
  ASSUME NEW claims, IInv(claims), Tick
  PROVE  IInv(claims)' /\ \A q \in Peer : GameFields(in'[q]) = GameFields(in[q])
<1> DEFINE o(p) == [out[p] EXCEPT !.lastAck = Older(out[p].lastAck, Timeout + 1),
                                  !.sinceIncrease = Older(out[p].sinceIncrease, 2 * ResendDelay + 1),
                                  !.resend = Waited(out[p].resend)]
           r(p) == [k \in DOMAIN in[p].received |->
                      [hole |-> in[p].received[k].hole, age |-> Older(in[p].received[k].age, Timeout + 1)]]
           a(p) == Waited(in[p].acks)
           i(p) == [in[p] EXCEPT !.received = r(p), !.acks = a(p)]
           ds(p) == [k \in DOMAIN net[p] |-> [net[p][k] EXCEPT !.age = net[p][k].age + 1]]
<1>1. /\ out' = [p \in Peer |-> o(p)] /\ in' = [p \in Peer |-> i(p)] /\ net' = [p \in Peer |-> ds(p)]
      /\ uptime' = [p \in Peer |-> Min({uptime[p] + 1, Timeout})]
      /\ UNCHANGED <<load, packet, cut, losses, copies>>
  BY DEF Tick
<1>2. EndsOf(claims, out, in, net)
  BY EndsNow
<1>3. ASSUME NEW p \in Peer
      PROVE  /\ Sends(packet[p], o(p)) /\ Right(packet[Other(p)], claims, i(p))
             /\ GameFields(i(p)) = GameFields(in[p])
             /\ ds(p) \in Seq(Datagram(All(packet[Other(p)]), All(packet[p])))
  <2> DEFINE A == 0..Len(packet[Other(p)]) - 1
  <2>1. /\ Sends(packet[p], out[p]) /\ Right(packet[Other(p)], claims, in[p])
        /\ net[p] \in Seq(Datagram(All(packet[Other(p)]), All(packet[p])))
    BY <1>2 DEF EndsOf
  <2>2. o(p) \in Sender(All(packet[p]), Kept(out[p]))
    BY <2>1, SendsOf, SenderTicks
  <2>3. in[p] \in Receiver(A)
    BY <2>1 DEF Right
  <2>4. r(p) \in Seq(Arrival) /\ a(p) \in Seq(Ack(A))
    <3>1. in[p].received \in Seq(Arrival) /\ in[p].acks \in Seq(Ack(A))
      BY <2>3, ReceiverFields
    <3>2. r(p) \in Seq(Arrival)
      BY <3>1, ArrivalsAge
    <3>3. a(p) \in Seq(Ack(A))
      BY <3>1, WaitedTyped
    <3> QED BY <3>2, <3>3
  <2>5. ds(p) \in Seq(Datagram(All(packet[Other(p)]), All(packet[p])))
    BY <2>1, DatagramsAge
  <2> HIDE DEF o, r, a, ds, A
  <2>6. i(p) \in Receiver(A) /\ GameFields(i(p)) = GameFields(in[p])
    BY <2>3, <2>4 DEF Receiver, GameFields
  <2> HIDE DEF i
  <2>7. Right(packet[Other(p)], claims, i(p))
    BY <2>1, <2>6, RightSame DEF A
  <2> QED BY <2>1, <2>2, <2>5, <2>6, <2>7, SendsSame
<1> HIDE DEF o, r, a, i, ds
<1>4. EndsOf(claims, out', in', net')
  BY <1>1, <1>3 DEF EndsOf
<1>5. uptime' \in [Peer -> 0..Timeout]
  <2>1. ASSUME NEW p \in Peer
        PROVE  Min({uptime[p] + 1, Timeout}) \in 0..Timeout
    <3>1. uptime[p] \in 0..Timeout
      BY Bounds
    <3>2. uptime[p] + 1 \in Int /\ Timeout \in Int /\ 0 <= uptime[p] + 1 /\ 0 <= Timeout
      BY <3>1, Constants
    <3>3. Min({uptime[p] + 1, Timeout}) = IF uptime[p] + 1 <= Timeout THEN uptime[p] + 1 ELSE Timeout
      BY <3>2, OfTwo
    <3> QED BY <3>2, <3>3
  <2> QED BY <1>1, <2>1
<1>6. cut' => \A p \in Peer : net'[p] = <<>>
  <2> SUFFICES ASSUME cut', NEW p \in Peer PROVE net'[p] = <<>>
    OBVIOUS
  <2>1. net[p] = <<>>
    BY <1>1, Bounds
  <2>2. ds(p) = <<>>
    BY <2>1 DEF ds
  <2> QED BY <1>1, <2>2
<1>7. losses' \in 0..MaxLosses /\ copies' \in 0..MaxCopies /\ cut' \in BOOLEAN
  BY <1>1, Bounds
<1>8. UNCHANGED <<load, packet>>
  BY <1>1
<1>9. \A q \in Peer : GameFields(in'[q]) = GameFields(in[q])
  BY <1>1, <1>3
<1> QED BY <1>4, <1>5, <1>6, <1>7, <1>8, <1>9, SamePackets

LEMMA Stutter ==
  ASSUME NEW claims, IInv(claims), UNCHANGED vars
  PROVE  IInv(claims)'
<1>1. UNCHANGED <<load, packet>> /\ out' = out /\ in' = in /\ net' = net
      /\ uptime' = uptime /\ cut' = cut /\ losses' = losses /\ copies' = copies
  BY DEF vars
<1>2. EndsOf(claims, out', in', net')
  BY <1>1, EndsNow
<1>3. /\ uptime' \in [Peer -> 0..Timeout] /\ losses' \in 0..MaxLosses /\ copies' \in 0..MaxCopies
      /\ cut' \in BOOLEAN /\ (cut' => \A q \in Peer : net'[q] = <<>>)
  BY <1>1, Bounds
<1> QED BY <1>1, <1>2, <1>3, SamePackets

LEMMA Step ==
  ASSUME NEW claims, IInv(claims), InTime(claims), [Next]_vars
  PROVE  IInv(claims)'
<1>1. ASSUME NEW p \in Peer, Send(p) PROVE IInv(claims)'
  BY <1>1, SendStep
<1>2. ASSUME NEW p \in Peer, Update(p) PROVE IInv(claims)'
  BY <1>2, UpdateStep
<1>3. ASSUME NEW p \in Peer, Deliver(p) PROVE IInv(claims)'
  BY <1>3, DeliverStep
<1>4. ASSUME NEW p \in Peer, DeliverCopy(p) PROVE IInv(claims)'
  BY <1>4, DeliverCopyStep
<1>5. ASSUME NEW p \in Peer, Lose(p) PROVE IInv(claims)'
  BY <1>5, LoseStep
<1>6. CASE Cut
  BY <1>6, CutStep
<1>7. CASE Tick
  BY <1>7, TickStep
<1>8. CASE UNCHANGED vars
  BY <1>8, Stutter
<1> QED BY <1>1, <1>2, <1>3, <1>4, <1>5, <1>6, <1>7, <1>8 DEF Next

LEMMA Invariance == Spec => []IInv({})
<1>1. Init => IInv({})
  BY InitIInv
<1>2. IInv({}) /\ [Next]_vars => IInv({})'
  BY Step DEF InTime
<1> QED BY <1>1, <1>2, PTL DEF Spec

-----------------------------------------------------------------------------
(* The theorems.                                                               *)

(* The sizes and numbers of both layers stay in their ranges: the window       *)
(* between its two limits, the time since an acknowledgement below the one     *)
(* that kills the connection, and whatever is queued, resent or put together   *)
(* is a packet that was sent.                                                  *)
THEOREM TypeCorrect == Spec => []TypeOK
<1>1. IInv({}) => TypeOK
  <2> SUFFICES ASSUME IInv({}) PROVE TypeOK
    OBVIOUS
  <2>1. ASSUME NEW p \in Peer
        PROVE  /\ out[p].window \in MinWindow..MaxWindow
               /\ out[p].lastAck \in -1..Timeout + 1
               /\ \A i \in Priority : \A k \in DOMAIN out[p].queue[i] : out[p].queue[i][k] \in All(packet[p])
               /\ \A k \in DOMAIN out[p].resend : out[p].resend[k].number \in -1..Len(packet[p]) - 1
               /\ in[p].orderedRead \in 0..OrderModulus - 1
               /\ in[p].sequencedRead \in 0..OrderModulus - 1
               /\ in[p].splits \subseteq 0..Len(packet[Other(p)]) - 1
    <3>1. out[p] \in Sender(All(packet[p]), Indices) /\ Len(packet[p]) \in Nat
      BY OneEnd DEF Sends
    <3>2. in[p] \in Receiver(0..Len(packet[Other(p)]) - 1)
      BY OneEnd DEF Right
    <3>3. out[p].queue \in [Priority -> Seq(All(packet[p]))] /\ out[p].resend \in Seq(Timer(All(packet[p])))
          /\ out[p].window \in MinWindow..MaxWindow /\ out[p].lastAck \in -1..Timeout + 1
      BY <3>1, SenderFields
    <3>4. \A i \in Priority : \A k \in DOMAIN out[p].queue[i] : out[p].queue[i][k] \in All(packet[p])
      BY <3>3
    <3>5. \A k \in DOMAIN out[p].resend : out[p].resend[k].number \in -1..Len(packet[p]) - 1
      <4> TAKE k \in DOMAIN out[p].resend
      <4>1. out[p].resend[k] \in Timer(All(packet[p]))
        BY <3>3
      <4> QED BY <3>1, <4>1 DEF Timer, All, None
    <3> QED BY <3>2, <3>3, <3>4, <3>5, ReceiverFields
  <2> QED BY <2>1, Bounds DEF TypeOK, All
<1> QED BY <1>1, Invariance, PTL

(* The sequenced messages.                                                     *)
LEMMA SequencedOutput ==
  ASSUME NEW p \in Peer
  PROVE  Output(p, Sequenced) = GotOf(packet[Other(p)], SequencedKinds, in[p].output)
<1>1. {n \in Numbers(Other(p)) : Sequenced(packet[Other(p)][n + 1].kind)} = OfKind(packet[Other(p)], SequencedKinds)
  BY DEF Numbers, Sequenced, SequencedKinds, OfKind
<1> QED BY <1>1 DEF Output, GotOf

(* The game never gets input or physics that is older than what it has, as     *)
(* long as no sequenced message comes in 126 or more places (for an index of   *)
(* one byte) behind another: then HandleSocketReceiveFromConnectedPlayer does  *)
(* tell by IsOlderOrderedPacket that it is old, and drops it.                  *)
THEOREM SequencedRises == Spec /\ []SequencedInTime => []SequencedNeverGoesBack
<1>1. Init => IInv({"sequenced"})
  BY InitIInv
<1>2. IInv({"sequenced"}) /\ SequencedInTime /\ [Next]_vars => IInv({"sequenced"})'
  BY Step DEF InTime
<1>3. IInv({"sequenced"}) => SequencedNeverGoesBack
  <2> SUFFICES ASSUME IInv({"sequenced"}), NEW p \in Peer,
                      NEW i \in DOMAIN Output(p, Sequenced), NEW j \in DOMAIN Output(p, Sequenced), i < j
               PROVE  Output(p, Sequenced)[i] < Output(p, Sequenced)[j]
    BY DEF SequencedNeverGoesBack
  <2> DEFINE s == packet[Other(p)]
             got == GotOf(s, SequencedKinds, in[p].output)
  <2>1. Output(p, Sequenced) = got
    BY SequencedOutput
  <2>2. Right(s, {"sequenced"}, in[p])
    BY OneEnd
  <2>3. in[p].output \in Seq(All(s)) /\ Ascending(got)
    BY <2>2, ReceiverFields DEF Right, Rising, All
  <2>4. got \in Seq(All(s))
    BY <2>3, OnlyElements DEF GotOf
  <2> HIDE DEF got, s
  <2>5. i \in 1..Len(got) /\ j \in 1..Len(got)
    BY <2>1, <2>4
  <2> QED BY <2>1, <2>3, <2>5 DEF Ascending
<1> QED BY <1>1, <1>2, <1>3, PTL DEF Spec

(* The ordered messages: what has been sent and what has arrived.              *)
SentAll == [p \in Peer |-> SentOf(packet[p], OrderedKinds)]
GotAll  == [p \in Peer |-> GotOf(packet[p], OrderedKinds, in[Other(p)].output)]

LEMMA LinkVariables ==
  /\ [p \in Peer |-> Messages(p, Ordered)] = SentAll
  /\ [p \in Peer |-> Output(Other(p), Ordered)] = GotAll
<1>1. ASSUME NEW p \in Peer
      PROVE  Messages(p, Ordered) = SentOf(packet[p], OrderedKinds)
  <2>1. {n \in Numbers(p) : packet[p][n + 1].part = 1 /\ Ordered(packet[p][n + 1].kind)} = Firsts(packet[p], OrderedKinds)
    BY DEF Numbers, Ordered, OrderedKinds, Firsts
  <2> QED BY <2>1 DEF Messages, SentOf
<1>2. ASSUME NEW p \in Peer
      PROVE  Output(Other(p), Ordered) = GotOf(packet[p], OrderedKinds, in[Other(p)].output)
  <2>1. Other(Other(p)) = p
    BY TwoEnds
  <2>2. {n \in Numbers(p) : Ordered(packet[p][n + 1].kind)} = OfKind(packet[p], OrderedKinds)
    BY DEF Numbers, Ordered, OrderedKinds, OfKind
  <2> QED BY <2>1, <2>2 DEF Output, GotOf
<1> QED BY <1>1, <1>2 DEF SentAll, GotAll

(* What happens to the ordered messages in a step.                             *)
MoreSent ==
  /\ GotAll' = GotAll /\ cut' = cut
  /\ \E p \in Peer, n \in FirstNumbers : SentAll' = [SentAll EXCEPT ![p] = Append(SentAll[p], n)]
MoreGot ==
  /\ ~cut /\ SentAll' = SentAll /\ cut' = cut
  /\ \E p \in Peer : \E n \in Len(GotAll[p]) + 1..Len(SentAll[p]) :
       GotAll' = [GotAll EXCEPT ![p] = SubSeq(SentAll[p], 1, n)]
Same == SentAll' = SentAll /\ GotAll' = GotAll
LinkStep ==
  \/ MoreSent
  \/ MoreGot
  \/ Same /\ (cut' = cut \/ cut' = TRUE)

LEMMA SameMessages ==
  ASSUME packet' = packet, \A q \in Peer : GameFields(in'[q]) = GameFields(in[q])
  PROVE  Same
<1>1. \A q \in Peer : in'[q].output = in[q].output
  BY DEF GameFields
<1>2. \A p \in Peer : in'[Other(p)].output = in[Other(p)].output
  BY <1>1, TwoEnds
<1> QED BY <1>2 DEF Same, SentAll, GotAll

LEMMA SendLinks ==
  ASSUME NEW claims, IInv(claims), NEW p \in Peer, Send(p)
  PROVE  LinkStep
<1> DEFINE s == packet[p]
           t == packet'[p]
           n == Len(s)
<1>1. /\ OneMore(s, t) /\ Len(t) \in Nat /\ in' = in /\ cut' = cut
      /\ \A q \in Peer : q # p => packet'[q] = packet[q]
  BY SendStep
<1>2. n \in Nat /\ Right(s, claims, in[Other(p)])
  <2>1. Other(p) \in Peer /\ Other(Other(p)) = p
    BY TwoEnds
  <2>2. Right(packet[Other(Other(p))], claims, in[Other(p)])
    BY <2>1, OneEnd
  <2> QED BY <2>1, <2>2, OneEnd
<1>3. GotAll' = GotAll
  <2>1. in[Other(p)].output \in Seq(0..n - 1)
    BY <1>2, ReceiverFields DEF Right
  <2>2. Extends(s, t)
    BY <1>1 DEF OneMore
  <2>3. GotOf(t, OrderedKinds, in[Other(p)].output) = GotOf(s, OrderedKinds, in[Other(p)].output)
    BY <1>1, <1>2, <2>1, <2>2, GotStays
  <2>4. \A q \in Peer : GotOf(packet'[q], OrderedKinds, in'[Other(q)].output)
                          = GotOf(packet[q], OrderedKinds, in[Other(q)].output)
    BY <1>1, <2>3
  <2> QED BY <2>4 DEF GotAll
<1>4. n \in FirstNumbers
  <2>1. PICK l \in Loads : Len(packet[p]) + 3 * Len(load.messages[p]) <= 3 * Len(l.messages[p])
    BY DEF IInv, Fits
  <2>2. l.messages[p] \in Seq(Message) /\ load.messages[p] \in Seq(Message)
    BY LayerAssumption DEF IInv
  <2> DEFINE a == Len(load.messages[p])
             b == Len(l.messages[p])
  <2>3. a \in Nat /\ b \in Nat /\ n \in Nat /\ n + 3 * a <= 3 * b
    <3>1. n + 3 * a <= 3 * b
      BY <2>1
    <3>2. a \in Nat
      BY <2>2
    <3>3. b \in Nat
      BY <2>2
    <3> QED BY <1>2, <3>1, <3>2, <3>3
  <2> HIDE DEF a, b, n
  <2>4. n \in 0..3 * b
    BY <1>2, <2>3
  <2> DEFINE X == 0..3 * b
             S == {0..3 * Len(k.messages[q]) : k \in Loads, q \in Peer}
  <2>5. X \in S
    BY DEF b
  <2>6. FirstNumbers = UNION S
    BY DEF FirstNumbers
  <2> HIDE DEF S
  <2> QED BY <2>4, <2>5, <2>6
<1>5. SentOf(t, OrderedKinds) = SentOf(s, OrderedKinds) \/ SentOf(t, OrderedKinds) = Append(SentOf(s, OrderedKinds), n)
  BY <1>1, <1>2, SentGrows
<1>6. CASE SentOf(t, OrderedKinds) = SentOf(s, OrderedKinds)
  <2>1. \A q \in Peer : SentOf(packet'[q], OrderedKinds) = SentOf(packet[q], OrderedKinds)
    BY <1>1, <1>6
  <2>2. SentAll' = SentAll
    BY <2>1 DEF SentAll
  <2> QED BY <1>1, <1>3, <2>2 DEF LinkStep, Same
<1>7. CASE SentOf(t, OrderedKinds) = Append(SentOf(s, OrderedKinds), n)
  <2>1. \A q \in Peer : SentOf(packet'[q], OrderedKinds)
                          = IF q = p THEN Append(SentOf(s, OrderedKinds), n) ELSE SentOf(packet[q], OrderedKinds)
    BY <1>1, <1>7
  <2>2. SentAll' = [SentAll EXCEPT ![p] = Append(SentAll[p], n)]
    BY <2>1 DEF SentAll
  <2> QED BY <1>1, <1>3, <1>4, <2>2 DEF LinkStep, MoreSent
<1> QED BY <1>5, <1>6, <1>7

LEMMA Prefix ==
  ASSUME NEW M, NEW g \in Seq(M), NEW s \in Seq(M), Extends(g, s)
  PROVE  g = SubSeq(s, 1, Len(g))
<1>1. Len(g) \in Nat /\ Len(s) \in Nat /\ Len(g) <= Len(s) /\ \A k \in 1..Len(g) : s[k] = g[k]
  BY DEF Extends
<1> DEFINE u == SubSeq(s, 1, Len(g))
<1>2. u \in Seq(M) /\ Len(u) = Len(g) /\ \A k \in 1..Len(g) : u[k] = g[k]
  BY <1>1
<1> HIDE DEF u
<1>3. g = u
  BY <1>2
<1> QED BY <1>3 DEF u

LEMMA HandleLinks ==
  ASSUME NEW claims, "ordered" \in claims, IInv(claims), IInv(claims)', NEW q \in Peer, Handles(q, claims),
         packet' = packet, cut' = cut
  PROVE  LinkStep
<1> DEFINE p == Other(q)
           sent == SentOf(packet[p], OrderedKinds)
           got  == GotOf(packet[p], OrderedKinds, in[q].output)
           got2 == GotOf(packet[p], OrderedKinds, in'[q].output)
           N == 0..Len(packet[p]) - 1
<1>1. p \in Peer /\ Other(p) = q /\ q # p /\ \A r \in Peer : r = q \/ r = p
  BY TwoEnds
<1>2. Right(packet[p], claims, in[q]) /\ Right(packet[p], claims, in'[q])
  <2>1. Right(packet[p], claims, in[q])
    BY OneEnd
  <2>2. End(claims, packet'[q], packet'[p], out'[q], in'[q], net'[q])
    BY DEF IInv
  <2> QED BY <2>1, <2>2 DEF End
<1>3. Extends(got, sent) /\ Extends(got2, sent)
  BY <1>2 DEF Right, InOrder
<1>4. got \in Seq(N) /\ got2 \in Seq(N) /\ sent \in Seq(N)
  <2>1. in[q].output \in Seq(N) /\ in'[q].output \in Seq(N)
    BY <1>2, ReceiverFields DEF Right
  <2>2. Len(packet[p]) \in Nat
    BY <1>1, OneEnd
  <2>3. got \in Seq(N) /\ got2 \in Seq(N)
    BY <2>1, OnlyElements DEF GotOf
  <2> QED BY <2>2, <2>3, SentElements
<1>5. Len(got) <= Len(got2) /\ ~cut /\ in'[p] = in[p]
  BY DEF Handles, Had, HasGot
<1>6. SentAll' = SentAll /\ SentAll[p] = sent /\ GotAll[p] = got
  BY <1>1 DEF SentAll, GotAll
<1>7. GotAll' = [GotAll EXCEPT ![p] = got2]
  <2>1. \A r \in Peer : GotOf(packet'[r], OrderedKinds, in'[Other(r)].output)
                          = IF r = p THEN got2 ELSE GotOf(packet[r], OrderedKinds, in[Other(r)].output)
    <3> TAKE r \in Peer
    <3>1. CASE r = p
      BY <1>1, <3>1
    <3>2. CASE r # p
      <4>1. Other(r) = p
        BY <1>1, <3>2
      <4> QED BY <1>5, <3>2, <4>1
    <3> QED BY <3>1, <3>2
  <2> HIDE DEF got2
  <2> QED BY <2>1 DEF GotAll
<1> HIDE DEF p, sent, got, got2, N
<1>8. got = SubSeq(sent, 1, Len(got)) /\ got2 = SubSeq(sent, 1, Len(got2))
  BY <1>3, <1>4, Prefix
<1>9. Len(got) \in Nat /\ Len(got2) \in Nat /\ Len(got2) <= Len(sent)
  BY <1>3, <1>4 DEF Extends
<1>10. CASE Len(got2) = Len(got)
  <2>1. got2 = got
    BY <1>8, <1>10
  <2>2. GotAll' = GotAll
    BY <1>6, <1>7, <2>1 DEF GotAll
  <2> QED BY <1>6, <2>2 DEF LinkStep, Same
<1>11. CASE Len(got2) # Len(got)
  <2>1. Len(got2) \in Len(GotAll[p]) + 1..Len(SentAll[p])
    <3>1. Len(got2) \in Len(got) + 1..Len(sent)
      <4>1. Len(sent) \in Nat
        BY <1>4
      <4> QED BY <1>5, <1>9, <1>11, <4>1
    <3> QED BY <1>6, <3>1
  <2>2. GotAll' = [GotAll EXCEPT ![p] = SubSeq(SentAll[p], 1, Len(got2))]
    BY <1>6, <1>7, <1>8
  <2> QED BY <1>1, <1>5, <1>6, <2>1, <2>2 DEF LinkStep, MoreGot
<1> QED BY <1>10, <1>11

LEMMA StepLinks ==
  ASSUME IInv({"ordered"}), OrderedInTime, [Next]_vars
  PROVE  LinkStep
<1> DEFINE claims == {"ordered"}
<1>1. IInv(claims) /\ InTime(claims) /\ "ordered" \in claims
  BY DEF InTime
<1> HIDE DEF claims
<1>2. ASSUME NEW p \in Peer, Send(p) PROVE LinkStep
  BY <1>1, <1>2, SendLinks
<1>3. ASSUME NEW p \in Peer, Update(p) PROVE LinkStep
  <2>1. packet' = packet /\ cut' = cut
    BY <1>3 DEF Update
  <2> QED BY <1>1, <1>3, <2>1, UpdateStep, SameMessages DEF LinkStep
<1>4. ASSUME NEW p \in Peer, Deliver(p) PROVE LinkStep
  <2>1. packet' = packet /\ cut' = cut
    BY <1>4 DEF Deliver
  <2> QED BY <1>1, <1>4, <2>1, DeliverStep, HandleLinks
<1>5. ASSUME NEW p \in Peer, DeliverCopy(p) PROVE LinkStep
  <2>1. packet' = packet /\ cut' = cut
    BY <1>5 DEF DeliverCopy
  <2> QED BY <1>1, <1>5, <2>1, DeliverCopyStep, HandleLinks
<1>6. ASSUME NEW p \in Peer, Lose(p) PROVE LinkStep
  <2>1. packet' = packet /\ cut' = cut /\ in' = in
    BY <1>6 DEF Lose
  <2> QED BY <2>1, SameMessages DEF LinkStep
<1>7. CASE Cut
  <2>1. packet' = packet /\ cut' = TRUE /\ in' = in
    BY <1>7 DEF Cut
  <2> QED BY <2>1, SameMessages DEF LinkStep
<1>8. CASE Tick
  <2>1. packet' = packet /\ cut' = cut
    BY <1>8 DEF Tick
  <2> QED BY <1>1, <1>8, <2>1, TickStep, SameMessages DEF LinkStep
<1>9. CASE UNCHANGED vars
  <2>1. packet' = packet /\ cut' = cut /\ in' = in
    BY <1>9 DEF vars
  <2> QED BY <2>1, SameMessages DEF LinkStep
<1> QED BY <1>2, <1>3, <1>4, <1>5, <1>6, <1>7, <1>8, <1>9 DEF Next

Mapped ==
  /\ [p \in Peer |-> Messages(p, Ordered)] = SentAll
  /\ [p \in Peer |-> Output(Other(p), Ordered)] = GotAll

LEMMA AlwaysMapped == Mapped /\ Mapped'
<1>1. Mapped
  BY LinkVariables DEF Mapped
<1> QED BY <1>1, PTL

LEMMA LinkImplements ==
  ASSUME LinkStep
  PROVE  [Link!Next]_(Link!linkVars)
<1>1. /\ [p \in Peer |-> Messages(p, Ordered)] = SentAll
      /\ [p \in Peer |-> Output(Other(p), Ordered)] = GotAll
  BY AlwaysMapped DEF Mapped
<1>2. /\ [p \in Peer |-> Messages(p, Ordered)]' = SentAll'
      /\ [p \in Peer |-> Output(Other(p), Ordered)]' = GotAll'
  BY AlwaysMapped DEF Mapped
<1>3. CASE MoreSent
  <2>1. \E p \in Peer : Link!Send(p)
    BY <1>1, <1>2, <1>3 DEF MoreSent, Link!Send
  <2> QED BY <2>1 DEF Link!Next
<1>4. CASE MoreGot
  <2>1. PICK p \in Peer : \E n \in Len(GotAll[p]) + 1..Len(SentAll[p]) :
                             GotAll' = [GotAll EXCEPT ![p] = SubSeq(SentAll[p], 1, n)]
    BY <1>4 DEF MoreGot
  <2>2. ~cut /\ SentAll' = SentAll /\ cut' = cut
    BY <1>4 DEF MoreGot
  <2>3. Link!Arrive(p)
    BY <1>1, <1>2, <2>1, <2>2 DEF Link!Arrive
  <2> QED BY <2>3 DEF Link!Next
<1>5. CASE Same /\ cut' = cut
  BY <1>1, <1>2, <1>5 DEF Same, Link!linkVars
<1>6. CASE Same /\ cut' = TRUE
  <2>1. Link!Break
    BY <1>1, <1>2, <1>6 DEF Same, Link!Break
  <2> QED BY <2>1 DEF Link!Next
<1> QED BY <1>3, <1>4, <1>5, <1>6 DEF LinkStep

(* What is sent RELIABLE_ORDERED arrives as OrderedLink promises: once, in the *)
(* order in which it was sent, nothing left out, and nothing after a cut;      *)
(* whatever is lost, copied, reordered or put together, as long as no ordered  *)
(* message is 255 places (for an index of one byte) from another that is on    *)
(* its way or waits in the orderingList, or from the last that came out of it. *)
THEOREM LinkIsOrdered ==
  Spec /\ []OrderedInTime => Link!Init /\ [][Link!Next]_(Link!linkVars)
<1>1. Init => IInv({"ordered"})
  BY InitIInv
<1>2. IInv({"ordered"}) /\ OrderedInTime /\ [Next]_vars => IInv({"ordered"})'
  BY Step DEF InTime
<1>3. Init => Link!Init
  <2> SUFFICES ASSUME Init PROVE Link!Init
    OBVIOUS
  <2>1. \A p \in Peer : packet[p] = <<>> /\ in[p].output = <<>>
    BY DEF Init
  <2>2. \A p \in Peer : in[Other(p)].output = <<>>
    BY <2>1, TwoEnds
  <2>3. SentAll = [p \in Peer |-> <<>>]
    BY <2>1, NothingSent DEF SentAll
  <2>4. GotAll = [p \in Peer |-> <<>>]
    <3>1. \A S : Only(<<>>, S) = <<>>
      BY OnlyNone
    <3> QED BY <2>2, <3>1 DEF GotAll, GotOf
  <2>5. cut = FALSE
    BY DEF Init
  <2> QED BY <2>3, <2>4, <2>5, LinkVariables DEF Link!Init
<1>4. IInv({"ordered"}) /\ OrderedInTime /\ [Next]_vars => [Link!Next]_(Link!linkVars)
  BY StepLinks, LinkImplements
<1> QED BY <1>1, <1>2, <1>3, <1>4, PTL DEF Spec
-----------------------------------------------------------------------------
(* What a sender keeps: a packet waits in the queue of its priority, or in the *)
(* resend queue.                                                               *)
Holds(o, pr, n) ==
  \/ \E k \in DOMAIN o.queue[pr] : o.queue[pr][k] = n
  \/ \E k \in DOMAIN o.resend : o.resend[k].number = n

LEMMA WaitingHas ==
  ASSUME NEW N, NEW s \in Seq(N)
  PROVE  Waiting(s) \in Seq(Timer(N)) /\ Len(Waiting(s)) = Len(s) /\ \A k \in 1..Len(s) : Waiting(s)[k].number = s[k]
<1>1. Waiting(s) = [k \in 1..Len(s) |-> [number |-> s[k], wait |-> ResendDelay]] /\ Len(s) \in Nat
  BY DEF Waiting
<1> QED BY <1>1, WaitingTimers

PicksAll(M, s, S, t) ==
  /\ t \in Seq(M) /\ \A k \in 1..Len(t) : t[k] \in S
  /\ \A k \in 1..Len(s) : s[k] \in S => \E j \in 1..Len(t) : t[j] = s[k]

LEMMA Picked ==
  ASSUME NEW M, NEW s \in Seq(M), NEW S
  PROVE  PicksAll(M, s, S, Only(s, S))
BY OnlyElements DEF PicksAll

(* A resend queue with more at its end, or fewer at its front.                 *)
Queued(a, s, r) ==
  /\ \A k \in 1..Len(a) : k \in DOMAIN r /\ r[k] = a[k]
  /\ \A k \in 1..Len(s) : Len(a) + k \in DOMAIN r /\ r[Len(a) + k].number = s[k]

LEMMA QueueHas ==
  ASSUME NEW N, NEW a \in Seq(Timer(N)), NEW s \in Seq(N)
  PROVE  Queued(a, s, a \o Waiting(s))
<1> DEFINE b == Waiting(s)
           r == a \o b
<1>1. b \in Seq(Timer(N)) /\ Len(b) = Len(s) /\ \A k \in 1..Len(s) : b[k].number = s[k]
  BY WaitingHas
<1>2. /\ r \in Seq(Timer(N)) /\ Len(r) = Len(a) + Len(b)
      /\ \A k \in 1..Len(a) : r[k] = a[k]
      /\ \A k \in 1..Len(b) : r[Len(a) + k] = b[k]
  <2> DEFINE M == Timer(N)
  <2>1. a \in Seq(M) /\ b \in Seq(M) /\ r = a \o b
    BY <1>1
  <2> HIDE DEF M, b, r
  <2>2. /\ a \o b \in Seq(M) /\ Len(a \o b) = Len(a) + Len(b)
        /\ \A k \in 1..Len(a) : (a \o b)[k] = a[k]
        /\ \A k \in 1..Len(b) : (a \o b)[Len(a) + k] = b[k]
    BY <2>1, ConcatElements
  <2> QED BY <2>1, <2>2 DEF M
<1> HIDE DEF b
<1> HIDE DEF r
<1>3. DOMAIN r = 1..Len(a) + Len(b) /\ Len(a) \in Nat /\ Len(b) \in Nat
  BY <1>1, <1>2
<1>4. Queued(a, s, r)
  <2>1. \A k \in 1..Len(a) : k \in DOMAIN r /\ r[k] = a[k]
    BY <1>2, <1>3
  <2>2. ASSUME NEW k \in 1..Len(s)
        PROVE  Len(a) + k \in DOMAIN r /\ r[Len(a) + k].number = s[k]
    <3>1. k \in 1..Len(b) /\ Len(a) + k \in 1..Len(a) + Len(b)
      BY <1>1, <1>3
    <3>2. r[Len(a) + k] = b[k]
      BY <1>2, <3>1
    <3> QED BY <1>1, <1>3, <3>1, <3>2
  <2> QED BY <2>1, <2>2 DEF Queued
<1> QED BY <1>4 DEF r, b

LEMMA ResendHolds ==
  ASSUME NEW V, NEW N \in SUBSET Nat, NEW o \in Sender(N, V), NEW m \in 0..Len(o.resend), NEW pr,
         NEW n \in N, Holds(o, pr, n)
  PROVE  Holds(ResendFirst(o, m).out, pr, n)
<1> DEFINE s == o.resend
           before == NumbersOf(o, m)
           lost == ResendPackets(o, m)
           rest == SubSeq(s, m + 1, Len(s))
           new  == rest \o Waiting(lost)
           ack  == IF lost # <<>> THEN Started(o.lastAck) ELSE o.lastAck
           o1   == [o EXCEPT !.resend = new, !.lastAck = ack]
           out1 == ResendFirst(o, m).out
<1>1. s \in Seq(Timer(N)) /\ Len(s) \in Nat /\ m \in Nat /\ m <= Len(s)
  BY SenderFields
<1>2. out1 = IF lost # <<>> THEN UpdatePacketloss(o1) ELSE o1
  BY DEF ResendFirst, Resent, lost
<1>3. o1.queue = o.queue /\ o1.resend = new
  BY DEF Sender
<1>4. out1.queue = o.queue /\ out1.resend = new
  <2> HIDE DEF o1, lost, new
  <2>1. UpdatePacketloss(o1).queue = o1.queue /\ UpdatePacketloss(o1).resend = o1.resend
    BY DEF UpdatePacketloss
  <2> QED BY <1>2, <1>3, <2>1
<1>5. before \in Seq(N \cup {None}) /\ Len(before) = m /\ \A k \in 1..m : before[k] = s[k].number
  <2>1. before = [k \in 1..m |-> s[k].number]
    BY DEF NumbersOf
  <2>2. \A k \in 1..m : s[k].number \in N \cup {None}
    <3> HIDE DEF s
    <3>1. \A k \in 1..m : s[k] \in Timer(N)
      BY <1>1
    <3> QED BY <3>1 DEF Timer
  <2>3. before \in [1..m -> N \cup {None}]
    BY <2>1, <2>2
  <2> QED BY <1>1, <2>1, <2>3
<1>6. /\ lost \in Seq(N)
      /\ \A k \in 1..m : s[k].number = n => \E j \in 1..Len(lost) : lost[j] = n
  <2> HIDE DEF before
  <2>1. lost = Only(before, Nat)
    BY DEF ResendPackets, before
  <2> HIDE DEF lost
  <2>2. /\ lost \in Seq(N \cup {None}) /\ \A k \in 1..Len(lost) : lost[k] \in Nat
        /\ \A k \in 1..Len(before) : before[k] \in Nat => \E j \in 1..Len(lost) : lost[j] = before[k]
    <3>1. PicksAll(N \cup {None}, before, Nat, Only(before, Nat))
      BY <1>5, Picked
    <3> QED BY <2>1, <3>1 DEF PicksAll
  <2> HIDE DEF lost, s
  <2>3. \A k \in 1..Len(lost) : lost[k] \in N
    BY <2>2 DEF None
  <2>4. lost \in Seq(N)
    <3>1. Len(lost) \in Nat /\ lost = [k \in 1..Len(lost) |-> lost[k]]
      BY <2>2
    <3> QED BY <2>3, <3>1
  <2>5. n \in Nat
    BY SMTT(30)
  <2> QED BY <1>5, <2>2, <2>4, <2>5
<1>7. /\ rest \in Seq(Timer(N)) /\ Len(rest) = Len(s) - m
      /\ \A k \in 1..Len(s) - m : rest[k] = s[m + k]
  <2> HIDE DEF s
  <2>1. m + 1 \in Nat \ {0} /\ Len(s) \in 0..Len(s) /\ m + 1 <= Len(s) + 1 /\ Len(s) - (m + 1) + 1 = Len(s) - m
    BY <1>1, SMTT(30)
  <2>2. /\ SubSeq(s, m + 1, Len(s)) \in Seq(Timer(N))
        /\ Len(SubSeq(s, m + 1, Len(s))) = Len(s) - (m + 1) + 1
        /\ \A k \in 1..Len(s) - (m + 1) + 1 : SubSeq(s, m + 1, Len(s))[k] = s[(m + 1) + k - 1]
    BY <1>1, <2>1, SubSeqElements, ZenonT(30)
  <2>3. \A k \in 1..Len(s) - m : (m + 1) + k - 1 = m + k
    BY <1>1
  <2> QED BY <2>1, <2>2, <2>3, ZenonT(30)
<1> HIDE DEF lost, rest
<1>8. /\ \A k \in 1..Len(rest) : k \in DOMAIN new /\ new[k] = rest[k]
      /\ \A k \in 1..Len(lost) : Len(rest) + k \in DOMAIN new /\ new[Len(rest) + k].number = lost[k]
  <2>1. Queued(rest, lost, new)
    BY <1>6, <1>7, QueueHas
  <2> HIDE DEF new
  <2> QED BY <2>1 DEF Queued
<1> HIDE DEF new
<1>9. CASE \E k \in DOMAIN o.queue[pr] : o.queue[pr][k] = n
  BY <1>4, <1>9 DEF Holds
<1>10. CASE \E k \in DOMAIN s : s[k].number = n
  <2>1. PICK k \in 1..Len(s) : s[k].number = n
    BY <1>1, <1>10
  <2>2. \E j \in DOMAIN new : new[j].number = n
    <3> HIDE DEF s
    <3>1. CASE k <= m
      <4>1. k \in 1..m
        BY <1>1, <3>1
      <4> QED BY <1>6, <1>8, <2>1, <4>1
    <3>2. CASE ~(k <= m)
      <4>1. k - m \in 1..Len(s) - m /\ m + (k - m) = k
        BY <1>1, <3>2
      <4>2. k - m \in DOMAIN new /\ new[k - m] = s[k]
        BY <1>7, <1>8, <4>1
      <4> QED BY <2>1, <4>2
    <3> QED BY <3>1, <3>2
  <2> QED BY <1>4, <2>2 DEF Holds
<1> QED BY <1>9, <1>10 DEF Holds

LEMMA ResendAllHolds ==
  ASSUME NEW V, NEW p, NEW N \in SUBSET Nat, NEW o \in Sender(N, V), NEW pr, NEW n \in N, Holds(o, pr, n)
  PROVE  Holds(Resend(p, o).out, pr, n)
<1> DEFINE l == Len(o.resend)
           S == {m \in 0..l : \A i \in 1..m :
                   /\ IsDone(o.resend[i]) \/ Due(o.resend[i])
                   /\ Weight(p, NumbersOf(o, i)) <= FrameSize}
<1>1. l \in Nat
  BY SenderFields
<1>2. Resend(p, o) = ResendFirst(o, Max(S))
  BY DEF Resend, Leading
<1>3. S \in SUBSET (0..l) /\ 0 \in S
  BY <1>1
<1> HIDE DEF S
<1>4. Max(S) \in S
  BY <1>1, <1>3, LargestCount
<1>5. Max(S) \in 0..l
  BY <1>3, <1>4, ZenonT(30)
<1> QED BY <1>2, <1>5, ResendHolds

(* A reliable packet that goes out is kept for a resend.                       *)
LEMMA TakeWaitingHolds ==
  ASSUME NEW V, NEW p, NEW r \in Filling(Numbers(p), V), NEW i \in Priority, NEW m \in 0..Len(r.out.queue[i]),
         NEW now, now = SubSeq(r.out.queue[i], 1, m), NEW pr \in Priority, NEW n \in Numbers(p), Reliable(packet[p][n + 1].kind),
         Holds(r.out, pr, n)
  PROVE  Holds(TakeWaiting(p, r, i, now).out, pr, n)
<1> DEFINE N == Numbers(p)
           o == r.out
           q == o.queue[i]
           kept == Only(now, {k \in Numbers(p): Reliable(packet[p][k + 1].kind)})
           sub == SubSeq(q, Len(now) + 1, Len(q))
           re == o.resend \o Waiting(kept)
           ack == IF kept # <<>> THEN 0 ELSE o.lastAck
           o1 == [o EXCEPT !.queue[i] = sub, !.resend = re, !.lastAck = ack]
           both == r.packets \o now
<1>1. o \in Sender(N, V) /\ r.packets \in Seq(N)
  BY FillingFields
<1>2. o.queue \in [Priority -> Seq(N)] /\ q \in Seq(N) /\ o.resend \in Seq(Timer(N)) /\ Len(q) \in Nat
  BY <1>1, SenderFields
<1>3. TakeWaiting(p, r, i, now) = [r EXCEPT !.packets = both, !.out = o1]
  BY DEF TakeWaiting
<1>4. TakeWaiting(p, r, i, now).out = o1
  <2> HIDE DEF o1, both
  <2> QED BY <1>3 DEF Filling
<1>5. o1.resend = re /\ o1.queue = [o.queue EXCEPT ![i] = sub]
  <2> HIDE DEF re, sub, ack
  <2>1. o \in Sender(N, V)
    BY <1>1
  <2> HIDE DEF o
  <2> QED BY <2>1 DEF Sender
<1>6. now \in Seq(N) /\ Len(now) = m /\ \A k \in 1..m : now[k] = q[k]
  <2> HIDE DEF q, N
  <2>1. m \in Nat /\ m <= Len(q)
    BY <1>2 DEF q
  <2> QED BY <1>2, <2>1 DEF q
<1>7. /\ kept \in Seq(N)
      /\ \A k \in 1..m : q[k] = n => \E j \in 1..Len(kept) : kept[j] = n
  <2> DEFINE K == {k \in Numbers(p): Reliable(packet[p][k + 1].kind)}
  <2>1. n \in K
    OBVIOUS
  <2>2. kept = Only(now, K)
    OBVIOUS
  <2>3. now \in Seq(N)
    BY <1>6
  <2> HIDE DEF K, kept, N, q
  <2>4. /\ kept \in Seq(N)
        /\ \A k \in 1..Len(now) : now[k] \in K => \E j \in 1..Len(kept) : kept[j] = now[k]
    <3>1. PicksAll(N, now, K, Only(now, K))
      BY <2>3, Picked
    <3> QED BY <2>2, <3>1 DEF PicksAll
  <2> QED BY <1>6, <2>1, <2>4
<1> HIDE DEF kept
<1>8. /\ \A k \in 1..Len(o.resend) : k \in DOMAIN re /\ re[k] = o.resend[k]
      /\ \A k \in 1..Len(kept) : Len(o.resend) + k \in DOMAIN re /\ re[Len(o.resend) + k].number = kept[k]
  <2> DEFINE a == o.resend
  <2>1. a \in Seq(Timer(N)) /\ kept \in Seq(N)
    BY <1>2, <1>7
  <2> HIDE DEF a, N
  <2>2. Queued(a, kept, a \o Waiting(kept))
    BY <2>1, QueueHas
  <2>3. Queued(a, kept, re)
    BY <2>2, SMTT(30) DEF a
  <2> HIDE DEF re
  <2> QED BY <2>3 DEF Queued, a
<1>9. sub \in Seq(N) /\ Len(sub) = Len(q) - m /\ \A k \in 1..Len(q) - m : sub[k] = q[m + k]
  <2> HIDE DEF q, N
  <2>1. m + 1 \in Nat \ {0} /\ Len(q) \in 0..Len(q) /\ m + 1 <= Len(q) + 1 /\ Len(q) - (m + 1) + 1 = Len(q) - m
    BY <1>2, SMTT(30) DEF q
  <2>2. /\ SubSeq(q, m + 1, Len(q)) \in Seq(N)
        /\ Len(SubSeq(q, m + 1, Len(q))) = Len(q) - (m + 1) + 1
        /\ \A k \in 1..Len(q) - (m + 1) + 1 : SubSeq(q, m + 1, Len(q))[k] = q[(m + 1) + k - 1]
    BY <1>2, <2>1, SubSeqElements, ZenonT(30)
  <2>3. \A k \in 1..Len(q) - m : (m + 1) + k - 1 = m + k
    BY <1>2 DEF q
  <2> QED BY <1>6, <2>1, <2>2, <2>3, ZenonT(30)
<1> HIDE DEF re, sub, ack, both, o1
<1>10. CASE \E k \in DOMAIN o.resend : o.resend[k].number = n
  <2>1. PICK k \in 1..Len(o.resend) : o.resend[k].number = n
    BY <1>2, <1>10
  <2> QED BY <1>4, <1>5, <1>8, <2>1 DEF Holds
<1>11. CASE \E k \in DOMAIN o.queue[pr] : o.queue[pr][k] = n
  <2>1. CASE pr # i
    <3>1. o1.queue[pr] = o.queue[pr]
      BY <1>2, <1>5, <2>1
    <3> QED BY <1>4, <1>11, <3>1 DEF Holds
  <2>2. CASE pr = i
    <3>1. PICK k \in 1..Len(q) : q[k] = n
      BY <1>2, <1>11, <2>2
    <3>2. o1.queue[pr] = sub
      BY <1>2, <1>5, <2>2, SMTT(30)
    <3> HIDE DEF q
    <3>3. CASE k <= m
      <4>1. k \in 1..m
        BY <3>3
      <4>2. PICK j \in 1..Len(kept) : kept[j] = n
        BY <1>7, <3>1, <4>1
      <4> QED BY <1>4, <1>5, <1>8, <4>2 DEF Holds
    <3>4. CASE ~(k <= m)
      <4>1. k - m \in 1..Len(q) - m /\ m + (k - m) = k
        BY <1>2, <3>4 DEF q
      <4>2. k - m \in DOMAIN sub /\ sub[k - m] = n
        BY <1>9, <3>1, <4>1
      <4> QED BY <1>4, <3>2, <4>2 DEF Holds
    <3> QED BY <3>3, <3>4
  <2> QED BY <2>1, <2>2
<1> QED BY <1>10, <1>11, ZenonT(30) DEF Holds

LEMMA FillFromHolds ==
  ASSUME NEW V, NEW p, NEW r \in Filling(Numbers(p), V), NEW i \in Priority, NEW pr \in Priority,
         NEW n \in Numbers(p), Reliable(packet[p][n + 1].kind), Holds(r.out, pr, n)
  PROVE  Holds(FillFrom(p, r, i).out, pr, n)
<1> DEFINE q == r.out.queue[i]
           S == {m \in 0..Len(q) : \A k \in 1..m :
                   Weight(p, r.packets \o SubSeq(q, 1, k)) <= FrameSize}
           m == Max(S)
<1>1. q \in Seq(Numbers(p)) /\ Len(q) \in Nat
  BY FillingFields, SenderFields
<1>2. FillFrom(p, r, i) = TakeWaiting(p, r, i, SubSeq(q, 1, m))
  BY DEF FillFrom, Leading
<1>3. S \in SUBSET (0..Len(q)) /\ 0 \in S
  BY <1>1
<1> HIDE DEF S
<1>4. m \in 0..Len(q)
  <2>1. m \in S
    BY <1>1, <1>3, LargestCount
  <2> QED BY <1>3, <2>1
<1> HIDE DEF m
<1> QED BY <1>2, <1>4, TakeWaitingHolds

LEMMA FillHolds ==
  ASSUME NEW V, NEW p, NEW r \in Filling(Numbers(p), V), NEW pr \in Priority,
         NEW n \in Numbers(p), Reliable(packet[p][n + 1].kind), Holds(r.out, pr, n)
  PROVE  Holds(Fill(p, r).out, pr, n)
<1> DEFINE S == {x \in Filling(Numbers(p), V) : Holds(x.out, pr, n)}
<1>1. r \in S /\ [r EXCEPT !.full = TRUE] \in S
  <2>1. [r EXCEPT !.full = TRUE] \in Filling(Numbers(p), V) /\ [r EXCEPT !.full = TRUE].out = r.out
    BY DEF Filling
  <2> QED BY <2>1
<1>2. \A x \in S : \A i \in Priority : FillFrom(p, x, i) \in S
  BY FillFromTyped, FillFromHolds
<1>3. \A x \in S : Holds(x.out, pr, n)
  OBVIOUS
<1> HIDE DEF S
<1>4. Fill(p, r) \in S
  BY <1>1, <1>2, FillStays
<1> QED BY <1>3, <1>4

LEMMA NextFrameHolds ==
  ASSUME NEW V, NEW p, Numbers(p) \in SUBSET Nat, NEW A, NEW s \in Frames(Numbers(p), V, A), NEW pr \in Priority,
         NEW n \in Numbers(p), Reliable(packet[p][n + 1].kind), Holds(s.out, pr, n)
  PROVE  Holds(NextFrame(p, s).out, pr, n)
<1> DEFINE N == Numbers(p)
           r == Resend(p, s.out)
           f == Fill(p, r)
           g == GenerateFrame(p, s)
<1>1. s.out \in Sender(N, V)
  BY DEF Frames
<1>2. r \in Filling(N, V) /\ Holds(r.out, pr, n)
  BY <1>1, ResendAllTyped, ResendAllHolds
<1> HIDE DEF r
<1>3. Holds(f.out, pr, n)
  BY <1>2, FillHolds
<1>4. g.out = f.out
  BY DEF GenerateFrame, Frame, r
<1> HIDE DEF g, f
<1>5. NextFrame(p, s) = [s EXCEPT !.more = FALSE] \/ NextFrame(p, s).out = g.out
  BY DEF NextFrame, Sending, g
<1>6. [s EXCEPT !.more = FALSE].out = s.out
  BY DEF Frames
<1> QED BY <1>3, <1>4, <1>5, <1>6

(* Whatever an end sends, it keeps what is reliable.                           *)
LEMMA UpdatedHolds ==
  ASSUME NEW V, NEW p, Len(packet[p]) \in Nat, NEW A, out[p] \in Sender(Numbers(p), V), in[p].acks \in Seq(Ack(A)),
         NEW pr \in Priority, NEW n \in Numbers(p), Reliable(packet[p][n + 1].kind), Holds(out[p], pr, n)
  PROVE  Holds(Updated(p).out, pr, n)
<1> DEFINE v == [out |-> out[p], acks |-> in[p].acks, more |-> TRUE, sent |-> <<>>]
           S == {x \in Frames(Numbers(p), V, A) : Holds(x.out, pr, n)}
<1>1. v \in S
  <2>1. v \in Frames(Numbers(p), V, A) /\ v.out = out[p]
    BY DEF Frames
  <2> QED BY <2>1
<1>2. \A x \in S : NextFrame(p, x) \in S
  <2>1. Numbers(p) \in SUBSET Nat
    BY DEF Numbers
  <2> QED BY <2>1, NextFrameTyped, NextFrameHolds
<1>3. \A x \in S : Holds(x.out, pr, n)
  OBVIOUS
<1> HIDE DEF S
<1>4. Updated(p) \in S
  BY <1>1, <1>2, UpdatedStays
<1> QED BY <1>3, <1>4

(* An acknowledgement takes no other packet out of the resend queue, but for   *)
(* sequenced ones.                                                             *)
LEMMA AcknowledgeHolds ==
  ASSUME NEW V, NEW p, NEW N \in SUBSET Nat, NEW o \in Sender(N, V), NEW a, NEW pr, NEW n \in N, n # a,
         packet[p][n + 1].kind # "RELIABLE_SEQUENCED", Holds(o, pr, n)
  PROVE  Holds(Acknowledge(p, o, a), pr, n)
<1> DEFINE s == o.resend
           pos == {i \in DOMAIN s : s[i].number = a}
           Superfluous(k) ==
             /\ packet[p][a + 1].kind = "RELIABLE_SEQUENCED"
             /\ k # None
             /\ packet[p][k + 1].kind = "RELIABLE_SEQUENCED"
             /\ IsOlderOrderedPacket(packet[p][k + 1].index, packet[p][a + 1].index)
           rest == IF pos = {1} THEN Tail(s) ELSE [i \in DOMAIN s |-> IF i \in pos THEN Hole ELSE s[i]]
           time == IF s = <<>> THEN None ELSE 0
           o1 == [o EXCEPT !.lastAck = time]
           new == [i \in DOMAIN rest |-> IF Superfluous(rest[i].number) THEN Hole ELSE rest[i]]
           o2 == [o1 EXCEPT !.resend = new]
           ack == Acknowledge(p, o, a)
<1>1. ack = IF pos = {} THEN o1 ELSE o2
  BY DEF Acknowledge
<1>2. s \in Seq(Timer(N)) /\ Len(s) \in Nat /\ DOMAIN s = 1..Len(s)
  BY SenderFields
<1>3. o1.queue = o.queue /\ o1.resend = s /\ o2.queue = o.queue /\ o2.resend = new
  <2> HIDE DEF time, new, s
  <2>1. o1.queue = o.queue /\ o1.resend = o.resend /\ DOMAIN o1 = DOMAIN o /\ "resend" \in DOMAIN o1
    BY DEF Sender
  <2> HIDE DEF o1
  <2>2. o2.queue = o1.queue /\ o2.resend = new
    BY <2>1, SMTT(30)
  <2> QED BY <2>1, <2>2 DEF s
<1> HIDE DEF o1, o2, time, ack
<1>4. ack.queue = o.queue
  BY <1>1, <1>3, ZenonT(30)
<1>5. CASE \E k \in DOMAIN o.queue[pr] : o.queue[pr][k] = n
  BY <1>4, <1>5 DEF Holds, ack
<1>6. CASE \E k \in DOMAIN s : s[k].number = n
  <2>1. PICK k \in 1..Len(s) : s[k].number = n
    BY <1>2, <1>6
  <2>2. k \notin pos
    BY <2>1
  <2>3. ~Superfluous(n)
    OBVIOUS
  <2>4. \E j \in DOMAIN rest : rest[j] = s[k]
    <3> HIDE DEF s, pos
    <3>1. CASE pos = {1}
      <4>1. s # <<>> /\ k - 1 \in 1..Len(s) - 1
        BY <1>2, <2>2, <3>1
      <4>2. Len(Tail(s)) = Len(s) - 1 /\ Tail(s)[k - 1] = s[k] /\ DOMAIN Tail(s) = 1..Len(s) - 1
        BY <1>2, <4>1
      <4> QED BY <3>1, <4>1, <4>2
    <3>2. CASE pos # {1}
      BY <1>2, <2>2, <3>2
    <3> QED BY <3>1, <3>2
  <2> HIDE DEF rest, Superfluous, pos
  <2>5. \E j \in DOMAIN new : new[j].number = n
    BY <2>1, <2>3, <2>4
  <2>6. \E j \in DOMAIN ack.resend : ack.resend[j].number = n
    <3> HIDE DEF new
    <3>1. ack.resend = s \/ ack.resend = new
      BY <1>1, <1>3
    <3> QED BY <1>2, <2>1, <2>5, <3>1
  <2> QED BY <2>6 DEF Holds, ack
<1> QED BY <1>5, <1>6 DEF Holds

LEMMA AcknowledgedHolds ==
  ASSUME NEW V, NEW p, NEW N \in SUBSET Nat, NEW o \in Sender(N, V), NEW A, NEW acks \in Seq(A), NEW pr, NEW n \in N,
         packet[p][n + 1].kind # "RELIABLE_SEQUENCED", Holds(o, pr, n)
  PROVE  n \in A \/ Holds(Acknowledged(p, o, acks), pr, n)
<1> SUFFICES ASSUME n \notin A PROVE Holds(Acknowledged(p, o, acks), pr, n)
  OBVIOUS
<1> DEFINE S == {x \in Sender(N, V) : Holds(x, pr, n)}
<1>1. o \in S /\ Len(acks) \in Nat
  OBVIOUS
<1>2. ASSUME NEW x \in S, NEW k \in 1..Len(acks)
      PROVE  Acknowledge(p, x, acks[k]) \in S
  <2>1. n # acks[k]
    OBVIOUS
  <2> QED BY <2>1, AcknowledgeTyped, AcknowledgeHolds
<1>3. \A x \in S : Holds(x, pr, n)
  OBVIOUS
<1> HIDE DEF S
<1>4. Acknowledged(p, o, acks) \in S
  BY <1>1, <1>2, AcknowledgedStay
<1> QED BY <1>3, <1>4

LEMMA GrowHolds ==
  ASSUME NEW V, NEW N, NEW o \in Sender(N, V), NEW a, NEW pr, NEW n, Holds(o, pr, n)
  PROVE  Holds(Grow(o, a), pr, n)
<1> DEFINE probe == o.sinceIncrease > 2 * ResendDelay
           larger == Min({o.window + 1, MaxWindow})
           since == IF probe THEN 0 ELSE o.sinceIncrease
           lossy == IF larger = MaxWindow \/ larger - o.lossyWindow > 5 THEN o.lossyWindow + 1 ELSE o.lossyWindow
           o1 == [o EXCEPT !.window = larger, !.sinceIncrease = since, !.lossyWindow = lossy]
<1>1. Grow(o, a) = o1 \/ Grow(o, a) = o
  BY DEF Grow
<1>2. o1.queue = o.queue /\ o1.resend = o.resend
  <2> HIDE DEF larger, since, lossy
  <2> QED BY DEF Sender
<1> HIDE DEF o1
<1>3. Grow(o, a).queue = o.queue /\ Grow(o, a).resend = o.resend
  BY <1>1, <1>2
<1> QED BY <1>3 DEF Holds

LEMMA TickHolds ==
  ASSUME NEW V, NEW N, NEW o \in Sender(N, V), NEW l, NEW a, NEW pr, NEW n, Holds(o, pr, n)
  PROVE  Holds([o EXCEPT !.lastAck = l, !.sinceIncrease = a, !.resend = Waited(o.resend)], pr, n)
<1> DEFINE w == Waited(o.resend)
           o1 == [o EXCEPT !.lastAck = l, !.sinceIncrease = a, !.resend = w]
<1>1. o.resend \in Seq(Timer(N)) /\ \A k \in DOMAIN o.resend : o.resend[k] \in Timer(N)
  BY SenderFields
<1>2. DOMAIN w = DOMAIN o.resend /\ \A k \in DOMAIN o.resend : w[k].number = o.resend[k].number
  BY <1>1 DEF Waited, Timer
<1> HIDE DEF w
<1>3. o1.queue = o.queue /\ o1.resend = w
  BY DEF Sender
<1> HIDE DEF o1
<1>4. Holds(o1, pr, n)
  BY <1>2, <1>3 DEF Holds
<1> QED BY <1>4 DEF o1, w

-----------------------------------------------------------------------------
(* What a receiver records: the numbers below base have been taken or are      *)
(* unreliable, a number that is marked has been taken, and no reliable one has *)
(* been missing for longer than a timeout.                                     *)
Passed(s, base, taken) == \A n \in All(s) : n < base /\ Reliable(s[n + 1].kind) => n \in taken
Marked(r, base, taken) == \A k \in 1..Len(r) : ~r[k].hole => base + k - 1 \in taken
Young(s, r, base) == \A k \in DOMAIN r : r[k].hole /\ Reliable(s[base + k].kind) => r[k].age <= Timeout
Within(s, r, base) == base >= 0 /\ base + Len(r) <= Len(s)

Recorded(s, r, base, taken) ==
  Passed(s, base, taken) /\ Marked(r, base, taken) /\ Within(s, r, base)

LEMMA RecordNext ==
  ASSUME NEW s, Len(s) \in Nat, NEW r \in Seq(Arrival), NEW b \in All(s), NEW t, Recorded(s, r, b, t), Young(s, r, b),
         NEW u, u = IF r = <<>> THEN r ELSE Tail(r)
  PROVE  Recorded(s, u, b + 1, t \cup {b}) /\ Young(s, u, b + 1)
<1>1. b \in Int /\ 0 <= b /\ b <= Len(s) - 1 /\ Len(r) \in Nat /\ b + Len(r) <= Len(s)
  BY DEF All, Recorded, Within
<1>2. Passed(s, b + 1, t \cup {b})
  <2> SUFFICES ASSUME NEW n \in All(s), n < b + 1, Reliable(s[n + 1].kind)
               PROVE  n \in t \cup {b}
    BY DEF Passed
  <2>1. n < b \/ n = b
    BY <1>1 DEF All
  <2> QED BY <2>1 DEF Recorded, Passed
<1>3. u \in Seq(Arrival) /\ Len(u) = (IF r = <<>> THEN 0 ELSE Len(r) - 1)
      /\ \A k \in 1..Len(u) : u[k] = r[k + 1] /\ k + 1 \in 1..Len(r)
  <2>1. CASE r = <<>>
    BY <2>1
  <2>2. CASE r # <<>>
    BY <2>2
  <2> QED BY <2>1, <2>2
<1>4. \A k \in 1..Len(u) : (b + 1) + k - 1 = b + (k + 1) - 1 /\ (b + 1) + k = b + (k + 1)
  BY <1>1
<1>5. Marked(u, b + 1, t \cup {b})
  BY <1>3, <1>4 DEF Recorded, Marked
<1>6. Young(s, u, b + 1)
  <2>1. DOMAIN u = 1..Len(u) /\ DOMAIN r = 1..Len(r)
    BY <1>3
  <2> QED BY <1>3, <1>4, <2>1 DEF Young
<1>7. Within(s, u, b + 1)
  <2> DEFINE x == Len(r)
             y == Len(u)
             z == Len(s)
  <2>1. x \in Nat /\ y \in Nat /\ z \in Nat /\ b \in Int /\ b >= 0 /\ b <= z - 1 /\ b + x <= z /\ (y = 0 \/ y = x - 1)
    BY <1>1, <1>3
  <2> HIDE DEF x, y, z
  <2>2. b + 1 >= 0 /\ (b + 1) + y <= z
    BY ONLY <2>1
  <2> QED BY <2>2 DEF Within, y, z
<1> QED BY <1>2, <1>5, <1>6, <1>7 DEF Recorded

LEMMA RecordWithin ==
  ASSUME NEW s, Len(s) \in Nat, NEW r \in Seq(Arrival), NEW b \in Int, NEW t, Recorded(s, r, b, t), Young(s, r, b),
         NEW pos \in Nat, pos < Len(r), NEW u, u = [r EXCEPT ![pos + 1] = MakeReceivedPacketTime]
  PROVE  Recorded(s, u, b, t \cup {b + pos}) /\ Young(s, u, b)
<1>1. Len(r) \in Nat /\ DOMAIN r = 1..Len(r) /\ pos + 1 \in 1..Len(r) /\ b + (pos + 1) - 1 = b + pos
  OBVIOUS
<1>2. DOMAIN u = 1..Len(r) /\ Len(u) = Len(r) /\ ~u[pos + 1].hole /\ \A k \in 1..Len(r) : k # pos + 1 => u[k] = r[k]
  BY <1>1 DEF MakeReceivedPacketTime
<1>3. Marked(u, b, t \cup {b + pos})
  <2> SUFFICES ASSUME NEW k \in 1..Len(r), ~u[k].hole
               PROVE  b + k - 1 \in t \cup {b + pos}
    BY <1>2 DEF Marked
  <2>1. CASE k = pos + 1
    BY <1>1, <2>1
  <2>2. CASE k # pos + 1
    BY <1>2, <2>2 DEF Recorded, Marked
  <2> QED BY <2>1, <2>2
<1>4. Young(s, u, b)
  BY <1>1, <1>2 DEF Young
<1>5. Passed(s, b, t \cup {b + pos}) /\ Within(s, u, b)
  BY <1>2 DEF Recorded, Passed, Within
<1> QED BY <1>3, <1>4, <1>5 DEF Recorded

HolesBefore(l) == [k \in 1..l |-> IF k = l THEN MakeReceivedPacketTime ELSE MakeReceivedPacketHole]

LEMMA RecordBeyond ==
  ASSUME NEW s, Len(s) \in Nat, NEW r \in Seq(Arrival), NEW b \in Int, NEW t, Recorded(s, r, b, t), Young(s, r, b),
         NEW pos \in Nat, pos >= Len(r), b + pos \in All(s), NEW l, l = pos - Len(r) + 1,
         NEW u, u = r \o HolesBefore(l)
  PROVE  Recorded(s, u, b, t \cup {b + pos}) /\ Young(s, u, b)
<1> DEFINE more == HolesBefore(l)
<1>1. Len(r) \in Nat /\ DOMAIN r = 1..Len(r) /\ l \in Nat /\ l >= 1 /\ Len(r) + l = pos + 1
  OBVIOUS
<1>2. MakeReceivedPacketTime \in Arrival /\ MakeReceivedPacketHole \in Arrival
      /\ ~MakeReceivedPacketTime.hole /\ MakeReceivedPacketHole.hole /\ MakeReceivedPacketHole.age = 0
  BY DEF MakeReceivedPacketTime, MakeReceivedPacketHole, Arrival
<1>3. /\ more \in Seq(Arrival) /\ Len(more) = l
      /\ \A k \in 1..l : more[k] = IF k = l THEN MakeReceivedPacketTime ELSE MakeReceivedPacketHole
  <2>1. more \in [1..l -> Arrival]
    BY <1>2 DEF HolesBefore
  <2>2. \A k \in 1..l : more[k] = IF k = l THEN MakeReceivedPacketTime ELSE MakeReceivedPacketHole
    BY DEF HolesBefore
  <2> HIDE DEF more
  <2>3. more \in Seq(Arrival) /\ Len(more) = l
    BY ONLY <1>1, <2>1
  <2> QED BY <2>2, <2>3
<1>4. u = r \o more
  OBVIOUS
<1> HIDE DEF more
<1>5. /\ u \in Seq(Arrival) /\ Len(u) = pos + 1
      /\ \A k \in 1..Len(r) : u[k] = r[k]
      /\ \A k \in 1..l : u[Len(r) + k] = more[k]
  <2>1. r \in Seq(Arrival) /\ more \in Seq(Arrival)
    BY <1>3
  <2>2. /\ r \o more \in Seq(Arrival) /\ Len(r \o more) = Len(r) + Len(more)
        /\ \A k \in 1..Len(r) : (r \o more)[k] = r[k]
        /\ \A k \in 1..Len(more) : (r \o more)[Len(r) + k] = more[k]
    BY ONLY <2>1, ConcatElements
  <2>3. Len(more) = l /\ Len(r) + l = pos + 1
    BY <1>1, <1>3
  <2> QED BY ONLY <1>4, <2>2, <2>3
<1>6. ASSUME NEW k \in 1..pos + 1
      PROVE  \/ k \in 1..Len(r) /\ u[k] = r[k]
             \/ k = pos + 1 /\ u[k] = MakeReceivedPacketTime
             \/ u[k] = MakeReceivedPacketHole
  <2>1. CASE k <= Len(r)
    BY <1>1, <1>5, <2>1
  <2>2. CASE ~(k <= Len(r))
    <3>1. k - Len(r) \in 1..l /\ Len(r) + (k - Len(r)) = k /\ (k - Len(r) = l <=> k = pos + 1)
      BY <1>1, <2>2
    <3>2. u[k] = more[k - Len(r)]
      BY <1>5, <3>1
    <3> QED BY <1>3, <3>1, <3>2
  <2> QED BY <2>1, <2>2
<1>7. Marked(u, b, t \cup {b + pos})
  <2> SUFFICES ASSUME NEW k \in 1..pos + 1, ~u[k].hole
               PROVE  b + k - 1 \in t \cup {b + pos}
    BY <1>5 DEF Marked
  <2>1. CASE k \in 1..Len(r) /\ u[k] = r[k]
    BY <2>1 DEF Recorded, Marked
  <2>2. CASE k = pos + 1
    <3>1. b + k - 1 = b + pos
      BY <2>2
    <3> QED BY <3>1
  <2>3. CASE u[k] = MakeReceivedPacketHole
    BY <1>2, <2>3
  <2> QED BY <1>6, <2>1, <2>2, <2>3
<1>8. Young(s, u, b)
  <2> SUFFICES ASSUME NEW k \in DOMAIN u, u[k].hole, Reliable(s[b + k].kind)
               PROVE  u[k].age <= Timeout
    BY DEF Young
  <2>1. k \in 1..pos + 1
    BY <1>5
  <2>2. CASE k \in 1..Len(r) /\ u[k] = r[k]
    BY <1>1, <2>2 DEF Young
  <2>3. CASE u[k] = MakeReceivedPacketHole
    BY <1>2, <2>3, Constants
  <2> QED BY <1>2, <1>6, <2>1, <2>2, <2>3
<1>9. Within(s, u, b)
  BY <1>5 DEF Recorded, Within, All
<1>10. Passed(s, b, t \cup {b + pos})
  BY DEF Recorded, Passed
<1> QED BY <1>7, <1>8, <1>9, <1>10 DEF Recorded

(* What is forgotten at the front is older than a timeout: no reliable packet  *)
(* is missing there.                                                           *)
LEMMA RecordForget ==
  ASSUME NEW s, Len(s) \in Nat, NEW r \in Seq(Arrival), NEW b \in Int, NEW t, Recorded(s, r, b, t), Young(s, r, b),
         NEW g \in 0..Len(r), \A k \in 1..g : r[k].age > Timeout, NEW u, u = SubSeq(r, g + 1, Len(r))
  PROVE  Recorded(s, u, b + g, t) /\ Young(s, u, b + g)
<1>1. Len(r) \in Nat /\ g \in Nat /\ g <= Len(r) /\ DOMAIN r = 1..Len(r) /\ Timeout \in Int
      /\ b >= 0 /\ b + Len(r) <= Len(s)
  BY Constants, SMTT(30) DEF Recorded, Within
<1>2. /\ u \in Seq(Arrival) /\ Len(u) = Len(r) - g
      /\ \A k \in 1..Len(r) - g : u[k] = r[g + k]
  <2>1. g + 1 \in Nat \ {0} /\ Len(r) \in 0..Len(r) /\ g + 1 <= Len(r) + 1 /\ Len(r) - (g + 1) + 1 = Len(r) - g
    BY <1>1, SMTT(30)
  <2>2. /\ SubSeq(r, g + 1, Len(r)) \in Seq(Arrival)
        /\ Len(SubSeq(r, g + 1, Len(r))) = Len(r) - (g + 1) + 1
        /\ \A k \in 1..Len(r) - (g + 1) + 1 : SubSeq(r, g + 1, Len(r))[k] = r[(g + 1) + k - 1]
    BY <2>1, SubSeqElements, ZenonT(30)
  <2>3. \A k \in 1..Len(r) - g : (g + 1) + k - 1 = g + k
    BY <1>1
  <2> QED BY <2>1, <2>2, <2>3, ZenonT(30)
<1>3. \A k \in 1..Len(u) : g + k \in 1..Len(r) /\ (b + g) + k - 1 = b + (g + k) - 1 /\ (b + g) + k = b + (g + k)
  <2> DEFINE x == Len(r)
             y == Len(u)
  <2>1. x \in Nat /\ b \in Int /\ g \in Nat /\ g <= x /\ y = x - g
    BY <1>1, <1>2, ZenonT(30)
  <2> HIDE DEF x, y
  <2>2. \A k \in 1..y : g + k \in 1..x /\ (b + g) + k - 1 = b + (g + k) - 1 /\ (b + g) + k = b + (g + k)
    BY ONLY <2>1
  <2> QED BY <2>2 DEF x, y
<1>4. Passed(s, b + g, t)
  <2> SUFFICES ASSUME NEW n \in All(s), n < b + g, Reliable(s[n + 1].kind)
               PROVE  n \in t
    BY DEF Passed
  <2>1. n \in Int
    BY DEF All
  <2>2. CASE n < b
    BY <2>2 DEF Recorded, Passed
  <2>3. CASE ~(n < b)
    <3> DEFINE k == n - b + 1
    <3>1. k \in 1..g /\ k \in 1..Len(r) /\ b + k = n + 1 /\ b + k - 1 = n
      BY <1>1, <2>1, <2>3
    <3> HIDE DEF k
    <3>2. r[k].age > Timeout /\ r[k].age \in Int /\ r[k].hole \in BOOLEAN
      <4>1. r[k] \in Arrival
        BY <3>1
      <4> QED BY <3>1, <4>1 DEF Arrival
    <3>3. ~r[k].hole
      <4>1. r[k].hole /\ Reliable(s[b + k].kind) => r[k].age <= Timeout
        BY <1>1, <3>1 DEF Young
      <4>2. Reliable(s[b + k].kind) /\ ~(r[k].age <= Timeout)
        BY <1>1, <3>1, <3>2
      <4> QED BY ONLY <4>1, <4>2
    <3> QED BY <3>1, <3>3 DEF Recorded, Marked
  <2> QED BY <2>2, <2>3
<1>5. Marked(u, b + g, t)
  BY <1>2, <1>3 DEF Recorded, Marked
<1>6. Young(s, u, b + g)
  <2>1. DOMAIN u = 1..Len(u)
    BY <1>2
  <2> QED BY <1>1, <1>2, <1>3, <2>1 DEF Young
<1>7. Within(s, u, b + g)
  <2> DEFINE x == Len(r)
             y == Len(u)
             z == Len(s)
  <2>1. x \in Nat /\ z \in Nat /\ b \in Int /\ g \in Nat /\ b >= 0 /\ b + x <= z /\ y = x - g
    BY <1>1, <1>2, ZenonT(30)
  <2> HIDE DEF x, y, z
  <2>2. b + g >= 0 /\ (b + g) + y <= z
    BY ONLY <2>1
  <2> QED BY <2>2, ZenonT(30) DEF Within, y, z
<1> QED BY <1>4, <1>5, <1>6, <1>7 DEF Recorded

(* What comes in for the first time is recorded as long as the clock shows a   *)
(* timeout.                                                                    *)
LEMMA RegisterRecords ==
  ASSUME NEW q, uptime[q] = Timeout, NEW s, Len(s) \in Nat, NEW i \in Receiver(All(s)), NEW n \in All(s), ~IsDuplicate(i, n),
         Recorded(s, i.received, i.base, i.taken), Young(s, i.received, i.base), NEW j, j = Register(q, i, n)
  PROVE  /\ Recorded(s, j.received, j.base, j.taken) /\ Young(s, j.received, j.base)
         /\ j.taken = i.taken \cup {n} /\ j.acks = i.acks /\ j.splits = i.splits
<1> DEFINE N == All(s)
           pos == Position(i, n)
           r == i.received
           l == pos - Len(r) + 1
           more == [k \in 1..l |-> IF k = l THEN MakeReceivedPacketTime ELSE MakeReceivedPacketHole]
           i1 == IF pos = 0
                 THEN [i EXCEPT !.received = IF r = <<>> THEN r ELSE Tail(r), !.base = i.base + 1]
                 ELSE IF pos < Len(r)
                 THEN [i EXCEPT !.received[pos + 1] = MakeReceivedPacketTime]
                 ELSE [i EXCEPT !.received = r \o more]
           S == {m \in 0..Len(i1.received) : \A k \in 1..m : Expired(q, i1.received[k])}
           gone == Max(S)
           u == SubSeq(i1.received, gone + 1, Len(i1.received))
           b == i1.base + gone
           t == i1.taken \cup {n}
<1>1. j = [i1 EXCEPT !.received = u, !.base = b, !.taken = t]
  BY DEF Register, Leading
<1>2. i.base \in Int /\ r \in Seq(Arrival) /\ Len(r) \in Nat /\ i.taken \in SUBSET N
  BY ReceiverFields
<1>3. pos \in Nat /\ i.base + pos = n
  <2>1. n \in Int
    BY DEF All
  <2> QED BY <1>2, <2>1 DEF IsDuplicate, Position
<1> HIDE DEF pos
<1>4. /\ Recorded(s, i1.received, i1.base, i.taken \cup {n}) /\ Young(s, i1.received, i1.base)
      /\ i1.received \in Seq(Arrival) /\ i1.base \in Int
      /\ i1.taken = i.taken /\ i1.acks = i.acks /\ i1.splits = i.splits
      /\ DOMAIN i1 = DOMAIN i
  <2>1. CASE pos = 0
    <3> DEFINE x == IF r = <<>> THEN r ELSE Tail(r)
               c == i.base + 1
    <3>1. i.base = n /\ x \in Seq(Arrival) /\ c \in Int
      BY <1>2, <1>3, <2>1
    <3>2. Recorded(s, x, c, i.taken \cup {n}) /\ Young(s, x, c)
      BY <1>2, <3>1, RecordNext
    <3>3. i1 = [i EXCEPT !.received = x, !.base = c]
      BY <2>1
    <3> HIDE DEF x, c, i1, r
    <3>4. i1.received = x /\ i1.base = c /\ i1.taken = i.taken /\ i1.acks = i.acks /\ i1.splits = i.splits
          /\ DOMAIN i1 = DOMAIN i
      BY <3>3 DEF Receiver
    <3> QED BY <3>1, <3>2, <3>4
  <2>2. CASE pos # 0 /\ pos < Len(r)
    <3> DEFINE x == [r EXCEPT ![pos + 1] = MakeReceivedPacketTime]
    <3>1. x \in Seq(Arrival)
      <4>1. MakeReceivedPacketTime \in Arrival
        BY DEF MakeReceivedPacketTime, Arrival
      <4> QED BY <1>2, <1>3, <2>2, <4>1
    <3>2. Recorded(s, x, i.base, i.taken \cup {n}) /\ Young(s, x, i.base)
      <4> HIDE DEF r
      <4>1. x = [r EXCEPT ![pos + 1] = MakeReceivedPacketTime] /\ Recorded(s, r, i.base, i.taken) /\ Young(s, r, i.base)
        BY DEF r
      <4> HIDE DEF x
      <4>2. Recorded(s, x, i.base, i.taken \cup {i.base + pos}) /\ Young(s, x, i.base)
        BY <1>2, <1>3, <2>2, <4>1, RecordWithin
      <4> QED BY <1>3, <4>2
    <3>3. i1 = [i EXCEPT !.received = x]
      BY <2>2 DEF r
    <3> HIDE DEF x, i1, r
    <3>4. i1.received = x /\ i1.base = i.base /\ i1.taken = i.taken /\ i1.acks = i.acks /\ i1.splits = i.splits
          /\ DOMAIN i1 = DOMAIN i
      BY <3>3 DEF Receiver
    <3> QED BY <1>2, <3>1, <3>2, <3>4
  <2>3. CASE pos # 0 /\ ~(pos < Len(r))
    <3> DEFINE x == r \o more
    <3>1. more \in Seq(Arrival)
      <4>1. l \in Nat
        BY <1>2, <1>3, <2>3
      <4>2. more \in [1..l -> Arrival]
        BY DEF MakeReceivedPacketTime, MakeReceivedPacketHole, Arrival
      <4> HIDE DEF more, l
      <4> QED BY <4>1, <4>2
    <3>2. Recorded(s, x, i.base, i.taken \cup {n}) /\ Young(s, x, i.base)
      <4>1. pos >= Len(r) /\ i.base + pos \in All(s)
        BY <1>2, <1>3, <2>3
      <4>2. x = r \o HolesBefore(l) /\ l = pos - Len(r) + 1
            /\ Recorded(s, r, i.base, i.taken) /\ Young(s, r, i.base)
        BY DEF HolesBefore
      <4> HIDE DEF x, l, r
      <4>3. Recorded(s, x, i.base, i.taken \cup {i.base + pos}) /\ Young(s, x, i.base)
        BY <1>2, <1>3, <4>1, <4>2, RecordBeyond
      <4> QED BY <1>3, <4>3
    <3>3. i1 = [i EXCEPT !.received = x]
      BY <2>3
    <3> HIDE DEF more
    <3>4. x \in Seq(Arrival)
      BY <1>2, <3>1
    <3> HIDE DEF x, i1, r
    <3>5. i1.received = x /\ i1.base = i.base /\ i1.taken = i.taken /\ i1.acks = i.acks /\ i1.splits = i.splits
          /\ DOMAIN i1 = DOMAIN i
      BY <3>3 DEF Receiver
    <3> QED BY <1>2, <3>2, <3>4, <3>5
  <2> QED BY <2>1, <2>2, <2>3
<1> HIDE DEF i1, r
<1>5. gone \in 0..Len(i1.received) /\ \A k \in 1..gone : i1.received[k].age > Timeout
  <2>1. Len(i1.received) \in Nat
    BY <1>4
  <2>2. S \in SUBSET (0..Len(i1.received)) /\ 0 \in S
    BY <2>1
  <2> HIDE DEF S
  <2>3. gone \in S
    BY <2>1, <2>2, LargestCount
  <2>4. gone \in 0..Len(i1.received)
    BY <2>2, <2>3
  <2>5. \A k \in 1..gone : Expired(q, i1.received[k])
    BY <2>3 DEF S
  <2>6. ~(uptime[q] < Timeout)
    BY Constants
  <2> QED BY <2>4, <2>5, <2>6 DEF Expired
<1> HIDE DEF gone
<1>6. Recorded(s, u, b, i.taken \cup {n}) /\ Young(s, u, b)
  <2> DEFINE x == i1.received
             c == i1.base
             y == SubSeq(x, gone + 1, Len(x))
  <2>1. x \in Seq(Arrival) /\ c \in Int /\ Recorded(s, x, c, i.taken \cup {n}) /\ Young(s, x, c)
        /\ gone \in 0..Len(x) /\ \A k \in 1..gone : x[k].age > Timeout
    BY <1>4, <1>5
  <2>2. y = SubSeq(x, gone + 1, Len(x))
    OBVIOUS
  <2> HIDE DEF x, c, y
  <2>3. Recorded(s, y, c + gone, i.taken \cup {n}) /\ Young(s, y, c + gone)
    BY <2>1, <2>2, RecordForget
  <2> QED BY <2>3 DEF x, c, y
<1> HIDE DEF u, b
<1>7. j.received = u /\ j.base = b /\ j.taken = t /\ j.acks = i1.acks /\ j.splits = i1.splits
  BY <1>1, <1>4 DEF Receiver
<1> QED BY <1>4, <1>6, <1>7

LEMMA DuplicateTaken ==
  ASSUME NEW s, NEW i \in Receiver(All(s)), NEW n \in All(s), IsDuplicate(i, n), Reliable(s[n + 1].kind),
         Recorded(s, i.received, i.base, i.taken)
  PROVE  n \in i.taken
<1> DEFINE pos == Position(i, n)
<1>1. n \in Int /\ i.base \in Int /\ i.received \in Seq(Arrival) /\ Len(i.received) \in Nat
  BY ReceiverFields DEF All
<1>2. pos \in Int /\ pos = n - i.base
  BY <1>1 DEF Position
<1>3. CASE pos < 0
  <2>1. n < i.base
    BY <1>1, <1>2, <1>3
  <2> QED BY <2>1 DEF Recorded, Passed
<1>4. CASE ~(pos < 0)
  <2>1. pos \in 1..Len(i.received) - 1 /\ ~i.received[pos + 1].hole
    BY <1>4 DEF IsDuplicate
  <2> HIDE DEF pos
  <2>2. pos + 1 \in 1..Len(i.received) /\ i.base + (pos + 1) - 1 = n
    BY <1>1, <1>2, <2>1, SMTT(30)
  <2> QED BY <2>1, <2>2 DEF Recorded, Marked
<1> QED BY <1>3, <1>4

-----------------------------------------------------------------------------
(* What the receiver has taken is in the list of its parts, waits for its turn *)
(* or is with the game.                                                        *)
InHand(i) == Range(i.ordering) \cup Range(i.output)
Arrived(s, i, n) == n \in i.splits \/ s[n + 1].message \in InHand(i)

RecordFields(i) == <<i.base, i.received, i.acks, i.taken, i.splits>>
OnlyMoves(i, j) == InHand(i) \subseteq InHand(j) /\ RecordFields(j) = RecordFields(i)

LEMMA AppendRange ==
  ASSUME NEW M, NEW s \in Seq(M), NEW e
  PROVE  Range(Append(s, e)) = Range(s) \cup {e}
<1> DEFINE t == Append(s, e)
           n == Len(s)
<1>1. n \in Nat /\ DOMAIN s = 1..n /\ DOMAIN t = 1..n + 1 /\ t[n + 1] = e /\ \A k \in 1..n : t[k] = s[k]
  OBVIOUS
<1> HIDE DEF t, n
<1>2. \A k \in 1..n + 1 : k = n + 1 \/ k \in 1..n
  BY <1>1
<1>3. n + 1 \in 1..n + 1 /\ \A k \in 1..n : k \in 1..n + 1
  BY <1>1
<1>4. Range(t) \subseteq Range(s) \cup {e}
  BY <1>1, <1>2 DEF Range
<1>5. Range(s) \cup {e} \subseteq Range(t)
  BY <1>1, <1>3 DEF Range
<1> QED BY <1>4, <1>5 DEF t

LEMMA RemoveRange ==
  ASSUME NEW M, NEW s \in Seq(M), NEW k \in 1..Len(s)
  PROVE  Range(s) \subseteq Range(RemoveAt(s, k)) \cup {s[k]}
<1> DEFINE n == Len(s)
           a == SubSeq(s, 1, k - 1)
           b == SubSeq(s, k + 1, n)
           t == a \o b
<1>1. n \in Nat /\ k \in Nat /\ 1 <= k /\ k <= n /\ DOMAIN s = 1..n
  OBVIOUS
<1>2. a \in Seq(M) /\ Len(a) = k - 1 /\ \A j \in 1..k - 1 : a[j] = s[j]
  <2>1. 1 \in Nat \ {0} /\ k - 1 \in 0..n /\ 1 <= (k - 1) + 1 /\ (k - 1) - 1 + 1 = k - 1
    BY <1>1
  <2>2. /\ SubSeq(s, 1, k - 1) \in Seq(M) /\ Len(SubSeq(s, 1, k - 1)) = (k - 1) - 1 + 1
        /\ \A j \in 1..(k - 1) - 1 + 1 : SubSeq(s, 1, k - 1)[j] = s[1 + j - 1]
    BY <2>1, SubSeqElements
  <2>3. \A j \in 1..k - 1 : 1 + j - 1 = j
    BY <1>1
  <2> QED BY <2>1, <2>2, <2>3
<1>3. b \in Seq(M) /\ Len(b) = n - k /\ \A j \in 1..n - k : b[j] = s[k + j]
  <2>1. k + 1 \in Nat \ {0} /\ n \in 0..Len(s) /\ k + 1 <= n + 1 /\ n - (k + 1) + 1 = n - k
    BY <1>1, SMTT(30)
  <2>2. /\ SubSeq(s, k + 1, n) \in Seq(M) /\ Len(SubSeq(s, k + 1, n)) = n - (k + 1) + 1
        /\ \A j \in 1..n - (k + 1) + 1 : SubSeq(s, k + 1, n)[j] = s[(k + 1) + j - 1]
    BY <2>1, SubSeqElements, ZenonT(30)
  <2>3. \A j \in 1..n - k : (k + 1) + j - 1 = k + j
    BY <1>1
  <2> QED BY <2>1, <2>2, <2>3, ZenonT(30)
<1>4. RemoveAt(s, k) = t
  BY DEF RemoveAt
<1> HIDE DEF n, a, b
<1>5. /\ t \in Seq(M) /\ Len(t) = (k - 1) + (n - k)
      /\ \A j \in 1..k - 1 : t[j] = a[j]
      /\ \A j \in 1..n - k : t[(k - 1) + j] = b[j]
  <2>1. /\ a \o b \in Seq(M) /\ Len(a \o b) = Len(a) + Len(b)
        /\ \A j \in 1..Len(a) : (a \o b)[j] = a[j]
        /\ \A j \in 1..Len(b) : (a \o b)[Len(a) + j] = b[j]
    <3>1. a \in Seq(M) /\ b \in Seq(M)
      BY <1>2, <1>3
    <3> QED BY ONLY <3>1, ConcatElements
  <2> QED BY <1>2, <1>3, <2>1
<1> HIDE DEF t
<1>6. DOMAIN t = 1..(k - 1) + (n - k)
  BY <1>5
<1>7. ASSUME NEW j \in 1..n
      PROVE  s[j] \in Range(t) \cup {s[k]}
  <2>1. CASE j < k
    <3>1. j \in 1..k - 1 /\ j \in 1..(k - 1) + (n - k)
      BY <1>1, <2>1
    <3>2. t[j] = s[j] /\ j \in DOMAIN t
      BY <1>2, <1>5, <1>6, <3>1
    <3> QED BY <3>2 DEF Range
  <2>2. CASE j > k
    <3>1. j - k \in 1..n - k /\ (k - 1) + (j - k) \in 1..(k - 1) + (n - k) /\ k + (j - k) = j
      BY <1>1, <2>2
    <3>2. t[(k - 1) + (j - k)] = s[j] /\ (k - 1) + (j - k) \in DOMAIN t
      BY <1>3, <1>5, <1>6, <3>1
    <3> QED BY <3>2 DEF Range
  <2>3. CASE j = k
    BY <2>3
  <2> QED BY <1>1, <2>1, <2>2, <2>3
<1> QED BY <1>1, <1>4, <1>7 DEF Range

LEMMA TakeReadyMoves ==
  ASSUME NEW p, NEW N, NEW i \in Receiver(N), NEW j, j = TakeReady(p, i)
  PROVE  j \in Receiver(N) /\ OnlyMoves(i, j)
<1> DEFINE ready == {k \in DOMAIN i.ordering : packet[p][i.ordering[k] + 1].index = i.orderedRead}
           k == Min(ready)
           u == Append(i.output, i.ordering[k])
           o == RemoveAt(i.ordering, k)
           r == (i.orderedRead + 1) % OrderModulus
<1>1. j = IF ready = {} THEN i ELSE [i EXCEPT !.output = u, !.ordering = o, !.orderedRead = r]
  BY DEF TakeReady
<1>2. i.ordering \in Seq(N) /\ i.output \in Seq(N) /\ i.orderedRead \in 0..OrderModulus - 1
  BY ReceiverFields
<1>3. CASE ready = {}
  BY <1>1, <1>3 DEF OnlyMoves
<1>4. CASE ready # {}
  <2>1. Len(i.ordering) \in Nat /\ ready \in SUBSET (1..Len(i.ordering))
    BY <1>2
  <2>2. k \in 1..Len(i.ordering)
    <3> HIDE DEF ready
    <3>1. k \in ready
      BY <1>4, <2>1, FirstPosition
    <3> QED BY <2>1, <3>1
  <2> HIDE DEF k
  <2>3. u \in Seq(N) /\ Range(u) = Range(i.output) \cup {i.ordering[k]}
    <3>1. i.ordering[k] \in N
      BY <1>2, <2>2
    <3> QED BY <1>2, <3>1, AppendRange
  <2>4. o \in Seq(N) /\ Range(i.ordering) \subseteq Range(o) \cup {i.ordering[k]}
    BY <1>2, <2>2, RemoveTyped, RemoveRange
  <2>5. r \in 0..OrderModulus - 1
    <3>1. i.orderedRead + 1 \in Int
      BY <1>2
    <3> QED BY <3>1, IndexTyped
  <2>6. j = [i EXCEPT !.output = u, !.ordering = o, !.orderedRead = r]
    BY <1>1, <1>4
  <2> HIDE DEF u, o, r, ready
  <2>7. j \in Receiver(N)
    <3>1. u \in Seq(N) /\ o \in Seq(N)
      BY <2>3, <2>4
    <3>2. [i EXCEPT !.output = u, !.ordering = o, !.orderedRead = r] \in Receiver(N)
      BY <2>5, <3>1 DEF Receiver
    <3> QED BY ONLY <2>6, <3>2
  <2>8. j.output = u /\ j.ordering = o /\ RecordFields(j) = RecordFields(i)
    BY <2>6 DEF Receiver, RecordFields
  <2> QED BY <2>3, <2>4, <2>7, <2>8 DEF OnlyMoves, InHand
<1> QED BY <1>3, <1>4

LEMMA DrainMoves ==
  ASSUME NEW p, NEW N, NEW i \in Receiver(N)
  PROVE  Drain(p, i) \in Receiver(N) /\ OnlyMoves(i, Drain(p, i))
<1> DEFINE S == {x \in Receiver(N) : OnlyMoves(i, x)}
<1>1. i \in S /\ Len(i.ordering) \in Nat
  BY ReceiverFields DEF OnlyMoves
<1>2. ASSUME NEW x \in S
      PROVE  TakeReady(p, x) \in S
  <2>1. TakeReady(p, x) \in Receiver(N) /\ OnlyMoves(x, TakeReady(p, x))
    BY TakeReadyMoves
  <2> QED BY <2>1 DEF OnlyMoves
<1>3. \A x \in S : x \in Receiver(N) /\ OnlyMoves(i, x)
  OBVIOUS
<1> HIDE DEF S
<1>4. Drain(p, i) \in S
  BY <1>1, <1>2, DrainStays
<1> QED BY <1>3, <1>4

(* A whole message waits for its turn, or the game gets it.                    *)
LEMMA WholeMoves ==
  ASSUME NEW p, NEW N, NEW i \in Receiver(N), NEW m, m.message \in N, NEW j, j = Whole(p, i, m)
  PROVE  OnlyMoves(i, j) /\ m.message \in InHand(j)
<1> DEFINE k == m.message
           u == Append(i.output, k)
           r == (i.orderedRead + 1) % OrderModulus
           o == Append(i.ordering, k)
           i1 == [i EXCEPT !.output = u]
           i2 == [i EXCEPT !.output = u, !.orderedRead = r]
           i3 == [i EXCEPT !.ordering = o]
<1>1. j = i1 \/ j = Drain(p, i2) \/ j = i3
  BY DEF Whole
<1>2. i.output \in Seq(N) /\ i.ordering \in Seq(N) /\ i.orderedRead \in 0..OrderModulus - 1
  BY ReceiverFields
<1>3. u \in Seq(N) /\ Range(u) = Range(i.output) \cup {k} /\ Range(o) = Range(i.ordering) \cup {k}
  BY <1>2, AppendRange
<1>4. r \in 0..OrderModulus - 1
  <2>1. i.orderedRead + 1 \in Int
    BY <1>2
  <2> QED BY <2>1, IndexTyped
<1> HIDE DEF u, r, o, k
<1>5. i1.output = u /\ i1.ordering = i.ordering /\ RecordFields(i1) = RecordFields(i)
  BY DEF Receiver, RecordFields
<1>6. i2 \in Receiver(N) /\ i2.output = u /\ i2.ordering = i.ordering /\ RecordFields(i2) = RecordFields(i)
  BY <1>3, <1>4 DEF Receiver, RecordFields
<1>7. i3.output = i.output /\ i3.ordering = o /\ RecordFields(i3) = RecordFields(i)
  BY DEF Receiver, RecordFields
<1> HIDE DEF i1, i2, i3
<1>8. OnlyMoves(i, i1) /\ k \in InHand(i1) /\ OnlyMoves(i, i2) /\ k \in InHand(i2) /\ OnlyMoves(i, i3) /\ k \in InHand(i3)
  BY <1>3, <1>5, <1>6, <1>7 DEF OnlyMoves, InHand
<1>9. OnlyMoves(i2, Drain(p, i2))
  BY <1>6, DrainMoves
<1>10. OnlyMoves(i, Drain(p, i2)) /\ k \in InHand(Drain(p, i2))
  BY <1>8, <1>9 DEF OnlyMoves
<1> QED BY <1>1, <1>8, <1>10 DEF k

(* Sorting a packet moves only messages: what has arrived is still there.      *)
Times(i) == <<i.base, i.received, i.acks, i.taken>>
StillThere(s, i, j) ==
  Times(j) = Times(i) /\ \A k \in All(s) : Arrived(s, i, k) => Arrived(s, j, k)

LEMMA MovesStay ==
  ASSUME NEW s, NEW i, NEW j, OnlyMoves(i, j)
  PROVE  StillThere(s, i, j)
BY DEF OnlyMoves, RecordFields, Times, StillThere, Arrived

LEMMA PartStays ==
  ASSUME NEW p, NEW s, s = packet[p], NEW i \in Receiver(All(s)), NEW n \in All(s), s[n + 1].message \in All(s),
         NEW j, j = Part(p, i, n)
  PROVE  StillThere(s, i, j) /\ Arrived(s, j, n)
<1> DEFINE N == All(s)
           m == s[n + 1]
           parts == {k \in Numbers(p) : packet[p][k + 1].message = m.message}
           here == i.splits \cup {n}
           left == here \ parts
           i1 == [i EXCEPT !.splits = left]
           i2 == [i EXCEPT !.splits = here]
<1>1. j = IF n \in i.splits THEN i ELSE IF parts \subseteq here THEN Whole(p, i1, m) ELSE i2
  BY DEF Part
<1>2. here \in SUBSET N /\ left \in SUBSET N
  BY ReceiverFields
<1>3. \A k \in parts : s[k + 1].message = m.message
  OBVIOUS
<1>4. n \in here /\ i.splits \subseteq here /\ \A k \in here : k \in left \/ k \in parts
  OBVIOUS
<1>5. CASE n \in i.splits
  BY <1>1, <1>5 DEF StillThere, Arrived
<1> HIDE DEF here, left, parts
<1>6. /\ i1 \in Receiver(N) /\ i1.splits = left /\ Times(i1) = Times(i) /\ InHand(i1) = InHand(i)
      /\ i2.splits = here /\ Times(i2) = Times(i) /\ InHand(i2) = InHand(i)
  BY <1>2 DEF Receiver, Times, InHand
<1> HIDE DEF i1, i2
<1>7. CASE n \notin i.splits /\ parts \subseteq here
  <2>1. j = Whole(p, i1, m) /\ m.message \in N
    BY <1>1, <1>7
  <2>2. OnlyMoves(i1, j) /\ m.message \in InHand(j)
    BY <1>6, <2>1, WholeMoves
  <2>3. j.splits = left /\ Times(j) = Times(i) /\ InHand(i) \subseteq InHand(j)
    BY <1>6, <2>2 DEF OnlyMoves, RecordFields, Times
  <2>4. \A k \in here : Arrived(s, j, k)
    BY <1>3, <1>4, <2>2, <2>3 DEF Arrived
  <2>5. \A k \in N : Arrived(s, i, k) => Arrived(s, j, k)
    BY <1>4, <2>3, <2>4 DEF Arrived
  <2> QED BY <1>4, <2>3, <2>4, <2>5 DEF StillThere
<1>8. CASE n \notin i.splits /\ ~(parts \subseteq here)
  <2>1. j.splits = here /\ Times(j) = Times(i) /\ InHand(j) = InHand(i)
    BY <1>1, <1>6, <1>8
  <2> QED BY <1>4, <2>1 DEF StillThere, Arrived
<1> QED BY <1>5, <1>7, <1>8

LEMMA LatestStays ==
  ASSUME NEW s, NEW i \in Receiver(All(s)), NEW m, NEW j, j = Latest(i, m)
  PROVE  StillThere(s, i, j)
<1> DEFINE u == Append(i.output, m.message)
           r == (m.index + 1) % OrderModulus
           x == [i EXCEPT !.sequencedRead = r, !.output = u]
<1>1. j = i \/ j = x
  BY DEF Latest
<1>2. Range(i.output) \subseteq Range(u)
  <2>1. i.output \in Seq(All(s))
    BY ReceiverFields
  <2> QED BY <2>1, AppendRange
<1> HIDE DEF u, r
<1>3. x.output = u /\ x.ordering = i.ordering /\ RecordFields(x) = RecordFields(i)
  BY DEF Receiver, RecordFields
<1> HIDE DEF x
<1>4. OnlyMoves(i, x) /\ OnlyMoves(i, i)
  BY <1>2, <1>3 DEF OnlyMoves, InHand
<1> QED BY <1>1, <1>4, MovesStay

LEMMA SortedStays ==
  ASSUME NEW p, NEW s, s = packet[p], NEW i \in Receiver(All(s)), NEW n \in All(s), s[n + 1].message \in All(s),
         NEW j, j = Sorted(p, i, n)
  PROVE  StillThere(s, i, j) /\ (~Sequenced(s[n + 1].kind) => Arrived(s, j, n))
<1> DEFINE m == s[n + 1]
<1>1. j = IF Sequenced(m.kind) THEN Latest(i, m) ELSE IF m.parts > 1 THEN Part(p, i, n) ELSE Whole(p, i, m)
  BY DEF Sorted
<1>2. CASE Sequenced(m.kind)
  BY <1>1, <1>2, LatestStays
<1>3. CASE ~Sequenced(m.kind) /\ m.parts > 1
  BY <1>1, <1>3, PartStays
<1>4. CASE ~Sequenced(m.kind) /\ ~(m.parts > 1)
  <2>1. j = Whole(p, i, m)
    BY <1>1, <1>4
  <2>2. OnlyMoves(i, j) /\ m.message \in InHand(j)
    BY <2>1, WholeMoves
  <2> QED BY <2>2, MovesStay DEF Arrived
<1> QED BY <1>2, <1>3, <1>4

(* What an end that receives knows of the packets of the other, and that it    *)
(* acknowledges nothing that it has not taken.                                 *)
MustArrive(s, n) == s[n + 1].kind \in {"RELIABLE", "RELIABLE_ORDERED"}

Seen(s, i) ==
  /\ Recorded(s, i.received, i.base, i.taken)
  /\ \A n \in i.taken : MustArrive(s, n) => Arrived(s, i, n)
  /\ i.acks \in Seq(Ack(i.taken))

Sees(s, t, i) ==
  Right(s, {}, i) /\ Seen(s, i) /\ Young(s, i.received, i.base) /\ t \subseteq i.taken

LEMMA AckGrows ==
  ASSUME NEW A, NEW B, A \subseteq B, NEW acks \in Seq(Ack(A))
  PROVE  acks \in Seq(Ack(B))
<1>1. Ack(A) \subseteq Ack(B)
  BY DEF Ack
<1> HIDE DEF Ack
<1> QED BY <1>1

LEMMA TakePacketSees ==
  ASSUME NEW q, NEW p, p = Other(q), Sound(packet[p]), uptime[q] = Timeout, NEW t, NEW i, Sees(packet[p], t, i),
         NEW n \in Numbers(p), NEW j, j = TakePacket(q, i, n)
  PROVE  Sees(packet[p], t, j)
<1> DEFINE s == packet[p]
           N == All(s)
           m == s[n + 1]
           a == [number |-> n, wait |-> ResendDelay \div 4]
           acks == Append(i.acks, a)
           i1 == IF Reliable(m.kind) THEN [i EXCEPT !.acks = acks] ELSE i
           i2 == Register(q, i1, n)
           e == [claims |-> {}, got |-> 0, there |-> N]
<1>1. j = IF IsDuplicate(i, n) THEN i1 ELSE Sorted(p, i2, n)
  BY DEF TakePacket
<1>2. Len(s) \in Nat /\ n \in N /\ N \in SUBSET Int /\ Sensible(s)
  BY DEF Numbers, All, Sound, Sensible
<1>3. \A k \in N : s[k + 1].message \in N
  <2>1. ASSUME NEW k \in N
        PROVE  s[k + 1].message \in N
    <3>1. IsPartOf(s, k, s[k + 1].message) /\ k \in 0..Len(s) - 1
      BY <1>2 DEF Sensible, All
    <3>2. s[k + 1].message \in 0..k
      BY <3>1 DEF IsPartOf
    <3> HIDE DEF s
    <3> QED BY <1>2, <3>1, <3>2 DEF All
  <2> QED BY <2>1
<1>4. Right(s, {}, i) /\ Seen(s, i) /\ Young(s, i.received, i.base) /\ t \subseteq i.taken
  BY DEF Sees
<1>5. i \in Receiver(N) /\ i.ordering \in Seq(Firsts(s, OrderedKinds))
  BY <1>4 DEF Right, All
<1>6. Right(s, {}, j)
  <2>1. e.claims = {} /\ e.got = 0 /\ e.there = N
    OBVIOUS
  <2>2. i.ordering \in Seq(e.there)
    BY <1>5, <2>1, ReceiverFields
  <2> HIDE DEF e
  <2>3. Good(s, e, i)
    BY <1>4, <2>1, <2>2 DEF Good
  <2>4. e.got \in Int /\ s[n + 1].message \in e.there
    <3>1. s[n + 1].message \in N
      BY <1>2, <1>3
    <3>2. 0 \in Int
      OBVIOUS
    <3> QED BY ONLY <2>1, <3>1, <3>2
  <2>5. Good(s, e, TakePacket(q, i, n))
    BY <1>2, <2>3, <2>4, TakePacketGood
  <2> QED BY <2>1, <2>5 DEF Good
<1>7. i.acks \in Seq(Ack(i.taken)) /\ i.taken \subseteq N
  BY <1>4, <1>5, ReceiverFields DEF Seen
<1>8. \A A : i.taken \subseteq A /\ n \in A => acks \in Seq(Ack(A))
  <2>1. \A A : n \in A => a \in Ack(A)
    <3>1. ResendDelay \div 4 \in Int
      BY Constants
    <3> QED BY <3>1 DEF Ack
  <2> HIDE DEF a
  <2>2. ASSUME NEW A, i.taken \subseteq A, n \in A
        PROVE  acks \in Seq(Ack(A))
    <3>1. i.acks \in Seq(Ack(A)) /\ a \in Ack(A)
      BY <1>7, <2>1, <2>2, AckGrows
    <3> QED BY <3>1
  <2> QED BY <2>2
<1>9. acks \in Seq(Ack(N))
  BY <1>2, <1>7, <1>8
<1> HIDE DEF acks, N
<1>10. /\ i1 \in Receiver(N) /\ i1.base = i.base /\ i1.received = i.received /\ i1.taken = i.taken
       /\ i1.splits = i.splits /\ InHand(i1) = InHand(i)
       /\ i1.acks = IF Reliable(m.kind) THEN acks ELSE i.acks
  BY <1>5, <1>9 DEF Receiver, InHand
<1> HIDE DEF i1
<1>11. Recorded(s, i1.received, i1.base, i1.taken) /\ Young(s, i1.received, i1.base)
  BY <1>4, <1>10 DEF Seen
<1>12. \A k \in i1.taken : MustArrive(s, k) => Arrived(s, i1, k)
  BY <1>4, <1>10 DEF Seen, Arrived
<1>13. CASE IsDuplicate(i, n)
  <2>1. j = i1
    BY <1>1, <1>13
  <2>2. Reliable(m.kind) => n \in i.taken
    BY <1>2, <1>4, <1>5, <1>13, DuplicateTaken DEF Seen, N
  <2>3. i1.acks \in Seq(Ack(i1.taken))
    BY <1>7, <1>8, <1>10, <2>2
  <2> QED BY <1>4, <1>6, <1>10, <1>11, <1>12, <2>1, <2>3 DEF Sees, Seen
<1>14. CASE ~IsDuplicate(i, n)
  <2>1. ~IsDuplicate(i1, n)
    BY <1>10, <1>14 DEF IsDuplicate, Position
  <2>2. i2 \in Receiver(N) /\ GameFields(i2) = GameFields(i1)
    BY <1>2, <1>10, <2>1, RegisterTyped
  <2>3. /\ Recorded(s, i2.received, i2.base, i2.taken) /\ Young(s, i2.received, i2.base)
        /\ i2.taken = i1.taken \cup {n} /\ i2.acks = i1.acks /\ i2.splits = i1.splits
    BY <1>2, <1>10, <1>11, <2>1, RegisterRecords DEF N
  <2> HIDE DEF i2
  <2>4. InHand(i2) = InHand(i1)
    BY <2>2 DEF GameFields, InHand
  <2>5. j = Sorted(p, i2, n)
    BY <1>1, <1>14
  <2>6. StillThere(s, i2, j) /\ (~Sequenced(m.kind) => Arrived(s, j, n))
    BY <1>2, <1>3, <2>2, <2>5, SortedStays DEF N
  <2>7. j.base = i2.base /\ j.received = i2.received /\ j.acks = i2.acks /\ j.taken = i2.taken
        /\ \A k \in N : Arrived(s, i2, k) => Arrived(s, j, k)
    BY <2>6 DEF StillThere, Times, N
  <2>8. i2.acks \in Seq(Ack(i2.taken))
    <3>1. CASE Reliable(m.kind)
      BY <1>8, <1>10, <2>3, <3>1
    <3>2. CASE ~Reliable(m.kind)
      <4>1. i.taken \subseteq i2.taken /\ i2.acks = i.acks
        BY <1>10, <2>3, <3>2
      <4> QED BY <1>7, <4>1, AckGrows
    <3> QED BY <3>1, <3>2
  <2>9. \A k \in i2.taken : MustArrive(s, k) => Arrived(s, j, k)
    <3>1. ASSUME NEW k \in i1.taken, MustArrive(s, k)
          PROVE  Arrived(s, j, k)
      <4>1. k \in N /\ Arrived(s, i2, k)
        BY <1>7, <1>10, <1>12, <2>3, <2>4, <3>1 DEF Arrived
      <4> QED BY <2>7, <4>1
    <3>2. MustArrive(s, n) => Arrived(s, j, n)
      BY <2>6 DEF MustArrive, Sequenced
    <3> QED BY <2>3, <3>1, <3>2
  <2>10. t \subseteq i2.taken
    BY <1>4, <1>10, <2>3
  <2> QED BY <1>6, <2>3, <2>7, <2>8, <2>9, <2>10 DEF Sees, Seen
<1> QED BY <1>13, <1>14

LEMMA TakePacketsSee ==
  ASSUME NEW q, NEW p, p = Other(q), Sound(packet[p]), uptime[q] = Timeout, NEW t, NEW i, Sees(packet[p], t, i),
         NEW s \in Seq(Numbers(p))
  PROVE  Sees(packet[p], t, TakePackets(q, i, s))
<1> DEFINE S == {x \in Receiver(0..Len(packet[p]) - 1) : Sees(packet[p], t, x)}
<1>1. ASSUME NEW x \in S, NEW k \in 1..Len(s)
      PROVE  TakePacket(q, x, s[k]) \in S
  <2>1. Sees(packet[p], t, TakePacket(q, x, s[k]))
    <3>1. s[k] \in Numbers(p) /\ Sees(packet[p], t, x)
      OBVIOUS
    <3> HIDE DEF S
    <3> QED BY <3>1, TakePacketSees
  <2> QED BY <2>1 DEF Sees, Right
<1>2. i \in S /\ Len(s) \in Nat
  BY DEF Sees, Right
<1>3. \A x \in S : Sees(packet[p], t, x)
  OBVIOUS
<1> HIDE DEF S
<1>4. TakePackets(q, i, s) \in S
  BY <1>1, <1>2, TakePacketsStay
<1> QED BY <1>3, <1>4

-----------------------------------------------------------------------------
(* What is acknowledged.                                                       *)
(* One direction: the packets s of a sender o, the half i of the other end     *)
(* that receives them, and the datagrams ds with its acknowledgements.         *)
Safe(s, t, o, i, ds) ==
  /\ Seen(s, i)
  /\ ds \in Seq(Datagram(All(t), i.taken))
  /\ \A n \in All(s) : MustArrive(s, n) => n \in i.taken \/ Holds(o, s[n + 1].priority, n)

SafeInv == \A p \in Peer : Safe(packet[p], packet[Other(p)], out[p], in[Other(p)], net[p])

LEMMA Direction ==
  ASSUME IInv({}), NEW p \in Peer
  PROVE  /\ packet[p] \in Seq(Packet) /\ Len(packet[p]) \in Nat /\ Sound(packet[p])
         /\ All(packet[p]) = Numbers(p) /\ All(packet[p]) \in SUBSET Nat
         /\ out[p] \in Sender(All(packet[p]), Kept(out[p]))
         /\ Right(packet[p], {}, in[Other(p)]) /\ in[Other(p)] \in Receiver(All(packet[p]))
         /\ in[Other(p)].taken \in SUBSET All(packet[p])
         /\ \A n \in All(packet[p]) : packet[p][n + 1].priority \in Priority
         /\ DOMAIN packet = Peer /\ DOMAIN out = Peer /\ DOMAIN in = Peer /\ DOMAIN net = Peer
<1>1. Sends(packet[p], out[p]) /\ Right(packet[p], {}, in[Other(p)]) /\ Len(packet[p]) \in Nat /\ Sound(packet[p])
  BY OneEnd, TwoEnds
<1>2. out[p] \in Sender(All(packet[p]), Kept(out[p])) /\ packet[p] \in Seq(Packet)
  BY <1>1, SendsOf DEF Sound, Sensible
<1>3. in[Other(p)] \in Receiver(All(packet[p]))
  BY <1>1 DEF Right, All
<1>4. in[Other(p)].taken \in SUBSET All(packet[p])
  BY <1>3, ReceiverFields
<1>5. ASSUME NEW n \in All(packet[p])
      PROVE  packet[p][n + 1].priority \in Priority
  <2>1. packet[p][n + 1] \in Packet
    BY <1>1, <1>2 DEF All
  <2> QED BY <2>1 DEF Packet
<1>6. DOMAIN packet = Peer /\ DOMAIN out = Peer /\ DOMAIN in = Peer /\ DOMAIN net = Peer
  BY DEF IInv
<1>7. All(packet[p]) = Numbers(p) /\ All(packet[p]) \in SUBSET Nat
  BY <1>1 DEF All, Numbers
<1> QED BY <1>1, <1>2, <1>3, <1>4, <1>5, <1>6, <1>7

(* The sender sends, the other end receives, the network does what it may.     *)
LEMMA SafeSender ==
  ASSUME NEW s, NEW t, NEW o, NEW i, NEW ds, Safe(s, t, o, i, ds), NEW r,
         \A n \in All(s) : MustArrive(s, n) /\ Holds(o, s[n + 1].priority, n) =>
                             n \in i.taken \/ Holds(r, s[n + 1].priority, n)
  PROVE  Safe(s, t, r, i, ds)
BY DEF Safe

LEMMA SafeReceiver ==
  ASSUME NEW s, NEW t, NEW o, NEW i, NEW ds, Safe(s, t, o, i, ds), NEW j, Seen(s, j), i.taken \subseteq j.taken
  PROVE  Safe(s, t, o, j, ds)
<1>1. ds \in Seq(Datagram(All(t), j.taken))
  <2>1. ds \in Seq(Datagram(All(t), i.taken))
    BY DEF Safe
  <2> QED BY <2>1, DatagramGrows
<1> QED BY <1>1 DEF Safe

LEMMA SafeNet ==
  ASSUME NEW s, NEW t, NEW o, NEW i, NEW ds, Safe(s, t, o, i, ds), NEW es \in Seq(Datagram(All(t), i.taken))
  PROVE  Safe(s, t, o, i, es)
BY DEF Safe

LEMMA InitSafe ==
  ASSUME Init
  PROVE  SafeInv
<1> SUFFICES ASSUME NEW p \in Peer
             PROVE  Safe(packet[p], packet[Other(p)], out[p], in[Other(p)], net[p])
  BY DEF SafeInv
<1>1. packet[p] = <<>> /\ net[p] = <<>> /\ Other(p) \in Peer
  BY TwoEnds DEF Init
<1>2. /\ in[Other(p)].base = 0 /\ in[Other(p)].received = <<>> /\ in[Other(p)].taken = {}
      /\ in[Other(p)].acks = <<>>
  BY <1>1 DEF Init
<1>3. All(<<>>) = {} /\ Len(<<>>) = 0
  BY DEF All
<1>4. Recorded(<<>>, <<>>, 0, {})
  BY <1>3 DEF Recorded, Passed, Marked, Within
<1>5. Seen(<<>>, in[Other(p)])
  BY <1>2, <1>4 DEF Seen
<1> QED BY <1>1, <1>2, <1>3, <1>5 DEF Safe

(* What is received stays as it was when more is sent.                         *)
LEMMA SeenGrows ==
  ASSUME NEW s, NEW t, Len(s) \in Nat, Len(t) \in Nat, Extends(s, t), NEW i \in Receiver(All(s)), Seen(s, i)
  PROVE  Seen(t, i)
<1>1. i.base \in Int /\ Len(i.received) \in Nat /\ i.taken \in SUBSET All(s)
  BY ReceiverFields
<1>2. Recorded(s, i.received, i.base, i.taken)
  BY DEF Seen
<1>3. Len(s) <= Len(t) /\ \A n \in All(s) : t[n + 1] = s[n + 1]
  <2>1. \A n \in All(s) : n + 1 \in 1..Len(s)
    BY DEF All
  <2> QED BY <2>1 DEF Extends
<1>4. i.base >= 0 /\ i.base + Len(i.received) <= Len(s)
  BY <1>2 DEF Recorded, Within
<1>5. Within(t, i.received, i.base)
  BY <1>1, <1>3, <1>4 DEF Within
<1>6. Passed(t, i.base, i.taken)
  <2> SUFFICES ASSUME NEW n \in All(t), n < i.base, Reliable(t[n + 1].kind)
               PROVE  n \in i.taken
    BY DEF Passed
  <2>1. n \in All(s)
    BY <1>1, <1>4 DEF All
  <2> QED BY <1>2, <1>3, <2>1 DEF Recorded, Passed
<1>7. \A n \in i.taken : MustArrive(t, n) => Arrived(t, i, n)
  BY <1>1, <1>3 DEF Seen, MustArrive, Arrived
<1> QED BY <1>2, <1>5, <1>6, <1>7 DEF Seen, Recorded

(* The new packets wait in their queue, and the old ones stay.                 *)
LEMMA SendHolds ==
  ASSUME NEW V, NEW s, Len(s) \in Nat, NEW o \in Sender(All(s), V), NEW pr \in Priority, NEW c \in Nat,
         NEW x, x = [i \in 1..c |-> Len(s) + i - 1],
         NEW r, r.queue = [o.queue EXCEPT ![pr] = o.queue[pr] \o x], r.resend = o.resend
  PROVE  /\ \A n \in All(s) : \A k \in Priority : Holds(o, k, n) => Holds(r, k, n)
         /\ \A n \in Len(s)..Len(s) + c - 1 : Holds(r, pr, n)
<1> DEFINE y == o.queue[pr]
           z == y \o x
           l == Len(s)
<1>1. y \in Seq(Int) /\ x \in Seq(Int) /\ o.queue \in [Priority -> Seq(All(s))]
  <2>1. o.queue \in [Priority -> Seq(All(s))] /\ All(s) \subseteq Int
    BY SenderFields DEF All
  <2>2. x \in [1..c -> Int]
    OBVIOUS
  <2> QED BY <2>1, <2>2
<1>2. Len(x) = c /\ \A k \in 1..c : x[k] = l + k - 1
  OBVIOUS
<1>3. /\ z \in Seq(Int) /\ Len(z) = Len(y) + Len(x)
      /\ \A k \in 1..Len(y) : z[k] = y[k]
      /\ \A k \in 1..Len(x) : z[Len(y) + k] = x[k]
  <2> HIDE DEF y
  <2>1. y \in Seq(Int) /\ x \in Seq(Int)
    BY <1>1
  <2> QED BY ONLY <2>1, ConcatElements DEF z
<1>4. Len(y) \in Nat /\ DOMAIN y = 1..Len(y)
  BY <1>1
<1>5. r.queue[pr] = z /\ \A k \in Priority : k # pr => r.queue[k] = o.queue[k]
  BY <1>1
<1> HIDE DEF y, z, l
<1>6. DOMAIN z = 1..Len(y) + c
  BY <1>2, <1>3
<1>7. ASSUME NEW n \in All(s), NEW k \in Priority, Holds(o, k, n)
      PROVE  Holds(r, k, n)
  <2>1. CASE \E j \in DOMAIN o.resend : o.resend[j].number = n
    BY <2>1 DEF Holds
  <2>2. CASE \E j \in DOMAIN o.queue[k] : o.queue[k][j] = n
    <3>1. CASE k = pr
      <4>1. PICK j \in 1..Len(y) : y[j] = n
        BY <1>4, <2>2, <3>1 DEF y
      <4>2. j \in DOMAIN z /\ z[j] = n
        BY <1>3, <1>4, <1>6, <4>1
      <4> QED BY <1>5, <3>1, <4>2 DEF Holds
    <3>2. CASE k # pr
      BY <1>5, <2>2, <3>2 DEF Holds
    <3> QED BY <3>1, <3>2
  <2> QED BY <1>7, <2>1, <2>2 DEF Holds
<1>8. ASSUME NEW n \in Len(s)..Len(s) + c - 1
      PROVE  Holds(r, pr, n)
  <2>1. l \in Nat
    BY DEF l
  <2>2. n \in l..l + c - 1
    BY DEF l
  <2>3. n - l + 1 \in 1..c /\ l + (n - l + 1) - 1 = n
    BY <2>1, <2>2
  <2>4. Len(y) + (n - l + 1) \in 1..Len(y) + c
    BY <1>4, <2>1, <2>2, <2>3
  <2>5. z[Len(y) + (n - l + 1)] = n
    BY <1>2, <1>3, <2>3, ZenonT(30)
  <2> QED BY <1>5, <1>6, <2>4, <2>5 DEF Holds
<1> QED BY <1>7, <1>8

LEMMA SendSafe ==
  ASSUME IInv({}), SafeInv, NEW p \in Peer, Send(p)
  PROVE  SafeInv'
<1> DEFINE s == packet[p]
           o == out[p]
           r == Other(p)
           t == packet'[p]
           m == Head(load.messages[p])
           x == [i \in 1..m.parts |-> Len(s) + i - 1]
<1>1. /\ out'[p].queue = [o.queue EXCEPT ![m.priority] = o.queue[m.priority] \o x]
      /\ out'[p].resend = o.resend
      /\ \E index : IsAdded(s, Len(s), m, index, t)
      /\ \A q \in Peer : q # p => out'[q] = out[q]
      /\ in' = in /\ net' = net
  <2> DEFINE index == IF Sequenced(m.kind) THEN o.sequencedWrite
                      ELSE IF m.kind = "RELIABLE_ORDERED" THEN o.orderedWrite
                      ELSE None
             next == (index + 1) % OrderModulus
             u == o.queue[m.priority] \o x
             w == IF m.kind = "RELIABLE_ORDERED" THEN next ELSE o.orderedWrite
             v == IF Sequenced(m.kind) THEN next ELSE o.sequencedWrite
             a == [o EXCEPT !.queue[m.priority] = u, !.sequencedWrite = v, !.orderedWrite = w]
             b == s \o [i \in 1..m.parts |-> [kind |-> m.kind, index |-> index, priority |-> m.priority,
                                              message |-> Len(s), part |-> i, parts |-> m.parts]]
  <2>1. out' = [out EXCEPT ![p] = a] /\ packet' = [packet EXCEPT ![p] = b] /\ in' = in /\ net' = net
    BY ZenonT(30) DEF Send
  <2>2. DOMAIN out = Peer /\ DOMAIN packet = Peer /\ o \in Sender(All(s), Kept(o))
    BY Direction
  <2>3. IsAdded(s, Len(s), m, index, b)
    BY DEF IsAdded
  <2> HIDE DEF u, w, v, index, next, b
  <2>4. a.queue = [o.queue EXCEPT ![m.priority] = u] /\ a.resend = o.resend
    BY <2>2 DEF Sender
  <2> HIDE DEF a
  <2>5. out'[p] = a /\ packet'[p] = b /\ \A q \in Peer : q # p => out'[q] = out[q]
    BY <2>1, <2>2
  <2> QED BY <2>1, <2>3, <2>4, <2>5, ZenonT(30) DEF u
<1>2. /\ OneMore(s, t) /\ Len(t) \in Nat /\ (\A q \in Peer : q # p => packet'[q] = packet[q])
  BY SendStep
<1>3. r \in Peer /\ r # p /\ Other(r) = p
  BY TwoEnds
<1>4. /\ Len(s) \in Nat /\ o \in Sender(All(s), Kept(o)) /\ in[r] \in Receiver(All(s))
      /\ s \in Seq(Packet) /\ in[r].taken \in SUBSET All(s)
  BY Direction
<1>5. m.priority \in Priority /\ m.parts \in 1..3
  <2>1. load.messages[p] \in Seq(Message) /\ load.messages[p] # <<>>
    BY ZenonT(30) DEF IInv, Send
  <2>2. m \in Message
    BY <2>1, HeadTail
  <2> QED BY <2>2, SMTT(30) DEF Message
<1>6. Safe(s, packet[r], o, in[r], net[p]) /\ Safe(packet[r], s, out[r], in[p], net[r])
  BY <1>3 DEF SafeInv
<1>7. Extends(s, t) /\ \A n \in All(s) : t[n + 1] = s[n + 1]
  <2>1. \A n \in All(s) : n + 1 \in 1..Len(s)
    BY <1>4 DEF All
  <2> QED BY <1>2, <2>1 DEF OneMore, Extends
<1>8. Len(t) = Len(s) + m.parts /\ \A n \in Len(s)..Len(s) + m.parts - 1 : t[n + 1].priority = m.priority
  <2> DEFINE l == Len(s)
             c == m.parts
             pr == m.priority
  <2>1. PICK index : IsAdded(s, Len(s), m, index, t)
    BY <1>1, ZenonT(30)
  <2> DEFINE e(i) == [kind |-> m.kind, index |-> index, priority |-> m.priority,
                      message |-> l, part |-> i, parts |-> m.parts]
             y == [i \in 1..c |-> e(i)]
             M == {e(i) : i \in 1..c} \cup Packet
  <2>2. t = s \o y
    BY <2>1 DEF IsAdded
  <2>3. s \in Seq(M) /\ y \in Seq(M) /\ Len(y) = c /\ c \in Nat /\ l \in Nat
    <3>1. c \in Nat
      BY <1>5
    <3> HIDE DEF e, c
    <3>2. Len(y) = c /\ y \in [1..c -> M]
      BY <3>1
    <3> HIDE DEF y
    <3>3. y \in Seq(M)
      BY <3>1, <3>2
    <3>4. s \in Seq(M)
      BY <1>4
    <3> QED BY <1>4, <3>1, <3>2, <3>3, <3>4
  <2>4. \A i \in 1..c : y[i].priority = pr
    OBVIOUS
  <2> HIDE DEF y, M, c, pr
  <2>5. /\ Len(t) = Len(s) + Len(y) /\ \A i \in 1..Len(y) : t[Len(s) + i] = y[i]
    <3>1. s \in Seq(M) /\ y \in Seq(M)
      BY <2>3
    <3> QED BY ONLY <2>2, <3>1, ConcatElements
  <2> HIDE DEF t, s
  <2>6. \A i \in 1..c : t[l + i].priority = pr
    BY <2>3, <2>4, <2>5 DEF l
  <2> HIDE DEF l
  <2>7. ASSUME NEW n \in l..l + c - 1
        PROVE  t[n + 1].priority = pr
    <3>1. n - l + 1 \in 1..c /\ l + (n - l + 1) = n + 1
      BY <2>3
    <3> QED BY <2>6, <3>1
  <2> QED BY <2>3, <2>5, <2>7, SMTT(30) DEF l, c, pr
<1> HIDE DEF m, x, t
<1>9. Safe(t, packet[r], out'[p], in[r], net[p])
  <2>1. Seen(t, in[r])
    BY <1>2, <1>4, <1>6, <1>7, SeenGrows DEF Safe
  <2>2. /\ \A n \in All(s) : \A k \in Priority : Holds(o, k, n) => Holds(out'[p], k, n)
        /\ \A n \in Len(s)..Len(s) + m.parts - 1 : Holds(out'[p], m.priority, n)
    <3> DEFINE b == out'[p]
               c == m.parts
               pr == m.priority
               V == Kept(o)
    <3>2. b.queue = [o.queue EXCEPT ![pr] = o.queue[pr] \o x] /\ b.resend = o.resend
      BY <1>1
    <3>3. x = [i \in 1..c |-> Len(s) + i - 1]
      BY DEF x
    <3>4. c \in Nat /\ pr \in Priority /\ Len(s) \in Nat /\ o \in Sender(All(s), V)
      BY <1>4, <1>5
    <3> HIDE DEF b, o, s, c, pr, V
    <3>5. /\ \A n \in All(s) : \A k \in Priority : Holds(o, k, n) => Holds(b, k, n)
          /\ \A n \in Len(s)..Len(s) + c - 1 : Holds(b, pr, n)
      BY ONLY <3>2, <3>3, <3>4, SendHolds
    <3> QED BY <3>5 DEF b, c, pr
  <2>3. ASSUME NEW n \in All(t), MustArrive(t, n)
        PROVE  n \in in[r].taken \/ Holds(out'[p], t[n + 1].priority, n)
    <3>1. CASE n \in All(s)
      <4>1. MustArrive(s, n) /\ s[n + 1].priority = t[n + 1].priority /\ s[n + 1].priority \in Priority
        BY <1>7, <2>3, <3>1, Direction DEF MustArrive
      <4> QED BY <1>6, <2>2, <3>1, <4>1 DEF Safe
    <3>2. CASE n \notin All(s)
      <4>1. n \in Len(s)..Len(s) + m.parts - 1
        <5> DEFINE l == Len(s)
        <5>1. n \in 0..l + m.parts - 1 /\ n \notin 0..l - 1 /\ l \in Nat /\ m.parts \in Nat
          BY <1>4, <1>5, <1>8, <3>2 DEF All
        <5> HIDE DEF l
        <5>2. n \in l..l + m.parts - 1
          BY <5>1
        <5> QED BY <5>2 DEF l
      <4> QED BY <1>8, <2>2, <4>1
    <3> QED BY <3>1, <3>2
  <2> QED BY <1>6, <2>1, <2>3 DEF Safe
<1>10. Safe(packet[r], t, out[r], in[p], net[r])
  <2>1. All(s) \in SUBSET All(t)
    BY <1>2, <1>4, <1>7, AllGrows DEF Extends
  <2>2. net[r] \in Seq(Datagram(All(t), in[p].taken))
    BY <1>6, <2>1, DatagramGrows DEF Safe
  <2> QED BY <1>6, <2>2 DEF Safe
<1>11. ASSUME NEW q \in Peer
       PROVE  Safe(packet'[q], packet'[Other(q)], out'[q], in'[Other(q)], net'[q])
  <2>1. q = p \/ q = r
    BY TwoEnds
  <2>2. CASE q = p
    BY <1>1, <1>2, <1>3, <1>9, <2>2 DEF t
  <2>3. CASE q = r
    BY <1>1, <1>2, <1>3, <1>10, <2>3 DEF t
  <2> QED BY <2>1, <2>2, <2>3
<1> QED BY <1>11 DEF SafeInv

LEMMA GiveUpSafe ==
  ASSUME IInv({}), SafeInv, NEW p \in Peer, GiveUp(p), packet' = packet
  PROVE  SafeInv'
<1> DEFINE o == out[p]
           r == [o EXCEPT !.dead = TRUE]
<1>1. out' = [out EXCEPT ![p] = r] /\ in' = in /\ net' = net
  BY DEF GiveUp
<1>2. o \in Sender(All(packet[p]), Kept(o)) /\ DOMAIN out = Peer
  BY Direction
<1>3. r.queue = o.queue /\ r.resend = o.resend
  BY <1>2 DEF Sender
<1>4. out'[p] = r /\ \A q \in Peer : q # p => out'[q] = out[q]
  BY <1>1, <1>2
<1> HIDE DEF o, r
<1>5. \A k, n : Holds(o, k, n) => Holds(r, k, n)
  BY <1>3 DEF Holds
<1>6. ASSUME NEW q \in Peer
      PROVE  Safe(packet'[q], packet'[Other(q)], out'[q], in'[Other(q)], net'[q])
  <2>1. Safe(packet[q], packet[Other(q)], out[q], in[Other(q)], net[q])
    BY DEF SafeInv
  <2>2. \A k, n : Holds(out[q], k, n) => Holds(out'[q], k, n)
    BY <1>4, <1>5 DEF o
  <2> QED BY <1>1, <2>1, <2>2, SafeSender
<1> QED BY <1>6 DEF SafeInv

LEMMA SendWhatIsDueSafe ==
  ASSUME IInv({}), SafeInv, NEW p \in Peer, SendWhatIsDue(p), packet' = packet
  PROVE  SafeInv'
<1> DEFINE r == Other(p)
           s == Updated(p)
           N == All(packet[p])
           A == in[p].taken
           V == Kept(out[p])
           i == [in[p] EXCEPT !.acks = s.acks]
           ds == net[r] \o s.sent
<1>1. /\ out' = [out EXCEPT ![p] = s.out]
      /\ in'  = [in EXCEPT ![p].acks = s.acks]
      /\ net' = IF cut THEN net ELSE [net EXCEPT ![r] = ds]
  BY DEF SendWhatIsDue
<1>2. r \in Peer /\ r # p /\ Other(r) = p
  BY TwoEnds
<1>3. /\ Len(packet[p]) \in Nat /\ out[p] \in Sender(N, V) /\ N = Numbers(p)
      /\ \A n \in N : packet[p][n + 1].priority \in Priority
      /\ DOMAIN out = Peer /\ DOMAIN in = Peer /\ DOMAIN net = Peer
  BY Direction
<1>4. in[p] \in Receiver(All(packet[r]))
  BY <1>2, Direction
<1>5. Safe(packet[p], packet[r], out[p], in[r], net[p]) /\ Safe(packet[r], packet[p], out[r], in[p], net[r])
  BY <1>2 DEF SafeInv
<1>6. in[p].acks \in Seq(Ack(A)) /\ net[r] \in Seq(Datagram(N, A))
  BY <1>5 DEF Safe, Seen
<1>7. s \in Frames(N, V, A)
  <2> HIDE DEF N, V, A
  <2> QED BY <1>3, <1>6, UpdatedTyped
<1>8. ASSUME NEW n \in N, MustArrive(packet[p], n), Holds(out[p], packet[p][n + 1].priority, n)
      PROVE  Holds(s.out, packet[p][n + 1].priority, n)
  <2> DEFINE pr == packet[p][n + 1].priority
  <2>1. Reliable(packet[p][n + 1].kind)
    BY <1>8 DEF MustArrive, Reliable
  <2>2. Holds(out[p], pr, n) /\ pr \in Priority /\ n \in Numbers(p)
    BY <1>3, <1>8
  <2> HIDE DEF pr, N, V, A
  <2>3. Holds(Updated(p).out, pr, n)
    BY <1>3, <1>6, <2>1, <2>2, UpdatedHolds
  <2> QED BY <2>3 DEF pr
<1> HIDE DEF s
<1>9. s.out \in Sender(N, V) /\ s.acks \in Seq(Ack(A)) /\ s.sent \in Seq(Datagram(N, A))
  BY <1>7 DEF Frames
<1>10. ds \in Seq(Datagram(N, A))
  BY <1>6, <1>9
<1> HIDE DEF ds
<1>11. /\ RecordFields(i) = <<in[p].base, in[p].received, s.acks, A, in[p].splits>> /\ InHand(i) = InHand(in[p])
  BY <1>4 DEF Receiver, RecordFields, InHand
<1>12. i.base = in[p].base /\ i.received = in[p].received /\ i.acks = s.acks /\ i.taken = A /\ i.splits = in[p].splits
  BY <1>11 DEF RecordFields
<1>13. out'[p] = s.out /\ out'[r] = out[r] /\ in'[p] = i /\ in'[r] = in[r] /\ net'[p] = net[p]
       /\ (net'[r] = net[r] \/ net'[r] = ds)
  BY <1>1, <1>2, <1>3
<1> HIDE DEF i
<1>14. Seen(packet[r], i)
  BY <1>5, <1>9, <1>11, <1>12 DEF Safe, Seen, Arrived
<1>15. Safe(packet[r], packet[p], out[r], i, net'[r])
  <2>1. Safe(packet[r], packet[p], out[r], i, net[r])
    BY <1>5, <1>12, <1>14, SafeReceiver
  <2>2. net'[r] \in Seq(Datagram(All(packet[p]), i.taken))
    BY <1>6, <1>10, <1>12, <1>13
  <2> QED BY <2>1, <2>2, SafeNet
<1>16. Safe(packet[p], packet[r], s.out, in[r], net[p])
  BY <1>5, <1>8, SafeSender
<1>17. ASSUME NEW q \in Peer
       PROVE  Safe(packet'[q], packet'[Other(q)], out'[q], in'[Other(q)], net'[q])
  <2>1. q = p \/ q = r
    BY TwoEnds
  <2> QED BY <1>2, <1>13, <1>15, <1>16, <2>1
<1> QED BY <1>17 DEF SafeInv

LEMMA UpdateSafe ==
  ASSUME IInv({}), SafeInv, NEW p \in Peer, Update(p)
  PROVE  SafeInv'
<1>1. packet' = packet /\ (GiveUp(p) \/ SendWhatIsDue(p))
  BY DEF Update
<1> QED BY <1>1, GiveUpSafe, SendWhatIsDueSafe

(* A datagram comes in at q.                                                   *)
LEMMA HandleSafe ==
  ASSUME IInv({}), SafeInv, MissingIsYoung, NEW q \in Peer, NEW k \in DOMAIN net[q],
         HandleSocketReceive(q, net[q][k])
  PROVE  \A p \in Peer : Safe(packet[p], packet[Other(p)], out'[p], in'[Other(p)], net[p])
<1> DEFINE r == Other(q)
           d == net[q][k]
           A == in[r].taken
           N == All(packet[q])
           V == Kept(out[q])
           a == Acknowledged(q, out[q], d.acks)
           o == Grow(a, Len(d.acks))
           i == TakePackets(q, in[q], d.packets)
<1>1. SUFFICES ASSUME ~out[q].dead
               PROVE  \A p \in Peer : Safe(packet[p], packet[Other(p)], out'[p], in'[Other(p)], net[p])
  BY DEF HandleSocketReceive, SafeInv
<1>2. out' = [out EXCEPT ![q] = o] /\ in' = [in EXCEPT ![q] = i]
  BY <1>1 DEF HandleSocketReceive
<1>3. r \in Peer /\ r # q /\ Other(r) = q
  BY TwoEnds
<1>4. /\ out[q] \in Sender(N, V) /\ N \in SUBSET Nat /\ DOMAIN out = Peer /\ DOMAIN in = Peer
  BY Direction
<1>5. Safe(packet[q], packet[r], out[q], in[r], net[q]) /\ Safe(packet[r], packet[q], out[r], in[q], net[r])
  BY <1>3 DEF SafeInv
<1>6. d.packets \in Seq(Numbers(r)) /\ d.acks \in Seq(A)
  <2>1. net[q] \in Seq(Datagram(All(packet[r]), A))
    BY <1>5 DEF Safe
  <2>2. d \in Datagram(All(packet[r]), A)
    <3> HIDE DEF A
    <3>1. k \in 1..Len(net[q])
      BY <2>1
    <3> QED BY <2>1, <3>1
  <2>3. All(packet[r]) = Numbers(r)
    BY <1>3, Direction
  <2> QED BY <2>2, <2>3 DEF Datagram
<1>7. ASSUME NEW n \in N, MustArrive(packet[q], n), NEW pr, Holds(out[q], pr, n)
      PROVE  n \in A \/ Holds(o, pr, n)
  <2>1. packet[q][n + 1].kind # "RELIABLE_SEQUENCED"
    BY <1>7 DEF MustArrive
  <2> HIDE DEF N, V, A, d
  <2>2. n \in A \/ Holds(a, pr, n)
    BY <1>4, <1>6, <1>7, <2>1, AcknowledgedHolds
  <2>3. a \in Sender(N, V)
    BY <1>4, <1>6, AcknowledgedTyped
  <2> HIDE DEF a
  <2>4. Holds(a, pr, n) => Holds(o, pr, n)
    BY <2>3, GrowHolds
  <2> QED BY <2>2, <2>4
<1>8. Sees(packet[r], in[q].taken, i)
  <2>1. net[q] # <<>>
    <3>1. net[q] \in Seq(Datagram(All(packet[r]), A))
      BY <1>5 DEF Safe
    <3> HIDE DEF A
    <3> QED BY <3>1
  <2>2. uptime[q] = Timeout /\ Young(packet[r], in[q].received, in[q].base)
    BY <2>1 DEF MissingIsYoung, Young
  <2>3. Right(packet[r], {}, in[q]) /\ Sound(packet[r])
    BY <1>3, Direction
  <2>4. Sees(packet[r], in[q].taken, in[q])
    BY <1>5, <2>2, <2>3 DEF Sees, Safe
  <2> HIDE DEF d
  <2> QED BY <1>6, <2>2, <2>3, <2>4, TakePacketsSee
<1> HIDE DEF o, i
<1>9. out'[q] = o /\ out'[r] = out[r] /\ in'[q] = i /\ in'[r] = in[r]
  BY <1>2, <1>3, <1>4
<1>10. Safe(packet[q], packet[r], o, in[r], net[q])
  BY <1>5, <1>7, SafeSender
<1>11. Safe(packet[r], packet[q], out[r], i, net[r])
  BY <1>5, <1>8, SafeReceiver DEF Sees
<1>12. \A p \in Peer : p = q \/ p = r
  BY TwoEnds
<1> QED BY <1>3, <1>9, <1>10, <1>11, <1>12

(* Some datagrams are gone.                                                    *)
LEMMA FewerSafe ==
  ASSUME NEW s, NEW t, NEW o, NEW i, NEW ds, Safe(s, t, o, i, ds), NEW k \in DOMAIN ds
  PROVE  Safe(s, t, o, i, RemoveAt(ds, k))
<1> DEFINE D == Datagram(All(t), i.taken)
<1>1. ds \in Seq(D)
  BY DEF Safe
<1> HIDE DEF D
<1>2. k \in 1..Len(ds)
  BY <1>1
<1>3. RemoveAt(ds, k) \in Seq(D)
  BY <1>1, <1>2, RemoveTyped
<1> QED BY <1>3, SafeNet DEF D

LEMMA DeliverSafe ==
  ASSUME IInv({}), SafeInv, MissingIsYoung, NEW q \in Peer, Deliver(q) \/ DeliverCopy(q)
  PROVE  SafeInv'
<1>1. /\ \E k \in DOMAIN net[q] : /\ HandleSocketReceive(q, net[q][k])
                                  /\ net' = net \/ net' = [net EXCEPT ![q] = RemoveAt(@, k)]
      /\ packet' = packet
  BY DEF Deliver, DeliverCopy
<1>2. PICK k \in DOMAIN net[q] : /\ HandleSocketReceive(q, net[q][k])
                                 /\ net' = net \/ net' = [net EXCEPT ![q] = RemoveAt(@, k)]
  BY <1>1
<1>3. \A p \in Peer : Safe(packet[p], packet[Other(p)], out'[p], in'[Other(p)], net[p])
  BY <1>2, HandleSafe
<1>4. DOMAIN net = Peer
  BY Direction
<1>5. ASSUME NEW p \in Peer
      PROVE  Safe(packet'[p], packet'[Other(p)], out'[p], in'[Other(p)], net'[p])
  <2>1. net'[p] = net[p] \/ (p = q /\ net'[p] = RemoveAt(net[q], k))
    BY <1>2, <1>4
  <2> QED BY <1>1, <1>3, <2>1, FewerSafe
<1> QED BY <1>5 DEF SafeInv

LEMMA LoseSafe ==
  ASSUME IInv({}), SafeInv, NEW q \in Peer, Lose(q)
  PROVE  SafeInv'
<1>1. PICK k \in DOMAIN net[q] : net' = [net EXCEPT ![q] = RemoveAt(@, k)]
  BY ZenonT(30) DEF Lose
<1>2. packet' = packet /\ out' = out /\ in' = in /\ DOMAIN net = Peer
  BY Direction DEF Lose
<1>3. ASSUME NEW p \in Peer
      PROVE  Safe(packet'[p], packet'[Other(p)], out'[p], in'[Other(p)], net'[p])
  <2>1. net'[p] = net[p] \/ (p = q /\ net'[p] = RemoveAt(net[q], k))
    BY <1>1, <1>2
  <2>2. Safe(packet[p], packet[Other(p)], out[p], in[Other(p)], net[p])
    BY DEF SafeInv
  <2> QED BY <1>2, <2>1, <2>2, FewerSafe
<1> QED BY <1>3 DEF SafeInv

LEMMA CutSafe ==
  ASSUME IInv({}), SafeInv, Cut
  PROVE  SafeInv'
<1>1. packet' = packet /\ out' = out /\ in' = in /\ \A p \in Peer : net'[p] = <<>>
  BY DEF Cut
<1>2. ASSUME NEW p \in Peer
      PROVE  Safe(packet'[p], packet'[Other(p)], out'[p], in'[Other(p)], net'[p])
  <2>1. Safe(packet[p], packet[Other(p)], out[p], in[Other(p)], net[p])
    BY DEF SafeInv
  <2>2. <<>> \in Seq(Datagram(All(packet[Other(p)]), in[Other(p)].taken))
    OBVIOUS
  <2>3. Safe(packet[p], packet[Other(p)], out[p], in[Other(p)], <<>>)
    BY <2>1, <2>2, SafeNet
  <2> QED BY <1>1, <2>3
<1> QED BY <1>2 DEF SafeInv

(* A unit of time goes by: everybody gets older, and what is there stays.      *)
LEMMA SeenAges ==
  ASSUME NEW s, NEW i \in Receiver(All(s)), Seen(s, i),
         NEW r, Len(r) = Len(i.received), \A k \in 1..Len(r) : r[k].hole = i.received[k].hole,
         NEW j, j = [i EXCEPT !.received = r, !.acks = Waited(i.acks)]
  PROVE  Seen(s, j) /\ j.taken = i.taken
<1>1. i.received \in Seq(Arrival) /\ i.acks \in Seq(Ack(i.taken))
  BY ReceiverFields DEF Seen
<1>2. Waited(i.acks) \in Seq(Ack(i.taken))
  BY <1>1, WaitedTyped
<1>3. /\ j.base = i.base /\ j.received = r /\ j.acks = Waited(i.acks) /\ j.taken = i.taken
      /\ j.splits = i.splits /\ InHand(j) = InHand(i)
  BY DEF Receiver, InHand
<1>4. Recorded(s, r, i.base, i.taken)
  BY DEF Seen, Recorded, Marked, Within
<1> QED BY <1>2, <1>3, <1>4 DEF Seen, Arrived

LEMMA TickSafe ==
  ASSUME IInv({}), SafeInv, Tick
  PROVE  SafeInv'
<1> DEFINE l(p) == Older(out[p].lastAck, Timeout + 1)
           w(p) == Older(out[p].sinceIncrease, 2 * ResendDelay + 1)
           o(p) == [out[p] EXCEPT !.lastAck = l(p), !.sinceIncrease = w(p), !.resend = Waited(out[p].resend)]
           r(p) == [k \in DOMAIN in[p].received |->
                      [hole |-> in[p].received[k].hole, age |-> Older(in[p].received[k].age, Timeout + 1)]]
           i(p) == [in[p] EXCEPT !.received = r(p), !.acks = Waited(in[p].acks)]
           ds(p) == [k \in DOMAIN net[p] |-> [net[p][k] EXCEPT !.age = net[p][k].age + 1]]
<1>1. /\ out' = [p \in Peer |-> o(p)] /\ in' = [p \in Peer |-> i(p)] /\ net' = [p \in Peer |-> ds(p)]
      /\ packet' = packet
  BY DEF Tick
<1>2. ASSUME NEW p \in Peer
      PROVE  Safe(packet[p], packet[Other(p)], o(p), i(Other(p)), ds(p))
  <2> DEFINE q == Other(p)
             D == Datagram(All(packet[q]), in[q].taken)
  <2>1. Safe(packet[p], packet[q], out[p], in[q], net[p])
    BY DEF SafeInv
  <2>2. out[p] \in Sender(All(packet[p]), Kept(out[p])) /\ in[q] \in Receiver(All(packet[p]))
    BY Direction
  <2>3. \A pr, n : Holds(out[p], pr, n) => Holds(o(p), pr, n)
    <3> HIDE DEF l, w
    <3> QED BY <2>2, TickHolds
  <2>4. Seen(packet[p], i(q)) /\ i(q).taken = in[q].taken
    <3> DEFINE s == packet[p]
               x == in[q]
               u == r(q)
               y == i(q)
    <3>1. Len(u) = Len(x.received) /\ \A k \in 1..Len(u) : u[k].hole = x.received[k].hole
      <4>1. x.received \in Seq(Arrival)
        BY <2>2, ReceiverFields
      <4> QED BY <4>1
    <3>2. y = [x EXCEPT !.received = u, !.acks = Waited(x.acks)]
      OBVIOUS
    <3>3. Seen(s, x) /\ x \in Receiver(All(s))
      BY <2>1, <2>2 DEF Safe
    <3> HIDE DEF s, x, u, y
    <3>4. Seen(s, y) /\ y.taken = x.taken
      BY ONLY <3>1, <3>2, <3>3, SeenAges, ZenonT(30)
    <3> QED BY <3>4 DEF s, x, y
  <2>5. ds(p) \in Seq(D)
    <3>1. net[p] \in Seq(D)
      BY <2>1 DEF Safe
    <3> QED BY <3>1, DatagramsAge
  <2> HIDE DEF o, i, ds
  <2>6. Safe(packet[p], packet[q], o(p), in[q], ds(p))
    BY <2>1, <2>3, <2>5, SafeSender, SafeNet
  <2> QED BY <2>4, <2>6, SafeReceiver
<1> HIDE DEF o, i, ds
<1>3. ASSUME NEW p \in Peer
      PROVE  Safe(packet'[p], packet'[Other(p)], out'[p], in'[Other(p)], net'[p])
  <2>1. Other(p) \in Peer
    BY TwoEnds
  <2> QED BY <1>1, <1>2, <2>1
<1> QED BY <1>3 DEF SafeInv

LEMMA StepSafe ==
  ASSUME IInv({}), SafeInv, MissingIsYoung, [Next]_vars
  PROVE  SafeInv'
<1>1. ASSUME NEW p \in Peer, Send(p) PROVE SafeInv'
  BY <1>1, SendSafe
<1>2. ASSUME NEW p \in Peer, Update(p) PROVE SafeInv'
  BY <1>2, UpdateSafe
<1>3. ASSUME NEW p \in Peer, Deliver(p) \/ DeliverCopy(p) PROVE SafeInv'
  BY <1>3, DeliverSafe
<1>4. ASSUME NEW p \in Peer, Lose(p) PROVE SafeInv'
  BY <1>4, LoseSafe
<1>5. CASE Cut
  BY <1>5, CutSafe
<1>6. CASE Tick
  BY <1>6, TickSafe
<1>7. CASE UNCHANGED vars
  BY <1>7 DEF vars, SafeInv
<1> QED BY <1>1, <1>2, <1>3, <1>4, <1>5, <1>6, <1>7 DEF Next

(* What a layer no longer keeps, because it was acknowledged, is at the other  *)
(* end: among the parts of a message that is not whole yet, in the             *)
(* orderingList, or with the game.  A reliable packet that is neither waits in *)
(* its queue or in the resendQueue.  This is so as long as receivedPackets     *)
(* forgets no reliable packet that is missing: the clock shows a timeout, and  *)
(* what is missing has not been for longer than TIMEOUT_TIME.                  *)
THEOREM AcknowledgedStays ==
  Spec /\ []MissingIsYoung => []AcknowledgedIsThere
<1>1. Init => SafeInv
  BY InitSafe
<1>2. IInv({}) /\ SafeInv /\ MissingIsYoung /\ [Next]_vars => SafeInv'
  BY StepSafe
<1>3. IInv({}) /\ SafeInv => AcknowledgedIsThere
  <2> SUFFICES ASSUME IInv({}), SafeInv, NEW p \in Peer, NEW n \in 0..Len(packet[p]) - 1,
                      MustArrive(packet[p], n)
               PROVE  LET m == packet[p][n + 1]
                          i == in[Other(p)]
                      IN \/ Holds(out[p], m.priority, n)
                         \/ Arrived(packet[p], i, n)
    BY DEF AcknowledgedIsThere, MustArrive, Holds, Arrived, InHand
  <2>1. Safe(packet[p], packet[Other(p)], out[p], in[Other(p)], net[p])
    BY DEF SafeInv
  <2>2. n \in in[Other(p)].taken \/ Holds(out[p], packet[p][n + 1].priority, n)
    BY <2>1 DEF Safe, All
  <2>3. n \in in[Other(p)].taken => Arrived(packet[p], in[Other(p)], n)
    BY <2>1 DEF Safe, Seen
  <2> QED BY <2>2, <2>3
<1> QED BY <1>1, <1>2, <1>3, Invariance, PTL DEF Spec
================================================================================
