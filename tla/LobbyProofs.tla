------------------------------ MODULE LobbyProofs ------------------------------
(* Theorems about Lobby and its MatchMaker, for any number of players, games,  *)
(* requests and departures.                                                    *)
EXTENDS Lobby, Induction

-----------------------------------------------------------------------------
(* The matchmaker's record, and sending.                                       *)

IsRecord(m) ==
  /\ m = [mOpenGames |-> m.mOpenGames, mIDCounter |-> m.mIDCounter, mPlayerMap |-> m.mPlayerMap,
          mAllowNewGames |-> m.mAllowNewGames, inGame |-> m.inGame, links |-> m.links,
          toClient |-> m.toClient]
  /\ m.mOpenGames = [id \in DOMAIN m.mOpenGames |-> m.mOpenGames[id]]

(* Everybody who sits in an open game is waiting, and sits there once.         *)
SeatedOnce(m) ==
  \A id \in DOMAIN m.mOpenGames :
    /\ PlayersOf(m.mOpenGames[id]) \subseteq m.mPlayerMap
    /\ m.mOpenGames[id].creator \notin Range(m.mOpenGames[id].connected)
    /\ IsInjective(m.mOpenGames[id].connected)
    /\ \A other \in DOMAIN m.mOpenGames \ {id} :
         PlayersOf(m.mOpenGames[id]) \cap PlayersOf(m.mOpenGames[other]) = {}

Good(m) == IsRecord(m) /\ IsMatchMaker(m) /\ SeatedOnce(m)

(* Nothing but the packets under way has changed.                              *)
OnlySent(m, n) ==
  /\ IsRecord(n)
  /\ n.mOpenGames = m.mOpenGames /\ n.mIDCounter = m.mIDCounter /\ n.mPlayerMap = m.mPlayerMap
  /\ n.mAllowNewGames = m.mAllowNewGames /\ n.inGame = m.inGame /\ n.links = m.links
  /\ n.toClient \in [Client -> Seq(ServerMessage)]

LEMMA OnlySentGood ==
  ASSUME NEW m, NEW n, Good(m), OnlySent(m, n)
  PROVE  Good(n)
<1>1. IsMatchMaker(n)
  BY DEF Good, OnlySent, IsMatchMaker
<1>2. SeatedOnce(n)
  BY DEF Good, OnlySent, SeatedOnce
<1> QED BY <1>1, <1>2 DEF Good, OnlySent

LEMMA OnlySentTwice ==
  ASSUME NEW m, NEW n, NEW k, OnlySent(m, n), OnlySent(n, k)
  PROVE  OnlySent(m, k)
BY DEF OnlySent

(* What one packet adds to what is under way to c.                             *)
Sent(m, players, msg, c) ==
  IF c \in players /\ c \in m.links THEN Append(m.toClient[c], msg) ELSE m.toClient[c]

LEMMA SendPacket ==
  ASSUME NEW m, IsRecord(m), m.toClient \in [Client -> Seq(ServerMessage)],
         NEW players, NEW msg \in ServerMessage
  PROVE  /\ OnlySent(m, sendPacket(m, players, msg))
         /\ \A c \in Client : sendPacket(m, players, msg).toClient[c] = Sent(m, players, msg, c)
<1> DEFINE out == [c \in Client |-> IF c \in players \cap m.links
                                    THEN Append(m.toClient[c], msg) ELSE m.toClient[c]]
<1>1. \A c \in Client : out[c] = Sent(m, players, msg, c) /\ out[c] \in Seq(ServerMessage)
  BY DEF Sent
<1>2. out \in [Client -> Seq(ServerMessage)]
  BY <1>1
<1>3. sendPacket(m, players, msg) = [m EXCEPT !.toClient = out]
  BY DEF sendPacket
<1> HIDE DEF out
<1>4. OnlySent(m, [m EXCEPT !.toClient = out]) /\ [m EXCEPT !.toClient = out].toClient = out
  BY <1>2 DEF OnlySent, IsRecord
<1> QED BY <1>1, <1>3, <1>4

(* The messages the matchmaker sends.                                          *)
Listed(m)      == [type |-> "SERVER_STATUS", games |-> DOMAIN m.mOpenGames]
Status(m, id)  == [type |-> "GAME_STATUS", id |-> id, creator |-> m.mOpenGames[id].creator,
                   connected |-> m.mOpenGames[id].connected]
Removed(id)    == [type |-> "REMOVED_FROM_GAME", id |-> id]
Rules          == [type |-> "RULES_CHECKSUM"]

LEMMA MessageTypes ==
  /\ \A m : IsMatchMaker(m) => Listed(m) \in ServerMessage
  /\ \A m : \A id \in DOMAIN m.mOpenGames : IsMatchMaker(m) => Status(m, id) \in ServerMessage
  /\ \A id \in GameID : Removed(id) \in ServerMessage
  /\ Rules \in ServerMessage
<1>1. ASSUME NEW m, IsMatchMaker(m)
      PROVE  Listed(m) \in ServerMessage
  BY <1>1 DEF IsMatchMaker, Listed, ServerMessage, GameID
<1>2. ASSUME NEW m, NEW id \in DOMAIN m.mOpenGames, IsMatchMaker(m)
      PROVE  Status(m, id) \in ServerMessage
  BY <1>2 DEF IsMatchMaker, Status, ServerMessage, GameID, OpenGame
<1>3. \A id \in GameID : Removed(id) \in ServerMessage
  BY DEF Removed, ServerMessage
<1>4. Rules \in ServerMessage
  BY DEF Rules, ServerMessage
<1> QED BY <1>1, <1>2, <1>3, <1>4

-----------------------------------------------------------------------------
(* Leaving the games.                                                          *)

(* Who sits in a game of m.                                                    *)
Sits(m, p) == \E id \in DOMAIN m.mOpenGames : p \in PlayersOf(m.mOpenGames[id])

LEMMA Erase ==
  ASSUME NEW s \in Seq(Client), IsInjective(s), NEW e \in Range(s)
  PROVE  /\ EraseFirst(s, e) \in Seq(Client)
         /\ IsInjective(EraseFirst(s, e))
         /\ Range(EraseFirst(s, e)) = Range(s) \ {e}
<1> DEFINE at == CHOOSE i \in DOMAIN s : s[i] = e /\ \A j \in 1..(i - 1) : s[j] # e
<1>1. DOMAIN s = 1..Len(s) /\ Len(s) \in Nat
  OBVIOUS
<1>2. PICK k \in DOMAIN s : s[k] = e
  BY DEF Range
<1>3. \A i, j \in DOMAIN s : s[i] = s[j] => i = j
  BY DEF IsInjective
<1>4. \A j \in 1..(k - 1) : j \in DOMAIN s /\ j # k
  BY <1>1, <1>2
<1>5. at \in DOMAIN s /\ s[at] = e
  BY <1>2, <1>3, <1>4
<1> DEFINE a == SubSeq(s, 1, at - 1)
           b == SubSeq(s, at + 1, Len(s))
           r == a \o b
<1>6. EraseFirst(s, e) = r
  BY DEF EraseFirst
<1> HIDE DEF at
<1>7. a \in Seq(Client) /\ Len(a) = at - 1 /\ \A i \in 1..at - 1 : a[i] = s[i]
  BY <1>1, <1>5
<1>8. b \in Seq(Client) /\ Len(b) = Len(s) - at /\ \A i \in 1..Len(s) - at : b[i] = s[(at + 1) + i - 1]
  <2>1. at + 1 \in Nat \ {0} /\ Len(s) \in 0..Len(s) /\ at + 1 <= Len(s) + 1
        /\ Len(s) - (at + 1) + 1 = Len(s) - at
    BY <1>1, <1>5
  <2> QED BY <2>1, SubSeqElements
<1> HIDE DEF a, b
<1>9. /\ r \in Seq(Client) /\ Len(r) = Len(s) - 1 /\ DOMAIN r = 1..Len(s) - 1
      /\ \A i \in 1..Len(s) - 1 : r[i] = IF i < at THEN s[i] ELSE s[i + 1]
  <2>1. r \in Seq(Client) /\ Len(r) = Len(a) + Len(b)
    BY <1>7, <1>8, ConcatElements
  <2>2. Len(r) = Len(s) - 1 /\ DOMAIN r = 1..Len(r)
    BY <2>1, <1>1, <1>5, <1>7, <1>8
  <2>3. \A i \in 1..at - 1 : r[i] = s[i]
    BY <1>7, <1>8, ConcatElements
  <2>4. \A i \in 1..Len(s) - at : r[(at - 1) + i] = s[(at + 1) + i - 1]
    BY <1>7, <1>8, ConcatElements
  <2>5. Len(s) \in Nat /\ at \in 1..Len(s)
    BY <1>1, <1>5
  <2>6. \A i \in 1..Len(s) - 1 : r[i] = IF i < at THEN s[i] ELSE s[i + 1]
    <3> DEFINE n == Len(s)
    <3>1. n \in Nat /\ at \in 1..n
      BY <2>5
    <3>2. Skips(n, at, s, r)
      BY <2>3, <2>4 DEF Skips
    <3> HIDE DEF n, r
    <3>3. \A i \in 1..n - 1 : r[i] = IF i < at THEN s[i] ELSE s[i + 1]
      BY <3>1, <3>2, Skipped
    <3> QED BY <3>3 DEF n
  <2> QED BY <2>1, <2>2, <2>6
<1> HIDE DEF r
<1>10. IsInjective(r)
  <2> SUFFICES ASSUME NEW i \in DOMAIN r, NEW j \in DOMAIN r, r[i] = r[j]
               PROVE  i = j
    BY DEF IsInjective
  <2> DEFINE place(x) == IF x < at THEN x ELSE x + 1
  <2>1. /\ i \in Int /\ j \in Int /\ at \in Int
        /\ place(i) \in DOMAIN s /\ place(j) \in DOMAIN s /\ r[i] = s[place(i)] /\ r[j] = s[place(j)]
    BY <1>1, <1>5, <1>9
  <2>2. place(i) = place(j)
    <3> HIDE DEF place
    <3> QED BY <1>3, <2>1
  <2> QED BY <2>1, <2>2
<1>11. Range(r) = Range(s) \ {e}
  <2>1. ASSUME NEW i \in 1..Len(s) - 1
        PROVE  r[i] \in Range(s) /\ r[i] # e
    <3>1. i \in DOMAIN s /\ i + 1 \in DOMAIN s /\ i \in Int /\ at \in Int
      BY <1>1, <1>5
    <3> QED BY <1>3, <1>5, <1>9, <3>1 DEF Range
  <2>2. ASSUME NEW i \in DOMAIN s, s[i] # e
        PROVE  s[i] \in Range(r)
    <3>1. i \in Int /\ i >= 1 /\ i <= Len(s) /\ at \in Int /\ i # at /\ at >= 1 /\ at <= Len(s)
      BY <1>1, <1>5, <2>2
    <3>2. CASE i < at
      <4>1. i \in 1..Len(s) - 1 /\ r[i] = s[i]
        BY <1>1, <1>9, <3>1, <3>2
      <4> QED BY <1>9, <4>1 DEF Range
    <3>3. CASE i > at
      <4>1. i - 1 \in 1..Len(s) - 1 /\ r[i - 1] = s[i]
        BY <1>1, <1>9, <3>1, <3>3
      <4> QED BY <1>9, <4>1 DEF Range
    <3> QED BY <3>1, <3>2, <3>3
  <2> QED BY <1>9, <2>1, <2>2 DEF Range
<1> QED BY <1>6, <1>9, <1>10, <1>11
-----------------------------------------------------------------------------
(* Reading.  A set of views that no message leads out of.                      *)
Closed(S) == \A v \in S, msg \in ServerMessage : receive(v, msg) \in S

(* The views one after the other, while the messages are read.                 *)
IsReading(S, t, v, q) ==
  /\ t \in [0..Len(q) -> S]
  /\ t[0] = v
  /\ \A i \in 1..Len(q) : t[i] = receive(t[i - 1], q[i])

LEMMA Reading ==
  ASSUME NEW S, Closed(S), NEW v \in S, NEW q \in Seq(ServerMessage)
  PROVE  \E t : IsReading(S, t, v, q) /\ FoldLeft(receive, v, q) = t[Len(q)]
<1> DEFINE F == [x \in S \X ServerMessage |-> receive(x[1], x[2])]
<1>1. F \in [S \X ServerMessage -> S]
  BY DEF Closed
<1>2. \A x \in S, msg \in ServerMessage : F[<<x, msg>>] = receive(x, msg)
  OBVIOUS
<1>3. DOMAIN q = 1..Len(q) /\ Len(q) \in Nat /\ \A i \in 1..Len(q) : q[i] \in ServerMessage
  OBVIOUS
<1>4. PICK g : IsTable(g, S, F, v, q)
  <2> HIDE DEF F
  <2> QED BY <1>1, TableExists
<1> HIDE DEF F
<1>5. \A s \in SUBSET (1..Len(q)) : s # {} => Max(s) \in 1..Len(q) /\ s \ {Max(s)} \in SUBSET (1..Len(q))
  BY <1>3, LastPosition
<1>6. \A s \in SUBSET (1..Len(q)) : g[s] = IF s = {} THEN v ELSE receive(g[s \ {Max(s)}], q[Max(s)])
  BY <1>2, <1>3, <1>4, <1>5 DEF IsTable
<1> DEFINE G == [s \in SUBSET (1..Len(q)) |-> IF s = {} THEN v ELSE receive(g[s \ {Max(s)}], q[Max(s)])]
<1>7. g = G
  BY <1>4, <1>6 DEF IsTable
<1> HIDE DEF G
<1>8. ASSUME NEW h, h = [s \in SUBSET (1..Len(q)) |-> IF s = {} THEN v ELSE receive(h[s \ {Max(s)}], q[Max(s)])]
      PROVE  h = g
  <2>1. \A s \in SUBSET (1..Len(q)) : h[s] = IF s = {} THEN v ELSE receive(h[s \ {Max(s)}], q[Max(s)])
    BY <1>8
  <2>2. {} \in SUBSET (1..Len(q))
    OBVIOUS
  <2>3. h[{}] = g[{}]
    BY <2>1, <2>2, <1>6
  <2>4. \A s \in SUBSET (1..Len(q)) : s # {} /\ h[s \ {Max(s)}] = g[s \ {Max(s)}] => h[s] = g[s]
    BY <2>1, <1>6
  <2>5. \A s \in SUBSET (1..Len(q)) : h[s] = g[s]
    <3>1. SameRule(Len(q), h, g)
      BY <2>3, <2>4 DEF SameRule
    <3> QED BY <3>1, <1>3, TableUnique DEF SameEntries
  <2>6. DOMAIN h = SUBSET (1..Len(q)) /\ h = [s \in SUBSET (1..Len(q)) |-> h[s]]
    BY <1>8
  <2>7. g = [s \in SUBSET (1..Len(q)) |-> g[s]]
    BY <1>4 DEF IsTable
  <2> QED BY <2>5, <2>6, <2>7
<1>9. FoldLeft(receive, v, q) = g[1..Len(q)]
  <2>1. FoldLeft(receive, v, q) =
          (CHOOSE h : h = [s \in SUBSET DOMAIN q |->
                             IF s = {} THEN v ELSE receive(h[s \ {Max(s)}], q[Max(s)])])[DOMAIN q]
    BY DEF FoldLeft, MapThenFoldSet
  <2>2. (CHOOSE h : h = [s \in SUBSET (1..Len(q)) |->
                           IF s = {} THEN v ELSE receive(h[s \ {Max(s)}], q[Max(s)])]) = g
    BY <1>7, <1>8 DEF G
  <2> QED BY <2>1, <2>2, <1>3
<1> DEFINE t == [i \in 0..Len(q) |-> g[1..i]]
<1>10. \A i \in 0..Len(q) : 1..i \in SUBSET (1..Len(q))
  BY <1>3
<1>11. t \in [0..Len(q) -> S]
  BY <1>4, <1>10 DEF IsTable
<1>12. t[0] = v
  <2>1. 1..0 = {} /\ 0 \in 0..Len(q)
    BY <1>3
  <2> QED BY <2>1, <1>6, <1>10
<1>13. ASSUME NEW i \in 1..Len(q)
       PROVE  t[i] = receive(t[i - 1], q[i])
  <2>1. 1..i # {} /\ 1..i \in SUBSET (1..Len(q)) /\ i - 1 \in 0..Len(q) /\ i \in 0..Len(q)
    <3>1. i \in Int /\ 1 <= i /\ i <= Len(q)
      BY <1>3
    <3>2. i \in 1..i
      BY <3>1
    <3>3. 1..i \in SUBSET (1..Len(q))
      BY <3>1, <1>3
    <3>4. i - 1 \in 0..Len(q) /\ i \in 0..Len(q)
      BY <3>1, <1>3
    <3> QED BY <3>2, <3>3, <3>4
  <2>2. Max(1..i) = i
    <3>1. Max(1..i) \in 1..i /\ \A k \in 1..i : k <= Max(1..i)
      BY <2>1, <1>3, LastPosition
    <3> QED BY <3>1
  <2>3. (1..i) \ {i} = 1..i - 1
    OBVIOUS
  <2>4. g[1..i] = receive(g[1..i - 1], q[i])
    BY <1>6, <2>1, <2>2, <2>3
  <2> QED BY <2>1, <2>4
<1>14. FoldLeft(receive, v, q) = t[Len(q)]
  BY <1>9, <1>3
<1> HIDE DEF t
<1> QED BY <1>11, <1>12, <1>13, <1>14 DEF IsReading

(* There is only one such row of views.                                        *)
LEMMA ReadingUnique ==
  ASSUME NEW S, Closed(S), NEW v \in S, NEW q \in Seq(ServerMessage), NEW t, IsReading(S, t, v, q)
  PROVE  FoldLeft(receive, v, q) = t[Len(q)] /\ FoldLeft(receive, v, q) \in S
<1>1. PICK u : IsReading(S, u, v, q) /\ FoldLeft(receive, v, q) = u[Len(q)]
  BY Reading
<1>2. Len(q) \in Nat /\ t[0] = u[0]
  BY <1>1 DEF IsReading
<1>3. \A i \in 1..Len(q) : t[i - 1] = u[i - 1] => t[i] = u[i]
  BY <1>1 DEF IsReading
<1>4. \A i \in 0..Len(q) : t[i] = u[i]
  BY <1>2, <1>3, TraceUnique
<1>5. t[Len(q)] = u[Len(q)] /\ t[Len(q)] \in S
  BY <1>2, <1>4 DEF IsReading
<1> QED BY <1>1, <1>5

LEMMA ReadNothing ==
  ASSUME NEW S, Closed(S), NEW v \in S
  PROVE  FoldLeft(receive, v, <<>>) = v
<1>1. <<>> \in Seq(ServerMessage) /\ Len(<<>>) = 0
  OBVIOUS
<1>2. PICK t : IsReading(S, t, v, <<>>) /\ FoldLeft(receive, v, <<>>) = t[Len(<<>>)]
  BY <1>1, Reading
<1> QED BY <1>1, <1>2 DEF IsReading

(* What has been sent last is read last ...                                    *)
LEMMA ReadLast ==
  ASSUME NEW S, Closed(S), NEW v \in S, NEW q \in Seq(ServerMessage), NEW msg \in ServerMessage
  PROVE  FoldLeft(receive, v, Append(q, msg)) = receive(FoldLeft(receive, v, q), msg)
<1> DEFINE p == Append(q, msg)
<1>1. p \in Seq(ServerMessage) /\ Len(p) = Len(q) + 1 /\ Len(q) \in Nat /\ p[Len(q) + 1] = msg
      /\ \A i \in 1..Len(q) : p[i] = q[i]
  OBVIOUS
<1> HIDE DEF p
<1>2. PICK t : IsReading(S, t, v, p) /\ FoldLeft(receive, v, p) = t[Len(p)]
  BY <1>1, Reading
<1> DEFINE u == [i \in 0..Len(q) |-> t[i]]
<1>3. IsReading(S, u, v, q)
  <2>1. u \in [0..Len(q) -> S]
    BY <1>1, <1>2 DEF IsReading
  <2>2. u[0] = v
    BY <1>1, <1>2 DEF IsReading
  <2>3. ASSUME NEW i \in 1..Len(q)
        PROVE  u[i] = receive(u[i - 1], q[i])
    <3>1. i \in 1..Len(p) /\ i - 1 \in 0..Len(q) /\ i \in 0..Len(q)
      BY <1>1
    <3>2. t[i] = receive(t[i - 1], p[i])
      BY <3>1, <1>2 DEF IsReading
    <3> QED BY <3>1, <3>2, <1>1
  <2> HIDE DEF u
  <2> QED BY <2>1, <2>2, <2>3 DEF IsReading
<1>4. FoldLeft(receive, v, q) = t[Len(q)]
  <2>1. FoldLeft(receive, v, q) = u[Len(q)]
    <3> HIDE DEF u
    <3> QED BY <1>3, ReadingUnique
  <2> QED BY <2>1, <1>1
<1>5. t[Len(q) + 1] = receive(t[Len(q)], p[Len(q) + 1])
  <2>1. Len(q) + 1 \in 1..Len(p) /\ (Len(q) + 1) - 1 = Len(q)
    BY <1>1
  <2> QED BY <2>1, <1>2 DEF IsReading
<1>6. FoldLeft(receive, v, p) = receive(FoldLeft(receive, v, q), msg)
  BY <1>1, <1>2, <1>4, <1>5
<1> QED BY <1>6 DEF p

(* ... and the first message first.                                            *)
LEMMA ReadFirst ==
  ASSUME NEW S, Closed(S), NEW v \in S, NEW q \in Seq(ServerMessage), q # <<>>
  PROVE  FoldLeft(receive, v, q) = FoldLeft(receive, receive(v, Head(q)), Tail(q))
<1>1. /\ Tail(q) \in Seq(ServerMessage) /\ Len(q) \in Nat /\ Len(q) >= 1
      /\ Len(Tail(q)) = Len(q) - 1 /\ Head(q) = q[1] /\ q[1] \in ServerMessage
      /\ \A i \in 1..Len(q) - 1 : Tail(q)[i] = q[i + 1]
  OBVIOUS
<1>2. PICK t : IsReading(S, t, v, q) /\ FoldLeft(receive, v, q) = t[Len(q)]
  BY Reading
<1> DEFINE p == Tail(q)
           w == receive(v, Head(q))
           u == [i \in 0..Len(p) |-> t[i + 1]]
<1>3. IsReading(S, u, w, p)
  <2>1. u \in [0..Len(p) -> S]
    BY <1>1, <1>2 DEF IsReading
  <2>2. u[0] = w
    BY <1>1, <1>2 DEF IsReading
  <2>3. ASSUME NEW i \in 1..Len(p)
        PROVE  u[i] = receive(u[i - 1], p[i])
    <3>1. /\ i + 1 \in 1..Len(q) /\ i - 1 \in 0..Len(p) /\ i \in 0..Len(p)
          /\ (i + 1) - 1 = i /\ (i - 1) + 1 = i /\ i \in 1..Len(q) - 1
      BY <1>1
    <3>2. t[i + 1] = receive(t[i], q[i + 1])
      BY <3>1, <1>2 DEF IsReading
    <3> QED BY <3>1, <3>2, <1>1
  <2> HIDE DEF u, w, p
  <2> QED BY <2>1, <2>2, <2>3 DEF IsReading
<1>4. w \in S
  BY <1>1 DEF Closed
<1>5. FoldLeft(receive, w, p) = u[Len(p)]
  <2>1. p \in Seq(ServerMessage)
    BY <1>1
  <2> HIDE DEF u, w, p
  <2> QED BY <1>3, <1>4, <2>1, ReadingUnique
<1>6. u[Len(p)] = t[Len(q)]
  BY <1>1
<1> QED BY <1>2, <1>5, <1>6

LEMMA ReadClosed ==
  ASSUME NEW S, Closed(S), NEW v \in S, NEW q \in Seq(ServerMessage)
  PROVE  FoldLeft(receive, v, q) \in S
<1>1. PICK t : IsReading(S, t, v, q)
  BY Reading
<1> QED BY <1>1, ReadingUnique

(* Whoever has been told that the match starts ignores the lobby from then on. *)
Plays(v) == v.state \in {"SWITCHING", "PLAYING"}
Players  == {v \in View : Plays(v)}

LEMMA MessageShape ==
  ASSUME NEW msg \in ServerMessage
  PROVE  \/ msg.type = "SERVER_STATUS" /\ msg.games \in SUBSET GameID
         \/ msg.type = "GAME_STATUS" /\ msg \in Substate
         \/ msg.type \in {"REMOVED_FROM_GAME", "RULES_CHECKSUM"}
BY DEF ServerMessage, Substate

LEMMA ReceiveView == Closed(View)
<1> SUFFICES ASSUME NEW v \in View, NEW msg \in ServerMessage
             PROVE  receive(v, msg) \in View
  BY DEF Closed
<1>1. Main \in Substate
  BY DEF Substate
<1>2. v.sub \in Substate
  BY DEF View
<1>3. CASE msg.type = "SERVER_STATUS"
  <2>1. msg.games \in SUBSET GameID
    BY <1>3, MessageShape
  <2> DEFINE k == IF v.configured THEN v.sub ELSE Main
             s == IF v.state = "SWITCHING" THEN v.state ELSE "CONNECTED"
  <2>2. k \in Substate /\ s \in ViewState
    BY <1>1, <1>2 DEF ViewState
  <2>3. receive(v, msg) = IF v.state = "PLAYING" THEN v
                          ELSE [v EXCEPT !.state = s, !.games = msg.games, !.configured = TRUE, !.sub = k]
    BY <1>3 DEF receive
  <2> HIDE DEF k, s
  <2> QED BY <2>1, <2>2, <2>3 DEF View
<1>4. CASE msg.type # "SERVER_STATUS"
  <2> DEFINE k == IF msg.type = "GAME_STATUS" THEN msg ELSE Main
             s == IF v.state = "SWITCHING" THEN v.state ELSE "CONNECTED"
  <2>1. k \in Substate /\ s \in ViewState /\ "SWITCHING" \in ViewState
    BY <1>1, MessageShape DEF ViewState
  <2>2. receive(v, msg) = IF v.state = "PLAYING" THEN v
                          ELSE IF msg.type = "RULES_CHECKSUM" THEN [v EXCEPT !.state = "SWITCHING"]
                          ELSE [v EXCEPT !.state = s, !.sub = k]
    BY <1>4 DEF receive
  <2> HIDE DEF k, s
  <2> QED BY <2>1, <2>2 DEF View
<1> QED BY <1>3, <1>4

(* What a message does to a client that is still in the lobby.                 *)
LEMMA ReceiveEffect ==
  ASSUME NEW v \in View, NEW msg \in ServerMessage
  PROVE  LET r == receive(v, msg)
         IN /\ Plays(v) => Plays(r)
            /\ msg.type = "RULES_CHECKSUM" => Plays(r)
            /\ ~Plays(v) /\ msg.type = "SERVER_STATUS" =>
                 /\ r.state = "CONNECTED" /\ r.configured = TRUE /\ r.games = msg.games
                 /\ v.configured = TRUE => r.sub = v.sub
                 /\ v.configured = FALSE => r.sub = Main
            /\ ~Plays(v) /\ msg.type = "GAME_STATUS" =>
                 /\ r.state = "CONNECTED" /\ r.games = v.games /\ r.sub = msg
                 /\ v.configured = TRUE => r.configured = TRUE
            /\ ~Plays(v) /\ msg.type = "REMOVED_FROM_GAME" =>
                 /\ r.state = "CONNECTED" /\ r.games = v.games /\ r.sub = Main
                 /\ v.configured = TRUE => r.configured = TRUE
BY DEF receive, Plays, View

LEMMA ReceivePlaying == Closed(Players)
<1> SUFFICES ASSUME NEW v \in Players, NEW msg \in ServerMessage
             PROVE  receive(v, msg) \in Players
  BY DEF Closed
<1>1. v \in View /\ Plays(v)
  BY DEF Players
<1>2. receive(v, msg) \in View
  BY <1>1, ReceiveView DEF Closed
<1>3. Plays(receive(v, msg))
  BY <1>1, ReceiveEffect
<1> QED BY <1>2, <1>3 DEF Players

(* Parts of a queue.                                                           *)
LEMMA PrefixAppend ==
  ASSUME NEW q \in Seq(ServerMessage), NEW msg \in ServerMessage, NEW i \in 0..Len(q)
  PROVE  SubSeq(Append(q, msg), 1, i) = SubSeq(q, 1, i)
OBVIOUS

LEMMA PrefixAll ==
  ASSUME NEW q \in Seq(ServerMessage)
  PROVE  SubSeq(q, 1, Len(q)) = q
OBVIOUS

LEMMA PrefixTail ==
  ASSUME NEW q \in Seq(ServerMessage), NEW i \in 1..Len(q)
  PROVE  /\ SubSeq(q, 1, i) \in Seq(ServerMessage) /\ SubSeq(q, 1, i) # <<>>
         /\ Head(SubSeq(q, 1, i)) = Head(q)
         /\ SubSeq(Tail(q), 1, i - 1) = Tail(SubSeq(q, 1, i))
OBVIOUS

-----------------------------------------------------------------------------
(* What the clients make of what is sent to them.                              *)

(* What a client c with view w[c] will believe once it has read everything.    *)
Out(w, m, c) == FoldLeft(receive, w[c], m.toClient[c])

(* The announcement of a match finds its players at their table.               *)
AtTable(v) == v.state = "CONNECTED" /\ v.sub # Main

RulesFine(v, q) ==
  \A i \in 1..Len(q) :
    q[i].type = "RULES_CHECKSUM" => AtTable(FoldLeft(receive, v, SubSeq(q, 1, i - 1)))

(* Nothing is sent to a client that is not connected.                          *)
Fine(w, m, c) ==
  /\ RulesFine(w[c], m.toClient[c])
  /\ c \notin m.links => m.toClient[c] = <<>>

(* The right idea of the lobby, for one who waits for a match: he knows of     *)
(* every game, and where he sits.                                              *)
Waits(m, v) ==
  v.state = "CONNECTED" /\ v.configured = TRUE /\ DOMAIN m.mOpenGames \subseteq v.games

Placed(m, c, v) ==
  /\ \A id \in DOMAIN m.mOpenGames : c \in PlayersOf(m.mOpenGames[id]) => v.sub = Status(m, id)
  /\ ~Sits(m, c) => v.sub = Main

Told(m, c, v) ==
  /\ c \in m.inGame => Plays(v)
  /\ c \notin m.inGame /\ c \in m.mPlayerMap => Waits(m, v)
  /\ c \notin m.inGame \cup m.mPlayerMap => v.state = "CONNECTING" /\ v.configured = FALSE

(* Every client is up to date; those in P have yet to hear of their place.     *)
InStep(w, m, P) ==
  \A c \in Client :
    /\ c \in m.links => Told(m, c, Out(w, m, c))
    /\ c \in m.links /\ c \in m.mPlayerMap /\ c \notin m.inGame \cup P => Placed(m, c, Out(w, m, c))
    /\ Fine(w, m, c)

LEMMA FineAppend ==
  ASSUME NEW v \in View, NEW q \in Seq(ServerMessage), NEW msg \in ServerMessage, RulesFine(v, q),
         msg.type = "RULES_CHECKSUM" => AtTable(FoldLeft(receive, v, q))
  PROVE  RulesFine(v, Append(q, msg))
<1> DEFINE p == Append(q, msg)
<1>1. /\ Len(q) \in Nat /\ Len(p) = Len(q) + 1 /\ p[Len(q) + 1] = msg
      /\ \A i \in 1..Len(q) : p[i] = q[i]
  OBVIOUS
<1>2. \A i \in 0..Len(q) : SubSeq(p, 1, i) = SubSeq(q, 1, i)
  BY PrefixAppend
<1>3. SubSeq(q, 1, Len(q)) = q
  BY PrefixAll
<1> HIDE DEF p
<1>4. ASSUME NEW i \in 1..Len(p), p[i].type = "RULES_CHECKSUM"
      PROVE  AtTable(FoldLeft(receive, v, SubSeq(p, 1, i - 1)))
  <2>1. CASE i = Len(q) + 1
    <3>1. SubSeq(p, 1, i - 1) = q
      <4>1. i - 1 = Len(q) /\ i - 1 \in 0..Len(q)
        BY <1>1, <2>1
      <4> QED BY <4>1, <1>2, <1>3
    <3> QED BY <3>1, <1>1, <1>4, <2>1
  <2>2. CASE i \in 1..Len(q)
    <3>1. i - 1 \in 0..Len(q)
      BY <1>1, <2>2
    <3>2. SubSeq(p, 1, i - 1) = SubSeq(q, 1, i - 1) /\ q[i].type = "RULES_CHECKSUM"
      BY <3>1, <1>1, <1>2, <1>4, <2>2
    <3> QED BY <3>2, <2>2 DEF RulesFine
  <2> QED BY <1>1, <2>1, <2>2
<1>5. RulesFine(v, p)
  BY <1>4 DEF RulesFine
<1> QED BY <1>5 DEF p

LEMMA FineTail ==
  ASSUME NEW v \in View, NEW q \in Seq(ServerMessage), q # <<>>, RulesFine(v, q)
  PROVE  RulesFine(receive(v, Head(q)), Tail(q))
<1> DEFINE p == Tail(q)
<1>1. Len(q) \in Nat /\ Len(p) = Len(q) - 1 /\ \A i \in 1..Len(p) : p[i] = q[i + 1]
  OBVIOUS
<1>2. ASSUME NEW i \in 1..Len(p), p[i].type = "RULES_CHECKSUM"
      PROVE  AtTable(FoldLeft(receive, receive(v, Head(q)), SubSeq(p, 1, i - 1)))
  <2>1. i \in 1..Len(q) /\ i + 1 \in 1..Len(q) /\ (i + 1) - 1 = i /\ q[i + 1].type = "RULES_CHECKSUM"
    BY <1>1, <1>2
  <2>2. AtTable(FoldLeft(receive, v, SubSeq(q, 1, i)))
    BY <2>1 DEF RulesFine
  <2> DEFINE s == SubSeq(q, 1, i)
  <2>3. s \in Seq(ServerMessage) /\ s # <<>> /\ Head(s) = Head(q) /\ SubSeq(p, 1, i - 1) = Tail(s)
    BY <2>1, PrefixTail
  <2> HIDE DEF s
  <2>4. FoldLeft(receive, v, s) = FoldLeft(receive, receive(v, Head(s)), Tail(s))
    BY <2>3, ReceiveView, ReadFirst
  <2> QED BY <2>2, <2>3, <2>4 DEF s
<1> QED BY <1>2 DEF RulesFine

(* A packet more.                                                              *)
Hears(w, m, n, players, msg, c) ==
  /\ Out(w, m, c) \in View
  /\ c \in players /\ c \in m.links => Out(w, n, c) = receive(Out(w, m, c), msg)
  /\ c \notin players => Out(w, n, c) = Out(w, m, c)
  /\ /\ Fine(w, m, c)
     /\ c \in players /\ c \in m.links /\ msg.type = "RULES_CHECKSUM" => AtTable(Out(w, m, c))
     => Fine(w, n, c)

LEMMA SendRead ==
  ASSUME NEW w \in [Client -> View], NEW m, IsRecord(m), m.toClient \in [Client -> Seq(ServerMessage)],
         NEW players, NEW msg \in ServerMessage, NEW n, n = sendPacket(m, players, msg),
         NEW c \in Client
  PROVE  Hears(w, m, n, players, msg, c)
<1> DEFINE q == m.toClient[c]
<1>1. w[c] \in View /\ q \in Seq(ServerMessage)
  OBVIOUS
<1>2. n.toClient[c] = Sent(m, players, msg, c)
  BY SendPacket
<1>3. c \in players /\ c \in m.links => n.toClient[c] = Append(q, msg)
  BY <1>2 DEF Sent
<1>4. ~(c \in players /\ c \in m.links) => n.toClient[c] = q
  BY <1>2 DEF Sent
<1>5. Out(w, m, c) \in View
  BY <1>1, ReceiveView, ReadClosed DEF Out
<1> DEFINE u == w[c]
<1>6. FoldLeft(receive, u, Append(q, msg)) = receive(FoldLeft(receive, u, q), msg)
  <2> HIDE DEF q, u
  <2> QED BY <1>1, ReceiveView, ReadLast DEF u
<1>7. RulesFine(u, q) /\ (msg.type # "RULES_CHECKSUM" \/ AtTable(FoldLeft(receive, u, q))) =>
        RulesFine(u, Append(q, msg))
  <2> HIDE DEF q, u
  <2> QED BY <1>1, FineAppend DEF u
<1>8. n.links = m.links
  BY SendPacket DEF OnlySent
<1> QED BY <1>3, <1>4, <1>5, <1>6, <1>7, <1>8 DEF Out, Hears, Fine

-----------------------------------------------------------------------------
(* The three kinds of message, and what they leave to be told.                 *)

LEMMA SameTold ==
  ASSUME NEW m, NEW n, OnlySent(m, n), NEW c, NEW v
  PROVE  Told(n, c, v) = Told(m, c, v) /\ Placed(n, c, v) = Placed(m, c, v)
BY DEF OnlySent, Told, Placed, Waits, Status, Sits

(* If Q has to be told, only P has to be told after this packet.               *)
Informs(m, players, msg, Q, P) ==
  /\ \A c \in Q \ P : c \in players
  /\ \A c \in players, v \in View :
       Waits(m, v) /\ (c \notin Q => Placed(m, c, v)) =>
         /\ Waits(m, receive(v, msg))
         /\ c \notin P => Placed(m, c, receive(v, msg))

LEMMA SendInStep ==
  ASSUME NEW w \in [Client -> View], NEW m, Good(m), NEW P, NEW Q, InStep(w, m, Q),
         NEW players \in SUBSET m.mPlayerMap, NEW msg \in ServerMessage, msg.type # "RULES_CHECKSUM",
         Informs(m, players, msg, Q, P), NEW n, n = sendPacket(m, players, msg)
  PROVE  Good(n) /\ OnlySent(m, n) /\ InStep(w, n, P)
<1>1. IsRecord(m) /\ m.toClient \in [Client -> Seq(ServerMessage)] /\ m.mPlayerMap \subseteq Client
  BY DEF Good, IsMatchMaker
<1>0. \A c \in Client : Hears(w, m, n, players, msg, c)
  BY <1>1, SendRead
<1>2. OnlySent(m, n)
  BY <1>1, SendPacket
<1>3. Good(n)
  BY <1>2, OnlySentGood
<1>4. n.links = m.links /\ n.mPlayerMap = m.mPlayerMap /\ n.inGame = m.inGame
  BY <1>2 DEF OnlySent
<1>5. ASSUME NEW c \in Client
      PROVE  /\ c \in m.links => Told(m, c, Out(w, n, c))
             /\ c \in m.links /\ c \in m.mPlayerMap /\ c \notin m.inGame \cup P => Placed(m, c, Out(w, n, c))
             /\ Fine(w, n, c)
  <2> DEFINE o == Out(w, m, c)
             u == Out(w, n, c)
  <2>1. /\ o \in View
        /\ c \in players /\ c \in m.links => u = receive(o, msg)
        /\ c \notin players => u = o
    BY <1>0 DEF Hears
  <2>2. Fine(w, n, c)
    BY <1>0 DEF InStep, Hears
  <2>3. /\ c \in m.links => Told(m, c, o)
        /\ c \in m.links /\ c \in m.mPlayerMap /\ c \notin m.inGame \cup Q => Placed(m, c, o)
    BY DEF InStep
  <2> HIDE DEF o, u
  <2>4. CASE c \notin players \/ c \notin m.links
    BY <2>1, <2>2, <2>3, <2>4 DEF o, u, Informs
  <2>5. CASE c \in players /\ c \in m.links /\ c \in m.inGame
    <3>1. Plays(u)
      BY <2>1, <2>3, <2>5, ReceiveEffect DEF Told
    <3> QED BY <2>2, <2>5, <3>1 DEF Told, o, u
  <2>6. CASE c \in players /\ c \in m.links /\ c \notin m.inGame
    <3>1. Waits(m, o) /\ (c \notin Q => Placed(m, c, o))
      BY <2>3, <2>6 DEF Told
    <3>2. Waits(m, u) /\ (c \notin P => Placed(m, c, u))
      BY <2>1, <2>6, <3>1 DEF Informs
    <3> QED BY <2>2, <2>6, <3>2 DEF Told, o, u
  <2> QED BY <2>4, <2>5, <2>6
<1>6. InStep(w, n, P)
  BY <1>2, <1>4, <1>5, SameTold DEF InStep
<1> QED BY <1>2, <1>3, <1>6

LEMMA ListSent ==
  ASSUME NEW w \in [Client -> View], NEW m, Good(m), NEW P, InStep(w, m, P),
         NEW players \in SUBSET m.mPlayerMap, NEW n, n = sendOpenGameList(m, players)
  PROVE  Good(n) /\ OnlySent(m, n) /\ InStep(w, n, P)
<1>1. n = sendPacket(m, players, Listed(m))
  BY DEF sendOpenGameList, Listed
<1>2. Listed(m) \in ServerMessage /\ Listed(m).type # "RULES_CHECKSUM"
  BY MessageTypes DEF Good, Listed
<1>3. ASSUME NEW c \in players, NEW v \in View, Waits(m, v), c \notin P => Placed(m, c, v)
      PROVE  /\ Waits(m, receive(v, Listed(m)))
             /\ c \notin P => Placed(m, c, receive(v, Listed(m)))
  <2> DEFINE r == receive(v, Listed(m))
  <2>1. ~Plays(v) /\ v.configured = TRUE
    BY <1>3 DEF Waits, Plays
  <2>2. r.state = "CONNECTED" /\ r.configured = TRUE /\ r.games = DOMAIN m.mOpenGames /\ r.sub = v.sub
    BY <1>2, <2>1, ReceiveEffect DEF Listed
  <2> HIDE DEF r
  <2> QED BY <1>3, <2>2 DEF Waits, Placed, r
<1> DEFINE msg == Listed(m)
<1> HIDE DEF msg
<1>4. msg \in ServerMessage /\ msg.type # "RULES_CHECKSUM" /\ n = sendPacket(m, players, msg)
  BY <1>1, <1>2 DEF msg
<1>5. Informs(m, players, msg, P, P)
  BY <1>3 DEF msg, Informs
<1> QED BY <1>4, <1>5, SendInStep

LEMMA StatusSent ==
  ASSUME NEW w \in [Client -> View], NEW m, Good(m), NEW id \in DOMAIN m.mOpenGames,
         InStep(w, m, PlayersOf(m.mOpenGames[id])), NEW n, n = broadcastOpenGameStatus(m, id)
  PROVE  Good(n) /\ OnlySent(m, n) /\ InStep(w, n, {})
<1> DEFINE Q == PlayersOf(m.mOpenGames[id])
           msg == Status(m, id)
<1>1. n = sendPacket(m, Q, msg)
  BY DEF broadcastOpenGameStatus, Status
<1>2. msg \in ServerMessage /\ msg.type = "GAME_STATUS"
  BY MessageTypes DEF Good, Status
<1>3. Q \in SUBSET m.mPlayerMap /\ \A i \in DOMAIN m.mOpenGames \ {id} : Q \cap PlayersOf(m.mOpenGames[i]) = {}
  BY DEF Good, SeatedOnce
<1> HIDE DEF msg
<1>4. ASSUME NEW c \in Q, NEW v \in View, Waits(m, v)
      PROVE  Waits(m, receive(v, msg)) /\ Placed(m, c, receive(v, msg))
  <2> DEFINE r == receive(v, msg)
  <2>1. ~Plays(v) /\ v.configured = TRUE
    BY <1>4 DEF Waits, Plays
  <2>2. r.state = "CONNECTED" /\ r.configured = TRUE /\ r.games = v.games /\ r.sub = msg
    BY <1>2, <2>1, ReceiveEffect
  <2> HIDE DEF r
  <2>3. Waits(m, r)
    BY <1>4, <2>2 DEF Waits
  <2>4. Placed(m, c, r)
    BY <1>3, <1>4, <2>2 DEF Placed, Sits, msg
  <2> QED BY <2>3, <2>4 DEF r
<1> HIDE DEF Q
<1>5. InStep(w, m, Q)
  BY DEF Q
<1>6. Informs(m, Q, msg, Q, {})
  BY <1>4 DEF Informs
<1>7. msg.type # "RULES_CHECKSUM"
  BY <1>2
<1> QED BY <1>1, <1>2, <1>3, <1>5, <1>6, <1>7, SendInStep

-----------------------------------------------------------------------------
(* Leaving the games.                                                          *)

(* Neither the players nor the counters have changed.                          *)
Frame(m, n) ==
  /\ n.mIDCounter = m.mIDCounter /\ n.mPlayerMap = m.mPlayerMap
  /\ n.mAllowNewGames = m.mAllowNewGames /\ n.inGame = m.inGame /\ n.links = m.links

LEMMA OnlySentFrame ==
  ASSUME NEW m, NEW n, OnlySent(m, n)
  PROVE  Frame(m, n) /\ n.mOpenGames = m.mOpenGames
BY DEF OnlySent, Frame

(* A change of the games that nobody has been told of.                         *)
OnlyGames(m, n, games) ==
  IsRecord(n) /\ Frame(m, n) /\ n.toClient = m.toClient /\ n.mOpenGames = games

LEMMA ChangeGames ==
  ASSUME NEW m, IsRecord(m), NEW games, games = [id \in DOMAIN games |-> games[id]]
  PROVE  OnlyGames(m, [m EXCEPT !.mOpenGames = games], games)
BY DEF OnlyGames, IsRecord, Frame

LEMMA RemoveGame ==
  ASSUME NEW w \in [Client -> View], NEW m, Good(m), InStep(w, m, {}),
         NEW id \in DOMAIN m.mOpenGames, NEW n, n = removeGame(m, id)
  PROVE  /\ Good(n) /\ Frame(m, n) /\ InStep(w, n, {})
         /\ DOMAIN n.mOpenGames = DOMAIN m.mOpenGames \ {id}
         /\ \A i \in DOMAIN n.mOpenGames : n.mOpenGames[i] = m.mOpenGames[i]
<1> DEFINE Q == PlayersOf(m.mOpenGames[id])
           msg == Removed(id)
           m1 == sendPacket(m, Q, msg)
           gs == Restrict(m.mOpenGames, DOMAIN m.mOpenGames \ {id})
           m2 == [m1 EXCEPT !.mOpenGames = gs]
           idle == {p \in m2.mPlayerMap : \A i \in DOMAIN m2.mOpenGames : p \notin PlayersOf(m2.mOpenGames[i])}
<1>1. n = sendOpenGameList(m2, idle)
  BY DEF removeGame, notifyRemoved, broadcastOpenGameList, Removed
<1>2. IsRecord(m) /\ IsMatchMaker(m) /\ SeatedOnce(m) /\ m.toClient \in [Client -> Seq(ServerMessage)]
  BY DEF Good, IsMatchMaker
<1>3. /\ Q \subseteq m.mPlayerMap
      /\ \A i \in DOMAIN m.mOpenGames \ {id} : Q \cap PlayersOf(m.mOpenGames[i]) = {}
  BY <1>2 DEF SeatedOnce
<1>4. msg \in ServerMessage /\ msg.type = "REMOVED_FROM_GAME"
  <2>1. id \in GameID
    BY <1>2 DEF IsMatchMaker, GameID
  <2> QED BY <2>1, MessageTypes DEF Removed
<1>5. DOMAIN gs = DOMAIN m.mOpenGames \ {id} /\ (\A i \in DOMAIN gs : gs[i] = m.mOpenGames[i])
      /\ gs = [i \in DOMAIN gs |-> gs[i]]
  BY DEF Restrict
<1> HIDE DEF msg, gs
<1>15. m1 = sendPacket(m, Q, msg)
  OBVIOUS
<1> HIDE DEF m1
<1>6. OnlySent(m, m1) /\ Good(m1)
  BY <1>2, <1>4, <1>15, SendPacket, OnlySentGood
<1>7. \A c \in Client : Hears(w, m, m1, Q, msg, c)
  <2> HIDE DEF Q
  <2> QED BY <1>2, <1>4, <1>15, SendRead
<1>8. OnlyGames(m1, m2, gs)
  BY <1>5, <1>6, ChangeGames DEF Good
<1> HIDE DEF m2
<1>9. Frame(m, m2) /\ m2.mOpenGames = gs /\ m2.toClient = m1.toClient /\ IsRecord(m2)
  BY <1>6, <1>8 DEF OnlyGames, OnlySent, Frame
<1>10. Good(m2)
  <2>1. IsMatchMaker(m2)
    BY <1>2, <1>5, <1>6, <1>9 DEF IsMatchMaker, Frame, Good
  <2>2. SeatedOnce(m2)
    <3>1. /\ m2.mPlayerMap = m.mPlayerMap
          /\ \A i \in DOMAIN m2.mOpenGames : i \in DOMAIN m.mOpenGames /\ m2.mOpenGames[i] = m.mOpenGames[i]
      BY <1>5, <1>9 DEF Frame
    <3> QED BY <1>2, <3>1 DEF SeatedOnce
  <2> QED BY <1>9, <2>1, <2>2 DEF Good
<1>11. InStep(w, m2, {})
  <2> SUFFICES ASSUME NEW c \in Client
               PROVE  /\ c \in m2.links => Told(m2, c, Out(w, m2, c))
                      /\ c \in m2.links /\ c \in m2.mPlayerMap /\ c \notin m2.inGame \cup {} =>
                           Placed(m2, c, Out(w, m2, c))
                      /\ Fine(w, m2, c)
    BY DEF InStep
  <2> DEFINE o == Out(w, m, c)
             u == Out(w, m1, c)
  <2>1. Out(w, m2, c) = u /\ Fine(w, m2, c)
    <3>1. m2.links = m1.links /\ m2.toClient = m1.toClient /\ Fine(w, m1, c)
      BY <1>4, <1>6, <1>7, <1>9 DEF Hears, InStep, Frame, OnlySent
    <3> QED BY <3>1 DEF Out, Fine
  <2>2. /\ o \in View
        /\ c \in Q /\ c \in m.links => u = receive(o, msg)
        /\ c \notin Q => u = o
    BY <1>7 DEF Hears
  <2>3. c \in m.links => /\ Told(m, c, o)
                         /\ c \in m.mPlayerMap /\ c \notin m.inGame => Placed(m, c, o)
    BY DEF InStep
  <2>4. m2.links = m.links /\ m2.mPlayerMap = m.mPlayerMap /\ m2.inGame = m.inGame
    BY <1>9 DEF Frame
  <2> HIDE DEF o, u
  <2>5. CASE c \in m.links /\ c \in m.inGame
    <3>1. Plays(u)
      BY <1>4, <2>2, <2>3, <2>5, ReceiveEffect DEF Told
    <3> QED BY <2>1, <2>4, <2>5, <3>1 DEF Told
  <2>6. CASE c \in m.links /\ c \notin m.inGame /\ c \in Q
    <3>1. Waits(m, o)
      BY <1>3, <2>3, <2>6 DEF Told
    <3>2. ~Plays(o) /\ o.configured = TRUE
      BY <3>1 DEF Waits, Plays
    <3>3. u.state = "CONNECTED" /\ u.configured = TRUE /\ u.games = o.games /\ u.sub = Main
      <4>1. u = receive(o, msg) /\ o \in View
        BY <2>2, <2>6
      <4> HIDE DEF Q, idle
      <4> QED BY <1>4, <3>2, <4>1, ReceiveEffect
    <3>4. Waits(m2, u)
      BY <1>5, <1>9, <3>1, <3>3 DEF Waits
    <3>5. Placed(m2, c, u)
      BY <1>3, <1>5, <1>9, <2>6, <3>3 DEF Placed
    <3> QED BY <2>1, <2>4, <2>6, <3>4, <3>5, <1>3 DEF Told
  <2>7. CASE c \in m.links /\ c \notin m.inGame /\ c \notin Q
    <3>1. u = o
      BY <2>2, <2>7
    <3>2. Told(m2, c, o)
      BY <1>5, <1>9, <2>3, <2>4, <2>7 DEF Told, Waits
    <3>3. c \in m.mPlayerMap => Placed(m2, c, o)
      <4>1. Sits(m, c) => Sits(m2, c)
        BY <1>5, <1>9, <2>7 DEF Sits
      <4>2. \A i \in DOMAIN m2.mOpenGames : i \in DOMAIN m.mOpenGames /\ Status(m2, i) = Status(m, i)
                                            /\ m2.mOpenGames[i] = m.mOpenGames[i]
        BY <1>5, <1>9 DEF Status
      <4> QED BY <2>3, <2>7, <4>1, <4>2 DEF Placed
    <3> QED BY <2>1, <2>4, <2>7, <3>1, <3>2, <3>3
  <2> QED BY <2>1, <2>4, <2>5, <2>6, <2>7
<1>12. idle \in SUBSET m2.mPlayerMap
  OBVIOUS
<1> HIDE DEF idle
<1>13. Good(n) /\ OnlySent(m2, n) /\ InStep(w, n, {})
  BY <1>1, <1>10, <1>11, <1>12, ListSent
<1>14. Frame(m2, n) /\ n.mOpenGames = m2.mOpenGames
  BY <1>13, OnlySentFrame
<1> QED BY <1>5, <1>9, <1>13, <1>14 DEF Frame

(* The guests of a game have changed; nobody has been told.                    *)
Reseated(m, n, id, s) ==
  /\ IsRecord(n) /\ Frame(m, n) /\ n.toClient = m.toClient
  /\ DOMAIN n.mOpenGames = DOMAIN m.mOpenGames
  /\ \A i \in DOMAIN m.mOpenGames : i # id => n.mOpenGames[i] = m.mOpenGames[i]
  /\ n.mOpenGames[id].creator = m.mOpenGames[id].creator
  /\ n.mOpenGames[id].password = m.mOpenGames[id].password
  /\ n.mOpenGames[id].connected = s
  /\ n.mOpenGames[id] \in OpenGame

LEMMA Reseat ==
  ASSUME NEW m, Good(m), NEW id \in DOMAIN m.mOpenGames, NEW s \in Seq(Client)
  PROVE  Reseated(m, [m EXCEPT !.mOpenGames[id].connected = s], id, s)
<1> DEFINE gs == [m.mOpenGames EXCEPT ![id].connected = s]
           n  == [m EXCEPT !.mOpenGames[id].connected = s]
<1>1. IsRecord(m) /\ m.mOpenGames[id] \in OpenGame
  BY DEF Good, IsMatchMaker
<1>2. n = [m EXCEPT !.mOpenGames = gs]
  BY <1>1 DEF IsRecord
<1>3. /\ DOMAIN gs = DOMAIN m.mOpenGames
      /\ \A i \in DOMAIN m.mOpenGames : i # id => gs[i] = m.mOpenGames[i]
      /\ gs[id] = [m.mOpenGames[id] EXCEPT !.connected = s]
      /\ gs = [i \in DOMAIN gs |-> gs[i]]
  OBVIOUS
<1> HIDE DEF gs, n
<1>4. OnlyGames(m, n, gs)
  BY <1>1, <1>2, <1>3, ChangeGames
<1>5. /\ gs[id].creator = m.mOpenGames[id].creator /\ gs[id].password = m.mOpenGames[id].password
      /\ gs[id].connected = s /\ gs[id] \in OpenGame
  BY <1>1, <1>3 DEF OpenGame
<1>6. Reseated(m, n, id, s)
  BY <1>3, <1>4, <1>5 DEF Reseated, OnlyGames
<1> QED BY <1>6 DEF n

LEMMA ReseatedGood ==
  ASSUME NEW m, Good(m), NEW id \in DOMAIN m.mOpenGames, NEW s, NEW n, Reseated(m, n, id, s),
         IsInjective(s), m.mOpenGames[id].creator \notin Range(s), Range(s) \subseteq m.mPlayerMap,
         \A i \in DOMAIN m.mOpenGames : i # id => Range(s) \cap PlayersOf(m.mOpenGames[i]) = {}
  PROVE  Good(n)
<1>1. IsMatchMaker(n)
  BY DEF Good, IsMatchMaker, Reseated, Frame
<1>2. SeatedOnce(n)
  <2>1. PlayersOf(n.mOpenGames[id]) = {m.mOpenGames[id].creator} \cup Range(s)
    BY DEF Reseated, PlayersOf
  <2>2. m.mOpenGames[id].creator \in PlayersOf(m.mOpenGames[id])
    BY DEF PlayersOf
  <2>3. ASSUME NEW i \in DOMAIN n.mOpenGames, i # id
        PROVE  /\ n.mOpenGames[i] = m.mOpenGames[i] /\ i \in DOMAIN m.mOpenGames
               /\ PlayersOf(n.mOpenGames[id]) \cap PlayersOf(n.mOpenGames[i]) = {}
    BY <2>1, <2>2, <2>3 DEF Good, SeatedOnce, Reseated
  <2>4. /\ PlayersOf(n.mOpenGames[id]) \subseteq n.mPlayerMap
        /\ n.mOpenGames[id].creator \notin Range(n.mOpenGames[id].connected)
        /\ IsInjective(n.mOpenGames[id].connected)
    BY <2>1, <2>2 DEF Good, SeatedOnce, Reseated, Frame
  <2>5. n.mPlayerMap = m.mPlayerMap /\ SeatedOnce(m) /\ DOMAIN n.mOpenGames = DOMAIN m.mOpenGames
    BY DEF Good, Reseated, Frame
  <2> QED BY <2>3, <2>4, <2>5 DEF SeatedOnce
<1> QED BY <1>1, <1>2 DEF Good, Reseated

LEMMA ReseatedInStep ==
  ASSUME NEW w, NEW m, InStep(w, m, {}), NEW id \in DOMAIN m.mOpenGames, NEW s, NEW n,
         Reseated(m, n, id, s), NEW Q,
         PlayersOf(m.mOpenGames[id]) \subseteq Q, PlayersOf(n.mOpenGames[id]) \subseteq Q
  PROVE  InStep(w, n, Q)
<1> SUFFICES ASSUME NEW c \in Client
             PROVE  /\ c \in n.links => Told(n, c, Out(w, n, c))
                    /\ c \in n.links /\ c \in n.mPlayerMap /\ c \notin n.inGame \cup Q =>
                         Placed(n, c, Out(w, n, c))
                    /\ Fine(w, n, c)
  BY DEF InStep
<1> DEFINE o == Out(w, m, c)
<1>1. Out(w, n, c) = o /\ n.toClient[c] = m.toClient[c]
  BY DEF Out, Reseated
<1>2. /\ c \in m.links => /\ Told(m, c, o)
                          /\ c \in m.mPlayerMap /\ c \notin m.inGame => Placed(m, c, o)
      /\ Fine(w, m, c)
  BY DEF InStep
<1> HIDE DEF o
<1>3. n.links = m.links /\ n.mPlayerMap = m.mPlayerMap /\ n.inGame = m.inGame
      /\ DOMAIN n.mOpenGames = DOMAIN m.mOpenGames
      /\ \A i \in DOMAIN m.mOpenGames : i # id => n.mOpenGames[i] = m.mOpenGames[i]
  BY DEF Reseated, Frame
<1>4. Told(m, c, o) => Told(n, c, o)
  BY <1>3 DEF Told, Waits
<1>5. ASSUME c \notin Q, Placed(m, c, o)
      PROVE  Placed(n, c, o)
  <2>1. \A i \in DOMAIN n.mOpenGames : c \in PlayersOf(n.mOpenGames[i]) => i # id
    BY <1>5
  <2>2. \A i \in DOMAIN n.mOpenGames : i # id => Status(n, i) = Status(m, i)
    BY <1>3 DEF Status
  <2>3. ~Sits(n, c) => ~Sits(m, c)
    BY <1>3, <1>5 DEF Sits
  <2> QED BY <1>3, <1>5, <2>1, <2>2, <2>3 DEF Placed
<1>6. Fine(w, n, c)
  BY <1>1, <1>2, <1>3 DEF Fine
<1> QED BY <1>1, <1>2, <1>3, <1>4, <1>5, <1>6

LEMMA RemovePlayerFromGame ==
  ASSUME NEW w \in [Client -> View], NEW m, Good(m), InStep(w, m, {}),
         NEW id \in DOMAIN m.mOpenGames, NEW p \in Range(m.mOpenGames[id].connected),
         NEW n, n = removePlayerFromGame(m, id, p)
  PROVE  /\ Good(n) /\ Frame(m, n) /\ InStep(w, n, {})
         /\ DOMAIN n.mOpenGames = DOMAIN m.mOpenGames
         /\ \A i \in DOMAIN n.mOpenGames : i # id => n.mOpenGames[i] = m.mOpenGames[i]
         /\ n.mOpenGames[id].creator = m.mOpenGames[id].creator
         /\ n.mOpenGames[id].password = m.mOpenGames[id].password
         /\ Range(n.mOpenGames[id].connected) = Range(m.mOpenGames[id].connected) \ {p}
<1> DEFINE g == m.mOpenGames[id]
           s == EraseFirst(g.connected, p)
           m1 == [m EXCEPT !.mOpenGames[id].connected = s]
           msg == Removed(id)
           m2 == sendPacket(m1, {p}, msg)
           Q == PlayersOf(g)
           P == PlayersOf(m1.mOpenGames[id])
<1>1. n = broadcastOpenGameStatus(m2, id)
  BY DEF removePlayerFromGame, notifyRemoved, Removed
<1>0. g \in OpenGame /\ id \in GameID
  BY DEF Good, IsMatchMaker, GameID
<1>2. g.connected \in Seq(Client) /\ IsInjective(g.connected) /\ id \in GameID
      /\ Q \subseteq m.mPlayerMap /\ g.creator \notin Range(g.connected)
      /\ \A i \in DOMAIN m.mOpenGames : i # id => Q \cap PlayersOf(m.mOpenGames[i]) = {}
  <2>1. g.connected \in Seq(Client)
    BY <1>0 DEF OpenGame
  <2> QED BY <1>0, <2>1 DEF Good, SeatedOnce
<1>3. s \in Seq(Client) /\ IsInjective(s) /\ Range(s) = Range(g.connected) \ {p}
  BY <1>2, Erase
<1>4. Range(g.connected) \subseteq Q /\ Q = {g.creator} \cup Range(g.connected)
  BY DEF PlayersOf
<1>5. msg \in ServerMessage /\ msg.type = "REMOVED_FROM_GAME"
  BY <1>2, MessageTypes DEF Removed
<1>6. m2 = sendPacket(m1, {p}, msg)
  OBVIOUS
<1> HIDE DEF m2, msg, s
<1>7. Reseated(m, m1, id, s)
  BY <1>3, Reseat
<1> HIDE DEF m1
<1>8. P = Q \ {p} /\ p \in Q
  BY <1>2, <1>3, <1>4, <1>7 DEF PlayersOf, Reseated
<1>9. Good(m1)
  <2>1. Range(s) \subseteq m.mPlayerMap /\ g.creator \notin Range(s)
        /\ \A i \in DOMAIN m.mOpenGames : i # id => Range(s) \cap PlayersOf(m.mOpenGames[i]) = {}
    BY <1>2, <1>3, <1>4
  <2> QED BY <1>3, <1>7, <2>1, ReseatedGood
<1>10. InStep(w, m1, Q)
  BY <1>7, <1>8, ReseatedInStep
<1>11. Frame(m, m1) /\ DOMAIN m1.mOpenGames = DOMAIN m.mOpenGames
  BY <1>7 DEF Reseated
<1>12. ASSUME NEW v \in View, Waits(m1, v)
       PROVE  Waits(m1, receive(v, msg)) /\ Placed(m1, p, receive(v, msg))
  <2> DEFINE r == receive(v, msg)
  <2>1. ~Plays(v) /\ v.configured = TRUE
    BY <1>12 DEF Waits, Plays
  <2>2. r.state = "CONNECTED" /\ r.configured = TRUE /\ r.games = v.games /\ r.sub = Main
    BY <1>5, <2>1, ReceiveEffect
  <2> HIDE DEF r
  <2>3. Waits(m1, r)
    BY <1>12, <2>2 DEF Waits
  <2>4. \A i \in DOMAIN m1.mOpenGames : p \notin PlayersOf(m1.mOpenGames[i])
    BY <1>2, <1>7, <1>8 DEF Reseated
  <2>5. Placed(m1, p, r)
    BY <2>2, <2>4 DEF Placed
  <2> QED BY <2>3, <2>5 DEF r
<1> HIDE DEF Q, P
<1>13. Good(m2) /\ OnlySent(m1, m2) /\ InStep(w, m2, P)
  <2>1. {p} \in SUBSET m1.mPlayerMap
    BY <1>2, <1>8, <1>11 DEF Frame
  <2>2. Informs(m1, {p}, msg, Q, P)
    BY <1>8, <1>12 DEF Informs
  <2>4. msg.type # "RULES_CHECKSUM"
    BY <1>5
  <2> QED BY <1>5, <1>6, <1>9, <1>10, <2>1, <2>2, <2>4, SendInStep
<1>14. Frame(m1, m2) /\ m2.mOpenGames = m1.mOpenGames
  BY <1>13, OnlySentFrame
<1>15. Good(n) /\ OnlySent(m2, n) /\ InStep(w, n, {})
  <2>1. InStep(w, m2, PlayersOf(m2.mOpenGames[id])) /\ id \in DOMAIN m2.mOpenGames
    BY <1>11, <1>13, <1>14 DEF P
  <2> QED BY <1>1, <1>13, <2>1, StatusSent
<1>16. Frame(m2, n) /\ n.mOpenGames = m1.mOpenGames
  BY <1>14, <1>15, OnlySentFrame
<1> QED BY <1>3, <1>7, <1>11, <1>14, <1>15, <1>16 DEF Frame, Reseated

(* p sits nowhere any more, his own game is gone, the others are as they were. *)
Left(m, n, p) ==
  /\ Frame(m, n)
  /\ DOMAIN n.mOpenGames = DOMAIN m.mOpenGames \ GamesOf(m, p)
  /\ \A i \in DOMAIN n.mOpenGames :
       /\ n.mOpenGames[i].creator = m.mOpenGames[i].creator
       /\ n.mOpenGames[i].password = m.mOpenGames[i].password
       /\ Range(n.mOpenGames[i].connected) = Range(m.mOpenGames[i].connected) \ {p}

LEMMA SomeElement ==
  ASSUME NEW S, S # {}
  PROVE  SomeOf(S) \in S
BY DEF SomeOf

(* Nobody sits in two games, or twice in one.                                  *)
LEMMA OneSeat ==
  ASSUME NEW m, Good(m), NEW p, NEW i \in DOMAIN m.mOpenGames, NEW j \in DOMAIN m.mOpenGames,
         p \in PlayersOf(m.mOpenGames[i]), p \in PlayersOf(m.mOpenGames[j])
  PROVE  i = j
BY DEF Good, SeatedOnce

LEMMA RemovePlayerFromAllGames ==
  ASSUME NEW w \in [Client -> View], NEW m, Good(m), InStep(w, m, {}), NEW p,
         NEW n, n = removePlayerFromAllGames(m, p)
  PROVE  Good(n) /\ InStep(w, n, {}) /\ Left(m, n, p) /\ ~Sits(n, p)
<1> DEFINE m1 == IF GamesOf(m, p) = {} THEN m ELSE removeGame(m, SomeOf(GamesOf(m, p)))
<1>1. n = IF GuestIn(m1, p) = {} THEN m1 ELSE removePlayerFromGame(m1, SomeOf(GuestIn(m1, p)), p)
  BY DEF removePlayerFromAllGames
<1>2. /\ Good(m1) /\ Frame(m, m1) /\ InStep(w, m1, {})
      /\ DOMAIN m1.mOpenGames = DOMAIN m.mOpenGames \ GamesOf(m, p)
      /\ \A i \in DOMAIN m1.mOpenGames : m1.mOpenGames[i] = m.mOpenGames[i]
  <2>1. CASE GamesOf(m, p) = {}
    BY <2>1 DEF Frame
  <2>2. CASE GamesOf(m, p) # {}
    <3> DEFINE id == SomeOf(GamesOf(m, p))
    <3>1. id \in GamesOf(m, p)
      BY <2>2, SomeElement
    <3>2. m1 = removeGame(m, id)
      BY <2>2
    <3> HIDE DEF m1, id
    <3>3. id \in DOMAIN m.mOpenGames /\ p \in PlayersOf(m.mOpenGames[id])
      BY <3>1 DEF GamesOf, PlayersOf
    <3>4. GamesOf(m, p) = {id}
      <4>1. \A i \in GamesOf(m, p) : i \in DOMAIN m.mOpenGames /\ p \in PlayersOf(m.mOpenGames[i])
        BY DEF GamesOf, PlayersOf
      <4> QED BY <3>1, <3>3, <4>1, OneSeat
    <3> QED BY <3>2, <3>3, <3>4, RemoveGame
  <2> QED BY <2>1, <2>2
<1> HIDE DEF m1
<1>3. \A i \in DOMAIN m1.mOpenGames : m1.mOpenGames[i].creator # p
  BY <1>2 DEF GamesOf
<1>4. CASE GuestIn(m1, p) = {}
  <2>1. n = m1
    BY <1>1, <1>4
  <2>2. \A i \in DOMAIN m1.mOpenGames : p \notin Range(m1.mOpenGames[i].connected)
    BY <1>4 DEF GuestIn
  <2>3. ~Sits(m1, p)
    BY <1>3, <2>2 DEF Sits, PlayersOf
  <2>4. Left(m, m1, p)
    BY <1>2, <2>2 DEF Left
  <2> QED BY <1>2, <2>1, <2>3, <2>4
<1>5. CASE GuestIn(m1, p) # {}
  <2> DEFINE id == SomeOf(GuestIn(m1, p))
  <2>1. id \in GuestIn(m1, p)
    BY <1>5, SomeElement
  <2>2. n = removePlayerFromGame(m1, id, p)
    BY <1>1, <1>5
  <2> HIDE DEF id
  <2>3. id \in DOMAIN m1.mOpenGames /\ p \in Range(m1.mOpenGames[id].connected)
    BY <2>1 DEF GuestIn
  <2>4. /\ Good(n) /\ Frame(m1, n) /\ InStep(w, n, {})
        /\ DOMAIN n.mOpenGames = DOMAIN m1.mOpenGames
        /\ \A i \in DOMAIN n.mOpenGames : i # id => n.mOpenGames[i] = m1.mOpenGames[i]
        /\ n.mOpenGames[id].creator = m1.mOpenGames[id].creator
        /\ n.mOpenGames[id].password = m1.mOpenGames[id].password
        /\ Range(n.mOpenGames[id].connected) = Range(m1.mOpenGames[id].connected) \ {p}
    BY <1>2, <2>2, <2>3, RemovePlayerFromGame
  <2>5. \A i \in DOMAIN m1.mOpenGames : i # id => p \notin Range(m1.mOpenGames[i].connected)
    <3>1. \A i \in DOMAIN m1.mOpenGames :
            p \in Range(m1.mOpenGames[i].connected) => p \in PlayersOf(m1.mOpenGames[i])
      BY DEF PlayersOf
    <3> QED BY <1>2, <2>3, <3>1, OneSeat
  <2>6. Frame(m, n)
    BY <1>2, <2>4 DEF Frame
  <2>7. Left(m, n, p)
    BY <1>2, <2>4, <2>5, <2>6 DEF Left
  <2>8. ~Sits(n, p)
    <3>1. \A i \in DOMAIN n.mOpenGames : n.mOpenGames[i].creator = m1.mOpenGames[i].creator
      BY <2>4
    <3>2. \A i \in DOMAIN n.mOpenGames : p \notin Range(n.mOpenGames[i].connected)
      BY <2>4, <2>5
    <3> QED BY <1>3, <2>4, <3>1, <3>2 DEF Sits, PlayersOf
  <2> QED BY <2>4, <2>7, <2>8
<1> QED BY <1>4, <1>5

(* Whoever sits nowhere has nothing to leave.                                  *)
LEMMA NothingToLeave ==
  ASSUME NEW m, NEW p, ~Sits(m, p)
  PROVE  removePlayerFromAllGames(m, p) = m
<1>1. GamesOf(m, p) = {} /\ GuestIn(m, p) = {}
  BY DEF Sits, PlayersOf, GamesOf, GuestIn
<1> QED BY <1>1 DEF removePlayerFromAllGames

-----------------------------------------------------------------------------
(* Opening and joining a game.                                                 *)

LEMMA FreeIDFree ==
  ASSUME NEW m, IsMatchMaker(m)
  PROVE  FreeID(m) \in Nat /\ FreeID(m) \notin DOMAIN m.mOpenGames
         /\ DOMAIN m.mOpenGames \subseteq 0..FreeID(m)
<1> DEFINE k == m.mIDCounter
           D == DOMAIN m.mOpenGames
<1>1. k \in Nat /\ D \subseteq 0..k
  BY DEF IsMatchMaker, GameID
<1> HIDE DEF k, D
<1>2. Max(D \cup {k}) = k
  <2>1. \A x \in D \cup {k} : x \in Nat /\ k >= x
    BY <1>1
  <2>2. \E x \in D \cup {k} : \A y \in D \cup {k} : x >= y
    BY <2>1
  <2>3. Max(D \cup {k}) \in D \cup {k} /\ \A y \in D \cup {k} : Max(D \cup {k}) >= y
    BY <2>2 DEF Max
  <2>4. Max(D \cup {k}) \in Nat /\ k >= Max(D \cup {k}) /\ Max(D \cup {k}) >= k /\ k \in Nat
    BY <1>1, <2>1, <2>3
  <2> QED BY <2>4
<1>3. \E id \in k..k + 1 : id \notin D /\ k..id - 1 \subseteq D
  <2>1. CASE k \notin D
    <3>1. k \in k..k + 1 /\ k..k - 1 \subseteq D
      BY <1>1
    <3> QED BY <2>1, <3>1
  <2>2. CASE k \in D
    <3>1. k + 1 \in k..k + 1 /\ k + 1 \notin D /\ k..(k + 1) - 1 \subseteq D
      BY <1>1, <2>2
    <3> QED BY <3>1
  <2> QED BY <2>1, <2>2
<1>4. FreeID(m) = CHOOSE id \in k..k + 1 : id \notin D /\ k..id - 1 \subseteq D
  BY <1>2 DEF FreeID, k, D
<1>5. FreeID(m) \in k..k + 1 /\ FreeID(m) \notin D
  BY <1>3, <1>4
<1>6. FreeID(m) \in Nat /\ D \subseteq 0..FreeID(m)
  BY <1>1, <1>5
<1> QED BY <1>5, <1>6 DEF D

(* A game more.                                                                *)
Opened(m, n, id, game) ==
  /\ n.mPlayerMap = m.mPlayerMap /\ n.inGame = m.inGame /\ n.links = m.links
  /\ id \notin DOMAIN m.mOpenGames
  /\ DOMAIN n.mOpenGames = DOMAIN m.mOpenGames \cup {id}
  /\ n.mOpenGames[id] = game
  /\ \A i \in DOMAIN m.mOpenGames : n.mOpenGames[i] = m.mOpenGames[i]

LEMMA InsertGame ==
  ASSUME NEW m, Good(m), NEW p \in m.mPlayerMap, ~Sits(m, p), NEW game \in OpenGame,
         game.creator = p, game.connected = <<>>,
         NEW n, n = [m EXCEPT !.mIDCounter = FreeID(m),
                              !.mOpenGames = insertGame(m.mOpenGames, FreeID(m), game)]
  PROVE  Good(n) /\ Opened(m, n, FreeID(m), game) /\ n.toClient = m.toClient
<1> DEFINE id == FreeID(m)
           gs == insertGame(m.mOpenGames, id, game)
<1>1. IsRecord(m) /\ IsMatchMaker(m) /\ SeatedOnce(m)
  BY DEF Good
<1>2. id \in Nat /\ id \notin DOMAIN m.mOpenGames /\ DOMAIN m.mOpenGames \subseteq 0..id
  BY <1>1, FreeIDFree
<1>3. n = [m EXCEPT !.mIDCounter = id, !.mOpenGames = gs]
  OBVIOUS
<1> HIDE DEF id
<1>4. /\ DOMAIN gs = DOMAIN m.mOpenGames \cup {id} /\ gs[id] = game
      /\ \A i \in DOMAIN m.mOpenGames : gs[i] = m.mOpenGames[i]
      /\ gs = [i \in DOMAIN gs |-> gs[i]]
  BY <1>2 DEF insertGame
<1> HIDE DEF gs
<1>5. /\ n.mOpenGames = gs /\ n.mIDCounter = id /\ n.mPlayerMap = m.mPlayerMap
      /\ n.mAllowNewGames = m.mAllowNewGames /\ n.inGame = m.inGame /\ n.links = m.links
      /\ n.toClient = m.toClient
  BY <1>1, <1>3 DEF IsRecord
<1>6. IsRecord(n)
  <2>1. n = [mOpenGames |-> gs, mIDCounter |-> id, mPlayerMap |-> m.mPlayerMap,
             mAllowNewGames |-> m.mAllowNewGames, inGame |-> m.inGame, links |-> m.links,
             toClient |-> m.toClient]
    BY <1>1, <1>3 DEF IsRecord
  <2> QED BY <1>4, <1>5, <2>1 DEF IsRecord
<1>7. IsMatchMaker(n)
  <2>1. /\ id \in GameID /\ DOMAIN gs \subseteq 0..id
        /\ \A i \in DOMAIN gs : gs[i] \in OpenGame
    BY <1>1, <1>2, <1>4 DEF IsMatchMaker, GameID
  <2> QED BY <1>1, <1>5, <2>1 DEF IsMatchMaker
<1>8. Range(<<>>) = {} /\ IsInjective(<<>>)
  BY DEF Range, IsInjective
<1>9. PlayersOf(game) = {p}
  BY <1>8 DEF PlayersOf
<1>10. SeatedOnce(n)
  <2>1. \A i \in DOMAIN m.mOpenGames : p \notin PlayersOf(m.mOpenGames[i])
    BY DEF Sits
  <2>2. ASSUME NEW i \in DOMAIN gs
        PROVE  /\ PlayersOf(gs[i]) \subseteq m.mPlayerMap
               /\ gs[i].creator \notin Range(gs[i].connected)
               /\ IsInjective(gs[i].connected)
               /\ \A other \in DOMAIN gs \ {i} : PlayersOf(gs[i]) \cap PlayersOf(gs[other]) = {}
    <3>1. CASE i = id
      <4>1. \A other \in DOMAIN gs \ {i} : gs[other] = m.mOpenGames[other] /\ other \in DOMAIN m.mOpenGames
        BY <1>4, <3>1
      <4> QED BY <1>4, <1>8, <1>9, <2>1, <3>1, <4>1
    <3>2. CASE i # id
      <4>1. gs[i] = m.mOpenGames[i] /\ i \in DOMAIN m.mOpenGames
        BY <1>4, <3>2
      <4>2. ASSUME NEW other \in DOMAIN gs \ {i}
            PROVE  PlayersOf(gs[i]) \cap PlayersOf(gs[other]) = {}
        <5>1. CASE other = id
          BY <1>4, <1>9, <2>1, <4>1, <5>1
        <5>2. CASE other # id
          BY <1>1, <1>4, <4>1, <5>2 DEF SeatedOnce
        <5> QED BY <5>1, <5>2
      <4> QED BY <1>1, <4>1, <4>2 DEF SeatedOnce
    <3> QED BY <3>1, <3>2
  <2> QED BY <1>5, <2>2 DEF SeatedOnce
<1>11. Opened(m, n, id, game)
  BY <1>2, <1>4, <1>5 DEF Opened
<1> QED BY <1>5, <1>6, <1>7, <1>10, <1>11 DEF Good, id

LEMMA AddGame ==
  ASSUME NEW w \in [Client -> View], NEW m, Good(m), InStep(w, m, {}), NEW p \in m.mPlayerMap,
         ~Sits(m, p), NEW game \in OpenGame, game.creator = p, game.connected = <<>>,
         NEW n, n = addGame(m, game)
  PROVE  Good(n) /\ InStep(w, n, {}) /\ Opened(m, n, FreeID(m), game)
<1> DEFINE id == FreeID(m)
           m1 == [m EXCEPT !.mIDCounter = id, !.mOpenGames = insertGame(m.mOpenGames, id, game)]
           msg == Listed(m1)
           m2 == sendPacket(m1, m1.mPlayerMap, msg)
           idle == {q \in m2.mPlayerMap : \A i \in DOMAIN m2.mOpenGames : q \notin PlayersOf(m2.mOpenGames[i])}
           m3 == sendOpenGameList(m2, idle)
<1>1. n = broadcastOpenGameStatus(m3, id)
  BY DEF addGame, broadcastOpenGameList, sendOpenGameList, Listed
<1>2. Good(m1) /\ Opened(m, m1, id, game) /\ m1.toClient = m.toClient
  BY InsertGame
<1> HIDE DEF m1, id
<1>3. IsRecord(m1) /\ IsMatchMaker(m1) /\ m1.toClient \in [Client -> Seq(ServerMessage)]
      /\ m1.mPlayerMap \subseteq Client
  BY <1>2 DEF Good, IsMatchMaker
<1>4. msg \in ServerMessage /\ msg.type = "SERVER_STATUS" /\ msg.games = DOMAIN m1.mOpenGames
  BY <1>3, MessageTypes DEF Listed
<1>5. m2 = sendPacket(m1, m1.mPlayerMap, msg)
  OBVIOUS
<1> HIDE DEF m2, msg
<1>6. OnlySent(m1, m2) /\ Good(m2)
  BY <1>2, <1>3, <1>4, <1>5, SendPacket, OnlySentGood
<1>7. \A c \in Client : Hears(w, m1, m2, m1.mPlayerMap, msg, c)
  BY <1>3, <1>4, <1>5, SendRead
<1>8. Range(<<>>) = {} /\ PlayersOf(game) = {p}
  BY DEF Range, PlayersOf
<1>9. InStep(w, m2, {p})
  <2> SUFFICES ASSUME NEW c \in Client
               PROVE  /\ c \in m1.links => Told(m1, c, Out(w, m2, c))
                      /\ c \in m1.links /\ c \in m1.mPlayerMap /\ c \notin m1.inGame \cup {p} =>
                           Placed(m1, c, Out(w, m2, c))
                      /\ Fine(w, m2, c)
    <3>1. m2.links = m1.links /\ m2.mPlayerMap = m1.mPlayerMap /\ m2.inGame = m1.inGame
      BY <1>6 DEF OnlySent
    <3> QED BY <1>6, <3>1, SameTold DEF InStep
  <2> DEFINE o == Out(w, m, c)
             u == Out(w, m2, c)
  <2>1. Out(w, m1, c) = o
    BY <1>2 DEF Out
  <2>2. /\ o \in View
        /\ c \in m1.mPlayerMap /\ c \in m1.links => u = receive(o, msg)
        /\ c \notin m1.mPlayerMap => u = o
    BY <1>7, <2>1 DEF Hears
  <2>3. Fine(w, m2, c)
    BY <1>2, <1>4, <1>7 DEF Hears, InStep, Fine, Opened
  <2>4. c \in m.links => /\ Told(m, c, o)
                         /\ c \in m.mPlayerMap /\ c \notin m.inGame => Placed(m, c, o)
    BY DEF InStep
  <2>5. m1.links = m.links /\ m1.mPlayerMap = m.mPlayerMap /\ m1.inGame = m.inGame
    BY <1>2 DEF Opened
  <2> HIDE DEF o, u
  <2>6. CASE c \in m.links /\ c \in m.inGame
    <3>1. Plays(u)
      BY <1>4, <2>2, <2>4, <2>5, <2>6, ReceiveEffect DEF Told
    <3> QED BY <2>3, <2>5, <2>6, <3>1 DEF Told, u
  <2>7. CASE c \in m.links /\ c \notin m.inGame /\ c \in m.mPlayerMap
    <3>1. Waits(m, o) /\ Placed(m, c, o)
      BY <2>4, <2>7 DEF Told
    <3>2. ~Plays(o) /\ o.configured = TRUE
      BY <3>1 DEF Waits, Plays
    <3>3. u.state = "CONNECTED" /\ u.configured = TRUE /\ u.games = DOMAIN m1.mOpenGames /\ u.sub = o.sub
      <4>1. u = receive(o, msg) /\ o \in View
        BY <2>2, <2>5, <2>7
      <4> QED BY <1>4, <3>2, <4>1, ReceiveEffect
    <3>4. Waits(m1, u)
      BY <3>3 DEF Waits
    <3>5. ASSUME c # p
          PROVE  Placed(m1, c, u)
      <4>1. \A i \in DOMAIN m1.mOpenGames : c \in PlayersOf(m1.mOpenGames[i]) => i \in DOMAIN m.mOpenGames
        BY <1>2, <1>8, <3>5 DEF Opened
      <4>2. \A i \in DOMAIN m.mOpenGames : Status(m1, i) = Status(m, i) /\ m1.mOpenGames[i] = m.mOpenGames[i]
        BY <1>2 DEF Opened, Status
      <4>3. Sits(m, c) => Sits(m1, c)
        BY <1>2 DEF Sits, Opened
      <4> QED BY <3>1, <3>3, <4>1, <4>2, <4>3 DEF Placed
    <3> QED BY <2>3, <2>5, <2>7, <3>4, <3>5 DEF Told, u
  <2>8. CASE c \in m.links /\ c \notin m.inGame /\ c \notin m.mPlayerMap
    BY <2>2, <2>3, <2>4, <2>5, <2>8 DEF Told, u
  <2>9. CASE c \notin m.links
    BY <2>3, <2>5, <2>9
  <2> QED BY <2>6, <2>7, <2>8, <2>9
<1>10. idle \in SUBSET m2.mPlayerMap /\ m3 = sendOpenGameList(m2, idle)
  OBVIOUS
<1> HIDE DEF idle, m3
<1>11. Good(m3) /\ OnlySent(m2, m3) /\ InStep(w, m3, {p})
  BY <1>6, <1>9, <1>10, ListSent
<1>12. m3.mOpenGames = m1.mOpenGames
  BY <1>6, <1>11 DEF OnlySent
<1>13. id \in DOMAIN m3.mOpenGames /\ PlayersOf(m3.mOpenGames[id]) = {p}
  BY <1>2, <1>8, <1>12 DEF Opened
<1>14. Good(n) /\ OnlySent(m3, n) /\ InStep(w, n, {})
  BY <1>1, <1>11, <1>13, StatusSent
<1>15. OnlySent(m1, n)
  BY <1>6, <1>11, <1>14, OnlySentTwice
<1>16. Opened(m, n, id, game)
  BY <1>2, <1>15 DEF Opened, OnlySent
<1> QED BY <1>14, <1>16 DEF id

(* The relation between the matchmaker before and after OPEN_GAME.             *)
OpensGame(m, n, c) ==
  /\ c \in m.mPlayerMap
  /\ \E k, id, game :
       /\ Good(k) /\ Left(m, k, c) /\ ~Sits(k, c) /\ Opened(k, n, id, game)
       /\ game.creator = c /\ Range(game.connected) = {}

LEMMA OpenAGame ==
  ASSUME NEW w \in [Client -> View], NEW m, Good(m), InStep(w, m, {}), NEW p \in m.mPlayerMap,
         m.mAllowNewGames = TRUE, NEW password \in Password, NEW n, n = openGame(m, p, password)
  PROVE  Good(n) /\ InStep(w, n, {}) /\ OpensGame(m, n, p)
<1> DEFINE k == removePlayerFromAllGames(m, p)
           game == [creator |-> p, password |-> password, connected |-> <<>>]
<1>1. n = addGame(k, game)
  BY DEF openGame
<1>2. Good(k) /\ InStep(w, k, {}) /\ Left(m, k, p) /\ ~Sits(k, p)
  BY RemovePlayerFromAllGames
<1> HIDE DEF k
<1>3. p \in k.mPlayerMap
  BY <1>2 DEF Left, Frame
<1>4. p \in Client
  BY DEF Good, IsMatchMaker
<1>5. game \in OpenGame /\ game.creator = p /\ game.connected = <<>> /\ Range(<<>>) = {}
  BY <1>4 DEF OpenGame, Range
<1> HIDE DEF game
<1>6. Good(n) /\ InStep(w, n, {}) /\ Opened(k, n, FreeID(k), game)
  BY <1>1, <1>2, <1>3, <1>5, AddGame
<1>7. OpensGame(m, n, p)
  BY <1>2, <1>5, <1>6 DEF OpensGame
<1> QED BY <1>6, <1>7

(* p sits down in a game.                                                      *)
Seated(m, n, id, p) ==
  /\ Frame(m, n)
  /\ DOMAIN n.mOpenGames = DOMAIN m.mOpenGames
  /\ \A i \in DOMAIN m.mOpenGames : i # id => n.mOpenGames[i] = m.mOpenGames[i]
  /\ n.mOpenGames[id].creator = m.mOpenGames[id].creator
  /\ Range(n.mOpenGames[id].connected) = Range(m.mOpenGames[id].connected) \cup {p}

LEMMA AppendRange ==
  ASSUME NEW q \in Seq(Client), NEW p \in Client, p \notin Range(q), IsInjective(q)
  PROVE  /\ Append(q, p) \in Seq(Client) /\ IsInjective(Append(q, p))
         /\ Range(Append(q, p)) = Range(q) \cup {p}
<1> DEFINE r == Append(q, p)
<1>1. /\ r \in Seq(Client) /\ DOMAIN r = 1..Len(q) + 1 /\ DOMAIN q = 1..Len(q) /\ Len(q) \in Nat
      /\ r[Len(q) + 1] = p /\ \A i \in 1..Len(q) : r[i] = q[i]
  OBVIOUS
<1> HIDE DEF r
<1>2. \A i \in DOMAIN r : i = Len(q) + 1 \/ i \in DOMAIN q
  BY <1>1
<1>3. \A i \in DOMAIN q : i \in DOMAIN r /\ r[i] = q[i]
  BY <1>1
<1>4. Len(q) + 1 \in DOMAIN r
  BY <1>1
<1>5. Range(r) = Range(q) \cup {p}
  BY <1>1, <1>2, <1>3, <1>4 DEF Range
<1>6. IsInjective(r)
  BY <1>1, <1>2, <1>3 DEF IsInjective, Range
<1> QED BY <1>1, <1>5, <1>6 DEF r

LEMMA SeatPlayer ==
  ASSUME NEW w \in [Client -> View], NEW m, Good(m), InStep(w, m, {}), NEW p \in m.mPlayerMap,
         ~Sits(m, p), NEW id \in DOMAIN m.mOpenGames,
         NEW n, n = broadcastOpenGameStatus(seatPlayer(m, id, p), id)
  PROVE  Good(n) /\ InStep(w, n, {}) /\ Seated(m, n, id, p)
<1> DEFINE g == m.mOpenGames[id]
           s == Append(g.connected, p)
           m1 == [m EXCEPT !.mOpenGames[id].connected = s]
           P == PlayersOf(m1.mOpenGames[id])
<1>1. n = broadcastOpenGameStatus(m1, id)
  BY DEF seatPlayer
<1>2. g \in OpenGame /\ p \in Client
  BY DEF Good, IsMatchMaker
<1>3. g.connected \in Seq(Client)
  BY <1>2 DEF OpenGame
<1>4. /\ IsInjective(g.connected) /\ PlayersOf(g) \subseteq m.mPlayerMap
      /\ g.creator \notin Range(g.connected)
      /\ \A i \in DOMAIN m.mOpenGames : i # id => PlayersOf(g) \cap PlayersOf(m.mOpenGames[i]) = {}
  BY DEF Good, SeatedOnce
<1>5. \A i \in DOMAIN m.mOpenGames : p \notin PlayersOf(m.mOpenGames[i])
  BY DEF Sits
<1>6. PlayersOf(g) = {g.creator} \cup Range(g.connected)
  BY DEF PlayersOf
<1>7. s \in Seq(Client) /\ IsInjective(s) /\ Range(s) = Range(g.connected) \cup {p}
  BY <1>2, <1>3, <1>4, <1>5, <1>6, AppendRange
<1> HIDE DEF s
<1>8. Reseated(m, m1, id, s)
  BY <1>7, Reseat
<1> HIDE DEF m1
<1>9. Good(m1)
  <2>1. /\ g.creator \notin Range(s) /\ Range(s) \subseteq m.mPlayerMap
        /\ \A i \in DOMAIN m.mOpenGames : i # id => Range(s) \cap PlayersOf(m.mOpenGames[i]) = {}
    BY <1>4, <1>5, <1>6, <1>7
  <2> QED BY <1>7, <1>8, <2>1, ReseatedGood
<1>10. P = PlayersOf(g) \cup {p}
  BY <1>6, <1>7, <1>8 DEF Reseated, PlayersOf
<1>11. InStep(w, m1, P)
  BY <1>8, <1>10, ReseatedInStep
<1>12. id \in DOMAIN m1.mOpenGames
  BY <1>8 DEF Reseated
<1>13. Good(n) /\ OnlySent(m1, n) /\ InStep(w, n, {})
  BY <1>1, <1>9, <1>11, <1>12, StatusSent
<1>14. Frame(m1, n) /\ n.mOpenGames = m1.mOpenGames
  BY <1>13, OnlySentFrame
<1>15. Seated(m, n, id, p)
  BY <1>7, <1>8, <1>14 DEF Seated, Reseated, Frame
<1> QED BY <1>13, <1>15

LEMMA JoinGame ==
  ASSUME NEW w \in [Client -> View], NEW m, Good(m), InStep(w, m, {}), NEW p, NEW id, NEW password,
         NEW n, n = joinGame(m, p, id, password)
  PROVE  /\ Good(n) /\ InStep(w, n, {})
         /\ \E k : /\ Good(k) /\ Left(m, k, p) /\ ~Sits(k, p)
                   /\ \/ Frame(k, n) /\ n.mOpenGames = k.mOpenGames
                      \/ p \in k.mPlayerMap /\ id \in DOMAIN k.mOpenGames /\ Seated(k, n, id, p)
<1> DEFINE k == removePlayerFromAllGames(m, p)
<1>1. n = IF p \notin k.mPlayerMap THEN k
          ELSE IF id \notin DOMAIN k.mOpenGames THEN sendOpenGameList(k, {p})
          ELSE IF k.mOpenGames[id].password \notin {"", password} THEN k
          ELSE broadcastOpenGameStatus(seatPlayer(k, id, p), id)
  BY DEF joinGame
<1>2. Good(k) /\ InStep(w, k, {}) /\ Left(m, k, p) /\ ~Sits(k, p)
  BY RemovePlayerFromAllGames
<1> HIDE DEF k
<1>3. CASE n = k
  BY <1>2, <1>3 DEF Frame
<1>4. CASE p \in k.mPlayerMap /\ n = sendOpenGameList(k, {p})
  <2>1. Good(n) /\ OnlySent(k, n) /\ InStep(w, n, {})
    BY <1>2, <1>4, ListSent
  <2> QED BY <1>2, <2>1, OnlySentFrame
<1>5. CASE /\ p \in k.mPlayerMap /\ id \in DOMAIN k.mOpenGames
           /\ n = broadcastOpenGameStatus(seatPlayer(k, id, p), id)
  <2>1. Good(n) /\ InStep(w, n, {}) /\ Seated(k, n, id, p)
    BY <1>2, <1>5, SeatPlayer
  <2> QED BY <1>2, <1>5, <2>1
<1> QED BY <1>1, <1>3, <1>4, <1>5

-----------------------------------------------------------------------------
(* Coming, going and starting a match.                                         *)

LEMMA AddPlayer ==
  ASSUME NEW w \in [Client -> View], NEW m, Good(m), InStep(w, m, {}), NEW p \in Client,
         p \notin m.mPlayerMap, p \notin m.inGame, NEW n, n = addPlayer(m, p)
  PROVE  /\ Good(n) /\ InStep(w, n, {})
         /\ n.mPlayerMap = m.mPlayerMap \cup {p} /\ n.mOpenGames = m.mOpenGames
         /\ n.inGame = m.inGame /\ n.links = m.links
<1> DEFINE people == m.mPlayerMap \cup {p}
           m1 == [m EXCEPT !.mPlayerMap = people]
           msg == Listed(m1)
<1>1. n = sendPacket(m1, {p}, msg)
  BY DEF addPlayer, sendOpenGameList, Listed
<1>2. IsRecord(m) /\ IsMatchMaker(m) /\ SeatedOnce(m)
  BY DEF Good
<1> HIDE DEF people
<1>3. /\ IsRecord(m1) /\ m1.mPlayerMap = people /\ m1.mOpenGames = m.mOpenGames
      /\ m1.mIDCounter = m.mIDCounter /\ m1.mAllowNewGames = m.mAllowNewGames
      /\ m1.inGame = m.inGame /\ m1.links = m.links /\ m1.toClient = m.toClient
  BY <1>2 DEF IsRecord
<1> HIDE DEF m1
<1>4. Good(m1)
  <2>1. IsMatchMaker(m1)
    BY <1>2, <1>3 DEF IsMatchMaker, people
  <2>2. SeatedOnce(m1)
    BY <1>2, <1>3 DEF SeatedOnce, people
  <2> QED BY <1>3, <2>1, <2>2 DEF Good
<1>5. msg \in ServerMessage /\ msg.type = "SERVER_STATUS" /\ msg.games = DOMAIN m.mOpenGames
  BY <1>3, <1>4, MessageTypes DEF Listed, Good
<1> HIDE DEF msg
<1>6. m1.toClient \in [Client -> Seq(ServerMessage)]
  BY <1>2, <1>3 DEF IsMatchMaker
<1>7. OnlySent(m1, n) /\ Good(n)
  BY <1>1, <1>3, <1>4, <1>5, <1>6, SendPacket, OnlySentGood
<1>8. \A c \in Client : Hears(w, m1, n, {p}, msg, c)
  BY <1>1, <1>3, <1>5, <1>6, SendRead
<1>9. InStep(w, n, {})
  <2> SUFFICES ASSUME NEW c \in Client
               PROVE  /\ c \in m1.links => Told(m1, c, Out(w, n, c))
                      /\ c \in m1.links /\ c \in m1.mPlayerMap /\ c \notin m1.inGame \cup {} =>
                           Placed(m1, c, Out(w, n, c))
                      /\ Fine(w, n, c)
    <3>1. n.links = m1.links /\ n.mPlayerMap = m1.mPlayerMap /\ n.inGame = m1.inGame
      BY <1>7 DEF OnlySent
    <3> QED BY <1>7, <3>1, SameTold DEF InStep
  <2> DEFINE o == Out(w, m, c)
             u == Out(w, n, c)
  <2>1. Out(w, m1, c) = o
    BY <1>3 DEF Out
  <2>2. /\ o \in View
        /\ c = p /\ c \in m.links => u = receive(o, msg)
        /\ c # p => u = o
    BY <1>3, <1>8, <2>1 DEF Hears
  <2>3. Fine(w, n, c)
    BY <1>3, <1>5, <1>8 DEF Hears, InStep, Fine
  <2>4. c \in m.links => /\ Told(m, c, o)
                         /\ c \in m.mPlayerMap /\ c \notin m.inGame => Placed(m, c, o)
    BY DEF InStep
  <2> HIDE DEF o, u
  <2>5. CASE c = p /\ c \in m.links
    <3>1. o.state = "CONNECTING" /\ o.configured = FALSE
      BY <2>4, <2>5 DEF Told
    <3>2. u.state = "CONNECTED" /\ u.configured = TRUE /\ u.games = DOMAIN m1.mOpenGames /\ u.sub = Main
      <4>1. ~Plays(o)
        BY <3>1 DEF Plays
      <4>2. u = receive(o, msg) /\ o \in View
        BY <2>2, <2>5
      <4> QED BY <1>3, <1>5, <3>1, <4>1, <4>2, ReceiveEffect
    <3>3. \A i \in DOMAIN m1.mOpenGames : p \notin PlayersOf(m1.mOpenGames[i])
      BY <1>2, <1>3 DEF SeatedOnce
    <3>4. Waits(m1, u) /\ Placed(m1, c, u)
      BY <2>5, <3>2, <3>3 DEF Waits, Placed
    <3>5. Told(m1, c, u)
      BY <1>3, <2>5, <3>4 DEF Told, people
    <3> QED BY <2>3, <3>4, <3>5 DEF u
  <2>6. CASE c # p
    <3>1. u = o
      BY <2>2, <2>6
    <3>2. c \in people => c \in m.mPlayerMap
      BY <2>6 DEF people
    <3>3. m.mPlayerMap \subseteq people
      BY DEF people
    <3>4. Told(m, c, o) => Told(m1, c, o)
      BY <1>3, <3>2, <3>3 DEF Told, Waits
    <3>5. Placed(m, c, o) => Placed(m1, c, o)
      BY <1>3 DEF Placed, Status, Sits
    <3> QED BY <1>3, <2>3, <2>4, <3>1, <3>2, <3>4, <3>5 DEF u
  <2> QED BY <1>3, <2>3, <2>5, <2>6
<1> QED BY <1>3, <1>7, <1>9 DEF OnlySent, people

LEMMA RemovePlayer ==
  ASSUME NEW w \in [Client -> View], NEW m, Good(m), InStep(w, m, {}), NEW p,
         p \notin m.links \/ p \in m.inGame, NEW n, n = removePlayer(m, p)
  PROVE  /\ Good(n) /\ InStep(w, n, {})
         /\ n.mPlayerMap = m.mPlayerMap \ {p} /\ n.inGame = m.inGame /\ n.links = m.links
         /\ \E k : Good(k) /\ Left(m, k, p) /\ ~Sits(k, p) /\ n.mOpenGames = k.mOpenGames
<1> DEFINE k == removePlayerFromAllGames(m, p)
           people == k.mPlayerMap \ {p}
<1>1. n = [k EXCEPT !.mPlayerMap = people]
  BY DEF removePlayer
<1>2. Good(k) /\ InStep(w, k, {}) /\ Left(m, k, p) /\ ~Sits(k, p)
  BY RemovePlayerFromAllGames
<1> HIDE DEF k
<1>3. IsRecord(k) /\ IsMatchMaker(k) /\ SeatedOnce(k)
  BY <1>2 DEF Good
<1> HIDE DEF people
<1>4. /\ IsRecord(n) /\ n.mPlayerMap = people /\ n.mOpenGames = k.mOpenGames
      /\ n.mIDCounter = k.mIDCounter /\ n.mAllowNewGames = k.mAllowNewGames
      /\ n.inGame = k.inGame /\ n.links = k.links /\ n.toClient = k.toClient
  BY <1>1, <1>3 DEF IsRecord
<1>5. Good(n)
  <2>1. IsMatchMaker(n)
    BY <1>3, <1>4 DEF IsMatchMaker, people
  <2>2. \A i \in DOMAIN k.mOpenGames : p \notin PlayersOf(k.mOpenGames[i])
    BY <1>2 DEF Sits
  <2>3. SeatedOnce(n)
    BY <1>3, <1>4, <2>2 DEF SeatedOnce, people
  <2> QED BY <1>4, <2>1, <2>3 DEF Good
<1>6. InStep(w, n, {})
  <2> SUFFICES ASSUME NEW c \in Client
               PROVE  /\ c \in n.links => Told(n, c, Out(w, n, c))
                      /\ c \in n.links /\ c \in n.mPlayerMap /\ c \notin n.inGame \cup {} =>
                           Placed(n, c, Out(w, n, c))
                      /\ Fine(w, n, c)
    BY DEF InStep
  <2> DEFINE o == Out(w, k, c)
  <2>1. Out(w, n, c) = o /\ n.toClient[c] = k.toClient[c]
    BY <1>4 DEF Out
  <2>2. /\ c \in k.links => /\ Told(k, c, o)
                            /\ c \in k.mPlayerMap /\ c \notin k.inGame => Placed(k, c, o)
        /\ Fine(w, k, c)
    BY <1>2 DEF InStep
  <2> HIDE DEF o
  <2>3. Placed(k, c, o) => Placed(n, c, o)
    BY <1>4 DEF Placed, Status, Sits
  <2>4. k.links = m.links /\ k.inGame = m.inGame
    BY <1>2 DEF Left, Frame
  <2>5. c \in k.links /\ c \notin k.inGame => c # p
    BY <2>4
  <2>6. c # p => (c \in people <=> c \in k.mPlayerMap)
    BY DEF people
  <2>7. c \in k.links /\ Told(k, c, o) => Told(n, c, o)
    BY <1>4, <2>5, <2>6 DEF Told, Waits
  <2>8. c \in people => c \in k.mPlayerMap
    BY DEF people
  <2>9. Fine(w, n, c)
    BY <1>4, <2>2 DEF Fine
  <2> QED BY <1>4, <2>1, <2>2, <2>3, <2>7, <2>8, <2>9
<1>7. k.mPlayerMap = m.mPlayerMap /\ k.inGame = m.inGame /\ k.links = m.links
  BY <1>2 DEF Left, Frame
<1> QED BY <1>2, <1>4, <1>5, <1>6, <1>7 DEF people

LEMMA CreateGame ==
  ASSUME NEW w \in [Client -> View], NEW m, Good(m), InStep(w, m, {}),
         NEW id \in DOMAIN m.mOpenGames, NEW host \in PlayersOf(m.mOpenGames[id]),
         NEW client \in PlayersOf(m.mOpenGames[id]), m.mPlayerMap \cap m.inGame = {},
         NEW n, n = createGame(m, host, client)
  PROVE  /\ Good(n) /\ InStep(w, n, {})
         /\ n.inGame = m.inGame \cup {host, client} /\ n.mPlayerMap = m.mPlayerMap
         /\ n.mOpenGames = m.mOpenGames /\ n.links = m.links
<1> DEFINE players == {host, client}
           playing == m.inGame \cup players
           m1 == [m EXCEPT !.inGame = playing]
<1>1. n = sendPacket(m1, players, Rules)
  BY DEF createGame, Rules
<1>2. IsRecord(m) /\ IsMatchMaker(m) /\ SeatedOnce(m)
  BY DEF Good
<1>0. players \subseteq m.mPlayerMap /\ players \subseteq PlayersOf(m.mOpenGames[id])
  BY <1>2 DEF SeatedOnce
<1> HIDE DEF playing, players
<1>3. /\ IsRecord(m1) /\ m1.inGame = playing /\ m1.mOpenGames = m.mOpenGames
      /\ m1.mIDCounter = m.mIDCounter /\ m1.mAllowNewGames = m.mAllowNewGames
      /\ m1.mPlayerMap = m.mPlayerMap /\ m1.links = m.links /\ m1.toClient = m.toClient
  BY <1>2 DEF IsRecord
<1> HIDE DEF m1
<1>4. Good(m1)
  <2>1. IsMatchMaker(m1)
    <3>1. playing \subseteq Client
      BY <1>0, <1>2 DEF IsMatchMaker, playing
    <3> QED BY <1>2, <1>3, <3>1 DEF IsMatchMaker
  <2>2. SeatedOnce(m1)
    BY <1>2, <1>3 DEF SeatedOnce
  <2> QED BY <1>3, <2>1, <2>2 DEF Good
<1>5. Rules \in ServerMessage /\ Rules.type = "RULES_CHECKSUM"
  BY MessageTypes DEF Rules
<1>6. m1.toClient \in [Client -> Seq(ServerMessage)]
  BY <1>2, <1>3 DEF IsMatchMaker
<1>7. OnlySent(m1, n) /\ Good(n)
  BY <1>1, <1>3, <1>4, <1>5, <1>6, SendPacket, OnlySentGood
<1>8. \A c \in Client : Hears(w, m1, n, players, Rules, c)
  BY <1>1, <1>3, <1>5, <1>6, SendRead
<1>9. InStep(w, n, {})
  <2> SUFFICES ASSUME NEW c \in Client
               PROVE  /\ c \in m1.links => Told(m1, c, Out(w, n, c))
                      /\ c \in m1.links /\ c \in m1.mPlayerMap /\ c \notin m1.inGame \cup {} =>
                           Placed(m1, c, Out(w, n, c))
                      /\ Fine(w, n, c)
    <3>1. n.links = m1.links /\ n.mPlayerMap = m1.mPlayerMap /\ n.inGame = m1.inGame
      BY <1>7 DEF OnlySent
    <3> QED BY <1>7, <3>1, SameTold DEF InStep
  <2> DEFINE o == Out(w, m, c)
             u == Out(w, n, c)
  <2>1. Out(w, m1, c) = o
    BY <1>3 DEF Out
  <2>2. /\ o \in View
        /\ c \in players /\ c \in m.links => u = receive(o, Rules)
        /\ c \notin players => u = o
    BY <1>3, <1>8, <2>1 DEF Hears
  <2>4. /\ c \in m.links => /\ Told(m, c, o)
                            /\ c \in m.mPlayerMap /\ c \notin m.inGame => Placed(m, c, o)
        /\ Fine(w, m, c)
    BY DEF InStep
  <2>3. Fine(w, n, c)
    <3>1. CASE c \notin m.links
      BY <1>3, <1>8, <2>4, <3>1 DEF Hears, Fine
    <3>2. CASE c \notin players
      BY <1>3, <1>8, <2>4, <3>2 DEF Hears, Fine
    <3>3. CASE c \in m.links /\ c \in players
      <4>1. c \in m.mPlayerMap /\ c \notin m.inGame /\ c \in PlayersOf(m.mOpenGames[id])
        BY <1>0, <3>3
      <4>2. Waits(m, o) /\ Placed(m, c, o)
        BY <2>4, <3>3, <4>1 DEF Told
      <4>3. o.sub = Status(m, id) /\ o.state = "CONNECTED"
        BY <4>1, <4>2 DEF Waits, Placed
      <4>4. Status(m, id) # Main
        <5>1. Status(m, id).type = "GAME_STATUS" /\ Main.type = "MAIN"
          BY DEF Status, Main
        <5> QED BY <5>1
      <4>5. AtTable(Out(w, m1, c))
        BY <2>1, <4>3, <4>4 DEF AtTable
      <4> QED BY <1>3, <1>8, <2>4, <4>5 DEF Hears, Fine
    <3> QED BY <3>1, <3>2, <3>3
  <2> HIDE DEF o, u
  <2>5. CASE c \in m.links /\ c \in players
    <3>1. Plays(u)
      BY <1>5, <2>2, <2>5, ReceiveEffect
    <3> QED BY <1>3, <2>3, <2>5, <3>1 DEF Told, playing, u
  <2>6. CASE c \in m.links /\ c \notin players
    <3>1. u = o /\ (c \in playing <=> c \in m.inGame)
      BY <2>2, <2>6 DEF playing
    <3>2. Told(m, c, o) => Told(m1, c, o)
      BY <1>3, <3>1 DEF Told, Waits
    <3>3. Placed(m, c, o) => Placed(m1, c, o)
      BY <1>3 DEF Placed, Status, Sits
    <3> QED BY <1>3, <2>3, <2>4, <2>6, <3>1, <3>2, <3>3 DEF u
  <2> QED BY <1>3, <2>3, <2>5, <2>6
<1> QED BY <1>3, <1>7, <1>9 DEF OnlySent, playing, players

(* The match takes both players out of the lobby, and the host's game with them. *)
Started(m, n, id, host, client) ==
  /\ host # client
  /\ id \in DOMAIN m.mOpenGames /\ m.mOpenGames[id].creator = host
  /\ client \in Range(m.mOpenGames[id].connected)
  /\ n.mPlayerMap = m.mPlayerMap \ {host, client}
  /\ n.inGame = m.inGame \cup {host, client}
  /\ n.links = m.links
  /\ DOMAIN n.mOpenGames = DOMAIN m.mOpenGames \ {id}
  /\ \A i \in DOMAIN n.mOpenGames :
       /\ n.mOpenGames[i].creator = m.mOpenGames[i].creator
       /\ Range(n.mOpenGames[i].connected) = Range(m.mOpenGames[i].connected)

LEMMA StartGame ==
  ASSUME NEW w \in [Client -> View], NEW m, Good(m), InStep(w, m, {}), NEW host, NEW client,
         m.mPlayerMap \cap m.inGame = {}, NEW n, n = startGame(m, host, client)
  PROVE  Good(n) /\ InStep(w, n, {}) /\ (n = m \/ \E id : Started(m, n, id, host, client))
<1>1. CASE ~\E id \in GamesOf(m, host) : client \in Range(m.mOpenGames[id].connected)
  BY <1>1 DEF startGame
<1>2. CASE \E id \in GamesOf(m, host) : client \in Range(m.mOpenGames[id].connected)
  <2>1. PICK id \in GamesOf(m, host) : client \in Range(m.mOpenGames[id].connected)
    BY <1>2
  <2> DEFINE m1 == createGame(m, host, client)
             m2 == removePlayer(m1, host)
  <2>2. n = removePlayer(m2, client)
    BY <1>2 DEF startGame
  <2>3. /\ id \in DOMAIN m.mOpenGames /\ m.mOpenGames[id].creator = host
        /\ host \in PlayersOf(m.mOpenGames[id]) /\ client \in PlayersOf(m.mOpenGames[id])
    BY <2>1 DEF GamesOf, PlayersOf
  <2>4. host # client
    BY <2>1, <2>3 DEF Good, SeatedOnce
  <2>5. /\ Good(m1) /\ InStep(w, m1, {})
        /\ m1.inGame = m.inGame \cup {host, client} /\ m1.mPlayerMap = m.mPlayerMap
        /\ m1.mOpenGames = m.mOpenGames /\ m1.links = m.links
    BY <2>3, CreateGame
  <2>6. m2 = removePlayer(m1, host)
    OBVIOUS
  <2> HIDE DEF m1, m2
  <2>7. /\ Good(m2) /\ InStep(w, m2, {})
        /\ m2.mPlayerMap = m1.mPlayerMap \ {host} /\ m2.inGame = m1.inGame /\ m2.links = m1.links
        /\ \E k : Good(k) /\ Left(m1, k, host) /\ ~Sits(k, host) /\ m2.mOpenGames = k.mOpenGames
    BY <2>5, <2>6, RemovePlayer
  <2>8. PICK k : Left(m1, k, host) /\ m2.mOpenGames = k.mOpenGames
    BY <2>7
  <2>9. client \in m2.inGame
    BY <2>5, <2>7
  <2>10. /\ Good(n) /\ InStep(w, n, {})
         /\ n.mPlayerMap = m2.mPlayerMap \ {client} /\ n.inGame = m2.inGame /\ n.links = m2.links
    BY <2>2, <2>7, <2>9, RemovePlayer
  <2>11. \A i \in DOMAIN m.mOpenGames : i # id => host \notin PlayersOf(m.mOpenGames[i])
                                                 /\ client \notin PlayersOf(m.mOpenGames[i])
    BY <2>3, OneSeat
  <2>12. GamesOf(m1, host) = {id}
    <3>1. \A i \in DOMAIN m.mOpenGames : m.mOpenGames[i].creator = host => host \in PlayersOf(m.mOpenGames[i])
      BY DEF PlayersOf
    <3> QED BY <2>3, <2>5, <2>11, <3>1 DEF GamesOf
  <2>13. /\ DOMAIN m2.mOpenGames = DOMAIN m.mOpenGames \ {id}
         /\ \A i \in DOMAIN m2.mOpenGames :
              /\ m2.mOpenGames[i].creator = m.mOpenGames[i].creator
              /\ Range(m2.mOpenGames[i].connected) = Range(m.mOpenGames[i].connected)
    <3>1. /\ DOMAIN m2.mOpenGames = DOMAIN m.mOpenGames \ {id}
          /\ \A i \in DOMAIN m2.mOpenGames :
               /\ m2.mOpenGames[i].creator = m.mOpenGames[i].creator
               /\ Range(m2.mOpenGames[i].connected) = Range(m.mOpenGames[i].connected) \ {host}
      BY <2>5, <2>8, <2>12 DEF Left
    <3>2. \A i \in DOMAIN m2.mOpenGames : host \notin Range(m.mOpenGames[i].connected)
      BY <2>11, <3>1 DEF PlayersOf
    <3> QED BY <3>1, <3>2
  <2>14. ~Sits(m2, client)
    <3>1. \A i \in DOMAIN m2.mOpenGames : PlayersOf(m2.mOpenGames[i]) = PlayersOf(m.mOpenGames[i])
      BY <2>13 DEF PlayersOf
    <3> QED BY <2>11, <2>13, <3>1 DEF Sits
  <2>15. n.mOpenGames = m2.mOpenGames
    <3>1. removePlayerFromAllGames(m2, client) = m2
      BY <2>14, NothingToLeave
    <3> QED BY <2>2, <2>7, <3>1 DEF removePlayer, Good, IsRecord
  <2>16. Started(m, n, id, host, client)
    BY <2>1, <2>3, <2>4, <2>5, <2>7, <2>10, <2>13, <2>15 DEF Started
  <2> QED BY <2>10, <2>16
<1> QED BY <1>1, <1>2

-----------------------------------------------------------------------------
(* The inductive invariant.                                                    *)

(* Whoever enters is new to the lobby, and enters once; nobody is cut off twice. *)
PacketsOf(c) ==
  /\ \A i \in DOMAIN toServer[c] :
       toServer[c][i].type = "ENTER_SERVER" =>
         i = 1 /\ c \notin mMatchMaker.mPlayerMap /\ c \notin mMatchMaker.inGame
  /\ \A i \in DOMAIN toServer[c] :
       toServer[c][i].type = "CONNECTION_LOST" => c \notin mMatchMaker.links

Connected(c) ==
  /\ view[c].state = "OFFLINE" =>
       /\ toServer[c] = <<>> /\ view[c].configured = FALSE
       /\ c \notin mMatchMaker.mPlayerMap /\ c \notin mMatchMaker.inGame
  /\ c \in mMatchMaker.links <=> view[c].state \notin {"OFFLINE", "GONE"}

IInv ==
  /\ TypeOK
  /\ Good(mMatchMaker)
  /\ mMatchMaker.mPlayerMap \cap mMatchMaker.inGame = {}
  /\ InStep(view, mMatchMaker, {})
  /\ \A c \in Client : PacketsOf(c) /\ Connected(c)

LEMMA OutlookIsOut ==
  ASSUME NEW c
  PROVE  Outlook(c) = Out(view, mMatchMaker, c)
BY DEF Outlook, Out

LEMMA InvImpliesMirror ==
  ASSUME IInv
  PROVE  LobbyMirror /\ EveryGameIsListed
<1>1. ASSUME NEW c \in mMatchMaker.links
      PROVE  /\ c \in Client
             /\ Told(mMatchMaker, c, Outlook(c))
             /\ c \in mMatchMaker.mPlayerMap => c \notin mMatchMaker.inGame
             /\ c \in mMatchMaker.mPlayerMap => Placed(mMatchMaker, c, Outlook(c))
  <2>1. c \in Client
    BY DEF IInv, Good, IsMatchMaker
  <2>2. c \in mMatchMaker.mPlayerMap => c \notin mMatchMaker.inGame
    BY DEF IInv
  <2> QED BY <2>1, <2>2, OutlookIsOut DEF IInv, InStep
<1>2. EveryGameIsListed
  BY <1>1 DEF EveryGameIsListed, Told, Waits, Games
<1>3. LobbyMirror
  <2> SUFFICES ASSUME NEW c \in mMatchMaker.links
               PROVE  LET v == Outlook(c)
                          mine == GamesOf(mMatchMaker, c) \cup GuestIn(mMatchMaker, c)
                      IN /\ c \in mMatchMaker.inGame => v.state \in {"SWITCHING", "PLAYING"}
                         /\ c \in mMatchMaker.mPlayerMap =>
                              /\ v.state = "CONNECTED"
                              /\ mine = {} => v.sub = Main
                              /\ \A id \in mine :
                                   v.sub = [type |-> "GAME_STATUS", id |-> id, creator |-> Games[id].creator,
                                            connected |-> Games[id].connected]
                         /\ c \notin mMatchMaker.mPlayerMap \cup mMatchMaker.inGame => v.state = "CONNECTING"
    BY DEF LobbyMirror
  <2> DEFINE v == Outlook(c)
             mine == GamesOf(mMatchMaker, c) \cup GuestIn(mMatchMaker, c)
  <2>1. \A id \in mine : id \in DOMAIN mMatchMaker.mOpenGames /\ c \in PlayersOf(mMatchMaker.mOpenGames[id])
    BY DEF GamesOf, GuestIn, PlayersOf
  <2>2. mine = {} => ~Sits(mMatchMaker, c)
    BY DEF GamesOf, GuestIn, PlayersOf, Sits
  <2>3. \A id \in mine : Status(mMatchMaker, id) =
          [type |-> "GAME_STATUS", id |-> id, creator |-> Games[id].creator, connected |-> Games[id].connected]
    BY DEF Status, Games
  <2> HIDE DEF v, mine
  <2>4. c \in mMatchMaker.inGame => v.state \in {"SWITCHING", "PLAYING"}
    BY <1>1 DEF Told, Plays, v
  <2>5. ASSUME c \in mMatchMaker.mPlayerMap
        PROVE  Waits(mMatchMaker, v) /\ Placed(mMatchMaker, c, v)
    BY <1>1, <2>5 DEF Told, v
  <2>6. c \notin mMatchMaker.mPlayerMap \cup mMatchMaker.inGame => v.state = "CONNECTING"
    BY <1>1 DEF Told, v
  <2>7. c \in mMatchMaker.mPlayerMap =>
          /\ v.state = "CONNECTED"
          /\ mine = {} => v.sub = Main
          /\ \A id \in mine : v.sub = Status(mMatchMaker, id)
    BY <2>1, <2>2, <2>5 DEF Waits, Placed
  <2> QED BY <2>3, <2>4, <2>6, <2>7 DEF v, mine
<1> QED BY <1>2, <1>3

LEMMA InvImpliesOthers ==
  ASSUME IInv
  PROVE  TypeOK /\ OneGamePerPlayer /\ RulesOnlyInGameSubstate
<1>1. OneGamePerPlayer
  BY DEF IInv, Good, SeatedOnce, OneGamePerPlayer, Games
<1>2. ASSUME NEW c \in Client, mMatchMaker.toClient[c] # <<>>,
             Head(mMatchMaker.toClient[c]).type = "RULES_CHECKSUM"
      PROVE  view[c].sub # Main
  <2> DEFINE q == mMatchMaker.toClient[c]
  <2>1. q \in Seq(ServerMessage) /\ view[c] \in View
    BY DEF IInv, TypeOK, IsMatchMaker
  <2>2. RulesFine(view[c], q)
    BY DEF IInv, InStep, Fine
  <2>3. q # <<>> /\ Head(q).type = "RULES_CHECKSUM"
    BY <1>2
  <2> HIDE DEF q
  <2>4. 1 \in 1..Len(q) /\ Head(q) = q[1] /\ SubSeq(q, 1, 1 - 1) = <<>>
    BY <2>1, <2>3
  <2>5. AtTable(FoldLeft(receive, view[c], <<>>))
    BY <2>2, <2>3, <2>4 DEF RulesFine
  <2>6. FoldLeft(receive, view[c], <<>>) = view[c]
    BY <2>1, ReceiveView, ReadNothing
  <2> QED BY <2>5, <2>6 DEF AtTable
<1>3. RulesOnlyInGameSubstate
  BY <1>2 DEF RulesOnlyInGameSubstate
<1> QED BY <1>1, <1>3 DEF IInv

-----------------------------------------------------------------------------
(* The first state.                                                            *)

LEMMA InitInv ==
  ASSUME Init
  PROVE  IInv
<1> DEFINE m == mMatchMaker
<1>1. /\ m = EmptyLobby /\ m.mOpenGames = NoGames /\ m.mIDCounter = 0 /\ m.mPlayerMap = {}
      /\ m.mAllowNewGames = TRUE /\ m.inGame = {} /\ m.links = {}
      /\ m.toClient = [c \in Client |-> <<>>]
  BY DEF Init, EmptyLobby
<1>2. DOMAIN NoGames = {} /\ NoGames = [id \in DOMAIN NoGames |-> NoGames[id]]
  BY DEF NoGames
<1>3. IsRecord(m)
  BY <1>1, <1>2 DEF IsRecord, EmptyLobby
<1> HIDE DEF m
<1>4. IsMatchMaker(m)
  <2>1. m.toClient \in [Client -> Seq(ServerMessage)]
    BY <1>1
  <2>2. /\ m.mIDCounter \in GameID /\ DOMAIN m.mOpenGames = {}
        /\ m.mPlayerMap \subseteq Client /\ m.inGame \subseteq Client /\ m.links \subseteq Client
    BY <1>1, <1>2 DEF GameID
  <2>3. m.mAllowNewGames \in BOOLEAN
    BY <1>1
  <2> QED BY <2>1, <2>2, <2>3 DEF IsMatchMaker
<1>5. Good(m)
  BY <1>1, <1>2, <1>3, <1>4 DEF Good, SeatedOnce
<1>6. \A c \in Client : view[c] = NewView /\ toServer[c] = <<>>
  BY DEF Init
<1>7. NewView \in View /\ NewView.state = "OFFLINE" /\ NewView.configured = FALSE
  BY DEF NewView, View, ViewState, Substate
<1>8. TypeOK
  <2>1. view \in [Client -> View]
    BY <1>7 DEF Init
  <2>2. toServer \in [Client -> Seq(ClientMessage)]
    BY DEF Init
  <2>3. mAborted \in BOOLEAN
    BY DEF Init
  <2>4. requests \in 0..MaxRequests
    BY MaxRequestsAssumption DEF Init
  <2> QED BY <1>4, <2>1, <2>2, <2>3, <2>4 DEF TypeOK, m
<1>9. InStep(view, m, {})
  <2>1. \A c \in Client : m.toClient[c] = <<>> /\ Len(<<>>) = 0
    BY <1>1
  <2> QED BY <1>1, <2>1 DEF InStep, Fine, RulesFine
<1>10. \A c \in Client : PacketsOf(c) /\ Connected(c)
  BY <1>1, <1>6, <1>7 DEF PacketsOf, Connected, m
<1> QED BY <1>1, <1>5, <1>8, <1>9, <1>10 DEF IInv, m

-----------------------------------------------------------------------------
(* The steps of the clients.                                                   *)

SameGames(m, n) ==
  /\ IsRecord(n)
  /\ n.mOpenGames = m.mOpenGames /\ n.mIDCounter = m.mIDCounter /\ n.mPlayerMap = m.mPlayerMap
  /\ n.mAllowNewGames = m.mAllowNewGames /\ n.inGame = m.inGame

LEMMA SameGamesGood ==
  ASSUME NEW m, Good(m), NEW n, SameGames(m, n), n.links \subseteq Client,
         n.toClient \in [Client -> Seq(ServerMessage)]
  PROVE  Good(n)
<1>1. IsMatchMaker(n)
  BY DEF Good, SameGames, IsMatchMaker
<1>2. SeatedOnce(n)
  BY DEF Good, SameGames, SeatedOnce
<1> QED BY <1>1, <1>2 DEF Good, SameGames

(* A step that concerns one client only.                                       *)
OnlyFor(c, w, m, u, n) ==
  \A d \in Client \ {c} :
    u[d] = w[d] /\ n.toClient[d] = m.toClient[d] /\ (d \in n.links <=> d \in m.links)

LEMMA OneInStep ==
  ASSUME NEW w, NEW m, InStep(w, m, {}), NEW u, NEW n, SameGames(m, n), NEW c \in Client,
         OnlyFor(c, w, m, u, n), Fine(u, n, c),
         c \in n.links => Told(m, c, Out(u, n, c)),
         c \in n.links /\ c \in m.mPlayerMap /\ c \notin m.inGame => Placed(m, c, Out(u, n, c))
  PROVE  InStep(u, n, {})
<1>1. \A d, v : Told(n, d, v) = Told(m, d, v) /\ Placed(n, d, v) = Placed(m, d, v)
  BY DEF SameGames, Told, Placed, Waits, Status, Sits
<1>2. n.mPlayerMap = m.mPlayerMap /\ n.inGame = m.inGame
  BY DEF SameGames
<1>3. ASSUME NEW d \in Client, d # c
      PROVE  Out(u, n, d) = Out(w, m, d) /\ (Fine(w, m, d) => Fine(u, n, d)) /\ (d \in n.links <=> d \in m.links)
  <2>1. u[d] = w[d] /\ n.toClient[d] = m.toClient[d] /\ (d \in n.links <=> d \in m.links)
    BY <1>3 DEF OnlyFor
  <2> QED BY <2>1 DEF Out, Fine
<1>4. ASSUME NEW d \in Client
      PROVE  /\ d \in n.links => Told(m, d, Out(u, n, d))
             /\ d \in n.links /\ d \in m.mPlayerMap /\ d \notin m.inGame => Placed(m, d, Out(u, n, d))
             /\ Fine(u, n, d)
  <2>1. CASE d = c
    BY <2>1
  <2>2. CASE d # c
    BY <1>3, <2>2 DEF InStep
  <2> QED BY <2>1, <2>2
<1> QED BY <1>1, <1>2, <1>4 DEF InStep

(* What the client still has to send stays in order.                           *)
LEMMA QueueTypes ==
  ASSUME IInv, NEW c \in Client
  PROVE  /\ toServer[c] \in Seq(ClientMessage) /\ view[c] \in View
         /\ mMatchMaker.toClient[c] \in Seq(ServerMessage)
         /\ toServer \in [Client -> Seq(ClientMessage)] /\ view \in [Client -> View]
         /\ mMatchMaker.toClient \in [Client -> Seq(ServerMessage)]
         /\ mMatchMaker.links \subseteq Client /\ mMatchMaker.mPlayerMap \subseteq Client
         /\ mMatchMaker.inGame \subseteq Client
BY DEF IInv, TypeOK, IsMatchMaker

LEMMA ConnectInv ==
  ASSUME IInv, NEW c \in Client, Connect(c)
  PROVE  IInv'
<1> DEFINE m == mMatchMaker
           n == mMatchMaker'
           L == m.links \cup {c}
<1>1. IsRecord(m) /\ Good(m)
  BY DEF IInv, Good
<1>2. n = [m EXCEPT !.links = L]
  BY DEF Connect
<1> HIDE DEF L
<1>3. SameGames(m, n) /\ n.links = L /\ n.toClient = m.toClient
  BY <1>1, <1>2 DEF IsRecord, SameGames
<1>4. /\ view[c].state = "OFFLINE" /\ c \notin m.links /\ toServer[c] = <<>>
      /\ c \notin m.mPlayerMap /\ c \notin m.inGame /\ view[c].configured = FALSE
  BY DEF Connect, IInv, Connected
<1>5. m.toClient[c] = <<>>
  BY <1>4 DEF IInv, InStep, Fine
<1>6. /\ view' = [view EXCEPT ![c].state = "CONNECTING"]
      /\ toServer' = [toServer EXCEPT ![c] = Append(toServer[c], Enter)]
  BY DEF Connect
<1>7. /\ toServer'[c] = <<Enter>> /\ view'[c] \in View
      /\ view'[c].state = "CONNECTING" /\ view'[c].configured = FALSE
      /\ \A d \in Client \ {c} : view'[d] = view[d] /\ toServer'[d] = toServer[d]
  <2>1. toServer'[c] = <<Enter>>
    BY <1>4, <1>6, QueueTypes
  <2>2. view'[c] = [view[c] EXCEPT !.state = "CONNECTING"]
    BY <1>6, QueueTypes
  <2>3. view[c] \in View
    BY QueueTypes
  <2>4. /\ view'[c] \in View /\ view'[c].state = "CONNECTING"
        /\ view'[c].configured = view[c].configured
    BY <2>2, <2>3 DEF View, ViewState
  <2>5. \A d \in Client \ {c} : view'[d] = view[d] /\ toServer'[d] = toServer[d]
    BY <1>6, QueueTypes
  <2> QED BY <1>4, <2>1, <2>4, <2>5
<1>8. Enter \in ClientMessage /\ Enter.type = "ENTER_SERVER"
  BY DEF Enter, ClientMessage
<1>9. toServer' \in [Client -> Seq(ClientMessage)] /\ view' \in [Client -> View]
  <2>1. toServer'[c] \in Seq(ClientMessage)
    BY <1>7, <1>8
  <2> QED BY <1>6, <1>7, <2>1, QueueTypes
<1> HIDE DEF n
<1>10. Good(n) /\ n.links \subseteq Client
  <2>1. L \subseteq Client
    BY QueueTypes DEF L
  <2> QED BY <1>1, <1>3, <2>1, QueueTypes, SameGamesGood
<1>11. InStep(view', n, {})
  <2>1. OnlyFor(c, view, m, view', n)
    BY <1>3, <1>7 DEF OnlyFor, L
  <2>2. Out(view', n, c) = view'[c]
    BY <1>3, <1>5, <1>7, ReceiveView, ReadNothing DEF Out
  <2>3. Told(m, c, Out(view', n, c))
    BY <1>4, <1>7, <2>2 DEF Told
  <2>4. Fine(view', n, c)
    <3>1. Len(<<>>) = 0
      OBVIOUS
    <3> QED BY <1>3, <1>5, <3>1 DEF Fine, RulesFine
  <2> QED BY <1>3, <1>4, <2>1, <2>3, <2>4, OneInStep DEF IInv
<1>12. n.mPlayerMap = m.mPlayerMap /\ n.inGame = m.inGame
  BY <1>3 DEF SameGames
<1>13. ASSUME NEW d \in Client
       PROVE  PacketsOf(d)' /\ Connected(d)'
  <2>1. PacketsOf(d) /\ Connected(d)
    BY DEF IInv
  <2>2. CASE d = c
    <3>1. \A i \in DOMAIN toServer'[c] : i = 1 /\ toServer'[c][i] = Enter
      BY <1>7
    <3>2. "ENTER_SERVER" # "CONNECTION_LOST"
      OBVIOUS
    <3> QED BY <1>3, <1>4, <1>7, <1>8, <1>12, <2>2, <3>1 DEF PacketsOf, Connected, n, L
  <2>3. CASE d # c
    BY <1>3, <1>7, <1>12, <2>1, <2>3 DEF PacketsOf, Connected, n, L
  <2> QED BY <2>2, <2>3
<1>14. TypeOK'
  <2>1. IsMatchMaker(n)
    BY <1>10 DEF Good
  <2>2. mAborted' = mAborted /\ requests' = requests
    BY DEF Connect
  <2>3. requests' \in 0..MaxRequests
    BY <2>2 DEF IInv, TypeOK
  <2>4. mAborted' \in BOOLEAN
    BY <2>2 DEF IInv, TypeOK
  <2> QED BY <1>9, <2>1, <2>3, <2>4 DEF TypeOK, n
<1> QED BY <1>10, <1>11, <1>12, <1>13, <1>14 DEF IInv, n

LEMMA RequestInv ==
  ASSUME IInv, NEW c \in Client, NEW msg \in ClientMessage,
         msg.type \notin {"ENTER_SERVER", "CONNECTION_LOST"}, Request(c, msg)
  PROVE  IInv'
<1>1. /\ mMatchMaker' = mMatchMaker /\ mAborted' = mAborted /\ view' = view
      /\ toServer' = [toServer EXCEPT ![c] = Append(toServer[c], msg)]
      /\ requests' = requests + 1 /\ requests < MaxRequests /\ view[c].state \in {"CONNECTED", "SWITCHING"}
  BY DEF Request
<1>2. toServer'[c] = Append(toServer[c], msg) /\ \A d \in Client \ {c} : toServer'[d] = toServer[d]
  BY <1>1, QueueTypes
<1>3. toServer' \in [Client -> Seq(ClientMessage)]
  <2>1. toServer'[c] \in Seq(ClientMessage)
    BY <1>2, QueueTypes
  <2> QED BY <1>1, <2>1, QueueTypes
<1>4. requests' \in 0..MaxRequests
  BY <1>1, MaxRequestsAssumption DEF IInv, TypeOK
<1>5. TypeOK'
  <2>1. IsMatchMaker(mMatchMaker') /\ view' \in [Client -> View]
    BY <1>1 DEF IInv, TypeOK
  <2>2. mAborted' \in BOOLEAN
    BY <1>1 DEF IInv, TypeOK
  <2> QED BY <1>3, <1>4, <2>1, <2>2 DEF TypeOK
<1>6. ASSUME NEW d \in Client
      PROVE  PacketsOf(d)' /\ Connected(d)'
  <2>1. PacketsOf(d) /\ Connected(d)
    BY DEF IInv
  <2>2. CASE d = c
    <3>1. \A i \in DOMAIN toServer'[c] :
            \/ toServer'[c][i] = msg
            \/ i \in DOMAIN toServer[c] /\ toServer'[c][i] = toServer[c][i]
      BY <1>2, QueueTypes
    <3> QED BY <1>1, <2>1, <2>2, <3>1 DEF PacketsOf, Connected
  <2>3. CASE d # c
    BY <1>1, <1>2, <2>1, <2>3 DEF PacketsOf, Connected
  <2> QED BY <2>2, <2>3
<1> QED BY <1>1, <1>5, <1>6 DEF IInv

LEMMA RequestsInv ==
  ASSUME IInv, NEW c \in Client,
         RequestOpen(c) \/ RequestJoin(c) \/ RequestLeave(c) \/ RequestStart(c)
  PROVE  IInv'
<1>1. CASE RequestOpen(c)
  <2>1. PICK pw \in Password : Request(c, Open(pw))
    BY <1>1 DEF RequestOpen
  <2>2. Open(pw) \in ClientMessage /\ Open(pw).type = "OPEN_GAME"
    BY DEF Open, ClientMessage
  <2> QED BY <2>1, <2>2, RequestInv
<1>2. CASE RequestJoin(c)
  <2>1. PICK id \in view[c].games, pw \in Password : Request(c, Join(id, pw))
    BY <1>2 DEF RequestJoin
  <2>2. id \in GameID
    BY QueueTypes DEF View
  <2>3. Join(id, pw) \in ClientMessage /\ Join(id, pw).type = "JOIN_GAME"
    BY <2>2 DEF Join, ClientMessage
  <2> QED BY <2>1, <2>3, RequestInv
<1>3. CASE RequestLeave(c)
  <2>1. Request(c, Leave)
    BY <1>3 DEF RequestLeave
  <2>2. Leave \in ClientMessage /\ Leave.type = "LEAVE_GAME"
    BY DEF Leave, ClientMessage
  <2> QED BY <2>1, <2>2, RequestInv
<1>4. CASE RequestStart(c)
  <2>1. PICK target \in Range(view[c].sub.connected) : Request(c, Start(target))
    BY <1>4 DEF RequestStart
  <2>2. view[c].sub \in Substate /\ view[c].sub # Main
    BY <1>4, QueueTypes DEF RequestStart, View
  <2>3. view[c].sub \in ServerMessage /\ view[c].sub.type = "GAME_STATUS"
    BY <2>2 DEF Substate
  <2>4. view[c].sub.connected \in Seq(Client)
    BY <2>3 DEF ServerMessage
  <2>5. target \in Client
    BY <2>4 DEF Range
  <2>6. Start(target) \in ClientMessage /\ Start(target).type = "START_GAME"
    BY <2>5 DEF Start, ClientMessage
  <2> QED BY <2>1, <2>6, RequestInv
<1> QED BY <1>1, <1>2, <1>3, <1>4

(* A client reads: what it will believe in the end stays.                      *)
LEMMA ClientReceiveInv ==
  ASSUME IInv, NEW c \in Client, ClientReceive(c)
  PROVE  IInv'
<1> DEFINE m == mMatchMaker
           n == mMatchMaker'
           q == m.toClient[c]
           Q == [m.toClient EXCEPT ![c] = Tail(q)]
           v == view[c]
           r == receive(v, Head(q))
<1>1. IsRecord(m) /\ Good(m)
  BY DEF IInv, Good
<1>2. n = [m EXCEPT !.toClient = Q]
  BY <1>1 DEF ClientReceive, IsRecord
<1>3. q \in Seq(ServerMessage) /\ q # <<>> /\ v \in View
  BY QueueTypes DEF ClientReceive
<1>4. Tail(q) \in Seq(ServerMessage) /\ Head(q) \in ServerMessage
  BY <1>3
<1>5. Q \in [Client -> Seq(ServerMessage)] /\ Q[c] = Tail(q) /\ \A d \in Client \ {c} : Q[d] = m.toClient[d]
  BY <1>4, QueueTypes
<1> HIDE DEF Q
<1>6. SameGames(m, n) /\ n.links = m.links /\ n.toClient = Q
  BY <1>1, <1>2 DEF IsRecord, SameGames
<1>7. view' = [view EXCEPT ![c] = r] /\ toServer' = toServer /\ mAborted' = mAborted /\ requests' = requests
  BY DEF ClientReceive
<1>8. r \in View
  BY <1>3, <1>4, ReceiveView DEF Closed
<1>9. FoldLeft(receive, v, q) = FoldLeft(receive, r, Tail(q))
  BY <1>3, ReceiveView, ReadFirst
<1>10. RulesFine(r, Tail(q))
  <2>1. RulesFine(v, q)
    BY DEF IInv, InStep, Fine
  <2> HIDE DEF q, v
  <2> QED BY <1>3, <2>1, FineTail
<1>11. c \in m.links
  BY <1>3 DEF IInv, InStep, Fine
<1>12. v.state \notin {"OFFLINE", "GONE"} /\ r.state \notin {"OFFLINE", "GONE"}
  <2>1. v.state \notin {"OFFLINE", "GONE"}
    BY <1>11 DEF IInv, Connected
  <2>2. r.state \notin {"OFFLINE", "GONE"}
    <3>1. CASE Plays(v)
      BY <1>3, <1>4, <3>1, ReceiveEffect DEF Plays
    <3>2. CASE ~Plays(v)
      <4>1. \/ Head(q).type = "SERVER_STATUS" \/ Head(q).type = "GAME_STATUS"
            \/ Head(q).type = "REMOVED_FROM_GAME" \/ Head(q).type = "RULES_CHECKSUM"
        BY <1>4, MessageShape
      <4>2. Plays(r) \/ r.state = "CONNECTED"
        BY <1>3, <1>4, <3>2, <4>1, ReceiveEffect
      <4> QED BY <4>2 DEF Plays
    <3> QED BY <3>1, <3>2
  <2> QED BY <2>1, <2>2
<1> HIDE DEF n, q, r, v
<1>13. view' \in [Client -> View] /\ view'[c] = r /\ \A d \in Client \ {c} : view'[d] = view[d]
  BY <1>7, <1>8, QueueTypes
<1>14. Good(n)
  BY <1>1, <1>5, <1>6, QueueTypes, SameGamesGood
<1>15. InStep(view', n, {})
  <2>1. OnlyFor(c, view, m, view', n)
    BY <1>5, <1>6, <1>13 DEF OnlyFor
  <2>2. Out(view', n, c) = Out(view, m, c)
    BY <1>5, <1>6, <1>9, <1>13 DEF Out, q, v
  <2>3. Fine(view', n, c)
    BY <1>5, <1>6, <1>10, <1>11, <1>13 DEF Fine
  <2>4. InStep(view, m, {})
    BY DEF IInv
  <2> QED BY <1>6, <1>11, <2>1, <2>2, <2>3, <2>4, OneInStep DEF InStep
<1>16. n.mPlayerMap = m.mPlayerMap /\ n.inGame = m.inGame
  BY <1>6 DEF SameGames
<1>17. ASSUME NEW d \in Client
       PROVE  PacketsOf(d)' /\ Connected(d)'
  <2>1. PacketsOf(d) /\ Connected(d)
    BY DEF IInv
  <2>2. PacketsOf(d)'
    BY <1>6, <1>7, <1>16, <2>1 DEF PacketsOf, n
  <2>3. CASE d = c
    BY <1>6, <1>11, <1>12, <1>13, <2>2, <2>3 DEF Connected, n
  <2>4. CASE d # c
    BY <1>6, <1>7, <1>13, <1>16, <2>1, <2>2, <2>4 DEF Connected, n
  <2> QED BY <2>3, <2>4
<1>18. TypeOK'
  <2>1. IsMatchMaker(n) /\ toServer' \in [Client -> Seq(ClientMessage)] /\ requests' \in 0..MaxRequests
    BY <1>7, <1>14 DEF Good, IInv, TypeOK
  <2>2. mAborted' \in BOOLEAN
    BY <1>7 DEF IInv, TypeOK
  <2> QED BY <1>13, <2>1, <2>2 DEF TypeOK, n
<1> QED BY <1>14, <1>15, <1>16, <1>17, <1>18 DEF IInv, n

LEMMA SwitchStateInv ==
  ASSUME IInv, NEW c \in Client, SwitchState(c)
  PROVE  IInv'
<1> DEFINE m == mMatchMaker
           q == m.toClient[c]
           v == view[c]
           r == [v EXCEPT !.state = "PLAYING"]
<1>1. /\ v.state = "SWITCHING" /\ view' = [view EXCEPT ![c] = r]
      /\ mMatchMaker' = mMatchMaker /\ toServer' = toServer /\ mAborted' = mAborted /\ requests' = requests
  BY DEF SwitchState
<1>2. v \in View /\ q \in Seq(ServerMessage)
  BY QueueTypes
<1>3. r \in View /\ r.state = "PLAYING"
  BY <1>2 DEF View, ViewState
<1> HIDE DEF r
<1>4. view' \in [Client -> View] /\ view'[c] = r /\ \A d \in Client \ {c} : view'[d] = view[d]
  BY <1>1, <1>3, QueueTypes
<1>5. v \in Players /\ r \in Players
  BY <1>1, <1>2, <1>3 DEF Players, Plays
<1> HIDE DEF q, v
<1>6. \A p \in Seq(ServerMessage) : Plays(FoldLeft(receive, v, p)) /\ Plays(FoldLeft(receive, r, p))
  <2>1. \A p \in Seq(ServerMessage) : FoldLeft(receive, v, p) \in Players /\ FoldLeft(receive, r, p) \in Players
    BY <1>5, ReceivePlaying, ReadClosed
  <2> QED BY <2>1 DEF Players
<1>7. \A i \in 1..Len(q) : q[i].type # "RULES_CHECKSUM"
  <2> SUFFICES ASSUME NEW i \in 1..Len(q), q[i].type = "RULES_CHECKSUM" PROVE FALSE
    OBVIOUS
  <2>1. AtTable(FoldLeft(receive, v, SubSeq(q, 1, i - 1)))
    BY DEF IInv, InStep, Fine, RulesFine, q, v
  <2>2. SubSeq(q, 1, i - 1) \in Seq(ServerMessage)
    BY <1>2
  <2>3. Plays(FoldLeft(receive, v, SubSeq(q, 1, i - 1)))
    BY <1>6, <2>2
  <2> QED BY <2>1, <2>3 DEF AtTable, Plays
<1>8. IsRecord(m) /\ InStep(view, m, {})
  BY DEF IInv, Good
<1>9. c \in m.links
  BY <1>1 DEF IInv, Connected, v
<1>10. c \in m.inGame
  <2>1. Plays(Out(view, m, c)) /\ Told(m, c, Out(view, m, c))
    BY <1>2, <1>6, <1>8, <1>9 DEF Out, InStep, q, v
  <2> QED BY <2>1 DEF Told, Plays, Waits
<1>11. InStep(view', m, {})
  <2>1. SameGames(m, m) /\ OnlyFor(c, view, m, view', m)
    BY <1>4, <1>8 DEF SameGames, OnlyFor
  <2>2. Plays(Out(view', m, c))
    BY <1>2, <1>4, <1>6 DEF Out, q
  <2>3. Fine(view', m, c)
    BY <1>4, <1>7, <1>9 DEF Fine, RulesFine, q
  <2>4. Told(m, c, Out(view', m, c))
    BY <1>10, <2>2 DEF Told
  <2> QED BY <1>8, <1>10, <2>1, <2>3, <2>4, OneInStep
<1>12. ASSUME NEW d \in Client
       PROVE  PacketsOf(d)' /\ Connected(d)'
  <2>1. PacketsOf(d) /\ Connected(d)
    BY DEF IInv
  <2>2. CASE d = c
    BY <1>1, <1>3, <1>4, <1>9, <2>1, <2>2 DEF PacketsOf, Connected
  <2>3. CASE d # c
    BY <1>1, <1>4, <2>1, <2>3 DEF PacketsOf, Connected
  <2> QED BY <2>2, <2>3
<1>13. TypeOK'
  <2>1. IsMatchMaker(mMatchMaker') /\ toServer' \in [Client -> Seq(ClientMessage)] /\ requests' \in 0..MaxRequests
    BY <1>1 DEF IInv, TypeOK
  <2>2. mAborted' \in BOOLEAN
    BY <1>1 DEF IInv, TypeOK
  <2> QED BY <1>4, <2>1, <2>2 DEF TypeOK
<1> QED BY <1>1, <1>11, <1>12, <1>13 DEF IInv

LEMMA DisconnectInv ==
  ASSUME IInv, NEW c \in Client, Disconnect(c)
  PROVE  IInv'
<1> DEFINE m == mMatchMaker
           n == mMatchMaker'
           L == m.links \ {c}
           Q == [m.toClient EXCEPT ![c] = <<>>]
           r == [view[c] EXCEPT !.state = "GONE"]
<1>1. IsRecord(m) /\ Good(m)
  BY DEF IInv, Good
<1>2. n = [m EXCEPT !.links = L, !.toClient = Q]
  BY <1>1 DEF Disconnect, IsRecord
<1>3. Q \in [Client -> Seq(ServerMessage)] /\ Q[c] = <<>> /\ \A d \in Client \ {c} : Q[d] = m.toClient[d]
  BY QueueTypes
<1> HIDE DEF L, Q
<1>4. SameGames(m, n) /\ n.links = L /\ n.toClient = Q
  BY <1>1, <1>2 DEF IsRecord, SameGames
<1>5. c \in m.links /\ view' = [view EXCEPT ![c] = r] /\ mAborted' = mAborted /\ requests' = requests
  BY DEF Disconnect
<1>6. r \in View /\ r.state = "GONE"
  BY QueueTypes DEF View, ViewState
<1> HIDE DEF r, n
<1>7. view' \in [Client -> View] /\ view'[c] = r /\ \A d \in Client \ {c} : view'[d] = view[d]
  BY <1>5, <1>6, QueueTypes
<1>8. PICK k \in 0..Len(toServer[c]) :
        toServer' = [toServer EXCEPT ![c] = Append(SubSeq(toServer[c], 1, k), Lost)]
  BY DEF Disconnect
<1> DEFINE q == toServer[c]
           p == SubSeq(q, 1, k)
<1>9. p \in Seq(ClientMessage) /\ Len(p) = k /\ \A i \in 1..k : p[i] = q[i] /\ i \in DOMAIN q
  BY QueueTypes
<1>10. Lost \in ClientMessage /\ Lost.type = "CONNECTION_LOST"
  BY DEF Lost, ClientMessage
<1>11. toServer'[c] = Append(p, Lost) /\ \A d \in Client \ {c} : toServer'[d] = toServer[d]
  BY <1>8, QueueTypes
<1> HIDE DEF p
<1>12. /\ Append(p, Lost) \in Seq(ClientMessage)
       /\ \A i \in DOMAIN Append(p, Lost) :
            \/ Append(p, Lost)[i] = Lost
            \/ i \in DOMAIN q /\ Append(p, Lost)[i] = q[i]
  <2>1. k \in Nat
    BY QueueTypes
  <2> HIDE DEF q
  <2> QED BY <1>9, <1>10, <2>1
<1>13. toServer' \in [Client -> Seq(ClientMessage)]
  <2>1. toServer'[c] \in Seq(ClientMessage)
    BY <1>11, <1>12
  <2> QED BY <1>8, <2>1, QueueTypes
<1>14. Good(n)
  <2>1. L \subseteq Client
    BY QueueTypes DEF L
  <2> QED BY <1>1, <1>3, <1>4, <2>1, SameGamesGood
<1>15. InStep(view', n, {})
  <2>1. OnlyFor(c, view, m, view', n)
    BY <1>3, <1>4, <1>7 DEF OnlyFor, L
  <2>2. Fine(view', n, c)
    <3>1. Len(<<>>) = 0
      OBVIOUS
    <3> QED BY <1>3, <1>4, <3>1 DEF Fine, RulesFine
  <2>3. c \notin n.links
    BY <1>4 DEF L
  <2>4. InStep(view, m, {})
    BY DEF IInv
  <2> QED BY <1>4, <2>1, <2>2, <2>3, <2>4, OneInStep
<1>16. n.mPlayerMap = m.mPlayerMap /\ n.inGame = m.inGame
  BY <1>4 DEF SameGames
<1>17. ASSUME NEW d \in Client
       PROVE  PacketsOf(d)' /\ Connected(d)'
  <2>1. PacketsOf(d) /\ Connected(d)
    BY DEF IInv
  <2>2. CASE d = c
    <3>1. c \notin n.links
      BY <1>4 DEF L
    <3>2. Connected(c)'
      BY <1>6, <1>7, <3>1 DEF Connected, n
    <3>3. PacketsOf(c)'
      BY <1>10, <1>11, <1>12, <1>16, <2>1, <2>2, <3>1 DEF PacketsOf, n
    <3> QED BY <2>2, <3>2, <3>3
  <2>3. CASE d # c
    <3>1. d \in n.links <=> d \in m.links
      BY <1>4, <2>3 DEF L
    <3> QED BY <1>7, <1>11, <1>16, <2>1, <2>3, <3>1 DEF PacketsOf, Connected, n
  <2> QED BY <2>2, <2>3
<1>18. TypeOK'
  <2>1. IsMatchMaker(n) /\ requests' \in 0..MaxRequests
    BY <1>5, <1>14 DEF Good, IInv, TypeOK
  <2>2. mAborted' \in BOOLEAN
    BY <1>5 DEF IInv, TypeOK
  <2> QED BY <1>7, <1>13, <2>1, <2>2 DEF TypeOK, n
<1> QED BY <1>14, <1>15, <1>16, <1>17, <1>18 DEF IInv, n

LEMMA UpdateGamesInv ==
  ASSUME IInv, UpdateGames
  PROVE  IInv'
<1> DEFINE m == mMatchMaker
           n == mMatchMaker'
           b == (DOMAIN m.mOpenGames = {})
<1>1. IsRecord(m) /\ Good(m)
  BY DEF IInv, Good
<1>2. n = [m EXCEPT !.mAllowNewGames = b]
  BY DEF UpdateGames
<1>3. b \in BOOLEAN
  OBVIOUS
<1> HIDE DEF b
<1>4. /\ IsRecord(n) /\ n.mOpenGames = m.mOpenGames /\ n.mIDCounter = m.mIDCounter
      /\ n.mPlayerMap = m.mPlayerMap /\ n.inGame = m.inGame /\ n.links = m.links
      /\ n.toClient = m.toClient
  BY <1>1, <1>2 DEF IsRecord
<1>5. n.mAllowNewGames \in BOOLEAN
  BY <1>1, <1>2, <1>3 DEF IsRecord
<1>6. toServer' = toServer /\ view' = view /\ mAborted' = mAborted /\ requests' = requests
  BY DEF UpdateGames
<1> HIDE DEF n
<1>7. IsMatchMaker(n)
  BY <1>1, <1>4, <1>5 DEF Good, IsMatchMaker
<1>8. SeatedOnce(n)
  BY <1>1, <1>4 DEF Good, SeatedOnce
<1>9. InStep(view, n, {})
  BY <1>4 DEF IInv, InStep, Told, Placed, Waits, Status, Sits, Fine, Out
<1>10. \A d \in Client : PacketsOf(d)' /\ Connected(d)'
  BY <1>4, <1>6 DEF IInv, PacketsOf, Connected, n
<1>11. TypeOK'
  <2>1. toServer' \in [Client -> Seq(ClientMessage)] /\ view' \in [Client -> View] /\ requests' \in 0..MaxRequests
    BY <1>6 DEF IInv, TypeOK
  <2>2. mAborted' \in BOOLEAN
    BY <1>6 DEF IInv, TypeOK
  <2> QED BY <1>7, <2>1, <2>2 DEF TypeOK, n
<1> QED BY <1>4, <1>6, <1>7, <1>8, <1>9, <1>10, <1>11 DEF IInv, Good, n

-----------------------------------------------------------------------------
(* The steps of the server.                                                    *)

LEMMA HandlerInv ==
  ASSUME IInv, NEW c \in Client, NextPacket(c), view' = view, requests' = requests,
         Good(mMatchMaker'), InStep(view, mMatchMaker', {}),
         mMatchMaker'.links = mMatchMaker.links,
         mMatchMaker'.mPlayerMap \cap mMatchMaker'.inGame = {},
         mMatchMaker'.mPlayerMap \subseteq mMatchMaker.mPlayerMap \cup {c},
         mMatchMaker'.inGame \subseteq mMatchMaker.inGame \cup mMatchMaker.mPlayerMap,
         mAborted' \in BOOLEAN
  PROVE  IInv'
<1>1. toServer[c] # <<>> /\ toServer' = [toServer EXCEPT ![c] = Tail(toServer[c])]
  BY DEF NextPacket
<1>2. /\ toServer'[c] = Tail(toServer[c]) /\ toServer[c] \in Seq(ClientMessage)
      /\ \A d \in Client \ {c} : toServer'[d] = toServer[d]
  BY <1>1, QueueTypes
<1>3. toServer' \in [Client -> Seq(ClientMessage)]
  <2>1. Tail(toServer[c]) \in Seq(ClientMessage)
    BY <1>1, <1>2
  <2> QED BY <1>1, <2>1, QueueTypes
<1>4. TypeOK'
  <2>1. IsMatchMaker(mMatchMaker') /\ view' \in [Client -> View] /\ requests' \in 0..MaxRequests
    BY DEF IInv, TypeOK, Good
  <2> QED BY <1>3, <2>1 DEF TypeOK
<1>5. ASSUME NEW d \in Client
      PROVE  PacketsOf(d)' /\ Connected(d)'
  <2>1. PacketsOf(d) /\ Connected(d)
    BY DEF IInv
  <2>2. CASE d = c
    <3>1. \A i \in DOMAIN toServer'[c] :
            i + 1 \in DOMAIN toServer[c] /\ toServer'[c][i] = toServer[c][i + 1] /\ i + 1 # 1
      <4> DEFINE q == toServer[c]
      <4>1. q \in Seq(ClientMessage) /\ q # <<>> /\ toServer'[c] = Tail(q)
        BY <1>1, <1>2
      <4> HIDE DEF q
      <4>2. \A i \in DOMAIN Tail(q) : i + 1 \in DOMAIN q /\ Tail(q)[i] = q[i + 1] /\ i + 1 # 1
        BY <4>1
      <4> QED BY <4>1, <4>2 DEF q
    <3>2. PacketsOf(c)'
      BY <2>1, <2>2, <3>1 DEF PacketsOf
    <3>3. view[c].state # "OFFLINE"
      BY <1>1, <2>1, <2>2 DEF Connected
    <3> QED BY <2>1, <2>2, <3>2, <3>3 DEF Connected
  <2>3. CASE d # c
    <3>1. /\ d \notin mMatchMaker.mPlayerMap => d \notin mMatchMaker'.mPlayerMap
          /\ d \notin mMatchMaker.mPlayerMap /\ d \notin mMatchMaker.inGame => d \notin mMatchMaker'.inGame
      BY <2>3
    <3>2. PacketsOf(d)'
      BY <1>2, <2>1, <2>3, <3>1 DEF PacketsOf
    <3> QED BY <1>2, <2>1, <2>3, <3>1, <3>2 DEF Connected
  <2> QED BY <2>2, <2>3
<1> QED BY <1>4, <1>5 DEF IInv

LEMMA PacketTaken ==
  ASSUME NEW c, NEW type, TakePacket(c, type)
  PROVE  /\ NextPacket(c) /\ view' = view /\ requests' = requests
         /\ toServer[c] # <<>> /\ Head(toServer[c]).type = type
BY DEF TakePacket, NextPacket

(* What the invariant says of the matchmaker.                                  *)
LEMMA MatchMakerInv ==
  ASSUME IInv
  PROVE  /\ view \in [Client -> View] /\ Good(mMatchMaker) /\ InStep(view, mMatchMaker, {})
         /\ mMatchMaker.mPlayerMap \cap mMatchMaker.inGame = {}
         /\ mMatchMaker.mPlayerMap \subseteq Client /\ mAborted \in BOOLEAN
BY DEF IInv, TypeOK, IsMatchMaker

LEMMA FirstPacket ==
  ASSUME IInv, NEW c \in Client, toServer[c] # <<>>
  PROVE  /\ Head(toServer[c]) \in ClientMessage
         /\ Head(toServer[c]).type = "ENTER_SERVER" =>
              c \notin mMatchMaker.mPlayerMap /\ c \notin mMatchMaker.inGame
         /\ Head(toServer[c]).type = "CONNECTION_LOST" => c \notin mMatchMaker.links
<1>1. toServer[c] \in Seq(ClientMessage)
  BY QueueTypes
<1>2. Head(toServer[c]) = toServer[c][1] /\ 1 \in DOMAIN toServer[c] /\ Head(toServer[c]) \in ClientMessage
  BY <1>1
<1>3. PacketsOf(c)
  BY DEF IInv
<1> QED BY <1>2, <1>3 DEF PacketsOf

(* Who enters waits in the lobby, or already sits in a game.                   *)
Entered(m, n, c) ==
  \E k : /\ Good(k) /\ k.mPlayerMap = m.mPlayerMap \cup {c} /\ k.mOpenGames = m.mOpenGames
         /\ k.inGame = m.inGame /\ k.links = m.links
         /\ \/ n = k
            \/ \E j, id : /\ Good(j) /\ Left(k, j, c) /\ ~Sits(j, c)
                          /\ \/ Frame(j, n) /\ n.mOpenGames = j.mOpenGames
                             \/ c \in j.mPlayerMap /\ id \in DOMAIN j.mOpenGames /\ Seated(j, n, id, c)

LEMMA HandleEnterInv ==
  ASSUME IInv, NEW c \in Client, HandleEnter(c)
  PROVE  IInv' /\ Entered(mMatchMaker, mMatchMaker', c)
<1> DEFINE m == mMatchMaker
           n == mMatchMaker'
           k == addPlayer(m, c)
           first == CHOOSE id \in DOMAIN k.mOpenGames : \A i \in DOMAIN k.mOpenGames : id <= i
<1>1. /\ NextPacket(c) /\ view' = view /\ requests' = requests
      /\ c \notin m.mPlayerMap /\ c \notin m.inGame
  BY PacketTaken, FirstPacket DEF HandleEnter
<1>2. n = k \/ n = joinGame(k, c, first, "")
  BY DEF HandleEnter
<1>3. k = addPlayer(m, c)
  OBVIOUS
<1> HIDE DEF first, k
<1>4. /\ Good(k) /\ InStep(view, k, {})
      /\ k.mPlayerMap = m.mPlayerMap \cup {c} /\ k.mOpenGames = m.mOpenGames
      /\ k.inGame = m.inGame /\ k.links = m.links
  BY <1>1, <1>3, MatchMakerInv, AddPlayer
<1>5. /\ Good(n) /\ InStep(view, n, {}) /\ Entered(m, n, c)
      /\ n.mPlayerMap = k.mPlayerMap /\ n.inGame = k.inGame /\ n.links = k.links
  <2>1. CASE n = k
    BY <1>4, <2>1 DEF Entered
  <2>2. CASE n = joinGame(k, c, first, "")
    <3>1. /\ Good(n) /\ InStep(view, n, {})
          /\ \E j : /\ Good(j) /\ Left(k, j, c) /\ ~Sits(j, c)
                    /\ \/ Frame(j, n) /\ n.mOpenGames = j.mOpenGames
                       \/ c \in j.mPlayerMap /\ first \in DOMAIN j.mOpenGames /\ Seated(j, n, first, c)
      BY <1>4, <2>2, MatchMakerInv, JoinGame
    <3>2. PICK j : /\ Good(j) /\ Left(k, j, c) /\ ~Sits(j, c)
                   /\ \/ Frame(j, n) /\ n.mOpenGames = j.mOpenGames
                      \/ c \in j.mPlayerMap /\ first \in DOMAIN j.mOpenGames /\ Seated(j, n, first, c)
      BY <3>1
    <3>3. n.mPlayerMap = k.mPlayerMap /\ n.inGame = k.inGame /\ n.links = k.links
      BY <3>2 DEF Left, Frame, Seated
    <3>4. Entered(m, n, c)
      BY <1>4, <3>2 DEF Entered
    <3> QED BY <3>1, <3>3, <3>4
  <2> QED BY <1>2, <2>1, <2>2
<1>6. mAborted' \in BOOLEAN
  BY MatchMakerInv DEF HandleEnter
<1>7. n.mPlayerMap \cap n.inGame = {}
  BY <1>1, <1>4, <1>5, MatchMakerInv
<1>8. n.links = m.links /\ n.mPlayerMap \subseteq m.mPlayerMap \cup {c} /\ n.inGame \subseteq m.inGame \cup m.mPlayerMap
  BY <1>4, <1>5
<1> QED BY <1>1, <1>5, <1>6, <1>7, <1>8, HandlerInv

(* Nobody is in a match, or in the lobby, any more.                            *)
Departed(m, n, c) ==
  /\ n.mPlayerMap = m.mPlayerMap \ {c} /\ n.inGame = m.inGame \ {c} /\ n.links = m.links
  /\ \E k : Good(k) /\ Left(m, k, c) /\ ~Sits(k, c) /\ n.mOpenGames = k.mOpenGames

LEMMA HandleLostInv ==
  ASSUME IInv, NEW c \in Client, HandleLost(c)
  PROVE  IInv' /\ (mMatchMaker' = mMatchMaker \/ Departed(mMatchMaker, mMatchMaker', c))
<1> DEFINE m == mMatchMaker
           n == mMatchMaker'
           k == removePlayer(m, c)
           I == k.inGame \ {c}
<1>1. NextPacket(c) /\ view' = view /\ requests' = requests /\ c \notin m.links
  BY PacketTaken, FirstPacket DEF HandleLost
<1>2. mAborted' \in BOOLEAN
  BY MatchMakerInv DEF HandleLost
<1>3. CASE c \notin m.mPlayerMap \cup m.inGame
  <2>1. n = m
    BY <1>3 DEF HandleLost
  <2> QED BY <1>1, <1>2, <2>1, MatchMakerInv, HandlerInv
<1>4. CASE c \in m.mPlayerMap \cup m.inGame
  <2>1. n = [k EXCEPT !.inGame = I]
    BY <1>4 DEF HandleLost
  <2>2. k = removePlayer(m, c)
    OBVIOUS
  <2> HIDE DEF k
  <2>3. /\ Good(k) /\ InStep(view, k, {})
        /\ k.mPlayerMap = m.mPlayerMap \ {c} /\ k.inGame = m.inGame /\ k.links = m.links
        /\ \E j : Good(j) /\ Left(m, j, c) /\ ~Sits(j, c) /\ k.mOpenGames = j.mOpenGames
    BY <1>1, <2>2, MatchMakerInv, RemovePlayer
  <2> HIDE DEF I
  <2>4. /\ IsRecord(n) /\ n.inGame = I /\ n.mOpenGames = k.mOpenGames
        /\ n.mIDCounter = k.mIDCounter /\ n.mAllowNewGames = k.mAllowNewGames
        /\ n.mPlayerMap = k.mPlayerMap /\ n.links = k.links /\ n.toClient = k.toClient
    BY <2>1, <2>3 DEF Good, IsRecord
  <2> HIDE DEF n
  <2>5. Good(n)
    <3>1. I \subseteq Client
      BY <2>3 DEF Good, IsMatchMaker, I
    <3>2. IsMatchMaker(n)
      BY <2>3, <2>4, <3>1 DEF Good, IsMatchMaker
    <3>3. SeatedOnce(n)
      BY <2>3, <2>4 DEF Good, SeatedOnce
    <3> QED BY <2>4, <3>2, <3>3 DEF Good
  <2>6. InStep(view, n, {})
    <3> SUFFICES ASSUME NEW d \in Client
                 PROVE  /\ d \in n.links => Told(n, d, Out(view, n, d))
                        /\ d \in n.links /\ d \in n.mPlayerMap /\ d \notin n.inGame \cup {} =>
                             Placed(n, d, Out(view, n, d))
                        /\ Fine(view, n, d)
      BY DEF InStep
    <3>1. d \in n.links => d # c
      BY <1>1, <2>3, <2>4
    <3>2. d # c => (d \in I <=> d \in k.inGame)
      BY DEF I
    <3>3. Out(view, n, d) = Out(view, k, d) /\ (Fine(view, k, d) => Fine(view, n, d))
      BY <2>4 DEF Out, Fine
    <3>4. \A v : /\ d # c /\ Told(k, d, v) => Told(n, d, v)
                 /\ Placed(k, d, v) => Placed(n, d, v)
      BY <2>4, <3>2 DEF Told, Placed, Waits, Status, Sits
    <3> QED BY <2>3, <2>4, <3>1, <3>2, <3>3, <3>4 DEF InStep
  <2>7. n.mPlayerMap = m.mPlayerMap \ {c} /\ n.inGame = m.inGame \ {c} /\ n.links = m.links
    BY <2>3, <2>4 DEF I
  <2>8. Departed(m, n, c)
    BY <2>3, <2>4, <2>7 DEF Departed
  <2>9. n.mPlayerMap \cap n.inGame = {} /\ n.mPlayerMap \subseteq m.mPlayerMap \cup {c}
        /\ n.inGame \subseteq m.inGame \cup m.mPlayerMap
    BY <2>7, MatchMakerInv
  <2> QED BY <1>1, <1>2, <2>5, <2>6, <2>7, <2>8, <2>9, HandlerInv DEF n
<1> QED BY <1>3, <1>4

LEMMA HandleOpenInv ==
  ASSUME IInv, NEW c \in Client, HandleOpen(c)
  PROVE  IInv' /\ (mMatchMaker' = mMatchMaker \/ OpensGame(mMatchMaker, mMatchMaker', c))
<1> DEFINE m == mMatchMaker
           n == mMatchMaker'
           pw == Head(toServer[c]).password
<1>1. NextPacket(c) /\ view' = view /\ requests' = requests /\ toServer[c] # <<>>
      /\ Head(toServer[c]).type = "OPEN_GAME"
  BY PacketTaken DEF HandleOpen
<1>2. mAborted' \in BOOLEAN
  BY MatchMakerInv DEF HandleOpen
<1>3. pw \in Password
  BY <1>1, FirstPacket DEF ClientMessage, Enter, Lost, Leave
<1>4. n = openGame(m, c, pw)
  BY DEF HandleOpen
<1> HIDE DEF pw
<1>5. CASE ~(m.mAllowNewGames /\ c \in m.mPlayerMap)
  <2>1. n = m
    BY <1>4, <1>5 DEF openGame
  <2> QED BY <1>1, <1>2, <2>1, MatchMakerInv, HandlerInv
<1>6. CASE m.mAllowNewGames /\ c \in m.mPlayerMap
  <2>1. m.mAllowNewGames = TRUE
    BY <1>6, MatchMakerInv DEF Good, IsMatchMaker
  <2>2. c \in m.mPlayerMap /\ Good(m) /\ InStep(view, m, {}) /\ view \in [Client -> View]
    BY <1>6, MatchMakerInv
  <2>3. Good(n) /\ InStep(view, n, {}) /\ OpensGame(m, n, c)
    <3> HIDE DEF m, n
    <3> QED BY <1>3, <1>4, <2>1, <2>2, OpenAGame
  <2>4. n.mPlayerMap = m.mPlayerMap /\ n.inGame = m.inGame /\ n.links = m.links
    BY <2>3 DEF OpensGame, Left, Frame, Opened
  <2> QED BY <1>1, <1>2, <2>3, <2>4, MatchMakerInv, HandlerInv
<1> QED BY <1>5, <1>6

(* ... and JOIN_GAME, or LEAVE_GAME.                                           *)
JoinsGame(m, n, c) ==
  \E k, id : /\ Good(k) /\ Left(m, k, c) /\ ~Sits(k, c)
             /\ \/ Frame(k, n) /\ n.mOpenGames = k.mOpenGames
                \/ c \in k.mPlayerMap /\ id \in DOMAIN k.mOpenGames /\ Seated(k, n, id, c)

LEMMA HandleJoinInv ==
  ASSUME IInv, NEW c \in Client, HandleJoin(c)
  PROVE  IInv' /\ JoinsGame(mMatchMaker, mMatchMaker', c)
<1> DEFINE m == mMatchMaker
           n == mMatchMaker'
           id == Head(toServer[c]).id
           pw == Head(toServer[c]).password
<1>1. NextPacket(c) /\ view' = view /\ requests' = requests
  BY PacketTaken DEF HandleJoin
<1>2. mAborted' \in BOOLEAN
  BY MatchMakerInv DEF HandleJoin
<1>3. n = joinGame(m, c, id, pw)
  BY DEF HandleJoin
<1> HIDE DEF id, pw
<1>4. /\ Good(n) /\ InStep(view, n, {})
      /\ \E k : /\ Good(k) /\ Left(m, k, c) /\ ~Sits(k, c)
                /\ \/ Frame(k, n) /\ n.mOpenGames = k.mOpenGames
                   \/ c \in k.mPlayerMap /\ id \in DOMAIN k.mOpenGames /\ Seated(k, n, id, c)
  BY <1>3, MatchMakerInv, JoinGame
<1>5. JoinsGame(m, n, c)
  BY <1>4 DEF JoinsGame
<1>6. n.mPlayerMap = m.mPlayerMap /\ n.inGame = m.inGame /\ n.links = m.links
  BY <1>4 DEF Left, Frame, Seated
<1> QED BY <1>1, <1>2, <1>4, <1>5, <1>6, MatchMakerInv, HandlerInv

LEMMA HandleLeaveInv ==
  ASSUME IInv, NEW c \in Client, HandleLeave(c)
  PROVE  IInv' /\ JoinsGame(mMatchMaker, mMatchMaker', c)
<1> DEFINE m == mMatchMaker
           n == mMatchMaker'
<1>1. NextPacket(c) /\ view' = view /\ requests' = requests
  BY PacketTaken DEF HandleLeave
<1>2. mAborted' \in BOOLEAN
  BY MatchMakerInv DEF HandleLeave
<1>3. n = removePlayerFromAllGames(m, c)
  BY DEF HandleLeave
<1>4. Good(n) /\ InStep(view, n, {}) /\ Left(m, n, c) /\ ~Sits(n, c)
  BY <1>3, MatchMakerInv, RemovePlayerFromAllGames
<1>5. JoinsGame(m, n, c)
  BY <1>4 DEF JoinsGame, Frame
<1>6. n.mPlayerMap = m.mPlayerMap /\ n.inGame = m.inGame /\ n.links = m.links
  BY <1>4 DEF Left, Frame
<1> QED BY <1>1, <1>2, <1>4, <1>5, <1>6, MatchMakerInv, HandlerInv

LEMMA HandleStartInv ==
  ASSUME IInv, NEW c \in Client, HandleStart(c)
  PROVE  IInv' /\ (\/ mMatchMaker' = mMatchMaker
                   \/ \E target, id : Started(mMatchMaker, mMatchMaker', id, c, target))
<1> DEFINE m == mMatchMaker
           n == mMatchMaker'
           target == Head(toServer[c]).target
<1>1. NextPacket(c) /\ view' = view /\ requests' = requests
  BY PacketTaken DEF HandleStart
<1>2. CASE ~canStart(m, c, target)
  <2>1. n = m /\ mAborted' = TRUE
    BY <1>2 DEF HandleStart
  <2>2. mAborted' \in BOOLEAN
    BY <2>1
  <2> QED BY <1>1, <2>1, <2>2, MatchMakerInv, HandlerInv
<1>3. CASE canStart(m, c, target)
  <2>1. n = startGame(m, c, target) /\ mAborted' = mAborted
    BY <1>3 DEF HandleStart
  <2>2. c \in m.mPlayerMap /\ target \in m.mPlayerMap
    BY <1>3 DEF canStart
  <2> HIDE DEF target
  <2>3. Good(n) /\ InStep(view, n, {}) /\ (n = m \/ \E id : Started(m, n, id, c, target))
    BY <2>1, MatchMakerInv, StartGame
  <2>4. mAborted' \in BOOLEAN
    BY <2>1, MatchMakerInv
  <2>5. CASE n = m
    BY <1>1, <2>3, <2>4, <2>5, MatchMakerInv, HandlerInv
  <2>6. CASE \E id : Started(m, n, id, c, target)
    <3>1. n.mPlayerMap = m.mPlayerMap \ {c, target} /\ n.inGame = m.inGame \cup {c, target} /\ n.links = m.links
      BY <2>6 DEF Started
    <3>2. n.mPlayerMap \cap n.inGame = {} /\ n.mPlayerMap \subseteq m.mPlayerMap \cup {c}
          /\ n.inGame \subseteq m.inGame \cup m.mPlayerMap
      BY <2>2, <3>1, MatchMakerInv
    <3> QED BY <1>1, <2>3, <2>4, <2>6, <3>1, <3>2, HandlerInv
  <2> QED BY <2>3, <2>5, <2>6
<1> QED BY <1>2, <1>3

LEMMA NextInv ==
  ASSUME IInv, [Next]_vars
  PROVE  IInv'
<1>1. CASE Next
  <2>1. CASE UpdateGames
    BY <2>1, UpdateGamesInv
  <2>2. ASSUME NEW c \in Client,
               \/ Connect(c) \/ ClientReceive(c) \/ SwitchState(c) \/ Disconnect(c)
               \/ RequestOpen(c) \/ RequestJoin(c) \/ RequestLeave(c) \/ RequestStart(c)
               \/ Handle(c)
        PROVE  IInv'
    <3>1. CASE Connect(c) \/ ClientReceive(c) \/ SwitchState(c) \/ Disconnect(c)
      BY <3>1, ConnectInv, ClientReceiveInv, SwitchStateInv, DisconnectInv
    <3>2. CASE RequestOpen(c) \/ RequestJoin(c) \/ RequestLeave(c) \/ RequestStart(c)
      BY <3>2, RequestsInv
    <3>3. CASE Handle(c)
      BY <3>3, HandleEnterInv, HandleLostInv, HandleOpenInv, HandleJoinInv, HandleLeaveInv, HandleStartInv
         DEF Handle
    <3> QED BY <2>2, <3>1, <3>2, <3>3
  <2> QED BY <1>1, <2>1, <2>2 DEF Next
<1>2. CASE UNCHANGED vars
  BY <1>2 DEF vars, IInv, TypeOK, PacketsOf, Connected
<1> QED BY <1>1, <1>2

-----------------------------------------------------------------------------

LEMMA Invariance == Spec => []IInv
<1>1. Init => IInv
  BY InitInv
<1>2. IInv /\ [Next]_vars => IInv'
  BY NextInv
<1> QED BY <1>1, <1>2, PTL DEF Spec

(* The members of the matchmaker, the queues and the views keep their types;   *)
(* in particular the counter stays at or above every ID in use, which is what  *)
(* MatchMaker::addGame relies on when it looks for a free one.                 *)
THEOREM TypeCorrect == Spec => []TypeOK
<1>1. IInv => TypeOK
  BY InvImpliesOthers
<1> QED BY <1>1, Invariance, PTL

(* MatchMaker never lists anybody in two games, or twice in one, or after he   *)
(* has left the server or has gone to play.                                    *)
THEOREM PlayersSitOnce == Spec => []OneGamePerPlayer
<1>1. IInv => OneGamePerPlayer
  BY InvImpliesOthers
<1> QED BY <1>1, Invariance, PTL

(* A client that has read everything MatchMaker and NetworkGame's constructor  *)
(* have sent it shows the game it sits in, with the server's list of guests,   *)
(* or the lobby, or is on its way to the match.                                *)
THEOREM ClientsAgree == Spec => []LobbyMirror
<1>1. IInv => LobbyMirror
  BY InvImpliesMirror
<1> QED BY <1>1, Invariance, PTL

(* Every player in the lobby will have heard of every open game: the lists     *)
(* sent by addPlayer, addGame and broadcastOpenGameList miss nobody.           *)
THEOREM GamesAreListed == Spec => []EveryGameIsListed
<1>1. IInv => EveryGameIsListed
  BY InvImpliesMirror
<1> QED BY <1>1, Invariance, PTL

(* The assertion of LobbyState (LobbyStates.cpp:187): RULES_CHECKSUM finds the *)
(* client in the substate of a game.                                           *)
THEOREM ChecksumInGame == Spec => []RulesOnlyInGameSubstate
<1>1. IInv => RulesOnlyInGameSubstate
  BY InvImpliesOthers
<1> QED BY <1>1, Invariance, PTL

-----------------------------------------------------------------------------
(* The lobby implements Tables.  At(m, p, h): p sits at the table of h.        *)

At(m, p, h) ==
  \E id \in DOMAIN m.mOpenGames :
    m.mOpenGames[id].creator = h /\ p \in PlayersOf(m.mOpenGames[id])

Apart(m) == m.mPlayerMap \cap m.inGame = {}

LEMMA AtOnce ==
  ASSUME NEW m, Good(m), NEW p, NEW h, At(m, p, h)
  PROVE  /\ p \in m.mPlayerMap /\ h \in m.mPlayerMap /\ At(m, h, h)
         /\ \A g : At(m, p, g) => g = h
<1>1. PICK id \in DOMAIN m.mOpenGames :
        m.mOpenGames[id].creator = h /\ p \in PlayersOf(m.mOpenGames[id])
  BY DEF At
<1>2. h \in PlayersOf(m.mOpenGames[id]) /\ PlayersOf(m.mOpenGames[id]) \subseteq m.mPlayerMap
  BY <1>1 DEF PlayersOf, Good, SeatedOnce
<1>3. \A other \in DOMAIN m.mOpenGames : p \in PlayersOf(m.mOpenGames[other]) => other = id
  BY <1>1 DEF Good, SeatedOnce
<1> QED BY <1>1, <1>2, <1>3 DEF At

(* The seat of a player, for any matchmaker.                                   *)
SeatOf(m, c) ==
  IF c \in m.inGame THEN Playing
  ELSE IF c \notin m.mPlayerMap THEN Away
  ELSE IF GamesOf(m, c) # {} THEN c
  ELSE IF GuestIn(m, c) # {} THEN m.mOpenGames[SomeOf(GuestIn(m, c))].creator
  ELSE Waiting

(* ... and the same without a choice.                                          *)
Place(m, c, s) ==
  \/ c \in m.inGame /\ s = Playing
  \/ c \notin m.inGame /\ c \notin m.mPlayerMap /\ s = Away
  \/ c \notin m.inGame /\ c \in m.mPlayerMap /\ At(m, c, s)
  \/ c \notin m.inGame /\ c \in m.mPlayerMap /\ s = Waiting /\ \A h : ~At(m, c, h)

LEMMA SeatIs ==
  ASSUME NEW m, Good(m), NEW c
  PROVE  \A s : SeatOf(m, c) = s <=> Place(m, c, s)
<1>1. CASE c \in m.inGame \/ c \notin m.mPlayerMap
  BY <1>1 DEF SeatOf, Place
<1>2. CASE c \notin m.inGame /\ c \in m.mPlayerMap /\ GamesOf(m, c) # {}
  <2>1. At(m, c, c)
    BY <1>2 DEF GamesOf, At, PlayersOf
  <2>2. \A h : At(m, c, h) => h = c
    BY <2>1, AtOnce
  <2>3. SeatOf(m, c) = c
    BY <1>2 DEF SeatOf
  <2> QED BY <1>2, <2>1, <2>2, <2>3 DEF Place
<1>3. CASE c \notin m.inGame /\ c \in m.mPlayerMap /\ GamesOf(m, c) = {} /\ GuestIn(m, c) # {}
  <2> DEFINE h == m.mOpenGames[SomeOf(GuestIn(m, c))].creator
  <2>1. SomeOf(GuestIn(m, c)) \in GuestIn(m, c)
    BY <1>3, SomeElement
  <2>2. At(m, c, h)
    BY <2>1 DEF GuestIn, At, PlayersOf
  <2>3. \A g : At(m, c, g) => g = h
    <3> HIDE DEF h
    <3> QED BY <2>2, AtOnce
  <2>4. SeatOf(m, c) = h
    BY <1>3 DEF SeatOf
  <2> HIDE DEF h
  <2> QED BY <1>3, <2>2, <2>3, <2>4 DEF Place
<1>4. CASE c \notin m.inGame /\ c \in m.mPlayerMap /\ GamesOf(m, c) = {} /\ GuestIn(m, c) = {}
  <2>1. \A h : ~At(m, c, h)
    BY <1>4 DEF GamesOf, GuestIn, At, PlayersOf
  <2>2. SeatOf(m, c) = Waiting
    BY <1>4 DEF SeatOf
  <2> QED BY <1>4, <2>1, <2>2 DEF Place
<1> QED BY <1>1, <1>2, <1>3, <1>4

(* Who sits where after each change of the games.                              *)
LEMMA AtLeft ==
  ASSUME NEW m, NEW k, NEW p, Left(m, k, p)
  PROVE  \A q, h : At(k, q, h) <=> At(m, q, h) /\ q # p /\ h # p
<1>1. \A i \in DOMAIN k.mOpenGames :
        /\ i \in DOMAIN m.mOpenGames /\ m.mOpenGames[i].creator # p
        /\ k.mOpenGames[i].creator = m.mOpenGames[i].creator
        /\ Range(k.mOpenGames[i].connected) = Range(m.mOpenGames[i].connected) \ {p}
  BY DEF Left, GamesOf
<1>2. \A i \in DOMAIN m.mOpenGames : m.mOpenGames[i].creator # p => i \in DOMAIN k.mOpenGames
  BY DEF Left, GamesOf
<1>3. \A i \in DOMAIN k.mOpenGames :
        PlayersOf(k.mOpenGames[i]) = PlayersOf(m.mOpenGames[i]) \ {p}
  BY <1>1 DEF PlayersOf
<1>4. ASSUME NEW q, NEW h, At(k, q, h)
      PROVE  At(m, q, h) /\ q # p /\ h # p
  <2>1. PICK i \in DOMAIN k.mOpenGames :
          k.mOpenGames[i].creator = h /\ q \in PlayersOf(k.mOpenGames[i])
    BY <1>4 DEF At
  <2>2. i \in DOMAIN m.mOpenGames /\ m.mOpenGames[i].creator = h /\ h # p
        /\ q \in PlayersOf(m.mOpenGames[i]) /\ q # p
    BY <1>1, <1>3, <2>1
  <2> QED BY <2>2 DEF At
<1>5. ASSUME NEW q, NEW h, At(m, q, h), q # p, h # p
      PROVE  At(k, q, h)
  <2>1. PICK i \in DOMAIN m.mOpenGames :
          m.mOpenGames[i].creator = h /\ q \in PlayersOf(m.mOpenGames[i])
    BY <1>5 DEF At
  <2>2. i \in DOMAIN k.mOpenGames /\ k.mOpenGames[i].creator = h /\ q \in PlayersOf(k.mOpenGames[i])
    BY <1>1, <1>2, <1>3, <1>5, <2>1
  <2> QED BY <2>2 DEF At
<1> QED BY <1>4, <1>5

LEMMA AtOpened ==
  ASSUME NEW k, NEW n, NEW id, NEW game, NEW p, Opened(k, n, id, game),
         game.creator = p, Range(game.connected) = {}
  PROVE  \A q, h : At(n, q, h) <=> At(k, q, h) \/ (q = p /\ h = p)
<1>1. PlayersOf(game) = {p}
  BY DEF PlayersOf
<1> QED BY <1>1 DEF Opened, At

LEMMA AtSeated ==
  ASSUME NEW k, NEW n, NEW p, NEW id \in DOMAIN k.mOpenGames, Seated(k, n, id, p)
  PROVE  \A q, h : At(n, q, h) <=> At(k, q, h) \/ (q = p /\ h = k.mOpenGames[id].creator)
<1>1. PlayersOf(n.mOpenGames[id]) = PlayersOf(k.mOpenGames[id]) \cup {p}
  BY DEF Seated, PlayersOf
<1>2. /\ DOMAIN n.mOpenGames = DOMAIN k.mOpenGames
      /\ n.mOpenGames[id].creator = k.mOpenGames[id].creator
      /\ \A i \in DOMAIN k.mOpenGames : i # id => n.mOpenGames[i] = k.mOpenGames[i]
  BY DEF Seated
<1> QED BY <1>1, <1>2 DEF At

LEMMA AtStarted ==
  ASSUME NEW m, Good(m), NEW n, NEW id, NEW host, NEW client, Started(m, n, id, host, client)
  PROVE  \A q, h : At(n, q, h) <=> At(m, q, h) /\ h # host
<1>1. \A i \in DOMAIN n.mOpenGames :
        /\ i \in DOMAIN m.mOpenGames /\ i # id
        /\ n.mOpenGames[i].creator = m.mOpenGames[i].creator
        /\ Range(n.mOpenGames[i].connected) = Range(m.mOpenGames[i].connected)
  BY DEF Started
<1>2. \A i \in DOMAIN m.mOpenGames : i # id => i \in DOMAIN n.mOpenGames
  BY DEF Started
<1>3. \A i \in DOMAIN n.mOpenGames : PlayersOf(n.mOpenGames[i]) = PlayersOf(m.mOpenGames[i])
  BY <1>1 DEF PlayersOf
<1>4. id \in DOMAIN m.mOpenGames /\ m.mOpenGames[id].creator = host
  BY DEF Started
<1>5. \A i \in DOMAIN m.mOpenGames : m.mOpenGames[i].creator = host => i = id
  BY <1>4 DEF Good, SeatedOnce, PlayersOf
<1> QED BY <1>1, <1>2, <1>3, <1>4, <1>5 DEF At

-----------------------------------------------------------------------------
(* ... and the seats.                                                          *)

StoodUp(m, n, p, next) ==
  \A q \in Client :
    SeatOf(n, q) = IF q = p THEN next
                   ELSE IF SeatOf(m, q) = p /\ SeatOf(m, p) = p THEN Waiting ELSE SeatOf(m, q)

(* Only p's seat has changed.                                                  *)
Moved(k, n, p, next) ==
  \A q \in Client : SeatOf(n, q) = IF q = p THEN next ELSE SeatOf(k, q)

LEMMA StoodUpAndMoved ==
  ASSUME NEW m, NEW k, NEW n, NEW p, NEW x, NEW next, StoodUp(m, k, p, x), Moved(k, n, p, next)
  PROVE  StoodUp(m, n, p, next)
BY DEF StoodUp, Moved

LEMMA LeftSeats ==
  ASSUME NEW m, Good(m), Apart(m), NEW k, Good(k), NEW p \in Client, Left(m, k, p)
  PROVE  /\ p \in m.mPlayerMap => StoodUp(m, k, p, Waiting)
         /\ p \notin m.mPlayerMap => Moved(m, k, p, SeatOf(m, p))
<1>1. k.mPlayerMap = m.mPlayerMap /\ k.inGame = m.inGame
  BY DEF Left, Frame
<1>2. \A q, h : At(k, q, h) <=> At(m, q, h) /\ q # p /\ h # p
  BY AtLeft
<1>3. p \notin {Away, Waiting, Playing}
  BY SeatAssumption
<1>4. ASSUME p \in m.mPlayerMap, NEW q \in Client
      PROVE  SeatOf(k, q) = IF q = p THEN Waiting
                   ELSE IF SeatOf(m, q) = p /\ SeatOf(m, p) = p THEN Waiting ELSE SeatOf(m, q)
  <2>1. Place(m, q, SeatOf(m, q))
    BY SeatIs
  <2>2. CASE q = p
    <3>1. Place(k, q, Waiting)
      BY <1>1, <1>2, <1>4, <2>2 DEF Place, Apart
    <3> QED BY <2>2, <3>1, SeatIs
  <2>3. CASE q # p /\ SeatOf(m, q) = p
    <3>1. At(m, q, p)
      BY <1>3, <2>1, <2>3 DEF Place
    <3>2. p \notin m.inGame /\ q \notin m.inGame /\ q \in m.mPlayerMap /\ At(m, p, p)
      BY <1>3, <1>4, <2>1, <2>3, <3>1, AtOnce DEF Place, Apart
    <3>3. SeatOf(m, p) = p
      BY <1>4, <3>2, SeatIs DEF Place
    <3>4. \A h : At(m, q, h) => h = p
      BY <3>1, AtOnce
    <3>5. Place(k, q, Waiting)
      BY <1>1, <1>2, <3>2, <3>4 DEF Place
    <3> QED BY <2>3, <3>3, <3>5, SeatIs
  <2>4. CASE q # p /\ SeatOf(m, q) # p
    <3>1. Place(k, q, SeatOf(m, q))
      BY <1>1, <1>2, <2>1, <2>4 DEF Place
    <3> QED BY <2>4, <3>1, SeatIs
  <2> QED BY <2>2, <2>3, <2>4
<1>5. ASSUME p \notin m.mPlayerMap, NEW q \in Client
      PROVE  SeatOf(k, q) = SeatOf(m, q)
  <2>1. \A h : At(m, q, h) => q # p /\ h # p
    BY <1>5, AtOnce
  <2>2. Place(m, q, SeatOf(m, q))
    BY SeatIs
  <2>3. Place(k, q, SeatOf(m, q))
    BY <1>1, <1>2, <2>1, <2>2 DEF Place
  <2> QED BY <2>3, SeatIs
<1> QED BY <1>4, <1>5 DEF StoodUp, Moved

LEMMA SameSeats ==
  ASSUME NEW m, Good(m), NEW n, Good(n), NEW p, NEW s,
         \A q \in Client \ {p} : (q \in n.mPlayerMap <=> q \in m.mPlayerMap) /\ (q \in n.inGame <=> q \in m.inGame),
         \A q \in Client \ {p} : \A h : At(n, q, h) <=> At(m, q, h),
         p \in Client => Place(n, p, s)
  PROVE  Moved(m, n, p, s)
<1> SUFFICES ASSUME NEW q \in Client
             PROVE  SeatOf(n, q) = IF q = p THEN s ELSE SeatOf(m, q)
  BY DEF Moved
<1>1. Place(m, q, SeatOf(m, q))
  BY SeatIs
<1>2. CASE q = p
  BY <1>2, SeatIs
<1>3. CASE q # p
  <2>1. Place(n, q, SeatOf(m, q))
    BY <1>1, <1>3 DEF Place
  <2> QED BY <1>3, <2>1, SeatIs
<1> QED BY <1>2, <1>3

(* What each packet does to the seats.                                         *)
LEMMA DepartedSeats ==
  ASSUME NEW m, Good(m), Apart(m), NEW n, Good(n), NEW c \in Client, Departed(m, n, c)
  PROVE  StoodUp(m, n, c, Away)
<1>1. PICK k : Good(k) /\ Left(m, k, c) /\ n.mOpenGames = k.mOpenGames
  BY DEF Departed
<1>2. k.mPlayerMap = m.mPlayerMap /\ k.inGame = m.inGame
  BY <1>1 DEF Left, Frame
<1>3. n.mPlayerMap = m.mPlayerMap \ {c} /\ n.inGame = m.inGame \ {c}
  BY DEF Departed
<1>4. Moved(k, n, c, Away)
  <2>1. \A q, h : At(n, q, h) <=> At(k, q, h)
    BY <1>1 DEF At
  <2>2. Place(n, c, Away)
    BY <1>3 DEF Place
  <2> QED BY <1>1, <1>2, <1>3, <2>1, <2>2, SameSeats
<1>5. CASE c \in m.mPlayerMap
  BY <1>1, <1>4, <1>5, LeftSeats, StoodUpAndMoved
<1>6. CASE c \notin m.mPlayerMap
  <2>1. SeatOf(m, c) # c
    BY <1>6, SeatAssumption DEF SeatOf
  <2> QED BY <1>1, <1>4, <1>6, <2>1, LeftSeats DEF StoodUp, Moved
<1> QED BY <1>5, <1>6

LEMMA OpensGameSeats ==
  ASSUME NEW m, Good(m), Apart(m), NEW n, Good(n), NEW c \in Client, OpensGame(m, n, c)
  PROVE  StoodUp(m, n, c, c)
<1>1. PICK k, id, game :
        /\ Good(k) /\ Left(m, k, c) /\ Opened(k, n, id, game)
        /\ game.creator = c /\ Range(game.connected) = {}
  BY DEF OpensGame
<1>2. k.mPlayerMap = m.mPlayerMap /\ k.inGame = m.inGame /\ n.mPlayerMap = k.mPlayerMap /\ n.inGame = k.inGame
  BY <1>1 DEF Left, Frame, Opened
<1>3. \A q, h : At(n, q, h) <=> At(k, q, h) \/ (q = c /\ h = c)
  BY <1>1, AtOpened
<1>4. c \in m.mPlayerMap
  BY DEF OpensGame
<1>5. Place(n, c, c)
  BY <1>2, <1>3, <1>4 DEF Place, Apart
<1>6. Moved(k, n, c, c)
  BY <1>1, <1>2, <1>3, <1>5, SameSeats
<1> QED BY <1>1, <1>4, <1>6, LeftSeats, StoodUpAndMoved

(* c takes a seat at the table of h: somebody else, who sits there himself.    *)
LEMMA SeatedSeats ==
  ASSUME NEW m, Good(m), Apart(m), NEW k, Good(k), NEW n, Good(n), NEW c \in Client, NEW id,
         Left(m, k, c), c \in k.mPlayerMap, id \in DOMAIN k.mOpenGames, Seated(k, n, id, c)
  PROVE  \E h \in Client : h # c /\ SeatOf(m, h) = h /\ StoodUp(m, n, c, h)
<1> DEFINE h == k.mOpenGames[id].creator
<1>1. /\ k.mPlayerMap = m.mPlayerMap /\ k.inGame = m.inGame
      /\ n.mPlayerMap = k.mPlayerMap /\ n.inGame = k.inGame
  BY DEF Left, Frame, Seated
<1>2. \A q, g : At(n, q, g) <=> At(k, q, g) \/ (q = c /\ g = h)
  BY AtSeated
<1>3. At(k, h, h)
  BY DEF At, PlayersOf
<1> HIDE DEF h
<1>4. At(m, h, h) /\ h # c
  BY <1>3, AtLeft
<1>5. h \in m.mPlayerMap /\ h \in Client /\ h \notin m.inGame
  BY <1>4, AtOnce DEF Good, IsMatchMaker, Apart
<1>6. SeatOf(m, h) = h
  BY <1>4, <1>5, SeatIs DEF Place
<1>7. Place(n, c, h)
  BY <1>1, <1>2 DEF Place, Apart
<1>8. Moved(k, n, c, h)
  BY <1>1, <1>2, <1>7, SameSeats
<1> QED BY <1>1, <1>4, <1>5, <1>6, <1>8, LeftSeats, StoodUpAndMoved

LEMMA JoinsGameSeats ==
  ASSUME NEW m, Good(m), Apart(m), NEW n, Good(n), NEW c \in Client, JoinsGame(m, n, c)
  PROVE  \/ \A q \in Client : SeatOf(n, q) = SeatOf(m, q)
         \/ c \in m.mPlayerMap /\ StoodUp(m, n, c, Waiting)
         \/ c \in m.mPlayerMap /\ \E h \in Client : h # c /\ SeatOf(m, h) = h /\ StoodUp(m, n, c, h)
<1>1. PICK k, id : /\ Good(k) /\ Left(m, k, c) /\ ~Sits(k, c)
                   /\ \/ Frame(k, n) /\ n.mOpenGames = k.mOpenGames
                      \/ c \in k.mPlayerMap /\ id \in DOMAIN k.mOpenGames /\ Seated(k, n, id, c)
  BY DEF JoinsGame
<1>2. k.mPlayerMap = m.mPlayerMap
  BY <1>1 DEF Left, Frame
<1>3. CASE Frame(k, n) /\ n.mOpenGames = k.mOpenGames
  <2>1. \A q : SeatOf(n, q) = SeatOf(k, q)
    BY <1>3 DEF SeatOf, Frame, GamesOf, GuestIn
  <2>2. CASE c \in m.mPlayerMap
    BY <1>1, <2>1, <2>2, LeftSeats DEF StoodUp
  <2>3. CASE c \notin m.mPlayerMap
    BY <1>1, <2>1, <2>3, LeftSeats DEF Moved
  <2> QED BY <2>2, <2>3
<1>4. CASE c \in k.mPlayerMap /\ id \in DOMAIN k.mOpenGames /\ Seated(k, n, id, c)
  BY <1>1, <1>2, <1>4, SeatedSeats
<1> QED BY <1>1, <1>3, <1>4

LEMMA EnteredSeats ==
  ASSUME NEW m, Good(m), Apart(m), NEW n, Good(n), NEW c \in Client, c \notin m.mPlayerMap, c \notin m.inGame,
         Entered(m, n, c)
  PROVE  \/ Moved(m, n, c, Waiting)
         \/ \E h \in Client : SeatOf(m, h) = h /\ Moved(m, n, c, h)
<1>1. PICK k : /\ Good(k) /\ k.mPlayerMap = m.mPlayerMap \cup {c} /\ k.mOpenGames = m.mOpenGames
               /\ k.inGame = m.inGame
               /\ \/ n = k
                  \/ \E j, id : /\ Good(j) /\ Left(k, j, c) /\ ~Sits(j, c)
                                /\ \/ Frame(j, n) /\ n.mOpenGames = j.mOpenGames
                                   \/ c \in j.mPlayerMap /\ id \in DOMAIN j.mOpenGames /\ Seated(j, n, id, c)
  BY DEF Entered
<1>2. \A q, h : At(k, q, h) <=> At(m, q, h)
  BY <1>1 DEF At
<1>3. \A h : ~At(m, c, h)
  BY AtOnce
<1>4. Place(k, c, Waiting)
  BY <1>1, <1>2, <1>3 DEF Place
<1>5. Moved(m, k, c, Waiting)
  BY <1>1, <1>2, <1>4, SameSeats
<1>6. Apart(k)
  BY <1>1 DEF Apart
<1>7. SeatOf(k, c) = Waiting /\ c # Waiting
  BY <1>5, SeatAssumption DEF Moved
<1>8. CASE n = k
  BY <1>5, <1>8
<1>9. CASE \E j, id : /\ Good(j) /\ Left(k, j, c) /\ ~Sits(j, c)
                      /\ \/ Frame(j, n) /\ n.mOpenGames = j.mOpenGames
                         \/ c \in j.mPlayerMap /\ id \in DOMAIN j.mOpenGames /\ Seated(j, n, id, c)
  <2>1. JoinsGame(k, n, c)
    BY <1>9 DEF JoinsGame
  <2>2. \/ \A q \in Client : SeatOf(n, q) = SeatOf(k, q)
        \/ StoodUp(k, n, c, Waiting)
        \/ \E h \in Client : h # c /\ SeatOf(k, h) = h /\ StoodUp(k, n, c, h)
    BY <1>1, <1>6, <2>1, JoinsGameSeats
  <2>3. \A next : StoodUp(k, n, c, next) => Moved(m, n, c, next)
    BY <1>5, <1>7 DEF StoodUp, Moved
  <2>4. CASE \A q \in Client : SeatOf(n, q) = SeatOf(k, q)
    BY <1>5, <2>4 DEF Moved
  <2>5. CASE StoodUp(k, n, c, Waiting)
    BY <2>3, <2>5
  <2>6. CASE \E h \in Client : h # c /\ SeatOf(k, h) = h /\ StoodUp(k, n, c, h)
    <3>1. PICK h \in Client : h # c /\ SeatOf(k, h) = h /\ StoodUp(k, n, c, h)
      BY <2>6
    <3>2. SeatOf(m, h) = h
      BY <1>5, <3>1 DEF Moved
    <3> QED BY <2>3, <3>1, <3>2
  <2> QED BY <2>2, <2>4, <2>5, <2>6
<1> QED BY <1>1, <1>8, <1>9

LEMMA StartedSeats ==
  ASSUME NEW m, Good(m), Apart(m), NEW n, Good(n), NEW id, NEW h, NEW g, Started(m, n, id, h, g)
  PROVE  /\ h \in Client /\ g \in Client /\ g # h /\ SeatOf(m, h) = h /\ SeatOf(m, g) = h
         /\ \A q \in Client : SeatOf(n, q) = IF q \in {g, h} THEN Playing
                                             ELSE IF SeatOf(m, q) = h THEN Waiting ELSE SeatOf(m, q)
<1>1. /\ g # h /\ n.mPlayerMap = m.mPlayerMap \ {h, g} /\ n.inGame = m.inGame \cup {h, g}
      /\ id \in DOMAIN m.mOpenGames /\ m.mOpenGames[id].creator = h
      /\ g \in Range(m.mOpenGames[id].connected)
  BY DEF Started
<1>2. At(m, h, h) /\ At(m, g, h)
  BY <1>1 DEF At, PlayersOf
<1>3. h \in m.mPlayerMap /\ g \in m.mPlayerMap
  BY <1>2, AtOnce
<1>4. h \in Client /\ g \in Client /\ h \notin m.inGame /\ g \notin m.inGame
  BY <1>3 DEF Good, IsMatchMaker, Apart
<1>5. SeatOf(m, h) = h /\ SeatOf(m, g) = h
  BY <1>2, <1>3, <1>4, SeatIs DEF Place
<1>6. \A q, t : At(n, q, t) <=> At(m, q, t) /\ t # h
  BY AtStarted
<1>7. ASSUME NEW q \in Client
      PROVE  SeatOf(n, q) = IF q \in {g, h} THEN Playing
                            ELSE IF SeatOf(m, q) = h THEN Waiting ELSE SeatOf(m, q)
  <2>1. Place(m, q, SeatOf(m, q))
    BY SeatIs
  <2>2. h \notin {Away, Waiting, Playing}
    BY <1>4, SeatAssumption
  <2>3. CASE q \in {g, h}
    <3>1. Place(n, q, Playing)
      BY <1>1, <2>3 DEF Place
    <3> QED BY <2>3, <3>1, SeatIs
  <2>4. CASE q \notin {g, h} /\ SeatOf(m, q) = h
    <3>1. q \notin m.inGame /\ q \in m.mPlayerMap /\ At(m, q, h)
      BY <2>1, <2>2, <2>4 DEF Place
    <3>2. \A t : At(m, q, t) => t = h
      BY <3>1, AtOnce
    <3>3. Place(n, q, Waiting)
      BY <1>1, <1>6, <2>4, <3>1, <3>2 DEF Place
    <3> QED BY <2>4, <3>3, SeatIs
  <2>5. CASE q \notin {g, h} /\ SeatOf(m, q) # h
    <3>1. Place(n, q, SeatOf(m, q))
      BY <1>1, <1>6, <2>1, <2>5 DEF Place
    <3> QED BY <2>5, <3>1, SeatIs
  <2> QED BY <2>3, <2>4, <2>5
<1> QED BY <1>1, <1>4, <1>5, <1>7

(* Every step of the server is a step of Tables, or leaves the seats alone.    *)
LEMMA SeatFunction ==
  /\ seat = [c \in Client |-> SeatOf(mMatchMaker, c)]
  /\ seat' = [c \in Client |-> SeatOf(mMatchMaker', c)]
BY DEF seat, SeatOf, Games

LEMMA InvSeats ==
  ASSUME IInv
  PROVE  Good(mMatchMaker) /\ Apart(mMatchMaker) /\ mMatchMaker.mPlayerMap \subseteq Client
BY MatchMakerInv DEF Apart

LEMMA SeatStandUp ==
  ASSUME NEW p \in Client, NEW next, StoodUp(mMatchMaker, mMatchMaker', p, next)
  PROVE  seat' = T!StandUp(p, next)
<1> DEFINE s == [c \in Client |-> SeatOf(mMatchMaker, c)]
<1>1. \A q \in Client : s[q] = SeatOf(mMatchMaker, q)
  OBVIOUS
<1>2. seat' = [q \in Client |-> IF q = p THEN next
                                ELSE IF s[q] = p /\ s[p] = p THEN Waiting ELSE s[q]]
  BY <1>1, SeatFunction DEF StoodUp
<1>3. seat = s
  BY SeatFunction
<1> HIDE DEF s
<1> QED BY <1>2, <1>3 DEF T!StandUp

LEMMA SeatStays ==
  ASSUME \A q \in Client : SeatOf(mMatchMaker', q) = SeatOf(mMatchMaker, q)
  PROVE  seat' = seat
BY SeatFunction

LEMMA SeatMoved ==
  ASSUME NEW p \in Client, NEW next, Moved(mMatchMaker, mMatchMaker', p, next)
  PROVE  seat' = [seat EXCEPT ![p] = next]
<1>1. DOMAIN seat = Client /\ \A q \in Client : seat[q] = SeatOf(mMatchMaker, q)
  BY SeatFunction
<1>2. seat' = [q \in Client |-> IF q = p THEN next ELSE seat[q]]
  BY <1>1, SeatFunction DEF Moved
<1> HIDE DEF seat
<1>3. seat = [q \in Client |-> seat[q]]
  BY SeatFunction
<1> QED BY <1>1, <1>2, <1>3

LEMMA StepRefines ==
  ASSUME IInv, [Next]_vars
  PROVE  T!Next \/ seat' = seat
<1> DEFINE m == mMatchMaker
           n == mMatchMaker'
<1>1. Good(m) /\ Apart(m) /\ Good(n)
  <2>1. IInv'
    BY NextInv
  <2> QED BY <2>1, InvSeats DEF IInv
<1>2. \A q \in Client : seat[q] = SeatOf(m, q)
  BY SeatFunction
<1>3. n.mOpenGames = m.mOpenGames /\ n.mPlayerMap = m.mPlayerMap /\ n.inGame = m.inGame => seat' = seat
  BY SeatStays DEF SeatOf, GamesOf, GuestIn
<1> SUFFICES ASSUME NEW c \in Client, Handle(c)
             PROVE  T!Next \/ seat' = seat
  <2>1. IsRecord(m)
    BY <1>1 DEF Good
  <2>2. CASE UNCHANGED vars \/ UpdateGames
    <3>1. n = m \/ n = [m EXCEPT !.mAllowNewGames = (DOMAIN m.mOpenGames = {})]
      BY <2>2 DEF vars, UpdateGames
    <3> QED BY <1>3, <2>1, <3>1 DEF IsRecord
  <2>3. ASSUME NEW c \in Client, Connect(c) \/ ClientReceive(c) \/ SwitchState(c) \/ Disconnect(c)
        PROVE  seat' = seat
    <3>1. n.mOpenGames = m.mOpenGames /\ n.mPlayerMap = m.mPlayerMap /\ n.inGame = m.inGame
      BY <2>1, <2>3 DEF Connect, ClientReceive, SwitchState, Disconnect, IsRecord
    <3> QED BY <1>3, <3>1
  <2>4. ASSUME NEW c \in Client, RequestOpen(c) \/ RequestJoin(c) \/ RequestLeave(c) \/ RequestStart(c)
        PROVE  seat' = seat
    <3>1. n = m
      BY <2>4 DEF RequestOpen, RequestJoin, RequestLeave, RequestStart, Request
    <3> QED BY <1>3, <3>1
  <2> QED BY <2>2, <2>3, <2>4 DEF Next
<1>4. CASE HandleEnter(c)
  <2>1. Entered(m, n, c) /\ c \notin m.mPlayerMap /\ c \notin m.inGame
    BY <1>4, HandleEnterInv, PacketTaken, FirstPacket DEF HandleEnter
  <2>2. \/ Moved(m, n, c, Waiting)
        \/ \E h \in Client : SeatOf(m, h) = h /\ Moved(m, n, c, h)
    BY <1>1, <2>1, EnteredSeats
  <2>3. \E place \in {Waiting} \cup {h \in Client : seat[h] = h} : Moved(m, n, c, place)
    BY <1>2, <2>2
  <2>4. seat[c] = Away
    BY <1>2, <2>1 DEF SeatOf
  <2>5. \E place \in {Waiting} \cup {h \in Client : seat[h] = h} : seat' = [seat EXCEPT ![c] = place]
    BY <2>3, SeatMoved
  <2> QED BY <2>4, <2>5 DEF T!Next, T!Arrive
<1>5. CASE HandleLost(c)
  <2>1. CASE n = m
    BY <1>3, <2>1
  <2>2. CASE Departed(m, n, c)
    <3>1. StoodUp(m, n, c, Away)
      BY <1>1, <2>2, DepartedSeats
    <3>2. seat' = T!StandUp(c, Away)
      BY <3>1, SeatStandUp
    <3> QED BY <3>2 DEF T!Next, T!Depart
  <2> QED BY <1>5, <2>1, <2>2, HandleLostInv
<1>6. ASSUME c \in m.mPlayerMap
      PROVE  T!Here(c)
  <2>1. c \notin m.inGame /\ c \notin {Away, Playing}
    BY <1>1, <1>6, SeatAssumption DEF Apart
  <2>2. Place(m, c, SeatOf(m, c))
    BY <1>1, SeatIs
  <2>3. \A h : At(m, c, h) => h \in Client
    BY <1>1, AtOnce DEF Good, IsMatchMaker
  <2>4. SeatOf(m, c) \notin {Away, Playing}
    BY <1>6, <2>1, <2>2, <2>3, SeatAssumption DEF Place
  <2> QED BY <1>2, <2>4 DEF T!Here
<1>7. CASE HandleOpen(c)
  <2>1. CASE n = m
    BY <1>3, <2>1
  <2>2. CASE OpensGame(m, n, c)
    <3>1. StoodUp(m, n, c, c) /\ c \in m.mPlayerMap
      BY <1>1, <2>2, OpensGameSeats DEF OpensGame
    <3>2. seat' = T!StandUp(c, c)
      BY <3>1, SeatStandUp
    <3> QED BY <1>6, <3>1, <3>2 DEF T!Next, T!OpenTable
  <2> QED BY <1>7, <2>1, <2>2, HandleOpenInv
<1>8. CASE HandleJoin(c) \/ HandleLeave(c)
  <2>1. JoinsGame(m, n, c)
    BY <1>8, HandleJoinInv, HandleLeaveInv
  <2>2. \/ \A q \in Client : SeatOf(n, q) = SeatOf(m, q)
        \/ c \in m.mPlayerMap /\ StoodUp(m, n, c, Waiting)
        \/ c \in m.mPlayerMap /\ \E h \in Client : h # c /\ SeatOf(m, h) = h /\ StoodUp(m, n, c, h)
    BY <1>1, <2>1, JoinsGameSeats
  <2>3. CASE \A q \in Client : SeatOf(n, q) = SeatOf(m, q)
    BY <2>3, SeatStays
  <2>4. CASE c \in m.mPlayerMap /\ StoodUp(m, n, c, Waiting)
    <3>1. seat' = T!StandUp(c, Waiting)
      BY <2>4, SeatStandUp
    <3> QED BY <1>6, <2>4, <3>1 DEF T!Next, T!Leave
  <2>5. CASE c \in m.mPlayerMap /\ \E h \in Client : h # c /\ SeatOf(m, h) = h /\ StoodUp(m, n, c, h)
    <3>1. PICK h \in Client : h # c /\ SeatOf(m, h) = h /\ StoodUp(m, n, c, h)
      BY <2>5
    <3>2. seat' = T!StandUp(c, h) /\ seat[h] = h
      BY <1>2, <3>1, SeatStandUp
    <3> QED BY <1>6, <2>5, <3>1, <3>2 DEF T!Next, T!SitDown
  <2> QED BY <2>2, <2>3, <2>4, <2>5
<1>9. CASE HandleStart(c)
  <2>1. CASE n = m
    BY <1>3, <2>1
  <2>2. CASE \E target, id : Started(m, n, id, c, target)
    <3>1. PICK g, id : Started(m, n, id, c, g)
      BY <2>2
    <3>2. /\ g \in Client /\ g # c /\ SeatOf(m, c) = c /\ SeatOf(m, g) = c
          /\ \A q \in Client : SeatOf(n, q) = IF q \in {g, c} THEN Playing
                                              ELSE IF SeatOf(m, q) = c THEN Waiting ELSE SeatOf(m, q)
      BY <1>1, <3>1, StartedSeats
    <3>3. seat' = [q \in Client |-> IF q \in {g, c} THEN Playing
                                    ELSE IF SeatOf(m, q) = c THEN Waiting ELSE SeatOf(m, q)]
      BY <3>2, SeatFunction
    <3>4. seat' = [q \in Client |-> IF q \in {g, c} THEN Playing
                                    ELSE IF seat[q] = c THEN Waiting ELSE seat[q]]
      BY <1>2, <3>3
    <3>5. seat[c] = c /\ seat[g] = c
      BY <1>2, <3>2
    <3>6. T!StartMatch(c, g)
      BY <3>2, <3>4, <3>5 DEF T!StartMatch
    <3> QED BY <3>2, <3>6 DEF T!Next
  <2> QED BY <1>9, <2>1, <2>2, HandleStartInv
<1> QED BY <1>4, <1>5, <1>7, <1>8, <1>9 DEF Handle

(* The lobby does what Tables promises: every packet that processPackets       *)
(* handles moves its players between the lobby, the tables and the matches as  *)
(* one of the abstract operations does, or moves nobody.                       *)
THEOREM Refinement == Spec => TablesSpec
<1>1. Init => T!Init
  <2> SUFFICES ASSUME Init
               PROVE  T!Init
    OBVIOUS
  <2>1. mMatchMaker.inGame = {} /\ mMatchMaker.mPlayerMap = {}
    BY DEF Init, EmptyLobby
  <2>2. \A c \in Client : SeatOf(mMatchMaker, c) = Away
    BY <2>1 DEF SeatOf
  <2> QED BY <2>2, SeatFunction DEF T!Init
<1>2. IInv /\ [Next]_vars => [T!Next]_seat
  BY StepRefines
<1> QED BY <1>1, <1>2, Invariance, PTL DEF Spec, TablesSpec, T!Spec
================================================================================
