--------------------------- MODULE NetworkGameProofs ---------------------------
(* Theorems about NetworkGame, for every number of requests and packets under  *)
(* way.  The properties speak of what a client will believe once it has read   *)
(* everything that has been sent (Outlook, a fold), so the first part is about *)
(* reading: what comes last is read last, what comes first is read first.      *)
(* The second part is the inductive invariant, IInv, and one lemma for each    *)
(* kind of step.                                                               *)
EXTENDS NetworkGame, Induction

-----------------------------------------------------------------------------
(* The inductive invariant.                                                    *)

(* The views of a NetworkGameState that has taken over.                         *)
LateView == {v \in View : v.state \notin {"LOBBY", "SWITCHING"}}

(* What a client makes of messages that are under way.                         *)
TakenOver(v) == IF v.state = "SWITCHING" THEN [v EXCEPT !.state = "WAITING_FOR_OPPONENT"] ELSE v
Read(v, q)   == FoldLeft(receive, TakenOver(v), q)

IsAnswer(p)      == p.type = "RULES"
IsAnswerOf(p, c) == IsAnswer(p) /\ p.from = c

(* The packets of a client on their way to the game object.                    *)
PacketsOf(c) ==
  /\ \A i \in DOMAIN toServer[c] :
       LET p == toServer[c][i]
       IN /\ p.from = c
          /\ IsAnswer(p) => p.needRules = view[c].needRules
          /\ p.type \in {"PAUSE", "UNPAUSE"} => isGameStarted
  /\ \A i \in DOMAIN game.mPacketQueue :
       LET p == game.mPacketQueue[i]
       IN /\ IsAnswerOf(p, c) => p.needRules = view[c].needRules
          /\ p.type \in {"PAUSE", "UNPAUSE"} => isGameStarted

(* He answers for the rules once, when his LobbyState hears of the game.       *)
AnswersOnce(c) ==
  /\ \A i, j \in DOMAIN toServer[c] :
       IsAnswer(toServer[c][i]) /\ IsAnswer(toServer[c][j]) => i = j
  /\ \A i, j \in DOMAIN game.mPacketQueue :
       IsAnswerOf(game.mPacketQueue[i], c) /\ IsAnswerOf(game.mPacketQueue[j], c) => i = j
  /\ \A i \in DOMAIN toServer[c], j \in DOMAIN game.mPacketQueue :
       ~(IsAnswer(toServer[c][i]) /\ IsAnswerOf(game.mPacketQueue[j], c))
  /\ c \in game.mRulesSent \/ view[c].state = "LOBBY" =>
       /\ \A i \in DOMAIN toServer[c] : ~IsAnswer(toServer[c][i])
       /\ \A i \in DOMAIN game.mPacketQueue : ~IsAnswerOf(game.mPacketQueue[i], c)
  /\ c \in game.mRulesSent => view[c].state # "LOBBY"

(* The announcement is the first thing a client gets, while he is in the lobby; *)
(* nothing is under way to a client that is gone.                              *)
Announced(c) ==
  /\ mainPc = "create" =>
       toClient[c] = <<>> /\ gamePc = "none" /\ view[c].state \in {"LOBBY", "GONE"}
  /\ \A i \in DOMAIN toClient[c] :
       toClient[c][i].type = "RULES_CHECKSUM" => i = 1 /\ view[c].state = "LOBBY"
  /\ view[c].state = "GONE" => toClient[c] = <<>>

(* Nothing of a game that runs is there before it does.                        *)
Running(type) == type \in {"GAME_READY", "PAUSE", "UNPAUSE", "WIN_NOTIFICATION"}

NothingEarly(c) ==
  /\ view[c].state \in {"PLAYING", "PAUSING", "PLAYER_WON"} => isGameStarted
  /\ \A i \in DOMAIN toClient[c] : Running(toClient[c][i].type) => isGameStarted

(* The file of the rules goes before what makes a client play.                 *)
HasFile(c) == view[c].needRules => view[c].hasRules \/ view[c].swallowed

FileFirst(c) ==
  /\ view[c].state \in {"PLAYING", "PAUSING", "PLAYER_WON"} => HasFile(c)
  /\ c \in game.mRulesSent /\ view[c].state # "GONE" =>
       HasFile(c) \/ \E i \in DOMAIN toClient[c] : toClient[c][i].type = "RULES"
  /\ \A i \in DOMAIN toClient[c] : toClient[c][i].type \in {"GAME_READY", "WIN_NOTIFICATION"} =>
       HasFile(c) \/ \E j \in 1..i - 1 : toClient[c][j].type = "RULES"

(* The game object itself.                                                     *)
Sound ==
  /\ game.mPaused /\ game.mGameValid => isGameStarted
  /\ game.winningPlayer # NO_PLAYER => isGameStarted

(* The views of the two sides of a connection.                                 *)
Mirrored(c) ==
  Reached(c) /\ isGameStarted =>
    /\ game.mGameValid /\ game.winningPlayer = NO_PLAYER =>
         Outlook(c).state = IF game.mPaused THEN "PAUSING" ELSE "PLAYING"
    /\ game.winningPlayer # NO_PLAYER =>
         /\ Outlook(c).state = "PLAYER_WON"
         /\ Outlook(c).winner = winFor(c, game.winningPlayer)

ClientInv(c) ==
  /\ PacketsOf(c)
  /\ AnswersOnce(c)
  /\ Announced(c)
  /\ NothingEarly(c)
  /\ FileFirst(c)
  /\ Mirrored(c)

IInv ==
  /\ TypeOK
  /\ Sound
  /\ \A c \in Client : ClientInv(c)
-----------------------------------------------------------------------------
(* Reading.                                                                    *)

LEMMA Opponents == Client = {Host, Guest} /\ Host # Guest
BY DEF Client, Host, Guest

(* A NetworkGameState can handle whatever is sent to it, and never goes back.  *)
LEMMA ReceiveLate ==
  ASSUME NEW v \in LateView, NEW msg \in Message
  PROVE  receive(v, msg) \in LateView
<1> DEFINE s == shown(v.state, msg.type)
           r == v.hasRules \/ msg.type = "RULES"
           m == v.mWaitingForReplay /\ msg.type # "REPLAY"
           w == IF msg.type = "WIN_NOTIFICATION" THEN msg.side ELSE v.winner
<1>1. v \in View /\ v.state \notin {"LOBBY", "SWITCHING"} /\ v.state \in ClientState
  BY DEF LateView, View
<1>2. s \in ClientState /\ s \notin {"LOBBY", "SWITCHING"}
  BY <1>1 DEF shown, ClientState
<1>3. r \in BOOLEAN /\ m \in BOOLEAN
  OBVIOUS
<1>4. w \in PlayerSide \cup {NO_PLAYER}
  BY <1>1 DEF View, Message
<1>5. receive(v, msg) = [v EXCEPT !.state = s, !.hasRules = r, !.mWaitingForReplay = m, !.winner = w]
  BY <1>1 DEF receive
<1> HIDE DEF s, r, m, w
<1> QED BY <1>1, <1>2, <1>3, <1>4, <1>5 DEF LateView, View

LEMMA ReceiveInLobby ==
  ASSUME NEW v \in View, NEW msg, v.state \in {"LOBBY", "SWITCHING"}
  PROVE  /\ v.state = "LOBBY" => receive(v, msg) = [v EXCEPT !.state = "SWITCHING"]
         /\ v.state = "SWITCHING" => receive(v, msg) = [v EXCEPT !.swallowed = TRUE]
BY DEF receive

(* What a message does to the two members the properties are about.            *)
LEMMA ReceiveEffect ==
  ASSUME NEW v \in LateView, NEW msg \in Message
  PROVE  LET w == receive(v, msg)
         IN /\ msg.type = "GAME_READY" => w.state = "PLAYING" /\ w.winner = v.winner
            /\ msg.type = "PAUSE" => w.state = (IF v.state = "PLAYING" THEN "PAUSING" ELSE v.state)
                                     /\ w.winner = v.winner
            /\ msg.type = "UNPAUSE" => w.state = (IF v.state = "PAUSING" THEN "PLAYING" ELSE v.state)
                                       /\ w.winner = v.winner
            /\ msg.type \in {"REPLAY", "RULES"} => w.state = v.state /\ w.winner = v.winner
            /\ msg.type = "WIN_NOTIFICATION" => w.state = "PLAYER_WON" /\ w.winner = msg.side
            /\ msg.type = "OPPONENT_DISCONNECTED" =>
                 w.state = (IF v.state = "PLAYER_WON" THEN v.state ELSE "OPPONENT_DISCONNECTED")
                 /\ w.winner = v.winner
            /\ w.needRules = v.needRules /\ w.swallowed = v.swallowed
            /\ w.hasRules = (v.hasRules \/ msg.type = "RULES")
            /\ w.state = "GONE" => v.state = "GONE"
BY DEF receive, shown, LateView, Message, View, ClientState, Message, MessageType, PlayerSide,
       NO_PLAYER, LEFT_PLAYER, RIGHT_PLAYER

LEMMA ReceivePlaying ==
  ASSUME NEW v \in LateView, NEW msg \in Message,
         receive(v, msg).state \in {"PLAYING", "PAUSING", "PLAYER_WON"}
  PROVE  \/ v.state \in {"PLAYING", "PAUSING", "PLAYER_WON"}
         \/ msg.type \in {"GAME_READY", "WIN_NOTIFICATION"}
BY DEF receive, shown, LateView, View, ClientState, Message, MessageType

LEMMA ReceiveGone ==
  ASSUME NEW v \in LateView, NEW msg \in Message, v.state # "GONE"
  PROVE  receive(v, msg).state # "GONE"
BY ReceiveEffect

LEMMA ReceiveFile ==
  ASSUME NEW v \in LateView, NEW msg \in Message
  PROVE  /\ v.hasRules \/ msg.type = "RULES" => receive(v, msg).hasRules
         /\ v.swallowed => receive(v, msg).swallowed
BY DEF receive, LateView, View

LEMMA ReceiveSame ==
  ASSUME NEW v \in LateView, NEW w \in LateView, NEW msg \in Message,
         v.state = w.state, v.winner = w.winner
  PROVE  /\ receive(v, msg).state = receive(w, msg).state
         /\ receive(v, msg).winner = receive(w, msg).winner
BY DEF receive, shown, LateView, Message, View, ClientState, Message, MessageType, PlayerSide,
       NO_PLAYER, LEFT_PLAYER, RIGHT_PLAYER

(* The views one after the other, while the messages are read.                 *)
IsReading(t, v, q) ==
  /\ t \in [0..Len(q) -> LateView]
  /\ t[0] = v
  /\ \A i \in 1..Len(q) : t[i] = receive(t[i - 1], q[i])

LEMMA Reading ==
  ASSUME NEW v \in LateView, NEW q \in Seq(Message)
  PROVE  \E t : IsReading(t, v, q) /\ FoldLeft(receive, v, q) = t[Len(q)]
<1> DEFINE F == [x \in LateView \X Message |-> receive(x[1], x[2])]
<1>1. F \in [LateView \X Message -> LateView]
  BY ReceiveLate
<1>2. \A x \in LateView, msg \in Message : F[<<x, msg>>] = receive(x, msg)
  OBVIOUS
<1>3. DOMAIN q = 1..Len(q) /\ Len(q) \in Nat /\ \A i \in 1..Len(q) : q[i] \in Message
  OBVIOUS
<1>4. PICK g : IsTable(g, LateView, F, v, q)
  <2> HIDE DEF F
  <2> QED BY <1>1, TableExists
<1> HIDE DEF F
<1>5. \A s \in SUBSET (1..Len(q)) : s # {} => Max(s) \in 1..Len(q) /\ s \ {Max(s)} \in SUBSET (1..Len(q))
  BY <1>3, LastPosition
<1>6. \A s \in SUBSET (1..Len(q)) : g[s] = IF s = {} THEN v ELSE receive(g[s \ {Max(s)}], q[Max(s)])
  BY <1>2, <1>3, <1>4, <1>5 DEF IsTable
<1> DEFINE G == [s \in SUBSET (1..Len(q)) |-> IF s = {} THEN v ELSE receive(g[s \ {Max(s)}], q[Max(s)])]
<1>7. g = G
  BY <1>4, <1>6 DEF IsTable
<1> HIDE DEF G
<1>8. ASSUME NEW h, h = [s \in SUBSET (1..Len(q)) |-> IF s = {} THEN v ELSE receive(h[s \ {Max(s)}], q[Max(s)])]
      PROVE  h = g
  <2>1. \A s \in SUBSET (1..Len(q)) : h[s] = IF s = {} THEN v ELSE receive(h[s \ {Max(s)}], q[Max(s)])
    BY <1>8
  <2>2. {} \in SUBSET (1..Len(q))
    OBVIOUS
  <2>3. h[{}] = g[{}]
    BY <2>1, <2>2, <1>6
  <2>4. \A s \in SUBSET (1..Len(q)) : s # {} /\ h[s \ {Max(s)}] = g[s \ {Max(s)}] => h[s] = g[s]
    BY <2>1, <1>6
  <2>5. \A s \in SUBSET (1..Len(q)) : h[s] = g[s]
    <3>1. SameRule(Len(q), h, g)
      BY <2>3, <2>4 DEF SameRule
    <3> QED BY <3>1, <1>3, TableUnique DEF SameEntries
  <2>6. DOMAIN h = SUBSET (1..Len(q)) /\ h = [s \in SUBSET (1..Len(q)) |-> h[s]]
    BY <1>8
  <2>7. g = [s \in SUBSET (1..Len(q)) |-> g[s]]
    BY <1>4 DEF IsTable
  <2> QED BY <2>5, <2>6, <2>7
<1>9. FoldLeft(receive, v, q) = g[1..Len(q)]
  <2>1. FoldLeft(receive, v, q) =
          (CHOOSE h : h = [s \in SUBSET DOMAIN q |->
                             IF s = {} THEN v ELSE receive(h[s \ {Max(s)}], q[Max(s)])])[DOMAIN q]
    BY DEF FoldLeft, MapThenFoldSet
  <2>2. (CHOOSE h : h = [s \in SUBSET (1..Len(q)) |->
                           IF s = {} THEN v ELSE receive(h[s \ {Max(s)}], q[Max(s)])]) = g
    BY <1>7, <1>8 DEF G
  <2> QED BY <2>1, <2>2, <1>3
<1> DEFINE t == [i \in 0..Len(q) |-> g[1..i]]
<1>10. \A i \in 0..Len(q) : 1..i \in SUBSET (1..Len(q))
  BY <1>3
<1>11. t \in [0..Len(q) -> LateView]
  BY <1>4, <1>10 DEF IsTable
<1>12. t[0] = v
  <2>1. 1..0 = {} /\ 0 \in 0..Len(q)
    BY <1>3
  <2> QED BY <2>1, <1>6, <1>10
<1>13. ASSUME NEW i \in 1..Len(q)
       PROVE  t[i] = receive(t[i - 1], q[i])
  <2>1. 1..i # {} /\ 1..i \in SUBSET (1..Len(q)) /\ i - 1 \in 0..Len(q) /\ i \in 0..Len(q)
    <3>1. i \in Int /\ 1 <= i /\ i <= Len(q)
      BY <1>3
    <3>2. i \in 1..i
      BY <3>1
    <3>3. 1..i \in SUBSET (1..Len(q))
      BY <3>1, <1>3
    <3>4. i - 1 \in 0..Len(q) /\ i \in 0..Len(q)
      BY <3>1, <1>3
    <3> QED BY <3>2, <3>3, <3>4
  <2>2. Max(1..i) = i
    <3>1. Max(1..i) \in 1..i /\ \A k \in 1..i : k <= Max(1..i)
      BY <2>1, <1>3, LastPosition
    <3> QED BY <3>1
  <2>3. (1..i) \ {i} = 1..i - 1
    OBVIOUS
  <2>4. g[1..i] = receive(g[1..i - 1], q[i])
    BY <1>6, <2>1, <2>2, <2>3
  <2> QED BY <2>1, <2>4
<1>14. FoldLeft(receive, v, q) = t[Len(q)]
  BY <1>9, <1>3
<1> HIDE DEF t
<1> QED BY <1>11, <1>12, <1>13, <1>14 DEF IsReading

(* There is only one such row of views.                                        *)
LEMMA ReadingUnique ==
  ASSUME NEW v \in LateView, NEW q \in Seq(Message), NEW t, IsReading(t, v, q)
  PROVE  FoldLeft(receive, v, q) = t[Len(q)] /\ FoldLeft(receive, v, q) \in LateView
<1>1. PICK u : IsReading(u, v, q) /\ FoldLeft(receive, v, q) = u[Len(q)]
  BY Reading
<1>2. Len(q) \in Nat /\ t[0] = u[0]
  BY <1>1 DEF IsReading
<1>3. \A i \in 1..Len(q) : t[i - 1] = u[i - 1] => t[i] = u[i]
  BY <1>1 DEF IsReading
<1>4. \A i \in 0..Len(q) : t[i] = u[i]
  BY <1>2, <1>3, TraceUnique
<1>5. t[Len(q)] = u[Len(q)] /\ t[Len(q)] \in LateView
  BY <1>2, <1>4 DEF IsReading
<1> QED BY <1>1, <1>5

LEMMA ReadNothing ==
  ASSUME NEW v \in LateView
  PROVE  FoldLeft(receive, v, <<>>) = v
<1>1. <<>> \in Seq(Message) /\ Len(<<>>) = 0
  OBVIOUS
<1>2. PICK t : IsReading(t, v, <<>>) /\ FoldLeft(receive, v, <<>>) = t[Len(<<>>)]
  BY <1>1, Reading
<1> QED BY <1>1, <1>2 DEF IsReading

(* What has been sent last is read last ...                                    *)
LEMMA ReadLast ==
  ASSUME NEW v \in LateView, NEW q \in Seq(Message), NEW msg \in Message
  PROVE  FoldLeft(receive, v, Append(q, msg)) = receive(FoldLeft(receive, v, q), msg)
<1> DEFINE p == Append(q, msg)
<1>1. p \in Seq(Message) /\ Len(p) = Len(q) + 1 /\ Len(q) \in Nat /\ p[Len(q) + 1] = msg
      /\ \A i \in 1..Len(q) : p[i] = q[i]
  OBVIOUS
<1> HIDE DEF p
<1>2. PICK t : IsReading(t, v, p) /\ FoldLeft(receive, v, p) = t[Len(p)]
  BY <1>1, Reading
<1> DEFINE u == [i \in 0..Len(q) |-> t[i]]
<1>3. IsReading(u, v, q)
  <2>1. u \in [0..Len(q) -> LateView]
    BY <1>1, <1>2 DEF IsReading
  <2>2. u[0] = v
    BY <1>1, <1>2 DEF IsReading
  <2>3. ASSUME NEW i \in 1..Len(q)
        PROVE  u[i] = receive(u[i - 1], q[i])
    <3>1. i \in 1..Len(p) /\ i - 1 \in 0..Len(q) /\ i \in 0..Len(q)
      BY <1>1
    <3>2. t[i] = receive(t[i - 1], p[i])
      BY <3>1, <1>2 DEF IsReading
    <3> QED BY <3>1, <3>2, <1>1
  <2> HIDE DEF u
  <2> QED BY <2>1, <2>2, <2>3 DEF IsReading
<1>4. FoldLeft(receive, v, q) = t[Len(q)]
  <2>1. FoldLeft(receive, v, q) = u[Len(q)]
    <3> HIDE DEF u
    <3> QED BY <1>3, ReadingUnique
  <2> QED BY <2>1, <1>1
<1>5. t[Len(q) + 1] = receive(t[Len(q)], p[Len(q) + 1])
  <2>1. Len(q) + 1 \in 1..Len(p) /\ (Len(q) + 1) - 1 = Len(q)
    BY <1>1
  <2> QED BY <2>1, <1>2 DEF IsReading
<1>6. FoldLeft(receive, v, p) = receive(FoldLeft(receive, v, q), msg)
  BY <1>1, <1>2, <1>4, <1>5
<1> QED BY <1>6 DEF p

(* ... and the first message first.                                            *)
LEMMA ReadFirst ==
  ASSUME NEW v \in LateView, NEW q \in Seq(Message), q # <<>>
  PROVE  FoldLeft(receive, v, q) = FoldLeft(receive, receive(v, Head(q)), Tail(q))
<1>1. /\ Tail(q) \in Seq(Message) /\ Len(q) \in Nat /\ Len(q) >= 1
      /\ Len(Tail(q)) = Len(q) - 1 /\ Head(q) = q[1] /\ q[1] \in Message
      /\ \A i \in 1..Len(q) - 1 : Tail(q)[i] = q[i + 1]
  OBVIOUS
<1>2. PICK t : IsReading(t, v, q) /\ FoldLeft(receive, v, q) = t[Len(q)]
  BY Reading
<1> DEFINE p == Tail(q)
           w == receive(v, Head(q))
           u == [i \in 0..Len(p) |-> t[i + 1]]
<1>3. IsReading(u, w, p)
  <2>1. u \in [0..Len(p) -> LateView]
    BY <1>1, <1>2 DEF IsReading
  <2>2. u[0] = w
    BY <1>1, <1>2 DEF IsReading
  <2>3. ASSUME NEW i \in 1..Len(p)
        PROVE  u[i] = receive(u[i - 1], p[i])
    <3>1. /\ i + 1 \in 1..Len(q) /\ i - 1 \in 0..Len(p) /\ i \in 0..Len(p)
          /\ (i + 1) - 1 = i /\ (i - 1) + 1 = i /\ i \in 1..Len(q) - 1
      BY <1>1
    <3>2. t[i + 1] = receive(t[i], q[i + 1])
      BY <3>1, <1>2 DEF IsReading
    <3> QED BY <3>1, <3>2, <1>1
  <2> HIDE DEF u, w, p
  <2> QED BY <2>1, <2>2, <2>3 DEF IsReading
<1>4. w \in LateView
  BY <1>1, ReceiveLate
<1>5. FoldLeft(receive, w, p) = u[Len(p)]
  <2>1. p \in Seq(Message)
    BY <1>1
  <2> HIDE DEF u, w, p
  <2> QED BY <1>3, <1>4, <2>1, ReadingUnique
<1>6. u[Len(p)] = t[Len(q)]
  BY <1>1
<1> QED BY <1>2, <1>5, <1>6

(* The dialogs a client has open make no difference.                           *)
LEMMA ReadSame ==
  ASSUME NEW v \in LateView, NEW w \in LateView, NEW q \in Seq(Message),
         v.state = w.state, v.winner = w.winner
  PROVE  /\ FoldLeft(receive, v, q).state = FoldLeft(receive, w, q).state
         /\ FoldLeft(receive, v, q).winner = FoldLeft(receive, w, q).winner
<1>1. PICK t : IsReading(t, v, q) /\ FoldLeft(receive, v, q) = t[Len(q)]
  BY Reading
<1>2. PICK u : IsReading(u, w, q) /\ FoldLeft(receive, w, q) = u[Len(q)]
  BY Reading
<1> DEFINE N == {i \in 0..Len(q) : t[i].state = u[i].state /\ t[i].winner = u[i].winner}
<1>3. Len(q) \in Nat
  OBVIOUS
<1>4. 0 \in N
  BY <1>1, <1>2, <1>3 DEF IsReading
<1>5. ASSUME NEW i \in 0..Len(q) - 1, i \in N
      PROVE  i + 1 \in N
  <2>1. i + 1 \in 1..Len(q) /\ (i + 1) - 1 = i /\ i + 1 \in 0..Len(q) /\ i \in 0..Len(q)
    BY <1>3
  <2>2. t[i + 1] = receive(t[i], q[i + 1]) /\ u[i + 1] = receive(u[i], q[i + 1])
    BY <2>1, <1>1, <1>2 DEF IsReading
  <2>3. t[i] \in LateView /\ u[i] \in LateView /\ q[i + 1] \in Message
    BY <2>1, <1>1, <1>2 DEF IsReading
  <2>4. t[i].state = u[i].state /\ t[i].winner = u[i].winner
    BY <1>5
  <2> QED BY <2>1, <2>2, <2>3, <2>4, ReceiveSame
<1>6. 0..Len(q) \subseteq N
  <2> HIDE DEF N
  <2> QED BY <1>3, <1>4, <1>5, BoundedInduction
<1>7. Len(q) \in N
  BY <1>3, <1>6
<1> QED BY <1>1, <1>2, <1>7

LEMMA TakenOverLate ==
  ASSUME NEW v \in View, v.state # "LOBBY"
  PROVE  TakenOver(v) \in LateView /\ (v.state # "SWITCHING" => TakenOver(v) = v)
BY DEF TakenOver, LateView, View, ClientState

LEMMA ReadLate ==
  ASSUME NEW v \in View, v.state # "LOBBY", NEW q \in Seq(Message)
  PROVE  /\ Read(v, q) \in LateView
         /\ \A msg \in Message : Read(v, Append(q, msg)) = receive(Read(v, q), msg)
<1>1. TakenOver(v) \in LateView
  BY TakenOverLate
<1>2. PICK t : IsReading(t, TakenOver(v), q)
  BY <1>1, Reading
<1> QED BY <1>1, <1>2, ReadingUnique, ReadLast DEF Read

LEMMA ReadNext ==
  ASSUME NEW v \in LateView, NEW q \in Seq(Message), q # <<>>
  PROVE  /\ receive(v, Head(q)) \in LateView
         /\ Read(v, q) = Read(receive(v, Head(q)), Tail(q))
<1> DEFINE w == receive(v, Head(q))
<1>1. Head(q) \in Message
  OBVIOUS
<1>2. w \in LateView
  BY <1>1, ReceiveLate
<1>3. v \in View /\ v.state # "LOBBY" /\ v.state # "SWITCHING"
  BY DEF LateView
<1>4. w \in View /\ w.state # "LOBBY" /\ w.state # "SWITCHING"
  BY <1>2 DEF LateView
<1>5. TakenOver(v) = v /\ TakenOver(w) = w
  <2> HIDE DEF w
  <2> QED BY <1>3, <1>4, TakenOverLate
<1>6. FoldLeft(receive, v, q) = FoldLeft(receive, w, Tail(q))
  BY ReadFirst
<1> QED BY <1>2, <1>5, <1>6 DEF Read

LEMMA ReadDialogs ==
  ASSUME NEW v \in View, NEW w \in View, NEW q \in Seq(Message), v.state # "LOBBY",
         w.state = v.state, w.winner = v.winner
  PROVE  Read(v, q).state = Read(w, q).state /\ Read(v, q).winner = Read(w, q).winner
<1>1. TakenOver(v) \in LateView /\ TakenOver(w) \in LateView
  BY TakenOverLate
<1>2. TakenOver(v).state = TakenOver(w).state /\ TakenOver(v).winner = TakenOver(w).winner
  BY DEF TakenOver, View
<1> QED BY <1>1, <1>2, ReadSame DEF Read

LEMMA OutlookIsRead ==
  ASSUME NEW c
  PROVE  Outlook(c) = Read(view[c], toClient[c]) /\ Outlook(c)' = Read(view'[c], toClient'[c])
BY DEF Outlook, Read, TakenOver

-----------------------------------------------------------------------------
(* What the properties need of the invariant.                                  *)

LEMMA Types ==
  ASSUME TypeOK
  PROVE  /\ game.mPacketQueue \in Seq(Packet) /\ game.mRulesSent \in SUBSET Client
         /\ game.mPaused \in BOOLEAN /\ game.mGameValid \in BOOLEAN
         /\ game.winningPlayer \in PlayerSide \cup {NO_PLAYER}
         /\ \A c \in Client : toServer[c] \in Seq(Packet) /\ toClient[c] \in Seq(Message)
                              /\ view[c] \in View
BY DEF TypeOK, GameState

LEMMA Sides ==
  ASSUME TypeOK
  PROVE  /\ desired[Host] \in PlayerSide /\ desired[Guest] \in PlayerSide
         /\ \A c \in Client, side \in PlayerSide :
              winFor(c, side) \in PlayerSide /\ ((winFor(c, side) = desired[c]) <=> (side = sideOf(c)))
<1>1. desired[Host] \in PlayerSide /\ desired[Guest] \in PlayerSide
  BY DEF TypeOK, Client, Host, Guest
<1> QED BY <1>1 DEF winFor, other_side, mSwitchedSide, sideOf, leftPlayer, PlayerSide, Client,
                    Host, Guest, LEFT_PLAYER, RIGHT_PLAYER, NO_PLAYER

LEMMA InvImpliesProperties ==
  ASSUME IInv
  PROVE  TypeOK /\ NobodyPlaysWithoutRules /\ PauseMirror /\ ResultIsRight
<1>1. TypeOK
  BY DEF IInv
<1>2. NobodyPlaysWithoutRules
  BY DEF IInv, ClientInv, NobodyPlaysWithoutRules, NothingEarly, FileFirst, HasFile
<1>3. PauseMirror
  BY DEF IInv, ClientInv, PauseMirror, Mirrored
<1>4. ResultIsRight
  <2> SUFFICES ASSUME game.winningPlayer # NO_PLAYER, NEW c \in Client, Reached(c)
               PROVE  /\ Outlook(c).state = "PLAYER_WON"
                      /\ (Outlook(c).winner = desired[c]) <=> (game.winningPlayer = sideOf(c))
    BY DEF ResultIsRight
  <2>1. Outlook(c).state = "PLAYER_WON" /\ Outlook(c).winner = winFor(c, game.winningPlayer)
    BY DEF IInv, ClientInv, Sound, Mirrored
  <2>2. game.winningPlayer \in PlayerSide
    BY <1>1, Types
  <2> QED BY <1>1, <2>1, <2>2, Sides
<1> QED BY <1>1, <1>2, <1>3, <1>4

LEMMA InitInv ==
  Init => IInv
<1> SUFFICES ASSUME Init PROVE IInv
  OBVIOUS
<1>1. ASSUME NEW c \in Client
      PROVE  toServer[c] = <<>> /\ toClient[c] = <<>> /\ view[c].state = "LOBBY"
             /\ view[c] \in View
  <2> DEFINE First == [state : {"LOBBY"}, needRules : RulesMissing, hasRules : {FALSE},
                       winner : {NO_PLAYER}, mSaveReplay : {FALSE},
                       mWaitingForReplay : {FALSE}, swallowed : {FALSE}]
  <2>1. toServer[c] = <<>> /\ toClient[c] = <<>> /\ view[c] \in First
    BY DEF Init
  <2>2. \A v \in First : v.state = "LOBBY" /\ v \in View
    BY PlayersAssumption DEF View, ClientState
  <2> QED BY <2>1, <2>2
<1>2. TypeOK
  <2>1. view \in [Client -> View]
    BY <1>1 DEF Init
  <2>2. game \in GameState
    BY DEF Init, GameState
  <2>3. desired \in [Client -> PlayerSide]
    BY PlayersAssumption DEF Init
  <2>4. toServer \in [Client -> Seq(Packet)] /\ toClient \in [Client -> Seq(Message)]
    <3>1. <<>> \in Seq(Packet) /\ <<>> \in Seq(Message)
      OBVIOUS
    <3> QED BY <3>1 DEF Init
  <2>5. /\ gamePc \in {"none", "check", "take", "step", "done"}
        /\ mainPc \in {"create", "setLeft", "setRight", "loop", "check", "take"}
        /\ mPlayerMap \subseteq Client /\ assigned \subseteq Client
        /\ mainQueue \in Seq(Client)
        /\ requests \in 0..MaxRequests
    BY MaxRequestsAssumption DEF Init
  <2>6. dropped \in BOOLEAN /\ crashed \in BOOLEAN
    BY DEF Init
  <2> QED BY <2>1, <2>2, <2>3, <2>4, <2>5, <2>6 DEF TypeOK
<1>3. Sound
  BY DEF Sound, Init, NO_PLAYER
<1>4. ASSUME NEW c \in Client
      PROVE  ClientInv(c)
  <2>1. toServer[c] = <<>> /\ toClient[c] = <<>> /\ view[c].state = "LOBBY"
        /\ game.mPacketQueue = <<>> /\ game.mRulesSent = {} /\ gamePc = "none"
    BY <1>1 DEF Init
  <2>2. ~isGameStarted
    BY <2>1 DEF isGameStarted, Client
  <2> QED BY <2>1, <2>2 DEF ClientInv, PacketsOf, AnswersOnce, Announced, NothingEarly, FileFirst, Mirrored
<1> QED BY <1>2, <1>3, <1>4 DEF IInv

-----------------------------------------------------------------------------
(* Sending.                                                                    *)

(* What is under way to a client when more has been sent to him.               *)
Extended(c, msgs) == IF view[c].state = "GONE" THEN toClient[c] ELSE toClient[c] \o msgs

LEMMA SendAllEffect ==
  ASSUME TypeOK, NEW msgs, \A c \in Client : msgs[c] \in Seq(Message), SendAll(msgs)
  PROVE  /\ toClient' \in [Client -> Seq(Message)]
         /\ \A c \in Client : toClient'[c] = Extended(c, msgs[c])
<1>1. \A c \in Client : toClient[c] \in Seq(Message)
  BY Types
<1>2. \A c \in Client : Extended(c, msgs[c]) \in Seq(Message)
  BY <1>1 DEF Extended
<1>3. toClient' = [c \in Client |-> Extended(c, msgs[c])]
  BY DEF SendAll, Extended
<1> QED BY <1>2, <1>3

LEMMA Messages ==
  ASSUME NEW type \in MessageType
  PROVE  message(type) \in Message /\ message(type).type = type /\ <<message(type)>> \in Seq(Message)
BY DEF message, Message

LEMMA BroadcastEffect ==
  ASSUME TypeOK, NEW type \in MessageType, broadcast(type)
  PROVE  /\ toClient' \in [Client -> Seq(Message)]
         /\ \A c \in Client : toClient'[c] = Extended(c, <<message(type)>>)
<1> DEFINE msgs == [c \in Client |-> <<message(type)>>]
<1>1. \A c \in Client : msgs[c] = <<message(type)>> /\ msgs[c] \in Seq(Message)
  BY Messages
<1>2. SendAll(msgs)
  BY DEF broadcast
<1> HIDE DEF msgs
<1>3. /\ toClient' \in [Client -> Seq(Message)]
      /\ \A c \in Client : toClient'[c] = Extended(c, msgs[c])
  BY <1>1, <1>2, SendAllEffect
<1> QED BY <1>1, <1>3

(* The places of what was there, and of what was sent.                         *)
LEMMA Joined ==
  ASSUME NEW q \in Seq(Message), NEW m \in Seq(Message)
  PROVE  /\ q \o m \in Seq(Message) /\ Len(q) \in Nat /\ DOMAIN q = 1..Len(q)
         /\ \A i \in DOMAIN q : i \in DOMAIN (q \o m) /\ (q \o m)[i] = q[i]
         /\ \A i \in DOMAIN m : Len(q) + i \in DOMAIN (q \o m) /\ (q \o m)[Len(q) + i] = m[i]
         /\ \A i \in DOMAIN (q \o m) :
              \/ i \in DOMAIN q /\ (q \o m)[i] = q[i]
              \/ i > Len(q) /\ i - Len(q) \in DOMAIN m /\ (q \o m)[i] = m[i - Len(q)]
OBVIOUS

LEMMA ReadSent ==
  ASSUME NEW v \in View, v.state # "LOBBY", NEW q \in Seq(Message),
         NEW a \in Message, NEW b \in Message
  PROVE  /\ Read(v, q \o <<>>) = Read(v, q)
         /\ Read(v, q \o <<a>>) = receive(Read(v, q), a)
         /\ Read(v, q \o <<a, b>>) = receive(receive(Read(v, q), a), b)
<1>1. q \o <<>> = q
  OBVIOUS
<1>2. q \o <<a>> = Append(q, a)
  OBVIOUS
<1>3. q \o <<a, b>> = Append(Append(q, a), b) /\ Append(q, a) \in Seq(Message)
  OBVIOUS
<1>4. Read(v, Append(Append(q, a), b)) = receive(Read(v, Append(q, a)), b)
  BY <1>3, ReadLate
<1> QED BY <1>1, <1>2, <1>3, <1>4, ReadLate

-----------------------------------------------------------------------------
(* What leaves the parts of the invariant as they are.                         *)

(* What is sent to a client while the game goes on.                            *)
LEMMA SentInOrder ==
  ASSUME IInv, NEW c \in Client, NEW msgs \in Seq(Message),
         view' = view, mainPc # "create", mainPc' # "create",
         toClient'[c] = Extended(c, msgs),
         game.mRulesSent \subseteq game'.mRulesSent,
         game'.mRulesSent \subseteq Client,
         \A i \in DOMAIN msgs :
           /\ msgs[i].type # "RULES_CHECKSUM"
           /\ Running(msgs[i].type) => isGameStarted'
           /\ msgs[i].type \in {"GAME_READY", "WIN_NOTIFICATION"} =>
                \/ c \in game.mRulesSent
                \/ ~view[c].needRules
                \/ \E j \in 1..i - 1 : msgs[j].type = "RULES",
         c \in game'.mRulesSent =>
           \/ c \in game.mRulesSent
           \/ ~view[c].needRules
           \/ \E j \in DOMAIN msgs : msgs[j].type = "RULES"
  PROVE  Announced(c)' /\ NothingEarly(c)' /\ FileFirst(c)'
<1>1. TypeOK /\ Announced(c) /\ NothingEarly(c) /\ FileFirst(c)
  BY DEF IInv, ClientInv
<1>2. isGameStarted => isGameStarted'
  BY <1>1, Types DEF isGameStarted
<1>3. view'[c] = view[c] /\ (HasFile(c)' <=> HasFile(c))
  BY DEF HasFile
<1>4. CASE view[c].state = "GONE"
  <2>1. toClient'[c] = toClient[c] /\ toClient[c] = <<>>
    BY <1>1, <1>4 DEF Extended, Announced
  <2> QED BY <1>1, <1>2, <1>3, <1>4, <2>1 DEF Announced, NothingEarly, FileFirst, HasFile
<1>5. CASE view[c].state # "GONE"
  <2> DEFINE q == toClient[c]
             r == q \o msgs
  <2>1. q \in Seq(Message) /\ toClient'[c] = r
    BY <1>1, <1>5, Types DEF Extended
  <2>2. /\ r \in Seq(Message) /\ Len(q) \in Nat /\ DOMAIN q = 1..Len(q) /\ DOMAIN msgs = 1..Len(msgs)
        /\ \A i \in DOMAIN q : i \in DOMAIN r /\ r[i] = q[i]
        /\ \A i \in DOMAIN msgs : Len(q) + i \in DOMAIN r /\ r[Len(q) + i] = msgs[i]
        /\ \A i \in DOMAIN r : \/ i \in DOMAIN q /\ r[i] = q[i]
                               \/ i > Len(q) /\ i - Len(q) \in DOMAIN msgs /\ r[i] = msgs[i - Len(q)]
    <3> HIDE DEF q
    <3> QED BY <2>1, Joined
  <2>3. DOMAIN r = 1..Len(r) /\ Len(r) \in Nat
    BY <2>2
  <2> HIDE DEF r, q
  <2>4. Announced(c)'
    BY <1>1, <1>3, <1>5, <2>1, <2>2 DEF Announced, q
  <2>5. NothingEarly(c)'
    BY <1>1, <1>2, <1>3, <2>1, <2>2 DEF NothingEarly, q
  <2>6. c \in game'.mRulesSent =>
          HasFile(c) \/ \E i \in DOMAIN r : r[i].type = "RULES"
    BY <1>1, <1>5, <2>2 DEF FileFirst, HasFile, q
  <2>7. ASSUME NEW i \in DOMAIN r, r[i].type \in {"GAME_READY", "WIN_NOTIFICATION"}, ~HasFile(c)
        PROVE  \E j \in 1..i - 1 : r[j].type = "RULES"
    <3>0. i \in Int /\ i >= 1
      BY <2>3
    <3>1. CASE i \in DOMAIN q /\ r[i] = q[i]
      <4>1. PICK j \in 1..i - 1 : q[j].type = "RULES"
        BY <1>1, <2>7, <3>1 DEF FileFirst, q
      <4>2. j \in DOMAIN q
        BY <2>2, <3>1, <4>1
      <4> QED BY <2>2, <4>1, <4>2
    <3>2. CASE i > Len(q) /\ i - Len(q) \in DOMAIN msgs /\ r[i] = msgs[i - Len(q)]
      <4>1. CASE \E j \in 1..(i - Len(q)) - 1 : msgs[j].type = "RULES"
        <5>1. PICK j \in 1..(i - Len(q)) - 1 : msgs[j].type = "RULES"
          BY <4>1
        <5>2. j \in DOMAIN msgs /\ Len(q) + j \in 1..i - 1
          BY <2>2, <3>0, <3>2, <5>1
        <5> QED BY <2>2, <5>1, <5>2
      <4>2. CASE c \in game.mRulesSent
        <5>1. PICK j \in DOMAIN q : q[j].type = "RULES"
          BY <1>1, <1>5, <2>7, <4>2 DEF FileFirst, q
        <5>2. j \in 1..i - 1
          BY <2>2, <3>0, <3>2, <5>1
        <5> QED BY <2>2, <5>1, <5>2
      <4>3. view[c].needRules
        BY <2>7 DEF HasFile
      <4> QED BY <3>2, <4>1, <4>2, <4>3, <2>7
    <3> QED BY <2>2, <3>1, <3>2
  <2>8. FileFirst(c)'
    BY <1>1, <1>3, <1>5, <2>1, <2>6, <2>7 DEF FileFirst
  <2> QED BY <2>4, <2>5, <2>8
<1> QED BY <1>4, <1>5

(* What the game object and a client say of each other, when neither changes.  *)
Unheard(c) ==
  /\ view'[c] = view[c] /\ toClient'[c] = toClient[c] /\ desired' = desired
  /\ game'.mRulesSent = game.mRulesSent /\ game'.mPaused = game.mPaused
  /\ game'.mGameValid = game.mGameValid /\ game'.winningPlayer = game.winningPlayer
  /\ mainPc' = "create" => mainPc = "create" /\ gamePc' = gamePc

LEMMA UnheardKept ==
  ASSUME IInv, NEW c \in Client, Unheard(c)
  PROVE  Announced(c)' /\ NothingEarly(c)' /\ FileFirst(c)' /\ Mirrored(c)'
<1>1. Announced(c) /\ NothingEarly(c) /\ FileFirst(c) /\ Mirrored(c)
  BY DEF IInv, ClientInv
<1>2. isGameStarted' <=> isGameStarted
  BY DEF Unheard, isGameStarted
<1>3. Announced(c)'
  BY <1>1 DEF Unheard, Announced
<1>4. NothingEarly(c)'
  BY <1>1, <1>2 DEF Unheard, NothingEarly
<1>5. FileFirst(c)'
  BY <1>1 DEF Unheard, FileFirst, HasFile
<1>6. Mirrored(c)'
  <2>1. Outlook(c)' = Outlook(c)
    BY OutlookIsRead DEF Unheard
  <2>2. Reached(c)' <=> Reached(c)
    BY DEF Unheard, Reached
  <2>3. \A side : winFor(c, side)' = winFor(c, side)
    BY DEF Unheard, winFor, mSwitchedSide, sideOf, leftPlayer
  <2> QED BY <1>1, <1>2, <2>1, <2>2, <2>3 DEF Unheard, Mirrored
<1> QED BY <1>3, <1>4, <1>5, <1>6

(* A client has sent something that is no answer, or lost some of what he sent. *)
LEMMA UnansweredKept ==
  ASSUME IInv, NEW c \in Client, view'[c].needRules = view[c].needRules,
         view[c].state # "LOBBY" => view'[c].state # "LOBBY",
         game'.mRulesSent = game.mRulesSent, game'.mPacketQueue = game.mPacketQueue,
         \A i \in DOMAIN toServer'[c] :
           \/ i \in DOMAIN toServer[c] /\ toServer'[c][i] = toServer[c][i]
           \/ /\ toServer'[c][i].from = c /\ ~IsAnswer(toServer'[c][i])
              /\ toServer'[c][i].type \in {"PAUSE", "UNPAUSE"} => isGameStarted
  PROVE  PacketsOf(c)' /\ AnswersOnce(c)'
<1>1. PacketsOf(c) /\ AnswersOnce(c)
  BY DEF IInv, ClientInv
<1>2. isGameStarted' <=> isGameStarted
  BY DEF isGameStarted
<1>3. PacketsOf(c)'
  BY <1>1, <1>2 DEF PacketsOf, IsAnswer, IsAnswerOf
<1>4. AnswersOnce(c)'
  BY <1>1, <1>2 DEF AnswersOnce, IsAnswer, IsAnswerOf
<1> QED BY <1>3, <1>4

(* The first packet of a client reaches the game object, or is thrown away; or *)
(* a packet of another client, or of the server itself, does.                  *)
LEMMA QueuedKept ==
  ASSUME IInv, NEW c \in Client, NEW p \in Packet, view' = view,
         game'.mRulesSent = game.mRulesSent,
         game'.mPacketQueue \in {game.mPacketQueue, Append(game.mPacketQueue, p)},
         \/ /\ toServer[c] # <<>> /\ toServer'[c] = Tail(toServer[c])
            /\ p = Head(toServer[c])
         \/ /\ toServer'[c] = toServer[c] /\ ~IsAnswerOf(p, c)
            /\ p.type \in {"PAUSE", "UNPAUSE"} => isGameStarted
  PROVE  PacketsOf(c)' /\ AnswersOnce(c)'
<1>1. PacketsOf(c) /\ AnswersOnce(c) /\ TypeOK
  BY DEF IInv, ClientInv
<1>2. isGameStarted' <=> isGameStarted
  BY DEF isGameStarted
<1> DEFINE s == toServer[c]
           q == game.mPacketQueue
<1>3. s \in Seq(Packet) /\ q \in Seq(Packet)
  BY <1>1, Types
<1>4. /\ Len(q) \in Nat /\ DOMAIN q = 1..Len(q)
      /\ DOMAIN Append(q, p) = 1..Len(q) + 1 /\ Append(q, p)[Len(q) + 1] = p
      /\ \A i \in DOMAIN q : Append(q, p)[i] = q[i]
  BY <1>3
<1>5. s # <<>> =>
        /\ DOMAIN s = 1..Len(s) /\ Len(s) \in Nat /\ 1 \in DOMAIN s /\ Head(s) = s[1]
        /\ \A i \in DOMAIN Tail(s) : i \in Int /\ i + 1 \in DOMAIN s /\ i + 1 # 1 /\ Tail(s)[i] = s[i + 1]
  BY <1>3
<1> DEFINE s1 == toServer'[c]
           q1 == game'.mPacketQueue
<1>6. \A i \in DOMAIN q1 : \/ i \in DOMAIN q /\ q1[i] = q[i]
                           \/ i = Len(q) + 1 /\ q1[i] = p /\ i \notin DOMAIN q
  BY <1>4
<1>7. CASE s # <<>> /\ s1 = Tail(s) /\ p = Head(s)
  <2>1. \A i \in DOMAIN s1 : i \in Int /\ i + 1 \in DOMAIN s /\ i + 1 # 1 /\ s1[i] = s[i + 1]
    BY <1>5, <1>7
  <2>2. 1 \in DOMAIN s /\ p = s[1]
    BY <1>5, <1>7
  <2>3. PacketsOf(c)'
    <3> HIDE DEF s1, q1
    <3>1. \A i \in DOMAIN s1 : /\ s1[i].from = c
                               /\ IsAnswer(s1[i]) => s1[i].needRules = view[c].needRules
                               /\ s1[i].type \in {"PAUSE", "UNPAUSE"} => isGameStarted
      BY <1>1, <2>1 DEF PacketsOf
    <3>2. \A i \in DOMAIN q1 : /\ IsAnswerOf(q1[i], c) => q1[i].needRules = view[c].needRules
                               /\ q1[i].type \in {"PAUSE", "UNPAUSE"} => isGameStarted
      BY <1>1, <1>6, <2>2 DEF PacketsOf, IsAnswerOf
    <3> QED BY <3>1, <3>2, <1>2 DEF PacketsOf, s1, q1
  <2>4. AnswersOnce(c)'
    <3> HIDE DEF s1, q1
    <3>1. \A i, j \in DOMAIN s1 : IsAnswer(s1[i]) /\ IsAnswer(s1[j]) => i = j
      BY <1>1, <2>1 DEF AnswersOnce
    <3>2. \A i, j \in DOMAIN q1 : IsAnswerOf(q1[i], c) /\ IsAnswerOf(q1[j], c) => i = j
      BY <1>1, <1>6, <2>2 DEF AnswersOnce, IsAnswerOf
    <3>3. \A i \in DOMAIN s1, j \in DOMAIN q1 : ~(IsAnswer(s1[i]) /\ IsAnswerOf(q1[j], c))
      BY <1>1, <1>6, <2>1, <2>2 DEF AnswersOnce, IsAnswerOf
    <3>4. c \in game.mRulesSent \/ view[c].state = "LOBBY" =>
            /\ \A i \in DOMAIN s1 : ~IsAnswer(s1[i])
            /\ \A i \in DOMAIN q1 : ~IsAnswerOf(q1[i], c)
      BY <1>1, <1>6, <2>1, <2>2 DEF AnswersOnce, IsAnswerOf
    <3> QED BY <3>1, <3>2, <3>3, <3>4, <1>1 DEF AnswersOnce, s1, q1
  <2> QED BY <2>3, <2>4
<1>8. CASE s1 = s /\ ~IsAnswerOf(p, c) /\ (p.type \in {"PAUSE", "UNPAUSE"} => isGameStarted)
  <2> HIDE DEF s1, q1
  <2>1. \A i \in DOMAIN q1 : /\ IsAnswerOf(q1[i], c) => i \in DOMAIN q /\ q1[i] = q[i]
                             /\ q1[i].type \in {"PAUSE", "UNPAUSE"} => isGameStarted
    BY <1>1, <1>6, <1>8 DEF PacketsOf
  <2>2. PacketsOf(c)'
    BY <1>1, <1>2, <1>8, <2>1 DEF PacketsOf, s1, q1
  <2>3. AnswersOnce(c)'
    BY <1>1, <1>8, <2>1 DEF AnswersOnce, s1, q1
  <2> QED BY <2>2, <2>3
<1> QED BY <1>7, <1>8

(* The game object takes the first packet off its list.                        *)
LEMMA TakenKept ==
  ASSUME IInv, NEW c \in Client, view' = view, toServer' = toServer,
         game.mPacketQueue # <<>>, game'.mPacketQueue = Tail(game.mPacketQueue),
         game'.mRulesSent \in SUBSET Client, game.mRulesSent \subseteq game'.mRulesSent,
         c \in game'.mRulesSent => c \in game.mRulesSent \/ IsAnswerOf(Head(game.mPacketQueue), c)
  PROVE  PacketsOf(c)' /\ AnswersOnce(c)'
<1>1. PacketsOf(c) /\ AnswersOnce(c) /\ TypeOK
  BY DEF IInv, ClientInv
<1>2. isGameStarted => isGameStarted'
  BY DEF isGameStarted
<1> DEFINE q  == game.mPacketQueue
           q1 == game'.mPacketQueue
<1>3. /\ 1 \in DOMAIN q /\ Head(q) = q[1]
      /\ \A i \in DOMAIN q1 : i \in Int /\ i + 1 \in DOMAIN q /\ i + 1 # 1 /\ q1[i] = q[i + 1]
  <2>1. q \in Seq(Packet)
    BY <1>1, Types
  <2> QED BY <2>1
<1>4. PacketsOf(c)'
  BY <1>1, <1>2, <1>3 DEF PacketsOf
<1>5. AnswersOnce(c)'
  <2> HIDE DEF q1
  <2>1. \A i, j \in DOMAIN q1 : IsAnswerOf(q1[i], c) /\ IsAnswerOf(q1[j], c) => i = j
    BY <1>1, <1>3 DEF AnswersOnce
  <2>2. \A i \in DOMAIN toServer[c], j \in DOMAIN q1 :
          ~(IsAnswer(toServer[c][i]) /\ IsAnswerOf(q1[j], c))
    BY <1>1, <1>3 DEF AnswersOnce
  <2>3. ASSUME c \in game'.mRulesSent \/ view[c].state = "LOBBY"
        PROVE  /\ \A i \in DOMAIN toServer[c] : ~IsAnswer(toServer[c][i])
               /\ \A i \in DOMAIN q1 : ~IsAnswerOf(q1[i], c)
    <3>1. CASE c \in game.mRulesSent \/ view[c].state = "LOBBY"
      BY <1>1, <1>3, <3>1 DEF AnswersOnce
    <3>2. CASE IsAnswerOf(q[1], c)
      BY <1>1, <1>3, <3>2 DEF AnswersOnce
    <3> QED BY <1>3, <2>3, <3>1, <3>2
  <2>4. c \in game'.mRulesSent => view[c].state # "LOBBY"
    BY <1>1, <1>3 DEF AnswersOnce
  <2> QED BY <1>1, <2>1, <2>2, <2>3, <2>4 DEF AnswersOnce, q1
<1> QED BY <1>4, <1>5

-----------------------------------------------------------------------------
(* The server's steps.                                                         *)

Bookkeeping ==
  /\ desired \in [Client -> PlayerSide]
  /\ gamePc \in {"none", "check", "take", "step", "done"}
  /\ mainPc \in {"create", "setLeft", "setRight", "loop", "check", "take"}
  /\ mPlayerMap \subseteq Client /\ assigned \subseteq Client
  /\ mainQueue \in Seq(Client)
  /\ dropped \in BOOLEAN /\ crashed \in BOOLEAN
  /\ requests \in 0..MaxRequests

LEMMA TypeParts ==
  TypeOK' <=> /\ Bookkeeping' /\ game' \in GameState
              /\ toServer' \in [Client -> Seq(Packet)] /\ toClient' \in [Client -> Seq(Message)]
              /\ view' \in [Client -> View]
BY DEF TypeOK, Bookkeeping

LEMMA Bookkept == TypeOK => Bookkeeping
BY DEF TypeOK, Bookkeeping

(* A step that only moves a thread.                                            *)
LEMMA QuietInv ==
  ASSUME IInv, Bookkeeping', UNCHANGED <<desired, game, toServer, toClient, view>>,
         mainPc' = "create" => mainPc = "create" /\ gamePc' = gamePc
  PROVE  IInv'
<1>1. TypeOK'
  BY TypeParts DEF IInv, TypeOK
<1>2. Sound'
  BY DEF IInv, Sound, isGameStarted
<1>3. ASSUME NEW c \in Client
      PROVE  ClientInv(c)'
  <2>1. Unheard(c)
    BY DEF Unheard
  <2> QED BY <2>1, UnheardKept, UnansweredKept DEF ClientInv
<1> QED BY <1>1, <1>2, <1>3 DEF IInv

LEMMA TakenFields ==
  ASSUME TypeOK, game.mPacketQueue # <<>>
  PROVE  /\ [game EXCEPT !.mPacketQueue = Tail(@)] \in GameState
         /\ Head(game.mPacketQueue) \in Packet
         /\ Tail(game.mPacketQueue) \in Seq(Packet)
<1>1. game.mPacketQueue \in Seq(Packet)
  BY Types
<1>2. Tail(game.mPacketQueue) \in Seq(Packet) /\ Head(game.mPacketQueue) \in Packet
  BY <1>1
<1> HIDE <1>1
<1> QED BY <1>2 DEF TypeOK, GameState

(* What a client will believe when more has been sent to him.                  *)
LEMMA OutlookSent ==
  ASSUME IInv, NEW c \in Client, view' = view, Reached(c), view[c].state # "LOBBY",
         NEW a \in Message, NEW b \in Message
  PROVE  /\ Outlook(c) \in LateView
         /\ toClient'[c] = Extended(c, <<>>) => Outlook(c)' = Outlook(c)
         /\ toClient'[c] = Extended(c, <<a>>) => Outlook(c)' = receive(Outlook(c), a)
         /\ toClient'[c] = Extended(c, <<a, b>>) =>
              Outlook(c)' = receive(receive(Outlook(c), a), b)
<1>1. view[c] \in View /\ toClient[c] \in Seq(Message)
  BY Types DEF IInv
<1>2. Outlook(c) = Read(view[c], toClient[c]) /\ Outlook(c)' = Read(view[c], toClient'[c])
  BY OutlookIsRead
<1>3. /\ Read(view[c], toClient[c] \o <<>>) = Read(view[c], toClient[c])
      /\ Read(view[c], toClient[c] \o <<a>>) = receive(Read(view[c], toClient[c]), a)
      /\ Read(view[c], toClient[c] \o <<a, b>>) = receive(receive(Read(view[c], toClient[c]), a), b)
  BY <1>1, ReadSent
<1>4. Read(view[c], toClient[c]) \in LateView
  BY <1>1, ReadLate
<1>5. \A msgs : Extended(c, msgs) = toClient[c] \o msgs
  BY DEF Reached, Extended
<1> QED BY <1>2, <1>3, <1>4, <1>5

(* What the server tells both about a pause, or that a player is gone.         *)
LEMMA BroadcastInv ==
  ASSUME IInv, Bookkeeping', mainPc # "create", mainPc' # "create",
         UNCHANGED <<desired, toServer, view>>, game.mPacketQueue # <<>>,
         NEW p, p = Head(game.mPacketQueue),
         NEW paused \in BOOLEAN, NEW valid \in BOOLEAN,
         game' = [game EXCEPT !.mPacketQueue = Tail(game.mPacketQueue),
                              !.mPaused = paused, !.mGameValid = valid],
         NEW type \in {"PAUSE", "UNPAUSE", "OPPONENT_DISCONNECTED"}, broadcast(type),
         \/ p.type = "PAUSE" /\ type = "PAUSE" /\ paused = TRUE /\ valid = game.mGameValid
         \/ p.type = "UNPAUSE" /\ type = "UNPAUSE" /\ paused = FALSE /\ valid = game.mGameValid
         \/ type = "OPPONENT_DISCONNECTED" /\ valid = FALSE
  PROVE  IInv'
<1>0. TypeOK /\ Sound
  BY DEF IInv
<1>1. Tail(game.mPacketQueue) \in Seq(Packet)
  BY <1>0, TakenFields
<1>2. /\ game' \in GameState /\ game'.mPacketQueue = Tail(game.mPacketQueue)
      /\ game'.mRulesSent = game.mRulesSent /\ game'.winningPlayer = game.winningPlayer
  BY <1>0, <1>1 DEF TypeOK, GameState
<1>3. (game'.mPaused <=> paused) /\ (game'.mGameValid <=> valid)
  BY <1>0 DEF TypeOK, GameState
<1>4. type \in MessageType /\ message(type) \in Message /\ message(type).type = type
      /\ <<message(type)>> \in Seq(Message)
  BY Messages DEF MessageType
<1>5. toClient' \in [Client -> Seq(Message)] /\ \A c \in Client : toClient'[c] = Extended(c, <<message(type)>>)
  BY <1>0, <1>4, BroadcastEffect
<1>6. TypeOK'
  BY <1>0, <1>2, <1>5, TypeParts DEF TypeOK
<1>7. isGameStarted' <=> isGameStarted
  BY <1>2 DEF isGameStarted
<1>8. type \in {"PAUSE", "UNPAUSE"} => isGameStarted
  <2>1. 1 \in DOMAIN game.mPacketQueue /\ p = game.mPacketQueue[1]
    BY <1>0, Types
  <2>2. Host \in Client /\ PacketsOf(Host)
    BY DEF IInv, ClientInv, Client
  <2> QED BY <2>1, <2>2 DEF PacketsOf
<1>9. Sound'
  BY <1>0, <1>2, <1>3, <1>7, <1>8 DEF Sound
<1>10. ASSUME NEW c \in Client
       PROVE  ClientInv(c)'
  <2>1. PacketsOf(c)' /\ AnswersOnce(c)'
    BY <1>0, <1>2, TakenKept, Types
  <2>2. Announced(c)' /\ NothingEarly(c)' /\ FileFirst(c)'
    <3> DEFINE msgs == <<message(type)>>
    <3>1. msgs \in Seq(Message) /\ toClient'[c] = Extended(c, msgs)
      BY <1>4, <1>5
    <3>2. \A i \in DOMAIN msgs : msgs[i].type = type
      BY <1>4
    <3>3. Running(type) => isGameStarted'
      BY <1>7, <1>8 DEF Running
    <3>4. game.mRulesSent \subseteq game'.mRulesSent /\ game'.mRulesSent \subseteq Client
      BY <1>0, <1>2, Types
    <3> HIDE DEF msgs
    <3> QED BY <1>2, <3>1, <3>2, <3>3, <3>4, SentInOrder
  <2>3. Mirrored(c)'
    <3> SUFFICES ASSUME Reached(c)', isGameStarted'
                 PROVE  /\ game'.mGameValid /\ game'.winningPlayer = NO_PLAYER =>
                             Outlook(c)'.state = IF game'.mPaused THEN "PAUSING" ELSE "PLAYING"
                        /\ game'.winningPlayer # NO_PLAYER =>
                             /\ Outlook(c)'.state = "PLAYER_WON"
                             /\ Outlook(c)'.winner = winFor(c, game.winningPlayer)'
      BY DEF Mirrored
    <3>1. Reached(c) /\ isGameStarted /\ Mirrored(c) /\ AnswersOnce(c)
      BY <1>7 DEF Reached, IInv, ClientInv
    <3>2. view[c].state # "LOBBY"
      BY <3>1 DEF AnswersOnce, isGameStarted
    <3>3. Outlook(c)' = receive(Outlook(c), message(type)) /\ Outlook(c) \in LateView
      BY <1>4, <1>5, <3>1, <3>2, OutlookSent
    <3>4. winFor(c, game.winningPlayer)' = winFor(c, game.winningPlayer)
      BY <1>2 DEF winFor, mSwitchedSide, sideOf, leftPlayer
    <3> DEFINE v == Outlook(c)
               w == receive(v, message(type))
    <3>5. /\ w.winner = v.winner
          /\ type = "PAUSE" => w.state = (IF v.state = "PLAYING" THEN "PAUSING" ELSE v.state)
          /\ type = "UNPAUSE" => w.state = (IF v.state = "PAUSING" THEN "PLAYING" ELSE v.state)
          /\ type = "OPPONENT_DISCONNECTED" =>
               w.state = (IF v.state = "PLAYER_WON" THEN v.state ELSE "OPPONENT_DISCONNECTED")
      BY <1>4, <3>3, ReceiveEffect
    <3>6. /\ game.mGameValid /\ game.winningPlayer = NO_PLAYER => v.state \in {"PLAYING", "PAUSING"}
          /\ game.winningPlayer # NO_PLAYER =>
               v.state = "PLAYER_WON" /\ v.winner = winFor(c, game.winningPlayer)
      BY <3>1 DEF Mirrored
    <3> HIDE DEF v, w
    <3>7. Outlook(c)'.state = w.state /\ Outlook(c)'.winner = w.winner
      BY <3>3 DEF v, w
    <3> QED BY <1>2, <1>3, <3>4, <3>5, <3>6, <3>7
  <2> QED BY <2>1, <2>2, <2>3 DEF ClientInv
<1> QED BY <1>6, <1>9, <1>10 DEF IInv

(* What the server tells one of the two about the replay.                      *)
LEMMA ReplayInv ==
  ASSUME IInv, Bookkeeping', mainPc # "create", mainPc' # "create",
         UNCHANGED <<desired, toServer, view>>, game.mPacketQueue # <<>>,
         game' = [game EXCEPT !.mPacketQueue = Tail(game.mPacketQueue)],
         NEW p \in Client, SendTo(p, <<message("REPLAY")>>)
  PROVE  IInv'
<1>0. TypeOK /\ Sound
  BY DEF IInv
<1>1. Tail(game.mPacketQueue) \in Seq(Packet)
  BY <1>0, TakenFields
<1>2. /\ game' \in GameState /\ game'.mPacketQueue = Tail(game.mPacketQueue)
      /\ game'.mRulesSent = game.mRulesSent /\ game'.winningPlayer = game.winningPlayer
      /\ game'.mPaused = game.mPaused /\ game'.mGameValid = game.mGameValid
  BY <1>0, <1>1 DEF TypeOK, GameState
<1> DEFINE m == message("REPLAY")
           msgs == [c \in Client |-> IF c = p THEN <<m>> ELSE <<>>]
<1>3. m \in Message /\ m.type = "REPLAY" /\ <<m>> \in Seq(Message) /\ <<>> \in Seq(Message)
  BY Messages DEF MessageType
<1>4. SendAll(msgs) /\ \A c \in Client : msgs[c] \in Seq(Message) /\ msgs[c] \in {<<m>>, <<>>}
  BY <1>3 DEF SendTo
<1> HIDE DEF m, msgs
<1>5. toClient' \in [Client -> Seq(Message)] /\ \A c \in Client : toClient'[c] = Extended(c, msgs[c])
  BY <1>0, <1>4, SendAllEffect
<1>6. TypeOK'
  BY <1>0, <1>2, <1>5, TypeParts DEF TypeOK
<1>7. isGameStarted' <=> isGameStarted
  BY <1>2 DEF isGameStarted
<1>8. Sound'
  BY <1>0, <1>2, <1>7 DEF Sound
<1>9. ASSUME NEW c \in Client
      PROVE  ClientInv(c)'
  <2>1. PacketsOf(c)' /\ AnswersOnce(c)'
    BY <1>0, <1>2, TakenKept, Types
  <2> DEFINE own == msgs[c]
  <2>2. own \in Seq(Message) /\ toClient'[c] = Extended(c, own) /\ own \in {<<m>>, <<>>}
    BY <1>4, <1>5
  <2> HIDE DEF own
  <2>3. \A i \in DOMAIN own : own[i].type = "REPLAY"
    BY <1>3, <2>2
  <2>4. game.mRulesSent \subseteq game'.mRulesSent /\ game'.mRulesSent \subseteq Client
    BY <1>0, <1>2, Types
  <2>5. Announced(c)' /\ NothingEarly(c)' /\ FileFirst(c)'
    BY <1>2, <2>2, <2>3, <2>4, SentInOrder DEF Running
  <2>6. Mirrored(c)'
    <3> SUFFICES ASSUME Reached(c)', isGameStarted'
                 PROVE  Mirrored(c)'
      BY DEF Mirrored
    <3>1. Reached(c) /\ isGameStarted /\ Mirrored(c) /\ AnswersOnce(c)
      BY <1>7 DEF Reached, IInv, ClientInv
    <3>2. view[c].state # "LOBBY"
      BY <3>1 DEF AnswersOnce, isGameStarted
    <3>3. Outlook(c) \in LateView /\ Outlook(c)' \in {Outlook(c), receive(Outlook(c), m)}
      BY <1>3, <2>2, <3>1, <3>2, OutlookSent
    <3>4. Outlook(c)'.state = Outlook(c).state /\ Outlook(c)'.winner = Outlook(c).winner
      BY <1>3, <3>3, ReceiveEffect
    <3>5. winFor(c, game.winningPlayer)' = winFor(c, game.winningPlayer)
      BY <1>2 DEF winFor, mSwitchedSide, sideOf, leftPlayer
    <3> QED BY <1>2, <3>1, <3>4, <3>5 DEF Mirrored
  <2> QED BY <2>1, <2>5, <2>6 DEF ClientInv
<1> QED BY <1>6, <1>8, <1>9 DEF IInv

(* An answer of a player about the rules.                                      *)
LEMMA RulesInv ==
  ASSUME IInv, Bookkeeping', mainPc # "create", mainPc' # "create",
         UNCHANGED <<desired, toServer, view>>, game.mPacketQueue # <<>>,
         Head(game.mPacketQueue).type = "RULES", processPacket(Head(game.mPacketQueue))
  PROVE  IInv'
<1> DEFINE p     == Head(game.mPacketQueue)
           sent  == game.mRulesSent \cup {p.from}
           file  == IF p.needRules THEN <<message("RULES")>> ELSE <<>>
           ready == IF sent = Client THEN <<message("GAME_READY")>> ELSE <<>>
           msgs  == [c \in Client |-> IF c = p.from THEN file \o ready ELSE ready]
<1>0. TypeOK /\ Sound
  BY DEF IInv
<1>1. p \in Packet /\ p.from \in Client /\ sent \in SUBSET Client
  BY <1>0, TakenFields, Types DEF Packet
<1>2. SendAll(msgs) /\ game' = [game EXCEPT !.mPacketQueue = Tail(game.mPacketQueue), !.mRulesSent = sent]
  <2>1. SendAll(msgs) /\ game' = [[game EXCEPT !.mPacketQueue = Tail(game.mPacketQueue)] EXCEPT !.mRulesSent = sent]
    BY DEF processPacket, allRulesSent
  <2> QED BY <2>1, <1>0 DEF TypeOK, GameState
<1>3. Tail(game.mPacketQueue) \in Seq(Packet)
  BY <1>0, TakenFields
<1>4. /\ game' \in GameState /\ game'.mPacketQueue = Tail(game.mPacketQueue)
      /\ game'.mRulesSent = sent /\ game'.winningPlayer = game.winningPlayer
      /\ game'.mPaused = game.mPaused /\ game'.mGameValid = game.mGameValid
  BY <1>0, <1>1, <1>2, <1>3 DEF TypeOK, GameState
<1> DEFINE a == message("RULES")
           b == message("GAME_READY")
<1>5. a \in Message /\ a.type = "RULES" /\ b \in Message /\ b.type = "GAME_READY"
  BY Messages DEF MessageType
<1>6. ASSUME NEW c \in Client
      PROVE  /\ msgs[c] \in Seq(Message)
             /\ sent = Client => msgs[c] \in {<<b>>, <<a, b>>}
             /\ sent # Client => msgs[c] \in {<<>>, <<a>>}
             /\ c = p.from /\ p.needRules => msgs[c] \in {<<a>>, <<a, b>>}
  <2>1. <<>> \in Seq(Message) /\ <<a>> \in Seq(Message) /\ <<b>> \in Seq(Message) /\ <<a, b>> \in Seq(Message)
    BY <1>5
  <2>2. <<>> \o <<b>> = <<b>> /\ <<a>> \o <<>> = <<a>> /\ <<a>> \o <<b>> = <<a, b>> /\ <<>> \o <<>> = <<>>
    <3> HIDE DEF a, b
    <3>1. \A s \in Seq(Message) : s \o <<>> = s /\ <<>> \o s = s
      OBVIOUS
    <3>2. <<a>> \o <<b>> = <<a, b>>
      BY <1>5, Pair
    <3> QED BY <2>1, <3>1, <3>2
  <2>3. msgs[c] = IF c = p.from THEN file \o ready ELSE ready
    OBVIOUS
  <2>4. file = (IF p.needRules THEN <<a>> ELSE <<>>) /\ ready = (IF sent = Client THEN <<b>> ELSE <<>>)
    OBVIOUS
  <2> HIDE DEF file, ready, a, b, msgs, sent, p
  <2> QED BY <2>1, <2>2, <2>3, <2>4
<1>7. toClient' \in [Client -> Seq(Message)] /\ \A c \in Client : toClient'[c] = Extended(c, msgs[c])
  <2> HIDE DEF msgs
  <2> QED BY <1>0, <1>2, <1>6, SendAllEffect
<1>8. TypeOK'
  BY <1>0, <1>4, <1>7, TypeParts DEF TypeOK
<1>9. (isGameStarted' <=> sent = Client) /\ (isGameStarted => isGameStarted')
  BY <1>1, <1>4 DEF isGameStarted
<1>10. Sound'
  BY <1>0, <1>4, <1>9 DEF Sound
<1>11. IsAnswerOf(p, p.from) /\ 1 \in DOMAIN game.mPacketQueue /\ p = game.mPacketQueue[1]
  <2>1. 1 \in DOMAIN game.mPacketQueue /\ p = game.mPacketQueue[1]
    BY <1>0, Types
  <2> QED BY <2>1 DEF IsAnswerOf, IsAnswer
<1>12. p.from \notin game.mRulesSent /\ view[p.from].state # "LOBBY" /\ p.needRules = view[p.from].needRules
  <2>1. PacketsOf(p.from) /\ AnswersOnce(p.from)
    BY <1>1 DEF IInv, ClientInv
  <2> HIDE DEF p
  <2> QED BY <2>1, <1>11 DEF PacketsOf, AnswersOnce
<1>13. ~isGameStarted
  BY <1>1, <1>12 DEF isGameStarted
<1> HIDE DEF msgs, sent, file, ready, a, b, p
<1>14. ASSUME NEW c \in Client
       PROVE  ClientInv(c)'
  <2>1. PacketsOf(c)' /\ AnswersOnce(c)'
    <3>1. c \in sent => c \in game.mRulesSent \/ IsAnswerOf(p, c)
      BY <1>11 DEF sent
    <3>2. game.mRulesSent \subseteq sent
      BY DEF sent
    <3> QED BY <1>1, <1>4, <3>1, <3>2, TakenKept DEF p
  <2> DEFINE own == msgs[c]
  <2>2. own \in Seq(Message) /\ toClient'[c] = Extended(c, own)
    BY <1>6, <1>7
  <2>3. /\ sent = Client => own \in {<<b>>, <<a, b>>}
        /\ sent # Client => own \in {<<>>, <<a>>}
        /\ c = p.from /\ view[c].needRules => own \in {<<a>>, <<a, b>>}
    BY <1>6, <1>12
  <2> HIDE DEF own
  <2>4. game.mRulesSent \subseteq game'.mRulesSent /\ game'.mRulesSent \subseteq Client
    BY <1>1, <1>4 DEF sent
  <2>5. c = p.from /\ view[c].needRules => 1 \in DOMAIN own /\ own[1].type = "RULES"
    BY <1>5, <2>3
  <2>6. ASSUME NEW i \in DOMAIN own
        PROVE  /\ own[i].type # "RULES_CHECKSUM"
               /\ Running(own[i].type) => isGameStarted'
               /\ own[i].type \in {"GAME_READY", "WIN_NOTIFICATION"} =>
                    i \in Int /\ (1 \in DOMAIN own /\ own[1].type = "RULES" => i > 1) /\ sent = Client
    BY <1>5, <1>9, <2>3 DEF Running
  <2>7. ASSUME NEW i \in DOMAIN own, own[i].type \in {"GAME_READY", "WIN_NOTIFICATION"}
        PROVE  \/ c \in game.mRulesSent
               \/ ~view[c].needRules
               \/ \E j \in 1..i - 1 : own[j].type = "RULES"
    <3>1. CASE c \in game.mRulesSent
      BY <3>1
    <3>2. CASE c = p.from
      BY <2>5, <2>6, <2>7, <3>2
    <3> QED BY <2>6, <2>7, <3>1, <3>2 DEF sent
  <2>8. c \in game'.mRulesSent =>
          \/ c \in game.mRulesSent
          \/ ~view[c].needRules
          \/ \E j \in DOMAIN own : own[j].type = "RULES"
    BY <1>4, <2>5 DEF sent
  <2>9. Announced(c)' /\ NothingEarly(c)' /\ FileFirst(c)'
    BY <2>2, <2>4, <2>6, <2>7, <2>8, SentInOrder
  <2>10. Mirrored(c)'
    <3> SUFFICES ASSUME Reached(c)', isGameStarted'
                 PROVE  Mirrored(c)'
      BY DEF Mirrored
    <3>1. Reached(c) /\ view[c].state # "LOBBY"
      <4>1. AnswersOnce(c)' /\ c \in game'.mRulesSent
        BY <2>1 DEF isGameStarted
      <4> QED BY <4>1 DEF Reached, AnswersOnce
    <3>2. Outlook(c) \in LateView
          /\ Outlook(c)' \in {receive(Outlook(c), b), receive(receive(Outlook(c), a), b)}
      BY <1>5, <1>9, <2>2, <2>3, <3>1, OutlookSent
    <3>3. receive(Outlook(c), a) \in LateView
      BY <1>5, <3>2, ReceiveLate
    <3>4. Outlook(c)'.state = "PLAYING"
      BY <1>5, <3>2, <3>3, ReceiveEffect
    <3>5. game'.winningPlayer = NO_PLAYER /\ (game'.mGameValid => ~game'.mPaused)
      BY <1>0, <1>4, <1>13 DEF Sound
    <3> QED BY <3>4, <3>5 DEF Mirrored
  <2> QED BY <2>1, <2>9, <2>10 DEF ClientInv
<1> QED BY <1>8, <1>10, <1>14 DEF IInv

(* The game object takes a packet, whichever thread it is.                     *)
LEMMA TakePacketInv ==
  ASSUME IInv, Bookkeeping', mainPc # "create", mainPc' # "create",
         UNCHANGED <<desired, toServer, view>>, TakePacket
  PROVE  IInv'
<1> DEFINE p == Head(game.mPacketQueue)
<1>0. TypeOK
  BY DEF IInv
<1>1. CASE game.mPacketQueue = <<>>
  <2>1. UNCHANGED <<game, toClient>>
    BY <1>1 DEF TakePacket
  <2> QED BY <2>1, QuietInv
<1>2. CASE game.mPacketQueue # <<>>
  <2>0. processPacket(p) /\ p \in Packet
    BY <1>0, <1>2, TakenFields DEF TakePacket
  <2>1. p.from \in Client /\ p.type \in {"LOST", "PAUSE", "UNPAUSE", "REPLAY", "RULES"}
    BY <2>0 DEF Packet
  <2>2. /\ game.mPaused \in BOOLEAN /\ game.mGameValid \in BOOLEAN
        /\ game = [mGameValid |-> game.mGameValid, mPacketQueue |-> game.mPacketQueue,
                   mRulesSent |-> game.mRulesSent, mPaused |-> game.mPaused,
                   winningPlayer |-> game.winningPlayer]
    BY <1>0 DEF TypeOK, GameState
  <2>3. CASE p.type = "LOST"
    <3>1. /\ broadcast("OPPONENT_DISCONNECTED")
          /\ game' = [game EXCEPT !.mPacketQueue = Tail(game.mPacketQueue),
                                  !.mPaused = TRUE, !.mGameValid = FALSE]
      BY <2>0, <2>2, <2>3 DEF processPacket
    <3> QED BY <1>2, <3>1, BroadcastInv
  <2>4. CASE p.type = "PAUSE"
    <3>1. /\ broadcast("PAUSE")
          /\ game' = [game EXCEPT !.mPacketQueue = Tail(game.mPacketQueue),
                                  !.mPaused = TRUE, !.mGameValid = game.mGameValid]
      BY <2>0, <2>2, <2>4 DEF processPacket, acknowledge
    <3> QED BY <1>2, <2>2, <2>4, <3>1, BroadcastInv
  <2>5. CASE p.type = "UNPAUSE"
    <3>1. /\ broadcast("UNPAUSE")
          /\ game' = [game EXCEPT !.mPacketQueue = Tail(game.mPacketQueue),
                                  !.mPaused = FALSE, !.mGameValid = game.mGameValid]
      BY <2>0, <2>2, <2>5 DEF processPacket, acknowledge
    <3> QED BY <1>2, <2>2, <2>5, <3>1, BroadcastInv
  <2>6. CASE p.type = "REPLAY"
    <3>1. /\ SendTo(p.from, <<message("REPLAY")>>)
          /\ game' = [game EXCEPT !.mPacketQueue = Tail(game.mPacketQueue)]
      BY <2>0, <2>6 DEF processPacket
    <3> QED BY <1>2, <2>1, <3>1, ReplayInv
  <2>7. CASE p.type = "RULES"
    BY <1>2, <2>0, <2>7, RulesInv
  <2> QED BY <2>1, <2>3, <2>4, <2>5, <2>6, <2>7
<1> QED BY <1>1, <1>2

(* The match goes on; somebody may win it.                                     *)
LEMMA StepInv ==
  ASSUME IInv, Bookkeeping', mainPc # "create", mainPc' # "create",
         UNCHANGED <<desired, toServer, view>>, step
  PROVE  IInv'
<1>0. TypeOK /\ Sound
  BY DEF IInv
<1>1. CASE UNCHANGED <<game, toClient>>
  BY <1>1, QuietInv
<1>2. CASE ~UNCHANGED <<game, toClient>>
  <2>1. isGameStarted
    BY <1>2 DEF step
  <2> DEFINE told(w) == [c \in Client |-> <<[type |-> "WIN_NOTIFICATION", side |-> winFor(c, w)]>>]
  <2>2. PICK winning \in IF game.winningPlayer = NO_PLAYER
                         THEN PlayerSide \cup {NO_PLAYER} ELSE {game.winningPlayer} :
          IF winning = NO_PLAYER
          THEN UNCHANGED <<game, toClient>>
          ELSE /\ game' = [game EXCEPT !.winningPlayer = winning, !.mPaused = TRUE]
               /\ SendAll(told(winning))
    BY <1>2 DEF step
  <2>3. winning # NO_PLAYER /\ winning \in PlayerSide
    BY <1>0, <1>2, <2>2, Types
  <2> DEFINE win(c) == [type |-> "WIN_NOTIFICATION", side |-> winFor(c, winning)]
             msgs == [c \in Client |-> <<win(c)>>]
  <2>4. SendAll(msgs) /\ game' = [game EXCEPT !.winningPlayer = winning, !.mPaused = TRUE]
    BY <2>2, <2>3
  <2>5. \A c \in Client : win(c) \in Message /\ win(c).type = "WIN_NOTIFICATION"
                          /\ win(c).side = winFor(c, winning)
    BY <1>0, <2>3, Sides DEF Message
  <2>6. \A c \in Client : msgs[c] = <<win(c)>> /\ msgs[c] \in Seq(Message)
    BY <2>5
  <2> HIDE DEF win, msgs
  <2>7. toClient' \in [Client -> Seq(Message)] /\ \A c \in Client : toClient'[c] = Extended(c, <<win(c)>>)
    BY <1>0, <2>4, <2>6, SendAllEffect
  <2>8. /\ game' \in GameState /\ game'.mPacketQueue = game.mPacketQueue
        /\ game'.mRulesSent = game.mRulesSent /\ game'.winningPlayer = winning
    BY <1>0, <2>3, <2>4 DEF TypeOK, GameState
  <2>9. TypeOK'
    BY <1>0, <2>7, <2>8, TypeParts DEF TypeOK
  <2>10. isGameStarted'
    BY <2>1, <2>8 DEF isGameStarted
  <2>11. Sound'
    BY <2>10 DEF Sound
  <2>12. ASSUME NEW c \in Client
         PROVE  ClientInv(c)'
    <3>1. PacketsOf(c)' /\ AnswersOnce(c)'
      BY <2>8, UnansweredKept
    <3>2. Announced(c)' /\ NothingEarly(c)' /\ FileFirst(c)'
      <4> DEFINE own == <<win(c)>>
      <4>1. own \in Seq(Message) /\ toClient'[c] = Extended(c, own)
            /\ \A i \in DOMAIN own : own[i].type = "WIN_NOTIFICATION"
        BY <2>5, <2>7
      <4>2. game.mRulesSent \subseteq game'.mRulesSent /\ game'.mRulesSent \subseteq Client
            /\ c \in game.mRulesSent
        BY <1>0, <2>1, <2>8, Types DEF isGameStarted
      <4> HIDE DEF own
      <4> QED BY <2>10, <4>1, <4>2, SentInOrder
    <3>3. Mirrored(c)'
      <4> SUFFICES ASSUME Reached(c)'
                   PROVE  Mirrored(c)'
        BY DEF Mirrored
      <4>1. Reached(c) /\ AnswersOnce(c) /\ c \in game.mRulesSent
        BY <2>1 DEF Reached, IInv, ClientInv, isGameStarted
      <4>2. view[c].state # "LOBBY"
        BY <4>1 DEF AnswersOnce
      <4>3. Outlook(c) \in LateView /\ Outlook(c)' = receive(Outlook(c), win(c))
        BY <2>5, <2>7, <4>1, <4>2, OutlookSent
      <4>4. Outlook(c)'.state = "PLAYER_WON" /\ Outlook(c)'.winner = winFor(c, winning)
        BY <2>5, <4>3, ReceiveEffect
      <4>5. winFor(c, game.winningPlayer)' = winFor(c, winning)
        BY <2>8 DEF winFor, mSwitchedSide, sideOf, leftPlayer
      <4> QED BY <2>3, <2>8, <4>4, <4>5 DEF Mirrored
    <3> QED BY <3>1, <3>2, <3>3 DEF ClientInv
  <2> QED BY <2>9, <2>11, <2>12 DEF IInv
<1> QED BY <1>1, <1>2

LEMMA GameThreadInv ==
  ASSUME IInv, GameThread
  PROVE  IInv'
<1>1. UNCHANGED <<desired, mainPc, toServer, view>>
  BY DEF GameThread
<1>2. gamePc # "none" /\ mainPc # "create" /\ mainPc' # "create"
  <2>1. gamePc # "none"
    BY DEF GameThread, GameCheck, GameTake, GameStep
  <2>2. Host \in Client /\ Announced(Host)
    BY DEF IInv, ClientInv, Client
  <2> QED BY <1>1, <2>1, <2>2 DEF Announced
<1>3. Bookkeeping'
  <2>1. Bookkeeping
    BY Bookkept DEF IInv
  <2>2. UNCHANGED <<desired, mainPc, mPlayerMap, assigned, mainQueue, dropped, requests>>
    BY DEF GameThread
  <2>3. gamePc' \in {"none", "check", "take", "step", "done"}
    BY DEF GameThread, GameCheck, GameTake, GameStep
  <2>4. crashed' \in BOOLEAN
    <3>1. crashed' = crashed \/ crashed' = TRUE
      BY DEF GameThread, GameCheck, GameTake, GameStep, TakePacket
    <3> QED BY <2>1, <3>1 DEF Bookkeeping
  <2>5. dropped' \in BOOLEAN
    BY <2>1, <2>2 DEF Bookkeeping
  <2> QED BY <2>1, <2>2, <2>3, <2>4, <2>5 DEF Bookkeeping
<1>4. CASE GameCheck
  BY <1>1, <1>2, <1>3, <1>4, QuietInv DEF GameCheck
<1>5. CASE GameTake
  BY <1>1, <1>2, <1>3, <1>5, TakePacketInv DEF GameTake
<1>6. CASE GameStep
  BY <1>1, <1>2, <1>3, <1>6, StepInv DEF GameStep
<1> QED BY <1>4, <1>5, <1>6 DEF GameThread

(* The game is announced.                                                      *)
LEMMA MainCreateInv ==
  ASSUME IInv, Bookkeeping', MainCreate, UNCHANGED <<desired, toServer, view>>
  PROVE  IInv'
<1>0. TypeOK /\ Sound
  BY DEF IInv
<1>1. mainPc = "create" /\ mainPc' = "setLeft" /\ game' = game /\ broadcast("RULES_CHECKSUM")
  BY DEF MainCreate
<1> DEFINE m == message("RULES_CHECKSUM")
<1>2. m \in Message /\ m.type = "RULES_CHECKSUM" /\ "RULES_CHECKSUM" \in MessageType
  BY Messages DEF MessageType
<1>3. toClient' \in [Client -> Seq(Message)] /\ \A c \in Client : toClient'[c] = Extended(c, <<m>>)
  BY <1>0, <1>1, <1>2, BroadcastEffect
<1> HIDE DEF m
<1>4. TypeOK'
  BY <1>0, <1>1, <1>3, TypeParts DEF TypeOK
<1>5. Sound' /\ (isGameStarted' <=> isGameStarted)
  BY <1>0, <1>1 DEF Sound, isGameStarted
<1>6. ASSUME NEW c \in Client
      PROVE  ClientInv(c)'
  <2>1. PacketsOf(c)' /\ AnswersOnce(c)'
    BY <1>1, UnansweredKept
  <2>2. Announced(c) /\ NothingEarly(c) /\ FileFirst(c) /\ AnswersOnce(c)
    BY DEF IInv, ClientInv
  <2>3. toClient[c] = <<>> /\ view[c].state \in {"LOBBY", "GONE"}
    BY <1>1, <2>2 DEF Announced
  <2>4. \/ view[c].state = "LOBBY" /\ toClient'[c] = <<m>>
        \/ view[c].state = "GONE" /\ toClient'[c] = <<>>
    <3>1. <<>> \o <<m>> = <<m>>
      BY <1>2
    <3> QED BY <1>3, <2>3, <3>1 DEF Extended
  <2>5. \A i \in DOMAIN toClient'[c] :
          i = 1 /\ view[c].state = "LOBBY" /\ toClient'[c][i].type = "RULES_CHECKSUM"
    BY <1>2, <2>4
  <2>6. Announced(c)' /\ NothingEarly(c)'
    BY <1>1, <1>5, <2>2, <2>3, <2>4, <2>5 DEF Announced, NothingEarly, Running
  <2>7. c \in game.mRulesSent => view[c].state = "GONE"
    BY <2>2, <2>3 DEF AnswersOnce
  <2>8. FileFirst(c)'
    BY <1>1, <2>3, <2>5, <2>7 DEF FileFirst
  <2>9. Mirrored(c)'
    BY <1>5, <2>3, <2>7 DEF Mirrored, Reached, isGameStarted
  <2> QED BY <2>1, <2>6, <2>8, <2>9 DEF ClientInv
<1> QED BY <1>4, <1>5, <1>6 DEF IInv

(* A packet comes in, for the game object or for the main thread.              *)
LEMMA QueueInv ==
  ASSUME IInv, Bookkeeping', UNCHANGED <<desired, gamePc, mainPc, toClient, view>>,
         NEW c \in Client, NEW p \in Packet,
         game' \in {game, [game EXCEPT !.mPacketQueue = Append(game.mPacketQueue, p)]},
         \/ /\ toServer[c] # <<>> /\ p = Head(toServer[c])
            /\ toServer' = [toServer EXCEPT ![c] = Tail(toServer[c])]
         \/ toServer' = toServer /\ p = packet(c, "LOST")
  PROVE  IInv'
<1>0. TypeOK /\ Sound
  BY DEF IInv
<1>1. game.mPacketQueue \in Seq(Packet)
  BY <1>0, Types
<1>2. Append(game.mPacketQueue, p) \in Seq(Packet)
  BY <1>1
<1>3. /\ game' \in GameState
      /\ game'.mPacketQueue \in {game.mPacketQueue, Append(game.mPacketQueue, p)}
      /\ game'.mRulesSent = game.mRulesSent /\ game'.winningPlayer = game.winningPlayer
      /\ game'.mPaused = game.mPaused /\ game'.mGameValid = game.mGameValid
  BY <1>0, <1>2 DEF TypeOK, GameState
<1>4. toServer' \in [Client -> Seq(Packet)]
  <2>1. toServer[c] # <<>> => Tail(toServer[c]) \in Seq(Packet)
    <3>1. toServer[c] \in Seq(Packet)
      BY <1>0, Types
    <3> QED BY <3>1
  <2> QED BY <1>0, <2>1 DEF TypeOK
<1>5. TypeOK'
  BY <1>0, <1>3, <1>4, TypeParts DEF TypeOK
<1>6. Sound'
  BY <1>0, <1>3 DEF Sound, isGameStarted
<1>7. p.from = c /\ (p.type \in {"PAUSE", "UNPAUSE"} => isGameStarted)
  <2>1. CASE p = packet(c, "LOST")
    BY <2>1 DEF packet
  <2>2. CASE toServer[c] # <<>> /\ p = Head(toServer[c])
    <3>1. toServer[c] \in Seq(Packet) /\ PacketsOf(c)
      BY <1>0, Types DEF IInv, ClientInv
    <3>2. 1 \in DOMAIN toServer[c] /\ p = toServer[c][1]
      BY <2>2, <3>1
    <3> QED BY <3>1, <3>2 DEF PacketsOf
  <2> QED BY <2>1, <2>2
<1>8. ASSUME NEW d \in Client
      PROVE  ClientInv(d)'
  <2>1. Unheard(d)
    BY <1>3 DEF Unheard
  <2>2. PacketsOf(d)' /\ AnswersOnce(d)'
    <3>1. CASE /\ d = c /\ toServer[c] # <<>> /\ p = Head(toServer[c])
               /\ toServer' = [toServer EXCEPT ![c] = Tail(toServer[c])]
      <4>1. toServer[d] # <<>> /\ p = Head(toServer[d]) /\ toServer'[d] = Tail(toServer[d])
        BY <1>0, <3>1 DEF TypeOK
      <4> QED BY <1>3, <4>1, QueuedKept
    <3>2. CASE toServer'[d] = toServer[d] /\ ~IsAnswerOf(p, d)
      BY <1>3, <1>7, <3>2, QueuedKept
    <3>3. d # c => toServer'[d] = toServer[d] /\ ~IsAnswerOf(p, d)
      BY <1>0, <1>7 DEF TypeOK, IsAnswerOf
    <3>4. toServer' = toServer /\ p = packet(c, "LOST") => ~IsAnswerOf(p, d)
      BY DEF IsAnswerOf, IsAnswer, packet
    <3> QED BY <3>1, <3>2, <3>3, <3>4
  <2> QED BY <2>1, <2>2, UnheardKept DEF ClientInv
<1> QED BY <1>5, <1>6, <1>8 DEF IInv

LEMMA MainThreadInv ==
  ASSUME IInv, MainThread
  PROVE  IInv'
<1>0. TypeOK /\ Bookkeeping
  BY Bookkept DEF IInv
<1>1. UNCHANGED <<desired, toServer, view, requests>> /\ (dropped' <=> dropped)
  BY <1>0 DEF MainThread
<1>2. Bookkeeping'
  <2>1. /\ gamePc' \in {"none", "check", "take", "step", "done"}
        /\ mainPc' \in {"create", "setLeft", "setRight", "loop", "check", "take"}
    BY <1>0 DEF MainThread, MainCreate, MainSetGame, MainLost, MainUpdate, MainCheck, MainTake,
                Bookkeeping
  <2>2. mPlayerMap' \subseteq Client /\ assigned' \subseteq Client
    <3>1. mPlayerMap' \subseteq mPlayerMap
      BY DEF MainThread, MainCreate, MainSetGame, MainLost, MainUpdate, MainCheck, MainTake
    <3>2. assigned' \in {assigned, {leftPlayer}, Client}
      BY DEF MainThread, MainCreate, MainSetGame, MainLost, MainUpdate, MainCheck, MainTake
    <3> QED BY <1>0, <3>1, <3>2 DEF Bookkeeping, leftPlayer, Client
  <2>3. mainQueue' \in Seq(Client)
    <3>1. mainQueue' = mainQueue \/ (mainQueue # <<>> /\ mainQueue' = Tail(mainQueue))
      BY DEF MainThread, MainCreate, MainSetGame, MainLost, MainUpdate, MainCheck, MainTake
    <3>2. mainQueue \in Seq(Client)
      BY <1>0 DEF Bookkeeping
    <3> QED BY <3>1, <3>2
  <2>4. crashed' \in BOOLEAN
    <3>1. crashed' = crashed \/ crashed' = TRUE
      BY DEF MainThread, MainCreate, MainSetGame, MainLost, MainUpdate, MainCheck, MainTake, TakePacket
    <3> QED BY <1>0, <3>1 DEF Bookkeeping
  <2>5. dropped' \in BOOLEAN
    BY <1>0 DEF MainThread, Bookkeeping
  <2> QED BY <1>0, <1>1, <2>1, <2>2, <2>3, <2>4, <2>5 DEF Bookkeeping
<1>3. CASE MainCreate
  BY <1>1, <1>2, <1>3, MainCreateInv
<1>4. CASE MainSetGame
  <2>1. UNCHANGED <<game, gamePc, toClient>> /\ mainPc' # "create"
    BY <1>4 DEF MainSetGame
  <2> QED BY <1>1, <1>2, <2>1, QuietInv
<1>5. CASE MainLost
  <2> DEFINE c == Head(mainQueue)
             p == packet(c, "LOST")
  <2>1. c \in Client
    <3>1. mainQueue \in Seq(Client) /\ mainQueue # <<>>
      BY <1>0, <1>5 DEF Bookkeeping, MainLost
    <3> QED BY <3>1
  <2>2. p \in Packet
    BY <2>1 DEF packet, Packet
  <2>3. UNCHANGED <<gamePc, mainPc, toClient>>
        /\ game' \in {game, [game EXCEPT !.mPacketQueue = Append(game.mPacketQueue, p)]}
    BY <1>5 DEF MainLost, injectLost
  <2> HIDE DEF c
  <2> QED BY <1>1, <1>2, <2>1, <2>2, <2>3, QueueInv
<1>6. CASE MainUpdate \/ MainCheck
  <2>1. UNCHANGED <<game, gamePc, toClient>> /\ mainPc' # "create"
    BY <1>6 DEF MainUpdate, MainCheck
  <2> QED BY <1>1, <1>2, <2>1, QuietInv
<1>7. CASE MainTake
  <2>1. mainPc # "create" /\ mainPc' # "create" /\ TakePacket
    BY <1>7 DEF MainTake
  <2> QED BY <1>1, <1>2, <2>1, TakePacketInv
<1> QED BY <1>3, <1>4, <1>5, <1>6, <1>7 DEF MainThread

LEMMA QueuePacketInv ==
  ASSUME IInv, NEW c \in Client, QueuePacket(c)
  PROVE  IInv'
<1>0. TypeOK /\ Bookkeeping
  BY Bookkept DEF IInv
<1> DEFINE p == Head(toServer[c])
<1>1. toServer[c] # <<>> /\ toServer[c] \in Seq(Packet) /\ p \in Packet
  <2>1. toServer[c] # <<>> /\ toServer[c] \in Seq(Packet)
    BY <1>0, Types DEF QueuePacket
  <2> QED BY <2>1
<1>2. toServer' = [toServer EXCEPT ![c] = Tail(toServer[c])]
  BY DEF QueuePacket
<1>3. UNCHANGED <<desired, gamePc, mainPc, mPlayerMap, assigned, toClient, view, requests>>
  BY DEF QueuePacket
<1>4. game' \in {game, [game EXCEPT !.mPacketQueue = Append(game.mPacketQueue, p)]}
  BY DEF QueuePacket
<1>5. Bookkeeping'
  <2>1. mainQueue' \in {mainQueue, Append(mainQueue, c)}
    BY DEF QueuePacket
  <2>2. mainQueue \in Seq(Client)
    BY <1>0 DEF Bookkeeping
  <2>3. mainQueue' \in Seq(Client)
    BY <2>1, <2>2
  <2>4. dropped' \in BOOLEAN
    <3>1. dropped' = dropped \/ dropped' = TRUE
      BY DEF QueuePacket
    <3> QED BY <1>0, <3>1 DEF Bookkeeping
  <2>5. crashed' \in BOOLEAN
    BY <1>0 DEF QueuePacket, Bookkeeping
  <2> QED BY <1>0, <1>3, <2>3, <2>4, <2>5 DEF Bookkeeping
<1> HIDE DEF p
<1>6. p = Head(toServer[c])
  BY DEF p
<1> QED BY <1>1, <1>2, <1>3, <1>4, <1>5, <1>6, QueueInv

-----------------------------------------------------------------------------
(* The clients' steps.                                                         *)

(* What one client does leaves the other one alone.                            *)
LEMMA OtherKept ==
  ASSUME IInv, NEW d \in Client, UNCHANGED <<desired, game, gamePc, mainPc>>,
         view'[d] = view[d], toClient'[d] = toClient[d], toServer'[d] = toServer[d]
  PROVE  ClientInv(d)'
<1>1. Unheard(d)
  BY DEF Unheard
<1> QED BY <1>1, UnheardKept, UnansweredKept DEF ClientInv

(* The dialogs a client opens and closes, and what he asks the server for.     *)
LEMMA DialogInv ==
  ASSUME IInv, Bookkeeping', UNCHANGED <<desired, game, gamePc, mainPc, toClient>>,
         NEW c \in Client, NEW w \in View, view' = [view EXCEPT ![c] = w],
         w.state = view[c].state, w.winner = view[c].winner,
         w.needRules = view[c].needRules, w.hasRules = view[c].hasRules,
         w.swallowed = view[c].swallowed,
         NEW type \in {"PAUSE", "UNPAUSE", "REPLAY"},
         type # "REPLAY" => isGameStarted,
         toServer' \in {toServer, [toServer EXCEPT ![c] = Append(toServer[c], packet(c, type))]}
  PROVE  IInv'
<1>0. TypeOK /\ Sound /\ view[c] \in View /\ toServer[c] \in Seq(Packet) /\ toClient[c] \in Seq(Message)
  BY Types DEF IInv
<1>1. packet(c, type) \in Packet /\ packet(c, type).from = c /\ packet(c, type).type = type
  BY DEF packet, Packet
<1> DEFINE s == Append(toServer[c], packet(c, type))
<1>2. /\ s \in Seq(Packet)
      /\ \A i \in DOMAIN s : (i \in DOMAIN toServer[c] /\ s[i] = toServer[c][i]) \/ s[i] = packet(c, type)
  BY <1>0, <1>1
<1> HIDE DEF s
<1>3. toServer' \in {toServer, [toServer EXCEPT ![c] = s]}
  BY DEF s
<1>4. TypeOK'
  BY <1>0, <1>2, <1>3, TypeParts DEF TypeOK
<1>5. Sound'
  BY <1>0 DEF Sound, isGameStarted
<1>6. ASSUME NEW d \in Client
      PROVE  ClientInv(d)'
  <2>1. CASE d # c
    <3>1. view'[d] = view[d] /\ toServer'[d] = toServer[d]
      BY <1>0, <1>3, <2>1 DEF TypeOK
    <3> QED BY <3>1, OtherKept
  <2>2. CASE d = c
    <3>1. view'[c] = w /\ toServer'[c] \in {toServer[c], s}
      BY <1>0, <1>3 DEF TypeOK
    <3>2. \A i \in DOMAIN toServer'[c] :
            \/ i \in DOMAIN toServer[c] /\ toServer'[c][i] = toServer[c][i]
            \/ /\ toServer'[c][i].from = c /\ ~IsAnswer(toServer'[c][i])
               /\ toServer'[c][i].type \in {"PAUSE", "UNPAUSE"} => isGameStarted
      BY <1>1, <1>2, <3>1 DEF IsAnswer
    <3>3. PacketsOf(c)' /\ AnswersOnce(c)'
      BY <3>1, <3>2, UnansweredKept
    <3>4. Announced(c) /\ NothingEarly(c) /\ FileFirst(c) /\ Mirrored(c) /\ AnswersOnce(c)
      BY DEF IInv, ClientInv
    <3>5. (isGameStarted' <=> isGameStarted) /\ (HasFile(c)' <=> HasFile(c))
      BY <3>1 DEF isGameStarted, HasFile
    <3>6. Announced(c)' /\ NothingEarly(c)'
      BY <3>1, <3>4, <3>5 DEF Announced, NothingEarly
    <3>7. FileFirst(c)'
      BY <3>1, <3>4, <3>5 DEF FileFirst
    <3>8. Mirrored(c)'
      <4> SUFFICES ASSUME Reached(c)', isGameStarted'
                   PROVE  Mirrored(c)'
        BY DEF Mirrored
      <4>1. Reached(c) /\ isGameStarted /\ view[c].state # "LOBBY"
        BY <3>1, <3>4, <3>5 DEF Reached, AnswersOnce, isGameStarted
      <4>2. Outlook(c)' = Read(w, toClient[c]) /\ Outlook(c) = Read(view[c], toClient[c])
        BY <3>1, OutlookIsRead
      <4>3. Outlook(c)'.state = Outlook(c).state /\ Outlook(c)'.winner = Outlook(c).winner
        BY <1>0, <4>1, <4>2, ReadDialogs
      <4>4. winFor(c, game.winningPlayer)' = winFor(c, game.winningPlayer)
        BY DEF winFor, mSwitchedSide, sideOf, leftPlayer
      <4> QED BY <3>4, <4>1, <4>3, <4>4 DEF Mirrored
    <3> QED BY <2>2, <3>3, <3>6, <3>7, <3>8 DEF ClientInv
  <2> QED BY <2>1, <2>2
<1> QED BY <1>4, <1>5, <1>6 DEF IInv

(* The NetworkGameState takes over.                                            *)
LEMMA SwitchInv ==
  ASSUME IInv, NEW c \in Client, SwitchState(c)
  PROVE  IInv'
<1> DEFINE w == [view[c] EXCEPT !.state = "WAITING_FOR_OPPONENT"]
<1>0. TypeOK /\ Sound /\ view[c] \in View /\ toClient[c] \in Seq(Message) /\ Bookkeeping
  BY Types, Bookkept DEF IInv
<1>1. /\ view[c].state = "SWITCHING" /\ view' = [view EXCEPT ![c] = w]
      /\ UNCHANGED <<desired, game, gamePc, mainPc, mPlayerMap, assigned, mainQueue, toServer, toClient, requests>>
  BY DEF SwitchState, server
<1>2. /\ w \in View /\ w.state = "WAITING_FOR_OPPONENT" /\ w.needRules = view[c].needRules
      /\ w.hasRules = view[c].hasRules /\ w.swallowed = view[c].swallowed
      /\ w = TakenOver(view[c]) /\ TakenOver(w) = w
  BY <1>0, <1>1 DEF View, ClientState, TakenOver
<1> HIDE DEF w
<1>3. Bookkeeping'
  BY <1>0, <1>1 DEF SwitchState, server, Bookkeeping
<1>4. TypeOK'
  BY <1>0, <1>1, <1>2, <1>3, TypeParts DEF TypeOK
<1>5. Sound'
  BY <1>0, <1>1 DEF Sound, isGameStarted
<1>6. ASSUME NEW d \in Client
      PROVE  ClientInv(d)'
  <2>1. CASE d # c
    <3>1. view'[d] = view[d]
      BY <1>0, <1>1, <2>1 DEF TypeOK
    <3> QED BY <1>1, <3>1, OtherKept
  <2>2. CASE d = c
    <3>1. view'[c] = w
      BY <1>0, <1>1 DEF TypeOK
    <3>2. PacketsOf(c)' /\ AnswersOnce(c)'
      BY <1>1, <1>2, <3>1, UnansweredKept
    <3>3. Announced(c) /\ NothingEarly(c) /\ FileFirst(c) /\ Mirrored(c)
      BY DEF IInv, ClientInv
    <3>4. (isGameStarted' <=> isGameStarted) /\ (HasFile(c)' <=> HasFile(c))
      BY <1>1, <1>2, <3>1 DEF isGameStarted, HasFile
    <3>5. Announced(c)' /\ NothingEarly(c)'
      BY <1>1, <1>2, <3>1, <3>3, <3>4 DEF Announced, NothingEarly
    <3>6. FileFirst(c)'
      BY <1>1, <1>2, <3>1, <3>3, <3>4 DEF FileFirst
    <3>7. Outlook(c)' = Outlook(c)
      BY <1>1, <1>2, <3>1, OutlookIsRead DEF Read
    <3>8. winFor(c, game.winningPlayer)' = winFor(c, game.winningPlayer)
      BY <1>1 DEF winFor, mSwitchedSide, sideOf, leftPlayer
    <3>9. Mirrored(c)'
      BY <1>1, <1>2, <3>1, <3>3, <3>4, <3>7, <3>8 DEF Mirrored, Reached
    <3> QED BY <2>2, <3>2, <3>5, <3>6, <3>9 DEF ClientInv
  <2> QED BY <2>1, <2>2
<1> QED BY <1>4, <1>5, <1>6 DEF IInv

(* A client is gone, with what was under way to him and some of what he sent.  *)
LEMMA DisconnectInv ==
  ASSUME IInv, NEW c \in Client, Disconnect(c)
  PROVE  IInv'
<1> DEFINE w == [view[c] EXCEPT !.state = "GONE", !.mSaveReplay = FALSE]
<1>0. TypeOK /\ Sound /\ view[c] \in View /\ toServer[c] \in Seq(Packet) /\ Bookkeeping
  BY Types, Bookkept DEF IInv
<1>1. /\ view' = [view EXCEPT ![c] = w] /\ toClient' = [toClient EXCEPT ![c] = <<>>]
      /\ UNCHANGED <<desired, game, gamePc, mainPc, mPlayerMap, assigned, mainQueue, requests>>
  BY DEF Disconnect, server
<1>2. /\ w \in View /\ w.state = "GONE" /\ w.needRules = view[c].needRules
      /\ w.hasRules = view[c].hasRules /\ w.swallowed = view[c].swallowed
  BY <1>0, <1>1 DEF View, ClientState
<1> HIDE DEF w
<1>3. PICK n \in 0..Len(toServer[c]) :
        toServer' = [toServer EXCEPT ![c] = Append(SubSeq(toServer[c], 1, n), packet(c, "LOST"))]
  BY DEF Disconnect
<1> DEFINE s == Append(SubSeq(toServer[c], 1, n), packet(c, "LOST"))
<1>4. packet(c, "LOST") \in Packet /\ packet(c, "LOST").from = c /\ packet(c, "LOST").type = "LOST"
  BY DEF packet, Packet
<1>5. /\ s \in Seq(Packet)
      /\ \A i \in DOMAIN s : (i \in DOMAIN toServer[c] /\ s[i] = toServer[c][i]) \/ s[i] = packet(c, "LOST")
  <2> DEFINE kept == SubSeq(toServer[c], 1, n)
  <2>1. n \in Nat /\ n <= Len(toServer[c]) /\ Len(toServer[c]) \in Nat
    BY <1>0
  <2>2. kept \in Seq(Packet) /\ Len(kept) = n /\ \A i \in 1..n : kept[i] = toServer[c][i]
    BY <1>0, <2>1
  <2> HIDE DEF kept
  <2>3. /\ Append(kept, packet(c, "LOST")) \in Seq(Packet)
        /\ \A i \in DOMAIN Append(kept, packet(c, "LOST")) :
             \/ i \in 1..n /\ Append(kept, packet(c, "LOST"))[i] = kept[i]
             \/ Append(kept, packet(c, "LOST"))[i] = packet(c, "LOST")
    BY <1>4, <2>1, <2>2
  <2>4. DOMAIN toServer[c] = 1..Len(toServer[c]) /\ 1..n \subseteq DOMAIN toServer[c]
    BY <1>0, <2>1
  <2> QED BY <2>2, <2>3, <2>4 DEF kept
<1>6. toServer' = [toServer EXCEPT ![c] = s]
  BY <1>3
<1> HIDE DEF s
<1>7. Bookkeeping'
  BY <1>0, <1>1 DEF Disconnect, server, Bookkeeping
<1>8. TypeOK'
  <2>1. <<>> \in Seq(Message)
    OBVIOUS
  <2> QED BY <1>0, <1>1, <1>2, <1>5, <1>6, <1>7, <2>1, TypeParts DEF TypeOK
<1>9. Sound'
  BY <1>0, <1>1 DEF Sound, isGameStarted
<1>10. ASSUME NEW d \in Client
       PROVE  ClientInv(d)'
  <2>1. CASE d # c
    <3>1. view'[d] = view[d] /\ toServer'[d] = toServer[d] /\ toClient'[d] = toClient[d]
      BY <1>0, <1>1, <1>6, <2>1 DEF TypeOK
    <3> QED BY <1>1, <3>1, OtherKept
  <2>2. CASE d = c
    <3>1. view'[c] = w /\ toServer'[c] = s /\ toClient'[c] = <<>>
      BY <1>0, <1>1, <1>6 DEF TypeOK
    <3>2. PacketsOf(c)' /\ AnswersOnce(c)'
      BY <1>1, <1>2, <1>4, <1>5, <3>1, UnansweredKept DEF IsAnswer
    <3>3. Announced(c)
      BY DEF IInv, ClientInv
    <3>4. Announced(c)' /\ NothingEarly(c)' /\ FileFirst(c)'
      BY <1>1, <1>2, <3>1, <3>3 DEF Announced, NothingEarly, FileFirst
    <3>5. Mirrored(c)'
      BY <1>2, <3>1 DEF Mirrored, Reached
    <3> QED BY <2>2, <3>2, <3>4, <3>5 DEF ClientInv
  <2> QED BY <2>1, <2>2
<1> QED BY <1>8, <1>9, <1>10 DEF IInv

(* A client reads a packet.                                                    *)
LEMMA ReceiveInv ==
  ASSUME IInv, NEW c \in Client, ClientReceive(c)
  PROVE  IInv'
<1> DEFINE q   == toClient[c]
           msg == Head(q)
           v   == view[c]
           w   == receive(v, msg)
           p   == [from |-> c, type |-> "RULES", needRules |-> v.needRules]
<1>0. /\ TypeOK /\ Sound /\ Bookkeeping /\ v \in View /\ q \in Seq(Message) /\ toServer[c] \in Seq(Packet)
      /\ PacketsOf(c) /\ AnswersOnce(c) /\ Announced(c) /\ NothingEarly(c) /\ FileFirst(c) /\ Mirrored(c)
  BY Types, Bookkept DEF IInv, ClientInv
<1>1. /\ q # <<>> /\ view' = [view EXCEPT ![c] = w] /\ toClient' = [toClient EXCEPT ![c] = Tail(q)]
      /\ toServer' = IF v.state = "LOBBY" THEN [toServer EXCEPT ![c] = Append(toServer[c], p)]
                     ELSE toServer
      /\ UNCHANGED <<desired, game, gamePc, mainPc, mPlayerMap, assigned, mainQueue, requests>>
  BY DEF ClientReceive, server
<1>2. v.state # "GONE"
  BY <1>0, <1>1 DEF Announced
<1>3. msg \in Message /\ Tail(q) \in Seq(Message) /\ 1 \in DOMAIN q /\ msg = q[1]
  BY <1>0, <1>1
<1>4. \A i \in DOMAIN Tail(q) : i \in Int /\ i + 1 \in DOMAIN q /\ i + 1 # 1 /\ Tail(q)[i] = q[i + 1]
  BY <1>0, <1>1
<1>5. p \in Packet
  BY <1>0 DEF Packet, View
<1>6. \/ /\ v.state = "LOBBY" /\ w.state = "SWITCHING" /\ w.hasRules = v.hasRules
         /\ w.swallowed = v.swallowed
      \/ v.state = "SWITCHING" /\ w.state = "SWITCHING" /\ w.swallowed = TRUE
      \/ v \in LateView /\ w \in LateView /\ w.swallowed = v.swallowed
  <2>1. CASE v.state = "LOBBY"
    BY <1>0, <2>1 DEF receive, View
  <2>2. CASE v.state = "SWITCHING"
    BY <1>0, <2>2 DEF receive, View
  <2>3. CASE v.state \notin {"LOBBY", "SWITCHING"}
    <3>1. v \in LateView
      BY <1>0, <2>3 DEF LateView
    <3>2. w \in LateView
      BY <1>3, <3>1, ReceiveLate
    <3>3. w.swallowed = v.swallowed
      BY <1>3, <3>1, ReceiveEffect
    <3> QED BY <3>1, <3>2, <3>3
  <2> QED BY <2>1, <2>2, <2>3
<1>7. w \in View /\ w.needRules = v.needRules /\ w.state # "LOBBY"
  <2>1. CASE v.state \in {"LOBBY", "SWITCHING"}
    BY <1>0, <2>1 DEF receive, View, ClientState
  <2>2. CASE v \in LateView
    <3>1. w \in LateView /\ w.needRules = v.needRules
      BY <1>3, <2>2, ReceiveLate, ReceiveEffect
    <3> QED BY <3>1 DEF LateView
  <2> QED BY <1>6, <2>1, <2>2
<1> HIDE DEF w, p
<1>8. toServer' \in [Client -> Seq(Packet)]
  <2>1. Append(toServer[c], p) \in Seq(Packet)
    BY <1>0, <1>5
  <2> QED BY <1>0, <1>1, <2>1 DEF TypeOK
<1>9. Bookkeeping'
  BY <1>0, <1>1 DEF ClientReceive, server, Bookkeeping
<1>10. TypeOK'
  BY <1>0, <1>1, <1>3, <1>7, <1>8, <1>9, TypeParts DEF TypeOK
<1>11. Sound' /\ (isGameStarted' <=> isGameStarted)
  BY <1>0, <1>1 DEF Sound, isGameStarted
<1>12. view'[c] = w /\ toClient'[c] = Tail(q)
       /\ toServer'[c] = IF v.state = "LOBBY" THEN Append(toServer[c], p) ELSE toServer[c]
  BY <1>0, <1>1 DEF TypeOK
<1>13. PacketsOf(c)' /\ AnswersOnce(c)'
  <2>1. CASE v.state = "LOBBY"
    <3> DEFINE s == Append(toServer[c], p)
    <3>1. \A i \in DOMAIN s : \/ i \in DOMAIN toServer[c] /\ s[i] = toServer[c][i]
                              \/ s[i] = p /\ i = Len(toServer[c]) + 1
      BY <1>0, <1>5
    <3>2. p.from = c /\ p.type = "RULES" /\ p.needRules = v.needRules
      BY DEF p
    <3> HIDE DEF s
    <3>3. toServer'[c] = s
      BY <1>12, <2>1 DEF s
    <3>4. /\ \A i \in DOMAIN toServer[c] : ~IsAnswer(toServer[c][i])
          /\ \A i \in DOMAIN game.mPacketQueue : ~IsAnswerOf(game.mPacketQueue[i], c)
          /\ c \notin game.mRulesSent
      BY <1>0, <2>1 DEF AnswersOnce
    <3>5. PacketsOf(c)'
      BY <1>0, <1>1, <1>7, <1>11, <1>12, <3>1, <3>2, <3>3 DEF PacketsOf
    <3>6. \A i \in DOMAIN s : IsAnswer(s[i]) => i = Len(toServer[c]) + 1
      BY <3>1, <3>4
    <3>7. AnswersOnce(c)'
      BY <1>1, <1>7, <1>12, <3>3, <3>4, <3>6 DEF AnswersOnce
    <3> QED BY <3>5, <3>7
  <2>2. CASE v.state # "LOBBY"
    BY <1>1, <1>7, <1>12, <2>2, UnansweredKept
  <2> QED BY <2>1, <2>2
<1>14. Announced(c)'
  <2>1. w.state # "GONE"
    BY <1>2, <1>3, <1>6, ReceiveGone DEF w
  <2>2. mainPc # "create"
    BY <1>0, <1>1 DEF Announced
  <2>3. \A i \in DOMAIN Tail(q) : Tail(q)[i].type # "RULES_CHECKSUM"
    BY <1>0, <1>4 DEF Announced
  <2> QED BY <1>1, <1>12, <2>1, <2>2, <2>3 DEF Announced
<1>15. v.state = "LOBBY" => ~isGameStarted
  BY <1>0 DEF AnswersOnce, isGameStarted
<1> DEFINE Playing == {"PLAYING", "PAUSING", "PLAYER_WON"}
<1>16. w.state \in Playing =>
         \/ v.state \in Playing
         \/ v \in LateView /\ msg.type \in {"GAME_READY", "WIN_NOTIFICATION"}
  <2>1. CASE v.state \in {"LOBBY", "SWITCHING"}
    BY <1>6, <2>1 DEF LateView
  <2>2. CASE v \in LateView
    BY <1>3, <2>2, ReceivePlaying DEF w
  <2> QED BY <1>6, <2>1, <2>2
<1>17. NothingEarly(c)'
  <2>1. w.state \in Playing => isGameStarted
    BY <1>0, <1>3, <1>16 DEF NothingEarly, Running
  <2>2. \A i \in DOMAIN Tail(q) : Running(Tail(q)[i].type) => isGameStarted
    BY <1>0, <1>4 DEF NothingEarly
  <2> QED BY <1>11, <1>12, <2>1, <2>2 DEF NothingEarly
<1>18. HasFile(c) \/ msg.type = "RULES" \/ v.state = "LOBBY" => HasFile(c)' \/ v.state = "LOBBY"
  <2>1. CASE v.state = "SWITCHING"
    BY <1>6, <1>12, <2>1 DEF HasFile, LateView
  <2>2. CASE v \in LateView
    <3>1. /\ v.hasRules \/ msg.type = "RULES" => w.hasRules
          /\ v.swallowed => w.swallowed
      BY <1>3, <2>2, ReceiveFile DEF w
    <3>2. HasFile(c)' <=> (w.needRules => w.hasRules \/ w.swallowed)
      BY <1>12 DEF HasFile
    <3> QED BY <1>7, <3>1, <3>2 DEF HasFile
  <2> QED BY <1>6, <2>1, <2>2
<1>19. FileFirst(c)'
  <2>1. CASE v.state = "LOBBY"
    <3>1. w.state = "SWITCHING" /\ c \notin game.mRulesSent /\ ~isGameStarted
      BY <1>0, <1>6, <1>15, <2>1 DEF LateView, AnswersOnce
    <3>2. \A i \in DOMAIN Tail(q) : Tail(q)[i].type \notin {"GAME_READY", "WIN_NOTIFICATION"}
      BY <1>0, <1>4, <3>1 DEF NothingEarly, Running
    <3> QED BY <1>1, <1>12, <3>1, <3>2 DEF FileFirst
  <2>2. CASE v.state # "LOBBY"
    <3>1. HasFile(c) \/ msg.type = "RULES" => HasFile(c)'
      BY <1>18, <2>2
    <3>2. w.state \in Playing => HasFile(c)'
      <4>1. msg.type \in {"GAME_READY", "WIN_NOTIFICATION"} => HasFile(c)
        BY <1>0, <1>3 DEF FileFirst
      <4> QED BY <1>0, <1>16, <3>1, <4>1 DEF FileFirst
    <3>3. c \in game.mRulesSent => HasFile(c)' \/ \E i \in DOMAIN Tail(q) : Tail(q)[i].type = "RULES"
      <4>1. ASSUME NEW i \in DOMAIN q, q[i].type = "RULES"
            PROVE  HasFile(c)' \/ \E k \in DOMAIN Tail(q) : Tail(q)[k].type = "RULES"
        <5>1. CASE i = 1
          BY <1>3, <3>1, <4>1, <5>1
        <5>2. CASE i # 1
          <6>1. i - 1 \in DOMAIN Tail(q) /\ Tail(q)[i - 1] = q[i]
            BY <1>0, <1>1, <5>2
          <6> QED BY <4>1, <6>1
        <5> QED BY <5>1, <5>2
      <4> QED BY <1>0, <1>2, <3>1, <4>1 DEF FileFirst
    <3>4. ASSUME NEW i \in DOMAIN Tail(q), Tail(q)[i].type \in {"GAME_READY", "WIN_NOTIFICATION"}
          PROVE  HasFile(c)' \/ \E j \in 1..i - 1 : Tail(q)[j].type = "RULES"
      <4>1. HasFile(c) \/ \E j \in 1..(i + 1) - 1 : q[j].type = "RULES"
        BY <1>0, <1>4, <3>4 DEF FileFirst
      <4>2. ASSUME NEW j \in 1..(i + 1) - 1, q[j].type = "RULES"
            PROVE  HasFile(c)' \/ \E k \in 1..i - 1 : Tail(q)[k].type = "RULES"
        <5>1. CASE j = 1
          BY <1>3, <3>1, <4>2, <5>1
        <5>2. CASE j # 1
          <6>1. i \in 1..Len(Tail(q)) /\ Len(Tail(q)) = Len(q) - 1 /\ Len(q) \in Nat
            BY <1>0, <1>1
          <6>2. j - 1 \in 1..i - 1 /\ j - 1 \in 1..Len(q) - 1
            BY <5>2, <6>1
          <6>3. Tail(q)[j - 1] = q[j]
            BY <1>0, <1>1, <6>2
          <6> QED BY <4>2, <6>2, <6>3
        <5> QED BY <5>1, <5>2
      <4> QED BY <3>1, <4>1, <4>2
    <3>5. \A i \in DOMAIN Tail(q) : Tail(q)[i].type \in {"GAME_READY", "WIN_NOTIFICATION"} =>
            HasFile(c)' \/ \E j \in 1..i - 1 : Tail(q)[j].type = "RULES"
      BY <3>4
    <3> DEFINE file == HasFile(c)'
    <3>6. /\ w.state \in Playing => file
          /\ c \in game.mRulesSent => file \/ \E i \in DOMAIN Tail(q) : Tail(q)[i].type = "RULES"
          /\ \A i \in DOMAIN Tail(q) : Tail(q)[i].type \in {"GAME_READY", "WIN_NOTIFICATION"} =>
               file \/ \E j \in 1..i - 1 : Tail(q)[j].type = "RULES"
      BY <3>2, <3>3, <3>5
    <3> DEFINE rest == Tail(q)
    <3>7. game' = game /\ view'[c] = w /\ toClient'[c] = rest
      BY <1>1, <1>12
    <3> HIDE DEF q, msg, rest
    <3> QED BY <3>6, <3>7 DEF FileFirst, rest
  <2> QED BY <2>1, <2>2
<1>20. Mirrored(c)'
  <2> SUFFICES ASSUME Reached(c)', isGameStarted'
               PROVE  Mirrored(c)'
    BY DEF Mirrored
  <2>1. isGameStarted /\ v \in LateView /\ Reached(c)
    BY <1>2, <1>6, <1>11, <1>12, <1>15 DEF Reached
  <2>2. Outlook(c)' = Outlook(c)
    <3>1. Read(v, q) = Read(w, Tail(q))
      BY <1>0, <1>1, <2>1, ReadNext DEF w
    <3> QED BY <1>12, <3>1, OutlookIsRead
  <2>3. winFor(c, game.winningPlayer)' = winFor(c, game.winningPlayer)
    BY <1>1 DEF winFor, mSwitchedSide, sideOf, leftPlayer
  <2> QED BY <1>0, <1>1, <2>1, <2>2, <2>3 DEF Mirrored
<1>21. ASSUME NEW d \in Client
       PROVE  ClientInv(d)'
  <2>1. CASE d # c
    <3>1. view'[d] = view[d] /\ toServer'[d] = toServer[d] /\ toClient'[d] = toClient[d]
      BY <1>0, <1>1, <2>1 DEF TypeOK
    <3> QED BY <1>1, <3>1, OtherKept
  <2> QED BY <2>1, <1>13, <1>14, <1>17, <1>19, <1>20 DEF ClientInv
<1> QED BY <1>10, <1>11, <1>21 DEF IInv

(* What a player asks for.                                                     *)
LEMMA RequestsInv ==
  ASSUME IInv, NEW c \in Client,
         \/ RequestPause(c) \/ RequestUnpause(c) \/ AskForReplay(c) \/ RequestReplay(c)
         \/ CancelReplay(c)
  PROVE  IInv'
<1>0. TypeOK /\ Bookkeeping /\ view[c] \in View /\ NothingEarly(c)
  BY Types, Bookkept DEF IInv, ClientInv
<1>1. UNCHANGED <<desired, game, gamePc, mainPc, mPlayerMap, assigned, mainQueue, toClient>>
  BY DEF RequestPause, RequestUnpause, AskForReplay, RequestReplay, CancelReplay, Request, server
<1>2. Bookkeeping'
  <2>1. requests' = requests \/ (requests < MaxRequests /\ requests' = requests + 1)
    BY DEF RequestPause, RequestUnpause, AskForReplay, RequestReplay, CancelReplay, Request
  <2>2. requests' \in 0..MaxRequests
    BY <1>0, <2>1, MaxRequestsAssumption DEF Bookkeeping
  <2>3. dropped' \in BOOLEAN /\ crashed' \in BOOLEAN
    BY <1>0 DEF Bookkeeping, RequestPause, RequestUnpause, AskForReplay, RequestReplay, CancelReplay,
                Request, server
  <2> QED BY <1>0, <1>1, <2>2, <2>3 DEF Bookkeeping
<1> DEFINE Same(w) == /\ w.state = view[c].state /\ w.winner = view[c].winner
                      /\ w.needRules = view[c].needRules /\ w.hasRules = view[c].hasRules
                      /\ w.swallowed = view[c].swallowed
<1>4. view = [view EXCEPT ![c] = view[c]]
  BY <1>0 DEF TypeOK
<1>5. CASE RequestPause(c)
  <2>1. /\ toServer' = [toServer EXCEPT ![c] = Append(toServer[c], packet(c, "PAUSE"))]
        /\ view' = [view EXCEPT ![c] = view[c]] /\ isGameStarted
    BY <1>0, <1>4, <1>5 DEF RequestPause, Request, NothingEarly
  <2> QED BY <1>0, <1>1, <1>2, <2>1, DialogInv
<1>6. CASE RequestUnpause(c)
  <2>1. /\ toServer' = [toServer EXCEPT ![c] = Append(toServer[c], packet(c, "UNPAUSE"))]
        /\ view' = [view EXCEPT ![c] = view[c]] /\ isGameStarted
    BY <1>0, <1>4, <1>6 DEF RequestUnpause, Request, NothingEarly
  <2> QED BY <1>0, <1>1, <1>2, <2>1, DialogInv
<1>7. CASE AskForReplay(c)
  <2> DEFINE w == [view[c] EXCEPT !.mSaveReplay = TRUE]
  <2>1. w \in View /\ Same(w)
    BY <1>0 DEF View
  <2>2. toServer' = toServer /\ view' = [view EXCEPT ![c] = w]
    BY <1>7 DEF AskForReplay
  <2> HIDE DEF w
  <2> QED BY <1>1, <1>2, <2>1, <2>2, DialogInv
<1>8. CASE RequestReplay(c)
  <2> DEFINE w == [view[c] EXCEPT !.mSaveReplay = FALSE, !.mWaitingForReplay = TRUE]
  <2>1. w \in View /\ Same(w)
    BY <1>0 DEF View
  <2>2. /\ toServer' = [toServer EXCEPT ![c] = Append(toServer[c], packet(c, "REPLAY"))]
        /\ view' = [view EXCEPT ![c] = w]
    BY <1>0, <1>8 DEF RequestReplay, Request, TypeOK
  <2> HIDE DEF w
  <2> QED BY <1>1, <1>2, <2>1, <2>2, DialogInv
<1>9. CASE CancelReplay(c)
  <2> DEFINE w == [view[c] EXCEPT !.mSaveReplay = FALSE, !.mWaitingForReplay = FALSE]
  <2>1. w \in View /\ Same(w)
    BY <1>0 DEF View
  <2>2. toServer' = toServer /\ view' = [view EXCEPT ![c] = w]
    BY <1>0, <1>9 DEF CancelReplay, TypeOK
  <2> HIDE DEF w
  <2> QED BY <1>1, <1>2, <2>1, <2>2, DialogInv
<1> QED BY <1>5, <1>6, <1>7, <1>8, <1>9

LEMMA NextInv ==
  IInv /\ [Next]_vars => IInv'
<1> SUFFICES ASSUME IInv, [Next]_vars
             PROVE  IInv'
  OBVIOUS
<1>1. CASE GameThread
  BY <1>1, GameThreadInv
<1>2. CASE MainThread
  BY <1>2, MainThreadInv
<1>3. ASSUME NEW c \in Client,
             \/ QueuePacket(c) \/ ClientReceive(c) \/ SwitchState(c) \/ Disconnect(c)
             \/ RequestPause(c) \/ RequestUnpause(c)
             \/ AskForReplay(c) \/ RequestReplay(c) \/ CancelReplay(c)
      PROVE  IInv'
  BY <1>3, QueuePacketInv, ReceiveInv, SwitchInv, DisconnectInv, RequestsInv
<1>4. CASE UNCHANGED vars
  <2>1. UNCHANGED <<desired, game, gamePc, mainPc, mPlayerMap, assigned, mainQueue, crashed,
                    dropped, toServer, toClient, view, requests>>
    BY <1>4 DEF vars, server
  <2>2. Bookkeeping'
    BY <2>1, Bookkept DEF IInv, Bookkeeping
  <2> QED BY <2>1, <2>2, QuietInv
<1> QED BY <1>1, <1>2, <1>3, <1>4 DEF Next

-----------------------------------------------------------------------------

LEMMA Invariance == Spec => []IInv
<1>1. Init => IInv
  BY InitInv
<1>2. IInv /\ [Next]_vars => IInv'
  BY NextInv
<1> QED BY <1>1, <1>2, PTL DEF Spec

(* Whatever the two players, the two threads of the server and the network do,  *)
(* and however much is under way, every variable keeps its type; with it, the   *)
(* clients' packet loops handle every message that can arrive.                  *)
THEOREM TypeCorrect == Spec => []TypeOK
<1>1. IInv => TypeOK
  BY DEF IInv
<1> QED BY <1>1, Invariance, PTL

(* A client shows the game only when the game object has both answers about the *)
(* rules, and after the file of the rules if he asked for one                   *)
(* (NetworkGame.cpp:293-330, NetworkState.cpp:197-256).                         *)
THEOREM RulesFirst == Spec => []NobodyPlaysWithoutRules
<1>1. IInv => NobodyPlaysWithoutRules
  BY InvImpliesProperties
<1> QED BY <1>1, Invariance, PTL

(* Each client, when it has read everything that is under way, is paused if and *)
(* only if the server's match is, in whatever order the requests of both        *)
(* players reached the game object.                                             *)
THEOREM PausesAgree == Spec => []PauseMirror
<1>1. IInv => PauseMirror
  BY InvImpliesProperties
<1> QED BY <1>1, Invariance, PTL

(* Each player is told who has won on the side he sees himself on, and no later *)
(* pause, continuation or loss of the opponent takes the result away.           *)
THEOREM ResultStays == Spec => []ResultIsRight
<1>1. IInv => ResultIsRight
  BY InvImpliesProperties
<1> QED BY <1>1, Invariance, PTL

(* The assertion of NetworkState.cpp:251-255 cannot fail: the announcement of   *)
(* the game is read by the LobbyState, never by the NetworkGameState.           *)
ChecksumOnlyInLobby ==
  \A c \in Client :
    toClient[c] # <<>> /\ Head(toClient[c]).type = "RULES_CHECKSUM" => view[c].state = "LOBBY"

(* NetworkGameState never meets a RULES_CHECKSUM.                               *)
THEOREM AssertionHolds == Spec => []ChecksumOnlyInLobby
<1>1. ASSUME IInv, NEW c \in Client, toClient[c] # <<>>, Head(toClient[c]).type = "RULES_CHECKSUM"
      PROVE  view[c].state = "LOBBY"
  <2>1. toClient[c] \in Seq(Message) /\ Announced(c)
    BY <1>1, Types DEF IInv, ClientInv
  <2>2. 1 \in DOMAIN toClient[c] /\ Head(toClient[c]) = toClient[c][1]
    BY <1>1, <2>1
  <2> QED BY <1>1, <2>1, <2>2 DEF Announced
<1>2. IInv => ChecksumOnlyInLobby
  BY <1>1 DEF ChecksumOnlyInLobby
<1> QED BY <1>2, Invariance, PTL
================================================================================
