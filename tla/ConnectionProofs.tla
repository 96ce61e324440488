--------------------------- MODULE ConnectionProofs ---------------------------
(* Proofs about connections, for any number of clients, any maximum of        *)
(* players and any plans: that the server counts nobody as connected whose    *)
(* game was not told, and that an attempt is answered once.                   *)
(*                                                                            *)
(* The argument: what a client's game is told follows the life of its slot    *)
(* (Attempt): there is no slot while it asks, and none is REQUESTED_CONNECTION *)
(* once an answer was given.  NEW_INCOMING_CONNECTION is only ever under way  *)
(* from a client that was told of the connection (Announced), and it is what  *)
(* makes the server's slot CONNECTED.                                         *)
EXTENDS Connection, TLAPS

ConnectMode == {"FREE", "UNVERIFIED_SENDER", "REQUESTED_CONNECTION",
                "HANDLING_CONNECTION_REQUEST", "CONNECTED", "DISCONNECT_ASAP"}

CommandKind == {"ENTER_SERVER", "NO_FREE_INCOMING_CONNECTIONS", "DISCONNECTION_NOTIFICATION"}

Kind == CommandKind \cup {"CONNECTION_REQUEST", "CONNECTION_REQUEST_ACCEPTED",
                          "NEW_INCOMING_CONNECTION", "KEEPALIVE"}

Slot == [connectMode : ConnectMode, old : BOOLEAN, next : Int,
         waiting : SUBSET (Int \X Kind), taken : SUBSET Int]

Packet == [to : End, client : Client, kind : Kind \cup Offline \cup {"ACK"}, number : Int]

\* What a game is told.
News == Kind \cup Ends \cup {"CONNECTION_ATTEMPT_FAILED"}

StateOK ==
    /\ plan \in Plans
    /\ slot \in [End -> [Client -> Slot]]
    /\ command \in [End -> [Client -> Seq(CommandKind)]]
    /\ net \subseteq Packet
    /\ incoming \in [End -> [Client -> Seq(News)]]

\* The client's game was told of the connection.
Told(c) == phase[c] \in {"open", "closed"}

\* The client's end has had no connection yet.
Untouched(c) ==
    IsFree("client", c) /\ command["client"][c] = <<>> /\ incoming["client"][c] = <<>>

\* What the game was told, and the state of the client's end.
Attempt(c) ==
    /\ life[c] = "idle" <=> phase[c] = "idle"
    /\ phase[c] = "idle" => request[c] = None /\ Untouched(c)
    /\ request[c] # None => phase[c] = "asking" /\ Untouched(c)
    /\ Mode("client", c) = "REQUESTED_CONNECTION" => phase[c] = "asking"

Announces(d) == d.to = "server" /\ d.kind = "NEW_INCOMING_CONNECTION"

\* NEW_INCOMING_CONNECTION comes from those who were told.
Announced(c) ==
    /\ \A d \in net: Announces(d) /\ d.client = c => Told(c)
    /\ \A w \in slot["client"][c].waiting: w[2] = "NEW_INCOMING_CONNECTION" => Told(c)
    /\ Mode("server", c) = "CONNECTED" => Told(c)

IInv ==
    /\ TypeOK
    /\ StateOK
    /\ \A c \in Client: Attempt(c) /\ Announced(c)

-----------------------------------------------------------------------------
(* Slots and datagrams.                                                       *)

LEMMA SlotOperators ==
  ASSUME NEW s \in Slot, NEW k \in Kind
  PROVE  /\ Sent(s, k) \in Slot /\ Sent(s, k).connectMode = s.connectMode
         /\ Sent(s, k).waiting = s.waiting \cup {<<s.next, k>>}
         /\ Notified(s) \in Slot /\ Notified(s).connectMode = "DISCONNECT_ASAP"
         /\ Notified(s).waiting = s.waiting \cup {<<s.next, "DISCONNECTION_NOTIFICATION">>}
<1>1. ASSUME NEW n \in Kind
      PROVE  /\ Sent(s, n) \in Slot /\ Sent(s, n).connectMode = s.connectMode
             /\ Sent(s, n).waiting = s.waiting \cup {<<s.next, n>>}
  <2>1. s.next \in Int /\ s.waiting \subseteq Int \X Kind
    BY DEF Slot
  <2> DEFINE w == s.waiting \cup {<<s.next, n>>}
             m == s.next + 1
  <2>2. w \in SUBSET (Int \X Kind) /\ m \in Int
    BY <1>1, <2>1
  <2>3. Sent(s, n) = [s EXCEPT !.next = m, !.waiting = w]
    BY DEF Sent
  <2> HIDE DEF w, m
  <2>4. [s EXCEPT !.next = m, !.waiting = w] \in Slot
    BY <2>2 DEF Slot
  <2> QED BY <2>3, <2>4 DEF Slot, w
<1>2. "DISCONNECTION_NOTIFICATION" \in Kind /\ "DISCONNECT_ASAP" \in ConnectMode
  BY DEF Kind, CommandKind, ConnectMode
<1>3. \A t \in Slot: /\ [t EXCEPT !.connectMode = "DISCONNECT_ASAP"] \in Slot
                     /\ [t EXCEPT !.connectMode = "DISCONNECT_ASAP"].connectMode = "DISCONNECT_ASAP"
                     /\ [t EXCEPT !.connectMode = "DISCONNECT_ASAP"].waiting = t.waiting
  BY <1>2 DEF Slot
<1> QED BY <1>1, <1>2, <1>3 DEF Notified

LEMMA SlotUpdate ==
  ASSUME StateOK, NEW e \in End, NEW c \in Client, NEW t \in Slot, SetSlot(e, c, t)
  PROVE  /\ slot' \in [End -> [Client -> Slot]]
         /\ slot'[e][c] = t
         /\ \A f \in End: \A b \in Client: f # e \/ b # c => slot'[f][b] = slot[f][b]
BY DEF StateOK, SetSlot

\* What may arrive is typed, and announces a connection only if the client was told.
LEMMA Arrival ==
  ASSUME IInv, NEW e \in End, NEW c \in Client, NEW d \in UnderWay(e, c)
  PROVE  /\ d \in Packet /\ d.to = e /\ d.client = c
         /\ Announces(d) => Told(c)
<1>1. Other(e) \in End /\ (e = "server" => Other(e) = "client") /\ Other(Other(e)) = e
  BY DEF Other, End
<1>2. slot[Other(e)][c] \in Slot
  BY <1>1 DEF IInv, StateOK
<1>3. CASE d \in net /\ d.to = e /\ d.client = c
  BY <1>3 DEF IInv, StateOK, Announced
<1>4. CASE d \in Packets(Other(e), c)
  <2>1. PICK w \in slot[Other(e)][c].waiting: d = Datagram(e, c, w[2], w[1])
    BY <1>1, <1>4 DEF Packets
  <2>2. w \in Int \X Kind
    BY <1>2, <2>1 DEF Slot
  <2>3. w[1] \in Int /\ w[2] \in Kind
    BY <2>2
  <2>4. d \in Packet /\ d.to = e /\ d.client = c /\ d.kind = w[2]
    BY <2>1, <2>3 DEF Datagram, Packet
  <2> QED BY <1>1, <2>1, <2>4 DEF IInv, Announced, Announces, End
<1>5. CASE d \in Acks(Other(e), c)
  <2>1. PICK n \in slot[Other(e)][c].taken: d = Datagram(e, c, "ACK", n)
    BY <1>1, <1>5 DEF Acks
  <2> QED BY <1>2, <2>1 DEF Datagram, Packet, Slot, Announces
<1> QED BY <1>3, <1>4, <1>5 DEF UnderWay

-----------------------------------------------------------------------------
(* Steps of one slot.                                                         *)

Phase == {"idle", "asking", "open", "failed", "closed"}

\* Nobody new announces a connection by what is on the way.
NetStep ==
    /\ net' \subseteq Packet
    /\ \A d \in net': Announces(d) => d \in net \/ Told(d.client)

\* A slot that is taken goes on, and the game of a client may be told.
ClientStep(c, t) ==
    /\ \/ ~IsFree("client", c) /\ phase'[c] # "idle"
       \/ /\ t.connectMode = "FREE"
          /\ phase'[c] = phase[c] /\ incoming'["client"][c] = incoming["client"][c]
    /\ Told(c) => Told(c)'
    /\ t.connectMode = "REQUESTED_CONNECTION" =>
          Mode("client", c) = "REQUESTED_CONNECTION" /\ phase'[c] = phase[c]
    /\ \A w \in t.waiting: w[2] = "NEW_INCOMING_CONNECTION" =>
          w \in slot["client"][c].waiting \/ Told(c)'

ServerStep(c, t) ==
    t.connectMode = "CONNECTED" => Mode("server", c) = "CONNECTED" \/ Told(c)

TellsPhase(c, x) == phase' = [phase EXCEPT ![c] = x]

LEMMA SlotStep ==
  ASSUME IInv, NEW e \in End, NEW c \in Client, NEW t \in Slot, SetSlot(e, c, t),
         UNCHANGED <<plan, life, request, command, mPlayerMap>>,
         incoming' \in [End -> [Client -> Seq(News)]], phase' \in [Client -> Phase],
         \A b \in Client: b # c \/ e = "server" =>
             phase'[b] = phase[b] /\ incoming'["client"][b] = incoming["client"][b],
         NetStep,
         e = "client" => ClientStep(c, t),
         e = "server" => ServerStep(c, t)
  PROVE  IInv'
<1>1. e \in {"client", "server"} /\ {"client", "server"} = End
  BY DEF End
<1>2. /\ slot' \in [End -> [Client -> Slot]]
      /\ slot'[e][c] = t
      /\ \A f \in End: \A b \in Client: f # e \/ b # c => slot'[f][b] = slot[f][b]
  BY SlotUpdate DEF IInv
<1>3. TypeOK' /\ StateOK'
  BY <1>2 DEF IInv, TypeOK, StateOK, NetStep, Phase
<1>4. \A b \in Client: Told(b) => Told(b)'
  BY <1>1 DEF Told, ClientStep
<1>5. ASSUME NEW b \in Client
      PROVE  Attempt(b)'
  <2>1. CASE b # c \/ e = "server"
    <3>1. slot'["client"][b] = slot["client"][b]
      BY <1>1, <1>2, <2>1
    <3> QED BY <2>1, <3>1 DEF IInv, Attempt, Untouched, IsFree, Mode
  <2>2. CASE b = c /\ e = "client"
    <3>1. Mode("client", c)' = t.connectMode
      BY <1>2, <2>2 DEF Mode
    <3>2. t.connectMode = "REQUESTED_CONNECTION" => phase'[c] = "asking"
      BY <2>2 DEF IInv, Attempt, ClientStep
    <3>3. CASE ~IsFree("client", c) /\ phase'[c] # "idle"
      <4>1. phase[c] # "idle" /\ life[c] # "idle" /\ request[c] = None
        BY <3>3 DEF IInv, Attempt, Untouched
      <4> QED BY <2>2, <3>1, <3>2, <3>3, <4>1 DEF Attempt
    <3>4. CASE /\ t.connectMode = "FREE"
               /\ phase'[c] = phase[c] /\ incoming'["client"][c] = incoming["client"][c]
      BY <2>2, <3>1, <3>4 DEF IInv, Attempt, Untouched, IsFree, Mode
    <3> QED BY <2>2, <3>3, <3>4 DEF ClientStep
  <2> QED BY <1>1, <2>1, <2>2
<1>6. ASSUME NEW b \in Client
      PROVE  Announced(b)'
  <2>1. \A d \in net': Announces(d) /\ d.client = b => Told(b)'
    BY <1>4 DEF IInv, Announced, NetStep
  <2>2. \A w \in slot'["client"][b].waiting: w[2] = "NEW_INCOMING_CONNECTION" => Told(b)'
    <3>1. CASE b # c \/ e = "server"
      BY <1>1, <1>2, <1>4, <3>1 DEF IInv, Announced
    <3>2. CASE b = c /\ e = "client"
      BY <1>2, <1>4, <3>2 DEF IInv, Announced, ClientStep
    <3> QED BY <1>1, <3>1, <3>2
  <2>3. slot'["server"][b].connectMode = "CONNECTED" => Told(b)'
    <3>1. CASE b # c \/ e = "client"
      BY <1>1, <1>2, <1>4, <3>1 DEF IInv, Announced, Mode
    <3>2. CASE b = c /\ e = "server"
      BY <1>2, <1>4, <3>2 DEF IInv, Announced, ServerStep, Mode
    <3> QED BY <1>1, <3>1, <3>2
  <2> QED BY <2>1, <2>2, <2>3 DEF Announced, Announces, Mode
<1> QED BY <1>3, <1>5, <1>6 DEF IInv

\* Taking a packet off what is on the way, a slot acknowledges it.
LEMMA HandledStep ==
  ASSUME IInv, NEW d \in Packet, NEW t \in Slot, Handled(d, t)
  PROVE  /\ NetStep
         /\ \E u \in Slot: /\ SetSlot(d.to, d.client, u)
                           /\ u.connectMode = t.connectMode /\ u.waiting = t.waiting
<1> DEFINE u == [t EXCEPT !.taken = @ \cup {d.number}]
<1>1. u \in Slot /\ u.connectMode = t.connectMode /\ u.waiting = t.waiting
  BY DEF Slot, Packet
<1>2. SetSlot(d.to, d.client, u) /\ net' = net \ {d}
  BY DEF Handled
<1> HIDE DEF u
<1>3. NetStep
  BY <1>2 DEF IInv, StateOK, NetStep
<1> QED BY <1>1, <1>2, <1>3

LEMMA PushStep ==
  ASSUME IInv, NEW e \in End, NEW c \in Client, NEW k \in News, Push(e, c, k)
  PROVE  /\ incoming' \in [End -> [Client -> Seq(News)]]
         /\ \A b \in Client: b # c \/ e = "server" =>
               phase'[b] = phase[b] /\ incoming'["client"][b] = incoming["client"][b]
         /\ e = "server" => phase' = phase
         /\ e = "client" => \E x: /\ TellsPhase(c, x)
                                  /\ k = "CONNECTION_REQUEST_ACCEPTED" => x = "open"
                                  /\ k = "CONNECTION_ATTEMPT_FAILED" => x = "failed"
                                  /\ k \in Ends => x = Over(phase[c])
                                  /\ k \in Kind \ (Ends \cup {"CONNECTION_REQUEST_ACCEPTED"})
                                       => x = phase[c]
<1>1. \A q \in Seq(News): Append(q, k) \in Seq(News)
  OBVIOUS
<1>2. /\ incoming' \in [End -> [Client -> Seq(News)]]
      /\ \A b \in Client: b # c \/ e = "server" => incoming'["client"][b] = incoming["client"][b]
  <2>1. \/ incoming' = incoming
        \/ incoming' = [incoming EXCEPT ![e][c] = Append(incoming[e][c], k)]
    BY DEF Push
  <2> DEFINE q == Append(incoming[e][c], k)
  <2>2. incoming \in [End -> [Client -> Seq(News)]] /\ q \in Seq(News)
    BY <1>1 DEF IInv, StateOK
  <2> HIDE DEF q
  <2>3. [incoming EXCEPT ![e][c] = q] \in [End -> [Client -> Seq(News)]]
    BY <2>2
  <2>4. \A b \in Client: b # c \/ e = "server" =>
           [incoming EXCEPT ![e][c] = q]["client"][b] = incoming["client"][b]
    BY <2>2 DEF End
  <2>5. incoming' = incoming \/ incoming' = [incoming EXCEPT ![e][c] = q]
    BY <2>1 DEF q
  <2> QED BY <2>2, <2>3, <2>4, <2>5
<1>3. e = "server" => phase' = phase
  BY DEF Push
<1>4. e = "client" => \E x: /\ TellsPhase(c, x)
                            /\ k = "CONNECTION_REQUEST_ACCEPTED" => x = "open"
                            /\ k = "CONNECTION_ATTEMPT_FAILED" => x = "failed"
                            /\ k \in Ends => x = Over(phase[c])
                            /\ k \in Kind \ (Ends \cup {"CONNECTION_REQUEST_ACCEPTED"})
                                 => x = phase[c]
  <2> DEFINE y == CASE k = "CONNECTION_REQUEST_ACCEPTED" -> "open"
                    [] k = "CONNECTION_ATTEMPT_FAILED" -> "failed"
                    [] k \in Ends -> Over(phase[c])
                    [] OTHER -> phase[c]
  <2>1. e = "client" => phase' = [phase EXCEPT ![c] = y]
    BY DEF Push
  <2>2. /\ k = "CONNECTION_REQUEST_ACCEPTED" => y = "open"
        /\ k = "CONNECTION_ATTEMPT_FAILED" => y = "failed"
        /\ k \in Ends => y = Over(phase[c])
        /\ k \in Kind \ (Ends \cup {"CONNECTION_REQUEST_ACCEPTED"}) => y = phase[c]
    BY DEF Ends, Kind, CommandKind
  <2> HIDE DEF y
  <2> QED BY <2>1, <2>2 DEF TellsPhase
<1>5. \A b \in Client: b # c \/ e = "server" => phase'[b] = phase[b]
  BY <1>3, <1>4 DEF IInv, TypeOK, End, TellsPhase
<1> QED BY <1>2, <1>3, <1>4, <1>5

-----------------------------------------------------------------------------
(* What comes in.                                                             *)

\* A step in which no game is told.
LEMMA QuietStep ==
  ASSUME IInv, NEW e \in End, NEW c \in Client, NEW t \in Slot, SetSlot(e, c, t),
         UNCHANGED <<plan, life, request, command, mPlayerMap>>, UNCHANGED Queues, NetStep,
         e = "client" =>
            /\ t.connectMode # "FREE" => ~IsFree("client", c)
            /\ t.connectMode = "REQUESTED_CONNECTION" => Mode("client", c) = "REQUESTED_CONNECTION"
            /\ \A w \in t.waiting: w[2] = "NEW_INCOMING_CONNECTION" => w \in slot["client"][c].waiting,
         e = "server" => ServerStep(c, t)
  PROVE  IInv'
<1>1. incoming' = incoming /\ phase' = phase
  BY DEF Queues
<1>2. incoming' \in [End -> [Client -> Seq(News)]] /\ phase' \in [Client -> Phase]
  BY <1>1 DEF IInv, StateOK, TypeOK, Phase
<1>3. ~IsFree("client", c) => phase'[c] # "idle"
  BY <1>1 DEF IInv, Attempt, Untouched
<1>4. Told(c) => Told(c)'
  BY <1>1 DEF Told
<1>5. e = "client" => ClientStep(c, t)
  BY <1>1, <1>3, <1>4 DEF ClientStep
<1> QED BY <1>1, <1>2, <1>5, SlotStep

\* A step in which the server's game is told.
LEMMA ServerTold ==
  ASSUME IInv, NEW c \in Client, NEW t \in Slot, SetSlot("server", c, t),
         UNCHANGED <<plan, life, request, command, mPlayerMap>>,
         NEW k \in News, Push("server", c, k), NetStep, ServerStep(c, t)
  PROVE  IInv'
<1>1. "server" \in End /\ "server" # "client"
  BY DEF End
<1>2. phase' \in [Client -> Phase]
  BY <1>1, PushStep DEF IInv, TypeOK, Phase
<1> QED BY <1>1, <1>2, PushStep, SlotStep

\* A step in which the game of a client that has a slot is told.
LEMMA ClientTold ==
  ASSUME IInv, NEW c \in Client, NEW t \in Slot, SetSlot("client", c, t), ~IsFree("client", c),
         UNCHANGED <<plan, life, request, command, mPlayerMap>>,
         NEW k \in News, Push("client", c, k), NetStep,
         NEW x \in Phase \ {"idle"}, TellsPhase(c, x),
         Told(c) => x \in {"open", "closed"},
         t.connectMode = "REQUESTED_CONNECTION" =>
            Mode("client", c) = "REQUESTED_CONNECTION" /\ x = phase[c],
         \A w \in t.waiting: w[2] = "NEW_INCOMING_CONNECTION" =>
            w \in slot["client"][c].waiting \/ x = "open"
  PROVE  IInv'
<1>1. "client" \in End /\ "server" # "client"
  BY DEF End
<1>2. phase' \in [Client -> Phase] /\ phase'[c] = x
  BY DEF IInv, TypeOK, Phase, TellsPhase
<1>3. ClientStep(c, t)
  BY <1>2 DEF ClientStep, Told
<1>4. incoming' \in [End -> [Client -> Seq(News)]]
  BY <1>1, PushStep
<1>5. \A b \in Client: b # c \/ "client" = "server" =>
         phase'[b] = phase[b] /\ incoming'["client"][b] = incoming["client"][b]
  BY <1>1, PushStep
<1> QED BY <1>1, <1>2, <1>3, <1>4, <1>5, SlotStep

LEMMA AckStep ==
  ASSUME IInv, NEW e \in End, NEW c \in Client, ReceiveAck(e, c), UNCHANGED plan
  PROVE  IInv'
<1> DEFINE t == [slot[e][c] EXCEPT !.waiting = @ \ Acknowledged(e, c)]
<1>1. slot[e][c] \in Slot
  BY DEF IInv, StateOK
<1>2. /\ t \in Slot /\ t.connectMode = slot[e][c].connectMode
      /\ t.waiting \subseteq slot[e][c].waiting
  BY <1>1 DEF Slot
<1>3. SetSlot(e, c, t)
  BY DEF ReceiveAck
<1>4. NetStep
  BY DEF ReceiveAck, IInv, StateOK, NetStep
<1> HIDE DEF t
<1>5. UNCHANGED <<plan, life, request, command, mPlayerMap>> /\ UNCHANGED Queues
  BY DEF ReceiveAck, Unmoved
<1> QED BY <1>2, <1>3, <1>4, <1>5, QuietStep DEF ServerStep, Mode, IsFree

\* Freeing a slot: what it leaves on the way was there before.
LEMMA CloseStep ==
  ASSUME IInv, NEW e \in End, NEW c \in Client, NEW late \in SUBSET UnderWay(e, c), Close(e, c, late)
  PROVE  Free \in Slot /\ SetSlot(e, c, Free) /\ NetStep /\ Free.connectMode = "FREE" /\ Free.waiting = {}
<1>1. Free \in Slot /\ Free.connectMode = "FREE" /\ Free.waiting = {}
  BY DEF Free, Fresh, Slot, ConnectMode
<1>2. Other(e) \in End /\ (e = "client" <=> Other(e) = "server") /\ slot[e][c] \in Slot
  BY DEF Other, End, IInv, StateOK
<1>3. ASSUME NEW d \in net'
      PROVE  d \in Packet /\ (Announces(d) => d \in net \/ Told(d.client))
  <2>1. \/ d \in net
        \/ d \in Packets(e, c)
        \/ d \in Acks(e, c)
        \/ d \in {Datagram(Other(e), c, "ACK", b.number) : b \in late}
    BY DEF Close
  <2>2. CASE d \in net
    BY <2>2 DEF IInv, StateOK
  <2>3. CASE d \in Packets(e, c)
    <3>1. PICK w \in slot[e][c].waiting: d = Datagram(Other(e), c, w[2], w[1])
      BY <2>3 DEF Packets
    <3>2. w \in Int \X Kind
      BY <1>2, <3>1 DEF Slot
    <3>3. w[1] \in Int /\ w[2] \in Kind
      BY <3>2
    <3>4. d \in Packet /\ d.kind = w[2] /\ d.client = c /\ d.to = Other(e)
      BY <1>2, <3>1, <3>3 DEF Datagram, Packet
    <3>5. Announces(d) => e = "client" /\ Told(c)
      BY <1>2, <3>1, <3>4 DEF IInv, Announced, Announces, End
    <3> QED BY <3>4, <3>5
  <2>4. CASE d \in Acks(e, c)
    <3>1. PICK n \in slot[e][c].taken: d = Datagram(Other(e), c, "ACK", n)
      BY <2>4 DEF Acks
    <3> QED BY <1>2, <3>1 DEF Datagram, Packet, Slot, Announces
  <2>5. CASE d \in {Datagram(Other(e), c, "ACK", b.number) : b \in late}
    <3>1. PICK b \in late: d = Datagram(Other(e), c, "ACK", b.number)
      BY <2>5
    <3>2. b.number \in Int
      BY Arrival DEF Packet
    <3> QED BY <1>2, <3>1, <3>2 DEF Datagram, Packet, Announces
  <2> QED BY <2>1, <2>2, <2>3, <2>4, <2>5
<1>4. NetStep
  BY <1>3 DEF NetStep
<1> QED BY <1>1, <1>4 DEF Close

Becomes(s, mode) == [s EXCEPT !.connectMode = mode]

LEMMA SlotMode ==
  ASSUME NEW s \in Slot, NEW k \in Kind, NEW m \in ConnectMode
  PROVE  /\ Becomes(Sent(s, k), m) \in Slot
         /\ Becomes(Sent(s, k), m).connectMode = m
         /\ Becomes(Sent(s, k), m).waiting = s.waiting \cup {<<s.next, k>>}
         /\ Becomes(s, m) \in Slot
         /\ Becomes(s, m).connectMode = m
         /\ Becomes(s, m).waiting = s.waiting
<1>1. \A u \in Slot: /\ Becomes(u, m) \in Slot
                     /\ Becomes(u, m).connectMode = m
                     /\ Becomes(u, m).waiting = u.waiting
  BY DEF Becomes, Slot
<1> QED BY <1>1, SlotOperators

LEMMA FreshSlot ==
  ASSUME NEW m \in ConnectMode
  PROVE  Fresh(m) \in Slot /\ Fresh(m).connectMode = m /\ Fresh(m).waiting = {}
BY DEF Fresh, Slot

LEMMA SameSlot ==
  ASSUME StateOK, UNCHANGED slot, NEW e \in End, NEW c \in Client
  PROVE  SetSlot(e, c, slot[e][c])
BY DEF StateOK, SetSlot

LEMMA OpenRequestStep ==
  ASSUME IInv, NEW c \in Client, ReceiveOpenRequest(c), UNCHANGED plan
  PROVE  IInv'
<1> DEFINE r == Datagram("client", c, "OPEN_REPLY", None)
<1>1. "server" \in End /\ "client" \in End /\ slot["server"][c] \in Slot
  BY DEF End, IInv, StateOK
<1>2. r \in Packet /\ ~Announces(r)
  BY <1>1 DEF Datagram, Packet, Offline, None, Announces
<1> HIDE DEF r
<1>3. net' \subseteq net \cup {r}
  BY DEF ReceiveOpenRequest, r
<1>4. NetStep
  BY <1>2, <1>3 DEF NetStep, IInv, StateOK
<1>5. UNCHANGED <<plan, life, request, command, mPlayerMap>> /\ UNCHANGED Queues
  BY DEF ReceiveOpenRequest, Queues
<1>6. CASE SetSlot("server", c, Fresh("UNVERIFIED_SENDER"))
  <2>1. Fresh("UNVERIFIED_SENDER") \in Slot
        /\ Fresh("UNVERIFIED_SENDER").connectMode = "UNVERIFIED_SENDER"
    BY FreshSlot DEF ConnectMode
  <2> DEFINE t == Fresh("UNVERIFIED_SENDER")
  <2>2. t \in Slot /\ SetSlot("server", c, t) /\ ServerStep(c, t)
    BY <1>6, <2>1 DEF ServerStep
  <2> HIDE DEF t
  <2> QED BY <1>1, <1>4, <1>5, <2>2, QuietStep DEF End
<1>7. CASE UNCHANGED slot
  <2>1. SetSlot("server", c, slot["server"][c])
    BY <1>1, <1>7, SameSlot DEF IInv
  <2>2. ServerStep(c, slot["server"][c])
    BY DEF ServerStep, Mode
  <2> QED BY <1>1, <1>4, <1>5, <2>1, <2>2, QuietStep
<1> QED BY <1>6, <1>7 DEF ReceiveOpenRequest, SetSlot

LEMMA ConnectionRequestStep ==
  ASSUME IInv, NEW c \in Client, ReceiveConnectionRequest(c), UNCHANGED plan
  PROVE  IInv'
<1>1. "server" \in End /\ slot["server"][c] \in Slot
  BY DEF End, IInv, StateOK
<1>2. PICK d \in UnderWay("server", c):
         \/ Handled(d, OnConnectionRequest(slot["server"][c]))
         \/ Handled(d, [Sent(slot["server"][c], "NO_FREE_INCOMING_CONNECTIONS") EXCEPT
                          !.connectMode = "DISCONNECT_ASAP"])
  BY DEF ReceiveConnectionRequest
<1>3. d \in Packet /\ d.to = "server" /\ d.client = c
  BY <1>1, Arrival
<1>4. UNCHANGED <<plan, life, request, command, mPlayerMap>> /\ UNCHANGED Queues
  BY DEF ReceiveConnectionRequest, Unmoved
<1>5. PICK t \in Slot: Handled(d, t) /\ t.connectMode # "CONNECTED"
  <2> DEFINE s == slot["server"][c]
             x == Sent(s, "CONNECTION_REQUEST_ACCEPTED")
             y == Sent(s, "NO_FREE_INCOMING_CONNECTIONS")
             a == OnConnectionRequest(s)
             b == [y EXCEPT !.connectMode = "DISCONNECT_ASAP"]
  <2>1. Handled(d, a) \/ Handled(d, b)
    BY <1>2
  <2>2. x \in Slot /\ y \in Slot
    BY <1>1, SlotOperators DEF Kind, CommandKind
  <2>3. a = [x EXCEPT !.connectMode = "HANDLING_CONNECTION_REQUEST"]
    BY DEF OnConnectionRequest
  <2> HIDE DEF x, y
  <2>4. a \in Slot /\ a.connectMode = "HANDLING_CONNECTION_REQUEST"
    BY <2>2, <2>3 DEF Slot, ConnectMode
  <2>5. b \in Slot /\ b.connectMode = "DISCONNECT_ASAP"
    BY <2>2 DEF Slot, ConnectMode
  <2> HIDE DEF a, b
  <2> QED BY <2>1, <2>4, <2>5
<1>6. NetStep /\ \E u \in Slot: SetSlot("server", c, u) /\ u.connectMode = t.connectMode
  BY <1>3, <1>5, HandledStep
<1>7. PICK u \in Slot: SetSlot("server", c, u) /\ ServerStep(c, u)
  BY <1>5, <1>6 DEF ServerStep
<1> QED BY <1>1, <1>4, <1>6, <1>7, QuietStep

LEMMA NonsenseStep ==
  ASSUME IInv, NEW e \in End, NEW c \in Client, ReceiveNonsense(e, c), UNCHANGED plan
  PROVE  IInv'
<1>1. PICK d \in UnderWay(e, c): Close(e, c, {d})
  BY DEF ReceiveNonsense
<1>2. Free \in Slot /\ SetSlot(e, c, Free) /\ NetStep /\ Free.connectMode = "FREE" /\ Free.waiting = {}
  <2>1. {d} \in SUBSET UnderWay(e, c)
    OBVIOUS
  <2> QED BY <1>1, <2>1, CloseStep
<1>3. UNCHANGED <<plan, life, request, command, mPlayerMap>> /\ UNCHANGED Queues
  BY DEF ReceiveNonsense, Unmoved
<1> QED BY <1>2, <1>3, QuietStep DEF ServerStep

LEMMA AcceptedStep ==
  ASSUME IInv, NEW c \in Client, ReceiveAccepted(c), UNCHANGED plan
  PROVE  IInv'
<1> DEFINE s == slot["client"][c]
           a == [Sent(s, "NEW_INCOMING_CONNECTION") EXCEPT !.connectMode = "CONNECTED"]
           b == Notified(s)
<1>1. "client" \in End /\ "client" # "server" /\ s \in Slot
  BY DEF End, IInv, StateOK
<1>2. PICK d \in UnderWay("client", c):
         /\ Arrives("client", c, d) /\ d.kind = "CONNECTION_REQUEST_ACCEPTED"
         /\ IF s.connectMode = "REQUESTED_CONNECTION"
            THEN Handled(d, a) /\ Push("client", c, d.kind)
            ELSE Handled(d, b) /\ UNCHANGED Queues
  BY DEF ReceiveAccepted, Takes
<1>3. d \in Packet /\ d.to = "client" /\ d.client = c
  BY <1>1, Arrival
<1>4. UNCHANGED <<plan, life, request, command, mPlayerMap>>
  BY DEF ReceiveAccepted, Unmoved
<1>5. ~IsFree("client", c)
  BY <1>2 DEF Arrives
<1>6. "NEW_INCOMING_CONNECTION" \in Kind /\ "DISCONNECTION_NOTIFICATION" \in Kind
      /\ "CONNECTION_REQUEST_ACCEPTED" \in News /\ "CONNECTED" \in ConnectMode
  BY DEF Kind, CommandKind, ConnectMode, News
<1>7. /\ a \in Slot /\ a.connectMode = "CONNECTED"
      /\ a.waiting = s.waiting \cup {<<s.next, "NEW_INCOMING_CONNECTION">>}
  <2>1. a = Becomes(Sent(s, "NEW_INCOMING_CONNECTION"), "CONNECTED")
    BY DEF Becomes
  <2> HIDE DEF a
  <2> QED BY <1>1, <1>6, <2>1, SlotMode
<1>8. /\ b \in Slot /\ b.connectMode = "DISCONNECT_ASAP"
      /\ b.waiting = s.waiting \cup {<<s.next, "DISCONNECTION_NOTIFICATION">>}
  BY <1>1, <1>6, SlotOperators
<1> HIDE DEF a, b
<1>9. CASE s.connectMode = "REQUESTED_CONNECTION"
  <2>1. NetStep /\ \E u \in Slot: /\ SetSlot("client", c, u)
                                   /\ u.connectMode = a.connectMode /\ u.waiting = a.waiting
    BY <1>2, <1>3, <1>7, <1>9, HandledStep
  <2>2. PICK u \in Slot: /\ SetSlot("client", c, u) /\ u.connectMode = "CONNECTED"
                         /\ u.waiting = s.waiting \cup {<<s.next, "NEW_INCOMING_CONNECTION">>}
    BY <1>7, <2>1
  <2>3. Push("client", c, "CONNECTION_REQUEST_ACCEPTED")
    BY <1>2, <1>9
  <2>4. TellsPhase(c, "open")
    BY <1>1, <1>6, <2>3, PushStep
  <2>5. "open" \in Phase \ {"idle"}
    BY DEF Phase
  <2>6. \A w \in u.waiting: w[2] = "NEW_INCOMING_CONNECTION" =>
           w \in slot["client"][c].waiting \/ "open" = "open"
    OBVIOUS
  <2>7. u.connectMode = "REQUESTED_CONNECTION" =>
           Mode("client", c) = "REQUESTED_CONNECTION" /\ "open" = phase[c]
    BY <2>2
  <2> QED BY <1>4, <1>5, <1>6, <2>1, <2>2, <2>3, <2>4, <2>5, <2>6, <2>7, ClientTold
<1>10. CASE s.connectMode # "REQUESTED_CONNECTION"
  <2>1. NetStep /\ \E u \in Slot: /\ SetSlot("client", c, u)
                                   /\ u.connectMode = b.connectMode /\ u.waiting = b.waiting
    BY <1>2, <1>3, <1>8, <1>10, HandledStep
  <2>2. PICK u \in Slot: /\ SetSlot("client", c, u) /\ u.connectMode = "DISCONNECT_ASAP"
                         /\ u.waiting = s.waiting \cup {<<s.next, "DISCONNECTION_NOTIFICATION">>}
    BY <1>8, <2>1
  <2>3. \A w \in u.waiting: w[2] = "NEW_INCOMING_CONNECTION" => w \in slot["client"][c].waiting
    BY <2>2
  <2>4. UNCHANGED Queues
    BY <1>2, <1>10
  <2> QED BY <1>1, <1>4, <1>5, <2>1, <2>2, <2>3, <2>4, QuietStep
<1> QED BY <1>9, <1>10

LEMMA NewIncomingStep ==
  ASSUME IInv, NEW c \in Client, ReceiveNewIncoming(c), UNCHANGED plan
  PROVE  IInv'
<1> DEFINE s == slot["server"][c]
           a == [s EXCEPT !.connectMode = "CONNECTED"]
<1>1. "server" \in End /\ "client" # "server" /\ s \in Slot
  BY DEF End, IInv, StateOK
<1>2. PICK d \in UnderWay("server", c):
         /\ d.kind = "NEW_INCOMING_CONNECTION"
         /\ \/ Handled(d, a) /\ Push("server", c, d.kind)
            \/ Handled(d, s) /\ UNCHANGED Queues
  BY DEF ReceiveNewIncoming, Takes
<1>3. d \in Packet /\ d.to = "server" /\ d.client = c /\ Told(c)
  BY <1>1, <1>2, Arrival DEF Announces
<1>4. UNCHANGED <<plan, life, request, command, mPlayerMap>>
  BY DEF ReceiveNewIncoming, Unmoved
<1>5. a \in Slot
  BY <1>1 DEF Slot, ConnectMode
<1>6. d.kind \in News
  BY <1>2 DEF News, Kind
<1> HIDE DEF a
<1>7. CASE Handled(d, a) /\ Push("server", c, d.kind)
  <2>1. NetStep /\ \E u \in Slot: SetSlot("server", c, u)
    BY <1>3, <1>5, <1>7, HandledStep
  <2> QED BY <1>3, <1>4, <1>6, <1>7, <2>1, ServerTold DEF ServerStep
<1>8. CASE Handled(d, s) /\ UNCHANGED Queues
  <2>1. NetStep /\ \E u \in Slot: SetSlot("server", c, u)
    BY <1>1, <1>3, <1>8, HandledStep
  <2> QED BY <1>1, <1>3, <1>4, <1>8, <2>1, QuietStep DEF ServerStep
<1> QED BY <1>2, <1>7, <1>8

\* Somebody is told something, and the slot does not get any further by it.
LEMMA ToldStep ==
  ASSUME IInv, NEW e \in End, NEW c \in Client, NEW t \in Slot, SetSlot(e, c, t), ~IsFree(e, c),
         UNCHANGED <<plan, life, request, command, mPlayerMap>>,
         NEW k \in News \ {"CONNECTION_REQUEST_ACCEPTED"}, Push(e, c, k), NetStep,
         k = "CONNECTION_ATTEMPT_FAILED" => Mode(e, c) = "REQUESTED_CONNECTION",
         t.connectMode \in {"FREE", "DISCONNECT_ASAP"} \/ (t.connectMode = Mode(e, c) /\ k \in Kind \ Ends),
         t.waiting \subseteq slot[e][c].waiting
  PROVE  IInv'
<1>1. CASE e = "server"
  <2>1. ServerStep(c, t)
    BY <1>1 DEF ServerStep
  <2> QED BY <1>1, <2>1, ServerTold
<1>2. CASE e = "client"
  <2>1. phase[c] \in Phase /\ phase[c] # "idle"
    BY <1>2 DEF IInv, Attempt, Untouched, TypeOK, Phase
  <2>2. PICK x: /\ TellsPhase(c, x)
                /\ k = "CONNECTION_ATTEMPT_FAILED" => x = "failed"
                /\ k \in Ends => x = Over(phase[c])
                /\ k \in Kind \ (Ends \cup {"CONNECTION_REQUEST_ACCEPTED"}) => x = phase[c]
    BY <1>2, PushStep
  <2>3. \/ k = "CONNECTION_ATTEMPT_FAILED" /\ x = "failed" /\ phase[c] = "asking"
        \/ k \in Ends /\ x = Over(phase[c])
        \/ k \in Kind \ Ends /\ x = phase[c]
    BY <1>2, <2>2 DEF News, IInv, Attempt
  <2>4. x \in Phase \ {"idle"} /\ (Told(c) => x \in {"open", "closed"})
    BY <2>1, <2>3 DEF Over, Told, Phase
  <2>5. t.connectMode = "REQUESTED_CONNECTION" =>
           Mode("client", c) = "REQUESTED_CONNECTION" /\ x = phase[c]
    BY <1>2, <2>2
  <2> QED BY <1>2, <2>2, <2>4, <2>5, ClientTold
<1> QED BY <1>1, <1>2 DEF End

LEMMA NotificationStep ==
  ASSUME IInv, NEW e \in End, NEW c \in Client, ReceiveNotification(e, c), UNCHANGED plan
  PROVE  IInv'
<1> DEFINE a == [slot[e][c] EXCEPT !.connectMode = "DISCONNECT_ASAP"]
<1>1. PICK d \in UnderWay(e, c): /\ d.kind = "DISCONNECTION_NOTIFICATION" /\ Handled(d, a)
                                /\ Push(e, c, d.kind) /\ ~IsFree(e, c)
  BY DEF ReceiveNotification, Takes, Arrives
<1>2. slot[e][c] \in Slot
  BY DEF IInv, StateOK
<1>3. a \in Slot /\ a.connectMode = "DISCONNECT_ASAP" /\ a.waiting = slot[e][c].waiting
  BY <1>2 DEF Slot, ConnectMode
<1>4. d \in Packet /\ d.to = e /\ d.client = c
  BY Arrival
<1>5. UNCHANGED <<plan, life, request, command, mPlayerMap>>
  BY DEF ReceiveNotification, Unmoved
<1>6. d.kind \in News \ {"CONNECTION_REQUEST_ACCEPTED"} /\ d.kind # "CONNECTION_ATTEMPT_FAILED"
  BY <1>1 DEF News, Ends
<1> HIDE DEF a
<1>7. NetStep /\ \E u \in Slot: /\ SetSlot(e, c, u) /\ u.connectMode = "DISCONNECT_ASAP"
                                 /\ u.waiting = slot[e][c].waiting
  BY <1>1, <1>3, <1>4, HandledStep
<1> QED BY <1>1, <1>5, <1>6, <1>7, ToldStep

LEMMA DataStep ==
  ASSUME IInv, NEW e \in End, NEW c \in Client, ReceiveData(e, c), UNCHANGED plan
  PROVE  IInv'
<1> DEFINE s == slot[e][c]
<1>1. PICK d \in UnderWay(e, c): /\ d.kind \in {"ENTER_SERVER", "NO_FREE_INCOMING_CONNECTIONS"}
                                /\ Handled(d, s) /\ Push(e, c, d.kind) /\ ~IsFree(e, c)
  BY DEF ReceiveData, Takes, Arrives
<1>2. s \in Slot
  BY DEF IInv, StateOK
<1>3. d \in Packet /\ d.to = e /\ d.client = c
  BY Arrival
<1>4. UNCHANGED <<plan, life, request, command, mPlayerMap>>
  BY DEF ReceiveData, Unmoved
<1>5. /\ d.kind \in News \ {"CONNECTION_REQUEST_ACCEPTED"} /\ d.kind # "CONNECTION_ATTEMPT_FAILED"
      /\ d.kind \in Kind \ Ends
  BY <1>1 DEF News, Ends, Kind, CommandKind
<1>6. NetStep /\ \E u \in Slot: /\ SetSlot(e, c, u) /\ u.connectMode = s.connectMode
                                 /\ u.waiting = s.waiting
  BY <1>1, <1>2, <1>3, HandledStep
<1> QED BY <1>1, <1>4, <1>5, <1>6, ToldStep DEF Mode

-----------------------------------------------------------------------------
(* Timers and failures.                                                       *)

LEMMA KeepAliveStep ==
  ASSUME IInv, NEW e \in End, NEW c \in Client, KeepAlive(e, c), UNCHANGED plan
  PROVE  IInv'
<1> DEFINE w == {<<None, "KEEPALIVE">>}
           t == [slot[e][c] EXCEPT !.waiting = w]
<1>1. slot[e][c] \in Slot
  BY DEF IInv, StateOK
<1>2. w \in SUBSET (Int \X Kind) /\ (\A x \in w: x[2] # "NEW_INCOMING_CONNECTION")
  BY DEF None, Kind
<1>3. SetSlot(e, c, t)
  BY DEF KeepAlive
<1> HIDE DEF w
<1>4. t \in Slot /\ t.connectMode = slot[e][c].connectMode /\ t.waiting = w
  BY <1>1, <1>2 DEF Slot
<1> HIDE DEF t
<1>5. NetStep
  BY DEF KeepAlive, NetStep, IInv, StateOK
<1>6. UNCHANGED <<plan, life, request, command, mPlayerMap>> /\ UNCHANGED Queues
  BY DEF KeepAlive, Unmoved
<1> QED BY <1>2, <1>3, <1>4, <1>5, <1>6, QuietStep DEF ServerStep, Mode, IsFree

LEMMA AgeStep ==
  ASSUME IInv, NEW e \in End, NEW c \in Client, Age(e, c), UNCHANGED plan
  PROVE  IInv'
<1> DEFINE t == [slot[e][c] EXCEPT !.old = TRUE]
<1>1. slot[e][c] \in Slot
  BY DEF IInv, StateOK
<1>2. SetSlot(e, c, t)
  BY DEF Age
<1>3. t \in Slot /\ t.connectMode = slot[e][c].connectMode /\ t.waiting = slot[e][c].waiting
  BY <1>1 DEF Slot
<1> HIDE DEF t
<1>4. NetStep
  BY DEF Age, NetStep, IInv, StateOK
<1>5. UNCHANGED <<plan, life, request, command, mPlayerMap>> /\ UNCHANGED Queues
  BY DEF Age, Unmoved
<1> QED BY <1>2, <1>3, <1>4, <1>5, QuietStep DEF ServerStep, Mode, IsFree

\* A slot is freed, and whoever had a connection or waited for one is told.
LEMMA ReportStep ==
  ASSUME IInv, NEW e \in End, NEW c \in Client, SetSlot(e, c, Free), Report(e, c), NetStep,
         UNCHANGED <<plan, life, request, command, mPlayerMap>>
  PROVE  IInv'
<1>1. Free \in Slot /\ Free.connectMode = "FREE" /\ Free.waiting = {}
  BY FreshSlot DEF Free, ConnectMode
<1>2. CASE Mode(e, c) = "CONNECTED"
  <2>1. Push(e, c, "CONNECTION_LOST")
    BY <1>2 DEF Report
  <2>2. "CONNECTION_LOST" \in News \ {"CONNECTION_REQUEST_ACCEPTED"}
    BY DEF News, Ends
  <2> QED BY <1>1, <1>2, <2>1, <2>2, ToldStep DEF IsFree, Mode
<1>3. CASE Mode(e, c) = "REQUESTED_CONNECTION"
  <2>1. Push(e, c, "CONNECTION_ATTEMPT_FAILED")
    BY <1>3 DEF Report
  <2>2. "CONNECTION_ATTEMPT_FAILED" \in News \ {"CONNECTION_REQUEST_ACCEPTED"}
    BY DEF News
  <2> QED BY <1>1, <1>3, <2>1, <2>2, ToldStep DEF IsFree, Mode
<1>4. CASE Mode(e, c) \notin {"CONNECTED", "REQUESTED_CONNECTION"}
  <2>1. UNCHANGED Queues
    BY <1>4 DEF Report
  <2> QED BY <1>1, <2>1, QuietStep DEF ServerStep
<1> QED BY <1>2, <1>3, <1>4

LEMMA DieStep ==
  ASSUME IInv, NEW e \in End, NEW c \in Client, Die(e, c), UNCHANGED plan
  PROVE  IInv'
<1>1. NetStep
  BY DEF Die, NetStep, IInv, StateOK
<1> QED BY <1>1, ReportStep DEF Die

LEMMA FailStep ==
  ASSUME IInv, NEW e \in End, NEW c \in Client, Fail(e, c), UNCHANGED plan
  PROVE  IInv'
<1>1. PICK late \in SUBSET {d \in UnderWay(e, c): Arrives(e, c, d)}: Close(e, c, late)
  BY DEF Fail
<1>2. late \in SUBSET UnderWay(e, c)
  OBVIOUS
<1>3. SetSlot(e, c, Free) /\ NetStep
  BY <1>1, <1>2, CloseStep
<1> QED BY <1>3, ReportStep DEF Fail, Unmoved

-----------------------------------------------------------------------------
(* Attempts, buffered commands and the games.                                 *)

\* Nobody gets connected at the server and no announcement is new.
NoNews ==
    /\ \A d \in net': Announces(d) => d \in net
    /\ \A b \in Client: Told(b) => Told(b)'
    /\ \A b \in Client: \A w \in slot'["client"][b].waiting:
          w[2] = "NEW_INCOMING_CONNECTION" => w \in slot["client"][b].waiting
    /\ \A b \in Client: Mode("server", b)' = "CONNECTED" => Mode("server", b) = "CONNECTED"

LEMMA NoNewsStep ==
  ASSUME IInv, TypeOK', StateOK', NoNews, \A b \in Client: Attempt(b)'
  PROVE  IInv'
<1>1. ASSUME NEW b \in Client
      PROVE  Announced(b)'
  <2>1. \A d \in net': Announces(d) /\ d.client = b => Told(b)'
    BY DEF IInv, Announced, NoNews
  <2>2. \A w \in slot'["client"][b].waiting: w[2] = "NEW_INCOMING_CONNECTION" => Told(b)'
    BY DEF IInv, Announced, NoNews
  <2>3. Mode("server", b)' = "CONNECTED" => Told(b)'
    BY DEF IInv, Announced, NoNews
  <2> QED BY <2>1, <2>2, <2>3 DEF Announced, Announces
<1> QED BY <1>1 DEF IInv

LEMMA PlanOK ==
  ASSUME IInv
  PROVE  plan.requests \in Nat \ {0} /\ plan.stops \subseteq Program
BY ConnectionAssumption DEF IInv, StateOK, Program

LEMMA ConnectStep ==
  ASSUME IInv, NEW c \in Client, Connect(c), UNCHANGED plan
  PROVE  IInv'
<1>1. c \in Program /\ 0 \in None..plan.requests
  BY PlanOK DEF Program, None
<1>2. TypeOK'
  <2>1. life' \in [Program -> {"idle", "running", "leaving", "gone"}]
    BY <1>1 DEF IInv, TypeOK, Connect
  <2>2. request' \in [Client -> None..plan.requests]
    BY <1>1 DEF IInv, TypeOK, Connect
  <2> QED BY <2>1, <2>2 DEF IInv, TypeOK, Connect
<1>3. StateOK'
  BY DEF IInv, StateOK, Connect
<1>4. phase[c] = "idle" /\ Untouched(c)
  BY DEF IInv, Attempt, Connect
<1>5. NoNews
  BY <1>4 DEF IInv, TypeOK, Connect, NoNews, Told, Mode
<1>6. ASSUME NEW b \in Client
      PROVE  Attempt(b)'
  <2>1. b \in Program
    BY DEF Program
  <2>2. Untouched(b)' = Untouched(b) /\ Mode("client", b)' = Mode("client", b)
    BY DEF Connect, Untouched, IsFree, Mode
  <2>3. CASE b = c
    <3>1. life'[c] = "running" /\ phase'[c] = "asking"
      BY <1>1 DEF Connect, IInv, TypeOK
    <3> QED BY <1>4, <2>2, <2>3, <3>1 DEF Attempt
  <2>4. CASE b # c
    <3>1. life'[b] = life[b] /\ phase'[b] = phase[b] /\ request'[b] = request[b]
      BY <2>1, <2>4 DEF Connect, IInv, TypeOK
    <3> QED BY <2>2, <3>1 DEF Attempt, IInv
  <2> QED BY <2>3, <2>4
<1> QED BY <1>2, <1>3, <1>5, <1>6, NoNewsStep

LEMMA AskStep ==
  ASSUME IInv, NEW c \in Client, Ask(c), UNCHANGED plan
  PROVE  IInv'
<1> DEFINE r == Datagram("server", c, "OPEN_REQUEST", None)
<1>1. r \in Packet /\ ~Announces(r)
  BY DEF Datagram, Packet, Offline, None, Announces, End
<1>2. net' = net \cup {r}
  BY DEF Ask
<1> HIDE DEF r
<1>3. request[c] \in 0..plan.requests - 1 /\ plan.requests \in Nat
  BY PlanOK DEF Ask, MayAsk
<1>4. request[c] # None /\ request[c] + 1 \in None..plan.requests
  BY <1>3 DEF None
<1>5. TypeOK'
  BY <1>4 DEF IInv, TypeOK, Ask
<1>6. StateOK'
  BY <1>1, <1>2 DEF IInv, StateOK, Ask
<1>7. NoNews
  BY <1>1, <1>2 DEF Ask, NoNews, Told, Mode
<1>8. ASSUME NEW b \in Client
      PROVE  Attempt(b)'
  <2>1. Untouched(b)' = Untouched(b) /\ Mode("client", b)' = Mode("client", b)
    BY DEF Ask, Untouched, IsFree, Mode
  <2>2. request'[b] # None => request[b] # None
    BY <1>4 DEF Ask, IInv, TypeOK
  <2>3. phase[b] = "idle" => request'[b] = request[b]
    BY <1>4 DEF Ask, IInv, TypeOK, Attempt
  <2> QED BY <2>1, <2>2, <2>3 DEF Attempt, IInv, Ask
<1> QED BY <1>5, <1>6, <1>7, <1>8, NoNewsStep

LEMMA GiveUpStep ==
  ASSUME IInv, NEW c \in Client, GiveUp(c), UNCHANGED plan
  PROVE  IInv'
<1>1. request[c] # None /\ None \in None..plan.requests
  BY PlanOK DEF GiveUp, None
<1>2. phase[c] = "asking" /\ Untouched(c)
  BY <1>1 DEF IInv, Attempt
<1>3. "CONNECTION_ATTEMPT_FAILED" \in News /\ "client" \in End
  BY DEF News, End
<1>4. incoming' = incoming /\ phase' = [phase EXCEPT ![c] = "failed"]
  <2>1. Push("client", c, "CONNECTION_ATTEMPT_FAILED")
    BY DEF GiveUp
  <2>2. TellsPhase(c, "failed")
    BY <1>3, <2>1, PushStep
  <2> QED BY <2>1, <2>2 DEF Push, TellsPhase
<1>5. TypeOK'
  BY <1>1, <1>4 DEF IInv, TypeOK, GiveUp
<1>6. StateOK'
  BY <1>4 DEF IInv, StateOK, GiveUp
<1>7. NoNews
  BY <1>2, <1>4 DEF IInv, TypeOK, GiveUp, NoNews, Told, Mode
<1>8. ASSUME NEW b \in Client
      PROVE  Attempt(b)'
  <2>1. Untouched(b)' = Untouched(b) /\ Mode("client", b)' = Mode("client", b) /\ life'[b] = life[b]
    BY <1>4 DEF GiveUp, Untouched, IsFree, Mode
  <2>2. CASE b = c
    <3>1. request'[c] = None /\ phase'[c] = "failed"
      BY <1>4 DEF GiveUp, IInv, TypeOK
    <3>2. Mode("client", c) = "FREE"
      BY <1>2 DEF Untouched, IsFree, Mode
    <3> QED BY <1>2, <2>1, <2>2, <3>1, <3>2 DEF Attempt, IInv
  <2>3. CASE b # c
    <3>1. request'[b] = request[b] /\ phase'[b] = phase[b]
      BY <1>4, <2>3 DEF GiveUp, IInv, TypeOK
    <3> QED BY <2>1, <3>1 DEF Attempt, IInv
  <2> QED BY <2>2, <2>3
<1> QED BY <1>5, <1>6, <1>7, <1>8, NoNewsStep

LEMMA OpenReplyStep ==
  ASSUME IInv, NEW c \in Client, ReceiveOpenReply(c), UNCHANGED plan
  PROVE  IInv'
<1> DEFINE s == Fresh("REQUESTED_CONNECTION")
           t == Sent(s, "CONNECTION_REQUEST")
<1>1. "client" \in End /\ "server" \in End /\ "client" # "server" /\ None \in None..plan.requests
  BY PlanOK DEF End, None
<1>2. t \in Slot /\ t.connectMode = "REQUESTED_CONNECTION"
      /\ t.waiting = {<<s.next, "CONNECTION_REQUEST">>}
  <2>1. s \in Slot /\ s.connectMode = "REQUESTED_CONNECTION" /\ s.waiting = {}
    BY FreshSlot DEF ConnectMode
  <2>2. "CONNECTION_REQUEST" \in Kind
    BY DEF Kind
  <2> HIDE DEF s
  <2> QED BY <2>1, <2>2, SlotOperators
<1>3. /\ request' = [request EXCEPT ![c] = None] /\ net' \subseteq net
      /\ UNCHANGED <<life, command, incoming, phase, mPlayerMap>>
      /\ \/ UNCHANGED slot
         \/ IsAsking(c) /\ SetSlot("client", c, t)
  BY DEF ReceiveOpenReply
<1>4. \A w \in t.waiting: w[2] # "NEW_INCOMING_CONNECTION"
  BY <1>2
<1> HIDE DEF t
<1>5. TypeOK'
  BY <1>1, <1>3 DEF IInv, TypeOK
<1>6. CASE UNCHANGED slot
  <2>1. StateOK'
    BY <1>3, <1>6 DEF IInv, StateOK
  <2>2. NoNews
    BY <1>3, <1>6 DEF NoNews, Told, Mode
  <2>3. ASSUME NEW b \in Client
        PROVE  Attempt(b)'
    <3>1. Untouched(b)' = Untouched(b) /\ Mode("client", b)' = Mode("client", b)
      BY <1>3, <1>6 DEF Untouched, IsFree, Mode
    <3>2. request'[b] = request[b] \/ request'[b] = None
      BY <1>3 DEF IInv, TypeOK
    <3> QED BY <1>3, <3>1, <3>2 DEF Attempt, IInv
  <2> QED BY <1>5, <2>1, <2>2, <2>3, NoNewsStep
<1>7. CASE IsAsking(c) /\ SetSlot("client", c, t)
  <2>1. /\ slot' \in [End -> [Client -> Slot]]
        /\ slot'["client"][c] = t
        /\ \A b \in Client: b # c => slot'["client"][b] = slot["client"][b]
        /\ \A b \in Client: slot'["server"][b] = slot["server"][b]
    BY <1>1, <1>2, <1>7, SlotUpdate DEF IInv
  <2>2. StateOK'
    BY <1>3, <2>1 DEF IInv, StateOK
  <2>3. NoNews
    BY <1>3, <1>4, <2>1 DEF NoNews, Told, Mode
  <2>4. request[c] # None
    BY <1>7 DEF IsAsking
  <2>5. ASSUME NEW b \in Client
        PROVE  Attempt(b)'
    <3>1. CASE b = c
      <4>1. phase[c] = "asking" /\ life[c] # "idle"
        BY <2>4 DEF IInv, Attempt
      <4>2. request'[c] = None
        BY <1>3 DEF IInv, TypeOK
      <4> QED BY <1>3, <3>1, <4>1, <4>2 DEF Attempt
    <3>2. CASE b # c
      <4>1. request'[b] = request[b]
        BY <1>3, <3>2 DEF IInv, TypeOK
      <4>2. Untouched(b)' = Untouched(b) /\ Mode("client", b)' = Mode("client", b)
        BY <1>3, <2>1, <3>2 DEF Untouched, IsFree, Mode
      <4> QED BY <1>3, <4>1, <4>2 DEF Attempt, IInv
    <3> QED BY <3>1, <3>2
  <2> QED BY <1>5, <2>2, <2>3, <2>5, NoNewsStep
<1> QED BY <1>3, <1>6, <1>7

LEMMA CommandStep ==
  ASSUME IInv, NEW e \in End, NEW c \in Client, Command(e, c), UNCHANGED plan
  PROVE  IInv'
<1> DEFINE kind == Head(command[e][c])
           cs   == Tail(command[e][c])
           s    == slot[e][c]
<1>1. command[e][c] \in Seq(CommandKind) /\ command[e][c] # <<>> /\ s \in Slot
  BY DEF IInv, StateOK, Command
<1>2. kind \in CommandKind /\ cs \in Seq(CommandKind)
  BY <1>1
<1>3. command' = [command EXCEPT ![e][c] = cs]
  BY DEF Command
<1>4. UNCHANGED <<life, request, net, incoming, phase, mPlayerMap>>
  BY DEF Command
<1>5. PICK t \in Slot: /\ SetSlot(e, c, t)
                       /\ t.connectMode \in {s.connectMode, "DISCONNECT_ASAP"}
                       /\ \A w \in t.waiting: w \in s.waiting \/ w[2] \in CommandKind
  <2>1. CASE SetSlot(e, c, Notified(s))
    <3>1. Notified(s) \in Slot /\ Notified(s).connectMode = "DISCONNECT_ASAP"
          /\ Notified(s).waiting = s.waiting \cup {<<s.next, "DISCONNECTION_NOTIFICATION">>}
      BY <1>1, SlotOperators DEF Kind
    <3> QED BY <2>1, <3>1 DEF CommandKind
  <2>2. CASE SetSlot(e, c, Sent(s, kind))
    <3>1. kind \in Kind
      BY <1>2 DEF Kind
    <3> HIDE DEF kind
    <3>2. Sent(s, kind) \in Slot /\ Sent(s, kind).connectMode = s.connectMode
          /\ Sent(s, kind).waiting = s.waiting \cup {<<s.next, kind>>}
      BY <1>1, <3>1, SlotOperators
    <3> QED BY <1>2, <2>2, <3>2
  <2>3. CASE SetSlot(e, c, Notified(Free))
    <3>1. Free \in Slot /\ Free.waiting = {} /\ "KEEPALIVE" \in Kind
      BY FreshSlot DEF Free, ConnectMode, Kind
    <3>2. Notified(Free) \in Slot /\ Notified(Free).connectMode = "DISCONNECT_ASAP"
          /\ Notified(Free).waiting = Free.waiting \cup {<<Free.next, "DISCONNECTION_NOTIFICATION">>}
      BY <3>1, SlotOperators
    <3> QED BY <2>3, <3>1, <3>2 DEF CommandKind
  <2>4. CASE UNCHANGED slot
    BY <1>1, <2>4, SameSlot DEF IInv
  <2> QED BY <2>1, <2>2, <2>3, <2>4 DEF Command
<1>6. /\ slot' \in [End -> [Client -> Slot]]
      /\ slot'[e][c] = t
      /\ \A f \in End: \A b \in Client: f # e \/ b # c => slot'[f][b] = slot[f][b]
  BY <1>5, SlotUpdate DEF IInv
<1> HIDE DEF kind, cs
<1>7. /\ command' \in [End -> [Client -> Seq(CommandKind)]]
      /\ \A f \in End: \A b \in Client: f # e \/ b # c => command'[f][b] = command[f][b]
  BY <1>2, <1>3 DEF IInv, StateOK
<1>8. TypeOK' /\ StateOK'
  BY <1>4, <1>6, <1>7 DEF IInv, TypeOK, StateOK
<1>9. NoNews
  <2>1. \A f \in End: \A b \in Client: Mode(f, b)' \in {Mode(f, b), "DISCONNECT_ASAP"}
    BY <1>5, <1>6 DEF Mode
  <2>2. \A b \in Client: \A w \in slot'["client"][b].waiting:
           w[2] = "NEW_INCOMING_CONNECTION" => w \in slot["client"][b].waiting
    BY <1>5, <1>6 DEF End, CommandKind
  <2> QED BY <1>4, <2>1, <2>2 DEF NoNews, Told, End
<1>10. ASSUME NEW b \in Client
       PROVE  Attempt(b)'
  <2>1. CASE b # c \/ e = "server"
    <3>1. slot'["client"][b] = slot["client"][b] /\ command'["client"][b] = command["client"][b]
      BY <1>6, <1>7, <2>1 DEF End
    <3> QED BY <1>4, <3>1 DEF IInv, Attempt, Untouched, IsFree, Mode
  <2>2. CASE b = c /\ e = "client"
    <3>1. ~Untouched(c)
      BY <1>1, <2>2 DEF Untouched
    <3>2. Mode("client", c)' = "REQUESTED_CONNECTION" => Mode("client", c) = "REQUESTED_CONNECTION"
      BY <1>5, <1>6, <2>2 DEF Mode
    <3> QED BY <1>4, <2>2, <3>1, <3>2 DEF IInv, Attempt
  <2> QED BY <2>1, <2>2 DEF End
<1> QED BY <1>8, <1>9, <1>10, NoNewsStep

LEMMA ReadStep ==
  ASSUME IInv, NEW e \in End, NEW c \in Client, Reads(e, c), UNCHANGED plan,
         mPlayerMap' \subseteq Client,
         NEW q \in Seq(CommandKind), command' = [command EXCEPT ![e][c] = q] \/ UNCHANGED command
  PROVE  IInv'
<1>1. incoming[e][c] \in Seq(News) /\ incoming[e][c] # <<>>
  BY DEF IInv, StateOK, Reads
<1> DEFINE r == Tail(incoming[e][c])
<1>2. r \in Seq(News)
  BY <1>1
<1>3. incoming' = [incoming EXCEPT ![e][c] = r]
  BY DEF Reads
<1> HIDE DEF r
<1>4. /\ incoming' \in [End -> [Client -> Seq(News)]]
      /\ \A f \in End: \A b \in Client: f # e \/ b # c => incoming'[f][b] = incoming[f][b]
  BY <1>2, <1>3 DEF IInv, StateOK
<1>5. /\ command' \in [End -> [Client -> Seq(CommandKind)]]
      /\ \A f \in End: \A b \in Client: f # e \/ b # c => command'[f][b] = command[f][b]
  <2>1. CASE UNCHANGED command
    BY <2>1 DEF IInv, StateOK
  <2>2. CASE command' = [command EXCEPT ![e][c] = q]
    BY <2>2 DEF IInv, StateOK
  <2> QED BY <2>1, <2>2
<1>6. UNCHANGED <<life, request, slot, net, phase>>
  BY DEF Reads
<1>7. TypeOK' /\ StateOK'
  BY <1>4, <1>5, <1>6 DEF IInv, TypeOK, StateOK
<1>8. NoNews
  BY <1>6 DEF NoNews, Told, Mode
<1>9. ASSUME NEW b \in Client
      PROVE  Attempt(b)'
  <2>1. CASE b # c \/ e = "server"
    <3>1. incoming'["client"][b] = incoming["client"][b] /\ command'["client"][b] = command["client"][b]
      BY <1>4, <1>5, <2>1 DEF End
    <3> QED BY <1>6, <3>1 DEF IInv, Attempt, Untouched, IsFree, Mode
  <2>2. CASE b = c /\ e = "client"
    <3>1. ~Untouched(c)
      BY <1>1, <2>2 DEF Untouched
    <3> QED BY <1>6, <2>2, <3>1 DEF IInv, Attempt, Mode
  <2> QED BY <2>1, <2>2 DEF End
<1> QED BY <1>7, <1>8, <1>9, NoNewsStep

LEMMA ClientReadsStep ==
  ASSUME IInv, NEW c \in Client, ClientReads(c), UNCHANGED plan
  PROVE  IInv'
<1> DEFINE q == command["client"][c] \o <<"ENTER_SERVER">>
<1>1. "client" \in End /\ command["client"][c] \in Seq(CommandKind)
      /\ <<"ENTER_SERVER">> \in Seq(CommandKind)
  BY DEF End, IInv, StateOK, CommandKind
<1>2. q \in Seq(CommandKind)
  BY <1>1
<1>3. command' = [command EXCEPT !["client"][c] = q] \/ UNCHANGED command
  BY DEF ClientReads, Buffer
<1>4. Reads("client", c) /\ mPlayerMap' \subseteq Client
  BY DEF ClientReads, IInv, TypeOK
<1> HIDE DEF q
<1> QED BY <1>1, <1>2, <1>3, <1>4, ReadStep

LEMMA ServerReadsStep ==
  ASSUME IInv, NEW c \in Client, ServerReads(c), UNCHANGED plan
  PROVE  IInv'
<1> DEFINE full == IF ValidSendTarget("server", c) THEN <<"NO_FREE_INCOMING_CONNECTIONS">> ELSE <<>>
           told == Append(full, "DISCONNECTION_NOTIFICATION")
           q    == command["server"][c] \o told
<1>1. "server" \in End /\ command["server"][c] \in Seq(CommandKind)
  BY DEF End, IInv, StateOK
<1>2. full \in Seq(CommandKind) /\ "DISCONNECTION_NOTIFICATION" \in CommandKind
  <2>1. "NO_FREE_INCOMING_CONNECTIONS" \in CommandKind /\ "DISCONNECTION_NOTIFICATION" \in CommandKind
    BY DEF CommandKind
  <2>2. <<"NO_FREE_INCOMING_CONNECTIONS">> \in Seq(CommandKind) /\ <<>> \in Seq(CommandKind)
    BY <2>1
  <2>3. full \in {<<"NO_FREE_INCOMING_CONNECTIONS">>, <<>>}
    OBVIOUS
  <2> HIDE DEF full
  <2> QED BY <2>1, <2>2, <2>3
<1>3. Reads("server", c) /\ mPlayerMap' \subseteq Client
  BY DEF ServerReads, IInv, TypeOK
<1>4. command' = [command EXCEPT !["server"][c] = q] \/ UNCHANGED command
  BY DEF ServerReads, Buffer
<1> HIDE DEF full
<1>5. told \in Seq(CommandKind)
  BY <1>2
<1> HIDE DEF told
<1>6. q \in Seq(CommandKind)
  BY <1>1, <1>5
<1> HIDE DEF q
<1> QED BY <1>1, <1>3, <1>4, <1>6, ReadStep

LEMMA LeaveStep ==
  ASSUME IInv, NEW p \in plan.stops, Leave(p), UNCHANGED plan
  PROVE  IInv'
<1>1. p \in Program
  BY PlanOK
<1>2. UNCHANGED <<request, slot, net, incoming, phase, mPlayerMap>> /\ life[p] = "running"
      /\ life' = [life EXCEPT ![p] = "leaving"]
  BY DEF Leave
<1>3. command' \in [End -> [Client -> Seq(CommandKind)]]
  <2>1. \A e \in End: \A c \in Client:
           Append(command[e][c], "DISCONNECTION_NOTIFICATION") \in Seq(CommandKind)
    BY DEF IInv, StateOK, CommandKind
  <2> QED BY <2>1 DEF Leave, IInv, StateOK
<1>4. \A c \in Client: IsFree("client", c) => command'["client"][c] = command["client"][c]
  BY DEF Leave, End
<1>5. TypeOK' /\ StateOK'
  BY <1>1, <1>2, <1>3 DEF IInv, TypeOK, StateOK
<1>6. NoNews
  BY <1>2 DEF NoNews, Told, Mode
<1>7. ASSUME NEW b \in Client
      PROVE  Attempt(b)'
  <2>1. b \in Program
    BY DEF Program
  <2>2. life'[b] = "idle" <=> life[b] = "idle"
    BY <1>1, <1>2, <2>1 DEF IInv, TypeOK
  <2>3. Untouched(b) => Untouched(b)'
    BY <1>2, <1>4 DEF Untouched, IsFree
  <2> QED BY <1>2, <2>2, <2>3 DEF IInv, Attempt, Mode
<1> QED BY <1>5, <1>6, <1>7, NoNewsStep

LEMMA StopStep ==
  ASSUME IInv, NEW p \in plan.stops, Stop(p), UNCHANGED plan
  PROVE  IInv'
<1>1. p \in Program /\ None \in None..plan.requests
  BY PlanOK DEF None
<1>2. Free \in Slot /\ Free.connectMode = "FREE" /\ Free.waiting = {}
  BY FreshSlot DEF Free, ConnectMode
<1>3. /\ slot' \in [End -> [Client -> Slot]]
      /\ \A e \in End: \A c \in Client:
            slot'[e][c] = IF ProgramAt(e, c) = p THEN Free ELSE slot[e][c]
  BY <1>2 DEF Stop, IInv, StateOK
<1>4. /\ command' \in [End -> [Client -> Seq(CommandKind)]]
      /\ \A e \in End: \A c \in Client: command'[e][c] \in {command[e][c], <<>>}
  BY DEF Stop, IInv, StateOK
<1>5. UNCHANGED <<net, incoming, mPlayerMap>> /\ life[p] # "idle"
      /\ life' = [life EXCEPT ![p] = "gone"]
  BY DEF Stop
<1>6. \A c \in Client: /\ request'[c] = (IF c = p THEN None ELSE request[c])
                        /\ phase'[c] = (IF c = p THEN Over(phase[c]) ELSE phase[c])
  BY DEF Stop
<1>7. request' \in [Client -> None..plan.requests]
  BY <1>1 DEF Stop, IInv, TypeOK
<1>8. phase' \in [Client -> {"idle", "asking", "open", "failed", "closed"}]
  BY DEF Stop, IInv, TypeOK, Over
<1>9. TypeOK' /\ StateOK'
  BY <1>1, <1>3, <1>4, <1>5, <1>7, <1>8 DEF IInv, TypeOK, StateOK
<1>10. NoNews
  <2>1. \A b \in Client: Told(b) => Told(b)'
    BY <1>6 DEF Told, Over
  <2>2. \A b \in Client: \A w \in slot'["client"][b].waiting: w \in slot["client"][b].waiting
    BY <1>2, <1>3 DEF End
  <2>3. \A b \in Client: Mode("server", b)' \in {"FREE", Mode("server", b)}
    BY <1>2, <1>3 DEF End, Mode
  <2> QED BY <1>5, <2>1, <2>2, <2>3 DEF NoNews
<1>11. ASSUME NEW b \in Client
       PROVE  Attempt(b)'
  <2>1. b \in Program /\ ProgramAt("client", b) = b
    BY DEF Program, ProgramAt
  <2>2. CASE b = p
    <3>1. phase[b] # "idle"
      BY <1>5, <2>2 DEF IInv, Attempt
    <3>2. phase'[b] \in {"failed", "closed"} /\ request'[b] = None
      BY <1>6, <2>2 DEF Over
    <3>3. Mode("client", b)' = "FREE"
      BY <1>2, <1>3, <2>1, <2>2 DEF Mode, End
    <3>4. life'[b] = "gone"
      BY <1>1, <1>5, <2>2 DEF IInv, TypeOK
    <3> QED BY <3>2, <3>3, <3>4 DEF Attempt
  <2>3. CASE b # p
    <3>1. slot'["client"][b] = slot["client"][b]
      BY <1>3, <2>1, <2>3 DEF End
    <3>2. Untouched(b) => Untouched(b)'
      BY <1>4, <1>5, <3>1 DEF Untouched, IsFree, End
    <3>3. life'[b] = life[b] /\ phase'[b] = phase[b] /\ request'[b] = request[b]
      BY <1>5, <1>6, <2>1, <2>3 DEF IInv, TypeOK
    <3> QED BY <3>1, <3>2, <3>3 DEF IInv, Attempt, Mode
  <2> QED BY <2>2, <2>3
<1> QED BY <1>9, <1>10, <1>11, NoNewsStep

-----------------------------------------------------------------------------
(* The invariant.                                                             *)

LEMMA InitInv == Init => IInv
<1> SUFFICES ASSUME Init PROVE IInv
  OBVIOUS
<1>1. Free \in Slot /\ Free.connectMode = "FREE" /\ Free.waiting = {}
  BY FreshSlot DEF Free, ConnectMode
<1>2. plan.requests \in Nat /\ None \in None..plan.requests
  BY ConnectionAssumption DEF Init, None
<1>3. TypeOK
  BY <1>2 DEF Init, TypeOK
<1>4. StateOK
  BY <1>1 DEF Init, StateOK
<1>5. \A c \in Client: Attempt(c) /\ Announced(c)
  BY <1>1, ConnectionAssumption
     DEF Init, Attempt, Announced, Untouched, IsFree, Mode, Program, End
<1> QED BY <1>3, <1>4, <1>5 DEF IInv

LEMMA StutterInv ==
  ASSUME IInv, UNCHANGED vars
  PROVE  IInv'
BY DEF vars, IInv, TypeOK, StateOK, Attempt, Announced, Untouched, Told, IsFree, Mode

LEMMA UpdateInv ==
  ASSUME IInv, NEW e \in End, NEW c \in Client, Update(e, c), UNCHANGED plan
  PROVE  IInv'
<1>1. CASE ReceiveAck(e, c) BY <1>1, AckStep
<1>2. CASE ReceiveNonsense(e, c) BY <1>2, NonsenseStep
<1>3. CASE ReceiveNotification(e, c) BY <1>3, NotificationStep
<1>4. CASE ReceiveData(e, c) BY <1>4, DataStep
<1>5. CASE KeepAlive(e, c) BY <1>5, KeepAliveStep
<1>6. CASE Age(e, c) BY <1>6, AgeStep
<1>7. CASE Die(e, c) BY <1>7, DieStep
<1>8. CASE Finish(e, c) BY <1>8, FailStep DEF Finish
<1>9. CASE Expire(e, c) BY <1>9, FailStep DEF Expire
<1>10. CASE Command(e, c) BY <1>10, CommandStep
<1> QED BY <1>1, <1>2, <1>3, <1>4, <1>5, <1>6, <1>7, <1>8, <1>9, <1>10 DEF Update

LEMMA NextInv == IInv /\ [Next]_vars => IInv'
<1> SUFFICES ASSUME IInv, [Next]_vars PROVE IInv'
  OBVIOUS
<1>1. CASE UNCHANGED vars
  BY <1>1, StutterInv
<1>2. ASSUME NEW p \in plan.stops, Leave(p) \/ Stop(p), UNCHANGED plan
      PROVE  IInv'
  BY <1>2, LeaveStep, StopStep
<1>3. ASSUME NEW c \in Client, NEW e \in End, Update(e, c), UNCHANGED plan
      PROVE  IInv'
  BY <1>3, UpdateInv
<1>4. ASSUME NEW c \in Client, UNCHANGED plan,
             \/ Connect(c) \/ Ask(c) \/ GiveUp(c)
             \/ ReceiveOpenRequest(c) \/ ReceiveOpenReply(c)
             \/ ReceiveConnectionRequest(c) \/ ReceiveAccepted(c) \/ ReceiveNewIncoming(c)
             \/ ClientReads(c) \/ ServerReads(c)
      PROVE  IInv'
  <2>1. CASE Connect(c) BY <1>4, <2>1, ConnectStep
  <2>2. CASE Ask(c) BY <1>4, <2>2, AskStep
  <2>3. CASE GiveUp(c) BY <1>4, <2>3, GiveUpStep
  <2>4. CASE ReceiveOpenRequest(c) BY <1>4, <2>4, OpenRequestStep
  <2>5. CASE ReceiveOpenReply(c) BY <1>4, <2>5, OpenReplyStep
  <2>6. CASE ReceiveConnectionRequest(c) BY <1>4, <2>6, ConnectionRequestStep
  <2>7. CASE ReceiveAccepted(c) BY <1>4, <2>7, AcceptedStep
  <2>8. CASE ReceiveNewIncoming(c) BY <1>4, <2>8, NewIncomingStep
  <2>9. CASE ClientReads(c) BY <1>4, <2>9, ClientReadsStep
  <2>10. CASE ServerReads(c) BY <1>4, <2>10, ServerReadsStep
  <2> QED BY <1>4, <2>1, <2>2, <2>3, <2>4, <2>5, <2>6, <2>7, <2>8, <2>9, <2>10
<1> QED BY <1>1, <1>2, <1>3, <1>4 DEF Next, Step

LEMMA Invariance == Spec => []IInv
BY InitInv, NextInv, PTL DEF Spec

\* The life of every program, the requests of every client and what its game
\* was told keep to their values; requests are bounded by the plan
\* (requestedConnectionList in RunUpdateCycle).
THEOREM TypeCorrect == Spec => []TypeOK
<1>1. IInv => TypeOK
  BY DEF IInv
<1> QED BY <1>1, Invariance, PTL

\* However many connect, retry, fail and come back late: whom the server counts
\* as connected, its game has been told of the connection (ID_CONNECTION_REQUEST_
\* ACCEPTED and ID_NEW_INCOMING_CONNECTION in RunUpdateCycle).
THEOREM CountedIsTold == Spec => []ConnectedIsMutual
<1>1. IInv => ConnectedIsMutual
  BY DEF IInv, Announced, ConnectedIsMutual, Told
<1> QED BY <1>1, Invariance, PTL

-----------------------------------------------------------------------------
(* An attempt is answered once.                                               *)

LEMMA PhaseMove ==
  ASSUME IInv, NEW c \in Client, NEW x, phase' = [phase EXCEPT ![c] = x],
         \/ x = phase[c]
         \/ phase[c] = "idle" /\ x = "asking"
         \/ phase[c] = "asking" /\ x \in {"open", "failed"}
         \/ phase[c] # "idle" /\ x = Over(phase[c])
  PROVE  [Sessions!Next]_phase
<1>1. phase \in [Client -> Phase]
  BY DEF IInv, TypeOK, Phase
<1>2. CASE x = phase[c]
  BY <1>1, <1>2
<1>3. CASE x # phase[c]
  <2>1. \/ phase[c] = "idle" /\ x = "asking"
        \/ phase[c] = "asking" /\ x \in {"open", "failed"}
        \/ phase[c] = "open" /\ x = "closed"
    BY <1>1, <1>3 DEF Over, Phase
  <2> QED BY <2>1 DEF Sessions!Next, Sessions!Begin, Sessions!Open, Sessions!Fail, Sessions!Close
<1> QED BY <1>2, <1>3

LEMMA PushMove ==
  ASSUME IInv, NEW e \in End, NEW c \in Client, NEW k \in News, Push(e, c, k),
         e = "client" =>
            /\ phase[c] # "idle"
            /\ k \in {"CONNECTION_REQUEST_ACCEPTED", "CONNECTION_ATTEMPT_FAILED"} => phase[c] = "asking"
  PROVE  [Sessions!Next]_phase
<1>1. CASE e = "server"
  BY <1>1 DEF Push
<1>2. CASE e = "client"
  <2>1. PICK x: /\ TellsPhase(c, x)
                /\ k = "CONNECTION_REQUEST_ACCEPTED" => x = "open"
                /\ k = "CONNECTION_ATTEMPT_FAILED" => x = "failed"
                /\ k \in Ends => x = Over(phase[c])
                /\ k \in Kind \ (Ends \cup {"CONNECTION_REQUEST_ACCEPTED"}) => x = phase[c]
    BY <1>2, PushStep
  <2>2. \/ x = phase[c]
        \/ phase[c] = "asking" /\ x \in {"open", "failed"}
        \/ phase[c] # "idle" /\ x = Over(phase[c])
    BY <1>2, <2>1 DEF News
  <2> QED BY <2>1, <2>2, PhaseMove DEF TellsPhase
<1> QED BY <1>1, <1>2 DEF End

LEMMA ReportMove ==
  ASSUME IInv, NEW e \in End, NEW c \in Client, Report(e, c)
  PROVE  [Sessions!Next]_phase
<1>1. e = "client" /\ ~IsFree("client", c) => phase[c] # "idle"
  BY DEF IInv, Attempt, Untouched
<1>2. CASE Mode(e, c) = "CONNECTED"
  <2>1. Push(e, c, "CONNECTION_LOST") /\ ~IsFree(e, c)
    BY <1>2 DEF Report, Mode, IsFree
  <2> QED BY <1>1, <2>1, PushMove DEF News, Ends
<1>3. CASE Mode(e, c) = "REQUESTED_CONNECTION"
  <2>1. Push(e, c, "CONNECTION_ATTEMPT_FAILED")
    BY <1>3 DEF Report
  <2>2. e = "client" => phase[c] = "asking"
    BY <1>3 DEF IInv, Attempt
  <2> QED BY <2>1, <2>2, PushMove DEF News
<1>4. CASE Mode(e, c) \notin {"CONNECTED", "REQUESTED_CONNECTION"}
  BY <1>4 DEF Report, Queues
<1> QED BY <1>2, <1>3, <1>4

LEMMA UpdateMove ==
  ASSUME IInv, NEW e \in End, NEW c \in Client, Update(e, c)
  PROVE  [Sessions!Next]_phase
<1>1. ASSUME NEW d \in UnderWay(e, c), ~IsFree(e, c), Push(e, c, d.kind),
             d.kind \in {"DISCONNECTION_NOTIFICATION", "ENTER_SERVER", "NO_FREE_INCOMING_CONNECTIONS"}
      PROVE  [Sessions!Next]_phase
  <2>1. d.kind \in News \ {"CONNECTION_REQUEST_ACCEPTED", "CONNECTION_ATTEMPT_FAILED"}
    BY <1>1 DEF News, Kind, CommandKind
  <2>2. e = "client" => phase[c] # "idle"
    BY <1>1 DEF IInv, Attempt, Untouched
  <2> QED BY <1>1, <2>1, <2>2, PushMove
<1>2. CASE ReceiveNotification(e, c) \/ ReceiveData(e, c)
  BY <1>1, <1>2 DEF ReceiveNotification, ReceiveData, Takes, Arrives
<1>3. CASE Die(e, c) \/ Finish(e, c) \/ Expire(e, c)
  BY <1>3, ReportMove DEF Die, Finish, Expire, Fail
<1>4. CASE \/ ReceiveAck(e, c) \/ ReceiveNonsense(e, c) \/ KeepAlive(e, c)
           \/ Age(e, c) \/ Command(e, c)
  BY <1>4 DEF ReceiveAck, ReceiveNonsense, KeepAlive, Age, Command, Queues
<1> QED BY <1>2, <1>3, <1>4 DEF Update

LEMMA StopMove ==
  ASSUME IInv, NEW p \in plan.stops, Stop(p)
  PROVE  [Sessions!Next]_phase
<1>1. phase \in [Client -> Phase]
  BY DEF IInv, TypeOK, Phase
<1>2. phase' = [c \in Client |-> IF c = p THEN Over(phase[c]) ELSE phase[c]] /\ life[p] # "idle"
  BY DEF Stop
<1>3. CASE p \in Client
  <2>1. phase' = [phase EXCEPT ![p] = Over(phase[p])]
    BY <1>1, <1>2
  <2>2. phase[p] # "idle"
    BY <1>2, <1>3 DEF IInv, Attempt
  <2> QED BY <1>3, <2>1, <2>2, PhaseMove
<1>4. CASE p \notin Client
  BY <1>1, <1>2, <1>4
<1> QED BY <1>3, <1>4

LEMMA SessionStep == IInv /\ [Next]_vars => [Sessions!Next]_phase
<1> SUFFICES ASSUME IInv, [Next]_vars PROVE [Sessions!Next]_phase
  OBVIOUS
<1>1. CASE UNCHANGED vars
  BY <1>1 DEF vars
<1>2. ASSUME NEW p \in plan.stops, Leave(p) \/ Stop(p)
      PROVE  [Sessions!Next]_phase
  BY <1>2, StopMove DEF Leave
<1>3. ASSUME NEW c \in Client, NEW e \in End, Update(e, c)
      PROVE  [Sessions!Next]_phase
  BY <1>3, UpdateMove
<1>4. ASSUME NEW c \in Client,
             \/ Ask(c) \/ ReceiveOpenRequest(c) \/ ReceiveOpenReply(c)
             \/ ReceiveConnectionRequest(c) \/ ClientReads(c) \/ ServerReads(c)
      PROVE  [Sessions!Next]_phase
  BY <1>4 DEF Ask, ReceiveOpenRequest, ReceiveOpenReply, ReceiveConnectionRequest,
              ClientReads, ServerReads, Reads, Queues
<1>5. ASSUME NEW c \in Client, Connect(c)
      PROVE  [Sessions!Next]_phase
  <2>1. phase[c] = "idle" /\ phase' = [phase EXCEPT ![c] = "asking"]
    BY <1>5 DEF Connect, IInv, Attempt
  <2> QED BY <2>1, PhaseMove
<1>6. ASSUME NEW c \in Client, GiveUp(c)
      PROVE  [Sessions!Next]_phase
  <2>1. request[c] # None
    BY <1>6, PlanOK DEF GiveUp, None
  <2>2. phase[c] = "asking" /\ Push("client", c, "CONNECTION_ATTEMPT_FAILED")
    BY <1>6, <2>1 DEF GiveUp, IInv, Attempt
  <2> QED BY <2>2, PushMove DEF News, End
<1>7. ASSUME NEW c \in Client, ReceiveAccepted(c)
      PROVE  [Sessions!Next]_phase
  <2>1. \/ /\ Mode("client", c) = "REQUESTED_CONNECTION"
           /\ Push("client", c, "CONNECTION_REQUEST_ACCEPTED")
        \/ UNCHANGED Queues
    BY <1>7 DEF ReceiveAccepted, Takes, Mode
  <2>2. CASE /\ Mode("client", c) = "REQUESTED_CONNECTION"
             /\ Push("client", c, "CONNECTION_REQUEST_ACCEPTED")
    <3>1. phase[c] = "asking"
      BY <2>2 DEF IInv, Attempt
    <3> QED BY <2>2, <3>1, PushMove DEF News, Kind, End
  <2> QED BY <2>1, <2>2 DEF Queues
<1>8. ASSUME NEW c \in Client, ReceiveNewIncoming(c)
      PROVE  [Sessions!Next]_phase
  BY <1>8 DEF ReceiveNewIncoming, Push, Queues
<1> QED BY <1>1, <1>2, <1>3, <1>4, <1>5, <1>6, <1>7, <1>8 DEF Next, Step

\* The steps of the network threads are steps of a connection attempt as the
\* game sees it, or none: at most one answer, no connection after a failure and
\* no second one (what SessionSpec asks for, but for the answer in the end).
THEOREM AnsweredOnce == Spec => Sessions!Init /\ [][Sessions!Next]_phase
<1>1. Init => Sessions!Init
  BY DEF Init, Sessions!Init
<1> QED BY <1>1, Invariance, SessionStep, PTL DEF Spec
=============================================================================
