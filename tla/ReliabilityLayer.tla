--------------------------- MODULE ReliabilityLayer ---------------------------
(* The reliability layers of the two ends of a connection and the datagrams   *)
(* between them.  Each end numbers its packets, keeps the reliable ones until *)
(* they are acknowledged, sends them again when that takes too long, and      *)
(* sorts what comes in.  The network may lose, duplicate and reorder.         *)
(*                                                                            *)
(* Times are distances from the present: how long a timer still has to run    *)
(* (due when negative), or how long ago something was.                        *)
EXTENDS Integers, Sequences, SequencesExt, FiniteSetsExt

CONSTANTS
    Loads,          \* what the ends send, and if the network keeps the order
    OrderModulus,   \* values of an OrderingIndexType, 256
    MinWindow,      \* MINIMUM_WINDOW_SIZE, 5
    MaxWindow,      \* MAXIMUM_WINDOW_SIZE, 3751
    Timeout,        \* TIMEOUT_TIME
    ResendDelay,    \* lostPacketResendDelay, twice the lowest ping
    FrameSize,      \* packets that fit into one datagram
    Uptime,         \* how long the programs run when they connect
    MaxDelay,       \* how long the network keeps a datagram
    MaxLosses,      \* how many it loses
    MaxCopies       \* how many it delivers twice

Peer == {"client", "server"}
Other(p) == CHOOSE q \in Peer: q # p

Priorities == <<"SYSTEM", "HIGH", "MEDIUM", "LOW">>
Priority   == Range(Priorities)

\* PacketReliability.
Kind == {"UNRELIABLE", "UNRELIABLE_SEQUENCED",
         "RELIABLE", "RELIABLE_ORDERED", "RELIABLE_SEQUENCED"}

Reliable(kind)  == kind \in {"RELIABLE", "RELIABLE_ORDERED", "RELIABLE_SEQUENCED"}
Sequenced(kind) == kind \in {"UNRELIABLE_SEQUENCED", "RELIABLE_SEQUENCED"}

\* What is sent unreliably is never large.
Message == {m \in [kind: Kind, priority: Priority, parts: 1..3]:
              m.parts > 1 => Reliable(m.kind) /\ ~Sequenced(m.kind)}

ASSUME LayerAssumption ==
    /\ Loads \subseteq [inOrder: BOOLEAN, messages: [Peer -> Seq(Message)]]
    /\ OrderModulus \in {2 * k : k \in 2..128}
    /\ MinWindow \in Nat \ {0} /\ MaxWindow \in Nat /\ MinWindow <= MaxWindow
    /\ Timeout \in Nat /\ ResendDelay \in Nat \ {0} /\ Uptime \in 0..Timeout
    /\ FrameSize \in Nat \ {0}
    /\ MaxDelay \in Nat /\ MaxLosses \in Nat /\ MaxCopies \in Nat

None == -1

VARIABLES
    load,     \* the network, and what is left to send
    packet,   \* the packets of each end, by their packetNumber (from 0)
    out,      \* the half of each layer that sends
    in,       \* the half that receives
    uptime,   \* how long each program runs, up to Timeout
    net,      \* the datagrams on their way to each end
    cut,      \* nothing gets through any more
    losses, copies,
    tick      \* alternates with every unit of time

\* The elements of a sequence that are in a set.
Only(s, S) ==
    LET upTo[n \in 0..Len(s)] ==
          IF n = 0 THEN <<>>
          ELSE IF s[n] \in S THEN Append(upTo[n - 1], s[n]) ELSE upTo[n - 1]
    IN upTo[Len(s)]

Numbers(p) == 0..Len(packet[p]) - 1

vars == <<load, packet, out, in, uptime, net, cut, losses, copies, tick>>

Hole == [number |-> None, wait |-> 0]   \* of a resendQueue

Init ==
    /\ load \in Loads
    /\ packet = [p \in Peer |-> <<>>]
    /\ out = [p \in Peer |->
                [queue  |-> [i \in Priority |-> <<>>],   \* sendPacketSet
                 orderedWrite |-> 0, sequencedWrite |-> 0,
                 resend |-> <<>>,
                 lastAck |-> None,                       \* lastAckTime; 0 in the code
                 window |-> MinWindow, lossyWindow |-> MaxWindow + 1,
                 sinceIncrease |-> 2 * ResendDelay + 1,  \* lastWindowIncreaseSizeTime
                 dead   |-> FALSE]]
    /\ in = [p \in Peer |->
                [base |-> 0, received |-> <<>>,
                 acks |-> <<>>,                          \* acknowledgementQueue
                 orderedRead |-> 0, sequencedRead |-> 0,
                 ordering |-> <<>>,                      \* orderingList
                 splits |-> {},                          \* splitPacketList
                 output |-> <<>>,                        \* all that was ever in outputQueue
                 taken |-> {}]]                          \* numbers that were no duplicate
    /\ uptime = [p \in Peer |-> Uptime]
    /\ net = [p \in Peer |-> <<>>] /\ cut = FALSE /\ losses = 0 /\ copies = 0 /\ tick = FALSE

-----------------------------------------------------------------------------
(* Sending.                                                                   *)

\* All parts of a large message but the last take up a datagram, holes nothing.
Weight(p, numbers) ==
    LET there == SelectSeq(numbers, LAMBDA n: n # None)
        full  == SelectSeq(there, LAMBDA n: packet[p][n + 1].part < packet[p][n + 1].parts)
    IN Len(there) + (FrameSize - 1) * Len(full)

\* How many elements of s come before the first that is not in order.
Leading(s, Test(_)) ==
    Max({n \in 0..Len(s): \A i \in 1..n: Test(i)})

Send(p) ==
    /\ ~out[p].dead
    /\ load.messages[p] # <<>>
    /\ LET m     == Head(load.messages[p])
           first == Len(packet[p])
           index == IF Sequenced(m.kind) THEN out[p].sequencedWrite
                    ELSE IF m.kind = "RELIABLE_ORDERED" THEN out[p].orderedWrite
                    ELSE None
           next  == (index + 1) % OrderModulus
           Part(i) == [kind |-> m.kind, index |-> index, priority |-> m.priority,
                       message |-> first, part |-> i, parts |-> m.parts]
       IN /\ load' = [load EXCEPT !.messages[p] = Tail(@)]
          /\ packet' = [packet EXCEPT ![p] = @ \o [i \in 1..m.parts |-> Part(i)]]
          /\ out' = [out EXCEPT
               ![p].queue[m.priority] = @ \o [i \in 1..m.parts |-> first + i - 1],
               ![p].sequencedWrite = IF Sequenced(m.kind) THEN next ELSE @,
               ![p].orderedWrite = IF m.kind = "RELIABLE_ORDERED" THEN next ELSE @]
    /\ UNCHANGED <<in, uptime, net, cut, losses, copies, tick>>

\* Holes of the resend queue count.
IsSendThrottled(o) == Len(o.resend) >= o.window

Due(e) == e.wait < 0

ReadyUnlessThrottled(o, acks) == ~IsSendThrottled(o) \/ Len(acks) >= MinWindow

IsFrameReady(o, acks) ==
    \/ ~IsSendThrottled(o)
    \/ Len(acks) >= MinWindow
    \/ /\ o.resend # <<>>
       /\ Head(o.resend) # Hole
       /\ Due(Head(o.resend))

SmallerWithoutEnd(o) == [o EXCEPT !.window = @ - 1, !.lossyWindow = o.window - 1]

\* A round of resends makes the window smaller, once.
UpdatePacketloss(o) ==
    LET smaller == Max({o.window - 1, MinWindow})
    IN [o EXCEPT !.window = smaller, !.lossyWindow = smaller, !.sinceIncrease = 0]

\* A resend starts the timer for the next acknowledgement, but leaves one that
\* runs alone.
Restarted(time) == 0
Started(time)   == IF time = None THEN 0 ELSE time

NoneIsDone(e) == FALSE
IsDone(e)     == e = Hole

\* The first n of the resend queue: holes go, the others go out again and to the
\* end of the queue.
NumbersOf(o, n)     == [i \in 1..n |-> o.resend[i].number]
ResendPackets(o, n) == Only(NumbersOf(o, n), Nat)

Waiting(lost) == [i \in DOMAIN lost |-> [number |-> lost[i], wait |-> ResendDelay]]

Resent(o, lost, rest) ==
    LET o1 == [o EXCEPT !.resend  = rest \o Waiting(lost),
                        !.lastAck = IF lost # <<>> THEN Started(@) ELSE @]
    IN [packets |-> lost,
        full    |-> rest # <<>> /\ Due(Head(rest)),
        out     |-> IF lost # <<>> THEN UpdatePacketloss(o1) ELSE o1]

ResendFirst(o, n) ==
    Resent(o, ResendPackets(o, n), SubSeq(o.resend, n + 1, Len(o.resend)))

\* Those that are due, as many as fit.
Resend(p, o) ==
    ResendFirst(o, Leading(o.resend, LAMBDA i:
        /\ IsDone(o.resend[i]) \/ Due(o.resend[i])
        /\ Weight(p, NumbersOf(o, i)) <= FrameSize))

\* The packets "now" of a queue go out; the reliable ones are kept in the resend
\* queue, and restart the timer for the next acknowledgement.
TakeWaiting(p, r, i, now) ==
    LET kept == Only(now, {n \in Numbers(p): Reliable(packet[p][n + 1].kind)})
    IN [r EXCEPT !.packets = @ \o now,
                 !.out.queue[i] = SubSeq(@, Len(now) + 1, Len(@)),
                 !.out.resend = @ \o Waiting(kept),
                 !.out.lastAck = IF kept # <<>> THEN 0 ELSE @]

\* Waiting packets, by priority, as long as they fit.  None when packets that
\* are due did not, or when the window is closed.
FillFrom(p, r, i) ==
    LET q == r.out.queue[i]
    IN TakeWaiting(p, r, i, SubSeq(q, 1, Leading(q, LAMBDA k:
          Weight(p, r.packets \o SubSeq(q, 1, k)) <= FrameSize)))

Fill(p, r) ==
    IF r.full \/ IsSendThrottled(r.out) THEN [r EXCEPT !.full = TRUE]
    ELSE LET filled[n \in 0..Len(Priorities)] ==
               IF n = 0 THEN r ELSE FillFrom(p, filled[n - 1], Priorities[n])
         IN filled[Len(Priorities)]

\* Acknowledgements go first when they are overdue or many, and otherwise along
\* with packets.
AcksFirst(acks) == acks # <<>> /\ (Len(acks) >= MinWindow \/ Due(Head(acks)))

Frame(f, acks) ==
    LET go == AcksFirst(acks) \/ (~f.full /\ f.packets # <<>>)
    IN [out    |-> f.out,
        acks   |-> IF go THEN <<>> ELSE acks,
        sent   |-> [age     |-> 0,
                    packets |-> f.packets,
                    acks    |-> IF go THEN [i \in DOMAIN acks |-> acks[i].number]
                                      ELSE <<>>]]

GenerateFrame(p, s) == Frame(Fill(p, Resend(p, s.out)), s.acks)

Sending(s, g) ==
    LET empty == g.sent.packets = <<>> /\ g.sent.acks = <<>>
    IN [out  |-> g.out, acks |-> g.acks, more |-> ~empty,
        sent |-> IF empty THEN s.sent ELSE Append(s.sent, g.sent)]

\* As many datagrams as there are, while the window allows.
NextFrame(p, s) ==
    IF ~s.more \/ ~IsFrameReady(s.out, s.acks) THEN [s EXCEPT !.more = FALSE]
    ELSE Sending(s, GenerateFrame(p, s))

Updated(p) ==
    LET frames[n \in 0..Len(packet[p]) + 2] ==
          IF n = 0 THEN [out |-> out[p], acks |-> in[p].acks, more |-> TRUE, sent |-> <<>>]
          ELSE NextFrame(p, frames[n - 1])
    IN frames[Len(packet[p]) + 2]

Dying(p) == out[p].resend # <<>> /\ out[p].lastAck > Timeout

Changes(p, s) == s.out # out[p] \/ s.acks # in[p].acks

\* The network thread runs many times in a unit of time: whatever there is to
\* do is done before the clock goes on.
Busy(p) == ~out[p].dead /\ (Dying(p) \/ Changes(p, Updated(p)))

GiveUp(p) ==
    /\ Dying(p)
    /\ out' = [out EXCEPT ![p].dead = TRUE]
    /\ UNCHANGED <<in, net>>

SendWhatIsDue(p) ==
    /\ ~Dying(p)
    /\ LET s == Updated(p)
       IN /\ Changes(p, s)
          /\ out' = [out EXCEPT ![p] = s.out]
          /\ in'  = [in EXCEPT ![p].acks = s.acks]
          /\ net' = IF cut THEN net ELSE [net EXCEPT ![Other(p)] = @ \o s.sent]

Update(p) ==
    /\ ~out[p].dead
    /\ GiveUp(p) \/ SendWhatIsDue(p)
    /\ UNCHANGED <<load, packet, uptime, cut, losses, copies, tick>>

-----------------------------------------------------------------------------
(* Receiving.                                                                 *)

\* Only the last one is old.
IsLastOrderedPacket(a, b) == (a + 1) % OrderModulus = b

\* Is index a before index b?  Half of all values should be; for a b in the
\* upper half two of them are missing, for want of parentheses.
IsOlderOrderedPacket(a, b) ==
    LET half == (OrderModulus - 1) \div 2
    IN IF b > half THEN b - half + 1 <= a /\ a < b
                   ELSE (b - (half + 1)) % OrderModulus <= a \/ a < b

\* An acknowledged packet leaves the resend queue.  Anywhere but at the head it
\* leaves a hole; older sequenced packets need not be sent any more.
Acknowledge(p, o, n) ==
    LET pos == {i \in DOMAIN o.resend: o.resend[i].number = n}
        Superfluous(k) ==
            /\ packet[p][n + 1].kind = "RELIABLE_SEQUENCED"
            /\ k # None
            /\ packet[p][k + 1].kind = "RELIABLE_SEQUENCED"
            /\ IsOlderOrderedPacket(packet[p][k + 1].index, packet[p][n + 1].index)
        rest == IF pos = {1} THEN Tail(o.resend)
                ELSE [i \in DOMAIN o.resend |->
                        IF i \in pos THEN Hole ELSE o.resend[i]]
        o1 == [o EXCEPT !.lastAck = IF o.resend = <<>> THEN None ELSE 0]
    IN IF pos = {} THEN o1
       ELSE [o1 EXCEPT !.resend = [i \in DOMAIN rest |->
                IF Superfluous(rest[i].number) THEN Hole ELSE rest[i]]]

\* A datagram that acknowledges a whole window makes it larger, when there is
\* more to send (at low priority does not count) and no loss was met recently.
Grow(o, acks) ==
    LET probe  == o.sinceIncrease > 2 * ResendDelay
        larger == Min({o.window + 1, MaxWindow})
    IN IF /\ acks >= o.window
          /\ \E i \in Priority \ {"LOW"}: o.queue[i] # <<>>
          /\ o.window < o.lossyWindow \/ probe
       THEN [o EXCEPT !.window = larger,
                      !.sinceIncrease = IF probe THEN 0 ELSE @,
                      !.lossyWindow =
                          IF larger = MaxWindow \/ larger - @ > 5 THEN @ + 1 ELSE @]
       ELSE o

\* Where packet n stands in receivedPackets, the times of arrival from number
\* base on.
Position(i, n) == n - i.base

IsDuplicate(i, n) ==
    \/ Position(i, n) < 0
    \/ /\ Position(i, n) \in 1..Len(i.received) - 1
       /\ ~i.received[Position(i, n) + 1].hole

\* What has not arrived yet, in receivedPackets.
MakeReceivedPacketTime == [hole |-> FALSE, age |-> 0]
MakeReceivedPacketHole == [hole |-> TRUE,  age |-> 0]

\* The subtraction in IsExpiredTime is unsigned: as long as the clock shows less
\* than a timeout, every time counts as expired.
Expired(q, e) == uptime[q] < Timeout \/ e.age > Timeout

Register(q, i, n) ==
    LET pos     == Position(i, n)
        i1 == IF pos = 0
              THEN [i EXCEPT !.received = IF @ = <<>> THEN @ ELSE Tail(@),
                             !.base = @ + 1]
              ELSE IF pos < Len(i.received)
              THEN [i EXCEPT !.received[pos + 1] = MakeReceivedPacketTime]
              ELSE [i EXCEPT !.received = @ \o
                        [k \in 1..pos - Len(@) + 1 |->
                            IF k = pos - Len(@) + 1 THEN MakeReceivedPacketTime
                                                    ELSE MakeReceivedPacketHole]]
        gone == Leading(i1.received, LAMBDA k: Expired(q, i1.received[k]))
    IN [i1 EXCEPT !.received = SubSeq(@, gone + 1, Len(@)),
                  !.base     = @ + gone,
                  !.taken    = @ \cup {n}]

DrainNothing(p, i) == i

\* The packet with the ordering index that is waited for goes to the game, and
\* with it all that waited for it; any other waits.
TakeReady(p, i) ==
    LET ready == {k \in DOMAIN i.ordering:
                    packet[p][i.ordering[k] + 1].index = i.orderedRead}
    IN IF ready = {} THEN i
       ELSE [i EXCEPT !.output = Append(@, i.ordering[Min(ready)]),
                      !.ordering = RemoveAt(@, Min(ready)),
                      !.orderedRead = (@ + 1) % OrderModulus]

Drain(p, i) ==
    LET drained[n \in 0..Len(i.ordering)] ==
          IF n = 0 THEN i ELSE TakeReady(p, drained[n - 1])
    IN drained[Len(i.ordering)]

Whole(p, i, m) ==
    IF m.kind # "RELIABLE_ORDERED"
    THEN [i EXCEPT !.output = Append(@, m.message)]
    ELSE IF m.index = i.orderedRead
    THEN Drain(p, [i EXCEPT !.output = Append(@, m.message),
                            !.orderedRead = (@ + 1) % OrderModulus])
    ELSE [i EXCEPT !.ordering = Append(@, m.message)]

\* A part of a larger message waits until all parts are there.
Part(p, i, n) ==
    LET m     == packet[p][n + 1]
        parts == {k \in Numbers(p): packet[p][k + 1].message = m.message}
        here  == i.splits \cup {n}
    IN IF n \in i.splits THEN i
       ELSE IF parts \subseteq here THEN Whole(p, [i EXCEPT !.splits = here \ parts], m)
       ELSE [i EXCEPT !.splits = here]

Latest(i, m) ==
    IF IsOlderOrderedPacket(m.index, i.sequencedRead) THEN i
    ELSE [i EXCEPT !.sequencedRead = (m.index + 1) % OrderModulus,
                   !.output = Append(@, m.message)]

Sorted(p, i, n) ==
    LET m == packet[p][n + 1]
    IN IF Sequenced(m.kind) THEN Latest(i, m)
       ELSE IF m.parts > 1 THEN Part(p, i, n)
       ELSE Whole(p, i, m)

\* A reliable packet is acknowledged whether it is a duplicate or not.
TakePacket(q, i, n) ==
    LET p  == Other(q)
        ack == [number |-> n, wait |-> ResendDelay \div 4]
        i1 == IF Reliable(packet[p][n + 1].kind)
              THEN [i EXCEPT !.acks = Append(@, ack)] ELSE i
    IN IF IsDuplicate(i, n) THEN i1 ELSE Sorted(p, Register(q, i1, n), n)

Acknowledged(q, o, acks) ==
    LET upTo[n \in 0..Len(acks)] ==
          IF n = 0 THEN o ELSE Acknowledge(q, upTo[n - 1], acks[n])
    IN upTo[Len(acks)]

TakePackets(q, i, packets) ==
    LET upTo[n \in 0..Len(packets)] ==
          IF n = 0 THEN i ELSE TakePacket(q, upTo[n - 1], packets[n])
    IN upTo[Len(packets)]

HandleSocketReceive(q, d) ==
    IF out[q].dead THEN UNCHANGED <<out, in>>
    ELSE /\ out' = [out EXCEPT ![q] = Grow(Acknowledged(q, @, d.acks), Len(d.acks))]
         /\ in'  = [in EXCEPT ![q] = TakePackets(q, @, d.packets)]

-----------------------------------------------------------------------------
(* The network and the clock.                                                 *)

Deliver(q) ==
    /\ \E i \in DOMAIN net[q]:
        /\ load.inOrder => i = 1
        /\ HandleSocketReceive(q, net[q][i])
        /\ net' = [net EXCEPT ![q] = RemoveAt(@, i)]
    /\ UNCHANGED <<load, packet, uptime, cut, losses, copies, tick>>

DeliverCopy(q) ==
    /\ copies < MaxCopies
    /\ copies' = copies + 1
    /\ \E i \in DOMAIN net[q]:
        /\ load.inOrder => i = 1
        /\ HandleSocketReceive(q, net[q][i])
    /\ UNCHANGED <<load, packet, uptime, net, cut, losses, tick>>

Lose(q) ==
    /\ losses < MaxLosses
    /\ losses' = losses + 1
    /\ \E i \in DOMAIN net[q]: net' = [net EXCEPT ![q] = RemoveAt(@, i)]
    /\ UNCHANGED <<load, packet, out, in, uptime, cut, copies, tick>>

\* The other program, its machine or the line is gone for good.
Cut ==
    /\ ~cut
    /\ cut' = TRUE
    /\ net' = [q \in Peer |-> <<>>]
    /\ UNCHANGED <<load, packet, out, in, uptime, losses, copies, tick>>

Older(age, limit) == IF age = None THEN None ELSE Min({age + 1, limit})
Waited(timers) ==
    [i \in DOMAIN timers |->
        IF timers[i] = Hole THEN Hole
        ELSE [timers[i] EXCEPT !.wait = Max({@ - 1, -1})]]

Tick ==
    /\ \A p \in Peer: ~Busy(p)
    /\ \A q \in Peer: \A i \in DOMAIN net[q]: net[q][i].age < MaxDelay
    /\ tick' = ~tick
    /\ net' = [q \in Peer |-> [i \in DOMAIN net[q] |-> [net[q][i] EXCEPT !.age = @ + 1]]]
    /\ uptime' = [p \in Peer |-> Min({uptime[p] + 1, Timeout})]
    /\ out' = [p \in Peer |-> [out[p] EXCEPT
                !.lastAck = Older(@, Timeout + 1),
                !.sinceIncrease = Older(@, 2 * ResendDelay + 1),
                !.resend = Waited(@)]]
    /\ in' = [p \in Peer |-> [in[p] EXCEPT
                !.received = [i \in DOMAIN @ |->
                    [hole |-> @[i].hole, age |-> Older(@[i].age, Timeout + 1)]],
                !.acks = Waited(@)]]
    /\ UNCHANGED <<load, packet, cut, losses, copies>>

Next ==
    \/ \E p \in Peer: \/ Send(p) \/ Update(p)
                      \/ Deliver(p) \/ DeliverCopy(p) \/ Lose(p)
    \/ Cut
    \/ Tick

Spec == Init /\ [][Next]_vars

\* The clock goes on.  That is all that is asked: it does not before the network
\* threads have done what there is to do and late datagrams have come in.
ClockTicks == tick' = ~tick
FairSpec == Spec /\ WF_tick(ClockTicks)

-----------------------------------------------------------------------------
(* Properties.                                                                *)

TypeOK ==
    /\ \A p \in Peer:
        /\ out[p].window \in MinWindow..MaxWindow
        /\ out[p].lastAck \in -1..Timeout + 1
        /\ \A i \in Priority: \A k \in DOMAIN out[p].queue[i]:
              out[p].queue[i][k] \in 0..Len(packet[p]) - 1
        /\ \A k \in DOMAIN out[p].resend:
              out[p].resend[k].number \in -1..Len(packet[p]) - 1
        /\ in[p].orderedRead \in 0..OrderModulus - 1
        /\ in[p].sequencedRead \in 0..OrderModulus - 1
        /\ in[p].splits \subseteq 0..Len(packet[Other(p)]) - 1
    /\ uptime \in [Peer -> 0..Timeout]
    /\ losses \in 0..MaxLosses /\ copies \in 0..MaxCopies
    /\ cut \in BOOLEAN

Ordered(kind) == kind = "RELIABLE_ORDERED"

Messages(p, Test(_)) ==
    Only([n \in 1..Len(packet[p]) |-> n - 1],
         {n \in Numbers(p): packet[p][n + 1].part = 1 /\ Test(packet[p][n + 1].kind)})

Output(q, Test(_)) ==
    Only(in[q].output, {n \in Numbers(Other(q)): Test(packet[Other(q)][n + 1].kind)})

FirstNumbers == UNION {0..3 * Len(l.messages[p]): l \in Loads, p \in Peer}

Link == INSTANCE OrderedLink WITH
    Message <- FirstNumbers,
    sent    <- [p \in Peer |-> Messages(p, Ordered)],
    arrived <- [p \in Peer |-> Output(Other(p), Ordered)],
    broken  <- cut

\* All that is sent RELIABLE_ORDERED, at whatever priority and in however many
\* parts, reaches the game once and in the order of orderingIndex, and unless
\* the connection breaks all of it does (the ordered branch of
\* HandleSocketReceiveFromConnectedPlayer).
LinkSpec == Link!Spec

\* The index of sequenced messages at work: the game never gets input or
\* physics that is older than what it has (the sequenced branch of
\* HandleSocketReceiveFromConnectedPlayer).
SequencedNeverGoesBack ==
    \A p \in Peer: LET s == Output(p, Sequenced)
                   IN \A i, j \in DOMAIN s: i < j => s[i] < s[j]

\* What the sender has thrown away as acknowledged is not lost at the other
\* end, wherever it waits there: acknowledgements are sent before the packet is
\* looked at (SendAcknowledgementPacket), and for good.
AcknowledgedIsThere ==
    \A p \in Peer: \A n \in 0..Len(packet[p]) - 1:
        LET m == packet[p][n + 1]
            i == in[Other(p)]
        IN \/ m.kind \notin {"RELIABLE", "RELIABLE_ORDERED"}
           \/ \E k \in DOMAIN out[p].queue[m.priority]: out[p].queue[m.priority][k] = n
           \/ \E k \in DOMAIN out[p].resend: out[p].resend[k].number = n
           \/ n \in i.splits
           \/ m.message \in Range(i.ordering) \cup Range(i.output)

\* Whenever something is on its way to an end, every reliable packet missing there
\* has been known to be missing for at most a timeout: the resends come sooner
\* than HandleSocketReceiveFromConnectedPlayer gives the hole up (IsExpiredTime).
\* A resend that came later would be taken for a duplicate.
MissingIsYoung ==
    \A q \in Peer: net[q] # <<>> =>
        /\ uptime[q] = Timeout
        /\ \A k \in DOMAIN in[q].received:
              /\ in[q].received[k].hole
              /\ Reliable(packet[Other(q)][in[q].base + k].kind)
              => in[q].received[k].age <= Timeout

Unacknowledged(p) ==
    \E k \in DOMAIN out[p].resend: out[p].resend[k] # Hole

\* TIMEOUT_TIME is long enough: a few losses are no lost connection.
OnlyACutKills == \A p \in Peer: out[p].dead => cut

\* "We've waited a very long time for a reliable packet to get an ack and it
\* never has" (Update): who gives the connection up has such a packet.
DeadMeansUnacknowledged == \A p \in Peer: out[p].dead => Unacknowledged(p)

\* An end that waits for an acknowledgement notices that the other has gone
\* (deadConnection in Update), although holes and resends keep its queue busy.
LossIsNoticed ==
    \A p \in Peer: (cut /\ Unacknowledged(p)) ~> out[p].dead

\* Unless the connection breaks, everything is sent and acknowledged in the end:
\* the throttle of IsFrameReady never closes for good.
ThrottleEnds ==
    \A p \in Peer: []<>(\/ cut
                       \/ /\ out[p].resend = <<>>
                          /\ \A i \in Priority: out[p].queue[i] = <<>>)
=============================================================================
