------------------------------ MODULE Connection ------------------------------
(* Connections between the RakPeer of a server and those of its clients: the  *)
(* handshake, the keep-alive, the ways a connection ends, and what the games  *)
(* at both ends are told of it.  Every client connects once, from a port of   *)
(* its own.                                                                   *)
(*                                                                            *)
(* A reliability layer is here what module ReliabilityLayer shows it to be: a *)
(* reliable packet stays until its number is acknowledged, is sent again and  *)
(* again, and is taken once.  Clocks are abstracted to timers that run out at *)
(* some time.                                                                 *)
EXTENDS Integers, Sequences, SequencesExt, FiniteSets

CONSTANTS
    Client,          \* those who connect to the server
    AllowedPlayers,  \* given to RakServer::Start
    Plans            \* what may happen, and how often

\* A few more than are allowed, to handle those who come when all are there.
remoteSystemListSize == AllowedPlayers + 1 + AllowedPlayers \div 8

\* requests: how often a client asks, 3; others: further clients that are
\* connected all the time (when several connect at once it may be more than
\* are allowed); accepts: values mAcceptNewPlayers takes; stops:
\* programs that end; revivals: how often a command takes a free slot.
ASSUME ConnectionAssumption ==
    /\ AllowedPlayers \in Nat \ {0}
    /\ "server" \notin Client
    /\ \A p \in Plans:
         /\ p.requests \in Nat \ {0}
         /\ p.others \in 0..remoteSystemListSize
         /\ p.accepts \in SUBSET BOOLEAN
         /\ p.stops \in SUBSET (Client \cup {"server"})
         /\ p.revivals \in Nat

End == {"client", "server"}
Other(e) == IF e = "client" THEN "server" ELSE "client"

None == -1

VARIABLES
    plan,
    life,      \* of each program: "idle", "running", "leaving" or "gone"
    request,   \* requestsMade of the entry of the requestedConnectionList, or None
    slot,      \* the RemoteSystemStruct of each end for the other
    command,   \* bufferedCommands
    net,       \* the datagrams on their way
    cut,       \* clients whose datagrams do not get through any more
    incoming,  \* the packets each peer has queued for its game
    revivals,
    phase,     \* of each connection attempt, as the client's game was told of it
    mPlayerMap

vars == <<plan, life, request, slot, command, net, cut, incoming, phase, mPlayerMap, revivals>>

Program == Client \cup {"server"}

\* The program at an end of the connection of client c.
ProgramAt(e, c) == IF e = "server" THEN "server" ELSE c

Works(e, c) == life[ProgramAt(e, c)] \in {"running", "leaving"}

\* A slot that is taken, with a reliability layer that was just reset.
Fresh(mode) == [connectMode |-> mode, old |-> FALSE,
                next |-> 0, waiting |-> {}, taken |-> {}]

\* playerId is UNASSIGNED_PLAYER_ID
Free == Fresh("FREE")

Init ==
    /\ plan \in Plans
    /\ life    = [p \in Program |-> IF p = "server" THEN "running" ELSE "idle"]
    /\ request = [c \in Client |-> None]
    /\ slot    = [e \in End |-> [c \in Client |-> Free]]
    /\ command = [e \in End |-> [c \in Client |-> <<>>]]
    /\ net     = {}
    /\ cut     = {}
    /\ incoming = [e \in End |-> [c \in Client |-> <<>>]]
    /\ phase   = [c \in Client |-> "idle"]
    /\ mPlayerMap = {} /\ revivals = 0

-----------------------------------------------------------------------------
(* Datagrams.  OPEN_REQUEST and OPEN_REPLY travel outside of the reliability  *)
(* layers; keep-alives have no number here.  A packet that waits in a slot    *)
(* for its acknowledgement is sent again and again, so it may arrive at any   *)
(* time; only what a slot that is freed leaves on the way is kept in net.     *)
(* What is lost is what never arrives.                                        *)

Datagram(to, c, kind, number) ==
    [to |-> to, client |-> c, kind |-> kind, number |-> number]

Offline == {"OPEN_REQUEST", "OPEN_REPLY"}

\* SendImmediate of a packet to slot s.
Sent(s, kind) ==
    [s EXCEPT !.next = @ + 1, !.waiting = @ \cup {<<s.next, kind>>}]

\* What end e sends to the other one of client c.
Packets(e, c) == {Datagram(Other(e), c, w[2], w[1]) : w \in slot[e][c].waiting}

\* What end e acknowledges.
Acks(e, c) == {Datagram(Other(e), c, "ACK", n) : n \in slot[e][c].taken}

\* What may arrive at end e.
UnderWay(e, c) ==
    IF c \in cut THEN {}
    ELSE {d \in net: d.to = e /\ d.client = c}
           \cup Packets(Other(e), c) \cup Acks(Other(e), c)

SetSlot(e, c, t) == slot' = [slot EXCEPT ![e][c] = t]

\* At the other end, a slot has use for the datagram.
Matters(d) ==
    LET s == slot[d.to][d.client]
    IN /\ s.connectMode # "FREE"
       /\ IF d.kind = "ACK" THEN \E w \in s.waiting: w[1] = d.number
          ELSE d.number \notin s.taken

\* CloseConnectionInternalImmediate.  What is on the way to a slot that is free
\* is ignored when it arrives.  Packets that were acknowledged, but not
\* handled any more, are late.
Close(e, c, late) ==
    /\ SetSlot(e, c, Free)
    /\ LET left == Packets(e, c) \cup Acks(e, c)
                      \cup {Datagram(Other(e), c, "ACK", d.number) : d \in late}
       IN net' = {d \in net: ~(d.to = e /\ d.client = c /\ d.kind \notin Offline)}
                   \cup {d \in left: Matters(d)}

Ends == {"CONNECTION_LOST", "DISCONNECTION_NOTIFICATION"}

\* A connection attempt that has come to its end.
Over(ph) == IF ph \in {"asking", "failed"} THEN "failed" ELSE "closed"

\* A packet is queued for the game.  Clients act on a connection only: of all
\* others it is enough to know that they were told.
Push(e, c, kind) ==
    /\ incoming' = IF e = "server" \/ kind = "CONNECTION_REQUEST_ACCEPTED"
                   THEN [incoming EXCEPT ![e][c] = Append(@, kind)] ELSE incoming
    /\ phase' = IF e = "server" THEN phase
                ELSE [phase EXCEPT ![c] =
                        CASE kind = "CONNECTION_REQUEST_ACCEPTED" -> "open"
                          [] kind = "CONNECTION_ATTEMPT_FAILED" -> "failed"
                          [] kind \in Ends -> Over(@)
                          [] OTHER -> @]

Queues == <<incoming, phase>>

IsFree(e, c) == slot[e][c].connectMode = "FREE"

\* AssignPlayerIDToRemoteSystemList finds room.
HasRoom(e) ==
    e = "server" => 
        plan.others + Cardinality({c \in Client: ~IsFree(e, c)}) < remoteSystemListSize

-----------------------------------------------------------------------------
(* Connecting.                                                                *)

\* RakClient::Connect and SendConnectionRequest.
Connect(c) ==
    /\ life[c] = "idle"
    /\ life' = [life EXCEPT ![c] = "running"]
    /\ request' = [request EXCEPT ![c] = 0]
    /\ phase' = [phase EXCEPT ![c] = "asking"]
    /\ UNCHANGED <<slot, command, net, cut, incoming, mPlayerMap, revivals>>

MayAskOnceMore(c) == request[c] \in 0..plan.requests
MayAsk(c)         == request[c] \in 0..plan.requests - 1

\* RunUpdateCycle processes the connection attempts.
Ask(c) ==
    /\ Works("client", c)
    /\ MayAsk(c)
    /\ request' = [request EXCEPT ![c] = @ + 1]
    /\ net' = net \cup {Datagram("server", c, "OPEN_REQUEST", None)}
    /\ UNCHANGED <<life, slot, command, cut, incoming, phase, mPlayerMap, revivals>>

GiveUp(c) ==
    /\ Works("client", c)
    /\ request[c] = plan.requests
    /\ request' = [request EXCEPT ![c] = None]
    /\ Push("client", c, "CONNECTION_ATTEMPT_FAILED")
    /\ UNCHANGED <<life, slot, command, net, cut, mPlayerMap, revivals>>

\* ProcessNetworkPacket: a stranger asks; who is known is not answered.
ReceiveOpenRequest(c) ==
    LET d == Datagram("server", c, "OPEN_REQUEST", None)
    IN /\ Works("server", c)
       /\ d \in UnderWay(d.to, c)
       /\ IF IsFree("server", c) /\ HasRoom("server")
          THEN /\ slot' = [slot EXCEPT !["server"][c] = Fresh("UNVERIFIED_SENDER")]
               /\ net' = (net \ {d}) \cup {Datagram("client", c, "OPEN_REPLY", None)}
          ELSE net' = net \ {d} /\ UNCHANGED slot
       /\ UNCHANGED <<life, request, command, cut, incoming, phase, mPlayerMap, revivals>>

IsUnconnected(c) == IsFree("client", c)
IsAsking(c)      == IsFree("client", c) /\ request[c] # None

\* ProcessNetworkPacket: only who asked takes a reply.
ReceiveOpenReply(c) ==
    LET d == Datagram("client", c, "OPEN_REPLY", None)
    IN /\ Works("client", c)
       /\ d \in UnderWay(d.to, c)
       /\ request' = [request EXCEPT ![c] = None]
       /\ IF IsAsking(c)
          THEN SetSlot("client", c, Sent(Fresh("REQUESTED_CONNECTION"), "CONNECTION_REQUEST"))
          ELSE UNCHANGED slot
       /\ net' = net \ {d}
       /\ UNCHANGED <<life, command, cut, incoming, phase, mPlayerMap, revivals>>

-----------------------------------------------------------------------------
(* What comes in over a connection.  A slot that is taken acknowledges every  *)
(* packet, and handles the ones it has not had.                               *)

Mode(e, c) == slot[e][c].connectMode

\* A packet for the slot of end e for client c, for the first time.
Arrives(e, c, d) ==
    /\ Works(e, c) /\ ~IsFree(e, c)
    /\ d \in UnderWay(e, c) /\ d.kind \notin Offline \cup {"ACK"}
    /\ d.number \notin slot[e][c].taken

\* One of these kinds, at a slot that is to handle them.
Takes(e, c, d, kinds) ==
    /\ Arrives(e, c, d) /\ d.kind \in kinds
    /\ Mode(e, c) = "UNVERIFIED_SENDER" => d.kind = "CONNECTION_REQUEST"

\* Handling packet d leaves the slot as t.
Handled(d, t) ==
    /\ SetSlot(d.to, d.client, [t EXCEPT !.taken = @ \cup {d.number}])
    /\ net' = net \ {d}

\* The network, and all programs but the network threads.
Unmoved == UNCHANGED <<life, request, command, cut, mPlayerMap, revivals>>

\* All acknowledgements that are due travel together; a keep-alive is
\* acknowledged by any slot that is taken.
Acknowledged(e, c) == {w \in slot[e][c].waiting:
    IF w[1] = None THEN c \notin cut /\ Mode(Other(e), c) \notin {"FREE", "UNVERIFIED_SENDER"}
    ELSE Datagram(e, c, "ACK", w[1]) \in UnderWay(e, c)}

ReceiveAck(e, c) ==
    /\ Works(e, c)
    /\ Acknowledged(e, c) # {}
    /\ SetSlot(e, c, [slot[e][c] EXCEPT !.waiting = @ \ Acknowledged(e, c)])
    /\ net' = {d \in net: ~(d.to = e /\ d.client = c /\ d.kind = "ACK")}
    /\ Unmoved /\ UNCHANGED Queues

GetNumberOfRemoteInitiatedConnections ==
    plan.others + Cardinality({c \in Client: Mode("server", c) = "CONNECTED"})

AllowIncomingConnections == GetNumberOfRemoteInitiatedConnections < AllowedPlayers

ConnectAtOnce(s) ==
    [Sent(s, "CONNECTION_REQUEST_ACCEPTED") EXCEPT !.connectMode = "CONNECTED"]

OnConnectionRequest(s) ==
    [Sent(s, "CONNECTION_REQUEST_ACCEPTED") EXCEPT
        !.connectMode = "HANDLING_CONNECTION_REQUEST"]

\* ParseConnectionRequestPacket; the clients initiated
\* the connection and do not take this.
ReceiveConnectionRequest(c) == \E d \in UnderWay("server", c):
    LET s == slot["server"][c]
    IN /\ Takes("server", c, d, {"CONNECTION_REQUEST"})
       /\ IF AllowIncomingConnections
          THEN Handled(d, OnConnectionRequest(s))
          ELSE Handled(d, [Sent(s, "NO_FREE_INCOMING_CONNECTIONS") EXCEPT
                             !.connectMode = "DISCONNECT_ASAP"])
       /\ Unmoved /\ UNCHANGED Queues

\* A sender that is not verified may send nothing else.
ReceiveNonsense(e, c) == \E d \in UnderWay(e, c):
    /\ Arrives(e, c, d)
    /\ Mode(e, c) = "UNVERIFIED_SENDER" /\ d.kind # "CONNECTION_REQUEST"
    /\ Close(e, c, {d})
    /\ Unmoved /\ UNCHANGED Queues

\* NotifyAndFlagForDisconnect, at once.
Notified(s) ==
    [Sent(s, "DISCONNECTION_NOTIFICATION") EXCEPT !.connectMode = "DISCONNECT_ASAP"]

ReceiveAccepted(c) == \E d \in UnderWay("client", c):
    LET s == slot["client"][c]
    IN /\ Takes("client", c, d, {"CONNECTION_REQUEST_ACCEPTED"})
       /\ IF s.connectMode = "REQUESTED_CONNECTION"
          THEN /\ Handled(d, [Sent(s, "NEW_INCOMING_CONNECTION") EXCEPT
                                !.connectMode = "CONNECTED"])
               /\ Push("client", c, d.kind)
          ELSE Handled(d, Notified(s)) /\ UNCHANGED Queues
       /\ Unmoved

ReceiveNewIncoming(c) == \E d \in UnderWay("server", c):
    LET s == slot["server"][c]
    IN /\ Takes("server", c, d, {"NEW_INCOMING_CONNECTION"})
       /\ IF s.connectMode = "HANDLING_CONNECTION_REQUEST"
          THEN /\ Handled(d, [s EXCEPT !.connectMode = "CONNECTED"])
               /\ Push("server", c, d.kind)
          ELSE Handled(d, s) /\ UNCHANGED Queues
       /\ Unmoved

ReceiveNotification(e, c) == \E d \in UnderWay(e, c):
    /\ Takes(e, c, d, {"DISCONNECTION_NOTIFICATION"})
    /\ Handled(d, [slot[e][c] EXCEPT !.connectMode = "DISCONNECT_ASAP"])
    /\ Push(e, c, d.kind)
    /\ Unmoved

\* All else is for the game.
ReceiveData(e, c) == \E d \in UnderWay(e, c):
    /\ Takes(e, c, d, {"ENTER_SERVER", "NO_FREE_INCOMING_CONNECTIONS"})
    /\ Handled(d, slot[e][c])
    /\ Push(e, c, d.kind)
    /\ Unmoved

-----------------------------------------------------------------------------
(* What RunUpdateCycle does for every slot.                                   *)

IsSilentClient(e, c) ==
    e = "client" /\ Mode(e, c) = "CONNECTED" /\ slot[e][c].waiting = {}
IsSilent(e, c) == Mode(e, c) = "CONNECTED" /\ slot[e][c].waiting = {}

\* Somebody who is connected and has been silent asks for a sign of life.
KeepAlive(e, c) ==
    /\ Works(e, c)
    /\ IsSilent(e, c)
    /\ SetSlot(e, c, [slot[e][c] EXCEPT !.waiting = {<<None, "KEEPALIVE">>}])
    /\ Unmoved /\ UNCHANGED <<net, Queues>>

\* More than ten seconds since connectionTime.  By then the client has stopped
\* asking, and its last question has arrived or is lost.
Age(e, c) ==
    /\ life[ProgramAt(e, c)] = "running" /\ ~IsFree(e, c) /\ ~slot[e][c].old
    /\ request[c] = None
    /\ SetSlot(e, c, [slot[e][c] EXCEPT !.old = TRUE])
    /\ net' = {d \in net: ~(d.client = c /\ d.kind \in Offline)}
    /\ Unmoved /\ UNCHANGED Queues

Report(e, c) ==
    CASE Mode(e, c) = "CONNECTED"            -> Push(e, c, "CONNECTION_LOST")
      [] Mode(e, c) = "REQUESTED_CONNECTION" -> Push(e, c, "CONNECTION_ATTEMPT_FAILED")
      [] OTHER                               -> UNCHANGED Queues

\* IsDeadConnection: for TIMEOUT_TIME nothing has been acknowledged, because
\* nothing got through or because nobody was there.  Both last, and no buffered
\* command waits that long.
Die(e, c) ==
    /\ life[ProgramAt(e, c)] = "running"
    /\ slot[e][c].waiting # {}
    /\ request[c] = None /\ command[e][c] = <<>>
    /\ SetSlot(e, c, Free)
    /\ cut' = cut \cup {c}
    /\ Report(e, c)
    /\ UNCHANGED <<life, request, command, net, mPlayerMap, revivals>>

\* Packets that come in before a slot fails are acknowledged, but not handled.
Fail(e, c) ==
    /\ Works(e, c) /\ ~IsFree(e, c)
    /\ \E late \in SUBSET {d \in UnderWay(e, c): Arrives(e, c, d)}: Close(e, c, late)
    /\ Report(e, c)
    /\ Unmoved

\* DISCONNECT_ASAP, and no data is waiting.
Finish(e, c) ==
    /\ Mode(e, c) = "DISCONNECT_ASAP" /\ slot[e][c].waiting = {}
    /\ Fail(e, c)

Expire(e, c) ==
    /\ Mode(e, c) # "CONNECTED" /\ slot[e][c].old
    /\ Fail(e, c)

\* RunUpdateCycle takes a buffered command; one to disconnect may take a slot.
Command(e, c) ==
    LET kind == Head(command[e][c])
        disconnects == kind = "DISCONNECTION_NOTIFICATION"
    IN /\ Works(e, c)
       /\ command[e][c] # <<>>
       /\ command' = [command EXCEPT ![e][c] = Tail(@)]
       /\ \/ /\ ~IsFree(e, c)
             /\ SetSlot(e, c, IF disconnects THEN Notified(slot[e][c])
                                             ELSE Sent(slot[e][c], kind))
             /\ UNCHANGED revivals
          \/ /\ IsFree(e, c) /\ disconnects /\ HasRoom(e)
             /\ revivals < plan.revivals
             /\ SetSlot(e, c, Notified(Free))
             /\ revivals' = revivals + 1
          \/ /\ IsFree(e, c) /\ ~(disconnects /\ HasRoom(e))
             /\ UNCHANGED <<slot, revivals>>
       /\ UNCHANGED <<life, request, net, cut, incoming, phase, mPlayerMap>>

-----------------------------------------------------------------------------
(* The games.                                                                 *)

ValidSendTarget(e, c) == slot[e][c].connectMode = "CONNECTED"

\* RakPeer::Send and NotifyAndFlagForDisconnect.
Buffer(e, c, kinds) == command' = [command EXCEPT ![e][c] = @ \o kinds]

Reads(e, c) ==
    /\ life[ProgramAt(e, c)] = "running"
    /\ incoming[e][c] # <<>>
    /\ incoming' = [incoming EXCEPT ![e][c] = Tail(@)]
    /\ UNCHANGED <<life, request, slot, net, cut, phase, revivals>>

\* LobbyState::step_impl enters the server; it ignores NO_FREE_INCOMING_CONNECTIONS.
ClientReads(c) ==
    /\ Reads("client", c)
    /\ IF ValidSendTarget("client", c)
       THEN Buffer("client", c, <<"ENTER_SERVER">>)
       ELSE UNCHANGED command
    /\ UNCHANGED mPlayerMap

\* DedicatedServer::processPackets
ServerReads(c) ==
    LET kind == Head(incoming["server"][c])
        full == IF ValidSendTarget("server", c)
                THEN <<"NO_FREE_INCOMING_CONNECTIONS">> ELSE <<>>
    IN /\ Reads("server", c)
       /\ \/ /\ kind = "NEW_INCOMING_CONNECTION"
             /\ \E mAcceptNewPlayers \in plan.accepts:
                   IF mAcceptNewPlayers THEN UNCHANGED command
                   ELSE Buffer("server", c, Append(full, "DISCONNECTION_NOTIFICATION"))
             /\ UNCHANGED mPlayerMap
          \/ /\ kind \in {"CONNECTION_LOST", "DISCONNECTION_NOTIFICATION"}
             /\ mPlayerMap' = mPlayerMap \ {c}
             /\ UNCHANGED command
          \/ /\ kind = "ENTER_SERVER"
             /\ mPlayerMap' = mPlayerMap \cup {c}
             /\ UNCHANGED command

\* RakPeer::Disconnect with a blockDuration: all slots are to be told ...
Leave(p) ==
    LET Tells(e, c) == ProgramAt(e, c) = p /\ ~IsFree(e, c)
    IN /\ life[p] = "running"
       /\ life' = [life EXCEPT ![p] = "leaving"]
       /\ command' = [e \in End |-> [c \in Client |->
             IF Tells(e, c) THEN Append(command[e][c], "DISCONNECTION_NOTIFICATION")
                            ELSE command[e][c]]]
       /\ UNCHANGED <<request, slot, net, cut, incoming, phase, mPlayerMap, revivals>>

\* ... and when it has blocked long enough everything is dropped.  A program
\* that crashes has nobody told.
Stop(p) ==
    LET Dropped(f, empty) == [e \in End |-> [c \in Client |->
            IF ProgramAt(e, c) = p THEN empty ELSE f[e][c]]]
    IN /\ life[p] \in {"running", "leaving"}
       /\ life' = [life EXCEPT ![p] = "gone"]
       /\ slot' = Dropped(slot, Free)
       /\ command' = Dropped(command, <<>>)
       /\ request' = [c \in Client |-> IF c = p THEN None ELSE request[c]]
       /\ phase' = [c \in Client |-> IF c = p THEN Over(phase[c]) ELSE phase[c]]
       /\ UNCHANGED <<net, cut, incoming, mPlayerMap, revivals>>

-----------------------------------------------------------------------------
Update(e, c) ==
    \/ ReceiveAck(e, c) \/ ReceiveNonsense(e, c)
    \/ ReceiveNotification(e, c) \/ ReceiveData(e, c)
    \/ KeepAlive(e, c) \/ Age(e, c)
    \/ Die(e, c) \/ Finish(e, c) \/ Expire(e, c) \/ Command(e, c)

Step ==
    \/ \E c \in Client:
         \/ Connect(c) \/ Ask(c) \/ GiveUp(c)
         \/ ReceiveOpenRequest(c) \/ ReceiveOpenReply(c)
         \/ ReceiveConnectionRequest(c) \/ ReceiveAccepted(c) \/ ReceiveNewIncoming(c)
         \/ ClientReads(c) \/ ServerReads(c)
         \/ \E e \in End: Update(e, c)
    \/ \E p \in plan.stops: Leave(p) \/ Stop(p)

Next == Step /\ UNCHANGED plan

Spec == Init /\ [][Next]_vars

\* Network threads run all the time.  A program that is to end does.
RunUpdateCycle(e, c) ==
    \/ KeepAlive(e, c) \/ Age(e, c) \/ Finish(e, c) \/ Expire(e, c) \/ Command(e, c)
    \/ Die(e, c) /\ (IsFree(Other(e), c) \/ c \in cut)

FairSpec ==
    /\ Spec
    /\ \A c \in Client: WF_vars((Ask(c) \/ GiveUp(c)) /\ UNCHANGED plan)
    /\ \A c \in Client: \A e \in End: WF_vars(RunUpdateCycle(e, c) /\ UNCHANGED plan)
    /\ \A p \in Program: WF_vars(life[p] = "leaving" /\ Stop(p) /\ UNCHANGED plan)

-----------------------------------------------------------------------------
(* Properties.                                                                *)

TypeOK ==
    /\ life \in [Program -> {"idle", "running", "leaving", "gone"}]
    /\ request \in [Client -> None..plan.requests]
    /\ phase \in [Client -> {"idle", "asking", "open", "failed", "closed"}]
    /\ mPlayerMap \subseteq Client

\* The server counts a client as connected, and against AllowedPlayers, only
\* when its game has been told of the connection: however late or often the
\* packets of an earlier slot come (the modes of RemoteSystemStruct).
ConnectedIsMutual == \A c \in Client:
    Mode("server", c) = "CONNECTED" => phase[c] \in {"open", "closed"}

\* An end that is left alone with a connection notices it and frees its slot,
\* silent or not, whatever the mode it was left in (keep-alives and failure
\* conditions of RunUpdateCycle).
HalfOpenEnds == \A e \in End: \A c \in Client:
    (~IsFree(e, c) /\ IsFree(Other(e), c)) ~> (IsFree(e, c) \/ ~IsFree(Other(e), c))

\* mPlayerMap holds the players that are connected ("no longer count this player
\* as connected", processPackets): each has a slot, or the end of its connection
\* is queued.
EveryPlayerHasAConnection == \A c \in mPlayerMap:
    \/ ~IsFree("server", c)
    \/ Range(incoming["server"][c]) \cap Ends # {}
    \/ life["server"] # "running"

\* A connection attempt is answered, once, by a connection or by a failure; no
\* answer that comes late opens what the game was told has failed or ended
\* (the requestedConnectionList and ID_CONNECTION_ATTEMPT_FAILED).
Sessions == INSTANCE Session
SessionSpec == Sessions!Spec
=============================================================================
