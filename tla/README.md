# Blobby Volley 2: a TLA+ model of the match, the network and replays

Blobby Volley 2 is a volleyball game for two players at one computer or over the
network. The modules here model the parts of it whose correctness depends on an
order of events: the referee and its rule scripts, the match that drives it, the
lobby of a server, a match over the network with its threads and messages, the
RakNet connections that carry all of it, and the recording of a match that is watched
later.
TLC checks them on small instances; TLAPS proves the properties of the match for
all rule parameters. All source paths below are relative to the repository's
`src/` directory unless they start with `data/` or `doc/`.

## The system and its parts

| Part | State | Operations | Talks to |
|---|---|---|---|
| Referee, `GameLogic.cpp`, `data/rules/*.lua` | scores, touches, squish counters, ball valid, game running, server, last error, cached winner, clock flag, globals of the script | `step`, `onServe`, `onBallHits...`, `onPause`, `onUnPause`, `getLastErrorSide`; the script calls back `score` and `mistake` | called by the match |
| Match, `DuelMatch.cpp` | referee, physics, paused flag, events of the frame | `step`, `pause`, `unpause`, `setState`, `trigger`, `reset`, `setRules` | owned by `LocalGameState`, `NetworkGame`, `NetworkGameState`, replay player |
| Physics, `PhysicWorld.cpp` | positions and velocities | `step`, which reports contacts by callback | called by the match |
| Matchmaker, `server/MatchMaker.cpp` | open games, waiting players, ID counter | open, join, leave, start, add and remove a player; sends lists and game status | called by the server's packet loop |
| Server, `server/DedicatedServer.cpp` | packet queue, player map, list of games | `queuePackets` (RakNet's thread), `processPackets`, `updateGames` (main thread) | matchmaker, games, clients |
| Network game, `server/NetworkGame.cpp` | packet queue, rules answers, match, recorder, valid flag | `processPackets`, `step` (its own thread, and the main thread once it is over) | two clients |
| Client lobby, `state/LobbyStates.cpp` | substate, game list | packet loop, buttons | server |
| Client game, `state/NetworkState.cpp` | what is shown (waiting, playing, paused, won, opponent gone), replay dialogs, local match | packet loop, keys and buttons | server |
| State machine, `state/State.cpp` | current and pending state | `step`, `switchState` | client states |
| Connections, `raknet/RakPeer.cpp`, `RakServer.cpp`, `RakClient.cpp` | a slot (mode, connection time, reliability layer) per remote system, requested connections, buffered commands, incoming packets | `Connect`, `Send`, `Disconnect`, `Receive` of the game's threads; `RunUpdateCycle` of the network thread | a server or client; the peer at the other end |
| Reliable link, `raknet/ReliabilityLayer.cpp` | queues by priority, resend queue, window, timers, received numbers, ordering and sequencing indices, splits | `Send`, `Update`, `HandleSocketReceiveFromConnectedPlayer` | one per slot; the network |
| Replays, `replays/`, `state/ReplayState.cpp` | recorded inputs, save points, position, wanted position, speed | record, finalize, load, play, seek, the clicks of the viewer | local matches, network game |
| Rest | | rendering, sound, GUI, input devices, bots, files, serialisation, configuration, HTTP, sockets and bit streams, Lua, tinyxml2 | |

**What is hard here.** Contacts arrive in bursts, several per frame, and every
script may call back several times in one contact; the round that follows
depends on what the last one left. In the lobby, requests of several players
cross the status packets they cause and the connections that break. In a network
game three server threads and two clients share one game: packets are queued by
RakNet's thread, taken by the game's thread and (when the game is over) by the
main thread; a client replaces one state object by another while packets arrive.
Below that is UDP: datagrams are lost, repeated and overtake each other, a packet is
sent again when its acknowledgement is late, and an end can be gone without a word, or
be in the middle of a handshake that the other has given up.
What makes each part correct:

* referee and match: one mistake, one award, one next server; no score from a
  dead ball; the cached winner is right; every round can be followed by another;
* lobby: a player sits in one place; a client ends up believing what the server
  believes; nobody is told of a match he is not in; leaving works;
* network game: nobody plays without the rules; both clients agree with the server
  on paused or running and on the winner; a departure or a requested replay gets
  through; the game begins;
* link: what is sent in order arrives once and in order or the connection breaks, and
  it breaks only when nothing gets through any more;
* connections: an attempt is answered; both ends agree in the end on whether there is
  a connection; the server's players are those with a connection;
* replays: what is shown at a position is what the game was after that many frames,
  however the viewer got there; a search and a replay come to an end.

## Modules

| Module | Models |
|---|---|
| `GameLogic` | `IGameLogic`, the fallback rules, `LuaGameLogic` and every refereeing script, as operators on a record of the members |
| `Rally` | abstract: tally, server, phase and winner of a match |
| `DuelMatch` | `DuelMatch::step/pause/unpause` with the contacts physics may report; implements `Rally` |
| `MatchMaker` | every `MatchMaker` method, as operators on a record of its members and the links it sends on |
| `Tables` | abstract: who is away, waiting, at whose table, playing |
| `Lobby` | the server's packet loop, the clients' `LobbyState`, connections that break; implements `Tables` |
| `NetworkGame` | game thread, main thread, RakNet's thread and two `NetworkGameState`s |
| `OrderedLink` | abstract: what one end has sent in order, and what of it the other has got |
| `ReliabilityLayer` | the two `ReliabilityLayer`s of a connection and the network between them; implements `OrderedLink` |
| `Session` | abstract: what a connection attempt is for the game that made it |
| `Connection` | `RakPeer` at both ends of each connection, with the games as far as they connect, enter, refuse and leave; implements `Session` |
| `Replay` | `ReplayRecorder` under `LocalGameState`, `ReplayLoader_V2X`, `ReplayPlayer` under `ReplayState` |
| `MCDuelMatch`, `MCLobby`, `MCLink`, `MCConnection` | values of the constants for TLC |
| `GameLogicProofs`, `DuelMatchProofs`, `ConnectionProofs`, `LobbyProofs`, `NetworkGameProofs`, `ReplayProofs`, `ReliabilityLayerProofs` | theorems |
| `Induction` | lemmas of the proofs: induction over sets of numbers, and what a fold does |

`DuelMatch` EXTENDS `GameLogic` and `Lobby` EXTENDS `MatchMaker`: a class without
a life of its own is a module of operators, named after its methods, and the
module of its owner has the variables and one action per handler. `NetworkGame`
stands alone: it abstracts the match to "paused, or may be won in this step". So does
`Replay`, where a match is deterministic and its state is the frames it went through.
`Lobby` and `NetworkGame` take a connection to be what `OrderedLink` says; `Connection`
takes a reliability layer to be what the runs of `ReliabilityLayer` show of its numbers
and acknowledgements.

### How code and model correspond

*Referee.* A method that changes members maps a record to a record. A chain such as
`onBallHitsPlayer` (squish test, bookkeeping, script handler, opponent's touches)
is one operator, including what the script does. `mSquish...` only matter while
positive, so they stop at 0. Scripts that only change input (`sticky_mode`,
`jumping_jack`, `back_defence`) referee like the fallback rules.

*Match.* `Frame(c)` is the whole of `DuelMatch::step`: the referee's step, the
contacts `c` in the order `PhysicWorld::step` reports them, the question for the last
error and, where `canStartRound` says so, the reset of the ball. Physics is the
choice of `c` from `Contacts` (one ball is in one place, so not every combination
is possible), of who jumps, and of how long the ball bounces. The owner steps a
match only while nobody has won (`LocalGameState.cpp` 126-134).

*Lobby.* `Handle...` takes one packet of a client off `toServer` and does what
`processPackets` or `receiveLobbyPacket` does; the answers go to `toClient`. The
order of packets of one client is kept (`RELIABLE_ORDERED`); clients overtake each
other. `Disconnect` may lose any suffix of what the client has sent and everything
under way to it. A failed assertion sets `mAborted` and the server stops.
`SWITCHING` is the rest of the frame in which `LobbyState` has asked for its
replacement: it still reads packets and buttons.

*Network game.* `processPackets` is split where another thread can come in between:
the test for an empty queue (`GameCheck`, `MainCheck`) and `front()`/`pop_front()`
(`GameTake`, `MainTake`); taking from an empty list sets `crashed`. Handling one packet,
`step`, and each call of `setGame` are steps of their own. `dropped` and
`swallowed` remember that `queuePackets` or a `LobbyState` has thrown away a packet
of the game, and the properties say what holds otherwise.

*Replays.* `GameFrame` is a frame of `LocalGameState`: record the state (with the input
that led to it), step, and record and finalize when it is won. The state of a match
is the sequence of its inputs, so that two matches show the same exactly if they are
the same sequence; that two different games may look alike is given away. `plays(r, n)`
is n calls of `ReplayPlayer::play` at once: what counts is the last save point passed and
the inputs since. `gotoPlayingPosition` is the whole function, one call per frame. A
`DuelMatch` that was reset is `deaf` (see below), its frames are `Unheard`.

*Link.* Times are distances from the present: `wait` is how long until
`nextActionTime`, `age` and `lastAck` how long ago something was; `Tick` moves all of
them. A network thread runs many times in a unit of time, so that the clock waits while
an `Update` would change anything (`Busy`) or a datagram is older than `MaxDelay`. `Update`
is the whole of `ReliabilityLayer::Update`, all datagrams it generates included;
`HandleSocketReceive` takes one datagram, acknowledgements first, as they are written first.
A hole of the resend queue is `Hole`, a hole of `receivedPackets` has its flag set: the code
encodes both in one number. `output` and `taken` remember everything, for the properties.
A datagram holds `FrameSize` packets, and every part of a split packet but the last takes all
of it, as `SplitPacket` cuts them to the MTU.

*Connections.* A packet a slot waits to have acknowledged is sent again and again, so it
may arrive at any time (`UnderWay`), and is taken once; only what a freed slot leaves on the
way is held in `net`, and what is lost is what never arrives. All acknowledgements travel
together. The timers of `RunUpdateCycle` may run out at any time, in this order: the client
has stopped asking before a slot is 10 s old (3 requests, one a second), and `Die` is `TIMEOUT_TIME`
without an acknowledgement, after which no datagram of that client gets through any
more. A packet that comes in before a slot fails in the same cycle is acknowledged, but its
content is never looked at (`Fail`, `late`). `plan` says what may happen in a behaviour: how
often a client asks, how many others are connected (more than are allowed, when several connect
at once), whether the server accepts, who leaves or crashes, and how often a buffered
command takes a slot that was free. `phase` is what the client's game was told.

## Runs

| Run | Instance | What it shows |
|---|---|---|
| `Duel` | all seven rule sets, score to win 2 (firewall doubles it), scores up to 4, jumps and bounces of one frame, squish tolerance 2 | `TypeOK`, `RoundCanRestart`, `WinnerIsCurrent`, `TouchesBelongToOneSide`, `BouncesBelongToOneSide`, `OnePointPerFrame`, `DeadBallCountsForNothing`, and `RallySpec` (refinement) |
| `DuelLive` | fallback rules, score to win 1, a bounce of two frames | `RoundRestarts` |
| `LobbyDedicated` | three players (symmetric), 4 requests, 1 departure, IDs 0..3, no passwords | `OneGamePerPlayer`, `LobbyMirror`, `EveryGameIsListed`, `TablesSpec` (refinement) |
| `LobbyHosted` | two players, a player's own server, passwords, 3 requests, 1 departure, IDs 0..2 | `TypeOK`, `RulesOnlyInGameSubstate`, `LeaveIsAnswered`; that clients converge on such a server too is the theorem `ClientsAgree` |
| `LobbyLateStart` | two players | violated: `NoAssertionFails` |
| `Network` | both players want the left side, so that one sees the match mirrored; rules that differ from the server's; 2 requests | `TypeOK`, `PauseMirror`, `ResultIsRight`, `NobodyPlaysWithoutRules`, `LeavingIsNoticed`, `ReplayArrives`, `GameBegins` |
| `ReplaySeek` | matches of up to 4 frames, save points every 3, one idle frame at the end, 2 frames simulated per call, 2 clicks | `TypeOK`, `ReplayIsFaithful`, `FindsLastSavePoint`, `JumpEnds`, `ReplayEnds` |
| `Link` | four packets in two datagrams, with a window of 2 or 3; a large one between priorities in both directions; sequenced between ordered ones on a network that reorders; one loss, one copy, and a cut at any time | `TypeOK`, `SequencedNeverGoesBack`, `AcknowledgedIsThere`, `MissingIsYoung`, `OnlyACutKills`, `LinkSpec` (refinement), `LossIsNoticed`, `ThrottleEnds` |
| `LinkReordered` | three packets on a network that reorders and loses nothing | violated: `DeadMeansUnacknowledged` |
| `LinkYoung` | four packets to a client that has just been started, one loss, a network that keeps the order | violated: `AcknowledgedIsThere` |
| `Connection` | one client, a server for one player, six plans: a client that leaves or crashes, with a late question; a server that refuses; one that ends; one that is full; one with no slot left; a refusal that meets a departure | `TypeOK`, `ConnectedIsMutual`, `SessionSpec` (refinement), `HalfOpenEnds` |
| `ConnectionGhost` | one attempt, a server that accepts, nobody who leaves | violated: `EveryPlayerHasAConnection` |

Deadlock is not checked where a system really stops: a match that is won, players who have all
left, an attempt that is over, a replay nobody has to watch. In `Link` it is.

### The bounds and why they are enough

* `MaxScore` lets every rule set reach a win, a win by two after a tie, and (with a
  factor of 2 instead of 10) a firewall match that is won by a wall. The bound on the
  scores is a guard of `Frame`: steps beyond it are not explored.
* `SquishTolerance` 2 instead of 11 keeps "just counted", "still squished" and
  "counts again" apart. The proofs hold for any value.
* `AirTime` and `RestTime` of 1 or 2 keep "in the air" and "on the ground", "moving"
  and "lying" apart; the match never sees more.
* Four lobby requests of three players are enough to open, join, leave and start while
  a third player opens or joins, and to make a start cross a departure. IDs are used
  again by the code, so that four never run out with three players.
* Two requests in a network game are a pause and a continuation, a pause of each, or one that crosses
  a departure or the end of the match. That pauses and results agree for any number of requests, sides and rules
  is proved (`PausesAgree`, `ResultStays`). With both players on the left one sees the match as it is
  and the other one mirrored.
* `ReplaySeek` keeps the relations of the real numbers: fewer idle frames (75) than a
  period (750), more than one call (100 frames) for a period, a click margin (5 of 700
  pixels) that reaches a position of -2, a highest speed (64) that plays several frames at
  once (8 is normal). Four frames and a won match make recordings of six positions with
  up to five save points, several of them within one period; two clicks are two jumps, or one
  during another.

* `Link` keeps the order of the real numbers: resend delay < timeout (twice the ping; 10 s, 30 in debug builds),
  acknowledgements wait a quarter of a delay, a full datagram of acknowledgements (5) is the
  smallest window. With `MaxDelay` 0 datagrams overtake each other within a unit of time, and
  a resend is never needed for one that is only slow. One loss and one copy, each of any
  datagram, in either direction, and a cut; `OrderModulus` 8 instead of 256 is larger than what
  is sent: the run does not go a whole turn of the index, where `LinkSpec` needs the hypothesis of
  `LinkIsOrdered` (see Proofs). `Uptime` equal to the
  timeout leaves out the first seconds of the clock, which `LinkYoung` is about.
* `Connection` has one client, as slots share nothing but the list and the count of
  connections; the others are a number. A server for one player has 2 slots, so that it may be
  full and have a slot for a stranger, or none. Plans are explored one by one because their
  product is out of reach; each is exhausted.

### Fairness

`DuelLive`: the owner's loop calls `step` every frame, so WF of `Step`; nothing is
assumed about pauses, hence they are an exception in `RoundRestarts`. `LobbyHosted`:
the server takes packets for ever, a client reads what arrives, and a pending state
switch happens at the end of the frame. `Network`: the threads loop for ever, RakNet
delivers, clients read and switch. No fairness is assumed of players: nobody has to
ask, answer a dialog, leave or stay, and physics may keep the ball in play for ever. `ReplaySeek`:
only the frames of `ReplayState` go on (`Tick`); the viewer never has to click. `Link`: only
that the clock goes on, which it does not before the network threads have done their work and
late datagrams are in; losses are bounded, so that a packet that is sent again gets through, or the
line is cut. `Connection`: `RunUpdateCycle` runs for ever and its timers run out; a slot only has to
die when nobody is at the other end or the line is cut; a program that has begun to leave stops. No
datagram has to arrive, and nobody has to leave.

### What the violated properties say

* `LobbyLateStart`: `startGame` asserts that both players are known (`MatchMaker.cpp`
  218-219) before it validates the request. A start that arrives after its target has
  left, or a second start, stops a server built with assertions.
* `LinkReordered`: packets 0 and 1 travel in one datagram, 2 in the next, which is acknowledged
  first: position 3 of the resend queue becomes a hole. The acknowledgements of 0 and 1 then pop
  the head, or leave holes, and never look further. A queue of holes as long as the window
  throttles (`ReliabilityLayer.cpp` 1232, 2278-2281); holes are popped by `GenerateFrame` only, which
  a throttled layer calls when the head is a packet that is due (963). Nothing goes out any more, no
  keep-alive either, since the queue is not empty (`RakPeer.cpp` 1826), and after `TIMEOUT_TIME` a connection with
  nothing unacknowledged is lost. In `Link` five acknowledgements or a resend always come
  in between, or there are fewer packets than a window, which is what `ThrottleEnds` checks.
* `LinkYoung`: `IsExpiredTime` computes `currentTime - TIMEOUT_TIME` unsigned (`ReliabilityLayer.cpp`
  2253). As long as the clock shows less than `TIMEOUT_TIME` every hole counts as expired, and the base index moves past a
  packet that is still to come: a datagram is lost, the next arrives, and the resend of the first is
  acknowledged and dropped as a duplicate. On Linux and macOS the clock starts with the first call of
  `GetTime` in the process (`GetTime.cpp` 44-77), so these are the first ten seconds in which a client uses the
  network; on Windows it starts with the machine.
* `ConnectionGhost`: `NEW_INCOMING_CONNECTION` is lost, `ENTER_SERVER` (reliable and ordered, but on a
  channel of its own) overtakes it, and a slot in `HANDLING_CONNECTION_REQUEST` hands it to the game.
  When that slot is 10 s old it is freed, and the server hears nothing (`RakPeer.cpp` 1843-1863): the
  player stays in `mPlayerMap` and in the lobby for ever. The same happens without loss when the
  server refuses newcomers: it closes the connection (`DedicatedServer.cpp` 161) and registers the
  player when it reads his `ENTER_SERVER`.

### Observations without a run

The match and the lobby:

* `ID_UNPAUSE` is obeyed in a match that is won, although "if someone has won, the game is
  paused" (`NetworkGame.cpp` 353); the next step records the victory again (231-238, 350-367).
* The handler of `ID_RULES` does not look whether the game is still valid (295-318), so a player is
  told to play after his opponent has gone; `ID_GAME_READY` is sent "when all clients are
  ready" (`NetworkMessage.h` 87-88).
* The loop for "games that have finished" (`DedicatedServer.cpp` 257-268) asks `isGameValid`, which is
  false as soon as the game's thread has processed the departure, though that thread is still in
  `processPackets` and takes what is left. Both see the same last packet, since the test for an empty list is not
  under the mutex (`NetworkGame.cpp` 165), and the second one calls `front()` and `pop_front()` of an
  empty list. The model reaches it as `crashed`, and stops there.
* The constructor of `NetworkGame` announces the game before `createGame` calls `setGame` (`DedicatedServer.cpp`
  398-401). An `ID_RULES` that comes in between, read by the network thread, is logged as one of a player "not in
  playerlist" and dropped (121-125). Nobody answers twice, and the game is never ready. The model reaches
  it as `dropped`.
* A click up to 5 pixels left of the progress bar is taken (`ReplayState.cpp` 159-166) and asks, in a
  recording of more than 280 frames, for a position of -2 or less. `gotoPlayingPosition` ("todo add
  validity check") then goes back to the start and plays 100 frames, in every frame, until the
  viewer clicks elsewhere.
* `LobbyState` keeps reading after `ID_RULES_CHECKSUM` (`LobbyStates.cpp` 77-203), when
  the new `NetworkGameState` has already answered; a packet of the game that arrives in that
  frame falls to the default branch and is lost, `ID_GAME_READY` for instance, of which
  `NetworkMessage.h` 88 says that the input is enabled after it. The model has it as
  `swallowed`.
* `DuelMatch::reset` (`DuelMatch.cpp` 69-73) makes a new `PhysicWorld`; the event callback
  the constructor has set on the old one (47-48) is not set on the new one, so the
  referee hears of no contact any more. Only that search gets there; its comment
  (`ReplayPlayer.cpp` 140-146) takes a reset match for a new one. `clone()` also multiplies a
  score to win that `firewall.lua` has already multiplied.
* `ReplayState.cpp` 211 does not reset the match "cause we don't use lua rules", but it does
  (62-65), and the globals of `tennis.lua` survive every jump.
* At more than normal speed a replay steps past its length, which `ReplayEnds` allows for;
  the progress bar is then longer than it should be.
* A touch may be counted on a dead ball: `onBallHitsPlayer` never asks whether the ball is valid,
  and a frame may report both blobs (compare `GameLogic.h` 127-128).
* The automatic join on a hosted server (`DedicatedServer.cpp` 213-225) is made without
  a password, so it fails when the open game has one.
* In a recording of more than 105000 frames the click left of the bar also makes
  `getSavePoint` look at index -1; `BarAssumption` keeps that out of the model.
* Two `OPEN_GAME` packets of one pass over the queue open two games on a hosted server, since
  newcomers are switched off between passes only (`DedicatedServer.cpp` 254). Game IDs are used again
  (`MatchMaker.cpp` 67), so a `JOIN_GAME` from an old list reaches another game.
* `mConnectedClients`, unsigned, is counted down when a connection is refused and again when it ends
  (`DedicatedServer.cpp` 162, 170). `getWaitingPlayers` may be negative (383).
* `LobbyState` does not know `ID_NO_FREE_INCOMING_CONNECTIONS`: who is refused goes on waiting until
  the connection ends. A server whose list is full does not answer at all.
* `swapSides` of `GameLogicState` leaves `winningPlayer` as it is, and all game threads share the
  static `lastTicks` of `SpeedController` (71).

RakNet:

* A hole that is older than `TIMEOUT_TIME` is passed in the same way as in `LinkYoung`, if the sender's closed window holds
  the resend back that long. `MissingIsYoung` says when that cannot happen.
* After a gap only the head of `receivedPackets` is popped (293-298), so a copy of the packet that is
  then at the base is taken again: two packets that overtake each other, whose acknowledgements are lost,
  are enough. An ordered one then waits in `orderingList`, where a comment has only "newer" packets (613),
  until 255 more have come; its index is the one waited for again, it is delivered a second time, and the
  message whose turn it is waits in its place. With `OrderModulus` 4 and six messages TLC shows it, with
  256 it is the reason for `OrderedInTime` in the theorem `LinkIsOrdered`.
* `IsOlderOrderedPacket` lacks parentheses (1745): two values of the upper half count as new. The
  check for a second copy of a sequenced split packet looks at the counter of the sender (406).
* `orderingList` keeps its streams for ever, so `IsDataWaiting` is true from the first packet that had to
  wait on, and `DISCONNECT_ASAP` only ends by time.
* Every packet that is sent restarts `lastAckTime` (2176): an end that keeps sending reliable packets
  notices a loss only when the window is full.
* The window only grows while something of more than low priority waits (640).
* A connection older than 10 s is freed in the cycle after `DISCONNECTION_NOTIFICATION` was sent once,
  since 10 s count from `connectionTime` (1839); `RakPeer.h` 449 says "disconnect them when it is
  delivered". The other end then waits for its own timeout.
* A buffered notification to a slot that was freed meanwhile takes a new slot
  (`RakPeer.cpp` 1701-1711), and a late `OPEN_CONNECTION_REQUEST` too (1616); both end after 10 s.
* Only slots in mode `CONNECTED` count against the maximum (1202), so handshakes at the same time
  exceed it.

## Proofs

`GameLogicProofs` holds the lemmas about the referee's operators: each handler keeps the
types and the record's invariant, gives points to one side at most, and never touches
the score of a dead ball. `LuaCheckWinAgrees` shows that the winner `LuaGameLogic`
works out from the script's yes or no is the one the built-in rule would name.

`DuelMatchProofs` proves, from the assumptions on the constants (tolerance and factor
positive, rule sets known, score to win positive), for every value of them:

| Theorem | Statement |
|---|---|
| `TypeCorrect`, `RoundsCanRestart`, `WinnerStaysCurrent`, `TouchesOfOneSide`, `BouncesOfOneSide` | `Spec => []P` for the invariants of `Duel` |
| `DeadBall`, `OnePoint` | the action properties |
| `MatchIsRally` | `Spec => RallySpec`: every frame is a step of the abstract rally or changes nothing visible |

The inductive invariant is `IInv == TypeOK /\ LogicInv(mLogic)`. The invariants of the
runs are not inductive one by one: that a dead ball has a server needs that every
fault names one, that at most one side holds touches is only restored at the end of
`onBallHitsPlayer`, and a tennis bounce is harmless only together with the touches
of the other side. `LogicInv` joins them. Two lemmas carry the work: `FrameOutcome` says what
the contacts of one frame, taken one after the other, can do to the record, and
`FrameResult` what remains after the error was read and the ball perhaps reset; each
theorem about steps is then a case split on frame, pause, unpause and stuttering.

`ConnectionProofs` proves, for any set of clients, any maximum of players and any plans (from
`ConnectionAssumption` alone):

| Theorem | Statement |
|---|---|
| `TypeCorrect`, `CountedIsTold` | `Spec => []TypeOK` and `Spec => []ConnectedIsMutual` |
| `AnsweredOnce` | `Spec => Sessions!Init /\ [][Sessions!Next]_phase`: the safety part of `SessionSpec` |

That the server counts nobody whose game was not told is a matter of packets in flight, so the
inductive invariant `IInv` has two parts for each client. `Attempt` ties what the game was
told to the client's own end: while requests go out there is no slot, no buffered command and
nothing queued, and a slot is `REQUESTED_CONNECTION` only as long as there was no answer.
`Announced` says that `NEW_INCOMING_CONNECTION` waits in a client's slot, or is left on the
way to the server, only after the game was told. `SlotStep` is the frame of the proof: a step that changes
one slot keeps `IInv` if it keeps to four conditions, and each handler of `RunUpdateCycle` is shown
to meet them; the steps of the games go through `NoNewsStep`. The sessions follow from `Attempt`.

`LobbyProofs` proves, for any set of players, passwords, number of requests and departures, on a
dedicated and on a player's own server (`SeatAssumption`, that the three states of a player at no
table are three values that are no players, is only needed by the refinement):

| Theorem | Statement |
|---|---|
| `TypeCorrect`, `PlayersSitOnce`, `ClientsAgree`, `GamesAreListed`, `ChecksumInGame` | `Spec => []P` for `TypeOK`, `OneGamePerPlayer`, `LobbyMirror`, `EveryGameIsListed`, `RulesOnlyInGameSubstate` |
| `Refinement` | `Spec => TablesSpec` |

What a client will believe is a fold of `receive` over the packets under way to it, so that
`LobbyMirror` alone is not inductive: a client is told of its place by a chain of packets, and
between two of them it believes what was true before. The inductive invariant `IInv` consists of

* `Good`: the record of the matchmaker is well typed, and everybody sits once (`SeatedOnce`);
* `InStep(view, m, P)`: every connected client, having read everything, knows that it plays, or waits
  and sees every open game (`Told`), and unless it is in P also where it sits (`Placed`); every
  `RULES_CHECKSUM` will find it at a table (`RulesFine`); nothing is under way to a client that is gone;
* `PacketsOf`: an `ENTER_SERVER` is the first packet of a client, who is not known yet, and a lost
  connection is gone; `Connected`: who is offline is unknown and has sent nothing.

Each method of `MatchMaker` has a lemma: it keeps `Good`, and takes `InStep` with P to `InStep` with
the players P that it has moved and not yet told; P is empty when a handler returns. The same lemmas
say what the method does to the games (`Left`, `Opened`, `Seated`, `Started`), and from that the
refinement follows: `SeatIs` replaces the choices in `seat` by a relation, a lemma for each packet says
how the seats change, and `StepRefines` names the operation of `Tables`.

`NetworkGameProofs` proves, for any number of requests:

| Theorem | Statement |
|---|---|
| `TypeCorrect`, `RulesFirst`, `PausesAgree`, `ResultStays` | `Spec => []P` for `TypeOK`, `NobodyPlaysWithoutRules`, `PauseMirror`, `ResultIsRight` |
| `AssertionHolds` | the assertion of `NetworkState.cpp` 251-255 cannot fail; no run checks it |

Its `IInv` has, beside the types, `Sound` (a game that is paused though valid, or won, has started) and
for each client: his answer about the rules exists once, on the way or in the queue, and
says what his view says (`PacketsOf`, `AnswersOnce`); the announcement comes first and finds him in the lobby
(`Announced`); nothing of a running game is under way before it runs (`NothingEarly`); the file of the
rules is ahead of `ID_GAME_READY` and the result (`FileFirst`); and, having read everything, he
shows the state of the game (`Mirrored`).

`ReplayProofs` proves, for any inputs, any length of the match and of the bar, any speeds and any number
of clicks, from the assumptions of `Replay` (the idle frames of the end are fewer than a period, a
click left of the bar stays within one period of the start):

| Theorem | Statement |
|---|---|
| `TypeCorrect`, `ReplayStaysFaithful`, `SavePointsAreFound` | `Spec => []P` for `TypeOK`, `ReplayIsFaithful`, `FindsLastSavePoint` |

`IInv` has `Records(recorder, game)`: each input is the one that led to the next state (`InputsOf`), each
save point holds the state of the game at its step and lies within the game (`StatesOf`), they are in order
(`InOrder`), and the k-th is not after the k-th multiple of the period (`Dense`), as long as there are
inputs there. `Dense` is what makes the loader's guess a lower bound; `finalize` keeps it only because
the state that decides the match has a save point of its own and the idle frames that follow are
fewer than a period. `SavePointFound` shows that the search to the right ends where it should, and
`Plays` and `Going` that frames, save points passed and jumps leave a match that was `Faithful` so.

What a fold over a sequence yields is proved by induction over a set of numbers instead of a
predicate (`Induction`: a set of numbers has a least element, from the library's theorem that < is well
founded): `ReadLast` and `ReadFirst` say that a packet more at the end, or one less at the head, is one
application of `receive`, and no proof looks into the fold beyond them.

`ReliabilityLayerProofs` proves, for any messages of the two ends, any window, timeout, delays and
size of a datagram, and any number of losses and copies on a network that may reorder:

| Theorem | Statement |
|---|---|
| `TypeCorrect` | `Spec => []TypeOK` |
| `SequencedRises` | `Spec /\ []SequencedInTime => []SequencedNeverGoesBack` |
| `LinkIsOrdered` | `Spec /\ []OrderedInTime => Link!Init /\ [][Link!Next]_(Link!linkVars)`: the safety part of `LinkSpec` |
| `AcknowledgedStays` | `Spec /\ []MissingIsYoung => []AcknowledgedIsThere` |

The hypotheses of the second and the third are about the traffic, and the code needs them: an `orderingIndex` has one byte
and comes round. `OrderedInTime` says that no ordered message that is on its way or waits in an
`orderingList` is 255 or more places (`OrderModulus - 1`) from another, or from the last the game has
got: with 256 between them the index that is waited for would also fit another message.
`SequencedInTime` says that no sequenced message is still on its way when one 126 places later is on
its way too or has been got by the game: `IsOlderOrderedPacket` takes less than half of all indices
for older. Input and physics are one message per frame, 75 a second, so that is more than a second
and a half. Both hold in every state of `Link` (where 7 and 2 places are the limits), checked by TLC. Neither
can be left out: a copy that `receivedPackets` does not recognise (see above) waits until its index
comes round, and is then delivered instead of the message whose turn it is; an input that is half a
round late looks new.

The inductive invariant `IInv(claims)` has for each end `Sends` (packets of a message are next to each other
and `Numbered`: the index of the k-th message of a kind is k - 1 modulo `OrderModulus`; queues hold
numbers of packets that exist) and `Right` (the receiver's lists hold such packets, and what was claimed:
`InOrder`, the ordered output is a prefix of what was sent and `orderedRead` its length modulo
`OrderModulus`; `Rising`, the sequenced output ascends and `sequencedRead` is the index after its
last). The set `claims` says which of the two hypotheses is made; with none it gives the types. `Good` carries
`Right` through the packets of one datagram. That `waitingForOrderedPacketReadIndex` finds the
next message and no other is `SameRemainder`; that an old sequenced one is dropped is `OlderBehind`, for the
expression of `IsOlderOrderedPacket` as the code has it. Loops of the code are functions
(`Only`, `Fill`, `Updated`, `Drain`), and `ChainExists` shows what such a function is, from `Induction`.

`AcknowledgedStays` needs a hypothesis of another sort: `receivedPackets` forgets a hole after `TIMEOUT_TIME`,
and a packet that comes later counts as a duplicate, though it is acknowledged. `MissingIsYoung` says that,
whenever something is on its way to an end, its clock shows a timeout at least and no reliable packet
has been missing there for longer than one (`LinkYoung` shows what a younger clock does). It is a property of its own of the run `Link`; for
other constants whether it holds depends on how the timeout compares with delays, resends and the number
of losses. `AcknowledgedIsThere` speaks of the sender's queues and the receiver's lists, and what happened in
between has to be added. The inductive invariant `SafeInv` has for each direction three parts:

* `Seen`: the record of the receiver is right. What stands before the base index was taken, unless
  it is unreliable (`Passed`), what is not a hole was taken (`Marked`), a reliable packet that was taken is among
  the parts of a message, in `orderingList` or with the game (`Arrived`), and the acknowledgements that wait are for
  packets that were taken;
* the acknowledgements on their way back are for packets that were taken;
* a reliable packet was taken, or its sender still has it in a queue or in the resend queue (`Holds`).

Each function of the code has a lemma for its part: `ResendHolds`, `TakeWaitingHolds` and `AcknowledgeHolds`
say that a packet leaves the sender's queues by an acknowledgement only, `RegisterRecords` that
only holes that do not matter are passed, and `DuplicateTaken` that what is dropped as a duplicate was
taken.

Only model-checked: `OnlyACutKills`, which is no matter of any constants: `LinkReordered` shows a state
in which it fails without a single loss, and elsewhere it depends on how the timeout compares with delays,
resends and losses, as `MissingIsYoung` does; `HalfOpenEnds`, the fairness part of `LinkSpec`, and every other liveness
property, which is beyond the prover (fairness, ENABLED).

## Not modelled

* Physics beyond contacts, wall-clock time (`SpeedController`, `Clock`), input and bots,
  chat, physics and event packets.
* `DuelMatch::setRules/trigger`, what `reset/setState` do inside referee and physics (`Replay`
  takes them as wholes), and the client's local simulation.
* Replays of network matches, their files and encodings, and script variables in them.
* The server's list of active games and its answer to server probes. A failing save of a replay
  (the dialog then opens again).
* Rendering, sound, GUI, files, serialisation, configuration, HTTP: output or encodings.
* RakNet's pings (only the resend delay they set, a constant), offline packets but those of the
  handshake, relayed notices (`ID_REMOTE_...`, which no state of the game reads), bit streams and
  sockets. Lua and tinyxml2: an interpreter and a parser of general purpose, whose calls return; they
  and the bit streams are most of the repository's lines, with no order of events to get wrong.

## Plan

1. (done) referee, match and rally, with proofs; lobby and tables; network game.
2. State transfer: `DuelMatchState`, `swapSides`, and a client that simulates locally and
   is overwritten by snapshots and events of a mirrored or unmirrored match.
3. (done) replays: recorder, save points, loader and seeking. Left: the recording of a network
   match that is won twice.
4. (done) connections: reliable link, handshake and parting, refusals. Left: several servers of one
   client, as in the search for servers.
5. Server: list of games, waiting count and the hosted server's loop.
6. (done) proofs of the match, the lobby and its refinement, the network game, the replays, the
   connections and the reliability layer. Left: a bound on delays and losses that implies
   `MissingIsYoung`, and with it `AcknowledgedIsThere`, for every window.
