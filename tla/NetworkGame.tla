----------------------------- MODULE NetworkGame -----------------------------
(***************************************************************************)
(* One match over the network, from the moment the matchmaker creates it:  *)
(* the server's game object with its own thread (NetworkGame.cpp), the     *)
(* server's main and RakNet threads as far as they touch it                *)
(* (DedicatedServer.cpp), and the two clients (NetworkGameState).          *)
(*                                                                         *)
(* Abstractions.  The rally itself is DuelMatch: here the match is only    *)
(* paused or not, and may be won in any step.  Input, physics updates and  *)
(* game events are not sent, nor are chat messages: none of them changes   *)
(* the state of the game object or of a client's NetworkGameState.         *)
(***************************************************************************)
EXTENDS Integers, Sequences, SequencesExt

CONSTANTS
  Wishes,       \* the sides a player may want to play on
  RulesMissing, \* whether a player's copy of the rules differs from the server's
  MaxRequests   \* bound: what the players ask for altogether

ASSUME MaxRequestsAssumption == MaxRequests \in Nat

LEFT_PLAYER  == "left"
RIGHT_PLAYER == "right"
NO_PLAYER    == "none"
PlayerSide   == {LEFT_PLAYER, RIGHT_PLAYER}

ASSUME PlayersAssumption == Wishes \subseteq PlayerSide /\ RulesMissing \subseteq BOOLEAN

other_side(side) == IF side = LEFT_PLAYER THEN RIGHT_PLAYER ELSE LEFT_PLAYER

Host   == "host"
Guest  == "guest"
Client == {Host, Guest}

Opponent(c) == IF c = Host THEN Guest ELSE Host

VARIABLES
  desired,     \* the side each player wants to see himself on
  game,        \* the NetworkGame object
  gamePc,      \* where the game's thread is
  mainPc,      \* where the server's main thread is
  mPlayerMap,  \* the players DedicatedServer knows
  assigned,    \* those of them that setGame was called for
  mainQueue,   \* DedicatedServer::mPacketQueue: connections that are lost
  dropped,     \* queuePackets has thrown a game packet away
  crashed,     \* the server took a packet from an empty list
  toServer, toClient,  \* packets under way
  view,        \* the clients' NetworkGameState
  requests     \* requests sent so far (only for the bound)

server == <<game, gamePc, mainPc, mPlayerMap, assigned, mainQueue, crashed>>
vars   == <<desired, server, dropped, toServer, toClient, view, requests>>

(* MatchMaker::startGame: the host gets the side he wants, the guest the    *)
(* other one.  If both want the same side, the guest's data is switched.   *)
leftPlayer    == IF desired[Host] = RIGHT_PLAYER THEN Guest ELSE Host
sideOf(c)     == IF c = leftPlayer THEN LEFT_PLAYER ELSE RIGHT_PLAYER
mSwitchedSide == IF desired[Host] = desired[Guest] THEN sideOf(Guest) ELSE NO_PLAYER

Packet == [from : Client, type : {"LOST", "PAUSE", "UNPAUSE", "REPLAY", "RULES"},
           needRules : BOOLEAN]

packet(c, type) == [from |-> c, type |-> type, needRules |-> FALSE]

MessageType == {"RULES_CHECKSUM", "RULES", "GAME_READY", "PAUSE", "UNPAUSE",
                "OPPONENT_DISCONNECTED", "REPLAY"}

Message == [type : MessageType, side : {NO_PLAYER}]
             \cup [type : {"WIN_NOTIFICATION"}, side : PlayerSide]

message(type) == [type |-> type, side |-> NO_PLAYER]

GameState ==
  [mGameValid    : BOOLEAN,
   mPacketQueue  : Seq(Packet),
   mRulesSent    : SUBSET Client,
   mPaused       : BOOLEAN,
   winningPlayer : PlayerSide \cup {NO_PLAYER}]

(* SWITCHING: LobbyState has made the NetworkGameState, which takes over at *)
(* the end of the frame.                                                   *)
ClientState == {"LOBBY", "SWITCHING", "WAITING_FOR_OPPONENT", "PLAYING", "PAUSING",
                "OPPONENT_DISCONNECTED", "PLAYER_WON", "GONE"}

(* swallowed: LobbyState has read a packet that was meant for the           *)
(* NetworkGameState.                                                       *)
View == [state : ClientState, needRules : BOOLEAN, hasRules : BOOLEAN,
         winner : PlayerSide \cup {NO_PLAYER},
         mSaveReplay : BOOLEAN, mWaitingForReplay : BOOLEAN, swallowed : BOOLEAN]

isGameStarted == game.mRulesSent = Client

(* Send, as long as there is somebody to send to. *)
SendAll(msgs) ==
  toClient' = [c \in Client |-> IF view[c].state = "GONE" THEN toClient[c]
                                ELSE toClient[c] \o msgs[c]]

broadcast(type)  == SendAll([c \in Client |-> <<message(type)>>])
SendTo(p, msgs)  == SendAll([c \in Client |-> IF c = p THEN msgs ELSE <<>>])

\* mutated: both players are sent the same stream; one gets an empty one
winUnswitched(c, side) == side
winUnwritten(c, side)  == IF mSwitchedSide = sideOf(c) THEN NO_PLAYER ELSE side

(* The side a client is told has won: a switched client sees the game       *)
(* mirrored.                                                               *)
winFor(c, side) == IF mSwitchedSide = sideOf(c) THEN other_side(side) ELSE side

-----------------------------------------------------------------------------

Init ==
  /\ desired \in [Client -> Wishes]
  /\ game = [mGameValid |-> TRUE, mPacketQueue |-> <<>>, mRulesSent |-> {},
             mPaused |-> FALSE, winningPlayer |-> NO_PLAYER]
  /\ gamePc = "none"
  /\ mainPc = "create"
  /\ mPlayerMap = Client
  /\ assigned = {}
  /\ mainQueue = <<>>
  /\ dropped = FALSE
  /\ crashed = FALSE
  /\ toServer = [c \in Client |-> <<>>]
  /\ toClient = [c \in Client |-> <<>>]
  /\ view \in [Client -> [state : {"LOBBY"}, needRules : RulesMissing, hasRules : {FALSE},
                          winner : {NO_PLAYER}, mSaveReplay : {FALSE},
                          mWaitingForReplay : {FALSE}, swallowed : {FALSE}]]
  /\ requests = 0

-----------------------------------------------------------------------------
(* The game object, whichever thread is in it. *)

\* mutated: one answer is enough; the last answer is not counted
startedEarly(sent)  == sent # {}
countedLate(sent)   == game.mRulesSent = Client

allRulesSent(sent) == sent = Client

\* mutated: only the player who asked is told
acknowledgeSender(p) == SendTo(p.from, <<message(p.type)>>)

acknowledge(p) == broadcast(p.type)

(* NetworkGame::processPacket on the packet just taken off the queue. *)
processPacket(p) ==
  LET popped == [game EXCEPT !.mPacketQueue = Tail(@)]
      sent   == game.mRulesSent \cup {p.from}
      file   == IF p.needRules THEN <<message("RULES")>> ELSE <<>>
      ready  == IF allRulesSent(sent) THEN <<message("GAME_READY")>> ELSE <<>>
  IN \/ /\ p.type = "LOST"
        /\ broadcast("OPPONENT_DISCONNECTED")
        /\ game' = [popped EXCEPT !.mPaused = TRUE, !.mGameValid = FALSE]
     \/ /\ p.type = "PAUSE"
        /\ acknowledge(p)
        /\ game' = [popped EXCEPT !.mPaused = TRUE]
     \/ /\ p.type = "UNPAUSE"
        /\ acknowledge(p)
        /\ game' = [popped EXCEPT !.mPaused = FALSE]
     \/ /\ p.type = "REPLAY"
        /\ SendTo(p.from, <<message("REPLAY")>>)
        /\ game' = popped
     \/ /\ p.type = "RULES"
        /\ SendAll([c \in Client |-> IF c = p.from THEN file \o ready ELSE ready])
        /\ game' = [popped EXCEPT !.mRulesSent = sent]

(* front() and pop_front() of a thread that has seen the list not empty. *)
TakePacket ==
  IF game.mPacketQueue = <<>>
  THEN crashed' = TRUE /\ UNCHANGED <<game, toClient>>
  ELSE processPacket(Head(game.mPacketQueue)) /\ UNCHANGED crashed

(* NetworkGame::step.  A match that somebody has won stays won. *)
step ==
  IF ~isGameStarted \/ game.mPaused
  THEN UNCHANGED <<game, toClient>>
  ELSE \E winning \in IF game.winningPlayer = NO_PLAYER
                      THEN PlayerSide \cup {NO_PLAYER} ELSE {game.winningPlayer} :
         IF winning = NO_PLAYER
         THEN UNCHANGED <<game, toClient>>
         ELSE /\ game' = [game EXCEPT !.winningPlayer = winning, !.mPaused = TRUE]
              /\ SendAll([c \in Client |-> <<[type |-> "WIN_NOTIFICATION",
                                              side |-> winFor(c, winning)]>>])

(* The game's own thread. *)

GameCheck ==
  /\ gamePc = "check"
  /\ gamePc' = IF game.mPacketQueue = <<>> THEN "step" ELSE "take"
  /\ UNCHANGED <<game, toClient, crashed>>

GameTake ==
  /\ gamePc = "take"
  /\ TakePacket
  /\ gamePc' = "check"

GameStep ==
  /\ gamePc = "step"
  /\ step
  /\ gamePc' = IF game.mGameValid THEN "check" ELSE "done"
  /\ UNCHANGED crashed

GameThread ==
  /\ ~crashed
  /\ GameCheck \/ GameTake \/ GameStep
  /\ UNCHANGED <<desired, mainPc, mPlayerMap, assigned, mainQueue, dropped, toServer,
                 view, requests>>

-----------------------------------------------------------------------------
(* The server's main thread. *)

(* NetworkGame's constructor announces the game and starts the thread;      *)
(* DedicatedServer::createGame then tells the players of it.               *)
MainCreate ==
  /\ mainPc = "create"
  /\ broadcast("RULES_CHECKSUM")
  /\ gamePc' = "check"
  /\ mainPc' = "setLeft"
  /\ UNCHANGED <<game, mPlayerMap, assigned, mainQueue, crashed>>

MainSetGame ==
  /\ \/ mainPc = "setLeft"  /\ mainPc' = "setRight" /\ assigned' = {leftPlayer}
     \/ mainPc = "setRight" /\ mainPc' = "loop"     /\ assigned' = Client
  /\ UNCHANGED <<game, gamePc, mPlayerMap, mainQueue, crashed, toClient>>

\* mutated: the player is forgotten before the game hears of the loss
forgetOnly(c) == game

injectLost(c) == [game EXCEPT !.mPacketQueue = Append(@, packet(c, "LOST"))]

(* DedicatedServer::processPackets. *)
MainLost ==
  /\ mainPc = "loop"
  /\ mainQueue # <<>>
  /\ LET c == Head(mainQueue)
     IN /\ game' = IF c \in mPlayerMap THEN injectLost(c) ELSE game
        /\ mPlayerMap' = mPlayerMap \ {c}
  /\ mainQueue' = Tail(mainQueue)
  /\ UNCHANGED <<gamePc, mainPc, assigned, crashed, toClient>>

\* mutated: a game that is over is left alone
mustPollNever(players) == FALSE

mustPoll(players) == players # {} /\ ~game.mGameValid

(* DedicatedServer::updateGames processes the packets of a game that is     *)
(* not valid any more, for the player who is still there.                  *)
MainUpdate ==
  /\ mainPc = "loop"
  /\ mustPoll(mPlayerMap)
  /\ mainPc' = "check"
  /\ UNCHANGED <<game, gamePc, mPlayerMap, assigned, mainQueue, crashed, toClient>>

MainCheck ==
  /\ mainPc = "check"
  /\ mainPc' = IF game.mPacketQueue = <<>> THEN "loop" ELSE "take"
  /\ UNCHANGED <<game, gamePc, mPlayerMap, assigned, mainQueue, crashed, toClient>>

MainTake ==
  /\ mainPc = "take"
  /\ TakePacket
  /\ mainPc' = "check"
  /\ UNCHANGED <<gamePc, mPlayerMap, assigned, mainQueue>>

MainThread ==
  /\ ~crashed
  /\ MainCreate \/ MainSetGame \/ MainLost \/ MainUpdate \/ MainCheck \/ MainTake
  /\ UNCHANGED <<desired, dropped, toServer, view, requests>>

(* DedicatedServer::queuePackets, on RakNet's thread. *)
QueuePacket(c) ==
  /\ ~crashed
  /\ toServer[c] # <<>>
  /\ toServer' = [toServer EXCEPT ![c] = Tail(@)]
  /\ LET p == Head(toServer[c])
     IN \/ /\ p.type = "LOST"
           /\ mainQueue' = Append(mainQueue, c)
           /\ UNCHANGED <<game, dropped>>
        \/ /\ p.type # "LOST"
           /\ c \in mPlayerMap \cap assigned
           /\ game' = [game EXCEPT !.mPacketQueue = Append(@, p)]
           /\ UNCHANGED <<mainQueue, dropped>>
        \/ /\ p.type # "LOST"
           /\ c \notin mPlayerMap \cap assigned
           /\ dropped' = TRUE
           /\ UNCHANGED <<game, mainQueue>>
  /\ UNCHANGED <<desired, gamePc, mainPc, mPlayerMap, assigned, crashed, toClient, view, requests>>

-----------------------------------------------------------------------------
(* The clients. *)

(* What a NetworkGameState shows after a packet. *)
shown(state, type) ==
  IF type = "GAME_READY" THEN "PLAYING"
  ELSE IF type = "PAUSE"   /\ state = "PLAYING" THEN "PAUSING"
  ELSE IF type = "UNPAUSE" /\ state = "PAUSING" THEN "PLAYING"
  ELSE IF type = "WIN_NOTIFICATION" THEN "PLAYER_WON"
  ELSE IF type = "OPPONENT_DISCONNECTED" /\ state # "PLAYER_WON" THEN "OPPONENT_DISCONNECTED"
  ELSE state

(* The packet loops of LobbyState::step_impl, which goes on with whatever   *)
(* else has arrived after it has asked for the switch, and of              *)
(* NetworkGameState::step_impl, which asserts that RULES_CHECKSUM does not  *)
(* come any more.                                                          *)
receive(v, msg) ==
  IF v.state = "LOBBY" THEN [v EXCEPT !.state = "SWITCHING"]
  ELSE IF v.state = "SWITCHING" THEN [v EXCEPT !.swallowed = TRUE]
  ELSE [v EXCEPT !.state             = shown(v.state, msg.type),
                 !.hasRules          = v.hasRules \/ msg.type = "RULES",
                 !.mWaitingForReplay = v.mWaitingForReplay /\ msg.type # "REPLAY",
                 !.winner            = IF msg.type = "WIN_NOTIFICATION" THEN msg.side ELSE v.winner]

ClientReceive(c) ==
  /\ toClient[c] # <<>>
  /\ LET msg == Head(toClient[c])
     IN /\ view' = [view EXCEPT ![c] = receive(@, msg)]
        /\ toServer' = IF view[c].state = "LOBBY"
                       THEN [toServer EXCEPT ![c] = Append(@, [from |-> c, type |-> "RULES",
                                                               needRules |-> view[c].needRules])]
                       ELSE toServer
  /\ toClient' = [toClient EXCEPT ![c] = Tail(@)]
  /\ UNCHANGED <<desired, server, dropped, requests>>

Request(c, type) ==
  /\ requests < MaxRequests
  /\ requests' = requests + 1
  /\ toServer' = [toServer EXCEPT ![c] = Append(@, packet(c, type))]
  /\ UNCHANGED <<desired, server, dropped, toClient>>

(* State::step: the state that was asked for takes over. *)
SwitchState(c) ==
  /\ view[c].state = "SWITCHING"
  /\ view' = [view EXCEPT ![c].state = "WAITING_FOR_OPPONENT"]
  /\ UNCHANGED <<desired, server, dropped, toServer, toClient, requests>>

(* The player presses exit during the game, or continues a paused one.  The *)
(* dialogs about the replay hide the others, but not the exit key.         *)
RequestPause(c) ==
  /\ view[c].state = "PLAYING" /\ ~view[c].mSaveReplay /\ ~view[c].mWaitingForReplay
  /\ Request(c, "PAUSE")
  /\ UNCHANGED view

RequestUnpause(c) ==
  /\ view[c].state = "PAUSING"
  /\ Request(c, "UNPAUSE")
  /\ UNCHANGED view

AskForReplay(c) ==
  /\ view[c].state \in {"PAUSING", "OPPONENT_DISCONNECTED", "PLAYER_WON"}
  /\ ~view[c].mSaveReplay /\ ~view[c].mWaitingForReplay
  /\ requests < MaxRequests
  /\ view' = [view EXCEPT ![c].mSaveReplay = TRUE]
  /\ UNCHANGED <<desired, server, dropped, toServer, toClient, requests>>

(* The dialog stays while the game goes on. *)
RequestReplay(c) ==
  /\ view[c].mSaveReplay
  /\ Request(c, "REPLAY")
  /\ view' = [view EXCEPT ![c].mSaveReplay = FALSE, ![c].mWaitingForReplay = TRUE]

CancelReplay(c) ==
  /\ view[c].state # "GONE"
  /\ view[c].mSaveReplay \/ view[c].mWaitingForReplay
  /\ view' = [view EXCEPT ![c].mSaveReplay = FALSE, ![c].mWaitingForReplay = FALSE]
  /\ UNCHANGED <<desired, server, dropped, toServer, toClient, requests>>

(* The player goes back to the menu, or the connection breaks: what he does  *)
(* with the dialogs after that no longer reaches anybody.                  *)
Disconnect(c) ==
  /\ view[c].state # "GONE"
  /\ view' = [view EXCEPT ![c].state = "GONE", ![c].mSaveReplay = FALSE]
  /\ \E n \in 0..Len(toServer[c]) :
       toServer' = [toServer EXCEPT ![c] = Append(SubSeq(@, 1, n), packet(c, "LOST"))]
  /\ toClient' = [toClient EXCEPT ![c] = <<>>]
  /\ UNCHANGED <<desired, server, dropped, requests>>

-----------------------------------------------------------------------------

Next ==
  \/ GameThread
  \/ MainThread
  \/ \E c \in Client :
       \/ QueuePacket(c) \/ ClientReceive(c) \/ SwitchState(c) \/ Disconnect(c)
       \/ RequestPause(c) \/ RequestUnpause(c)
       \/ AskForReplay(c) \/ RequestReplay(c) \/ CancelReplay(c)

Spec == Init /\ [][Next]_vars

(* All threads and clients keep running; no player has to ask for anything. *)
FairSpec ==
  /\ Spec
  /\ WF_vars(GameThread)
  /\ WF_vars(MainThread)
  /\ \A c \in Client :
       WF_vars(QueuePacket(c)) /\ WF_vars(ClientReceive(c)) /\ WF_vars(SwitchState(c))

-----------------------------------------------------------------------------
(* Properties. *)

TypeOK ==
  /\ desired \in [Client -> PlayerSide]
  /\ game \in GameState
  /\ gamePc \in {"none", "check", "take", "step", "done"}
  /\ mainPc \in {"create", "setLeft", "setRight", "loop", "check", "take"}
  /\ mPlayerMap \subseteq Client /\ assigned \subseteq Client
  /\ mainQueue \in Seq(Client)
  /\ dropped \in BOOLEAN /\ crashed \in BOOLEAN
  /\ toServer \in [Client -> Seq(Packet)]
  /\ toClient \in [Client -> Seq(Message)]
  /\ view \in [Client -> View]
  /\ requests \in 0..MaxRequests

(* A client that is there and whose LobbyState has let everything pass. *)
Reached(c) == view[c].state # "GONE" /\ ~view[c].swallowed

(* What a client will believe once its NetworkGameState has read everything *)
(* that is under way.                                                      *)
Outlook(c) ==
  LET v == IF view[c].state = "SWITCHING"
           THEN [view[c] EXCEPT !.state = "WAITING_FOR_OPPONENT"] ELSE view[c]
  IN FoldLeft(receive, v, toClient[c])

(* NetworkMessage.h:169-171 in effect: a client plays only when both have    *)
(* answered for the rules, and it has got the rules file by then if it      *)
(* asked for one (and LobbyState has not read it).                         *)
NobodyPlaysWithoutRules ==
  \A c \in Client :
    view[c].state \in {"PLAYING", "PAUSING", "PLAYER_WON"} =>
      /\ isGameStarted
      /\ view[c].needRules => view[c].hasRules \/ view[c].swallowed

(* However pauses and continuations of both players cross each other, the   *)
(* clients end up paused exactly when the server's match is.               *)
PauseMirror ==
  isGameStarted /\ game.mGameValid /\ game.winningPlayer = NO_PLAYER =>
    \A c \in Client :
      Reached(c) =>
        Outlook(c).state = IF game.mPaused THEN "PAUSING" ELSE "PLAYING"

(* Each player is told the truth about who won, on the side he sees         *)
(* himself on, and nothing that arrives later takes the result away.       *)
ResultIsRight ==
  game.winningPlayer # NO_PLAYER =>
    \A c \in Client :
      Reached(c) =>
        /\ Outlook(c).state = "PLAYER_WON"
        /\ (Outlook(c).winner = desired[c]) <=> (game.winningPlayer = sideOf(c))

(* Whatever phase the game is in when the server learns that a player is     *)
(* gone, his opponent gets to know of it, unless the match is won or his    *)
(* LobbyState reads the message.  (He may be sent back into the game by a   *)
(* late GAME_READY, whose handler does not ask if the game is still on.)    *)
LeavingIsNoticed ==
  \A c \in Client :
    (\E i \in DOMAIN mainQueue : mainQueue[i] = c) ~>
      (\/ view[Opponent(c)].state \in {"OPPONENT_DISCONNECTED", "PLAYER_WON", "GONE"}
       \/ view[Opponent(c)].swallowed
       \/ crashed)

(* A player who waits for the replay, and stays connected, gets it, also     *)
(* from a game that is over ("to let the other player finalize its          *)
(* interactions").                                                         *)
ReplayArrives ==
  \A c \in Client :
    view[c].mWaitingForReplay ~>
      (~view[c].mWaitingForReplay \/ view[c].state = "GONE" \/ crashed)

(* A game that was announced to two players who stay begins, if no answer   *)
(* reached the server before createGame had assigned the game, and no      *)
(* LobbyState has read GAME_READY.                                         *)
GameBegins ==
  <>(\/ \A c \in Client : view[c].state \notin {"LOBBY", "SWITCHING", "WAITING_FOR_OPPONENT"}
     \/ \E c \in Client : ~Reached(c)
     \/ dropped)
=============================================================================
