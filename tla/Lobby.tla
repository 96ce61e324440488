-------------------------------- MODULE Lobby --------------------------------
(***************************************************************************)
(* The lobby at work: the packet loop of DedicatedServer around its        *)
(* MatchMaker, the LobbyState of every client, and one ordered connection  *)
(* between each client and the server, which may break at any time.        *)
(*                                                                         *)
(* A server step takes one packet off mPacketQueue.  The queue is filled   *)
(* by RakNet's thread in whatever order packets of different clients       *)
(* arrive, so a step may take the next packet of any client.               *)
(***************************************************************************)
EXTENDS MatchMaker, FiniteSets

CONSTANTS
  PlayerHosted,  \* mPlayerHosted: the server runs inside a player's program
  MaxRequests,   \* bound: lobby requests the players send altogether
  MaxDepartures  \* bound: players that disconnect

ASSUME PlayerHostedAssumption == PlayerHosted \in BOOLEAN
ASSUME MaxRequestsAssumption  == MaxRequests \in Nat /\ MaxDepartures \in Nat

VARIABLES
  mMatchMaker,
  mAborted,      \* an assertion of the server has failed
  toServer,      \* per client: packets the server has not processed
  view,          \* per client: its LobbyState
  requests       \* lobby requests sent so far (only for the bound)

vars == <<mMatchMaker, mAborted, toServer, view, requests>>

Enter              == [type |-> "ENTER_SERVER"]
Lost               == [type |-> "CONNECTION_LOST"]
Open(password)     == [type |-> "OPEN_GAME", password |-> password]
Join(id, password) == [type |-> "JOIN_GAME", id |-> id, password |-> password]
Leave              == [type |-> "LEAVE_GAME"]
Start(target)      == [type |-> "START_GAME", target |-> target]

ClientMessage ==
  {Enter, Lost, Leave}
    \cup [type : {"OPEN_GAME"}, password : Password]
    \cup [type : {"JOIN_GAME"}, id : GameID, password : Password]
    \cup [type : {"START_GAME"}, target : Client]

(* A client's substate: the main one, or the game it was last told about. *)
Main == [type |-> "MAIN"]

Substate == {Main} \cup {msg \in ServerMessage : msg.type = "GAME_STATUS"}

NewView == [state |-> "OFFLINE", configured |-> FALSE, sub |-> Main, games |-> {}]

(* SWITCHING: NetworkGameState takes over at the end of the frame. *)
ViewState == {"OFFLINE", "CONNECTING", "CONNECTED", "SWITCHING", "PLAYING", "GONE"}

View == [state : ViewState, configured : BOOLEAN, sub : Substate, games : SUBSET GameID]

(* The packet loop of LobbyState::step_impl, which goes on after            *)
(* RULES_CHECKSUM.  NetworkGameState ignores lobby packets.                *)
receive(v, msg) ==
  LET shown == IF v.state = "SWITCHING" THEN v.state ELSE "CONNECTED"
  IN IF v.state = "PLAYING" THEN v
     ELSE IF msg.type = "RULES_CHECKSUM" THEN [v EXCEPT !.state = "SWITCHING"]
     ELSE IF msg.type = "SERVER_STATUS"
          THEN [v EXCEPT !.state = shown, !.games = msg.games, !.configured = TRUE,
                         !.sub = IF v.configured THEN v.sub ELSE Main]
     ELSE [v EXCEPT !.state = shown,   \* GAME_STATUS or REMOVED_FROM_GAME
                    !.sub = IF msg.type = "GAME_STATUS" THEN msg ELSE Main]

-----------------------------------------------------------------------------

Init ==
  /\ mMatchMaker = EmptyLobby
  /\ mAborted = FALSE
  /\ toServer = [c \in Client |-> <<>>]
  /\ view = [c \in Client |-> NewView]
  /\ requests = 0

(* The clients. *)

Connect(c) ==
  /\ view[c].state = "OFFLINE"
  /\ view' = [view EXCEPT ![c].state = "CONNECTING"]
  /\ toServer' = [toServer EXCEPT ![c] = Append(@, Enter)]
  /\ mMatchMaker' = [mMatchMaker EXCEPT !.links = @ \cup {c}]
  /\ UNCHANGED <<mAborted, requests>>

(* The player's click, in a frame that may already have asked for a switch. *)
Request(c, msg) ==
  /\ view[c].state \in {"CONNECTED", "SWITCHING"}
  /\ requests < MaxRequests
  /\ requests' = requests + 1
  /\ toServer' = [toServer EXCEPT ![c] = Append(@, msg)]
  /\ UNCHANGED <<mMatchMaker, mAborted, view>>

RequestOpen(c) ==
  view[c].sub = Main /\ \E pw \in Password : Request(c, Open(pw))

RequestJoin(c) ==
  view[c].sub = Main /\ \E id \in view[c].games, pw \in Password : Request(c, Join(id, pw))

RequestLeave(c) ==
  view[c].sub # Main /\ Request(c, Leave)

RequestStart(c) ==
  /\ view[c].sub # Main
  /\ view[c].sub.creator = c
  /\ \E target \in Range(view[c].sub.connected) : Request(c, Start(target))

ClientReceive(c) ==
  /\ mMatchMaker.toClient[c] # <<>>
  /\ view' = [view EXCEPT ![c] = receive(@, Head(mMatchMaker.toClient[c]))]
  /\ mMatchMaker' = [mMatchMaker EXCEPT !.toClient[c] = Tail(@)]
  /\ UNCHANGED <<mAborted, toServer, requests>>

(* State::step: the state that was asked for takes over. *)
SwitchState(c) ==
  /\ view[c].state = "SWITCHING"
  /\ view' = [view EXCEPT ![c].state = "PLAYING"]
  /\ UNCHANGED <<mMatchMaker, mAborted, toServer, requests>>

(* The client leaves, dies or loses its connection: what has not arrived   *)
(* by then is lost, in both directions.                                    *)
Disconnect(c) ==
  /\ c \in mMatchMaker.links
  /\ Cardinality({p \in Client : view[p].state = "GONE"}) < MaxDepartures
  /\ view' = [view EXCEPT ![c].state = "GONE"]
  /\ \E n \in 0..Len(toServer[c]) :
       toServer' = [toServer EXCEPT ![c] = Append(SubSeq(@, 1, n), Lost)]
  /\ mMatchMaker' = [mMatchMaker EXCEPT !.links = @ \ {c}, !.toClient[c] = <<>>]
  /\ UNCHANGED <<mAborted, requests>>

(* The server: DedicatedServer::processPackets. *)

NextPacket(c) ==
  /\ ~mAborted
  /\ toServer[c] # <<>>
  /\ toServer' = [toServer EXCEPT ![c] = Tail(@)]

TakePacket(c, type) ==
  /\ NextPacket(c)
  /\ Head(toServer[c]).type = type
  /\ UNCHANGED <<view, requests>>

(* On a player's own server whoever enters also joins the first open game. *)
HandleEnter(c) ==
  /\ TakePacket(c, "ENTER_SERVER")
  /\ LET m == addPlayer(mMatchMaker, c)
         first == CHOOSE id \in DOMAIN m.mOpenGames : \A i \in DOMAIN m.mOpenGames : id <= i
     IN mMatchMaker' = IF PlayerHosted /\ DOMAIN m.mOpenGames # {}
                       THEN joinGame(m, c, first, "") ELSE m
  /\ UNCHANGED mAborted

HandleLost(c) ==
  /\ TakePacket(c, "CONNECTION_LOST")
  /\ mMatchMaker' = IF c \in mMatchMaker.mPlayerMap \cup mMatchMaker.inGame
                    THEN [removePlayer(mMatchMaker, c) EXCEPT !.inGame = @ \ {c}]
                    ELSE mMatchMaker
  /\ UNCHANGED mAborted

HandleOpen(c) ==
  /\ TakePacket(c, "OPEN_GAME")
  /\ mMatchMaker' = openGame(mMatchMaker, c, Head(toServer[c]).password)
  /\ UNCHANGED mAborted

HandleJoin(c) ==
  /\ TakePacket(c, "JOIN_GAME")
  /\ LET msg == Head(toServer[c])
     IN mMatchMaker' = joinGame(mMatchMaker, c, msg.id, msg.password)
  /\ UNCHANGED mAborted

HandleLeave(c) ==
  /\ TakePacket(c, "LEAVE_GAME")
  /\ mMatchMaker' = removePlayerFromAllGames(mMatchMaker, c)
  /\ UNCHANGED mAborted

HandleStart(c) ==
  /\ TakePacket(c, "START_GAME")
  /\ LET target == Head(toServer[c]).target
     IN IF canStart(mMatchMaker, c, target)
        THEN /\ mMatchMaker' = startGame(mMatchMaker, c, target)
             /\ UNCHANGED mAborted
        ELSE /\ mAborted' = TRUE
             /\ UNCHANGED mMatchMaker

Handle(c) ==
  \/ HandleEnter(c) \/ HandleLost(c) \/ HandleOpen(c)
  \/ HandleJoin(c) \/ HandleLeave(c) \/ HandleStart(c)

(* DedicatedServer::updateGames, between two passes over the queue. *)
UpdateGames ==
  /\ PlayerHosted
  /\ ~mAborted
  /\ mMatchMaker' = [mMatchMaker EXCEPT !.mAllowNewGames = (DOMAIN mMatchMaker.mOpenGames = {})]
  /\ UNCHANGED <<mAborted, toServer, view, requests>>

Next ==
  \/ \E c \in Client :
       \/ Connect(c) \/ ClientReceive(c) \/ SwitchState(c) \/ Disconnect(c)
       \/ RequestOpen(c) \/ RequestJoin(c) \/ RequestLeave(c) \/ RequestStart(c)
       \/ Handle(c)
  \/ UpdateGames

Spec == Init /\ [][Next]_vars

(* Both sides poll their queues for ever; nobody has to connect, to ask or *)
(* to leave.  (Only the handlers take a packet off toServer.)              *)
FairSpec ==
  /\ Spec
  /\ \A c \in Client :
       WF_vars(ClientReceive(c)) /\ WF_vars(SwitchState(c)) /\ WF_toServer(NextPacket(c))

-----------------------------------------------------------------------------
(* Properties. *)

TypeOK ==
  /\ IsMatchMaker(mMatchMaker)
  /\ mAborted \in BOOLEAN
  /\ toServer \in [Client -> Seq(ClientMessage)]
  /\ view \in [Client -> View]
  /\ requests \in 0..MaxRequests

Games == mMatchMaker.mOpenGames

(* Everybody who sits in an open game is a waiting player and sits there    *)
(* once, in one game and in one role: nobody is sold two matches, and no   *)
(* game keeps somebody who is gone or playing.                             *)
OneGamePerPlayer ==
  /\ \A id \in DOMAIN Games :
       /\ PlayersOf(Games[id]) \subseteq mMatchMaker.mPlayerMap
       /\ Games[id].creator \notin Range(Games[id].connected)
       /\ IsInjective(Games[id].connected)
       /\ \A other \in DOMAIN Games \ {id} : PlayersOf(Games[id]) \cap PlayersOf(Games[other]) = {}
  /\ mMatchMaker.mPlayerMap \cap mMatchMaker.inGame = {}

(* What a client will believe once it has read everything sent to it. *)
Outlook(c) == FoldLeft(receive, view[c], mMatchMaker.toClient[c])

(* However requests, answers and departures cross each other, a client that *)
(* is still there ends up with the server's own idea of where it is: in    *)
(* the lobby, playing, or in a certain game with certain others.           *)
LobbyMirror ==
  \A c \in mMatchMaker.links :
    LET v == Outlook(c)
        mine == GamesOf(mMatchMaker, c) \cup GuestIn(mMatchMaker, c)
    IN /\ c \in mMatchMaker.inGame => v.state \in {"SWITCHING", "PLAYING"}
       /\ c \in mMatchMaker.mPlayerMap =>
            /\ v.state = "CONNECTED"
            /\ mine = {} => v.sub = Main
            /\ \A id \in mine :
                 v.sub = [type |-> "GAME_STATUS", id |-> id, creator |-> Games[id].creator,
                          connected |-> Games[id].connected]
       /\ c \notin mMatchMaker.mPlayerMap \cup mMatchMaker.inGame => v.state = "CONNECTING"

(* Whoever waits gets to know of every game that is open, even if it was    *)
(* opened while he sat in another one.  (He may also see games that are    *)
(* gone: their removal is only told to players who are in no game.)        *)
EveryGameIsListed ==
  \A c \in mMatchMaker.links \cap mMatchMaker.mPlayerMap :
    DOMAIN Games \subseteq Outlook(c).games

(* LobbyStates.cpp:187 asserts that RULES_CHECKSUM reaches the client while *)
(* it shows the game that is about to start.                               *)
RulesOnlyInGameSubstate ==
  \A c \in Client :
    mMatchMaker.toClient[c] # <<>> =>
      (Head(mMatchMaker.toClient[c]).type = "RULES_CHECKSUM" => view[c].sub # Main)

(* Whoever asks to leave a game gets out of it (or into the match that was  *)
(* started before the request arrived), unless the server fails.           *)
LeaveIsAnswered ==
  \A c \in Client :
    (\E i \in DOMAIN toServer[c] : toServer[c][i] = Leave) ~>
      (view[c].sub = Main \/ view[c].state \in {"PLAYING", "GONE"} \/ mAborted)

(* MatchMaker.cpp:218-219 asserts that the host who starts a game and the   *)
(* client he starts it with are known to the matchmaker.                   *)
NoAssertionFails == ~mAborted

-----------------------------------------------------------------------------
(* The lobby as its players see it. *)

CONSTANTS Away, Waiting, Playing   \* the states of a player at no table

ASSUME SeatAssumption ==
  /\ Away # Waiting /\ Away # Playing /\ Waiting # Playing
  /\ {Away, Waiting, Playing} \cap Client = {}

seat ==
  [c \in Client |->
     IF c \in mMatchMaker.inGame THEN Playing
     ELSE IF c \notin mMatchMaker.mPlayerMap THEN Away
     ELSE IF GamesOf(mMatchMaker, c) # {} THEN c
     ELSE IF GuestIn(mMatchMaker, c) # {} THEN Games[SomeOf(GuestIn(mMatchMaker, c))].creator
     ELSE Waiting]

T == INSTANCE Tables WITH Person <- Client

(* Every packet the server processes moves its players as the abstract      *)
(* lobby does, or not at all.                                              *)
TablesSpec == T!Spec
=============================================================================
