------------------------------ MODULE MatchMaker ------------------------------
(***************************************************************************)
(* The lobby of a server: class MatchMaker (MatchMaker.cpp).               *)
(*                                                                         *)
(* The object's data members are a record, together with the connections   *)
(* it sends packets on; every method is an operator from the record before *)
(* the call to the record after it.  Lobby keeps the record as mMatchMaker *)
(* and adds the server's main loop, the clients and the network.           *)
(*                                                                         *)
(* Abstractions.  Names, speeds, rules and points of a game do not decide  *)
(* anything; of its password only whether it has one matters.              *)
(***************************************************************************)
EXTENDS Integers, Sequences, Functions, SequencesExt

CONSTANTS
  Client,   \* the players, by the network ID of their connection
  Password  \* what a game may ask for; "" for nothing

ASSUME PasswordAssumption == "" \in Password

GameID == Nat

OpenGame == [creator : Client, password : Password, connected : Seq(Client)]

(* What the server sends to a player. *)
ServerMessage ==
  [type : {"SERVER_STATUS"}, games : SUBSET GameID]
    \cup [type : {"GAME_STATUS"}, id : GameID, creator : Client, connected : Seq(Client)]
    \cup [type : {"REMOVED_FROM_GAME"}, id : GameID]
    \cup [type : {"RULES_CHECKSUM"}]

NoGames == [id \in {} |-> {}]

(* MatchMaker's members; links and toClient stand for the RakNet server,   *)
(* inGame for NetworkPlayer::mGame of the players of the dedicated server. *)
EmptyLobby ==
  [mOpenGames     |-> NoGames,
   mIDCounter     |-> 0,
   mPlayerMap     |-> {},
   mAllowNewGames |-> TRUE,
   inGame         |-> {},
   links          |-> {},
   toClient       |-> [c \in Client |-> <<>>]]

IsMatchMaker(m) ==
  /\ m.mIDCounter \in GameID
  /\ DOMAIN m.mOpenGames \subseteq 0..m.mIDCounter
  /\ \A id \in DOMAIN m.mOpenGames : m.mOpenGames[id] \in OpenGame
  /\ m.mPlayerMap \subseteq Client
  /\ m.mAllowNewGames \in BOOLEAN
  /\ m.inGame \subseteq Client
  /\ m.links \subseteq Client
  /\ m.toClient \in [Client -> Seq(ServerMessage)]

(* The players of a game, and of all of them. *)
PlayersOf(g)    == {g.creator} \cup Range(g.connected)
GamesOf(m, p)   == {id \in DOMAIN m.mOpenGames : m.mOpenGames[id].creator = p}
GuestIn(m, p)   == {id \in DOMAIN m.mOpenGames : p \in Range(m.mOpenGames[id].connected)}
SomeOf(S)       == CHOOSE x \in S : TRUE

(***************************************************************************)
(* Sending.  Packets are RELIABLE_ORDERED; RakNet drops what is sent to a  *)
(* connection that is closed.                                              *)
(***************************************************************************)
sendPacket(m, players, msg) ==
  [m EXCEPT !.toClient =
     [c \in Client |-> IF c \in players \cap m.links
                       THEN Append(m.toClient[c], msg) ELSE m.toClient[c]]]

sendOpenGameList(m, players) ==
  sendPacket(m, players, [type |-> "SERVER_STATUS", games |-> DOMAIN m.mOpenGames])

broadcastOpenGameStatus(m, id) ==
  LET g == m.mOpenGames[id]
  IN sendPacket(m, PlayersOf(g),
       [type |-> "GAME_STATUS", id |-> id, creator |-> g.creator, connected |-> g.connected])

(* "sends the game list to all players that are not in a game" *)
broadcastOpenGameList(m) ==
  sendOpenGameList(m, {p \in m.mPlayerMap :
                         \A id \in DOMAIN m.mOpenGames : p \notin PlayersOf(m.mOpenGames[id])})

notifyRemoved(m, players, id) ==
  sendPacket(m, players, [type |-> "REMOVED_FROM_GAME", id |-> id])

-----------------------------------------------------------------------------
(* Games and their players. *)

removeGame(m, id) ==
  LET m1 == notifyRemoved(m, PlayersOf(m.mOpenGames[id]), id)
  IN broadcastOpenGameList(
       [m1 EXCEPT !.mOpenGames = Restrict(m.mOpenGames, DOMAIN m.mOpenGames \ {id})])

(* vector::erase of the one element std::find finds. *)
EraseFirst(s, e) ==
  LET at == CHOOSE i \in DOMAIN s : s[i] = e /\ \A j \in 1..(i - 1) : s[j] # e
  IN SubSeq(s, 1, at - 1) \o SubSeq(s, at + 1, Len(s))

\* mutated: nobody else in the game is told
removePlayerQuietly(m, id, p) ==
  notifyRemoved([m EXCEPT !.mOpenGames[id].connected =
                   EraseFirst(m.mOpenGames[id].connected, p)], {p}, id)

removePlayerFromGame(m, id, p) ==
  LET m1 == [m EXCEPT !.mOpenGames[id].connected = EraseFirst(m.mOpenGames[id].connected, p)]
  IN broadcastOpenGameStatus(notifyRemoved(m1, {p}, id), id)

\* mutated: only looks for a game the player has opened
removeOwnGame(m, p) ==
  IF GamesOf(m, p) = {} THEN m ELSE removeGame(m, SomeOf(GamesOf(m, p)))

(* The game the player has opened, and the one he has joined.  The code    *)
(* looks for the first of his games and loops over those he has joined;    *)
(* OneGamePerPlayer says that there is never more than one of either.      *)
removePlayerFromAllGames(m, p) ==
  LET m1 == IF GamesOf(m, p) = {} THEN m ELSE removeGame(m, SomeOf(GamesOf(m, p)))
  IN IF GuestIn(m1, p) = {} THEN m1 ELSE removePlayerFromGame(m1, SomeOf(GuestIn(m1, p)), p)

(* The counter only moves past IDs that are in use: the ID of a game that  *)
(* is gone is given out again.                                             *)
FreeID(m) ==
  LET last == Max(DOMAIN m.mOpenGames \cup {m.mIDCounter})
  IN CHOOSE id \in m.mIDCounter..last + 1 :
       id \notin DOMAIN m.mOpenGames /\ m.mIDCounter..id - 1 \subseteq DOMAIN m.mOpenGames

insertGame(games, id, game) ==
  [i \in DOMAIN games \cup {id} |-> IF i = id THEN game ELSE games[i]]

\* mutated: only tells the players that are in no game
addGameForIdlers(m, game) ==
  LET id == FreeID(m)
      m1 == [m EXCEPT !.mIDCounter = id, !.mOpenGames = insertGame(m.mOpenGames, id, game)]
  IN broadcastOpenGameStatus(broadcastOpenGameList(m1), id)

\* mutated: the counter stays
addGameUncounted(m, game) ==
  LET id == FreeID(m)
      m1 == [m EXCEPT !.mOpenGames = insertGame(m.mOpenGames, id, game)]
  IN broadcastOpenGameStatus(
       broadcastOpenGameList(sendOpenGameList(m1, m1.mPlayerMap)), id)

addGame(m, game) ==
  LET id == FreeID(m)
      m1 == [m EXCEPT !.mIDCounter = id, !.mOpenGames = insertGame(m.mOpenGames, id, game)]
  IN broadcastOpenGameStatus(
       broadcastOpenGameList(sendOpenGameList(m1, m1.mPlayerMap)), id)

openGame(m, creator, password) ==
  IF m.mAllowNewGames /\ creator \in m.mPlayerMap
  THEN addGame(removePlayerFromAllGames(m, creator),
               [creator |-> creator, password |-> password, connected |-> <<>>])
  ELSE m

addPlayer(m, p) ==
  sendOpenGameList([m EXCEPT !.mPlayerMap = @ \cup {p}], {p})

\* mutated: the player's games stay
removePlayerOnly(m, p) == [m EXCEPT !.mPlayerMap = @ \ {p}]

removePlayer(m, p) ==
  [removePlayerFromAllGames(m, p) EXCEPT !.mPlayerMap = @ \ {p}]

seatPlayer(m, id, p) ==
  [m EXCEPT !.mOpenGames[id].connected = Append(m.mOpenGames[id].connected, p)]

\* mutated: the player keeps his seats in other games
joinAnotherGame(m, p, id, password) ==
  IF p \notin m.mPlayerMap THEN m
  ELSE IF id \notin DOMAIN m.mOpenGames THEN sendOpenGameList(m, {p})
  ELSE IF m.mOpenGames[id].password \notin {"", password} THEN m
  ELSE broadcastOpenGameStatus(seatPlayer(m, id, p), id)

joinGame(m, p, id, password) ==
  LET m1 == removePlayerFromAllGames(m, p)
  IN IF p \notin m1.mPlayerMap THEN m1
     ELSE IF id \notin DOMAIN m1.mOpenGames THEN sendOpenGameList(m1, {p})
     ELSE IF m1.mOpenGames[id].password \notin {"", password} THEN m1
     ELSE broadcastOpenGameStatus(seatPlayer(m1, id, p), id)

(* DedicatedServer::createGame: NetworkGame's constructor announces the     *)
(* game to both players.                                                   *)
createGame(m, host, client) ==
  sendPacket([m EXCEPT !.inGame = @ \cup {host, client}],
             {host, client}, [type |-> "RULES_CHECKSUM"])

(* startGame asserts that both players are known. *)
canStart(m, host, client) == {host, client} \subseteq m.mPlayerMap

\* mutated: the players are removed before they hear of the match
startGameAfterRemoval(m, host, client) ==
  IF \E id \in GamesOf(m, host) : client \in Range(m.mOpenGames[id].connected)
  THEN createGame(removePlayer(removePlayer(m, host), client), host, client)
  ELSE m

startGame(m, host, client) ==
  IF \E id \in GamesOf(m, host) : client \in Range(m.mOpenGames[id].connected)
  THEN removePlayer(removePlayer(createGame(m, host, client), host), client)
  ELSE m
=============================================================================
