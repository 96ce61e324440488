------------------------------ MODULE DuelMatch ------------------------------
(***************************************************************************)
(* One volleyball match: class DuelMatch (DuelMatch.cpp) driving its       *)
(* referee (GameLogic) and the physics (PhysicWorld.cpp), stepped by the   *)
(* owner of the match (LocalGameState::step_impl; NetworkGame::step does   *)
(* the same) until there is a winner.                                      *)
(*                                                                         *)
(* A step is one frame.  The physics is abstracted to what the match asks  *)
(* of it: the contacts of the frame, whether a blob stands on the ground   *)
(* and whether the ball has come to rest.                                  *)
(***************************************************************************)
EXTENDS GameLogic

CONSTANTS
  RuleSets,     \* rule files the match may be created with
  ScoreToWin,   \* the score_to_win the match is created with
  AirTime,      \* bound: frames a jump lasts
  RestTime,     \* bound: frames until a ball nobody touches lies still
  MaxScore      \* bound: the scores that are explored

ASSUME RuleSetsAssumption   == RuleSets \subseteq RuleSet
ASSUME ScoreToWinAssumption == ScoreToWin \in Nat \ {0}
ASSUME PhysicsAssumption    == AirTime \in Nat \ {0} /\ RestTime \in Nat
ASSUME MaxScoreAssumption   == MaxScore \in Nat

VARIABLES
  mLogic,       \* the referee's record
  mPaused,
  mLastEvents,  \* what the match itself reported in the last frame
  air,          \* per blob: frames until it is back on the ground
  rest          \* frames until the ball lies still, if nobody touches it

vars == <<mLogic, mPaused, mLastEvents, air, rest>>

NoSide == NO_PLAYER

(* The contacts physics can report in one frame, in the order in which     *)
(* PhysicWorld::step reports them: the left blob, the right blob, the      *)
(* ground, and at most one of wall and net.  Blobs are only tested while   *)
(* the ball is valid, and a ball that is not in play does not move.        *)
Report == [blobs  : SUBSET Player,
           ground : Player \cup {NoSide},
           wall   : Player \cup {NoSide},
           net    : BOOLEAN]

(* The ball is in one place: it cannot touch the net and a wall, or a wall *)
(* and something on the other side, and both blobs reach it only above the *)
(* net.                                                                    *)
Contacts ==
  {c \in Report :
     /\ c.wall # NoSide => ~c.net
                           /\ c.blobs \subseteq {c.wall}
                           /\ c.ground \in {c.wall, NoSide}
     /\ c.blobs = Player => c.ground = NoSide /\ c.wall = NoSide}

(* Before the first touch the ball hangs over the half of the server (the  *)
(* left one in the first round, PhysicWorld's constructor puts it there).  *)
ServeSide(l) == IF l.servingPlayer = NO_PLAYER THEN LEFT_PLAYER ELSE l.servingPlayer

Possible(l, c) ==
  /\ ~l.ballValid => c.blobs = {}
  /\ ~l.gameRunning => /\ c.blobs \subseteq {ServeSide(l)}
                       /\ c.ground = NoSide /\ c.wall = NoSide /\ ~c.net

Error(side) == <<"PLAYER_ERROR", side>>
ResetBall   == <<"RESET_BALL", NO_PLAYER>>

MatchEvents == {Error(p) : p \in Player} \cup {ResetBall}

\* mutated: the match reports an error without asking if there was one
errorEventsAlways(l) == {Error(l.lastError)}

(* What the match reports of the mistake getLastErrorSide() names, if any.  *)
errorEvents(l) == {Error(p) : p \in {l.lastError} \cap Player}

(* The event loop of DuelMatch::step. *)
processEvents(l, c) ==
  LET l1 == IF LEFT_PLAYER \in c.blobs THEN onBallHitsPlayer(l, LEFT_PLAYER) ELSE l
      l2 == IF RIGHT_PLAYER \in c.blobs THEN onBallHitsPlayer(l1, RIGHT_PLAYER) ELSE l1
      l3 == IF c.ground # NoSide THEN onBallHitsGround(l2, c.ground) ELSE l2
  IN CASE c.wall # NoSide -> onBallHitsWall(l3, c.wall)
       [] c.net           -> onBallHitsNet(l3)
       [] OTHER           -> l3

(* PhysicWorld::blobHitGround is false for NO_PLAYER. *)
canStartRound(servingPlayer, blobAir, ballRest) ==
  servingPlayer \in Player /\ blobAir[servingPlayer] = 0 /\ ballRest = 0

-----------------------------------------------------------------------------

Init ==
  /\ \E r \in RuleSets : mLogic = createGameLogic(r, ScoreToWin)
  /\ mPaused = FALSE
  /\ mLastEvents = {}
  /\ air = [p \in Player |-> 0]
  /\ rest = RestTime

(* PhysicWorld::handleBlob: a blob on the ground may jump, one in the air   *)
(* comes down.                                                             *)
MoveBlobs ==
  air' \in {a \in [Player -> 0..AirTime] :
              \A p \in Player : a[p] = air[p] - 1 \/ (air[p] = 0 /\ a[p] \in {0, AirTime})}

(* A contact with a blob sends the ball off again; otherwise a ball in play *)
(* loses its energy, frame by frame.                                       *)
MoveBall(c) ==
  \/ c.blobs # {} /\ rest' \in 0..RestTime
  \/ c.blobs = {} /\ rest' = IF mLogic.gameRunning THEN Dec(rest) ELSE rest

(* DuelMatch::step with the contacts c.  The owner steps the match only     *)
(* while nobody has won; a paused match ignores the call.                  *)
Frame(c) ==
  /\ ~mPaused
  /\ mLogic.winningPlayer = NO_PLAYER
  /\ Possible(mLogic, c)
  /\ MoveBlobs
  /\ MoveBall(c)
  /\ \E l \in {processEvents(step(mLogic), c)} :
       LET serve == ~l.ballValid /\ canStartRound(l.servingPlayer, air', rest')
       IN /\ \A p \in Player : l.scores[p] <= MaxScore
          /\ mLogic' = IF serve THEN onServe(forgetError(l)) ELSE forgetError(l)
          /\ mLastEvents' = errorEvents(l) \cup (IF serve THEN {ResetBall} ELSE {})
  /\ UNCHANGED mPaused

Step == \E c \in Contacts : Frame(c)

Pause ==
  /\ ~mPaused
  /\ mLogic.winningPlayer = NO_PLAYER
  /\ mLogic' = onPause(mLogic)
  /\ mPaused' = TRUE
  /\ UNCHANGED <<mLastEvents, air, rest>>

Unpause ==
  /\ mPaused
  /\ mLogic' = onUnPause(mLogic)
  /\ mPaused' = FALSE
  /\ UNCHANGED <<mLastEvents, air, rest>>

Next == Step \/ Pause \/ Unpause

Spec == Init /\ [][Next]_vars

(* The owner's loop calls step() in every frame of a match that runs. *)
FairSpec == Spec /\ WF_vars(Step)

-----------------------------------------------------------------------------
(* Properties. *)

TypeOK ==
  /\ mLogic \in GameLogicState
  /\ mPaused \in BOOLEAN
  /\ mLastEvents \subseteq MatchEvents
  /\ air \in [Player -> 0..AirTime]
  /\ rest \in 0..RestTime

(* A round that is over can be started again: there is a player to serve,   *)
(* and the ball is still being moved (PhysicWorld::step moves it only while *)
(* the game runs), or it would hang in the air and never lie still.        *)
RoundCanRestart ==
  ~mLogic.ballValid => mLogic.gameRunning /\ mLogic.servingPlayer \in Player

(* The winner score() caches is the one the scores say at any time.         *)
WinnerIsCurrent ==
  mLogic.winningPlayer = winnerOf(mLogic.rules, mLogic.scores, mLogic.scoreToWin)

(* Between frames nobody holds more touches than the rules allow, and only  *)
(* one side holds any: the ball belongs to one of them.                    *)
TouchesBelongToOneSide ==
  /\ \A p \in Player : mLogic.touches[p] <= TouchLimit(mLogic.rules)
  /\ \E p \in Player : mLogic.touches[p] = 0

(* tennis.lua: while a side has a bounce against it, the other side has       *)
(* neither a bounce nor a touch, so that one contact is never a mistake of  *)
(* both sides.  The other scripts know no bounces.                         *)
BouncesBelongToOneSide ==
  /\ mLogic.rules # "tennis" => mLogic.groundHits = Nobody
  /\ \A p \in Player :
       mLogic.groundHits[p] > 0 => /\ mLogic.touches[other_side(p)] = 0
                                   /\ mLogic.groundHits[other_side(p)] = 0

(* However many contacts a frame has and whatever the script does about     *)
(* them, at most one side gains points, for one mistake of the other; that *)
(* mistake is reported, and the side that gained serves next.  firewall.lua *)
(* also pays one point, without a mistake, for a wall.                     *)
OnePointPerFrame ==
  [][\A p \in Player :
       mLogic'.scores[p] # mLogic.scores[p] =>
         /\ mLogic.ballValid
         /\ mLogic'.scores[other_side(p)] = mLogic.scores[other_side(p)]
         /\ \/ /\ mLogic'.scores[p] = mLogic.scores[p] + FaultPoints(mLogic.rules)
               /\ mLogic'.servingPlayer = p
               /\ Error(other_side(p)) \in mLastEvents'
            \/ /\ mLogic.rules = "firewall"
               /\ mLogic'.scores[p] = mLogic.scores[p] + 1
               /\ mLogic'.ballValid]_vars

(* "The timespan between making a mistake and resetting the ball": whatever *)
(* the ball still touches, nothing changes the score, the winner or who     *)
(* serves next.                                                            *)
DeadBallCountsForNothing ==
  [][~mLogic.ballValid =>
       /\ mLogic'.scores = mLogic.scores
       /\ mLogic'.winningPlayer = mLogic.winningPlayer
       /\ mLogic'.servingPlayer = mLogic.servingPlayer]_vars

(* Every round that is over is followed by the next serve, unless the match *)
(* is won or somebody pauses it.                                           *)
RoundRestarts ==
  ~mLogic.ballValid ~>
    (mLogic.ballValid \/ mPaused \/ mLogic.winningPlayer # NO_PLAYER)

-----------------------------------------------------------------------------
(* The match as the players see it. *)

Phase == IF ~mLogic.ballValid THEN "dead"
         ELSE IF mLogic.gameRunning THEN "play" ELSE "serve"

R == INSTANCE Rally WITH
       Side <- Player, None <- NO_PLAYER,
       Points <- {0, 1, FirewallFactor}, Bonuses <- {1},
       tally <- mLogic.scores, server <- mLogic.servingPlayer,
       phase <- Phase, winner <- mLogic.winningPlayer

(* Every frame of a match is a step of the abstract one, or changes nothing *)
(* the players can see.                                                    *)
RallySpec == R!Spec
=============================================================================
