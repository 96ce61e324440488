------------------------------ MODULE GameLogic ------------------------------
(***************************************************************************)
(* The referee of a match: class IGameLogic (GameLogic.cpp), its built-in  *)
(* fallback rules and the rule scripts of data/rules.                      *)
(*                                                                         *)
(* The object's data members are a record; every method that changes them  *)
(* is an operator from the record before the call to the record after it.  *)
(* The module has no variables: DuelMatch keeps the record as its mLogic.  *)
(*                                                                         *)
(* Abstractions.  The squish counters are decremented without limit by the *)
(* code and only ever compared with "<= 0": here they stop at 0.  Scripts  *)
(* that only override HandleInput (sticky_mode, jumping_jack,              *)
(* back_defence) referee exactly like "fallback", as does default.lua.     *)
(***************************************************************************)
EXTENDS Integers

CONSTANTS
  SquishTolerance,  \* frames before the same contact counts again (11)
  FirewallFactor    \* points firewall.lua gives for a mistake (10)

ASSUME SquishToleranceAssumption == SquishTolerance \in Nat \ {0}
ASSUME FirewallFactorAssumption  == FirewallFactor \in Nat \ {0}

LEFT_PLAYER  == "left"
RIGHT_PLAYER == "right"
NO_PLAYER    == "none"
Player       == {LEFT_PLAYER, RIGHT_PLAYER}

other_side(side) == IF side = LEFT_PLAYER THEN RIGHT_PLAYER ELSE LEFT_PLAYER

RuleSet == {"fallback", "blitz", "classic", "firewall", "one_hit_wonder",
            "the_double", "tennis"}

Nobody == [p \in Player |-> 0]

GameLogicState ==
  [rules         : RuleSet,
   scoreToWin    : Nat,
   scores        : [Player -> Nat],
   touches       : [Player -> Nat],
   squish        : [Player -> 0..SquishTolerance],
   squishWall    : 0..SquishTolerance,
   squishGround  : 0..SquishTolerance,
   lastError     : Player \cup {NO_PLAYER},
   servingPlayer : Player \cup {NO_PLAYER},
   ballValid     : BOOLEAN,
   gameRunning   : BOOLEAN,
   winningPlayer : Player \cup {NO_PLAYER},
   clockRunning  : BOOLEAN,
   \* globals of the rule script
   firstround    : BOOLEAN,              \* classic.lua
   lasthit       : Player,               \* classic.lua
   groundHits    : [Player -> Nat]]      \* tennis.lua: lgh, rgh

(***************************************************************************)
(* The script has the last word on the score needed to win: it runs with   *)
(* the global SCORE_TO_WIN set to stw, and the constructor reads it back.  *)
(***************************************************************************)
ScriptScoreToWin(rules, stw) ==
  CASE rules = "firewall" -> FirewallFactor * stw
    [] rules = "blitz"    -> 2
    [] OTHER              -> stw

createGameLogic(rules, stw) ==
  [rules         |-> rules,
   scoreToWin    |-> ScriptScoreToWin(rules, stw),
   scores        |-> Nobody,
   touches       |-> Nobody,
   squish        |-> Nobody,
   squishWall    |-> 0,
   squishGround  |-> 0,
   lastError     |-> NO_PLAYER,
   servingPlayer |-> NO_PLAYER,
   ballValid     |-> TRUE,
   gameRunning   |-> FALSE,
   winningPlayer |-> NO_PLAYER,
   clockRunning  |-> TRUE,
   firstround    |-> TRUE,
   lasthit       |-> LEFT_PLAYER,
   groundHits    |-> Nobody]

-----------------------------------------------------------------------------
(* Score keeping. *)

\* mutated: one point ahead is enough
LeadsByOne(scores, p, stw) ==
  scores[p] >= stw /\ scores[p] > scores[other_side(p)]

Leads(scores, p, stw) ==
  scores[p] >= stw /\ scores[p] >= scores[other_side(p)] + 2

checkWin(scores, stw) ==
  CASE Leads(scores, LEFT_PLAYER, stw)  -> LEFT_PLAYER
    [] Leads(scores, RIGHT_PLAYER, stw) -> RIGHT_PLAYER
    [] OTHER                            -> NO_PLAYER

(* LuaGameLogic::checkWin with IsWinning of default.lua and classic.lua:   *)
(* the script says that somebody has won, the higher score says who.       *)
luaCheckWin(scores, stw) ==
  LET won == \E p \in Player : Leads(scores, p, stw)
  IN CASE won /\ scores[LEFT_PLAYER] > scores[RIGHT_PLAYER] -> LEFT_PLAYER
       [] won /\ scores[LEFT_PLAYER] < scores[RIGHT_PLAYER] -> RIGHT_PLAYER
       [] OTHER -> NO_PLAYER

winnerOf(rules, scores, stw) ==
  IF rules = "classic" THEN luaCheckWin(scores, stw) ELSE checkWin(scores, stw)

AtLeastZero(n) == IF n < 0 THEN 0 ELSE n

score(l, side, amount) ==
  LET scores == [l.scores EXCEPT ![side] = AtLeastZero(@ + amount)]
  IN [l EXCEPT !.scores = scores,
               !.winningPlayer = winnerOf(l.rules, scores, l.scoreToWin)]

onError(l, errorSide, serveSide) ==
  [l EXCEPT !.lastError = errorSide,
            !.ballValid = FALSE,
            !.touches = Nobody,
            !.squish = Nobody,
            !.squishWall = 0,
            !.squishGround = 0,
            !.servingPlayer = serveSide]

mistake(l, mistakeSide, serveSide, amount) ==
  onError(score(l, other_side(mistakeSide), amount), mistakeSide, serveSide)

\* mutated: nobody serves next
faultServedByNobody(l, side, amount) == mistake(l, side, NO_PLAYER, amount)

fault(l, side, amount) == mistake(l, side, other_side(side), amount)

-----------------------------------------------------------------------------
(* What the rules do with a contact that counts. *)

(* Touches a player may make in a row, and the points a mistake costs. *)
TouchLimit(rules) ==
  CASE rules \in {"one_hit_wonder", "tennis"} -> 1
    [] rules = "the_double" -> 2
    [] OTHER -> 3

FaultPoints(rules) == IF rules = "firewall" THEN FirewallFactor ELSE 1

(* AmmountOfPoints(player) of classic.lua, a side-out rule: the points and  *)
(* what the call leaves in the script's globals.                            *)
AmmountOfPoints(l, player) ==
  IF l.firstround \/ l.lasthit # player THEN 0 ELSE 1

classicFault(l, player) ==
  fault([l EXCEPT !.firstround = FALSE, !.lasthit = player],
        player, AmmountOfPoints(l, player))

doublePlayerHandler(l, player) ==
  LET opp == other_side(player)
      l1  == IF l.touches[player] > TouchLimit(l.rules) THEN fault(l, player, 1) ELSE l
  IN IF l1.touches[opp] = 1 THEN fault(l1, opp, 1) ELSE l1

doubleGroundHandler(l, player) ==
  LET opp == other_side(player)
  IN IF l.touches[opp] = 1 THEN fault(l, opp, 1) ELSE fault(l, player, 1)

\* mutated: lgh and rgh survive an answered bounce
tennisPlayerHandlerKeepingHits(l, player) ==
  LET opp == other_side(player)
      l2  == IF l.touches[player] > TouchLimit(l.rules) THEN fault(l, player, 1) ELSE l
  IN IF l.groundHits[opp] > 0 /\ l2.touches[opp] = 0 THEN fault(l2, opp, 1) ELSE l2

tennisPlayerHandler(l, player) ==
  LET opp == other_side(player)
      oh  == l.groundHits[opp]
      l1  == [l EXCEPT !.groundHits = Nobody]
      l2  == IF l1.touches[player] > TouchLimit(l1.rules) THEN fault(l1, player, 1) ELSE l1
  IN IF oh > 0 /\ l2.touches[opp] = 0 THEN fault(l2, opp, 1) ELSE l2

tennisGroundHandler(l, player) ==
  LET opp == other_side(player)
      mh  == l.groundHits[player] + 1
      oh  == l.groundHits[opp]
      l1  == [l EXCEPT !.groundHits = [Nobody EXCEPT ![player] = mh]]
      l2  == IF mh > 1 \/ l1.touches[player] > 0
             THEN fault([l1 EXCEPT !.groundHits = Nobody], player, 1)
             ELSE l1
  IN IF oh > 0 /\ l2.touches[opp] = 0
     THEN fault([l2 EXCEPT !.groundHits = Nobody], opp, 1)
     ELSE l2

OnBallHitsPlayerHandler(l, side) ==
  CASE l.rules = "the_double" -> doublePlayerHandler(l, side)
    [] l.rules = "tennis"     -> tennisPlayerHandler(l, side)
    [] OTHER ->
         IF l.touches[side] <= TouchLimit(l.rules) THEN l
         ELSE IF l.rules = "classic" THEN classicFault(l, side)
         ELSE fault(l, side, FaultPoints(l.rules))

OnBallHitsGroundHandler(l, side) ==
  CASE l.rules = "the_double" -> doubleGroundHandler(l, side)
    [] l.rules = "tennis"     -> tennisGroundHandler(l, side)
    [] l.rules = "classic"    -> classicFault(l, side)
    [] OTHER                  -> fault(l, side, FaultPoints(l.rules))

\* mutated: the point is written without score()
WallHandlerWithoutScore(l, side) ==
  IF l.rules = "firewall"
  THEN [l EXCEPT !.scores = [l.scores EXCEPT ![other_side(side)] = @ + 1]]
  ELSE l

OnBallHitsWallHandler(l, side) ==
  IF l.rules = "firewall" THEN score(l, other_side(side), 1) ELSE l

-----------------------------------------------------------------------------
(* The event handlers DuelMatch calls. *)

\* mutated: only the squish counter is asked
isSquishedGround(l) == l.squishGround = 0
isSquishedWall(l)   == l.squishWall = 0

isCollisionValid(l, side)   == l.squish[side] = 0
isGroundCollisionValid(l)   == l.squishGround = 0 /\ l.ballValid
isWallCollisionValid(l)     == l.squishWall = 0 /\ l.ballValid

Dec(n) == IF n > 0 THEN n - 1 ELSE 0

step(l) ==
  IF l.clockRunning
  THEN [l EXCEPT !.squish = [p \in Player |-> Dec(l.squish[p])],
                 !.squishWall = Dec(@),
                 !.squishGround = Dec(@)]
  ELSE l

onPause(l)   == [l EXCEPT !.clockRunning = FALSE]
onUnPause(l) == [l EXCEPT !.clockRunning = TRUE]

onServe(l) == [l EXCEPT !.ballValid = TRUE, !.gameRunning = FALSE]

\* mutated: the first touch does not start the game
countTouchIdle(l, side) ==
  [l EXCEPT !.squish = [p \in Player |-> IF p = side THEN SquishTolerance ELSE 0],
            !.touches = [l.touches EXCEPT ![side] = @ + 1]]

(* The bookkeeping of an accepted touch, before the rules see it. *)
countTouch(l, side) ==
  [l EXCEPT !.squish = [p \in Player |-> IF p = side THEN SquishTolerance ELSE 0],
            !.gameRunning = TRUE,
            !.touches = [l.touches EXCEPT ![side] = @ + 1]]

\* mutated: the other player keeps his touches
onBallHitsPlayerOnly(l, side) ==
  IF ~isCollisionValid(l, side) THEN l
  ELSE OnBallHitsPlayerHandler(countTouch(l, side), side)

onBallHitsPlayer(l, side) ==
  IF ~isCollisionValid(l, side) THEN l
  ELSE LET l1 == OnBallHitsPlayerHandler(countTouch(l, side), side)
       IN [l1 EXCEPT !.touches = [l1.touches EXCEPT ![other_side(side)] = 0]]

onBallHitsGround(l, side) ==
  IF ~isGroundCollisionValid(l) THEN l
  ELSE OnBallHitsGroundHandler(
         [l EXCEPT !.squishGround = SquishTolerance,
                   !.touches = [l.touches EXCEPT ![other_side(side)] = 0]], side)

onBallHitsWall(l, side) ==
  IF ~isWallCollisionValid(l) THEN l
  ELSE OnBallHitsWallHandler([l EXCEPT !.squishWall = SquishTolerance], side)

(* No rule script of the repository reacts to the net. *)
onBallHitsNet(l) ==
  IF ~isWallCollisionValid(l) THEN l
  ELSE [l EXCEPT !.squishWall = SquishTolerance]

(* getLastErrorSide() answers l.lastError and forgets it. *)
forgetError(l) == [l EXCEPT !.lastError = NO_PLAYER]
=============================================================================
