--------------------------- MODULE DuelMatchProofs ---------------------------
(***************************************************************************)
(* Proofs about a match, for every rule set, score to win, squish tolerance *)
(* and jump and rest time: the safety properties of DuelMatch, and that it  *)
(* implements Rally.                                                       *)
(*                                                                         *)
(* The argument: every contact of a frame leaves the referee's record as   *)
(* GameLogicProofs describes, so a frame as a whole lets the rally go on,   *)
(* ends it by one mistake of one player, or pays one bonus (FrameOutcome).  *)
(***************************************************************************)
EXTENDS DuelMatch, GameLogicProofs

FrameOutcome(l, m) ==
  /\ LogicInv(m)
  /\ \/ GoesOn(l, m)
     \/ \E p \in Player : LostBy(l, m, p)
     \/ \E p \in Player : BonusFor(l, m, p)

(* The inductive invariant: what a contact needs of the record it finds.    *)
IInv == TypeOK /\ LogicInv(mLogic)

LEMMA GoesOnThen ==
  ASSUME NEW l, NEW a, NEW m, GoesOn(l, a), FrameOutcome(a, m),
         l.gameRunning => a.gameRunning,
         a.gameRunning => l.gameRunning
  PROVE  FrameOutcome(l, m)
<1>1. CASE GoesOn(a, m)
  BY <1>1, OutcomeTransitive DEF FrameOutcome
<1>2. CASE \E p \in Player : LostBy(a, m, p)
  BY <1>2, OutcomeTransitive DEF FrameOutcome
<1>3. CASE \E p \in Player : BonusFor(a, m, p)
  <2>1. PICK p \in Player : BonusFor(a, m, p)
    BY <1>3
  <2>2. BonusFor(l, m, p)
    BY <2>1 DEF GoesOn, BonusFor
  <2> QED BY <2>2 DEF FrameOutcome
<1> QED BY <1>1, <1>2, <1>3 DEF FrameOutcome

(* After the blobs: the rally goes on, or it is lost and nobody holds        *)
(* bounces.                                                                *)
LEMMA Blobs ==
  ASSUME NEW l, LogicInv(l), NEW c \in Contacts, Possible(l, c)
  PROVE  LET l1 == IF LEFT_PLAYER \in c.blobs THEN onBallHitsPlayer(l, LEFT_PLAYER) ELSE l
             l2 == IF RIGHT_PLAYER \in c.blobs THEN onBallHitsPlayer(l1, RIGHT_PLAYER) ELSE l1
         IN ContactOutcome(l, l2)
<1> DEFINE l1 == IF LEFT_PLAYER \in c.blobs THEN onBallHitsPlayer(l, LEFT_PLAYER) ELSE l
           l2 == IF RIGHT_PLAYER \in c.blobs THEN onBallHitsPlayer(l1, RIGHT_PLAYER) ELSE l1
<1>1. LEFT_PLAYER \in Player /\ RIGHT_PLAYER \in Player
  BY DEF Player
<1>2. GoesOn(l, l)
  BY DEF GoesOn
<1>3. CASE ~l.ballValid
  <2>1. c.blobs = {}
    BY <1>3 DEF Possible
  <2>2. l2 = l
    BY <2>1
  <2> QED BY <1>2, <2>2 DEF ContactOutcome
<1>4. CASE l.ballValid
  <2>1. /\ ContactOutcome(l, l1)
        /\ l1.ballValid \/ (l1.touches = Nobody /\ l1.groundHits = Nobody)
    BY <1>1, <1>2, <1>4, PlayerContact DEF ContactOutcome
  <2> HIDE DEF l1
  <2>2. CASE RIGHT_PLAYER \notin c.blobs
    BY <2>1, <2>2 DEF l1
  <2>3. CASE RIGHT_PLAYER \in c.blobs /\ l1.ballValid
    <3>1. l2 = onBallHitsPlayer(l1, RIGHT_PLAYER)
      BY <2>3
    <3> HIDE DEF l2
    <3>2. LogicInv(l1) /\ GoesOn(l, l1)
      BY <2>1, <2>3 DEF ContactOutcome, LostBy
    <3>3. ContactOutcome(l1, l2)
      BY <1>1, <2>3, <3>1, <3>2, PlayerContact
    <3> QED BY <3>2, <3>3, OutcomeTransitive DEF ContactOutcome, l2, l1
  <2>4. CASE RIGHT_PLAYER \in c.blobs /\ ~l1.ballValid
    <3>1. l2 = onBallHitsPlayer(l1, RIGHT_PLAYER)
      BY <2>4
    <3> HIDE DEF l2
    <3>2. LogicInv(l2) /\ GoesOn(l1, l2)
      BY <1>1, <2>1, <2>4, <3>1, DeadContact DEF ContactOutcome
    <3> QED BY <2>1, <3>2, OutcomeTransitive DEF ContactOutcome, l2, l1
  <2> QED BY <2>2, <2>3, <2>4
<1> QED BY <1>3, <1>4

(* All the contacts of a frame.                                             *)
LEMMA FrameContacts ==
  ASSUME NEW l, LogicInv(l), NEW c \in Contacts, Possible(l, c)
  PROVE  FrameOutcome(l, processEvents(l, c))
<1> DEFINE l1 == IF LEFT_PLAYER \in c.blobs THEN onBallHitsPlayer(l, LEFT_PLAYER) ELSE l
           l2 == IF RIGHT_PLAYER \in c.blobs THEN onBallHitsPlayer(l1, RIGHT_PLAYER) ELSE l1
           l3 == IF c.ground # NoSide THEN onBallHitsGround(l2, c.ground) ELSE l2
           m  == processEvents(l, c)
<1>1. m = CASE c.wall # NoSide -> onBallHitsWall(l3, c.wall)
            [] c.net           -> onBallHitsNet(l3)
            [] OTHER           -> l3
  BY DEF processEvents
<1>2. ContactOutcome(l, l2)
  BY Blobs
<1>3. /\ c.ground \in Player \cup {NoSide} /\ c.wall \in Player \cup {NoSide}
      /\ c.wall # NoSide => ~c.net
  BY DEF Contacts, Report
<1> HIDE DEF l2, m
<1>4. ContactOutcome(l, l3)
  <2>1. CASE c.ground = NoSide
    BY <1>2, <2>1
  <2>2. CASE c.ground # NoSide
    <3>1. l2.gameRunning /\ LogicInv(l2) /\ c.ground \in Player
      BY <1>2, <1>3, <2>2 DEF Possible, ContactOutcome, GoesOn, LostBy
    <3>2. l3 = onBallHitsGround(l2, c.ground)
      BY <2>2
    <3> HIDE DEF l3
    <3>3. ContactOutcome(l2, l3) /\ (~l2.ballValid => l3 = l2)
      BY <3>1, <3>2, GroundContact
    <3>4. CASE ~l2.ballValid
      BY <1>2, <3>3, <3>4
    <3>5. CASE l2.ballValid
      <4>1. GoesOn(l, l2)
        BY <1>2, <3>5 DEF ContactOutcome, LostBy
      <4> QED BY <3>3, <4>1, OutcomeTransitive DEF ContactOutcome
    <3> QED BY <3>4, <3>5 DEF l3
  <2> QED BY <2>1, <2>2
<1> HIDE DEF l3
<1>5. LogicInv(l3) /\ FrameOutcome(l, l3)
  BY <1>4 DEF ContactOutcome, FrameOutcome
<1>6. CASE c.wall # NoSide
  <2>1. c.wall \in Player /\ l.gameRunning /\ l3.gameRunning
    BY <1>3, <1>4, <1>6 DEF Possible, ContactOutcome, GoesOn, LostBy
  <2>2. m = onBallHitsWall(l3, c.wall)
    BY <1>1, <1>3, <1>6
  <2>3. /\ LogicInv(m) /\ (~l3.ballValid => m = l3)
        /\ \/ GoesOn(l3, m)
           \/ \E p \in Player : BonusFor(l3, m, p)
    BY <1>5, <2>1, <2>2, WallContact
  <2>4. CASE ~l3.ballValid
    BY <1>5, <2>3, <2>4 DEF m
  <2>5. CASE l3.ballValid
    <3>1. GoesOn(l, l3)
      BY <1>4, <2>5 DEF ContactOutcome, LostBy
    <3> QED BY <2>1, <2>3, <3>1, GoesOnThen DEF FrameOutcome, m
  <2> QED BY <2>4, <2>5
<1>7. CASE c.wall = NoSide /\ c.net
  <2>1. m = onBallHitsNet(l3)
    BY <1>1, <1>7
  <2>2. LogicInv(m) /\ GoesOn(l3, m)
    BY <1>5, <2>1, NetContact
  <2> QED BY <1>4, <2>2, OutcomeTransitive DEF ContactOutcome, FrameOutcome, m
<1>8. CASE c.wall = NoSide /\ ~c.net
  BY <1>1, <1>5, <1>8 DEF m
<1> QED BY <1>6, <1>7, <1>8

(* A frame of the match, with what the owner of the match sees of it.       *)
FrameResult(l, serve) ==
  /\ FrameOutcome(mLogic, l)
  /\ serve => ~l.ballValid
  /\ mLogic' = IF serve THEN onServe(forgetError(l)) ELSE forgetError(l)
  /\ mLastEvents' = errorEvents(l) \cup (IF serve THEN {ResetBall} ELSE {})

LEMMA FrameGivesResult ==
  ASSUME IInv, NEW c \in Contacts, Frame(c)
  PROVE  \E l \in GameLogicState, serve \in BOOLEAN : FrameResult(l, serve)
<1> DEFINE t == step(mLogic)
<1>1. LogicInv(t) /\ GoesOn(mLogic, t) /\ t.gameRunning = mLogic.gameRunning
  BY Tick DEF IInv
<1>2. Possible(t, c)
  BY <1>1 DEF Frame, Possible, GoesOn, ServeSide
<1>3. PICK l \in {processEvents(t, c)} :
        LET serve == ~l.ballValid /\ canStartRound(l.servingPlayer, air', rest')
        IN /\ mLogic' = IF serve THEN onServe(forgetError(l)) ELSE forgetError(l)
           /\ mLastEvents' = errorEvents(l) \cup (IF serve THEN {ResetBall} ELSE {})
  BY DEF Frame
<1> DEFINE serve == ~l.ballValid /\ canStartRound(l.servingPlayer, air', rest')
<1>4. serve \in BOOLEAN /\ (serve => ~l.ballValid)
  BY DEF canStartRound
<1> HIDE DEF t
<1>5. FrameOutcome(t, l)
  BY <1>1, <1>2, <1>3, FrameContacts
<1>6. FrameOutcome(mLogic, l)
  BY <1>1, <1>5, GoesOnThen
<1>7. FrameResult(l, serve)
  <2>1. mLogic' = IF serve THEN onServe(forgetError(l)) ELSE forgetError(l)
    BY <1>3
  <2>2. mLastEvents' = errorEvents(l) \cup (IF serve THEN {ResetBall} ELSE {})
    BY <1>3
  <2> HIDE DEF serve
  <2> QED BY <1>4, <1>6, <2>1, <2>2 DEF FrameResult, serve
<1> HIDE DEF serve
<1> QED BY <1>4, <1>6, <1>7 DEF FrameOutcome, LogicInv

-----------------------------------------------------------------------------

LEMMA InitInvariant == Init => IInv
<1> SUFFICES ASSUME Init PROVE IInv
  OBVIOUS
<1>1. PICK r \in RuleSets : mLogic = createGameLogic(r, ScoreToWin)
  BY DEF Init
<1>2. r \in RuleSet
  BY <1>1, RuleSetsAssumption
<1>3. ScriptScoreToWin(r, ScoreToWin) \in Nat \ {0}
  BY ScoreToWinAssumption, FirewallFactorAssumption DEF ScriptScoreToWin
<1>4. mLogic \in GameLogicState
  BY <1>1, <1>2, <1>3, NobodyType
     DEF createGameLogic, GameLogicState, Player
<1>5. /\ mLogic.scores = Nobody /\ mLogic.touches = Nobody
      /\ mLogic.groundHits = Nobody /\ mLogic.ballValid
      /\ mLogic.winningPlayer = NO_PLAYER
      /\ mLogic.scoreToWin = ScriptScoreToWin(r, ScoreToWin)
  BY <1>1 DEF createGameLogic
<1>6. WinnerCurrent(mLogic)
  <2>1. winnerOf(mLogic.rules, Nobody, mLogic.scoreToWin)
          = checkWin(Nobody, mLogic.scoreToWin)
    BY <1>3, <1>5, NobodyType, WinnerOfIsCheckWin
  <2>2. \A p \in Player : ~Leads(Nobody, p, mLogic.scoreToWin)
    BY <1>3, <1>5, NobodyType, OtherSide DEF Leads
  <2>3. checkWin(Nobody, mLogic.scoreToWin) = NO_PLAYER
    BY <2>2 DEF checkWin, Player
  <2> QED BY <1>5, <2>1, <2>3 DEF WinnerCurrent
<1>7. TouchesOK(mLogic) /\ OneBounce(mLogic) /\ Restartable(mLogic)
  BY <1>4, <1>5, NobodyTouches, NoBounces DEF Restartable
<1>8. /\ mPaused \in BOOLEAN /\ mLastEvents \subseteq MatchEvents
      /\ air \in [Player -> 0..AirTime] /\ rest \in 0..RestTime
  <2>1. /\ mPaused = FALSE /\ mLastEvents = {} /\ rest = RestTime
        /\ air = [p \in Player |-> 0]
    BY DEF Init
  <2>2. 0 \in 0..AirTime /\ RestTime \in 0..RestTime
    BY PhysicsAssumption
  <2> QED BY <2>1, <2>2
<1> QED BY <1>4, <1>6, <1>7, <1>8 DEF IInv, TypeOK, LogicInv

LEMMA NextInvariant == IInv /\ [Next]_vars => IInv'
<1> SUFFICES ASSUME IInv, [Next]_vars PROVE IInv'
  OBVIOUS
<1>1. ASSUME NEW c \in Contacts, Frame(c) PROVE IInv'
  <2>1. PICK l \in GameLogicState, serve \in BOOLEAN : FrameResult(l, serve)
    BY <1>1, FrameGivesResult
  <2>2. LogicInv(l) /\ LogicInv(forgetError(l))
    BY <2>1, PauseAndServe DEF FrameResult, FrameOutcome
  <2>3. LogicInv(mLogic')
    BY <2>1, <2>2, PauseAndServe DEF FrameResult
  <2>4. mLastEvents' \subseteq MatchEvents
    BY <2>1 DEF FrameResult, errorEvents, MatchEvents
  <2>5. air' \in [Player -> 0..AirTime]
    BY <1>1 DEF Frame, MoveBlobs
  <2>6. rest' \in 0..RestTime
    BY <1>1, PhysicsAssumption DEF Frame, MoveBall, IInv, TypeOK, Dec
  <2>7. mPaused' \in BOOLEAN
    BY <1>1 DEF Frame, IInv, TypeOK
  <2> QED BY <2>3, <2>4, <2>5, <2>6, <2>7 DEF IInv, TypeOK, LogicInv
<1>2. CASE Pause
  <2>1. LogicInv(mLogic')
    BY <1>2, PauseAndServe DEF Pause, IInv
  <2> QED BY <1>2, <2>1 DEF Pause, IInv, TypeOK, LogicInv
<1>3. CASE Unpause
  <2>1. LogicInv(mLogic')
    BY <1>3, PauseAndServe DEF Unpause, IInv
  <2> QED BY <1>3, <2>1 DEF Unpause, IInv, TypeOK, LogicInv
<1>4. CASE UNCHANGED vars
  BY <1>4 DEF vars, IInv, TypeOK
<1> QED BY <1>1, <1>2, <1>3, <1>4 DEF Next, Step

THEOREM Invariant == Spec => []IInv
BY InitInvariant, NextInvariant, PTL DEF Spec

(* The record keeps its type through every frame and pause.                 *)
THEOREM TypeCorrect == Spec => []TypeOK
BY Invariant, PTL DEF IInv

(* A round that is over can be started again, under every rule script.      *)
THEOREM RoundsCanRestart == Spec => []RoundCanRestart
<1>1. IInv => RoundCanRestart
  BY DEF IInv, LogicInv, Restartable, RoundCanRestart
<1> QED BY <1>1, Invariant, PTL

(* The cached winner is the one the scores say.                             *)
THEOREM WinnerStaysCurrent == Spec => []WinnerIsCurrent
<1>1. IInv => WinnerIsCurrent
  BY DEF IInv, LogicInv, WinnerCurrent, WinnerIsCurrent
<1> QED BY <1>1, Invariant, PTL

(* Nobody holds more touches than allowed, and one side holds none.         *)
THEOREM TouchesOfOneSide == Spec => []TouchesBelongToOneSide
<1>1. IInv => TouchesBelongToOneSide
  BY DEF IInv, LogicInv, TouchesOK, TouchesBelongToOneSide
<1> QED BY <1>1, Invariant, PTL

(* The bounces tennis.lua counts are against one side, which the other may  *)
(* not have answered.                                                      *)
THEOREM BouncesOfOneSide == Spec => []BouncesBelongToOneSide
<1>1. IInv => BouncesBelongToOneSide
  BY DEF IInv, LogicInv, OneBounce, BouncesBelongToOneSide
<1> QED BY <1>1, Invariant, PTL

-----------------------------------------------------------------------------

(* What forgetting the error and serving leave alone.                       *)
LEMMA ResultKeeps ==
  ASSUME NEW l \in GameLogicState, NEW serve \in BOOLEAN, FrameResult(l, serve)
  PROVE  /\ mLogic'.scores = l.scores
         /\ mLogic'.servingPlayer = l.servingPlayer
         /\ mLogic'.winningPlayer = l.winningPlayer
         /\ mLogic'.ballValid = (l.ballValid \/ serve)
         /\ mLogic'.gameRunning = (l.gameRunning /\ ~serve)
  BY DEF FrameResult, onServe, forgetError, GameLogicState

(* A dead ball changes neither the score nor the winner nor the server.     *)
THEOREM DeadBall == Spec => DeadBallCountsForNothing
<1> DEFINE A == ~mLogic.ballValid =>
                  /\ mLogic'.scores = mLogic.scores
                  /\ mLogic'.winningPlayer = mLogic.winningPlayer
                  /\ mLogic'.servingPlayer = mLogic.servingPlayer
<1>1. IInv /\ [Next]_vars => [A]_vars
  <2> SUFFICES ASSUME IInv, Next, ~mLogic.ballValid
               PROVE  A
    OBVIOUS
  <2>1. ASSUME NEW c \in Contacts, Frame(c) PROVE A
    <3>1. PICK l \in GameLogicState, serve \in BOOLEAN : FrameResult(l, serve)
      BY <2>1, FrameGivesResult
    <3>2. GoesOn(mLogic, l)
      BY <3>1 DEF FrameResult, FrameOutcome, LostBy, BonusFor
    <3> QED BY <3>1, <3>2, ResultKeeps DEF GoesOn
  <2>2. ASSUME Pause \/ Unpause PROVE A
    BY <2>2 DEF Pause, Unpause, onPause, onUnPause, IInv, LogicInv, GameLogicState
  <2> QED BY <2>1, <2>2 DEF Next, Step
<1> QED BY <1>1, Invariant, PTL DEF Spec, DeadBallCountsForNothing

(* A frame gives points to one side at most, for a mistake it reports.      *)
THEOREM OnePoint == Spec => OnePointPerFrame
<1> DEFINE
      A(p) == mLogic'.scores[p] # mLogic.scores[p] =>
         /\ mLogic.ballValid
         /\ mLogic'.scores[other_side(p)] = mLogic.scores[other_side(p)]
         /\ \/ /\ mLogic'.scores[p] = mLogic.scores[p] + FaultPoints(mLogic.rules)
               /\ mLogic'.servingPlayer = p
               /\ Error(other_side(p)) \in mLastEvents'
            \/ /\ mLogic.rules = "firewall"
               /\ mLogic'.scores[p] = mLogic.scores[p] + 1
               /\ mLogic'.ballValid
<1>1. IInv /\ [Next]_vars => [\A p \in Player : A(p)]_vars
  <2> SUFFICES ASSUME IInv, Next, NEW p \in Player
               PROVE  A(p)
    OBVIOUS
  <2>1. ASSUME NEW c \in Contacts, Frame(c) PROVE A(p)
    <3>1. PICK l \in GameLogicState, serve \in BOOLEAN : FrameResult(l, serve)
      BY <2>1, FrameGivesResult
    <3>2. /\ mLogic'.scores = l.scores
          /\ mLogic'.servingPlayer = l.servingPlayer
          /\ mLogic'.ballValid = (l.ballValid \/ serve)
      BY <3>1, ResultKeeps
    <3>3. /\ mLogic.scores \in [Player -> Nat]
          /\ FaultPoints(mLogic.rules) \in Nat
      BY RuleNumbers DEF IInv, LogicInv, GameLogicState
    <3>4. CASE GoesOn(mLogic, l)
      BY <3>2, <3>4 DEF GoesOn
    <3>5. CASE \E q \in Player : LostBy(mLogic, l, q)
      <4>1. PICK q \in Player : LostBy(mLogic, l, q)
        BY <3>5
      <4>2. PICK n \in {0, FaultPoints(mLogic.rules)} :
              l.scores = [mLogic.scores EXCEPT ![other_side(q)] = @ + n]
        BY <4>1 DEF LostBy
      <4>3. Error(q) \in mLastEvents'
        BY <3>1, <4>1 DEF FrameResult, errorEvents, LostBy
      <4>4. l.servingPlayer = other_side(q) /\ mLogic.ballValid
        BY <4>1 DEF LostBy
      <4>5. CASE p = q
        <5>1. l.scores[p] = mLogic.scores[p]
          BY <3>3, <4>2, <4>5, OtherSide
        <5> QED BY <3>2, <5>1
      <4>6. CASE p # q
        <5>1. p = other_side(q) /\ other_side(p) = q
          BY <4>6, OtherSide
        <5>2. /\ l.scores[p] = mLogic.scores[p] + n
              /\ l.scores[q] = mLogic.scores[q]
          BY <3>3, <4>2, <4>6, <5>1
        <5> QED BY <3>2, <3>3, <4>2, <4>3, <4>4, <5>1, <5>2
      <4> QED BY <4>5, <4>6
    <3>6. CASE \E q \in Player : BonusFor(mLogic, l, q)
      <4>1. PICK q \in Player : BonusFor(mLogic, l, q)
        BY <3>6
      <4>2. /\ l.scores = [mLogic.scores EXCEPT ![q] = mLogic.scores[q] + 1]
            /\ l.ballValid /\ mLogic.ballValid /\ mLogic.rules = "firewall"
        BY <4>1 DEF BonusFor
      <4>3. /\ q = p => l.scores[p] = mLogic.scores[p] + 1
            /\ q # p => l.scores[p] = mLogic.scores[p]
            /\ q = p => l.scores[other_side(p)] = mLogic.scores[other_side(p)]
        BY <3>3, <4>2, OtherSide
      <4> QED BY <3>2, <4>2, <4>3
    <3> QED BY <3>1, <3>4, <3>5, <3>6 DEF FrameResult, FrameOutcome
  <2>2. ASSUME Pause \/ Unpause PROVE A(p)
    <3>1. mLogic'.scores = mLogic.scores
      BY <2>2 DEF Pause, Unpause, onPause, onUnPause, IInv, LogicInv, GameLogicState
    <3> QED BY <3>1
  <2> QED BY <2>1, <2>2 DEF Next, Step
<1> QED BY <1>1, Invariant, PTL DEF Spec, OnePointPerFrame

-----------------------------------------------------------------------------
(* The match implements the rally. *)

(* Points for p, in the abstract specification.                             *)
LEMMA PointsAreEarned ==
  ASSUME IInv, mLogic.winningPlayer = NO_PLAYER,
         NEW l \in GameLogicState, LogicInv(l), NEW serve \in BOOLEAN,
         FrameResult(l, serve),
         l.rules = mLogic.rules, l.scoreToWin = mLogic.scoreToWin,
         NEW p \in Player, NEW n \in Nat,
         l.scores = [mLogic.scores EXCEPT ![p] = @ + n]
  PROVE  R!Earn(p, n)
<1>1. mLogic \in GameLogicState /\ WinnerCurrent(mLogic) /\ WinnerCurrent(l)
  BY DEF IInv, LogicInv
<1>2. \/ l.winningPlayer = NO_PLAYER
      \/ /\ l.winningPlayer = p
         /\ l.scores[p] >= l.scores[other_side(p)] + 2
  <2>1. /\ l.scores[p] = mLogic.scores[p] + n
        /\ l.scores[other_side(p)] = mLogic.scores[other_side(p)]
    BY <1>1, OtherSide DEF GameLogicState
  <2>2. \A k \in GameLogicState :
          (/\ WinnerCurrent(k) /\ k.winningPlayer = NO_PLAYER
           /\ l.rules = k.rules /\ l.scoreToWin = k.scoreToWin
           /\ l.scores[p] = k.scores[p] + n
           /\ l.scores[other_side(p)] = k.scores[other_side(p)])
          => \/ l.winningPlayer = NO_PLAYER
             \/ /\ l.winningPlayer = p
                /\ l.scores[p] >= l.scores[other_side(p)] + 2
    BY <1>1, PointsMakeTheirWinner
  <2> QED BY <1>1, <2>1, <2>2
<1>3. mLogic'.scores = l.scores /\ mLogic'.winningPlayer = l.winningPlayer
  BY ResultKeeps
<1>4. \A q \in Player \ {p} : q = other_side(p)
  BY OtherSide
<1> QED BY <1>2, <1>3, <1>4 DEF R!Earn

LEMMA FrameRefines ==
  ASSUME IInv, mLogic.winningPlayer = NO_PLAYER,
         NEW l \in GameLogicState, NEW serve \in BOOLEAN, FrameResult(l, serve)
  PROVE  [R!Next]_(R!rallyVars)
<1>1. /\ mLogic'.scores = l.scores
      /\ mLogic'.servingPlayer = l.servingPlayer
      /\ mLogic'.winningPlayer = l.winningPlayer
      /\ mLogic'.ballValid = (l.ballValid \/ serve)
      /\ mLogic'.gameRunning = (l.gameRunning /\ ~serve)
  BY ResultKeeps
<1>2. serve => ~l.ballValid
  BY DEF FrameResult
<1>3. LogicInv(l) /\ mLogic.rules \in RuleSet
  BY DEF FrameResult, FrameOutcome, IInv, LogicInv, GameLogicState
<1>4. Restartable(mLogic)
  BY DEF IInv, LogicInv
<1>5. CASE GoesOn(mLogic, l)
  <2>1. /\ UNCHANGED <<mLogic.scores, mLogic.servingPlayer, mLogic.winningPlayer>>
        /\ l.ballValid = mLogic.ballValid
        /\ mLogic.gameRunning => l.gameRunning
    BY <1>1, <1>5 DEF GoesOn
  <2>2. CASE UNCHANGED Phase
    BY <2>1, <2>2 DEF R!rallyVars
  <2>3. CASE Phase = "serve" /\ Phase' = "play"
    BY <2>1, <2>3 DEF R!Next, R!FirstTouch
  <2>4. CASE Phase = "dead" /\ Phase' = "serve"
    BY <2>1, <2>4 DEF R!Next, R!NextServe
  <2>5. \/ UNCHANGED Phase
        \/ Phase = "serve" /\ Phase' = "play"
        \/ Phase = "dead" /\ Phase' = "serve"
    BY <1>1, <1>2, <2>1 DEF Phase
  <2> QED BY <2>2, <2>3, <2>4, <2>5
<1>6. CASE \E p \in Player : LostBy(mLogic, l, p)
  <2>1. PICK p \in Player : LostBy(mLogic, l, p)
    BY <1>6
  <2>2. PICK n \in {0, FaultPoints(mLogic.rules)} :
          l.scores = [mLogic.scores EXCEPT ![other_side(p)] = @ + n]
    BY <2>1 DEF LostBy
  <2>3. n \in {0, 1, FirewallFactor} /\ n \in Nat
    BY <1>3, <2>2, RuleNumbers DEF FaultPoints
  <2>4. other_side(p) \in Player
    BY OtherSide
  <2>5. l.rules = mLogic.rules /\ l.scoreToWin = mLogic.scoreToWin
    BY <2>1 DEF LostBy
  <2>6. R!Earn(other_side(p), n)
    BY <1>3, <2>2, <2>3, <2>4, <2>5, PointsAreEarned
  <2>7. Phase \in {"serve", "play"} /\ Phase' \in {"dead", "serve"}
    BY <1>1, <2>1 DEF Phase, LostBy
  <2>8. mLogic'.servingPlayer = other_side(p)
    BY <1>1, <2>1 DEF LostBy
  <2>9. R!Win(other_side(p))
    BY <2>3, <2>6, <2>7, <2>8 DEF R!Win
  <2> QED BY <2>4, <2>9 DEF R!Next
<1>7. CASE \E p \in Player : BonusFor(mLogic, l, p)
  <2>1. PICK p \in Player : BonusFor(mLogic, l, p)
    BY <1>7
  <2>2. /\ l.scores = [mLogic.scores EXCEPT ![p] = @ + 1]
        /\ l.rules = mLogic.rules /\ l.scoreToWin = mLogic.scoreToWin
    BY <2>1 DEF BonusFor
  <2>3. R!Earn(p, 1)
    BY <1>3, <2>2, PointsAreEarned
  <2>4. Phase = "play" /\ Phase' = "play" /\ UNCHANGED mLogic.servingPlayer
    BY <1>1, <1>2, <2>1 DEF Phase, BonusFor
  <2>5. R!Bonus(p)
    BY <2>3, <2>4 DEF R!Bonus
  <2> QED BY <2>5 DEF R!Next
<1> QED BY <1>5, <1>6, <1>7 DEF FrameResult, FrameOutcome

(* Every behaviour of a match is one of Rally: whatever the script and the  *)
(* physics do, the players see rallies served, played and lost.            *)
THEOREM MatchIsRally == Spec => RallySpec
<1>1. Init => R!Init
  BY DEF Init, createGameLogic, R!Init, Phase, Nobody
<1>2. IInv /\ [Next]_vars => [R!Next]_(R!rallyVars)
  <2> SUFFICES ASSUME IInv, [Next]_vars
               PROVE  [R!Next]_(R!rallyVars)
    OBVIOUS
  <2>1. ASSUME NEW c \in Contacts, Frame(c) PROVE [R!Next]_(R!rallyVars)
    <3>1. PICK l \in GameLogicState, serve \in BOOLEAN : FrameResult(l, serve)
      BY <2>1, FrameGivesResult
    <3>2. mLogic.winningPlayer = NO_PLAYER
      BY <2>1 DEF Frame
    <3> QED BY <3>1, <3>2, FrameRefines
  <2>2. ASSUME Pause \/ Unpause \/ UNCHANGED vars PROVE UNCHANGED R!rallyVars
    <3>1. UNCHANGED <<mLogic.scores, mLogic.servingPlayer, mLogic.winningPlayer,
                      mLogic.ballValid, mLogic.gameRunning>>
      BY <2>2 DEF Pause, Unpause, vars, onPause, onUnPause, IInv, LogicInv, GameLogicState
    <3> QED BY <3>1 DEF R!rallyVars, Phase
  <2> QED BY <2>1, <2>2 DEF Next, Step
<1> QED BY <1>1, <1>2, Invariant, PTL DEF Spec, RallySpec, R!Spec
=============================================================================
