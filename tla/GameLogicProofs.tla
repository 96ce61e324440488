--------------------------- MODULE GameLogicProofs ---------------------------
(***************************************************************************)
(* Facts about the referee's operators, for every value of the constants:  *)
(* what the rule scripts may do with one contact.  DuelMatchProofs puts    *)
(* them together for a frame.                                              *)
(***************************************************************************)
EXTENDS GameLogic, TLAPS

(* What the referee's record satisfies between two contacts.               *)
WinnerCurrent(l) ==
  l.winningPlayer = winnerOf(l.rules, l.scores, l.scoreToWin)

Restartable(l) ==
  ~l.ballValid => l.gameRunning /\ l.servingPlayer \in Player

TouchesOK(l) ==
  /\ \A p \in Player : l.touches[p] <= TouchLimit(l.rules)
  /\ \E p \in Player : l.touches[p] = 0

(* tennis.lua: after a bounce on one side the other side holds neither      *)
(* touches nor bounces, so a contact cannot be a mistake of both.          *)
OneBounce(l) ==
  /\ l.rules # "tennis" => l.groundHits = Nobody
  /\ \A p \in Player :
       l.groundHits[p] > 0 => /\ l.touches[other_side(p)] = 0
                              /\ l.groundHits[other_side(p)] = 0

LogicInv(l) ==
  /\ l \in GameLogicState
  /\ WinnerCurrent(l)
  /\ Restartable(l)
  /\ TouchesOK(l)
  /\ OneBounce(l)

(* What a contact may do to the rally, from the record l to m: nothing ...  *)
GoesOn(l, m) ==
  /\ m.rules = l.rules /\ m.scoreToWin = l.scoreToWin
  /\ m.clockRunning = l.clockRunning
  /\ m.scores = l.scores /\ m.winningPlayer = l.winningPlayer
  /\ m.servingPlayer = l.servingPlayer /\ m.lastError = l.lastError
  /\ m.ballValid = l.ballValid
  /\ l.gameRunning => m.gameRunning

(* ... or end it by a mistake of p, which pays the other side or not.       *)
LostBy(l, m, p) ==
  /\ m.rules = l.rules /\ m.scoreToWin = l.scoreToWin
  /\ m.clockRunning = l.clockRunning
  /\ \E n \in {0, FaultPoints(l.rules)} :
        m.scores = [l.scores EXCEPT ![other_side(p)] = @ + n]
  /\ m.servingPlayer = other_side(p) /\ m.lastError = p
  /\ l.ballValid /\ ~m.ballValid
  /\ m.gameRunning

-----------------------------------------------------------------------------

LEMMA OtherSide ==
  ASSUME NEW p \in Player
  PROVE  /\ other_side(p) \in Player
         /\ other_side(p) # p
         /\ other_side(other_side(p)) = p
         /\ \A q \in Player : q # p => q = other_side(p)
  BY DEF other_side, Player, LEFT_PLAYER, RIGHT_PLAYER

LEMMA NobodyType ==
  /\ Nobody \in [Player -> Nat]
  /\ Nobody \in [Player -> 0..SquishTolerance]
  /\ \A p \in Player : Nobody[p] = 0
  /\ 0 \in 0..SquishTolerance
  /\ SquishTolerance \in 0..SquishTolerance
  BY SquishToleranceAssumption DEF Nobody

LEMMA RuleNumbers ==
  ASSUME NEW r \in RuleSet
  PROVE  /\ TouchLimit(r) \in Nat /\ TouchLimit(r) >= 1
         /\ FaultPoints(r) \in Nat
         /\ r # "firewall" => FaultPoints(r) = 1
  BY FirewallFactorAssumption DEF RuleSet, TouchLimit, FaultPoints

(* IsWinning of default.lua and classic.lua names the winner that the       *)
(* built-in checkWin names: GameLogic.cpp asks the script only whether       *)
(* somebody has won and takes the higher score.                             *)
THEOREM LuaCheckWinAgrees ==
  ASSUME NEW scores \in [Player -> Nat], NEW stw \in Nat
  PROVE  luaCheckWin(scores, stw) = checkWin(scores, stw)
  BY DEF luaCheckWin, checkWin, Leads, other_side, Player,
         LEFT_PLAYER, RIGHT_PLAYER, NO_PLAYER

LEMMA WinnerOfIsCheckWin ==
  ASSUME NEW r, NEW scores \in [Player -> Nat], NEW stw \in Nat
  PROVE  winnerOf(r, scores, stw) = checkWin(scores, stw)
  BY LuaCheckWinAgrees DEF winnerOf

LEMMA CheckWinType ==
  ASSUME NEW scores, NEW stw
  PROVE  checkWin(scores, stw) \in Player \cup {NO_PLAYER}
  BY DEF checkWin, Player

LEMMA ScoreFacts ==
  ASSUME NEW l \in GameLogicState, NEW side \in Player, NEW n \in Nat
  PROVE  LET m == score(l, side, n)
         IN /\ m \in GameLogicState
            /\ WinnerCurrent(m)
            /\ m.scores = [l.scores EXCEPT ![side] = l.scores[side] + n]
            /\ m.rules = l.rules /\ m.scoreToWin = l.scoreToWin
            /\ m.clockRunning = l.clockRunning
            /\ m.touches = l.touches /\ m.groundHits = l.groundHits
            /\ m.ballValid = l.ballValid /\ m.gameRunning = l.gameRunning
            /\ m.servingPlayer = l.servingPlayer /\ m.lastError = l.lastError
<1> DEFINE s == [l.scores EXCEPT ![side] = l.scores[side] + n]
           w == winnerOf(l.rules, s, l.scoreToWin)
           m == score(l, side, n)
<1>1. l.scores \in [Player -> Nat] /\ l.scoreToWin \in Nat
  BY DEF GameLogicState
<1>2. s \in [Player -> Nat]
  BY <1>1
<1>3. s = [l.scores EXCEPT ![side] = AtLeastZero(@ + n)]
  BY <1>1 DEF AtLeastZero
<1>4. w \in Player \cup {NO_PLAYER}
  BY <1>1, <1>2, WinnerOfIsCheckWin, CheckWinType
<1>5. m = [l EXCEPT !.scores = s, !.winningPlayer = w]
  BY <1>3 DEF score
<1>6. w = winnerOf(l.rules, s, l.scoreToWin)
  OBVIOUS
<1> HIDE DEF s, w, m
<1>7. m \in GameLogicState /\ m.winningPlayer = w /\ m.scores = s
  BY <1>2, <1>4, <1>5 DEF GameLogicState
<1>8. /\ m.rules = l.rules /\ m.scoreToWin = l.scoreToWin
      /\ m.clockRunning = l.clockRunning
      /\ m.touches = l.touches /\ m.groundHits = l.groundHits
      /\ m.ballValid = l.ballValid /\ m.gameRunning = l.gameRunning
      /\ m.servingPlayer = l.servingPlayer /\ m.lastError = l.lastError
  BY <1>5 DEF GameLogicState
<1>9. WinnerCurrent(m)
  BY <1>6, <1>7, <1>8 DEF WinnerCurrent
<1> QED BY <1>7, <1>8, <1>9 DEF s, m

LEMMA FaultFacts ==
  ASSUME NEW l \in GameLogicState, NEW p \in Player, NEW n \in Nat
  PROVE  LET m == fault(l, p, n)
         IN /\ m \in GameLogicState
            /\ WinnerCurrent(m)
            /\ m.scores = [l.scores EXCEPT ![other_side(p)] = l.scores[other_side(p)] + n]
            /\ m.rules = l.rules /\ m.scoreToWin = l.scoreToWin
            /\ m.clockRunning = l.clockRunning
            /\ m.touches = Nobody /\ m.groundHits = l.groundHits
            /\ ~m.ballValid /\ m.gameRunning = l.gameRunning
            /\ m.lastError = p /\ m.servingPlayer = other_side(p)
<1> DEFINE o == other_side(p)
           sc == score(l, o, n)
           m == fault(l, p, n)
<1>1. o \in Player
  BY OtherSide
<1>2. /\ sc \in GameLogicState
      /\ WinnerCurrent(sc)
      /\ sc.scores = [l.scores EXCEPT ![o] = l.scores[o] + n]
      /\ sc.rules = l.rules /\ sc.scoreToWin = l.scoreToWin
      /\ sc.clockRunning = l.clockRunning
      /\ sc.gameRunning = l.gameRunning /\ sc.groundHits = l.groundHits
  <2> HIDE DEF o
  <2> QED BY <1>1, ScoreFacts
<1>3. m = onError(sc, p, o)
  BY DEF fault, mistake
<1> HIDE DEF sc, m, o
<1>4. m \in GameLogicState
  BY <1>1, <1>2, <1>3, NobodyType DEF onError, GameLogicState
<1>5. /\ m.rules = sc.rules /\ m.scoreToWin = sc.scoreToWin
      /\ m.clockRunning = sc.clockRunning
      /\ m.scores = sc.scores /\ m.winningPlayer = sc.winningPlayer
      /\ m.gameRunning = sc.gameRunning /\ m.groundHits = sc.groundHits
      /\ m.touches = Nobody /\ ~m.ballValid
      /\ m.lastError = p /\ m.servingPlayer = o
  BY <1>2, <1>3 DEF onError, GameLogicState
<1>6. WinnerCurrent(m)
  BY <1>2, <1>5 DEF WinnerCurrent
<1> QED BY <1>2, <1>4, <1>5, <1>6 DEF m, o

(* The outcomes of a mistake: the rally is lost, nobody holds touches.      *)
LEMMA FaultEndsRally ==
  ASSUME NEW l \in GameLogicState, NEW p \in Player,
         NEW n \in {0, FaultPoints(l.rules)},
         l.ballValid, l.gameRunning
  PROVE  LET m == fault(l, p, n)
         IN /\ m \in GameLogicState /\ WinnerCurrent(m)
            /\ LostBy(l, m, p)
            /\ m.touches = Nobody /\ m.groundHits = l.groundHits
<1>1. n \in Nat
  BY RuleNumbers DEF GameLogicState
<1> QED BY <1>1, FaultFacts DEF LostBy

(* A script may reset its own globals before it reports the mistake.        *)
LEMMA ScriptGlobals ==
  ASSUME NEW l \in GameLogicState, WinnerCurrent(l),
         NEW b \in BOOLEAN, NEW q \in Player, NEW g \in [Player -> Nat]
  PROVE  LET m == [l EXCEPT !.firstround = b, !.lasthit = q]
             k == [l EXCEPT !.groundHits = g]
         IN /\ m \in GameLogicState /\ WinnerCurrent(m)
            /\ GoesOn(l, m) /\ m.gameRunning = l.gameRunning
            /\ m.touches = l.touches /\ m.groundHits = l.groundHits
            /\ k \in GameLogicState /\ WinnerCurrent(k)
            /\ GoesOn(l, k) /\ k.gameRunning = l.gameRunning
            /\ k.touches = l.touches /\ k.groundHits = g
  BY DEF GameLogicState, WinnerCurrent, GoesOn

LEMMA LostAfterGlobals ==
  ASSUME NEW l, NEW m, NEW k, NEW p, GoesOn(l, m), LostBy(m, k, p)
  PROVE  LostBy(l, k, p)
  BY DEF GoesOn, LostBy

LEMMA ClassicFault ==
  ASSUME NEW l \in GameLogicState, WinnerCurrent(l), NEW p \in Player,
         l.ballValid, l.gameRunning, l.rules = "classic"
  PROVE  LET m == classicFault(l, p)
         IN /\ m \in GameLogicState /\ WinnerCurrent(m)
            /\ LostBy(l, m, p)
            /\ m.touches = Nobody /\ m.groundHits = l.groundHits
<1> DEFINE k == [l EXCEPT !.firstround = FALSE, !.lasthit = p]
           n == AmmountOfPoints(l, p)
<1>1. /\ k \in GameLogicState /\ WinnerCurrent(k) /\ GoesOn(l, k)
      /\ k.gameRunning = l.gameRunning /\ k.groundHits = l.groundHits
  BY NobodyType, ScriptGlobals
<1>2. k.rules = l.rules /\ k.ballValid /\ k.gameRunning
  BY <1>1 DEF GoesOn
<1>3. n \in {0, FaultPoints(k.rules)}
  BY <1>2 DEF AmmountOfPoints, FaultPoints
<1>4. classicFault(l, p) = fault(k, p, n)
  BY DEF classicFault
<1> HIDE DEF k, n
<1>5. LET m == fault(k, p, n)
      IN /\ m \in GameLogicState /\ WinnerCurrent(m) /\ LostBy(k, m, p)
         /\ m.touches = Nobody /\ m.groundHits = k.groundHits
  BY <1>1, <1>2, <1>3, FaultEndsRally
<1> QED BY <1>1, <1>4, <1>5, LostAfterGlobals

-----------------------------------------------------------------------------

(* A touch, counted: within the limit nothing happens, else one mistake.   *)
PlayerOutcome(c, h, side) ==
  /\ h \in GameLogicState /\ WinnerCurrent(h)
  /\ h.groundHits = Nobody
  /\ \/ /\ GoesOn(c, h) /\ h.touches = c.touches
        /\ c.touches[side] <= TouchLimit(c.rules)
     \/ /\ \E p \in Player : LostBy(c, h, p)
        /\ h.touches = Nobody

LEMMA DoublePlayerHandler ==
  ASSUME NEW c \in GameLogicState, WinnerCurrent(c), NEW side \in Player,
         c.ballValid, c.gameRunning,
         c.rules = "the_double", c.groundHits = Nobody
  PROVE  PlayerOutcome(c, doublePlayerHandler(c, side), side)
<1> DEFINE opp == other_side(side)
<1>1. opp \in Player
  BY OtherSide
<1>2. 1 \in {0, FaultPoints(c.rules)}
  BY DEF FaultPoints
<1>3. \A p \in Player :
        LET m == fault(c, p, 1)
        IN /\ m \in GameLogicState /\ WinnerCurrent(m) /\ LostBy(c, m, p)
           /\ m.touches = Nobody /\ m.groundHits = c.groundHits
  BY <1>2, FaultEndsRally
<1>4. GoesOn(c, c)
  BY DEF GoesOn
<1>5. CASE c.touches[side] > TouchLimit(c.rules)
  <2>1. fault(c, side, 1).touches[opp] = 0
    BY <1>1, <1>3, NobodyType
  <2>2. doublePlayerHandler(c, side) = fault(c, side, 1)
    BY <1>5, <2>1 DEF doublePlayerHandler
  <2> QED BY <1>3, <2>2 DEF PlayerOutcome
<1>6. CASE ~(c.touches[side] > TouchLimit(c.rules))
  <2>1. c.touches[side] <= TouchLimit(c.rules)
    BY <1>6, RuleNumbers DEF GameLogicState
  <2>2. doublePlayerHandler(c, side)
          = IF c.touches[opp] = 1 THEN fault(c, opp, 1) ELSE c
    BY <1>6 DEF doublePlayerHandler
  <2> QED BY <1>1, <1>3, <1>4, <2>1, <2>2 DEF PlayerOutcome
<1> QED BY <1>5, <1>6

LEMMA TennisPlayerHandler ==
  ASSUME NEW c \in GameLogicState, WinnerCurrent(c), NEW side \in Player,
         c.ballValid, c.gameRunning, c.rules = "tennis",
         c.groundHits[other_side(side)] > 0 => c.touches[side] <= 1
  PROVE  PlayerOutcome(c, tennisPlayerHandler(c, side), side)
<1> DEFINE opp == other_side(side)
           k == [c EXCEPT !.groundHits = Nobody]
<1>1. opp \in Player /\ c.groundHits[opp] \in Nat /\ c.touches[side] \in Nat
  BY OtherSide DEF GameLogicState
<1>2. /\ k \in GameLogicState /\ WinnerCurrent(k) /\ GoesOn(c, k)
      /\ k.gameRunning = c.gameRunning
      /\ k.touches = c.touches /\ k.groundHits = Nobody
  <2>1. c.lasthit \in Player /\ c.firstround \in BOOLEAN
    BY DEF GameLogicState
  <2> QED BY <2>1, NobodyType, ScriptGlobals
<1>3. k.rules = c.rules /\ k.ballValid /\ k.gameRunning /\ TouchLimit(k.rules) = 1
  BY <1>2 DEF GoesOn, TouchLimit
<1>4. tennisPlayerHandler(c, side) =
        LET l2 == IF k.touches[side] > TouchLimit(k.rules) THEN fault(k, side, 1) ELSE k
        IN IF c.groundHits[opp] > 0 /\ l2.touches[opp] = 0 THEN fault(l2, opp, 1) ELSE l2
  BY DEF tennisPlayerHandler
<1> HIDE DEF k
<1>5. 1 \in {0, FaultPoints(k.rules)}
  BY <1>3 DEF FaultPoints
<1>6. \A p \in Player :
        LET m == fault(k, p, 1)
        IN /\ m \in GameLogicState /\ WinnerCurrent(m) /\ LostBy(c, m, p)
           /\ m.touches = Nobody /\ m.groundHits = Nobody
  BY <1>2, <1>3, <1>5, FaultEndsRally, LostAfterGlobals
<1>7. CASE c.touches[side] > 1
  <2>1. ~(c.groundHits[opp] > 0)
    BY <1>1, <1>7
  <2>2. tennisPlayerHandler(c, side) = fault(k, side, 1)
    BY <1>2, <1>3, <1>4, <1>7, <2>1
  <2> QED BY <1>6, <2>2 DEF PlayerOutcome
<1>8. CASE ~(c.touches[side] > 1)
  <2>1. tennisPlayerHandler(c, side) = k \/ tennisPlayerHandler(c, side) = fault(k, opp, 1)
    BY <1>2, <1>3, <1>4, <1>8
  <2>2. c.touches[side] <= TouchLimit(c.rules)
    BY <1>1, <1>3, <1>8
  <2> QED BY <1>1, <1>2, <1>6, <2>1, <2>2 DEF PlayerOutcome
<1> QED BY <1>7, <1>8

LEMMA PlayerHandler ==
  ASSUME NEW c \in GameLogicState, WinnerCurrent(c), NEW side \in Player,
         c.ballValid, c.gameRunning,
         c.rules # "tennis" => c.groundHits = Nobody,
         c.groundHits[other_side(side)] > 0 => c.touches[side] <= 1
  PROVE  PlayerOutcome(c, OnBallHitsPlayerHandler(c, side), side)
<1> DEFINE h == OnBallHitsPlayerHandler(c, side)
<1>1. CASE c.rules = "the_double"
  BY <1>1, DoublePlayerHandler DEF OnBallHitsPlayerHandler
<1>2. CASE c.rules = "tennis"
  BY <1>2, TennisPlayerHandler DEF OnBallHitsPlayerHandler
<1>3. CASE c.rules \notin {"the_double", "tennis"} /\ c.touches[side] <= TouchLimit(c.rules)
  <2>1. h = c
    BY <1>3 DEF OnBallHitsPlayerHandler
  <2> QED BY <1>3, <2>1 DEF PlayerOutcome, GoesOn
<1>4. CASE c.rules = "classic" /\ ~(c.touches[side] <= TouchLimit(c.rules))
  <2>1. h = classicFault(c, side)
    BY <1>4 DEF OnBallHitsPlayerHandler
  <2> QED BY <1>4, <2>1, ClassicFault DEF PlayerOutcome
<1>5. CASE c.rules \notin {"the_double", "tennis", "classic"} /\ ~(c.touches[side] <= TouchLimit(c.rules))
  <2>1. h = fault(c, side, FaultPoints(c.rules))
    BY <1>5 DEF OnBallHitsPlayerHandler
  <2> QED BY <1>5, <2>1, FaultEndsRally DEF PlayerOutcome
<1> QED BY <1>1, <1>2, <1>3, <1>4, <1>5

(* The first touch anybody holds is no mistake under any rules: this is why  *)
(* a touch counted while the ball is invalid does not end the rally twice.  *)
LEMMA FirstTouchIsFree ==
  ASSUME NEW c \in GameLogicState, WinnerCurrent(c), NEW side \in Player,
         c.touches[side] = 1, c.touches[other_side(side)] = 0,
         c.groundHits = Nobody
  PROVE  LET h == OnBallHitsPlayerHandler(c, side)
         IN /\ h \in GameLogicState /\ WinnerCurrent(h)
            /\ GoesOn(c, h) /\ h.touches = c.touches /\ h.groundHits = Nobody
<1> DEFINE h == OnBallHitsPlayerHandler(c, side)
           k == [c EXCEPT !.groundHits = Nobody]
<1>1. c.touches[side] <= TouchLimit(c.rules) /\ c.groundHits[other_side(side)] = 0
  BY RuleNumbers, NobodyType, OtherSide DEF GameLogicState
<1>2. k = c
  BY DEF GameLogicState
<1>3. ~(c.touches[side] > TouchLimit(c.rules))
  BY <1>1, RuleNumbers DEF GameLogicState
<1>4. CASE c.rules = "the_double"
  <2>1. h = doublePlayerHandler(c, side)
    BY <1>4 DEF OnBallHitsPlayerHandler
  <2>2. h = c
    BY <1>3, <2>1 DEF doublePlayerHandler
  <2> QED BY <2>2 DEF GoesOn
<1>5. CASE c.rules = "tennis"
  <2>1. h = tennisPlayerHandler(c, side)
    BY <1>5 DEF OnBallHitsPlayerHandler
  <2>2. h = c
    BY <1>1, <1>2, <1>3, <2>1 DEF tennisPlayerHandler
  <2> QED BY <2>2 DEF GoesOn
<1>6. CASE c.rules \notin {"the_double", "tennis"}
  <2>1. h = c
    BY <1>1, <1>6 DEF OnBallHitsPlayerHandler
  <2> QED BY <2>1 DEF GoesOn
<1> QED BY <1>4, <1>5, <1>6

-----------------------------------------------------------------------------

(* A bounce: one mistake, or (tennis.lua) the first bounce on that side.    *)
GroundOutcome(c, h, side) ==
  /\ h \in GameLogicState /\ WinnerCurrent(h)
  /\ \/ /\ GoesOn(c, h) /\ h.touches = c.touches /\ c.touches[side] = 0
        /\ h.rules = "tennis"
        /\ h.groundHits[other_side(side)] = 0
     \/ /\ \E p \in Player : LostBy(c, h, p)
        /\ h.touches = Nobody /\ h.groundHits = Nobody

LEMMA TennisGroundHandler ==
  ASSUME NEW c \in GameLogicState, WinnerCurrent(c), NEW side \in Player,
         c.ballValid, c.gameRunning, c.rules = "tennis",
         c.touches[other_side(side)] = 0,
         c.groundHits[other_side(side)] > 0 =>
           c.touches[side] = 0 /\ c.groundHits[side] = 0
  PROVE  GroundOutcome(c, tennisGroundHandler(c, side), side)
<1> DEFINE opp == other_side(side)
           mh  == c.groundHits[side] + 1
           oh  == c.groundHits[opp]
           g   == [Nobody EXCEPT ![side] = mh]
           k   == [c EXCEPT !.groundHits = g]
           k0  == [k EXCEPT !.groundHits = Nobody]
           h   == tennisGroundHandler(c, side)
<1>1. /\ opp \in Player /\ opp # side
      /\ oh \in Nat /\ c.groundHits[side] \in Nat
      /\ c.touches[side] \in Nat /\ mh \in Nat
  BY OtherSide DEF GameLogicState
<1>2. g \in [Player -> Nat] /\ g[opp] = 0
  BY <1>1, NobodyType
<1>3. c.lasthit \in Player /\ c.firstround \in BOOLEAN
  BY DEF GameLogicState
<1>4. /\ k \in GameLogicState /\ WinnerCurrent(k) /\ GoesOn(c, k)
      /\ k.gameRunning = c.gameRunning
      /\ k.touches = c.touches /\ k.groundHits = g
  <2> HIDE DEF g
  <2> QED BY <1>2, <1>3, ScriptGlobals
<1>5. k0 = [c EXCEPT !.groundHits = Nobody]
  BY DEF GameLogicState
<1>6. /\ k0 \in GameLogicState /\ WinnerCurrent(k0) /\ GoesOn(c, k0)
      /\ k0.gameRunning = c.gameRunning
      /\ k0.touches = c.touches /\ k0.groundHits = Nobody
  <2> HIDE DEF k0
  <2> QED BY <1>3, <1>5, NobodyType, ScriptGlobals
<1>7. h = LET l2 == IF mh > 1 \/ k.touches[side] > 0 THEN fault(k0, side, 1) ELSE k
          IN IF oh > 0 /\ l2.touches[opp] = 0
             THEN fault([l2 EXCEPT !.groundHits = Nobody], opp, 1) ELSE l2
  BY DEF tennisGroundHandler
<1>8. /\ k0.rules = c.rules /\ k0.ballValid /\ k0.gameRunning
      /\ k.rules = c.rules
  BY <1>4, <1>6 DEF GoesOn
<1>9. 1 \in {0, FaultPoints(k0.rules)}
  BY <1>8 DEF FaultPoints
<1> HIDE DEF k, k0, g, h
<1>10. \A p \in Player :
         LET m == fault(k0, p, 1)
         IN /\ m \in GameLogicState /\ WinnerCurrent(m) /\ LostBy(c, m, p)
            /\ m.touches = Nobody /\ m.groundHits = Nobody
  BY <1>6, <1>8, <1>9, FaultEndsRally, LostAfterGlobals
<1>11. CASE oh > 0
  <2>1. ~(mh > 1 \/ k.touches[side] > 0)
    BY <1>1, <1>4, <1>11
  <2>2. h = fault(k0, opp, 1)
    BY <1>4, <1>7, <1>11, <2>1 DEF k0
  <2> QED BY <1>1, <1>10, <2>2 DEF GroundOutcome, h
<1>12. CASE ~(oh > 0) /\ (mh > 1 \/ k.touches[side] > 0)
  <2>1. h = fault(k0, side, 1)
    BY <1>7, <1>12
  <2> QED BY <1>10, <2>1 DEF GroundOutcome, h
<1>13. CASE ~(oh > 0) /\ ~(mh > 1 \/ k.touches[side] > 0)
  <2>1. h = k
    BY <1>7, <1>13
  <2>2. c.touches[side] = 0
    BY <1>1, <1>4, <1>13
  <2> QED BY <1>2, <1>4, <1>8, <2>1, <2>2 DEF GroundOutcome, h
<1> QED BY <1>11, <1>12, <1>13

LEMMA GroundHandler ==
  ASSUME NEW c \in GameLogicState, WinnerCurrent(c), NEW side \in Player,
         c.ballValid, c.gameRunning,
         c.touches[other_side(side)] = 0,
         c.rules # "tennis" => c.groundHits = Nobody,
         c.groundHits[other_side(side)] > 0 =>
           c.touches[side] = 0 /\ c.groundHits[side] = 0
  PROVE  GroundOutcome(c, OnBallHitsGroundHandler(c, side), side)
<1> DEFINE h == OnBallHitsGroundHandler(c, side)
<1>1. CASE c.rules = "tennis"
  BY <1>1, TennisGroundHandler DEF OnBallHitsGroundHandler
<1>2. CASE c.rules = "the_double"
  <2>1. 1 \in {0, FaultPoints(c.rules)}
    BY <1>2 DEF FaultPoints
  <2>2. other_side(side) \in Player
    BY OtherSide
  <2>3. h = fault(c, other_side(side), 1) \/ h = fault(c, side, 1)
    BY <1>2 DEF OnBallHitsGroundHandler, doubleGroundHandler
  <2> QED BY <1>2, <2>1, <2>2, <2>3, FaultEndsRally DEF GroundOutcome
<1>3. CASE c.rules = "classic"
  <2>1. h = classicFault(c, side)
    BY <1>3 DEF OnBallHitsGroundHandler
  <2> QED BY <1>3, <2>1, ClassicFault DEF GroundOutcome
<1>4. CASE c.rules \notin {"tennis", "the_double", "classic"}
  <2>1. h = fault(c, side, FaultPoints(c.rules))
    BY <1>4 DEF OnBallHitsGroundHandler
  <2> QED BY <1>4, <2>1, FaultEndsRally DEF GroundOutcome
<1> QED BY <1>1, <1>2, <1>3, <1>4

-----------------------------------------------------------------------------
(* The event handlers. *)

(* What one reported contact does to the record: the rally goes on or is    *)
(* lost, and the invariant is kept.                                        *)
ContactOutcome(l, m) ==
  /\ LogicInv(m)
  /\ \/ GoesOn(l, m)
     \/ \E p \in Player : LostBy(l, m, p)

LEMMA LimitOne ==
  ASSUME NEW l \in GameLogicState, NEW m, m.rules = l.rules,
         m.touches \in [Player -> Nat], NEW side \in Player,
         m.touches[side] <= TouchLimit(l.rules),
         m.touches[other_side(side)] = 0
  PROVE  TouchesOK(m)
<1>1. TouchLimit(l.rules) \in Nat
  BY RuleNumbers DEF GameLogicState
<1> QED BY <1>1, OtherSide DEF TouchesOK

LEMMA NobodyTouches ==
  ASSUME NEW m \in GameLogicState, m.touches = Nobody
  PROVE  TouchesOK(m)
  BY RuleNumbers, NobodyType DEF TouchesOK, GameLogicState, Player

LEMMA NoBounces ==
  ASSUME NEW m, m.groundHits = Nobody
  PROVE  OneBounce(m)
  BY NobodyType DEF OneBounce

LEMMA LostIsRestartable ==
  ASSUME NEW l, NEW m, NEW p \in Player, LostBy(l, m, p)
  PROVE  Restartable(m)
  BY OtherSide DEF Restartable, LostBy

LEMMA CountTouchFacts ==
  ASSUME NEW l \in GameLogicState, WinnerCurrent(l), NEW side \in Player
  PROVE  LET c == countTouch(l, side)
         IN /\ c \in GameLogicState /\ WinnerCurrent(c) /\ GoesOn(l, c)
            /\ c.gameRunning /\ c.groundHits = l.groundHits
            /\ c.touches = [l.touches EXCEPT ![side] = l.touches[side] + 1]
<1> DEFINE t == [l.touches EXCEPT ![side] = l.touches[side] + 1]
           q == [p \in Player |-> IF p = side THEN SquishTolerance ELSE 0]
<1>1. t \in [Player -> Nat]
  BY DEF GameLogicState
<1>2. q \in [Player -> 0..SquishTolerance]
  BY NobodyType
<1>3. countTouch(l, side)
        = [l EXCEPT !.squish = q, !.gameRunning = TRUE, !.touches = t]
  BY DEF countTouch, GameLogicState
<1> HIDE DEF t, q
<1> QED BY <1>1, <1>2, <1>3 DEF GameLogicState, WinnerCurrent, GoesOn, t

(* The record after onBallHitsPlayer's last line: the other side holds      *)
(* nothing.                                                                *)
LEMMA ClearOther ==
  ASSUME NEW h \in GameLogicState, WinnerCurrent(h), NEW o \in Player
  PROVE  LET m == [h EXCEPT !.touches = [h.touches EXCEPT ![o] = 0]]
         IN /\ m \in GameLogicState /\ WinnerCurrent(m) /\ GoesOn(h, m)
            /\ m.gameRunning = h.gameRunning /\ m.groundHits = h.groundHits
            /\ m.touches = [h.touches EXCEPT ![o] = 0]
<1> DEFINE t == [h.touches EXCEPT ![o] = 0]
<1>1. t \in [Player -> Nat]
  BY DEF GameLogicState
<1> HIDE DEF t
<1>2. LET m == [h EXCEPT !.touches = t]
      IN /\ m \in GameLogicState /\ WinnerCurrent(m) /\ GoesOn(h, m)
         /\ m.gameRunning = h.gameRunning /\ m.groundHits = h.groundHits
         /\ m.touches = t
  BY <1>1 DEF GameLogicState, WinnerCurrent, GoesOn
<1> QED BY <1>2 DEF t

LEMMA OutcomeTransitive ==
  ASSUME NEW l, NEW c, NEW m, NEW p
  PROVE  /\ GoesOn(l, c) /\ GoesOn(c, m) => GoesOn(l, m)
         /\ GoesOn(l, c) /\ LostBy(c, m, p) => LostBy(l, m, p)
         /\ LostBy(l, c, p) /\ GoesOn(c, m) => LostBy(l, m, p)
  BY DEF GoesOn, LostBy

(* A blob touches a ball in play.                                          *)
LEMMA PlayerContact ==
  ASSUME NEW l, LogicInv(l), l.ballValid, NEW side \in Player
  PROVE  LET m == onBallHitsPlayer(l, side)
         IN /\ ContactOutcome(l, m)
            /\ m.ballValid \/ (m.touches = Nobody /\ m.groundHits = Nobody)
<1> DEFINE o == other_side(side)
           c == countTouch(l, side)
           h == OnBallHitsPlayerHandler(c, side)
           m == onBallHitsPlayer(l, side)
<1>1. l \in GameLogicState /\ WinnerCurrent(l) /\ TouchesOK(l) /\ OneBounce(l)
  BY DEF LogicInv
<1>2. o \in Player /\ o # side /\ other_side(o) = side
  BY OtherSide
<1>3. CASE ~isCollisionValid(l, side)
  <2>1. m = l
    BY <1>3 DEF onBallHitsPlayer
  <2> QED BY <2>1 DEF ContactOutcome, GoesOn
<1>4. CASE isCollisionValid(l, side)
  <2>1. /\ c \in GameLogicState /\ WinnerCurrent(c) /\ GoesOn(l, c)
        /\ c.gameRunning /\ c.groundHits = l.groundHits
        /\ c.touches = [l.touches EXCEPT ![side] = l.touches[side] + 1]
    BY <1>1, CountTouchFacts
  <2>2. /\ c.ballValid
        /\ c.rules # "tennis" => c.groundHits = Nobody
        /\ c.groundHits[o] > 0 => c.touches[side] <= 1
    BY <1>1, <1>2, <2>1 DEF GoesOn, OneBounce, GameLogicState
  <2>3. m = [h EXCEPT !.touches = [h.touches EXCEPT ![o] = 0]]
    BY <1>4 DEF onBallHitsPlayer
  <2>4. PlayerOutcome(c, h, side)
    <3> HIDE DEF c
    <3> QED BY <2>1, <2>2, PlayerHandler
  <2> HIDE DEF c, h, m
  <2>5. h \in GameLogicState /\ WinnerCurrent(h) /\ h.groundHits = Nobody
    BY <2>4 DEF PlayerOutcome
  <2>6. /\ m \in GameLogicState /\ WinnerCurrent(m) /\ GoesOn(h, m)
        /\ m.gameRunning = h.gameRunning /\ m.groundHits = Nobody
        /\ m.touches = [h.touches EXCEPT ![o] = 0]
    <3> HIDE DEF o
    <3> QED BY <1>2, <2>3, <2>5, ClearOther
  <2>7. OneBounce(m)
    BY <2>6, NoBounces
  <2>8. CASE GoesOn(c, h) /\ h.touches = c.touches /\ c.touches[side] <= TouchLimit(c.rules)
    <3>1. GoesOn(l, m) /\ m.rules = c.rules /\ m.ballValid
      BY <2>1, <2>2, <2>6, <2>8 DEF GoesOn
    <3>2. m.touches[side] = c.touches[side] /\ m.touches[o] = 0
      BY <1>2, <2>1, <2>6, <2>8 DEF GameLogicState
    <3>3. m.touches \in [Player -> Nat]
      BY <2>6 DEF GameLogicState
    <3>4. TouchesOK(m)
      BY <2>1, <2>8, <3>1, <3>2, <3>3, LimitOne
    <3> QED BY <2>6, <2>7, <3>1, <3>4 DEF ContactOutcome, LogicInv, Restartable, m
  <2>9. CASE (\E p \in Player : LostBy(c, h, p)) /\ h.touches = Nobody
    <3>1. PICK p \in Player : LostBy(c, h, p)
      BY <2>9
    <3>2. LostBy(l, m, p)
      BY <2>1, <2>6, <3>1, OutcomeTransitive
    <3>3. m.touches = Nobody
      BY <2>6, <2>9 DEF Nobody
    <3>4. TouchesOK(m) /\ Restartable(m)
      BY <2>6, <3>2, <3>3, NobodyTouches, LostIsRestartable
    <3> QED BY <2>6, <2>7, <3>2, <3>3, <3>4 DEF ContactOutcome, LogicInv, m
  <2> QED BY <2>4, <2>8, <2>9 DEF PlayerOutcome
<1> QED BY <1>3, <1>4

(* The other blob touches the ball in the frame of a mistake: the touch is   *)
(* counted, but the rally that is lost stays lost by the same side.         *)
LEMMA DeadContact ==
  ASSUME NEW l, LogicInv(l), l.touches = Nobody, l.groundHits = Nobody,
         NEW side \in Player
  PROVE  LET m == onBallHitsPlayer(l, side)
         IN LogicInv(m) /\ GoesOn(l, m)
<1> DEFINE o == other_side(side)
           c == countTouch(l, side)
           h == OnBallHitsPlayerHandler(c, side)
           m == onBallHitsPlayer(l, side)
<1>1. l \in GameLogicState /\ WinnerCurrent(l) /\ Restartable(l)
  BY DEF LogicInv
<1>2. o \in Player /\ o # side /\ other_side(o) = side
  BY OtherSide
<1>3. CASE ~isCollisionValid(l, side)
  <2>1. m = l
    BY <1>3 DEF onBallHitsPlayer
  <2> QED BY <2>1 DEF GoesOn
<1>4. CASE isCollisionValid(l, side)
  <2>1. /\ c \in GameLogicState /\ WinnerCurrent(c) /\ GoesOn(l, c)
        /\ c.gameRunning /\ c.groundHits = Nobody
        /\ c.touches = [l.touches EXCEPT ![side] = l.touches[side] + 1]
    BY <1>1, CountTouchFacts
  <2>2. c.touches[side] = 1 /\ c.touches[o] = 0
    BY <1>2, <2>1, NobodyType
  <2>3. m = [h EXCEPT !.touches = [h.touches EXCEPT ![o] = 0]]
    BY <1>4 DEF onBallHitsPlayer
  <2>4. /\ h \in GameLogicState /\ WinnerCurrent(h)
        /\ GoesOn(c, h) /\ h.touches = c.touches /\ h.groundHits = Nobody
    <3> HIDE DEF c
    <3> QED BY <2>1, <2>2, FirstTouchIsFree
  <2> HIDE DEF c, h, m
  <2>5. /\ m \in GameLogicState /\ WinnerCurrent(m) /\ GoesOn(h, m)
        /\ m.gameRunning = h.gameRunning /\ m.groundHits = Nobody
        /\ m.touches = [h.touches EXCEPT ![o] = 0]
    <3> HIDE DEF o
    <3> QED BY <1>2, <2>3, <2>4, ClearOther
  <2>6. GoesOn(l, m)
    BY <2>1, <2>4, <2>5, OutcomeTransitive
  <2>7. m.touches[side] = 1 /\ m.touches[o] = 0 /\ m.touches \in [Player -> Nat]
    BY <1>2, <2>2, <2>4, <2>5 DEF GameLogicState
  <2>8. TouchesOK(m)
    BY <2>5, <2>6, <2>7, RuleNumbers, LimitOne DEF GameLogicState
  <2>9. Restartable(m)
    BY <1>1, <2>6 DEF Restartable, GoesOn
  <2> QED BY <2>5, <2>6, <2>8, <2>9, NoBounces DEF LogicInv, m
<1> QED BY <1>3, <1>4

(* The ball bounces.  Only a running game lets it fall.                     *)
LEMMA GroundContact ==
  ASSUME NEW l, LogicInv(l), l.gameRunning, NEW side \in Player
  PROVE  LET m == onBallHitsGround(l, side)
         IN ContactOutcome(l, m) /\ (~l.ballValid => m = l)
<1> DEFINE o == other_side(side)
           t == [l.touches EXCEPT ![o] = 0]
           c == [l EXCEPT !.squishGround = SquishTolerance, !.touches = t]
           h == OnBallHitsGroundHandler(c, side)
           m == onBallHitsGround(l, side)
<1>1. l \in GameLogicState /\ WinnerCurrent(l) /\ TouchesOK(l) /\ OneBounce(l)
  BY DEF LogicInv
<1>2. o \in Player /\ o # side /\ other_side(o) = side
  BY OtherSide
<1>3. CASE ~isGroundCollisionValid(l)
  <2>1. m = l
    BY <1>3 DEF onBallHitsGround
  <2> QED BY <2>1 DEF ContactOutcome, GoesOn
<1>4. CASE isGroundCollisionValid(l)
  <2>1. t \in [Player -> Nat] /\ t[o] = 0 /\ t[side] = l.touches[side]
    BY <1>1, <1>2 DEF GameLogicState
  <2>2. m = h /\ l.ballValid
    BY <1>4 DEF onBallHitsGround, isGroundCollisionValid
  <2>3. /\ c \in GameLogicState /\ WinnerCurrent(c) /\ GoesOn(l, c)
        /\ c.gameRunning = l.gameRunning
        /\ c.touches = t /\ c.groundHits = l.groundHits
    <3> HIDE DEF t
    <3> QED BY <1>1, <2>1, NobodyType DEF GameLogicState, WinnerCurrent, GoesOn
  <2> HIDE DEF c, t, m
  <2>4. /\ c.ballValid /\ c.gameRunning
        /\ c.touches[o] = 0
        /\ c.rules # "tennis" => c.groundHits = Nobody
        /\ c.groundHits[o] > 0 => c.touches[side] = 0 /\ c.groundHits[side] = 0
    BY <1>1, <1>2, <2>1, <2>2, <2>3 DEF GoesOn, OneBounce
  <2>5. GroundOutcome(c, h, side)
    BY <2>3, <2>4, GroundHandler
  <2> HIDE DEF h
  <2>6. h \in GameLogicState /\ WinnerCurrent(h)
    BY <2>5 DEF GroundOutcome
  <2>7. CASE /\ GoesOn(c, h) /\ h.touches = c.touches /\ c.touches[side] = 0
             /\ h.rules = "tennis" /\ h.groundHits[o] = 0
    <3>1. GoesOn(l, h) /\ h.ballValid
      BY <2>3, <2>4, <2>7, OutcomeTransitive DEF GoesOn
    <3>2. h.touches[side] = 0 /\ h.touches[o] = 0 /\ h.touches \in [Player -> Nat]
      BY <2>4, <2>6, <2>7 DEF GameLogicState
    <3>3. TouchesOK(h)
      BY <1>1, <2>6, <3>1, <3>2, RuleNumbers, LimitOne DEF GameLogicState, GoesOn
    <3>4. OneBounce(h)
      <4>1. \A p \in Player : h.touches[p] = 0
        BY <3>2, OtherSide
      <4>2. \A p \in Player : p = side \/ h.groundHits[p] = 0
        BY <2>7, OtherSide
      <4> QED BY <2>7, <4>1, <4>2, OtherSide DEF OneBounce
    <3> QED BY <2>2, <2>6, <3>1, <3>3, <3>4 DEF ContactOutcome, LogicInv, Restartable, m
  <2>8. CASE (\E p \in Player : LostBy(c, h, p)) /\ h.touches = Nobody /\ h.groundHits = Nobody
    <3>1. PICK p \in Player : LostBy(c, h, p)
      BY <2>8
    <3>2. LostBy(l, h, p)
      BY <2>3, <3>1, OutcomeTransitive
    <3>3. TouchesOK(h) /\ Restartable(h) /\ OneBounce(h)
      BY <2>6, <2>8, <3>2, NobodyTouches, LostIsRestartable, NoBounces
    <3> QED BY <2>2, <2>6, <3>2, <3>3 DEF ContactOutcome, LogicInv, m
  <2> QED BY <2>5, <2>7, <2>8 DEF GroundOutcome
<1> QED BY <1>3, <1>4

(* The point a wall pays under firewall.lua, while the rally goes on.       *)
BonusFor(l, m, p) ==
  /\ m.rules = l.rules /\ m.scoreToWin = l.scoreToWin
  /\ m.clockRunning = l.clockRunning
  /\ l.rules = "firewall" /\ m.scores = [l.scores EXCEPT ![p] = @ + 1]
  /\ m.servingPlayer = l.servingPlayer /\ m.lastError = l.lastError
  /\ l.ballValid /\ m.ballValid
  /\ l.gameRunning /\ m.gameRunning

(* The parts of the record that neither the squish counters nor the clock   *)
(* nor the reported error are part of.                                     *)
LEMMA WallCounterIsAside ==
  ASSUME NEW l, LogicInv(l)
  PROVE  LET m == [l EXCEPT !.squishWall = SquishTolerance]
         IN LogicInv(m) /\ GoesOn(l, m) /\ m.gameRunning = l.gameRunning
  BY NobodyType DEF LogicInv, GameLogicState, WinnerCurrent, Restartable,
                    TouchesOK, OneBounce, GoesOn

(* Everything but the wall's counter, the scores and the winner stays.      *)
LEMMA BonusKeepsInvariant ==
  ASSUME NEW l, LogicInv(l), NEW p \in Player,
         l.ballValid, l.gameRunning, l.rules = "firewall"
  PROVE  LET m == score(l, p, 1)
         IN LogicInv(m) /\ BonusFor(l, m, p)
<1> DEFINE m == score(l, p, 1)
<1>1. l \in GameLogicState /\ 1 \in Nat
  BY DEF LogicInv
<1>2. /\ m \in GameLogicState /\ WinnerCurrent(m)
      /\ m.scores = [l.scores EXCEPT ![p] = l.scores[p] + 1]
      /\ m.rules = l.rules /\ m.scoreToWin = l.scoreToWin
      /\ m.clockRunning = l.clockRunning
      /\ m.touches = l.touches /\ m.groundHits = l.groundHits
      /\ m.ballValid = l.ballValid /\ m.gameRunning = l.gameRunning
      /\ m.servingPlayer = l.servingPlayer /\ m.lastError = l.lastError
  BY <1>1, ScoreFacts
<1> HIDE DEF m
<1> QED BY <1>2 DEF LogicInv, Restartable, TouchesOK, OneBounce, BonusFor, m

(* The ball hits a wall.                                                    *)
LEMMA WallContact ==
  ASSUME NEW l, LogicInv(l), l.gameRunning, NEW side \in Player
  PROVE  LET m == onBallHitsWall(l, side)
         IN /\ LogicInv(m)
            /\ \/ GoesOn(l, m)
               \/ \E p \in Player : BonusFor(l, m, p)
            /\ ~l.ballValid => m = l
<1> DEFINE k == [l EXCEPT !.squishWall = SquishTolerance]
           m == onBallHitsWall(l, side)
<1>1. CASE ~isWallCollisionValid(l)
  <2>1. m = l
    BY <1>1 DEF onBallHitsWall
  <2> QED BY <2>1 DEF GoesOn
<1>2. CASE isWallCollisionValid(l)
  <2>1. l.ballValid
    BY <1>2 DEF isWallCollisionValid
  <2>2. LogicInv(k) /\ GoesOn(l, k) /\ k.gameRunning
    BY WallCounterIsAside
  <2>3. m = IF k.rules = "firewall" THEN score(k, other_side(side), 1) ELSE k
    BY <1>2 DEF onBallHitsWall, OnBallHitsWallHandler
  <2> HIDE DEF k, m
  <2>4. CASE k.rules # "firewall"
    BY <2>1, <2>2, <2>3, <2>4 DEF m
  <2>5. CASE k.rules = "firewall"
    <3>1. k.ballValid /\ other_side(side) \in Player
      BY <2>1, <2>2, OtherSide DEF GoesOn
    <3>2. LogicInv(m) /\ BonusFor(k, m, other_side(side))
      BY <2>2, <2>3, <2>5, <3>1, BonusKeepsInvariant
    <3>3. BonusFor(l, m, other_side(side))
      BY <2>1, <2>2, <3>2 DEF GoesOn, BonusFor
    <3> QED BY <2>1, <3>1, <3>2, <3>3 DEF m
  <2> QED BY <2>4, <2>5
<1> QED BY <1>1, <1>2

(* The ball hits the net.                                                   *)
LEMMA NetContact ==
  ASSUME NEW l, LogicInv(l)
  PROVE  LET m == onBallHitsNet(l)
         IN LogicInv(m) /\ GoesOn(l, m)
<1>1. GoesOn(l, l)
  BY DEF GoesOn
<1> QED BY <1>1, WallCounterIsAside DEF onBallHitsNet

-----------------------------------------------------------------------------
(* The referee's other methods. *)

(* A tick of the counters.                                                  *)
LEMMA Tick ==
  ASSUME NEW l, LogicInv(l)
  PROVE  LET m == step(l)
         IN LogicInv(m) /\ GoesOn(l, m) /\ m.gameRunning = l.gameRunning
<1> DEFINE q == [p \in Player |-> Dec(l.squish[p])]
           a == Dec(l.squishWall)
           b == Dec(l.squishGround)
<1>1. CASE ~l.clockRunning
  BY <1>1 DEF step, GoesOn
<1>2. CASE l.clockRunning
  <2>1. \A n \in 0..SquishTolerance : Dec(n) \in 0..SquishTolerance
    BY SquishToleranceAssumption DEF Dec
  <2>2. /\ l.squish \in [Player -> 0..SquishTolerance]
        /\ l.squishWall \in 0..SquishTolerance
        /\ l.squishGround \in 0..SquishTolerance
    BY DEF LogicInv, GameLogicState
  <2>3. /\ q \in [Player -> 0..SquishTolerance]
        /\ a \in 0..SquishTolerance /\ b \in 0..SquishTolerance
    BY <2>1, <2>2
  <2>4. step(l) = [l EXCEPT !.squish = q, !.squishWall = a, !.squishGround = b]
    BY <1>2 DEF step
  <2> HIDE DEF q, a, b
  <2>5. LET m == [l EXCEPT !.squish = q, !.squishWall = a, !.squishGround = b]
        IN LogicInv(m) /\ GoesOn(l, m) /\ m.gameRunning = l.gameRunning
    BY <2>3 DEF LogicInv, GameLogicState, WinnerCurrent, Restartable,
                TouchesOK, OneBounce, GoesOn
  <2> QED BY <2>4, <2>5
<1> QED BY <1>1, <1>2

LEMMA PauseAndServe ==
  ASSUME NEW l, LogicInv(l)
  PROVE  /\ LogicInv(onPause(l)) /\ LogicInv(onUnPause(l))
         /\ LogicInv(forgetError(l)) /\ LogicInv(onServe(l))
  BY DEF LogicInv, GameLogicState, WinnerCurrent, Restartable, TouchesOK,
         OneBounce, onPause, onUnPause, forgetError, onServe

(* The winner score() finds after a point for p, if there was none before:  *)
(* p, two points ahead, and never the other side.                          *)
LEMMA PointsMakeTheirWinner ==
  ASSUME NEW l \in GameLogicState, NEW m \in GameLogicState,
         WinnerCurrent(l), WinnerCurrent(m), l.winningPlayer = NO_PLAYER,
         m.rules = l.rules, m.scoreToWin = l.scoreToWin,
         NEW p \in Player, NEW n \in Nat,
         m.scores[p] = l.scores[p] + n,
         m.scores[other_side(p)] = l.scores[other_side(p)]
  PROVE  \/ m.winningPlayer = NO_PLAYER
         \/ /\ m.winningPlayer = p
            /\ m.scores[p] >= m.scores[other_side(p)] + 2
<1> DEFINE o == other_side(p)
<1>1. /\ l.scores \in [Player -> Nat] /\ m.scores \in [Player -> Nat]
      /\ l.scoreToWin \in Nat
  BY DEF GameLogicState
<1>2. /\ checkWin(l.scores, l.scoreToWin) = NO_PLAYER
      /\ m.winningPlayer = checkWin(m.scores, l.scoreToWin)
  <2>1. /\ winnerOf(l.rules, l.scores, l.scoreToWin) = checkWin(l.scores, l.scoreToWin)
        /\ winnerOf(l.rules, m.scores, l.scoreToWin) = checkWin(m.scores, l.scoreToWin)
    BY <1>1, WinnerOfIsCheckWin
  <2> QED BY <2>1 DEF WinnerCurrent
<1>3. o \in Player /\ o # p /\ other_side(o) = p
  BY OtherSide
<1>4. \A s : checkWin(s, l.scoreToWin) = NO_PLAYER
               => \A q \in Player : ~Leads(s, q, l.scoreToWin)
  BY DEF checkWin, Player, LEFT_PLAYER, RIGHT_PLAYER, NO_PLAYER
<1>5. \A s, q : checkWin(s, l.scoreToWin) = q /\ q # NO_PLAYER
               => q \in Player /\ Leads(s, q, l.scoreToWin)
  BY DEF checkWin, Player, LEFT_PLAYER, RIGHT_PLAYER, NO_PLAYER
<1>6. ~Leads(l.scores, o, l.scoreToWin)
  BY <1>2, <1>3, <1>4
<1>7. ~Leads(m.scores, o, l.scoreToWin)
  BY <1>1, <1>3, <1>6 DEF Leads
<1>8. CASE m.winningPlayer # NO_PLAYER
  <2>1. m.winningPlayer \in Player /\ Leads(m.scores, m.winningPlayer, l.scoreToWin)
    BY <1>2, <1>5, <1>8
  <2>2. m.winningPlayer = p
    BY <1>7, <2>1, OtherSide
  <2> QED BY <2>1, <2>2 DEF Leads
<1> QED BY <1>8
=============================================================================
