------------------------------- MODULE Replay -------------------------------
(***************************************************************************)
(* A match is recorded (ReplayRecorder, driven by LocalGameState), loaded   *)
(* (ReplayLoader_V2X) and watched (ReplayPlayer, driven by ReplayState).    *)
(*                                                                         *)
(* Abstractions.  A match is deterministic: its state is the sequence of    *)
(* the frames it has gone through since it was new, a frame being the       *)
(* input of both players.  Two different sequences are different states.    *)
(* (The variables of a rule script are not part of a saved state, so this   *)
(* holds for the rules without variables.)  A DuelMatch that was reset has  *)
(* a new PhysicWorld without the event callback; its referee no longer      *)
(* hears of contacts, and its frames are Unheard.                           *)
(***************************************************************************)
EXTENDS Integers, Sequences, FiniteSets

CONSTANTS
  Input,         \* what the two players press in a frame
  Idle,          \* nothing
  Unheard,       \* a frame whose contacts the referee does not hear of
  REPLAY_SAVEPOINT_PERIOD,
  FillSteps,     \* idle frames that finalize appends (75)
  StepsPerCall,  \* frames one gotoPlayingPosition simulates (100)
  BarWidth,      \* the progress bar is that wide (700)
  BarMargin,     \* and reacts to clicks that far to its left (5)
  NormalSpeed,   \* mSpeedValue that plays one frame in a frame (8)
  MaxSpeed,      \* the fastest one (64)
  MaxFrames,     \* bound: frames of the match that is recorded
  MaxClicks      \* bound: what the user does while he watches

ASSUME InputAssumption  == Idle \in Input /\ Unheard \notin Input
ASSUME PeriodAssumption ==
  /\ REPLAY_SAVEPOINT_PERIOD \in Nat \ {0} /\ FillSteps \in Nat /\ StepsPerCall \in Nat \ {0}
  /\ FillSteps < REPLAY_SAVEPOINT_PERIOD
ASSUME BarAssumption    ==
  /\ BarWidth \in Nat \ {0} /\ BarMargin \in Nat
  /\ BarMargin * (MaxFrames + FillSteps + 1) <= BarWidth * REPLAY_SAVEPOINT_PERIOD
ASSUME SpeedAssumption  == NormalSpeed \in Nat \ {0} /\ MaxSpeed \in Nat /\ NormalSpeed <= MaxSpeed
ASSUME BoundAssumption  == MaxFrames \in Nat /\ MaxClicks \in Nat

VARIABLES
  phase,       \* "game" until a replay is saved and loaded, then "replay"
  game,        \* the match that is recorded
  points,      \* rallies it has decided
  mWinner,     \* somebody has won it
  recorder,    \* LocalGameState::mRecorder, later what the loader has read
  match,       \* ReplayState::mMatch
  mPosition,   \* of the ReplayPlayer
  mPositionJump, mPaused, mSpeedValue, mSpeedTimer,  \* of the ReplayState
  tick,        \* alternates with every frame of a replay
  clicks       \* clicks so far (only for the bound)

recording == <<game, points, mWinner, recorder>>
speed     == <<mSpeedValue, mSpeedTimer>>
vars      == <<phase, recording, match, mPosition, mPositionJump, mPaused, speed, tick, clicks>>

-----------------------------------------------------------------------------
(* DuelMatch, as far as replays are concerned. *)

(* The loader's view of the recording; positions are counted from 0. *)
mLength       == Len(recorder.mSaveData)
getInputAt(p) == recorder.mSaveData[p + 1]

NewMatch == [frames |-> <<>>, deaf |-> FALSE]

(* The match goes through the frames of a recording from one to another. *)
matchSteps(m, from, to) ==
  [m EXCEPT !.frames = @ \o [i \in 1..to - from + 1 |->
                               IF m.deaf THEN Unheard ELSE getInputAt(from + i - 1)]]

setState(m, state) == [m EXCEPT !.frames = state]

reset(m) == [frames |-> <<>>, deaf |-> TRUE]

-----------------------------------------------------------------------------
(* ReplayRecorder. *)

\* the input of the frame that led to a state
lastInput(state) == IF state = <<>> THEN Idle ELSE state[Len(state)]

\* mutated: a point does not make a save point; a save point counts the next frame
isDuePeriodically(r, score) == Len(r.mSaveData) % REPLAY_SAVEPOINT_PERIOD = 0
savePointAfter(r, state)    == [step |-> Len(r.mSaveData) + 1, state |-> state]

savePoint(r, state) == [step |-> Len(r.mSaveData), state |-> state]

isDue(r, score) ==
  Len(r.mSaveData) % REPLAY_SAVEPOINT_PERIOD = 0 \/ r.mEndScore # score

record(r, state, score) ==
  [mSaveData   |-> Append(r.mSaveData, lastInput(state)),
   mSavePoints |-> IF isDue(r, score)
                   THEN Append(r.mSavePoints, savePoint(r, state))
                   ELSE r.mSavePoints,
   mEndScore   |-> score]

finalize(r) == [r EXCEPT !.mSaveData = @ \o [i \in 1..FillSteps |-> Idle]]

-----------------------------------------------------------------------------
(* ReplayLoader_V2X.  Save points are counted from 0. *)

SavePoints     == 0..Len(recorder.mSavePoints) - 1
stepOf(i)      == recorder.mSavePoints[i + 1].step
stateAt(i)     == recorder.mSavePoints[i + 1].state

NoSavePoint == -1

(* C++ divides towards zero; by BarAssumption nobody asks for a position so   *)
(* far before the start that the guess is negative (it takes 105000 frames).  *)
firstGuess(target) == IF target < 0 THEN -((-target) \div REPLAY_SAVEPOINT_PERIOD) ELSE target \div REPLAY_SAVEPOINT_PERIOD

(* From there on to the right, until the next save point is too far. *)
getSavePoint(target) ==
  IF firstGuess(target) \notin SavePoints THEN NoSavePoint
  ELSE CHOOSE i \in SavePoints :
         /\ i >= firstGuess(target)
         /\ i + 1 \in SavePoints => stepOf(i + 1) > target
         /\ \A j \in SavePoints : firstGuess(target) < j /\ j <= i => stepOf(j) <= target

-----------------------------------------------------------------------------
(* ReplayPlayer, as operators on its position and the match it drives. *)

endOfFile(p) == p >= mLength

isSavePoint(p) == getSavePoint(p) # NoSavePoint /\ stepOf(getSavePoint(p)) = p

(* play, n times over.  Every call takes the position further, the match     *)
(* only up to the last input; at a save point the match is set to the saved  *)
(* state, so what counts is the last one that is passed.                    *)
plays(r, n) ==
  LET end    == IF r.position + n < mLength THEN r.position + n ELSE mLength - 1
      passed == {p \in r.position + 1..end : isSavePoint(p)}
      from   == IF passed = {} THEN r.position
                ELSE CHOOSE p \in passed : \A q \in passed : q <= p
      known  == IF passed = {} THEN r.match ELSE setState(r.match, stateAt(getSavePoint(from)))
  IN [position |-> r.position + n, match |-> matchSteps(known, from + 1, end)]

\* mutated: also to where the player already was
alwaysThere(r, target, step) == TRUE

isNearer(r, target, step) == target < r.position \/ step > r.position

jumpBack(r, target) ==
  LET sp == getSavePoint(target)
  IN IF sp # NoSavePoint /\ isNearer(r, target, stepOf(sp))
     THEN [position |-> stepOf(sp), match |-> setState(r.match, stateAt(sp))]
     ELSE r

startAgain(r, target) ==
  IF target < r.position THEN [position |-> 0, match |-> reset(r.match)] ELSE r

(* The frames from a position to the target, or to the end of the file: a    *)
(* target that lies behind is never met on the way.                        *)
framesTo(p, target) ==
  IF endOfFile(p) THEN 0 ELSE IF p <= target THEN target - p ELSE mLength - p

(* The player after one call, and whether it says that it is there: it looks *)
(* before each frame, but not after the last one.                          *)
gotoPlayingPosition(r, target) ==
  LET start  == startAgain(jumpBack(r, target), target)
      needed == framesTo(start.position, target)
  IN [player |-> plays(start, IF needed < StepsPerCall THEN needed ELSE StepsPerCall),
      there  |-> needed < StepsPerCall]

-----------------------------------------------------------------------------

(* mEndScore is not initialised by the recorder. *)
Init ==
  /\ phase = "game"
  /\ game = <<>> /\ points = 0 /\ mWinner = FALSE
  /\ recorder \in [mSaveData : {<<>>}, mSavePoints : {<<>>}, mEndScore : 0..1]
  /\ match = NewMatch
  /\ mPosition = 0
  /\ mPositionJump = -1
  /\ mPaused = FALSE
  /\ mSpeedValue = NormalSpeed
  /\ mSpeedTimer = 0
  /\ tick = FALSE
  /\ clicks = 0

replay == <<match, mPosition, mPositionJump, mPaused, speed, tick, clicks>>

(* A frame of LocalGameState: it records the state, then the match goes on,  *)
(* and if that decides the match, the state is recorded once more.          *)
GameFrame(input, point, won) ==
  /\ phase = "game" /\ ~mWinner
  /\ Len(game) < MaxFrames
  /\ won => point
  /\ game' = Append(game, input)
  /\ points' = IF point THEN points + 1 ELSE points
  /\ mWinner' = won
  /\ LET before == record(recorder, game, points)
     IN recorder' = IF won THEN finalize(record(before, game', points')) ELSE before
  /\ UNCHANGED <<phase, replay>>

(* The replay is saved, during a pause or at the end, and watched.  A file   *)
(* without input is refused by the loader.                                  *)
Watch ==
  /\ phase = "game"
  /\ recorder.mSaveData # <<>>
  /\ phase' = "replay"
  /\ UNCHANGED <<recording, replay>>

player == [position |-> mPosition, match |-> match]

MoveTo(r) == mPosition' = r.position /\ match' = r.match

(* ReplayState::step_impl ... *)
Tick ==
  /\ phase = "replay"
  /\ mPositionJump # -1 \/ ~mPaused
  /\ tick' = ~tick

(* ... in a frame in which it looks for a position ... *)
Jump ==
  /\ Tick /\ mPositionJump # -1
  /\ LET result == gotoPlayingPosition(player, mPositionJump)
     IN /\ MoveTo(result.player)
        /\ mPositionJump' = IF result.there THEN -1 ELSE mPositionJump
  /\ UNCHANGED <<phase, recording, mPaused, speed, clicks>>

(* ... and in one in which it plays. *)
Play ==
  /\ Tick /\ mPositionJump = -1
  /\ LET n == mSpeedTimer \div NormalSpeed
     IN /\ MoveTo(plays(player, n))
        /\ mPaused' = (n > 0 /\ endOfFile(mPosition'))
        /\ mSpeedTimer' = (mSpeedTimer % NormalSpeed) + mSpeedValue
  /\ UNCHANGED <<phase, recording, mPositionJump, mSpeedValue, clicks>>

Frame == Jump \/ Play

Click ==
  /\ phase = "replay"
  /\ clicks < MaxClicks
  /\ clicks' = clicks + 1
  /\ UNCHANGED <<phase, recording, match, mPosition, mSpeedTimer, tick>>

(* The positions a click on the bar can mean: (x / BarWidth) * mLength, cut   *)
(* off towards zero, for x from -BarMargin to BarWidth (both exclusive).     *)
Targets == {p \in -mLength..mLength - 1 : p < 0 => -p * BarWidth < BarMargin * mLength}

ClickBar ==
  /\ Click
  /\ mPositionJump' \in Targets
  /\ UNCHANGED <<mPaused, mSpeedValue>>

ClickPause ==
  /\ Click
  /\ mPaused' = ~mPaused
  /\ mPositionJump' = IF mPaused /\ endOfFile(mPosition) THEN 0 ELSE mPositionJump
  /\ UNCHANGED mSpeedValue

ClickFaster ==
  /\ Click
  /\ mSpeedValue' = IF 2 * mSpeedValue > MaxSpeed THEN MaxSpeed ELSE 2 * mSpeedValue
  /\ UNCHANGED <<mPaused, mPositionJump>>

\* mutated: down to nothing
halfSpeed == mSpeedValue \div 2

slower == IF mSpeedValue = 1 THEN 1 ELSE mSpeedValue \div 2

ClickSlower ==
  /\ Click
  /\ mSpeedValue' = slower
  /\ UNCHANGED <<mPaused, mPositionJump>>

(* After the end, if the match has a winner (which is left open here). *)
ShowAgain ==
  /\ Click
  /\ endOfFile(mPosition)
  /\ mPaused' = FALSE
  /\ mPositionJump' = 0
  /\ UNCHANGED mSpeedValue

Next ==
  \/ \E input \in Input, point, won \in BOOLEAN : GameFrame(input, point, won)
  \/ Watch \/ Frame
  \/ ClickBar \/ ClickPause \/ ClickFaster \/ ClickSlower \/ ShowAgain

Spec == Init /\ [][Next]_vars

(* The frames go on (only they tick); nobody has to click, or to watch a     *)
(* replay at all.                                                          *)
FairSpec == Spec /\ WF_tick(Tick)

-----------------------------------------------------------------------------
(* Properties. *)

Position == -1..MaxFrames + FillSteps + 1 + MaxSpeed

TypeOK ==
  /\ phase \in {"game", "replay"}
  /\ game \in Seq(Input)
  /\ points \in 0..MaxFrames /\ mWinner \in BOOLEAN
  /\ recorder.mSaveData \in Seq(Input)
  /\ recorder.mSavePoints \in Seq([step : Nat, state : Seq(Input)])
  /\ recorder.mEndScore \in Nat
  /\ match \in [frames : Seq(Input \cup {Unheard}), deaf : BOOLEAN]
  /\ mPosition \in Nat
  /\ mPositionJump \in Int
  /\ mPaused \in BOOLEAN
  /\ mSpeedValue \in 1..MaxSpeed /\ mSpeedTimer \in 0..NormalSpeed + MaxSpeed
  /\ tick \in BOOLEAN /\ clicks \in 0..MaxClicks

(* The state the game had after p frames; after its end nobody presses       *)
(* anything.                                                               *)
Recorded(p) == SubSeq(game \o [i \in 1..FillSteps |-> Idle], 1, p)

Shown == IF mPosition < mLength THEN mPosition ELSE mLength - 1

ShowsTheGame == phase = "replay" => match.frames = Recorded(Shown)

(* Whatever is played, skipped or looked for, in whatever order: at position *)
(* p the replay shows the very state the game was in after p frames, unless  *)
(* the match had to be reset.                                              *)
ReplayIsFaithful == ~match.deaf => ShowsTheGame

(* IReplayLoader.h:109-111 in effect: the loader finds the last save point    *)
(* that is not after the position, although it starts to look at a guess    *)
(* and there are none in the idle frames of the end.                        *)
FindsLastSavePoint ==
  phase = "replay" =>
    \A p \in 0..mLength - 1 :
      LET i == getSavePoint(p)
      IN /\ i # NoSavePoint
         /\ stepOf(i) <= p
         /\ \A j \in SavePoints : stepOf(j) <= p => stepOf(j) <= stepOf(i)

(* Looking for a position that exists comes to an end, or the user looks for  *)
(* one before the start.                                                   *)
JumpEnds == mPositionJump >= 0 ~> mPositionJump < 0

(* A replay that runs comes to its end, unless the user stops it or looks    *)
(* for a position before its start.                                        *)
ReplayEnds == phase = "replay" /\ ~mPaused ~> (mPaused \/ mPositionJump < -1)
=============================================================================
