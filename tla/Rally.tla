-------------------------------- MODULE Rally --------------------------------
(***************************************************************************)
(* What a match promises its players, whatever the frame rate, the physics *)
(* and the rule script: rallies are served, played and lost one after the  *)
(* other; only a lost rally (or a bonus the rules pay during one) changes  *)
(* the score; the one who did not lose it serves next; and the match is    *)
(* over, for good, once the last scorer leads by two.                      *)
(*                                                                         *)
(* DuelMatch implements this specification.                                *)
(***************************************************************************)
EXTENDS Integers

CONSTANTS
  Side,      \* the two players
  None,      \* nobody
  Points,    \* what a lost rally may be worth
  Bonuses    \* what a side may earn while the rally goes on

VARIABLES tally, server, phase, winner

rallyVars == <<tally, server, phase, winner>>

Init ==
  /\ tally = [p \in Side |-> 0]
  /\ server = None
  /\ phase = "serve"
  /\ winner = None

(* The server plays the ball. *)
FirstTouch ==
  /\ phase = "serve"
  /\ phase' = "play"
  /\ UNCHANGED <<tally, server, winner>>

(* After a point for p the match may be over, in favour of p only. *)
Earn(p, n) ==
  /\ winner = None
  /\ tally' = [tally EXCEPT ![p] = @ + n]
  /\ \/ winner' = None
     \/ winner' = p /\ \A q \in Side \ {p} : tally'[p] >= tally'[q] + 2

(* The others lose the rally to p, who serves next: at once, when the ball  *)
(* already lies still, or once it does.                                    *)
Win(p) ==
  /\ phase \in {"serve", "play"}
  /\ \E n \in Points : Earn(p, n)
  /\ server' = p
  /\ phase' \in {"dead", "serve"}

Bonus(p) ==
  /\ phase = "play"
  /\ \E n \in Bonuses : Earn(p, n)
  /\ UNCHANGED <<server, phase>>

NextServe ==
  /\ phase = "dead"
  /\ phase' = "serve"
  /\ UNCHANGED <<tally, server, winner>>

Next ==
  \/ FirstTouch
  \/ \E p \in Side : Win(p) \/ Bonus(p)
  \/ NextServe

Spec == Init /\ [][Next]_rallyVars
=============================================================================
