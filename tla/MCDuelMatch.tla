------------------------------ MODULE MCDuelMatch ------------------------------
(* Values for the model checker. *)
EXTENDS DuelMatch

(* Every rule set is refereed: those that only count touches, and those      *)
(* that also keep state of their own or react to walls.                    *)
AllRules == RuleSet

(* The way back to the serve does not depend on the rules. *)
LiveRules == {"fallback"}
=============================================================================
