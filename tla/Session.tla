------------------------------- MODULE Session -------------------------------
(* What a connection attempt is for the game that made it: it is answered,    *)
(* by a connection or by a failure, and what has failed or ended is over for  *)
(* good.                                                                      *)
CONSTANT Client

VARIABLE phase   \* of the attempt of each client

Init == phase = [c \in Client |-> "idle"]

Begin(c) ==
    /\ phase[c] = "idle"
    /\ phase' = [phase EXCEPT ![c] = "asking"]

Open(c) ==
    /\ phase[c] = "asking"
    /\ phase' = [phase EXCEPT ![c] = "open"]

Fail(c) ==
    /\ phase[c] = "asking"
    /\ phase' = [phase EXCEPT ![c] = "failed"]

Close(c) ==
    /\ phase[c] = "open"
    /\ phase' = [phase EXCEPT ![c] = "closed"]

Next == \E c \in Client: Begin(c) \/ Open(c) \/ Fail(c) \/ Close(c)

Answer(c) == Open(c) \/ Fail(c)

Spec == Init /\ [][Next]_phase /\ \A c \in Client: WF_phase(Answer(c))
=============================================================================
