-------------------------------- MODULE Tables --------------------------------
(***************************************************************************)
(* What a lobby promises, whatever the network and the players do: a       *)
(* player is away, waiting, sitting at one table (his own or somebody      *)
(* else's) or playing.  A table is there as long as its host sits at it.   *)
(* Only a host starts a match, and only with somebody who sits at his      *)
(* table; everybody else at the table is waiting again.                    *)
(*                                                                         *)
(* Lobby implements this specification.                                    *)
(***************************************************************************)
CONSTANTS Person, Away, Waiting, Playing

VARIABLE seat   \* seat[p] = h: p sits at the table of h

Init == seat = [p \in Person |-> Away]

Here(p) == seat[p] \notin {Away, Playing}

(* p gives up the seat, and with it the table if it is p's own; p goes on  *)
(* to another state.                                                       *)
StandUp(p, next) ==
  [q \in Person |-> IF q = p THEN next
                    ELSE IF seat[q] = p /\ seat[p] = p THEN Waiting ELSE seat[q]]

Arrive(p) ==
  /\ seat[p] = Away
  /\ \E place \in {Waiting} \cup {h \in Person : seat[h] = h} :
       seat' = [seat EXCEPT ![p] = place]

Depart(p) == seat' = StandUp(p, Away)

Leave(p) == Here(p) /\ seat' = StandUp(p, Waiting)

OpenTable(p) == Here(p) /\ seat' = StandUp(p, p)

SitDown(p, h) == Here(p) /\ h # p /\ seat[h] = h /\ seat' = StandUp(p, h)

StartMatch(h, g) ==
  /\ g # h /\ seat[h] = h /\ seat[g] = h
  /\ seat' = [q \in Person |-> IF q \in {g, h} THEN Playing
                               ELSE IF seat[q] = h THEN Waiting ELSE seat[q]]

Next ==
  \E p \in Person :
    \/ Arrive(p) \/ Depart(p) \/ Leave(p) \/ OpenTable(p)
    \/ \E q \in Person : SitDown(p, q) \/ StartMatch(p, q)

Spec == Init /\ [][Next]_seat
=============================================================================
