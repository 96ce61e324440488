----------------------------- MODULE OrderedLink -----------------------------
(* What the reliability layer of RakNet promises of the messages that are     *)
(* sent RELIABLE_ORDERED, which are all messages of the lobby and of a game   *)
(* but input and physics: each of them arrives, once and in the order in      *)
(* which they were sent, unless the connection breaks.  Several may arrive at *)
(* once, when the one that all the others waited for comes in.                *)
EXTENDS Naturals, Sequences, SequencesExt

CONSTANTS Peer, Message

VARIABLES sent,      \* what each peer has sent, in order
          arrived,   \* what of it the game at the other end has got
          broken     \* the connection has gone

linkVars == <<sent, arrived, broken>>

Init ==
    /\ sent    = [p \in Peer |-> <<>>]
    /\ arrived = [p \in Peer |-> <<>>]
    /\ broken  = FALSE

Send(p) ==
    /\ UNCHANGED <<arrived, broken>>
    /\ \E m \in Message: sent' = [sent EXCEPT ![p] = Append(@, m)]

Arrive(p) ==
    /\ ~broken
    /\ UNCHANGED <<sent, broken>>
    /\ \E n \in Len(arrived[p]) + 1 .. Len(sent[p]):
          arrived' = [arrived EXCEPT ![p] = SubSeq(sent[p], 1, n)]

Break ==
    /\ broken' = TRUE
    /\ UNCHANGED <<sent, arrived>>

Next == Break \/ \E p \in Peer: Send(p) \/ Arrive(p)

Spec == Init /\ [][Next]_linkVars /\ \A p \in Peer: WF_linkVars(Arrive(p))

ArrivesInOrder == \A p \in Peer: IsPrefix(arrived[p], sent[p])
=============================================================================
