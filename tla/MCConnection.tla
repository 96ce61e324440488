----------------------------- MODULE MCConnection -----------------------------
(* Instances of Connection: one client and a server for one player.           *)
EXTENDS Connection

CONSTANT c1

Clients == {c1}

Plan(requests, others, accepts, stops, r) ==
    [requests |-> requests, others |-> others, accepts |-> accepts,
     stops |-> stops, revivals |-> r]

\* A client that leaves or crashes, and comes back from the dead with a late
\* question; a server that refuses; one that ends; one that is full; one with
\* no place for a stranger; a refusal that meets a client that leaves.
EveryPlan == {
    Plan(2, 0, {TRUE}, {c1}, 0),
    Plan(1, 0, BOOLEAN, {}, 1),
    Plan(1, 0, {TRUE}, {"server"}, 1),
    Plan(1, 1, {TRUE}, {}, 0),
    Plan(1, 2, {TRUE}, {}, 0),
    Plan(1, 0, BOOLEAN, {c1}, 0)}

\* One attempt, and nobody who leaves.
Quiet == {Plan(1, 0, {TRUE}, {}, 0)}
===============================================================================
