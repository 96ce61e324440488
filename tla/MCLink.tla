------------------------------- MODULE MCLink -------------------------------
(* Instances of ReliabilityLayer for TLC. *)
EXTENDS ReliabilityLayer

Msg(kind, priority, parts) ==
    [kind |-> kind, priority |-> priority, parts |-> parts]

High  == Msg("RELIABLE_ORDERED", "HIGH", 1)
Low   == Msg("RELIABLE_ORDERED", "LOW", 1)
Large == Msg("RELIABLE_ORDERED", "HIGH", 2)
Input == Msg("UNRELIABLE_SEQUENCED", "HIGH", 1)

Load(inOrder, client, server) ==
    [inOrder  |-> inOrder,
     messages |-> [p \in Peer |-> IF p = "client" THEN client ELSE server]]

Mixed == {Load(TRUE,  <<High, High, High, High>>, <<>>),
          Load(TRUE,  <<Low, Large>>, <<High>>),
          Load(FALSE, <<Input, High, Input, High>>, <<>>)}

\* two datagrams to a client that has just been started
Welcome == {Load(TRUE, <<>>, <<High, High, High, High>>)}

\* more than a window, in two datagrams that overtake each other
Burst == {Load(FALSE, <<High, High, High>>, <<>>)}
=============================================================================
