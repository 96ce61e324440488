------------------------------- MODULE MCLobby -------------------------------
(* Instances of Lobby for TLC. *)
EXTENDS Lobby, TLC

CONSTANTS alice, bob, carol

Two   == {alice, bob}
Three == {alice, bob, carol}

NoPasswords == {""}
Passwords   == {"", "secret"}

\* no player is treated differently from another
AnyPlayer == Permutations(Client)
=============================================================================
