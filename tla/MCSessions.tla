----------------------------- MODULE MCSessions -----------------------------
(***************************************************************************)
(* Sessions.tla with two players.  One of them connects twice, which is    *)
(* what the registry and the order of unsubscribe and logout are for.      *)
(***************************************************************************)
EXTENDS Sessions, TLC

CONSTANTS p1, p2

MCPlayers == {p1, p2}
MCSessions == 1 .. 3
MCOwner == <<p1, p1, p2>>
=============================================================================
