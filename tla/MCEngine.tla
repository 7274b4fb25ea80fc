------------------------------ MODULE MCEngine ------------------------------
(***************************************************************************)
(* Engine.tla on a small instance.  The curve is the code's own first      *)
(* ticks.  Crash points: the floor of sampleCrash, which the first tick    *)
(* overshoots, and one between two ticks.  Targets: one the first tick     *)
(* passes, and one that falls due on the very tick of the crash.           *)
(***************************************************************************)
EXTENDS EngineProps, TLC

CONSTANTS p1, p2

MCPlayers == {p1, p2}
MCCurve == 0 :> 100 @@ 1 :> 107 @@ 2 :> 115 @@ 3 :> 123
Symmetry == Permutations(MCPlayers)
=============================================================================
