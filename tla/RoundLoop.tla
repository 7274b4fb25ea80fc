----------------------------- MODULE RoundLoop -----------------------------
(***************************************************************************)
(* The cycle of the engine as its sessions know it (README.md, "Game       *)
(* loop"): the phase and who is subscribed.  It promises when a round may  *)
(* begin: for somebody who subscribes while the engine idles, or after a   *)
(* settlement when somebody is subscribed, and at no other time.           *)
(*                                                                         *)
(* Engine.tla implements this, with the ledger; Sessions.tla implements it *)
(* too, with the inbox and the sessions behind it.                         *)
(***************************************************************************)
EXTENDS Naturals

CONSTANT Player

VARIABLES
    phase,      \* "idle", "betting", "flying" or "settling"
    audience    \* the players in e.subs

Init == phase = "idle" /\ audience = {}

\* A round begins, or its INSERT fails and the engine idles.
Begin == phase' \in {"betting", "idle"}

Wake(p) == phase = "idle" /\ audience' = audience \cup {p} /\ Begin

Serving == phase \in {"betting", "flying"} /\ UNCHANGED phase
Join(p) == Serving /\ audience' = audience \cup {p}
Leave(p) == Serving /\ audience' = audience \ {p}

TakeOff == phase = "betting" /\ phase' = "flying" /\ UNCHANGED audience
Crash == phase = "flying" /\ phase' = "settling" /\ UNCHANGED audience
Again == phase = "settling" /\ audience # {} /\ Begin /\ UNCHANGED audience
Pause == phase = "settling" /\ phase' = "idle" /\ UNCHANGED audience
Abort == phase = "betting" /\ phase' = "idle" /\ UNCHANGED audience
Restart == phase' = "idle" /\ audience' = {}

Next ==
    \/ \E p \in Player : Wake(p) \/ Join(p) \/ Leave(p)
    \/ TakeOff \/ Crash \/ Again \/ Pause \/ Abort \/ Restart

vars == <<phase, audience>>
Spec == Init /\ [][Next]_vars
=============================================================================
