----------------------------- MODULE LatestWins -----------------------------
(***************************************************************************)
(* What the snapshot stream promises one session, whatever buffering is    *)
(* behind it: frames are numbered in the order the engine publishes them;  *)
(* a session takes some of them, in that order and none twice; frames may  *)
(* be skipped, but a session that keeps reading does not miss the newest.  *)
(***************************************************************************)
EXTENDS Naturals

VARIABLES
    sent,   \* frames published so far; the newest is frame number sent
    got     \* the last frame the session took, 0 for none

Init == sent = 0 /\ got = 0

Publish == sent' = sent + 1 /\ UNCHANGED got

Take == got < sent /\ got' \in (got + 1) .. sent /\ UNCHANGED sent

Next == Publish \/ Take

vars == <<sent, got>>

Safety == Init /\ [][Next]_vars

Spec == Init /\ [][Next]_vars /\ WF_vars(Take)
=============================================================================
