------------------------------ MODULE MCFanout ------------------------------
(***************************************************************************)
(* Fanout.tla with two subscribers and a channel of two frames, enough for *)
(* a full, a partly read and an empty channel at each select of sendTo.    *)
(***************************************************************************)
EXTENDS Fanout

CONSTANTS c1, c2
MCClients == {c1, c2}

\* The program of c1 re-arms waitForSnapshot after each frame; c2 may stall.
OneReaderSpec == EngineSpec /\ WF_vars(Receive(c1))

\* "Drops the stale frame for that client only" (README.md:83): the stream of
\* the session that reads keeps LatestWins' promise although another stalls.
S1 == INSTANCE LatestWins WITH got <- got[c1]
ReaderStream == S1!Spec
=============================================================================
