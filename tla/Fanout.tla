------------------------------- MODULE Fanout -------------------------------
(***************************************************************************)
(* broadcast() and sendTo() of internal/engine/engine.go: the engine       *)
(* goroutine hands each snapshot to every subscriber's buffered channel    *)
(* without ever blocking, while the sessions receive at their own pace.    *)
(*                                                                         *)
(* A snapshot is its number.  sendTo is three selects, each of them one    *)
(* atomic step; a session may receive between any two of them.             *)
(*                                                                         *)
(* As in Engine.tla, some selects are preceded by faulty variants that no  *)
(* specification uses (README.md, "Mutants").                              *)
(***************************************************************************)
EXTENDS Naturals, Sequences

CONSTANTS
    Client,     \* the subscribers
    Cap,        \* subChanCap
    MaxFrames   \* bound: snapshots broadcast

ASSUME CapAssumption == Cap \in Nat \ {0}
ASSUME FramesAssumption == MaxFrames \in Nat

VARIABLES
    sent,   \* number of the newest snapshot
    todo,   \* subscribers the loop of broadcast has still to serve
    pc,     \* which select of sendTo comes next; "first" between two calls
    cur,    \* the subscriber sendTo is serving
    ch,     \* ch[c]: the frames in c's channel, oldest first
    got     \* got[c]: the last frame c received, 0 for none

vars == <<sent, todo, pc, cur, ch, got>>

Full(c) == Len(ch[c]) >= Cap

Init ==
    /\ sent = 0
    /\ todo = {}
    /\ pc = "first"
    /\ cur \in Client
    /\ ch = [c \in Client |-> <<>>]
    /\ got = [c \in Client |-> 0]

\* A broadcast starts: one snapshot for everybody, in the map's random order.
Broadcast ==
    /\ pc = "first"
    /\ todo = {}
    /\ sent < MaxFrames
    /\ sent' = sent + 1
    /\ todo' = Client
    /\ UNCHANGED <<pc, cur, ch, got>>

\* First select: send if there is room.
TrySendBlocking(c) ==
    /\ pc = "first"
    /\ c \in todo
    /\ ~Full(c)
    /\ cur' = c
    /\ ch' = [ch EXCEPT ![c] = Append(@, sent)]
    /\ todo' = todo \ {c}
    /\ UNCHANGED <<sent, pc, got>>
TrySendOrSkip(c) ==
    /\ pc = "first"
    /\ c \in todo
    /\ cur' = c
    /\ ch' = IF Full(c) THEN ch ELSE [ch EXCEPT ![c] = Append(@, sent)]
    /\ todo' = todo \ {c}
    /\ UNCHANGED <<sent, pc, got>>
TrySendServed(c) ==
    /\ pc = "first"
    /\ c \in todo
    /\ cur' = c
    /\ todo' = todo \ {c}
    /\ IF Full(c)
       THEN pc' = "drain" /\ UNCHANGED ch
       ELSE ch' = [ch EXCEPT ![c] = Append(@, sent)] /\ UNCHANGED pc
    /\ UNCHANGED <<sent, got>>
TrySend(c) ==
    /\ pc = "first"
    /\ c \in todo
    /\ cur' = c
    /\ IF Full(c)
       THEN pc' = "drain" /\ UNCHANGED <<ch, todo>>
       ELSE /\ ch' = [ch EXCEPT ![c] = Append(@, sent)]
            /\ todo' = todo \ {c}
            /\ UNCHANGED pc
    /\ UNCHANGED <<sent, got>>

\* Second select: drop the oldest frame, if the session has not emptied the channel.
DrainNothing ==
    /\ pc = "drain"
    /\ pc' = "retry"
    /\ UNCHANGED <<sent, todo, cur, ch, got>>
Drain ==
    /\ pc = "drain"
    /\ ch' = [ch EXCEPT ![cur] = IF @ = <<>> THEN @ ELSE Tail(@)]
    /\ pc' = "retry"
    /\ UNCHANGED <<sent, todo, cur, got>>

\* Third select: send if there is room, else give up on this frame.
Retry ==
    /\ pc = "retry"
    /\ ch' = IF Full(cur) THEN ch ELSE [ch EXCEPT ![cur] = Append(@, sent)]
    /\ todo' = todo \ {cur}
    /\ pc' = "first"
    /\ UNCHANGED <<sent, cur, got>>

\* waitForSnapshot of a session's program.
Receive(c) ==
    /\ ch[c] # <<>>
    /\ got' = [got EXCEPT ![c] = Head(ch[c])]
    /\ ch' = [ch EXCEPT ![c] = Tail(@)]
    /\ UNCHANGED <<sent, todo, pc, cur>>

Sending == Drain \/ Retry \/ \E c \in Client : TrySend(c)

Next == Broadcast \/ Sending \/ \E c \in Client : Receive(c)

Spec == Init /\ [][Next]_vars

\* The engine goroutine runs on, whether or not anybody reads.
EngineSpec == Spec /\ WF_vars(Sending)

-----------------------------------------------------------------------------
\* In the middle of a call of sendTo its subscriber has still to be served.
MidCall == pc # "first" => cur \in todo

\* Types, and that the second and the third select serve the subscriber the
\* loop of broadcast is at.
TypeOK ==
    /\ MidCall
    /\ sent \in 0 .. MaxFrames
    /\ todo \subseteq Client
    /\ pc \in {"first", "drain", "retry"}
    /\ cur \in Client
    /\ ch \in [Client -> Seq(1 .. MaxFrames)]
    /\ got \in [Client -> 0 .. MaxFrames]

\* A channel never holds more than its capacity, and the third select, the one
\* whose default would lose the new frame, always finds room: the engine is the
\* only sender, so nobody refills the slot the second select freed.
NewFrameFits ==
    /\ \A c \in Client : Len(ch[c]) <= Cap
    /\ pc = "retry" => ~Full(cur)

\* In every channel frames are in order, all newer than the last one received;
\* the frame being sent is not in it yet.
InOrder ==
    \A c \in Client :
        /\ \A i \in 1 .. Len(ch[c]) :
             /\ got[c] < ch[c][i]
             /\ c \in todo => ch[c][i] < sent
             /\ ch[c][i] <= sent
        /\ \A i, j \in 1 .. Len(ch[c]) : i < j => ch[c][i] < ch[c][j]
        /\ got[c] <= sent
        /\ c \in todo => got[c] < sent

\* "Drop-stale": what is dropped is never the newest frame.  A subscriber that
\* has been served has the newest snapshot, or it is the last in its channel.
NewestKept ==
    \A c \in Client \ todo :
        IF ch[c] = <<>> THEN got[c] = sent ELSE ch[c][Len(ch[c])] = sent

\* What "drop-stale" takes in all: room for the new frame, frames in order, and
\* the newest among them.
DropsOnlyStale == NewFrameFits /\ InOrder /\ NewestKept

\* A session that never reads does not stall the engine: every broadcast ends.
BroadcastEnds == (todo # {}) ~> (todo = {})
=============================================================================
