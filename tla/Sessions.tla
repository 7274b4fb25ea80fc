------------------------------ MODULE Sessions ------------------------------
(***************************************************************************)
(* Sessions and the engine: SSH connections (internal/ssh/server.go), the  *)
(* one-session-per-key registry (internal/auth/identity.go), each          *)
(* session's Bubble Tea program (internal/tui/model.go) and the bounded    *)
(* inbox through which they reach the engine (internal/engine/engine.go).  *)
(*                                                                         *)
(* A session is two goroutines: its handler, which logs in, subscribes and *)
(* becomes the program; and a watcher that waits for the connection to     *)
(* end, unsubscribes and logs out.  Every send to the inbox blocks while   *)
(* the inbox is full.  The engine is reduced to the phases of RoundLoop:   *)
(* it reads the inbox in "idle", "betting" and "flying".                   *)
(*                                                                         *)
(* As in Engine.tla, some definitions are preceded by a faulty variant     *)
(* that no specification uses (README.md, "Mutants").                      *)
(***************************************************************************)
EXTENDS Naturals, Sequences

CONSTANTS
    Player,
    Session,      \* bound: the connections ever made; those of a key are
                  \* numbered in the order in which they log in
    Owner,        \* Owner[s]: whose key the connection s presents
    InboxCap,     \* capacity of e.inbox
    EngineFails   \* TRUE: the engine's SQL statements may fail

ASSUME OwnerAssumption == Session \subseteq Nat \ {0} /\ Owner \in [Session -> Player]
ASSUME InboxAssumption == InboxCap \in Nat \ {0}
ASSUME SwitchAssumption == EngineFails \in BOOLEAN

VARIABLES
    phase,    \* of the engine
    sub,      \* sub[p]: the session whose channel e.subs holds for p
    inbox,    \* commands on their way
    active,   \* players whose key is in auth.Manager.active
    conn,     \* connections that are open
    prog,     \* prog[s]: where the handler or the program of s is
    watch     \* watch[s]: where the watcher of s is

vars == <<phase, sub, inbox, active, conn, prog, watch>>

NoSession == 0    \* no subscription

\* late is the model's own: the engine cannot tell an Unsubscribe sent in time
\* from one sent by a program after its connection had ended.
Command ==
    [kind : {"subscribe"}, session : Session]
        \cup [kind : {"unsubscribe"}, session : Session, late : BOOLEAN]
        \cup [kind : {"play"}]

SendUnbounded(cmd) == inbox' = Append(inbox, cmd)
Send(cmd) == Len(inbox) < InboxCap /\ inbox' = Append(inbox, cmd)
Subscribe(s) == [kind |-> "subscribe", session |-> s]
Unsubscribe(s) == [kind |-> "unsubscribe", session |-> s, late |-> FALSE]
LateUnsubscribe(s) == [kind |-> "unsubscribe", session |-> s, late |-> TRUE]

Subscribed == {p \in Player : sub[p] # NoSession}

Init ==
    /\ phase = "idle"
    /\ sub = [p \in Player |-> NoSession]
    /\ inbox = <<>>
    /\ active = {}
    /\ conn = {}
    /\ prog = [s \in Session |-> "none"]
    /\ watch = [s \in Session |-> "none"]

-----------------------------------------------------------------------------
(* The handler.                                                            *)

\* Login's critical section.  A second session of a key is turned away.
IsNext(s) ==
    /\ prog[s] = "none"
    /\ \A t \in Session : t < s /\ Owner[t] = Owner[s] => prog[t] # "none"
LoginUnchecked(s) ==
    /\ IsNext(s)
    /\ active' = active \cup {Owner[s]}
    /\ conn' = conn \cup {s}
    /\ prog' = [prog EXCEPT ![s] = "login"]
    /\ UNCHANGED <<phase, sub, inbox, watch>>
Login(s) ==
    /\ IsNext(s)
    /\ IF Owner[s] \in active
       THEN /\ prog' = [prog EXCEPT ![s] = "gone"]
            /\ UNCHANGED <<active, conn>>
       ELSE /\ prog' = [prog EXCEPT ![s] = "login"]
            /\ active' = active \cup {Owner[s]}
            /\ conn' = conn \cup {s}
    /\ UNCHANGED <<phase, sub, inbox, watch>>

\* getOrCreate fails: the key is free again.
LoginFails(s) ==
    /\ prog[s] = "login"
    /\ active' = active \ {Owner[s]}
    /\ conn' = conn \ {s}
    /\ prog' = [prog EXCEPT ![s] = "gone"]
    /\ UNCHANGED <<phase, sub, inbox, watch>>

\* Login returns (whatever becomes of the daily credit), Subscribe sends, the
\* watcher starts and the program runs.
StartSession(s) ==
    /\ prog[s] = "login"
    /\ Send(Subscribe(s))
    /\ watch' = [watch EXCEPT ![s] = "waiting"]
    /\ prog' = [prog EXCEPT ![s] = "up"]
    /\ UNCHANGED <<phase, sub, active, conn>>

-----------------------------------------------------------------------------
(* The program.  It handles keys until it ends, those it had read before    *)
(* its connection ended included; the watcher may be ahead of it by then.  *)

\* A bet or a cashout: what it does is Engine.tla's business.
Play(s) ==
    /\ prog[s] = "up"
    /\ Send([kind |-> "play"])
    /\ UNCHANGED <<phase, sub, active, conn, prog, watch>>

\* q or ctrl+c: unsubFn, then tea.Quit.
Quit(s) ==
    /\ prog[s] = "up"
    /\ Send(IF s \in conn THEN Unsubscribe(s) ELSE LateUnsubscribe(s))
    /\ prog' = [prog EXCEPT ![s] = "quitting"]
    /\ UNCHANGED <<phase, sub, active, conn, watch>>

\* The program ends, because it quits or because its connection did; then
\* the SSH session ends and its client hangs up.
EndProgram(s) ==
    /\ prog[s] = "quitting" \/ (prog[s] = "up" /\ s \notin conn)
    /\ prog' = [prog EXCEPT ![s] = "gone"]
    /\ conn' = conn \ {s}
    /\ UNCHANGED <<phase, sub, inbox, active, watch>>

\* The connection is lost, at any time; a handler still logging in goes on.
Disconnect(s) ==
    /\ s \in conn
    /\ conn' = conn \ {s}
    /\ UNCHANGED <<phase, sub, inbox, active, prog, watch>>

-----------------------------------------------------------------------------
(* The watcher: unsubscribe, then log out.                                 *)

WatcherSilent(s) ==
    /\ watch[s] = "waiting"
    /\ s \notin conn
    /\ watch' = [watch EXCEPT ![s] = "leaving"]
    /\ UNCHANGED <<phase, sub, inbox, active, conn, prog>>
WatcherUnsubscribes(s) ==
    /\ watch[s] = "waiting"
    /\ s \notin conn
    /\ Send(Unsubscribe(s))
    /\ watch' = [watch EXCEPT ![s] = "leaving"]
    /\ UNCHANGED <<phase, sub, active, conn, prog>>

LogoutAtOnce(s) ==
    /\ watch[s] \in {"waiting", "leaving"}
    /\ s \notin conn
    /\ active' = active \ {Owner[s]}
    /\ watch' = [watch EXCEPT ![s] = IF @ = "leaving" THEN "done" ELSE @]
    /\ UNCHANGED <<phase, sub, inbox, conn, prog>>
Logout(s) ==
    /\ watch[s] = "leaving"
    /\ active' = active \ {Owner[s]}
    /\ watch' = [watch EXCEPT ![s] = "done"]
    /\ UNCHANGED <<phase, sub, inbox, conn, prog>>

-----------------------------------------------------------------------------
(* The engine: waitForSubscribers, runBetting, runFlying, runSettle.       *)

\* startRound opens the betting, unless its INSERT fails.
Begin == phase' = "betting" \/ (EngineFails /\ phase' = "idle")

\* waitForSubscribers: whatever is not a Subscribe is thrown away.
ReadIdleAny ==
    /\ phase = "idle"
    /\ inbox # <<>>
    /\ inbox' = Tail(inbox)
    /\ sub' = IF Head(inbox).kind = "subscribe"
              THEN [sub EXCEPT ![Owner[Head(inbox).session]] = Head(inbox).session] ELSE sub
    /\ Begin
    /\ UNCHANGED <<active, conn, prog, watch>>
ReadIdleWaits ==
    /\ phase = "idle"
    /\ inbox # <<>>
    /\ Head(inbox).kind = "subscribe"
    /\ inbox' = Tail(inbox)
    /\ sub' = [sub EXCEPT ![Owner[Head(inbox).session]] = Head(inbox).session]
    /\ Begin
    /\ UNCHANGED <<active, conn, prog, watch>>
ReadIdle ==
    /\ phase = "idle"
    /\ inbox # <<>>
    /\ inbox' = Tail(inbox)
    /\ IF Head(inbox).kind = "subscribe"
       THEN sub' = [sub EXCEPT ![Owner[Head(inbox).session]] = Head(inbox).session] /\ Begin
       ELSE UNCHANGED <<sub, phase>>
    /\ UNCHANGED <<active, conn, prog, watch>>

\* handleCmd.  Unsubscribe names the player, not the subscription.
Handled(cmd) ==
    CASE cmd.kind = "subscribe" -> [sub EXCEPT ![Owner[cmd.session]] = cmd.session]
      [] cmd.kind = "unsubscribe" -> [sub EXCEPT ![Owner[cmd.session]] = NoSession]
      [] OTHER -> sub

ReadServing ==
    /\ phase \in {"betting", "flying"}
    /\ inbox # <<>>
    /\ inbox' = Tail(inbox)
    /\ sub' = Handled(Head(inbox))
    /\ UNCHANGED <<phase, active, conn, prog, watch>>

\* The betting timer, the crash, and the end of the sleep in runSettle.
TakeOff == phase = "betting" /\ (phase' = "flying" \/ (EngineFails /\ phase' = "idle"))
Crash == phase = "flying" /\ phase' = "settling"
Resume ==
    /\ phase = "settling"
    /\ \/ Subscribed # {} /\ Begin
       \/ (Subscribed = {} \/ EngineFails) /\ phase' = "idle"
Timer == (TakeOff \/ Crash \/ Resume) /\ UNCHANGED <<sub, inbox, active, conn, prog, watch>>

Read == ReadIdle \/ ReadServing

-----------------------------------------------------------------------------
SessionStep(s) ==
    \/ Login(s) \/ LoginFails(s) \/ StartSession(s)
    \/ Play(s) \/ Quit(s) \/ EndProgram(s) \/ Disconnect(s)
    \/ WatcherUnsubscribes(s) \/ Logout(s)

Next == Read \/ Timer \/ \E s \in Session : SessionStep(s)

Spec == Init /\ [][Next]_vars

\* What the goroutines of a session do without anybody pressing a key.
OwnStep(s) == StartSession(s) \/ EndProgram(s) \/ WatcherUnsubscribes(s) \/ Logout(s)

\* The engine reads its inbox in every phase that has a select on it, and its
\* timers fire.  A send blocked on a full inbox is served in turn (Go queues
\* the senders of a channel), so one that keeps finding room gets it: strong
\* fairness.  Each of the own steps happens once in a session, so that fairness
\* of their disjunction is fairness of each.  Nobody is obliged to press a key
\* or to hang up.
FairSpec ==
    /\ Spec
    /\ SF_vars(Read) /\ WF_vars(Timer)
    /\ \A s \in Session : SF_vars(OwnStep(s))

-----------------------------------------------------------------------------
\* Types, and the inbox is never over its capacity.
TypeOK ==
    /\ phase \in {"idle", "betting", "flying", "settling"}
    /\ sub \in [Player -> Session \cup {NoSession}]
    /\ inbox \in Seq(Command) /\ Len(inbox) <= InboxCap
    /\ active \subseteq Player
    /\ conn \subseteq Session
    /\ prog \in [Session -> {"none", "login", "up", "quitting", "gone"}]
    /\ watch \in [Session -> {"none", "waiting", "leaving", "done"}]

\* From Login to Logout.
LoggedIn(s) == prog[s] = "login" \/ watch[s] \in {"waiting", "leaving"}

\* A key is in the registry exactly while one session of it, and only one, is
\* logged in: nobody plays twice, and nobody is locked out for good.
OneSessionPerKey ==
    /\ \A s, t \in Session : LoggedIn(s) /\ LoggedIn(t) /\ Owner[s] = Owner[t] => s = t
    /\ active = {Owner[s] : s \in {t \in Session : LoggedIn(t)}}

Queued(cmd) == \E i \in 1 .. Len(inbox) : inbox[i] = cmd

\* A subscription never outlives its session: whoever is in e.subs has a
\* watcher that will unsubscribe, or the Unsubscribe is already in the inbox.
\* (Unless a statement failed: an engine that idles throws the Unsubscribe away.)
NoDeadSubscription ==
    \A p \in Player, s \in Session :
        sub[p] = s => \/ watch[s] = "waiting"
                      \/ Queued(Unsubscribe(s))

\* Nobody else's departure takes a session's snapshots away: while a session is
\* up and connected, no command that the engine reads ends its subscription
\* (an earlier connection of the key unsubscribed before it logged out, and so
\* before this one subscribed).  There is one exception, and the model has it:
\* a q that the program of the earlier connection handled after that connection
\* had ended unsubscribes whoever plays under the key by then.
TooLate(cmd) == cmd.kind = "unsubscribe" /\ cmd.late
Plays(s) == prog[s] = "up" /\ s \in conn /\ sub[Owner[s]] = s
StaysSubscribed ==
    [][\A s \in Session :
           Plays(s) /\ ~Queued(Subscribe(s)) /\ sub'[Owner[s]] # s
               => TooLate(Head(inbox))]_vars

SessionOf(p) == {s \in Session : Owner[s] = p /\ LoggedIn(s)}

\* A player whose connection ended is logged out, and so can come back,
\* whatever the inbox is full of.
Departs == \A p \in Player : (p \in active /\ SessionOf(p) \cap conn = {}) ~> p \notin active

\* Every login ends in a subscription, however full the inbox and whatever the
\* phase, unless it fails or the player leaves.
GetsServed ==
    \A p \in Player :
        (\E s \in SessionOf(p) : prog[s] = "login") ~> (sub[p] \in SessionOf(p) \/ p \notin active)

\* "The engine pauses when nobody is connected" (README.md:26): left alone it
\* comes to rest, at most a round or so later.
Deserted == conn = {} /\ \A s \in Session : prog[s] \in {"none", "gone"}
ComesToRest == <>[]Deserted => <>[](phase = "idle" /\ Subscribed = {})

\* The sessions see the cycle of RoundLoop.tla.
Loop == INSTANCE RoundLoop WITH audience <- Subscribed
LoopSpec == Loop!Spec
=============================================================================
