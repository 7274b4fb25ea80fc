--------------------------- MODULE SessionsProofs ---------------------------
(***************************************************************************)
(* Proofs about Sessions.tla for every set of players and connections and  *)
(* every capacity of the inbox: the registry keeps one session per key,    *)
(* subscriptions and sessions agree, and the sessions see the cycle of     *)
(* RoundLoop.tla.                                                          *)
(***************************************************************************)
EXTENDS Sessions, TLAPS

-----------------------------------------------------------------------------
(* The inductive invariant.                                                *)

\* A watcher starts with the program, and waits while its connection is open.
Watched ==
    \A s \in Session :
        /\ prog[s] \in {"none", "login"} => watch[s] = "none"
        /\ prog[s] = "up" /\ s \in conn => watch[s] = "waiting"

\* inbox[i] is followed by cmd.
Later(i, cmd) == \E j \in 1 .. Len(inbox) : i < j /\ inbox[j] = cmd

Concerns(cmd, p) == cmd.kind # "play" /\ Owner[cmd.session] = p /\ ~TooLate(cmd)

\* Whatever other commands of its player are on their way, those sent too late
\* apart, the Subscribe of a session that is up and connected comes last.
SubscribedLast ==
    \A s \in Session : prog[s] = "up" /\ s \in conn =>
        \A i \in 1 .. Len(inbox) :
            Concerns(inbox[i], Owner[s]) /\ inbox[i] # Subscribe(s) => Later(i, Subscribe(s))

\* Each subscription, made or on its way, has an Unsubscribe behind it or a
\* watcher that will send one; while the engine idles there is none that an
\* Unsubscribe thrown away could leave behind.
Withdrawn ==
    /\ phase = "idle" => sub = [p \in Player |-> NoSession]
    /\ \A p \in Player, s \in Session :
           sub[p] = s => /\ Owner[s] = p
                         /\ watch[s] = "waiting" \/ Later(0, Unsubscribe(s))
    /\ \A i \in 1 .. Len(inbox), s \in Session :
           inbox[i] = Subscribe(s) => watch[s] = "waiting" \/ Later(i, Unsubscribe(s))

Registered == TypeOK /\ Watched /\ OneSessionPerKey

IInv ==
    /\ Registered
    /\ SubscribedLast
    /\ ~EngineFails => Withdrawn

-----------------------------------------------------------------------------
(* Commands and the inbox.                                                 *)

LEMMA Commands ==
    ASSUME NEW s \in Session
    PROVE  /\ Subscribe(s) \in Command /\ Unsubscribe(s) \in Command
           /\ LateUnsubscribe(s) \in Command /\ LateUnsubscribe(s).kind = "unsubscribe"
           /\ TooLate(LateUnsubscribe(s)) /\ ~TooLate(Unsubscribe(s)) /\ ~TooLate(Subscribe(s))
           /\ Subscribe(s).kind = "subscribe" /\ Subscribe(s).session = s
           /\ Unsubscribe(s).kind = "unsubscribe" /\ Unsubscribe(s).session = s
           /\ [kind |-> "play"] \in Command
BY DEF Command, Subscribe, Unsubscribe, LateUnsubscribe, TooLate

LEMMA Addressed ==
    ASSUME NEW cmd \in Command
    PROVE  /\ cmd.kind \in {"subscribe", "unsubscribe", "play"}
           /\ cmd.kind # "play" => cmd.session \in Session
           /\ cmd.kind = "subscribe" => cmd = Subscribe(cmd.session)
           /\ cmd.kind = "unsubscribe" =>
                  cmd = Unsubscribe(cmd.session) \/ cmd = LateUnsubscribe(cmd.session)
BY DEF Command, Subscribe, Unsubscribe, LateUnsubscribe

\* What a send does to the inbox.
LEMMA Sent ==
    ASSUME inbox \in Seq(Command), Len(inbox) <= InboxCap, NEW cmd \in Command, Send(cmd)
    PROVE  /\ inbox' \in Seq(Command) /\ Len(inbox') <= InboxCap
           /\ Len(inbox') = Len(inbox) + 1 /\ inbox'[Len(inbox) + 1] = cmd
           /\ \A i \in 1 .. Len(inbox) : inbox'[i] = inbox[i]
BY InboxAssumption DEF Send

\* What a receive does to it.
LEMMA Received ==
    ASSUME inbox \in Seq(Command), inbox # <<>>, inbox' = Tail(inbox)
    PROVE  /\ inbox' \in Seq(Command) /\ Len(inbox') = Len(inbox) - 1
           /\ Len(inbox) \in Nat \ {0} /\ Len(inbox') \in Nat
           /\ Head(inbox) = inbox[1] /\ Head(inbox) \in Command
           /\ \A i \in 1 .. Len(inbox') : inbox'[i] = inbox[i + 1]
OBVIOUS

\* A command that follows another one still does so after a send ...
LEMMA LaterAfterSend ==
    ASSUME inbox \in Seq(Command), Len(inbox) <= InboxCap, NEW cmd \in Command, Send(cmd),
           NEW CONSTANT i \in Nat, NEW CONSTANT c
    PROVE  /\ Later(i, c) => Later(i, c)'
           /\ c = cmd /\ i <= Len(inbox) => Later(i, c)'
<1>1. /\ Len(inbox') = Len(inbox) + 1 /\ inbox'[Len(inbox) + 1] = cmd
      /\ \A k \in 1 .. Len(inbox) : inbox'[k] = inbox[k]
      /\ Len(inbox) \in Nat
    BY Sent
<1>2. ASSUME Later(i, c) PROVE Later(i, c)'
    <2>1. PICK j \in 1 .. Len(inbox) : i < j /\ inbox[j] = c
        BY <1>2 DEF Later
    <2>2. j \in 1 .. Len(inbox') /\ inbox'[j] = c
        BY <1>1, <2>1
    <2>3. QED BY <2>1, <2>2 DEF Later
<1>3. ASSUME c = cmd, i <= Len(inbox) PROVE Later(i, c)'
    <2>1. Len(inbox) + 1 \in 1 .. Len(inbox') /\ inbox'[Len(inbox) + 1] = c /\ i < Len(inbox) + 1
        BY <1>1, <1>3
    <2>2. QED BY <2>1 DEF Later
<1>4. QED BY <1>2, <1>3

\* ... and after a receive, one place further to the front.
LEMMA LaterAfterReceive ==
    ASSUME inbox \in Seq(Command), inbox # <<>>, inbox' = Tail(inbox),
           NEW CONSTANT i \in Nat, NEW CONSTANT c, Later(i + 1, c) \/ (i = 0 /\ Later(0, c) /\ Head(inbox) # c)
    PROVE  Later(i, c)'
<1>1. /\ Len(inbox') = Len(inbox) - 1 /\ Head(inbox) = inbox[1]
      /\ Len(inbox) \in Nat
      /\ \A k \in 1 .. Len(inbox') : inbox'[k] = inbox[k + 1]
    BY Received
<1>2. PICK j \in 1 .. Len(inbox) : i + 1 < j /\ inbox[j] = c
    BY <1>1 DEF Later
<1>3. j - 1 \in 1 .. Len(inbox') /\ i < j - 1
    BY <1>1, <1>2
<1>4. inbox'[j - 1] = c
    BY <1>1, <1>2, <1>3
<1>5. QED BY <1>3, <1>4 DEF Later

-----------------------------------------------------------------------------
(* Types, the watchers and the registry.                                   *)

LEMMA InitRegistered == Init => Registered
<1> SUFFICES ASSUME Init PROVE Registered
    OBVIOUS
<1>1. <<>> \in Seq(Command) /\ Len(<<>>) = 0
    OBVIOUS
<1>2. TypeOK
    BY <1>1, InboxAssumption DEF Init, TypeOK
<1>3. Watched
    BY DEF Init, Watched
<1>4. OneSessionPerKey
    BY DEF Init, OneSessionPerKey, LoggedIn
<1>5. QED BY <1>2, <1>3, <1>4 DEF Registered

LEMMA SessionTypes ==
    ASSUME TypeOK, NEW s \in Session, SessionStep(s)
    PROVE  TypeOK'
<1> USE DEF TypeOK
<1>1. Owner[s] \in Player /\ Subscribe(s) \in Command /\ Unsubscribe(s) \in Command
      /\ LateUnsubscribe(s) \in Command /\ [kind |-> "play"] \in Command
    BY OwnerAssumption, Commands
<1>2. CASE Login(s) BY <1>1, <1>2 DEF Login
<1>3. CASE LoginFails(s) BY <1>3 DEF LoginFails
<1>4. CASE StartSession(s) BY <1>1, <1>4, Sent DEF StartSession
<1>5. CASE Play(s) BY <1>1, <1>5, Sent DEF Play
<1>6. CASE Quit(s) BY <1>1, <1>6, Sent DEF Quit
<1>7. CASE EndProgram(s) BY <1>7 DEF EndProgram
<1>8. CASE Disconnect(s) BY <1>8 DEF Disconnect
<1>9. CASE WatcherUnsubscribes(s) BY <1>1, <1>9, Sent DEF WatcherUnsubscribes
<1>10. CASE Logout(s) BY <1>10 DEF Logout
<1>11. QED BY <1>2, <1>3, <1>4, <1>5, <1>6, <1>7, <1>8, <1>9, <1>10 DEF SessionStep

LEMMA EngineTypes == ASSUME TypeOK, Read \/ Timer PROVE TypeOK'
<1> USE DEF TypeOK
<1>1. CASE ReadIdle
    <2>1. inbox' \in Seq(Command) /\ Len(inbox') <= InboxCap
        BY <1>1, Received, InboxAssumption DEF ReadIdle
    <2>2. sub' \in [Player -> Session \cup {NoSession}]
        BY <1>1, Received, Addressed DEF ReadIdle
    <2>3. QED BY <1>1, <2>1, <2>2 DEF ReadIdle, Begin
<1>2. CASE ReadServing
    <2>1. inbox' \in Seq(Command) /\ Len(inbox') <= InboxCap
        BY <1>2, Received, InboxAssumption DEF ReadServing
    <2>2. Head(inbox) \in Command
        BY <1>2, Received DEF ReadServing
    <2>3. sub' \in [Player -> Session \cup {NoSession}]
        BY <1>2, <2>2, Addressed DEF ReadServing, Handled
    <2>4. QED BY <1>2, <2>1, <2>3 DEF ReadServing
<1>3. CASE Timer
    BY <1>3 DEF Timer, TakeOff, Crash, Resume, Begin
<1>4. QED BY <1>1, <1>2, <1>3 DEF Read

LEMMA WatchedKept ==
    ASSUME TypeOK, Watched, NEW s \in Session, SessionStep(s)
    PROVE  Watched'
<1> USE DEF TypeOK, Watched
<1>1. CASE Login(s) BY <1>1 DEF Login, IsNext
<1>2. CASE LoginFails(s) BY <1>2 DEF LoginFails
<1>3. CASE StartSession(s) BY <1>3 DEF StartSession
<1>4. CASE Play(s) BY <1>4 DEF Play
<1>5. CASE Quit(s) BY <1>5 DEF Quit
<1>6. CASE EndProgram(s) BY <1>6 DEF EndProgram
<1>7. CASE Disconnect(s) BY <1>7 DEF Disconnect
<1>8. CASE WatcherUnsubscribes(s) BY <1>8 DEF WatcherUnsubscribes
<1>9. CASE Logout(s) BY <1>9 DEF Logout
<1>10. QED BY <1>1, <1>2, <1>3, <1>4, <1>5, <1>6, <1>7, <1>8, <1>9 DEF SessionStep

\* A step that leaves LoggedIn and the registry alone.
LEMMA RegistryUntouched ==
    ASSUME OneSessionPerKey, active' = active, \A t \in Session : LoggedIn(t)' <=> LoggedIn(t)
    PROVE  OneSessionPerKey'
BY DEF OneSessionPerKey

\* A step that logs one session out.
LEMMA LoggedOut ==
    ASSUME OneSessionPerKey, NEW s \in Session, LoggedIn(s), ~LoggedIn(s)',
           active' = active \ {Owner[s]},
           \A t \in Session \ {s} : LoggedIn(t)' <=> LoggedIn(t)
    PROVE  OneSessionPerKey'
<1>1. \A t, u \in Session : LoggedIn(t)' /\ LoggedIn(u)' /\ Owner[t] = Owner[u] => t = u
    BY DEF OneSessionPerKey
<1>2. active' = {Owner[t] : t \in {u \in Session : LoggedIn(u)'}}
    BY DEF OneSessionPerKey
<1>3. QED BY <1>1, <1>2 DEF OneSessionPerKey

LEMMA RegistryKept ==
    ASSUME TypeOK, Watched, OneSessionPerKey, NEW s \in Session, SessionStep(s)
    PROVE  OneSessionPerKey'
<1> USE DEF TypeOK
<1>1. CASE Login(s)
    <2>1. CASE Owner[s] \in active
        BY <1>1, <2>1, RegistryUntouched DEF Login, IsNext, LoggedIn, Watched
    <2>2. CASE Owner[s] \notin active
        <3>1. /\ LoggedIn(s)' /\ active' = active \cup {Owner[s]}
              /\ \A t \in Session \ {s} : LoggedIn(t)' <=> LoggedIn(t)
            BY <1>1, <2>2 DEF Login, LoggedIn
        <3>2. \A t \in Session : LoggedIn(t) => Owner[t] # Owner[s]
            BY <2>2 DEF OneSessionPerKey
        <3>3. \A t, u \in Session : LoggedIn(t)' /\ LoggedIn(u)' /\ Owner[t] = Owner[u] => t = u
            BY <3>1, <3>2 DEF OneSessionPerKey
        <3>4. active' = {Owner[t] : t \in {u \in Session : LoggedIn(u)'}}
            BY <3>1, <3>2 DEF OneSessionPerKey
        <3>5. QED BY <3>3, <3>4 DEF OneSessionPerKey
    <2>3. QED BY <2>1, <2>2
<1>2. CASE LoginFails(s)
    <2>1. LoggedIn(s) /\ ~LoggedIn(s)' /\ \A t \in Session \ {s} : LoggedIn(t)' <=> LoggedIn(t)
        BY <1>2 DEF LoginFails, LoggedIn, Watched
    <2>2. QED BY <1>2, <2>1, LoggedOut DEF LoginFails
<1>3. CASE StartSession(s)
    BY <1>3, RegistryUntouched DEF StartSession, LoggedIn
<1>4. CASE Play(s)
    BY <1>4, RegistryUntouched DEF Play, LoggedIn
<1>5. CASE Quit(s)
    BY <1>5, RegistryUntouched DEF Quit, LoggedIn
<1>6. CASE EndProgram(s)
    BY <1>6, RegistryUntouched DEF EndProgram, LoggedIn
<1>7. CASE Disconnect(s)
    BY <1>7, RegistryUntouched DEF Disconnect, LoggedIn
<1>8. CASE WatcherUnsubscribes(s)
    BY <1>8, RegistryUntouched DEF WatcherUnsubscribes, LoggedIn
<1>9. CASE Logout(s)
    <2>1. LoggedIn(s) /\ ~LoggedIn(s)' /\ \A t \in Session \ {s} : LoggedIn(t)' <=> LoggedIn(t)
        BY <1>9 DEF Logout, LoggedIn, Watched
    <2>2. QED BY <1>9, <2>1, LoggedOut DEF Logout
<1>10. QED BY <1>1, <1>2, <1>3, <1>4, <1>5, <1>6, <1>7, <1>8, <1>9 DEF SessionStep

LEMMA EngineLeavesRegistry ==
    ASSUME Watched, OneSessionPerKey, UNCHANGED <<active, conn, prog, watch>>
    PROVE  Watched' /\ OneSessionPerKey'
BY RegistryUntouched DEF Watched, LoggedIn

LEMMA StepRegistered == Registered /\ [Next]_vars => Registered'
<1> SUFFICES ASSUME Registered, [Next]_vars PROVE Registered'
    OBVIOUS
<1> USE DEF Registered
<1>1. ASSUME NEW s \in Session, SessionStep(s) PROVE Registered'
    BY <1>1, SessionTypes, WatchedKept, RegistryKept
<1>2. CASE Read
    <2>1. UNCHANGED <<active, conn, prog, watch>>
        BY <1>2 DEF Read, ReadIdle, ReadServing
    <2>2. TypeOK'
        BY <1>2, EngineTypes
    <2>3. QED BY <2>1, <2>2, EngineLeavesRegistry
<1>3. CASE Timer
    <2>1. UNCHANGED <<active, conn, prog, watch>>
        BY <1>3 DEF Timer
    <2>2. QED BY <1>3, <2>1, EngineLeavesRegistry, EngineTypes
<1>4. CASE UNCHANGED vars
    <2>1. TypeOK'
        BY <1>4 DEF vars, TypeOK
    <2>2. QED BY <1>4, <2>1, EngineLeavesRegistry DEF vars
<1>5. QED BY <1>1, <1>2, <1>3, <1>4 DEF Next

-----------------------------------------------------------------------------
(* Every session that is up and connected has the last word.               *)

\* What SubscribedLast says of one session.
HasLastWord(s) ==
    \A i \in 1 .. Len(inbox) :
        Concerns(inbox[i], Owner[s]) /\ inbox[i] # Subscribe(s) => Later(i, Subscribe(s))

\* A send disturbs nobody of another player.
LEMMA OthersKeepLastWord ==
    ASSUME TypeOK, NEW cmd \in Command, Send(cmd),
           NEW t \in Session, HasLastWord(t), ~Concerns(cmd, Owner[t])
    PROVE  HasLastWord(t)'
<1>1. /\ Len(inbox') = Len(inbox) + 1 /\ inbox'[Len(inbox) + 1] = cmd
      /\ \A i \in 1 .. Len(inbox) : inbox'[i] = inbox[i]
      /\ Len(inbox) \in Nat
    BY Sent DEF TypeOK
<1>2. \A i \in Nat : Later(i, Subscribe(t)) => Later(i, Subscribe(t))'
    BY LaterAfterSend DEF TypeOK
<1>3. ASSUME NEW i \in 1 .. Len(inbox'), Concerns(inbox'[i], Owner[t]), inbox'[i] # Subscribe(t)
      PROVE  Later(i, Subscribe(t))'
    <2>1. i \in 1 .. Len(inbox)
        BY <1>1, <1>3
    <2>2. inbox'[i] = inbox[i]
        BY <1>1, <2>1
    <2>3. QED BY <1>2, <1>3, <2>1, <2>2 DEF HasLastWord
<1>4. QED BY <1>3 DEF HasLastWord, Concerns

\* Its own Subscribe puts a session in the last place.
LEMMA SubscribeIsLast ==
    ASSUME TypeOK, NEW s \in Session, Send(Subscribe(s))
    PROVE  HasLastWord(s)'
<1>1. /\ Len(inbox') = Len(inbox) + 1 /\ inbox'[Len(inbox) + 1] = Subscribe(s)
      /\ Len(inbox) \in Nat /\ Subscribe(s) \in Command
    BY Sent, Commands DEF TypeOK
<1>2. \A i \in 0 .. Len(inbox) : Later(i, Subscribe(s))'
    BY <1>1 DEF Later
<1>3. \A i \in 1 .. Len(inbox') : inbox'[i] # Subscribe(s) => i \in 0 .. Len(inbox)
    BY <1>1
<1>4. QED BY <1>2, <1>3 DEF HasLastWord

\* The engine reads a command.
LEMMA ReadKeepsLastWord ==
    ASSUME TypeOK, NEW t \in Session, HasLastWord(t), Read
    PROVE  HasLastWord(t)'
<1>1. inbox # <<>> /\ inbox' = Tail(inbox)
    BY DEF Read, ReadIdle, ReadServing
<1>2. /\ Len(inbox') = Len(inbox) - 1
      /\ \A i \in 1 .. Len(inbox') : inbox'[i] = inbox[i + 1]
      /\ Len(inbox) \in Nat \ {0}
    BY <1>1, Received DEF TypeOK
<1>3. ASSUME NEW i \in 1 .. Len(inbox'), Concerns(inbox'[i], Owner[t]), inbox'[i] # Subscribe(t)
      PROVE  Later(i, Subscribe(t))'
    <2>1. i + 1 \in 1 .. Len(inbox) /\ inbox'[i] = inbox[i + 1] /\ i \in Nat
        BY <1>2
    <2>2. Later(i + 1, Subscribe(t))
        BY <1>3, <2>1 DEF HasLastWord
    <2>3. QED BY <1>1, <2>1, <2>2, LaterAfterReceive DEF TypeOK
<1>4. QED BY <1>3 DEF HasLastWord, Concerns

LEMMA InitSubscribedLast == Init => SubscribedLast
BY DEF Init, SubscribedLast

LEMMA StepSubscribedLast ==
    ASSUME Registered, SubscribedLast, [Next]_vars
    PROVE  SubscribedLast'
<1> DEFINE Playing(t) == prog[t] = "up" /\ t \in conn
<1> USE DEF Registered
<1>1. SubscribedLast <=> \A t \in Session : Playing(t) => HasLastWord(t)
    BY DEF SubscribedLast, HasLastWord
<1>2. SUFFICES ASSUME NEW t \in Session, Playing(t)'
               PROVE  HasLastWord(t)'
    BY DEF SubscribedLast, HasLastWord
<1>3. CASE UNCHANGED <<inbox, sub>> /\ Playing(t)
    BY <1>1, <1>3 DEF HasLastWord, Later
<1>4. ASSUME NEW s \in Session, SessionStep(s) PROVE HasLastWord(t)'
    <2> USE DEF TypeOK
    <2>1. CASE Login(s) BY <1>2, <1>3, <2>1 DEF Login
    <2>2. CASE LoginFails(s) BY <1>2, <1>3, <2>2 DEF LoginFails
    <2>3. CASE StartSession(s)
        <3>1. CASE s = t
            BY <2>3, <3>1, SubscribeIsLast DEF StartSession
        <3>2. CASE s # t
            <4>1. Playing(t) /\ LoggedIn(t) /\ LoggedIn(s)
                BY <1>2, <2>3, <3>2 DEF StartSession, LoggedIn, Watched
            <4>2. ~Concerns(Subscribe(s), Owner[t]) /\ Subscribe(s) \in Command
                BY <3>2, <4>1, Commands DEF Concerns, OneSessionPerKey
            <4>3. QED BY <1>1, <2>3, <4>1, <4>2, OthersKeepLastWord DEF StartSession
        <3>3. QED BY <3>1, <3>2
    <2>4. CASE Play(s)
        <3>1. Playing(t) /\ Send([kind |-> "play"])
            BY <1>2, <2>4 DEF Play
        <3>2. ~Concerns([kind |-> "play"], Owner[t]) /\ [kind |-> "play"] \in Command
            BY Commands DEF Concerns
        <3>3. QED BY <1>1, <3>1, <3>2, OthersKeepLastWord
    <2>5. CASE Quit(s)
        <3>1. s # t /\ Playing(t) /\ LoggedIn(t)
            BY <1>2, <2>5 DEF Quit, LoggedIn, Watched
        <3>2. CASE s \in conn
            <4>1. LoggedIn(s)
                BY <2>5, <3>2 DEF Quit, LoggedIn, Watched
            <4>2. ~Concerns(Unsubscribe(s), Owner[t]) /\ Unsubscribe(s) \in Command
                BY <3>1, <4>1, Commands DEF Concerns, OneSessionPerKey
            <4>3. QED BY <1>1, <2>5, <3>1, <3>2, <4>2, OthersKeepLastWord DEF Quit
        <3>3. CASE s \notin conn
            <4>1. ~Concerns(LateUnsubscribe(s), Owner[t]) /\ LateUnsubscribe(s) \in Command
                BY Commands DEF Concerns
            <4>2. QED BY <1>1, <2>5, <3>1, <3>3, <4>1, OthersKeepLastWord DEF Quit
        <3>4. QED BY <3>2, <3>3
    <2>6. CASE EndProgram(s) BY <1>2, <1>3, <2>6 DEF EndProgram
    <2>7. CASE Disconnect(s) BY <1>2, <1>3, <2>7 DEF Disconnect
    <2>8. CASE WatcherUnsubscribes(s)
        <3>1. s # t /\ Playing(t) /\ LoggedIn(t) /\ LoggedIn(s)
            BY <1>2, <2>8 DEF WatcherUnsubscribes, LoggedIn, Watched
        <3>2. ~Concerns(Unsubscribe(s), Owner[t]) /\ Unsubscribe(s) \in Command
            BY <3>1, Commands DEF Concerns, OneSessionPerKey
        <3>3. QED BY <1>1, <2>8, <3>1, <3>2, OthersKeepLastWord DEF WatcherUnsubscribes
    <2>9. CASE Logout(s) BY <1>2, <1>3, <2>9 DEF Logout
    <2>10. QED BY <1>4, <2>1, <2>2, <2>3, <2>4, <2>5, <2>6, <2>7, <2>8, <2>9 DEF SessionStep
<1>5. CASE Read
    <2>1. Playing(t)
        BY <1>2, <1>5 DEF Read, ReadIdle, ReadServing
    <2>2. QED BY <1>1, <1>5, <2>1, ReadKeepsLastWord
<1>6. CASE Timer
    BY <1>2, <1>3, <1>6 DEF Timer
<1>7. CASE UNCHANGED vars
    BY <1>2, <1>3, <1>7 DEF vars
<1>8. QED BY <1>4, <1>5, <1>6, <1>7 DEF Next

-----------------------------------------------------------------------------
(* Every subscription will be withdrawn, unless a statement fails.         *)

\* What Withdrawn says of one session: its subscription, and its Subscribes.
WillLeave(s) ==
    /\ \A p \in Player :
           sub[p] = s => Owner[s] = p /\ (watch[s] = "waiting" \/ Later(0, Unsubscribe(s)))
    /\ \A i \in 1 .. Len(inbox) :
           inbox[i] = Subscribe(s) => watch[s] = "waiting" \/ Later(i, Unsubscribe(s))

LEMMA SendKeepsWillLeave ==
    ASSUME TypeOK, NEW cmd \in Command, Send(cmd), sub' = sub,
           NEW t \in Session, WillLeave(t),
           watch[t] = "waiting" => watch'[t] = "waiting" \/ cmd = Unsubscribe(t),
           cmd = Subscribe(t) => watch'[t] = "waiting"
    PROVE  WillLeave(t)'
<1>1. /\ Len(inbox') = Len(inbox) + 1 /\ inbox'[Len(inbox) + 1] = cmd
      /\ \A i \in 1 .. Len(inbox) : inbox'[i] = inbox[i]
      /\ Len(inbox) \in Nat
    BY Sent DEF TypeOK
<1>2. \A i \in Nat : Later(i, Unsubscribe(t)) => Later(i, Unsubscribe(t))'
    BY LaterAfterSend DEF TypeOK
<1>3. \A i \in 0 .. Len(inbox) : cmd = Unsubscribe(t) => Later(i, Unsubscribe(t))'
    BY <1>1 DEF Later
<1>4. ASSUME NEW p \in Player, sub'[p] = t
      PROVE  Owner[t] = p /\ (watch'[t] = "waiting" \/ Later(0, Unsubscribe(t))')
    BY <1>1, <1>2, <1>3, <1>4 DEF WillLeave
<1>5. ASSUME NEW i \in 1 .. Len(inbox'), inbox'[i] = Subscribe(t)
      PROVE  watch'[t] = "waiting" \/ Later(i, Unsubscribe(t))'
    <2>1. CASE i = Len(inbox) + 1
        BY <1>1, <1>5, <2>1
    <2>2. CASE i # Len(inbox) + 1
        <3>1. i \in 1 .. Len(inbox) /\ inbox[i] = Subscribe(t)
            BY <1>1, <1>5, <2>2
        <3>2. watch[t] = "waiting" \/ Later(i, Unsubscribe(t))
            BY <3>1 DEF WillLeave
        <3>3. QED BY <1>2, <1>3, <3>1, <3>2
    <2>3. QED BY <2>1, <2>2
<1>6. QED BY <1>4, <1>5 DEF WillLeave

LEMMA ReadKeepsWillLeave ==
    ASSUME TypeOK, NEW t \in Session, WillLeave(t), Read,
           phase = "idle" => sub = [p \in Player |-> NoSession]
    PROVE  WillLeave(t)'
<1> DEFINE cmd == Head(inbox)
<1>1. inbox # <<>> /\ inbox' = Tail(inbox) /\ watch' = watch
    BY DEF Read, ReadIdle, ReadServing
<1>2. /\ Len(inbox') = Len(inbox) - 1 /\ cmd = inbox[1] /\ cmd \in Command
      /\ \A i \in 1 .. Len(inbox') : inbox'[i] = inbox[i + 1]
      /\ Len(inbox) \in Nat \ {0}
    BY <1>1, Received DEF TypeOK
<1>3. ASSUME NEW p \in Player, sub'[p] = t
      PROVE  \/ cmd = Subscribe(t) /\ Owner[t] = p
             \/ sub[p] = t /\ cmd # Unsubscribe(t)
    <2>1. /\ Owner[t] \in Player /\ t # NoSession
          /\ Unsubscribe(t).kind = "unsubscribe" /\ Unsubscribe(t).session = t
        BY OwnerAssumption, Commands DEF NoSession
    <2>2. CASE ReadIdle
        <3>1. phase = "idle" /\ sub[p] = NoSession
            BY <2>2 DEF ReadIdle
        <3>2. QED BY <1>2, <1>3, <2>1, <2>2, <3>1, Addressed DEF ReadIdle, TypeOK
    <2>3. CASE ReadServing
        <3>1. sub[p] = t => Owner[t] = p
            BY DEF WillLeave
        <3>2. QED BY <1>2, <1>3, <2>1, <2>3, <3>1, Addressed DEF ReadServing, Handled, TypeOK
    <2>4. QED BY <2>2, <2>3 DEF Read
<1>4. ASSUME NEW p \in Player, sub'[p] = t
      PROVE  Owner[t] = p /\ (watch'[t] = "waiting" \/ Later(0, Unsubscribe(t))')
    <2>1. CASE cmd = Subscribe(t) /\ Owner[t] = p
        <3>1. watch[t] = "waiting" \/ Later(1, Unsubscribe(t))
            BY <1>2, <2>1 DEF WillLeave
        <3>2. QED BY <1>1, <2>1, <3>1, LaterAfterReceive DEF TypeOK
    <2>2. CASE sub[p] = t /\ cmd # Unsubscribe(t)
        <3>1. Owner[t] = p /\ (watch[t] = "waiting" \/ Later(0, Unsubscribe(t)))
            BY <2>2 DEF WillLeave
        <3>2. QED BY <1>1, <2>2, <3>1, LaterAfterReceive DEF TypeOK
    <2>3. QED BY <1>3, <1>4, <2>1, <2>2
<1>5. ASSUME NEW i \in 1 .. Len(inbox'), inbox'[i] = Subscribe(t)
      PROVE  watch'[t] = "waiting" \/ Later(i, Unsubscribe(t))'
    <2>1. i + 1 \in 1 .. Len(inbox) /\ inbox[i + 1] = Subscribe(t) /\ i \in Nat
        BY <1>2, <1>5
    <2>2. watch[t] = "waiting" \/ Later(i + 1, Unsubscribe(t))
        BY <2>1 DEF WillLeave
    <2>3. QED BY <1>1, <2>1, <2>2, LaterAfterReceive DEF TypeOK
<1>6. QED BY <1>4, <1>5 DEF WillLeave

LEMMA InitWithdrawn == Init => Withdrawn
BY OwnerAssumption DEF Init, Withdrawn, NoSession

\* An engine that goes idle has nobody left.
LEMMA IdleIsDeserted ==
    ASSUME ~EngineFails, TypeOK, [Next]_vars,
           phase = "idle" => sub = [p \in Player |-> NoSession]
    PROVE  phase' = "idle" => sub' = [p \in Player |-> NoSession]
<1>1. ASSUME NEW s \in Session, SessionStep(s) PROVE UNCHANGED <<phase, sub>>
    BY <1>1 DEF SessionStep, Login, LoginFails, StartSession, Play, Quit, EndProgram,
                Disconnect, WatcherUnsubscribes, Logout
<1>2. CASE ReadIdle
    BY <1>2 DEF ReadIdle, Begin
<1>3. CASE ReadServing
    BY <1>3 DEF ReadServing
<1>4. CASE Timer
    <2>1. CASE Resume /\ phase' = "idle"
        <3>1. Subscribed = {} /\ sub' = sub
            BY <1>4, <2>1 DEF Resume, Begin, Timer
        <3>2. sub = [p \in Player |-> NoSession]
            BY <3>1 DEF Subscribed, TypeOK
        <3>3. QED BY <3>1, <3>2
    <2>2. QED BY <1>4, <2>1 DEF Timer, TakeOff, Crash, Resume
<1>5. QED BY <1>1, <1>2, <1>3, <1>4 DEF Next, Read, vars

LEMMA StepWithdrawn ==
    ASSUME ~EngineFails, Registered, Withdrawn, [Next]_vars
    PROVE  Withdrawn'
<1> USE DEF Registered
<1>1. Withdrawn <=> /\ phase = "idle" => sub = [p \in Player |-> NoSession]
                    /\ \A t \in Session : WillLeave(t)
    BY DEF Withdrawn, WillLeave
<1>2. SUFFICES ASSUME NEW t \in Session PROVE WillLeave(t)'
    <2>1. phase' = "idle" => sub' = [p \in Player |-> NoSession]
        BY <1>1, IdleIsDeserted
    <2>2. QED BY <2>1 DEF Withdrawn, WillLeave
<1>3. WillLeave(t)
    BY <1>1
<1>4. CASE UNCHANGED <<inbox, sub>> /\ watch'[t] = watch[t]
    BY <1>3, <1>4 DEF WillLeave, Later
<1>5. ASSUME NEW s \in Session, SessionStep(s) PROVE WillLeave(t)'
    <2> USE DEF TypeOK
    <2>1. CASE Login(s) BY <1>4, <2>1 DEF Login
    <2>2. CASE LoginFails(s) BY <1>4, <2>2 DEF LoginFails
    <2>3. CASE StartSession(s)
        <3>1. Subscribe(s) \in Command /\ (Subscribe(s) = Subscribe(t) => s = t)
            BY Commands
        <3>2. /\ watch[t] = "waiting" => watch'[t] = "waiting"
              /\ s = t => watch'[t] = "waiting"
            BY <2>3 DEF StartSession
        <3>3. QED BY <1>3, <2>3, <3>1, <3>2, SendKeepsWillLeave DEF StartSession
    <2>4. CASE Play(s)
        <3>1. [kind |-> "play"] \in Command /\ [kind |-> "play"] # Subscribe(t)
            BY Commands
        <3>2. QED BY <1>3, <2>4, <3>1, SendKeepsWillLeave DEF Play
    <2>5. CASE Quit(s)
        <3>1. PICK cmd \in {Unsubscribe(s), LateUnsubscribe(s)} : Send(cmd)
            BY <2>5 DEF Quit
        <3>2. cmd \in Command /\ cmd # Subscribe(t)
            BY <3>1, Commands
        <3>3. QED BY <1>3, <2>5, <3>1, <3>2, SendKeepsWillLeave DEF Quit
    <2>6. CASE EndProgram(s) BY <1>4, <2>6 DEF EndProgram
    <2>7. CASE Disconnect(s) BY <1>4, <2>7 DEF Disconnect
    <2>8. CASE WatcherUnsubscribes(s)
        <3>1. Unsubscribe(s) \in Command /\ Unsubscribe(s) # Subscribe(t)
            BY Commands
        <3>2. watch[t] = "waiting" => watch'[t] = "waiting" \/ Unsubscribe(s) = Unsubscribe(t)
            BY <2>8 DEF WatcherUnsubscribes
        <3>3. QED BY <1>3, <2>8, <3>1, <3>2, SendKeepsWillLeave DEF WatcherUnsubscribes
    <2>9. CASE Logout(s)
        <3>1. CASE s = t
            BY <1>3, <2>9, <3>1 DEF Logout, WillLeave, Later
        <3>2. CASE s # t
            BY <1>4, <2>9, <3>2 DEF Logout
        <3>3. QED BY <3>1, <3>2
    <2>10. QED BY <1>5, <2>1, <2>2, <2>3, <2>4, <2>5, <2>6, <2>7, <2>8, <2>9 DEF SessionStep
<1>6. CASE Read
    BY <1>1, <1>3, <1>6, ReadKeepsWillLeave
<1>7. CASE Timer
    BY <1>4, <1>7 DEF Timer
<1>8. CASE UNCHANGED vars
    BY <1>4, <1>8 DEF vars
<1>9. QED BY <1>5, <1>6, <1>7, <1>8 DEF Next

-----------------------------------------------------------------------------
(* The theorems.                                                           *)

\* The inductive invariant holds of every behaviour of the sessions.
THEOREM Invariance == Spec => []IInv
<1>1. Init => IInv
    BY InitRegistered, InitSubscribedLast, InitWithdrawn DEF IInv
<1>2. IInv /\ [Next]_vars => IInv'
    <2> SUFFICES ASSUME IInv, [Next]_vars PROVE IInv'
        OBVIOUS
    <2>1. Registered'
        BY StepRegistered DEF IInv
    <2>2. SubscribedLast'
        BY StepSubscribedLast DEF IInv
    <2>3. ~EngineFails => Withdrawn'
        BY StepWithdrawn DEF IInv
    <2>4. QED BY <2>1, <2>2, <2>3 DEF IInv
<1>3. QED BY <1>1, <1>2, PTL DEF Spec

\* The inbox never holds more than its capacity, and the goroutines of a
\* session are where the code has them.
THEOREM TypeCorrect == Spec => []TypeOK
<1>1. IInv => TypeOK
    BY DEF IInv, Registered
<1>2. QED BY <1>1, Invariance, PTL

\* A key is in the registry exactly while one session of it is logged in.
THEOREM OneSession == Spec => []OneSessionPerKey
<1>1. IInv => OneSessionPerKey
    BY DEF IInv, Registered
<1>2. QED BY <1>1, Invariance, PTL

\* No subscription outlives its session, unless a statement of the engine fails.
THEOREM SubscriptionsEnd ==
    ASSUME ~EngineFails
    PROVE  Spec => []NoDeadSubscription
<1>1. IInv => NoDeadSubscription
    <2> SUFFICES ASSUME IInv, NEW p \in Player, NEW s \in Session, sub[p] = s
                 PROVE  watch[s] = "waiting" \/ Queued(Unsubscribe(s))
        BY DEF NoDeadSubscription
    <2>1. watch[s] = "waiting" \/ Later(0, Unsubscribe(s))
        BY DEF IInv, Withdrawn
    <2>2. QED BY <2>1 DEF Later, Queued
<1>2. QED BY <1>1, Invariance, PTL

\* No command takes the subscription of a session that is up and connected,
\* but a q handled after the end of the connection it was read from.
THEOREM StaySubscribed == Spec => StaysSubscribed
<1>1. IInv /\ [Next]_vars =>
          [\A s \in Session :
               Plays(s) /\ ~Queued(Subscribe(s)) /\ sub'[Owner[s]] # s
                   => TooLate(Head(inbox))]_vars
    <2> SUFFICES ASSUME IInv, Next, NEW s \in Session, Plays(s), ~Queued(Subscribe(s)),
                        sub'[Owner[s]] # s
                 PROVE  TooLate(Head(inbox))
        OBVIOUS
    <2> DEFINE cmd == Head(inbox)
    <2>1. TypeOK /\ sub[Owner[s]] = s /\ Owner[s] \in Player
        BY OwnerAssumption DEF IInv, Registered, Plays
    <2>2. sub' # sub
        BY <2>1
    <2>3. Read
        BY <2>2 DEF Next, Timer, SessionStep, Login, LoginFails, StartSession, Play, Quit,
                    EndProgram, Disconnect, WatcherUnsubscribes, Logout
    <2>4. inbox # <<>>
        BY <2>3 DEF Read, ReadIdle, ReadServing
    <2>5. Len(inbox) \in Nat \ {0} /\ cmd = inbox[1] /\ cmd \in Command
        BY <2>1, <2>4 DEF TypeOK
    <2>6. cmd.kind # "play" /\ Owner[cmd.session] = Owner[s]
        <3>1. CASE ReadIdle
            BY <2>1, <2>5, <3>1, Addressed DEF ReadIdle, TypeOK
        <3>2. CASE ReadServing
            BY <2>1, <2>5, <3>2, Addressed DEF ReadServing, Handled, TypeOK
        <3>3. QED BY <2>3, <3>1, <3>2 DEF Read
    <2>7. ~Later(1, Subscribe(s)) /\ cmd # Subscribe(s)
        BY <2>5 DEF Later, Queued
    <2>8. SubscribedLast /\ prog[s] = "up" /\ s \in conn
        BY DEF IInv, Plays
    <2>9. ~Concerns(inbox[1], Owner[s])
        BY <2>5, <2>7, <2>8 DEF SubscribedLast
    <2>10. QED BY <2>5, <2>6, <2>9 DEF Concerns
<1>2. QED BY <1>1, Invariance, PTL DEF Spec, StaysSubscribed

\* The sessions see the cycle of RoundLoop.tla, whatever statement fails.
THEOREM ImplementsRoundLoop == Spec => LoopSpec
<1> USE DEF Loop!Next, Loop!vars, Loop!Wake, Loop!Serving, Loop!Join, Loop!Leave,
            Loop!TakeOff, Loop!Crash, Loop!Again, Loop!Pause, Loop!Abort, Loop!Restart,
            Loop!Begin
<1>1. Init => Loop!Init
    BY OwnerAssumption DEF Init, Loop!Init, Subscribed
<1>2. IInv /\ [Next]_vars => [Loop!Next]_(Loop!vars)
    <2> SUFFICES ASSUME IInv, [Next]_vars
                 PROVE  Loop!Next \/ UNCHANGED <<phase, Subscribed>>
        OBVIOUS
    <2>0. TypeOK
        BY DEF IInv, Registered
    <2>1. ASSUME NEW s \in Session, SessionStep(s) PROVE UNCHANGED <<phase, sub>>
        BY <2>1 DEF SessionStep, Login, LoginFails, StartSession, Play, Quit, EndProgram,
                    Disconnect, WatcherUnsubscribes, Logout
    <2>2. ASSUME NEW p \in Player, NEW s \in Session, sub' = [sub EXCEPT ![p] = s]
          PROVE  Subscribed' = Subscribed \cup {p}
        BY <2>0, <2>2, OwnerAssumption DEF TypeOK, Subscribed, NoSession
    <2>3. ASSUME NEW p \in Player, sub' = [sub EXCEPT ![p] = NoSession]
          PROVE  Subscribed' = Subscribed \ {p}
        BY <2>0, <2>3 DEF TypeOK, Subscribed
    <2>4. CASE Read
        <3> DEFINE cmd == Head(inbox)
        <3>1. cmd \in Command
            BY <2>0, <2>4, Received DEF Read, ReadIdle, ReadServing, TypeOK
        <3>2. /\ cmd.kind \in {"subscribe", "unsubscribe", "play"}
              /\ cmd.kind # "play" => cmd.session \in Session /\ Owner[cmd.session] \in Player
            BY <3>1, Addressed, OwnerAssumption
        <3>3. CASE ReadIdle
            <4>1. CASE cmd.kind = "subscribe"
                <5>1. Subscribed' = Subscribed \cup {Owner[cmd.session]}
                    BY <2>2, <3>2, <3>3, <4>1 DEF ReadIdle
                <5>2. QED BY <3>2, <3>3, <4>1, <5>1 DEF ReadIdle, Begin
            <4>2. CASE cmd.kind # "subscribe"
                BY <3>3, <4>2 DEF ReadIdle, Subscribed
            <4>3. QED BY <4>1, <4>2
        <3>4. CASE ReadServing
            <4>1. CASE cmd.kind = "subscribe"
                <5>1. Subscribed' = Subscribed \cup {Owner[cmd.session]}
                    BY <2>2, <3>2, <3>4, <4>1 DEF ReadServing, Handled
                <5>2. QED BY <3>2, <3>4, <4>1, <5>1 DEF ReadServing
            <4>2. CASE cmd.kind = "unsubscribe"
                <5>1. Subscribed' = Subscribed \ {Owner[cmd.session]}
                    BY <2>3, <3>2, <3>4, <4>2 DEF ReadServing, Handled
                <5>2. QED BY <3>2, <3>4, <4>2, <5>1 DEF ReadServing
            <4>3. CASE cmd.kind = "play"
                BY <3>4, <4>3 DEF ReadServing, Handled, Subscribed
            <4>4. QED BY <3>2, <4>1, <4>2, <4>3
        <3>5. QED BY <2>4, <3>3, <3>4 DEF Read
    <2>5. CASE Timer
        <3>1. Subscribed' = Subscribed
            BY <2>5 DEF Timer, Subscribed
        <3>2. QED BY <2>5, <3>1 DEF Timer, TakeOff, Crash, Resume, Begin
    <2>6. QED BY <2>1, <2>4, <2>5 DEF Next, vars, Subscribed
<1>3. QED BY <1>1, <1>2, Invariance, PTL DEF Spec, LoopSpec, Loop!Spec
=============================================================================
