------------------------------- MODULE Engine -------------------------------
(***************************************************************************)
(* The round engine of internal/engine/engine.go: one goroutine (runLoop)  *)
(* that owns the round state, reads commands from its inbox and writes the *)
(* ledger in PostgreSQL.                                                   *)
(*                                                                         *)
(* pc says where the goroutine is; an action runs from one place where     *)
(* something else can happen (a command is read, a statement is answered,  *)
(* a timer fires) to the next.  Commands are taken from the inbox at the   *)
(* places that read it, so a command sent meanwhile is one handled later.  *)
(* A command the code drops (a bet outside the betting window, a cashout   *)
(* of somebody who is not in, anything but Subscribe in waitForSubscribers)*)
(* changes nothing and is a stuttering step.                               *)
(*                                                                         *)
(* Every SQL statement may fail, and may also be applied while its answer  *)
(* is lost; the process may crash anywhere and start again on the same     *)
(* database.                                                               *)
(*                                                                         *)
(* A few definitions are preceded by a faulty variant of the same arity.   *)
(* No specification uses these: each is the bug that one property of the   *)
(* runs exists to catch (README.md, "Mutants").                            *)
(***************************************************************************)
EXTENDS Rules, Sequences

CONSTANTS
    Player,        \* player ids
    Amount,        \* amounts the bet form can send
    Target,        \* auto-cashouts it can send; 0 is manual only
    CrashPoint,    \* values sampleCrash can return
    MaxTicks,      \* ticks after which every CrashPoint is reached
    Curve,         \* Curve[t] = int(exp(growthK * t) * 100)
    Int32Limit,    \* 2^31: bound of the INTEGER columns
    StartBalance,  \* everybody's balance in the initial state
    MaxRounds,     \* bound: the ids the rounds table can give out
    MaxFaults,     \* bound: statements that fail or whose answer is lost
    MaxCrashes     \* bound: restarts of the process

ASSUME AmountAssumption == Amount \subseteq Nat \ {0}
ASSUME TargetAssumption == Target \subseteq {0} \cup {t \in Nat : t > 100}
ASSUME CrashAssumption == CrashPoint \subseteq {c \in Nat : c >= 100} /\ CrashPoint # {}
ASSUME CurveAssumption ==
    /\ MaxTicks \in Nat \ {0}
    /\ Curve \in [0 .. MaxTicks -> Nat]
    /\ Curve[0] = 100
    /\ \A s, t \in 0 .. MaxTicks : s <= t => Curve[s] <= Curve[t]
    /\ \A c \in CrashPoint : c <= Curve[MaxTicks]
ASSUME LimitAssumption == Int32Limit \in Nat \ {0}
ASSUME BoundAssumption ==
    MaxRounds \in Nat /\ MaxFaults \in Nat /\ MaxCrashes \in Nat /\ StartBalance \in Int

VARIABLES
    \* memory of the process
    state,         \* e.state
    pc,            \* where the goroutine is
    roundID,       \* e.roundID; 0 before the first round of the process
    crashBP,       \* e.crashBP
    ticks,         \* e.ticks; e.currentBP is Curve[ticks]
    participants,  \* e.participants
    subs,          \* players with an entry in e.subs
    \* the database
    rounds,        \* rows of rounds, by id, each with its rows of bets
    balance,       \* players.balance
    \* what the model counts or watches
    seen,          \* rounds whose outcome a snapshot carried
    faults,
    crashes

memory == <<roundID, crashBP, ticks, participants>>
database == <<rounds, balance>>
environment == <<faults, crashes>>
vars == <<state, pc, memory, subs, database, seen, environment>>

-----------------------------------------------------------------------------
(* Rows.  0 stands for NULL: no multiplier, payout or target is 0.         *)

NoRow == [amount |-> 0, target |-> 0, mult |-> 0, payout |-> 0]
Pending == <<>>                      \* the commit hash startRound inserts
Commit(id, bp) == <<id, bp>>         \* injective, as SHA-256 of the preimage is
NoBets == [p \in Player |-> Absent]

BetRow == [amount : Nat, target : Int, mult : Int, payout : Nat]
RoundRow == [state : {"betting", "flying", "crashed", "settled"},
             crash : Int,
             hash : {Pending} \cup ((1 .. MaxRounds) \X Int),
             bets : [Player -> BetRow]]

Participant == [amount : Nat, target : Nat, booked : BOOLEAN,
                cashedOut : BOOLEAN, mult : Nat, payout : Nat]

Bettors == {p \in Player : Joined(participants[p])}

\* CreateBet's row, and the row as SettleBet leaves it.
BetOf(part) == [amount |-> part.amount, target |-> Int32(part.target, Int32Limit),
                mult |-> 0, payout |-> 0]
Settled(row, part) ==
    [row EXCEPT !.mult = Int32(part.mult, Int32Limit), !.payout = part.payout]

-----------------------------------------------------------------------------
(* One SQL statement: answered, not executed, or executed with the answer  *)
(* lost.  The code cannot tell the last two apart.                         *)

Reply == {"ok", "failed", "lost"}

Statement(reply) ==
    IF reply = "ok"
    THEN UNCHANGED faults
    ELSE faults < MaxFaults /\ faults' = faults + 1

Executed(reply) == reply # "failed"

\* What snapshot() discloses: the outcome only while e.state is "crashed".
RevealedInFlight(st, id) == IF st \in {"flying", "crashed"} THEN {id} ELSE {}
Revealed(st, id) == IF st = "crashed" THEN {id} ELSE {}

Broadcast == seen' = seen \cup Revealed(state', roundID')

\* Every error path ends the same way: back to waitForSubscribers, silently.
GoIdleForgotten == UNCHANGED state /\ pc' = "wait"
GoIdle == state' = "idle" /\ pc' = "wait"

SetRowEverywhere(id, field, value) ==
    [r \in DOMAIN rounds |-> [rounds[r] EXCEPT ![field] = value]]
SetRow(id, field, value) == [rounds EXCEPT ![id] = [@ EXCEPT ![field] = value]]

-----------------------------------------------------------------------------
(* startRound, first half: the outcome is drawn and the row inserted.  The *)
(* memory of the round before is overwritten even when the INSERT fails.   *)

NewRow(c) == [state |-> "betting", crash |-> Int32(c, Int32Limit), hash |-> Pending,
              bets |-> [p \in Player |-> NoRow]]

StartRound(c, reply) ==
    /\ participants' = NoBets
    /\ ticks' = 0
    /\ crashBP' = c
    /\ \/ Len(rounds) < MaxRounds /\ Statement(reply)
       \/ Len(rounds) = MaxRounds /\ reply = "failed" /\ UNCHANGED faults
    /\ rounds' = IF Executed(reply) THEN Append(rounds, NewRow(c)) ELSE rounds
    /\ IF reply = "ok"
       THEN roundID' = Len(rounds) + 1 /\ pc' = "hash" /\ UNCHANGED state
       ELSE GoIdle /\ UNCHANGED roundID
    /\ UNCHANGED <<balance, seen, crashes>>

\* waitForSubscribers: only Subscribe is served, and it starts a round.
WaitSubscribe(p) ==
    /\ pc = "wait"
    /\ subs' = subs \cup {p}
    /\ \E c \in CrashPoint, reply \in Reply : StartRound(c, reply)

\* startRound, second half.  A failed UPDATE of commit_hash is only logged.
\* waitForSubscribers broadcasts afterwards, runSettle does not; until the
\* assignment of e.state the latter is still in the "crashed" of the round before.
FinishStartStaleID(reply) ==
    /\ pc = "hash"
    /\ Statement(reply)
    /\ rounds' = IF Executed(reply)
                 THEN SetRow(roundID, "hash", Commit(roundID - 1, crashBP)) ELSE rounds
    /\ state' = "betting"
    /\ pc' = "bet"
    /\ IF state = "idle" THEN Broadcast ELSE UNCHANGED seen
    /\ UNCHANGED <<memory, subs, balance, crashes>>
FinishStart(reply) ==
    /\ pc = "hash"
    /\ Statement(reply)
    /\ rounds' = IF Executed(reply)
                 THEN SetRow(roundID, "hash", Commit(roundID, crashBP)) ELSE rounds
    /\ state' = "betting"
    /\ pc' = "bet"
    /\ IF state = "idle" THEN Broadcast ELSE UNCHANGED seen
    /\ UNCHANGED <<memory, subs, balance, crashes>>

-----------------------------------------------------------------------------
(* Commands, read by runBetting and runFlying.                             *)

HandleSubscribe(p) ==
    /\ pc \in {"bet", "fly"}
    /\ subs' = subs \cup {p}
    /\ UNCHANGED <<state, pc, memory, database, environment>>
    /\ Broadcast

HandleUnsubscribeForfeits(p) ==
    /\ pc \in {"bet", "fly"}
    /\ subs' = subs \ {p}
    /\ participants' = [participants EXCEPT ![p] = Absent]
    /\ UNCHANGED <<state, pc, roundID, crashBP, ticks, database, seen, environment>>
HandleUnsubscribe(p) ==
    /\ pc \in {"bet", "fly"}
    /\ subs' = subs \ {p}
    /\ UNCHANGED <<state, pc, memory, database, seen, environment>>

PlaceBetLate(p, amount, target) ==
    /\ pc \in {"bet", "fly"}
    /\ ~Joined(participants[p])
    /\ participants' = [participants EXCEPT ![p] = FreshBet(amount, target)]
    /\ UNCHANGED <<state, pc, roundID, crashBP, ticks, subs, database, environment>>
    /\ Broadcast
PlaceBet(p, amount, target) ==
    /\ pc = "bet"
    /\ ~Joined(participants[p])
    /\ participants' = [participants EXCEPT ![p] = FreshBet(amount, target)]
    /\ UNCHANGED <<state, pc, roundID, crashBP, ticks, subs, database, environment>>
    /\ Broadcast

CashOut(p) ==
    /\ pc = "fly"
    /\ Joined(participants[p])
    /\ ~participants[p].cashedOut
    /\ participants' = [participants EXCEPT ![p] = CashedOutAt(@, Curve[ticks])]
    /\ UNCHANGED <<state, pc, roundID, crashBP, ticks, subs, database, environment>>
    /\ Broadcast

-----------------------------------------------------------------------------
(* commitBetsAndTakeoff.                                                   *)

\* Nobody bet: no transaction, and a failed UPDATE is only logged.
TakeoffNoBets(reply) ==
    /\ pc = "bet"
    /\ Bettors = {}
    /\ Statement(reply)
    /\ rounds' = IF Executed(reply) THEN SetRow(roundID, "state", "flying") ELSE rounds
    /\ state' = "flying"
    /\ pc' = "fly"
    /\ UNCHANGED <<memory, subs, balance, seen, crashes>>

\* BeginTx, a debit or an INSERT fails: rolled back, some ids already handed out.
TakeoffFailsUnrolled ==
    /\ pc = "bet"
    /\ Bettors # {}
    /\ faults < MaxFaults
    /\ faults' = faults + 1
    /\ \E done \in SUBSET Bettors :
        /\ done # Bettors
        /\ participants' = [p \in Player |-> [participants[p] EXCEPT !.booked = p \in done]]
        /\ balance' = [p \in Player |->
                         IF p \in done THEN balance[p] - participants[p].amount ELSE balance[p]]
    /\ GoIdle
    /\ UNCHANGED <<roundID, crashBP, ticks, subs, rounds, seen, crashes>>
TakeoffFailsCommitted ==
    /\ pc = "bet"
    /\ Bettors # {}
    /\ faults < MaxFaults
    /\ faults' = faults + 1
    /\ \E done \in SUBSET Bettors :
        LET part(p) == IF p \in done THEN participants[p] ELSE Absent IN
        /\ done # Bettors
        /\ participants' = [p \in Player |-> [participants[p] EXCEPT !.booked = p \in done]]
        /\ balance' = [p \in Player |-> balance[p] - part(p).amount]
        /\ rounds' = SetRow(roundID, "bets", [p \in Player |-> BetOf(part(p))])
    /\ GoIdle
    /\ UNCHANGED <<roundID, crashBP, ticks, subs, seen, crashes>>
TakeoffFails ==
    /\ pc = "bet"
    /\ Bettors # {}
    /\ faults < MaxFaults
    /\ faults' = faults + 1
    /\ \E done \in SUBSET Bettors :
        /\ done # Bettors
        /\ participants' = [p \in Player |-> [participants[p] EXCEPT !.booked = p \in done]]
    /\ GoIdle
    /\ UNCHANGED <<roundID, crashBP, ticks, subs, database, seen, crashes>>

\* All debits and inserts are in the transaction.  The UPDATE of the round
\* is sent on e.sqlDB: it is not part of the transaction.
TakeoffMarks(reply) ==
    /\ pc = "bet"
    /\ Bettors # {}
    /\ Statement(reply)
    /\ participants' = [p \in Player |-> [participants[p] EXCEPT !.booked = p \in Bettors]]
    /\ rounds' = IF Executed(reply) THEN SetRow(roundID, "state", "flying") ELSE rounds
    /\ IF reply = "ok" THEN pc' = "takeoff" /\ UNCHANGED state ELSE GoIdle
    /\ UNCHANGED <<roundID, crashBP, ticks, subs, balance, seen, crashes>>

\* The COMMIT: debits and bets become visible together.
CommitTakeoff(reply) ==
    /\ pc = "takeoff"
    /\ Statement(reply)
    /\ IF Executed(reply)
       THEN /\ balance' = [p \in Player |-> balance[p] - participants[p].amount]
            /\ rounds' = SetRow(roundID, "bets",
                                [p \in Player |-> BetOf(participants[p])])
       ELSE UNCHANGED database
    /\ IF reply = "ok" THEN state' = "flying" /\ pc' = "fly" ELSE GoIdle
    /\ UNCHANGED <<memory, subs, seen, crashes>>

-----------------------------------------------------------------------------
(* runFlying.  The auto-cashout loop runs before the crash check.          *)

TickCrashFirst ==
    LET bp == Curve[ticks + 1] IN
    /\ pc = "fly"
    /\ ticks' = ticks + 1
    /\ participants' = IF bp >= crashBP THEN participants ELSE AutoCashouts(participants, bp)
    /\ IF bp >= crashBP THEN state' = "crashed" /\ pc' = "reveal" ELSE UNCHANGED <<state, pc>>
    /\ UNCHANGED <<roundID, crashBP, subs, database, environment>>
    /\ Broadcast

TickWatched ==
    LET bp == Curve[ticks + 1] IN
    /\ pc = "fly"
    /\ subs # {}
    /\ ticks' = ticks + 1
    /\ participants' = AutoCashouts(participants, bp)
    /\ IF bp >= crashBP THEN state' = "crashed" /\ pc' = "reveal" ELSE UNCHANGED <<state, pc>>
    /\ UNCHANGED <<roundID, crashBP, subs, database, environment>>
    /\ Broadcast
Tick ==
    LET bp == Curve[ticks + 1] IN
    /\ pc = "fly"
    /\ ticks' = ticks + 1
    /\ participants' = AutoCashouts(participants, bp)
    /\ IF bp >= crashBP THEN state' = "crashed" /\ pc' = "reveal" ELSE UNCHANGED <<state, pc>>
    /\ UNCHANGED <<roundID, crashBP, subs, database, environment>>
    /\ Broadcast

\* revealOutcome, after the broadcast; an error is only logged.
Reveal(reply) ==
    /\ pc = "reveal"
    /\ Statement(reply)
    /\ rounds' = IF Executed(reply) THEN SetRow(roundID, "state", "crashed") ELSE rounds
    /\ pc' = "settle"
    /\ UNCHANGED <<state, memory, subs, balance, seen, crashes>>

-----------------------------------------------------------------------------
(* runSettle.                                                              *)

\* BeginTx, a credit or an UPDATE of a bet fails: rolled back.
SettleFails ==
    /\ pc = "settle"
    /\ faults < MaxFaults
    /\ faults' = faults + 1
    /\ GoIdle
    /\ UNCHANGED <<memory, subs, database, seen, crashes>>

\* SettleRound runs on e.db, outside the transaction that holds the payouts.
SettleRound(reply) ==
    /\ pc = "settle"
    /\ Statement(reply)
    /\ rounds' = IF Executed(reply) THEN SetRow(roundID, "state", "settled") ELSE rounds
    /\ IF reply = "ok" THEN pc' = "pay" /\ UNCHANGED state ELSE GoIdle
    /\ UNCHANGED <<memory, subs, balance, seen, crashes>>

\* A participant without a bet id is skipped.
SettledRow(row, part) == IF part.booked THEN Settled(row, part) ELSE row
Credit(part) == IF part.booked /\ part.cashedOut THEN part.payout ELSE 0

CommitSettle(reply) ==
    /\ pc = "pay"
    /\ Statement(reply)
    /\ IF Executed(reply)
       THEN /\ balance' = [p \in Player |-> balance[p] + Credit(participants[p])]
            /\ rounds' = SetRow(roundID, "bets",
                   [p \in Player |-> SettledRow(rounds[roundID].bets[p], participants[p])])
       ELSE UNCHANGED database
    /\ IF reply = "ok"
       THEN pc' = "pause" /\ UNCHANGED state /\ seen' = seen \cup Revealed(state, roundID)
       ELSE GoIdle /\ UNCHANGED seen
    /\ UNCHANGED <<memory, subs, crashes>>

\* The end of the sleep: the inbox has not been read since the crash.
ResumeIdle ==
    /\ pc = "pause"
    /\ GoIdle
    /\ UNCHANGED <<memory, subs, database, seen, environment>>
ResumeUnasked ==
    /\ pc = "pause"
    /\ \E c \in CrashPoint, reply \in Reply : StartRound(c, reply)
    /\ UNCHANGED subs
Resume ==
    /\ pc = "pause"
    /\ IF subs # {}
       THEN \E c \in CrashPoint, reply \in Reply : StartRound(c, reply)
       ELSE GoIdle /\ UNCHANGED <<memory, database, seen, environment>>
    /\ UNCHANGED subs

-----------------------------------------------------------------------------
\* The process dies (an open transaction is rolled back) and New() runs again.
Restart ==
    /\ crashes < MaxCrashes
    /\ crashes' = crashes + 1
    /\ GoIdle
    /\ roundID' = 0 /\ crashBP' = 0 /\ ticks' = 0 /\ participants' = NoBets
    /\ subs' = {}
    /\ UNCHANGED <<database, seen, faults>>

Init ==
    /\ state = "idle"
    /\ pc = "wait"
    /\ roundID = 0 /\ crashBP = 0 /\ ticks = 0 /\ participants = NoBets
    /\ subs = {}
    /\ rounds = <<>>
    /\ balance = [p \in Player |-> StartBalance]
    /\ seen = {}
    /\ faults = 0 /\ crashes = 0

\* Steps the goroutine takes on its own: a timer fires, a statement returns.
EngineStep ==
    \/ \E reply \in Reply :
        \/ FinishStart(reply)
        \/ TakeoffNoBets(reply)
        \/ TakeoffMarks(reply)
        \/ CommitTakeoff(reply)
        \/ Reveal(reply)
        \/ SettleRound(reply)
        \/ CommitSettle(reply)
    \/ TakeoffFails
    \/ Tick
    \/ SettleFails
    \/ Resume

\* Steps that answer a command of a session.
CommandStep ==
    \E p \in Player :
        \/ WaitSubscribe(p)
        \/ HandleSubscribe(p)
        \/ HandleUnsubscribe(p)
        \/ CashOut(p)
        \/ \E amount \in Amount, target \in Target : PlaceBet(p, amount, target)

Next == EngineStep \/ CommandStep \/ Restart

Spec == Init /\ [][Next]_vars

\* The goroutine is never descheduled for good: both selects have a timer
\* among their cases, and no statement blocks for ever.  Nobody is obliged
\* to send a command.
FairSpec == Spec /\ WF_vars(EngineStep)
=============================================================================
