------------------------------- MODULE BetForm -------------------------------
(***************************************************************************)
(* The bet form of one player's program (internal/tui/bet.go and game.go), *)
(* what the snapshots and the refreshed player do to it (Update in         *)
(* model.go), and the engine as far as this player's bets depend on it.    *)
(*                                                                         *)
(* The program takes snapshots from a channel that may skip some of them   *)
(* and keeps the newest (LatestWins.tla); a snapshot is its state and its  *)
(* round, and one that repeats the last is a stuttering step.  Bets and    *)
(* cashouts wait in the engine's inbox, which is not read while a round is *)
(* settled.  Each change of state seen by the program starts a query of    *)
(* the player's row; queries are answered late and in any order.           *)
(*                                                                         *)
(* What is typed is its value: 0 for a form parseValues cannot parse.      *)
(*                                                                         *)
(* g.root, through which the form reads the player, is the copy of Model   *)
(* made in New, which Update never writes: Login is its balance.           *)
(*                                                                         *)
(* Faulty variants stand before their definitions (README.md, "Mutants").  *)
(***************************************************************************)
EXTENDS Integers, Sequences

CONSTANTS
    Value,        \* what can be typed
    Login,        \* the balance when the session began
    Cap,          \* the channel: frames that differ
    InboxCap,     \* the inbox: this player's commands
    Prompt,       \* TRUE if the program sees every window and flight
    EngineFails,  \* TRUE if the engine's statements may fail
    MaxQueries,   \* bound: queries under way
    MaxRounds     \* bound: rounds

ASSUME ValueAssumption == Value \subseteq Nat /\ 0 \in Value
ASSUME LoginAssumption == Login \in Nat
ASSUME CapAssumption == Cap \in Nat \ {0} /\ InboxCap \in Nat \ {0}
ASSUME SettingAssumption == Prompt \in BOOLEAN /\ EngineFails \in BOOLEAN
ASSUME BoundAssumption == MaxQueries \in Nat /\ MaxRounds \in Nat \ {0}

VARIABLES
    \* the engine
    phase,      \* where the engine is
    round,      \* e.roundID, counted from 1 at the session's beginning
    entry,      \* the stake in the map of participants, 0 for none
    cashed,     \* CashedOut of that participant
    balance,    \* players.balance
    inbox,      \* commands under way: a stake, or CashOut
    news,       \* snapshots under way, oldest first
    \* the program
    snap,       \* state and round of m.lastSnap and g.snap
    value,      \* amountStr and acStr
    queued,     \* b.queued
    placed,     \* b.placedThisRound
    err,        \* b.err # ""
    maxBet,     \* b.maxBet
    shown,      \* m.player.Balance, the balance in the header
    queries,    \* queries of the player's row under way
    \* what the model watches
    sentRound   \* the round on screen when the last bet was sent, 0 before

engine == <<phase, round, entry, cashed, balance>>
form == <<value, queued, placed, err, maxBet, sentRound>>
vars == <<engine, inbox, news, snap, form, shown, queries>>

CashOut == 0
Query == 1 .. MaxQueries
NoQuery == [step |-> "none", balance |-> 0]
Asked == [step |-> "asked", balance |-> 0]
Answer(b) == [step |-> "read", balance |-> b]

\* The engine has just read this session's Subscribe.  The player may be in the
\* round already, from a session before; an idle engine may have failed to start
\* a round.  The program's first snapshot is the zero value.
Init ==
    /\ phase \in {"betting", "flying"} \cup (IF EngineFails THEN {"idle"} ELSE {})
    /\ round = 1 /\ cashed = FALSE
    /\ entry \in IF phase = "idle" THEN {0} ELSE Value
    /\ balance = Login
    /\ inbox = <<>> /\ news = <<>>
    /\ snap = [state |-> "idle", round |-> 0]
    /\ value = 0
    /\ queued = FALSE /\ placed = FALSE /\ err = FALSE
    /\ maxBet = Login /\ shown = Login
    /\ queries = [q \in Query |-> NoQuery]
    /\ sentRound = 0

-----------------------------------------------------------------------------
(* The engine; Engine.tla has the details.                                 *)

\* The state a snapshot carries.
Frame == [state |-> IF phase \in {"crashed", "pause"} THEN "crashed" ELSE phase,
          round |-> round]
Told == IF news = <<>> THEN snap ELSE news[Len(news)]

\* A COMMIT: applied or not, and what the engine hears of it.
Replies == {r \in [executed : BOOLEAN, ok : BOOLEAN] :
               /\ r.ok => r.executed
               /\ ~EngineFails => r.ok}

\* broadcast: a snapshot is sent, and any number of the oldest under way are
\* lost.  One that repeats the last changes nothing.
SendFrameUndropped == news' = IF Frame = Told THEN news ELSE Append(news, Frame)
SendFrame ==
    LET all == Append(news, Frame) IN
    IF Frame = Told
    THEN UNCHANGED news
    ELSE \E k \in 1 .. Len(all) :
             /\ Len(all) - k < Cap
             /\ news' = SubSeq(all, k, Len(all))

Publish ==
    /\ phase # "idle"
    /\ SendFrame
    /\ UNCHANGED <<engine, inbox, snap, form, shown, queries>>

\* Somebody subscribes to an idle engine, or the pause ends.
BeginRound ==
    /\ phase \in {"idle", "pause"}
    /\ round < MaxRounds
    /\ phase' = "betting" /\ round' = round + 1
    /\ entry' = 0 /\ cashed' = FALSE
    /\ UNCHANGED <<balance, inbox, news, snap, form, shown, queries>>

\* The same, and the round's row cannot be inserted: the map is empty already.
\* waitForSubscribers broadcasts all the same, runSettle does not.
BeginFails ==
    /\ EngineFails
    /\ phase \in {"idle", "pause"}
    /\ phase' = "idle"
    /\ entry' = 0 /\ cashed' = FALSE
    /\ IF phase = "idle" THEN SendFrame ELSE UNCHANGED news
    /\ UNCHANGED <<round, balance, inbox, snap, form, shown, queries>>

\* The end of the betting window.
TakeOff(reply) ==
    /\ phase = "betting"
    /\ Prompt => snap = Frame
    /\ balance' = IF reply.executed THEN balance - entry ELSE balance
    /\ phase' = IF reply.ok THEN "flying" ELSE "idle"
    /\ UNCHANGED <<round, entry, cashed, inbox, news, snap, form, shown, queries>>

\* An automatic cashout, or the crash.
AutoCashout ==
    /\ phase = "flying"
    /\ entry > 0 /\ ~cashed
    /\ cashed' = TRUE
    /\ UNCHANGED <<phase, round, entry, balance, inbox, news, snap, form, shown, queries>>
Crash ==
    /\ phase = "flying"
    /\ Prompt => snap = Frame
    /\ phase' = "crashed"
    /\ UNCHANGED <<round, entry, cashed, balance, inbox, news, snap, form, shown, queries>>

\* A payout of twice the stake stands for all of them.
Settle(reply) ==
    /\ phase = "crashed"
    /\ balance' = IF reply.executed /\ cashed THEN balance + 2 * entry ELSE balance
    /\ phase' = IF reply.ok THEN "pause" ELSE "idle"
    /\ UNCHANGED <<round, entry, cashed, inbox, news, snap, form, shown, queries>>

\* handleCmd, and waitForSubscribers, which throws commands away.
Handle ==
    /\ phase \in {"idle", "betting", "flying"}
    /\ inbox # <<>>
    /\ inbox' = Tail(inbox)
    /\ entry' = IF phase = "betting" /\ entry = 0 THEN Head(inbox) ELSE entry
    /\ cashed' = (cashed \/ (phase = "flying" /\ entry > 0 /\ Head(inbox) = CashOut))
    /\ UNCHANGED <<phase, round, balance, news, snap, form, shown, queries>>

-----------------------------------------------------------------------------
(* The form.                                                               *)

\* parseValues.
Valid(max) == value > 0 /\ value <= max

\* PlaceBet and CashOut: a blocking send.
SendOrDrop(command) ==
    inbox' = IF Len(inbox) < InboxCap THEN Append(inbox, command) ELSE inbox
Send(command) == Len(inbox) < InboxCap /\ inbox' = Append(inbox, command)

\* submitNow and autoSubmitQueue, on the round r.
Submit(r) ==
    /\ Send(value)
    /\ placed' = TRUE /\ queued' = FALSE /\ err' = FALSE
    /\ sentRound' = r

\* onSnapshot when the betting window opens.
AutoSubmitUnmarked(r) ==
    IF Valid(Login)
    THEN Send(value) /\ queued' = FALSE /\ err' = FALSE /\ sentRound' = r /\ UNCHANGED placed
    ELSE err' = TRUE /\ queued' = FALSE /\ UNCHANGED <<placed, sentRound, inbox>>
AutoSubmitSilent(r) ==
    IF Valid(Login)
    THEN Submit(r)
    ELSE queued' = FALSE /\ UNCHANGED <<err, placed, sentRound, inbox>>
AutoSubmit(r) ==
    IF Valid(Login)
    THEN Submit(r)
    ELSE err' = TRUE /\ queued' = FALSE /\ UNCHANGED <<placed, sentRound, inbox>>

OpenForm(r) ==
    /\ maxBet' = Login
    /\ IF queued
       THEN AutoSubmit(r)
       ELSE placed' = FALSE /\ UNCHANGED <<queued, err, sentRound, inbox>>
    /\ UNCHANGED value

\* Update on a SnapshotMsg: the form first, then a query if the state changed.
TakeSnapshot ==
    /\ news # <<>>
    /\ snap' = Head(news)
    /\ news' = Tail(news)
    /\ IF snap'.state = "betting" /\ snap.state # "betting"
       THEN OpenForm(snap'.round)
       ELSE UNCHANGED <<inbox, form>>
    /\ IF snap'.state # snap.state
       THEN \E q \in Query : /\ queries[q] = NoQuery
                             /\ queries' = [queries EXCEPT ![q] = Asked]
       ELSE UNCHANGED queries
    /\ UNCHANGED <<engine, shown>>

\* Keys that change the fields.
Edit(v) ==
    /\ value' = v
    /\ err' = FALSE
    /\ UNCHANGED <<engine, inbox, news, snap, queued, placed, maxBet, sentRound, shown, queries>>

Escape ==
    /\ queued
    /\ queued' = FALSE /\ err' = FALSE
    /\ UNCHANGED <<engine, inbox, news, snap, value, placed, maxBet, sentRound, shown, queries>>

\* Enter submits in a betting window not used yet, and queues otherwise.
Enter ==
    /\ IF ~Valid(maxBet)
       THEN err' = TRUE /\ UNCHANGED <<inbox, queued, placed, sentRound>>
       ELSE IF snap.state = "betting" /\ ~placed
            THEN Submit(snap.round)
            ELSE queued' = TRUE /\ err' = FALSE /\ UNCHANGED <<inbox, placed, sentRound>>
    /\ UNCHANGED <<engine, news, snap, value, maxBet, shown, queries>>

Space ==
    /\ snap.state = "flying"
    /\ Send(CashOut)
    /\ UNCHANGED <<engine, news, snap, form, shown, queries>>

-----------------------------------------------------------------------------
(* refreshPlayerCmd: a failed query is dropped, an answer is shown and     *)
(* becomes the form's maximum.                                             *)

ReadRow(q) ==
    /\ queries[q] = Asked
    /\ queries' = [queries EXCEPT ![q] = Answer(balance)]
    /\ UNCHANGED <<engine, inbox, news, snap, form, shown>>
QueryFails(q) ==
    /\ queries[q] = Asked
    /\ queries' = [queries EXCEPT ![q] = NoQuery]
    /\ UNCHANGED <<engine, inbox, news, snap, form, shown>>

Refresh(q) ==
    /\ queries[q].step = "read"
    /\ shown' = queries[q].balance
    /\ maxBet' = queries[q].balance
    /\ queries' = [queries EXCEPT ![q] = NoQuery]
    /\ UNCHANGED <<engine, inbox, news, snap, value, queued, placed, err, sentRound>>

-----------------------------------------------------------------------------
EngineStep ==
    \/ BeginRound
    \/ AutoCashout
    \/ Crash
    \/ BeginFails
    \/ Handle
    \/ Publish
    \/ \E reply \in Replies : TakeOff(reply) \/ Settle(reply)

KeyStep == Escape \/ Enter \/ Space \/ \E v \in Value : Edit(v)

QueryStep == \E q \in Query : ReadRow(q) \/ QueryFails(q) \/ Refresh(q)

Next == EngineStep \/ TakeSnapshot \/ KeyStep \/ QueryStep

Spec == Init /\ [][Next]_vars

-----------------------------------------------------------------------------
Snap == [state : {"idle", "betting", "flying", "crashed"}, round : 0 .. MaxRounds]

\* Types; channel and inbox keep to their capacity.
TypeOK ==
    /\ phase \in {"idle", "betting", "flying", "crashed", "pause"}
    /\ round \in 1 .. MaxRounds
    /\ entry \in Value /\ cashed \in BOOLEAN
    /\ balance \in Int
    /\ inbox \in Seq(Value) /\ Len(inbox) <= InboxCap
    /\ news \in Seq(Snap) /\ Len(news) <= Cap
    /\ snap \in Snap
    /\ value \in Value
    /\ queued \in BOOLEAN /\ placed \in BOOLEAN /\ err \in BOOLEAN
    /\ maxBet \in Int /\ shown \in Int
    /\ queries \in [Query -> [step : {"none", "asked", "read"}, balance : Int]]
    /\ sentRound \in 0 .. MaxRounds

\* A bet leaves the form.
BetSent == Len(inbox') > Len(inbox) /\ inbox'[Len(inbox')] # CashOut

\* Whatever is typed, queued, confirmed twice, skipped or refreshed late, the
\* form sends at most one bet for each round the player sees.
OneBetPerRound == [][BetSent => sentRound < snap'.round]_vars

\* A queued bet is never dropped silently: it leaves the queue when it is sent,
\* when its refusal is reported (autoSubmitQueue), or by Escape; and it leaves
\* it at the latest when the screen goes over to a betting window from anything
\* else.  From window to window, when the flight between is skipped or the
\* takeoff failed, onSnapshot sees no window open and keeps the bet.
Opens == snap.state # "betting" /\ snap'.state = "betting"
ServesQueue ==
    queued => /\ ~queued' => BetSent \/ err' \/ Escape
              /\ Opens => ~queued'
QueueServed == [][ServesQueue]_vars

\* A bet sent for the open window is in the map once the inbox is read: it is
\* lost only to a bet that came before it or to the end of the window.
SentIsEntered ==
    (phase = "betting" /\ sentRound = round /\ \A i \in 1 .. Len(inbox) : inbox[i] = CashOut)
        => entry > 0

-----------------------------------------------------------------------------
\* What a comment in the code says and the code does not do.

\* game.go:36, "Refresh per-round balance", and bet.go:98, "Maximum bet is":
\* no bet is sent above the balance the player is shown.
StakeCovered == [][BetSent => inbox'[Len(inbox')] <= shown]_vars
=============================================================================
