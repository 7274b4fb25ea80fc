----------------------------- MODULE EngineProps -----------------------------
(***************************************************************************)
(* What the round engine promises.  Each property names the behaviour of   *)
(* the code it is about; EngineProofs.tla proves the safety properties,    *)
(* the MCEngine runs check all of them.                                    *)
(***************************************************************************)
EXTENDS Engine

(* Which e.state goes with which place of the goroutine, and when roundID  *)
(* names the newest row.  "settling" is a State of round.go that nothing   *)
(* in the code assigns.                                                    *)
Phase ==
    /\ pc = "wait" => state = "idle"
    /\ pc = "hash" => state \in {"idle", "crashed"}
    /\ pc \in {"bet", "takeoff"} <=> state = "betting"
    /\ pc = "fly" <=> state = "flying"
    /\ pc \in {"reveal", "settle", "pay", "pause"} => state = "crashed"
    /\ pc # "wait" => roundID = Len(rounds) /\ roundID > 0 /\ crashBP \in CrashPoint
    /\ pc = "fly" => ticks < MaxTicks

\* Types, and the correspondence between e.state and the code being run that
\* the switch of runLoop relies on.
TypeOK ==
    /\ state \in {"idle", "betting", "flying", "crashed"}
    /\ pc \in {"wait", "hash", "bet", "takeoff", "fly", "reveal", "settle", "pay", "pause"}
    /\ roundID \in 0 .. Len(rounds)
    /\ crashBP \in Nat
    /\ ticks \in 0 .. MaxTicks
    /\ participants \in [Player -> Participant]
    /\ subs \subseteq Player
    /\ rounds \in Seq(RoundRow) /\ Len(rounds) <= MaxRounds
    /\ balance \in [Player -> Int]
    /\ seen \subseteq 1 .. Len(rounds)
    /\ faults \in 0 .. MaxFaults /\ crashes \in 0 .. MaxCrashes
    /\ Phase

-----------------------------------------------------------------------------
InPlay == pc \in {"hash", "bet", "takeoff", "fly"}
Flown == pc \in {"reveal", "settle", "pay", "pause"}

\* From the draw to the crash nobody can learn the outcome: no snapshot has
\* carried it (snapshot() gates on e.state, which is still "crashed" while
\* runSettle starts the next round), and no query of the history returns the
\* row (the ListRecentRounds queries take "crashed" and "settled" rows only).
OutcomeHidden ==
    InPlay => /\ roundID \notin seen
              /\ rounds[roundID].state \in {"betting", "flying"}

\* A cashout pays what was agreed: an automatic one its own target however
\* far the tick overshot it, one by hand the multiplier on screen, which has
\* not reached the crash point yet; nothing below 1.00x or above the multiplier
\* reached.  A player still in the air has not reached the target yet.  (What
\* the crash point is to an automatic one: NothingAboveCrash, below.)
ByHand(part) == part.target = 0 \/ part.mult < part.target
PaidAsAgreed ==
    pc = "fly" \/ Flown =>
        \A p \in Player :
            LET part == participants[p] IN
            /\ part.cashedOut =>
                 /\ part.payout = PayoutOf(part.amount, part.mult)
                 /\ 100 <= part.mult /\ part.mult <= Curve[ticks]
                 /\ part.target > 0 => part.mult <= part.target
                 /\ ByHand(part) => part.mult <= crashBP
            /\ Joined(part) /\ ~part.cashedOut /\ part.target > 0 => Curve[ticks] < part.target

\* Cashout wins the tie: after the crash everybody whose target the crash
\* point reaches has been cashed out, at that target or earlier by hand.
AutoCashoutHonoured ==
    Flown => \A p \in Player :
        Joined(participants[p]) /\ participants[p].target \in 1 .. crashBP
            => participants[p].cashedOut /\ participants[p].mult <= participants[p].target

\* The bets table agrees with the engine's memory: empty for this round until
\* the takeoff commits, then one row per participant, and after the settlement
\* each with its payout.  Whoever is in the map in flight has a bet id.
BooksMatchMemory ==
    /\ pc \in {"hash", "bet", "takeoff"} => \A p \in Player : rounds[roundID].bets[p] = NoRow
    /\ pc \in {"fly", "reveal", "settle", "pay", "pause"} => \A p \in Player :
         /\ participants[p].booked <=> Joined(participants[p])
         /\ rounds[roundID].bets[p] =
              IF pc = "pause" THEN SettledRow(BetOf(participants[p]), participants[p])
                              ELSE BetOf(participants[p])

\* "proving the result was fixed before any bets were placed" (README.md:53):
\* every commitment in the table is to the crash point its row was inserted
\* with, that of the round in play is to the one the engine plays, and a round
\* ends on the first tick that reaches it, whatever failed or was lost before.
CommittedTo(r, c) ==
    /\ rounds[r].crash = Int32(c, Int32Limit)
    /\ rounds[r].hash \in {Pending, Commit(r, c)}
ProvablyFair ==
    /\ \A r \in 1 .. Len(rounds) : \E c \in CrashPoint : CommittedTo(r, c)
    /\ pc # "wait" => CommittedTo(roundID, crashBP)
    /\ Flown => /\ Curve[ticks] >= crashBP
                /\ \A t \in 1 .. ticks - 1 : Curve[t] < crashBP

\* What the inspect screen makes of the rows (inspect.go:254-255): it hashes
\* the outcome a row stores, and finds the commitment that was published.
Verifies ==
    \A r \in 1 .. Len(rounds) :
        rounds[r].hash # Pending => rounds[r].hash = Commit(r, rounds[r].crash)

-----------------------------------------------------------------------------
\* A bet's contribution to its player's balance.
Net(row) == row.payout - row.amount

\* No step moves credits without its row, or writes a row without moving the
\* credits, whatever fails, is retried or crashes in between.
MovesTogether ==
    \A p \in Player :
        balance'[p] - balance[p] =
            IF roundID = 0 THEN 0
            ELSE Net(rounds'[roundID].bets[p]) - Net(rounds[roundID].bets[p])
BooksMoveTogether == [][MovesTogether]_vars

Rank == [betting |-> 0, flying |-> 1, crashed |-> 2, settled |-> 3]

\* The history is append-only: a step touches the current round's row only,
\* moves its state forward, keeps the outcome, and writes the commitment, a
\* stake and a payout at most once.
Follows(old, new) ==
    /\ Rank[new.state] >= Rank[old.state]
    /\ new.crash = old.crash
    /\ old.hash # Pending => new.hash = old.hash
    /\ \A p \in Player :
         /\ old.bets[p].amount > 0 => /\ new.bets[p].amount = old.bets[p].amount
                                      /\ new.bets[p].target = old.bets[p].target
         /\ old.bets[p].payout > 0 => new.bets[p] = old.bets[p]
Appends ==
    \A r \in 1 .. Len(rounds) :
        /\ r <= Len(rounds')
        /\ Follows(rounds[r], rounds'[r])
        /\ rounds'[r] # rounds[r] => r = roundID
HistoryAppendOnly == [][Appends]_vars

-----------------------------------------------------------------------------
\* Sessions see the cycle of RoundLoop.tla: whatever statement fails, and
\* whenever the process restarts, a round begins only for an audience.
PhaseOf ==
    CASE pc = "wait" -> "idle"
      [] pc \in {"hash", "bet", "takeoff"} -> "betting"
      [] pc = "fly" -> "flying"
      [] OTHER -> "settling"
Loop == INSTANCE RoundLoop WITH phase <- PhaseOf, audience <- subs
LoopSpec == Loop!Spec

-----------------------------------------------------------------------------
\* Stakes and winnings move as Ledger.tla says, all of a round's or none: the
\* engine's map is what was agreed, the bets table is what is recorded.
Accepted == [p \in Player |-> participants[p].amount]
Won == [p \in Player |-> participants[p].payout]
Page(bets) == [p \in Player |-> [stake |-> bets[p].amount, payout |-> bets[p].payout]]
PagesOf(rows) == [r \in 1 .. Len(rows) |-> Page(rows[r].bets)]
Books == PagesOf(rounds)
Agreed == INSTANCE Ledger WITH
    open <- pc \in {"hash", "bet", "takeoff"},
    accepted <- Accepted, won <- Won, books <- Books
LedgerSpec == Agreed!Spec

-----------------------------------------------------------------------------
\* Liveness, when no statement fails and the process stays up.

\* A round once started is settled, whether or not anybody stays connected.
StartedRoundSettles ==
    \A r \in 1 .. MaxRounds :
        Len(rounds) >= r ~> Len(rounds) >= r /\ rounds[r].state = "settled"

\* An automatic cashout the crash point reaches is paid, connected or not.
AutoCashoutPaid ==
    \A r \in 1 .. MaxRounds, p \in Player :
        (pc = "fly" /\ roundID = r /\ participants[p].target \in 1 .. crashBP)
            ~> (Len(rounds) >= r /\ rounds[r].bets[p].payout > 0)

\* While somebody is connected (and ids are left) the betting opens again.
OpensForConnected ==
    (subs # {} /\ Len(rounds) < MaxRounds) ~> (subs = {} \/ pc = "bet")

-----------------------------------------------------------------------------
\* What the documentation says and the code does not do.

\* README.md:23, the plane flies away at a pre-determined multiplier and anyone
\* still in loses: nobody is paid a multiplier above it.  The loop of automatic
\* cashouts runs before the crash check and compares with the tick, which may
\* be past the crash point and past a target beyond it.
NothingAboveCrash ==
    Flown => \A p \in Player : participants[p].cashedOut => participants[p].mult <= crashBP

\* README.md:24, a settled round is one whose payouts are written (while the
\* settlement's own transaction is open, pc = "pay", nothing is claimed).
SettledMeansPaid ==
    (roundID > 0 /\ pc # "pay") =>
        (rounds[roundID].state = "settled" =>
            \A p \in Player : participants[p].cashedOut =>
                rounds[roundID].bets[p].payout = participants[p].payout)

-----------------------------------------------------------------------------
(* The inductive invariant of EngineProofs.tla.  Beside the properties it  *)
(* needs what each phase leaves for the next one.                          *)

\* The participants' records: nothing is written to one before its cashout.
RecordsClean ==
    \A p \in Player :
        /\ participants[p].target \in Target \cup {0}
        /\ ~Joined(participants[p]) => participants[p].target = 0
        /\ ~participants[p].cashedOut => participants[p].mult = 0 /\ participants[p].payout = 0

\* What startRound and the betting window hand to the takeoff.
BeforeFlight ==
    /\ pc \in {"hash", "bet", "takeoff"} =>
         ticks = 0 /\ \A p \in Player : ~participants[p].cashedOut
    /\ pc = "hash" => rounds[roundID].hash = Pending
    /\ pc \in {"hash", "bet"} => \A p \in Player : ~participants[p].booked
    /\ pc = "takeoff" => \A p \in Player : participants[p].booked <=> Joined(participants[p])
    /\ pc = "fly" => Curve[ticks] <= crashBP

\* How far the round's row can have come; failed UPDATEs leave it behind.
RowFollows ==
    /\ pc \in {"hash", "bet"} => rounds[roundID].state = "betting"
    /\ pc \in {"takeoff", "fly", "reveal"} => rounds[roundID].state \in {"betting", "flying"}
    /\ pc = "settle" => rounds[roundID].state # "settled"

IInv ==
    /\ TypeOK
    /\ OutcomeHidden
    /\ PaidAsAgreed
    /\ AutoCashoutHonoured
    /\ BooksMatchMemory
    /\ RecordsClean
    /\ BeforeFlight
    /\ RowFollows

\* ProvablyFair is inductive on top of IInv once the flight says that no tick
\* so far has reached the crash point.
FairInv ==
    /\ ProvablyFair
    /\ pc = "fly" => \A t \in 1 .. ticks : Curve[t] < crashBP
=============================================================================
