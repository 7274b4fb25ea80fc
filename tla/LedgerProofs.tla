---------------------------- MODULE LedgerProofs ----------------------------
(***************************************************************************)
(* The engine implements Ledger.tla: each of its steps, a failed one or a  *)
(* restart included, is a step of the ledger or does not show there.  And  *)
(* every balance is what the whole history of bets adds up to.             *)
(***************************************************************************)
EXTENDS EngineProofs, SequenceTheorems

-----------------------------------------------------------------------------
(* The books, as the rows of the rounds table give them.                   *)

\* A row of bets is a page of the books.
LEMMA PageType ==
    ASSUME NEW bets \in [Player -> BetRow]
    PROVE  Page(bets) \in [Player -> Agreed!Entry]
BY DEF Page, Agreed!Entry, BetRow

\* There is one page for each round.
LEMMA PagesType ==
    ASSUME NEW rows \in Seq(RoundRow)
    PROVE  /\ PagesOf(rows) \in Seq([Player -> Agreed!Entry])
           /\ Len(PagesOf(rows)) = Len(rows)
           /\ \A r \in 1 .. Len(rows) : PagesOf(rows)[r] = Page(rows[r].bets)
<1> DEFINE S == [Player -> Agreed!Entry]
<1>1. \A r \in 1 .. Len(rows) : Page(rows[r].bets) \in S
    <2>1. \A row \in RoundRow : row.bets \in [Player -> BetRow]
        BY DEF RoundRow
    <2>2. \A r \in 1 .. Len(rows) : rows[r] \in RoundRow
        OBVIOUS
    <2>3. QED BY <2>1, <2>2, PageType
<1> HIDE DEF S
<1>2. Len(rows) \in Nat /\ PagesOf(rows) \in [1 .. Len(rows) -> S]
    BY <1>1 DEF PagesOf
<1>3. PagesOf(rows) \in Seq(S)
    BY <1>2, SeqDef
<1>4. DOMAIN PagesOf(rows) = 1 .. Len(PagesOf(rows)) /\ Len(PagesOf(rows)) \in Nat
    BY <1>3, LenProperties
<1>5. DOMAIN PagesOf(rows) = 1 .. Len(rows)
    BY DEF PagesOf
<1>6. Len(PagesOf(rows)) = Len(rows)
    BY <1>2, <1>4, <1>5
<1>7. QED BY <1>3, <1>6 DEF PagesOf, S

\* What does not touch the bets does not show in the books.
LEMMA PagesKept ==
    ASSUME NEW rows, NEW new, Len(new) = Len(rows),
           \A r \in 1 .. Len(rows) : new[r].bets = rows[r].bets
    PROVE  PagesOf(new) = PagesOf(rows)
BY DEF PagesOf

\* The bets of a round rewritten are its page rewritten.
LEMMA PageWritten ==
    ASSUME NEW rows \in Seq(RoundRow), NEW new, NEW n \in 1 .. Len(rows),
           Len(new) = Len(rows),
           \A r \in 1 .. Len(rows) : r # n => new[r] = rows[r]
    PROVE  PagesOf(new) = [PagesOf(rows) EXCEPT ![n] = Page(new[n].bets)]
BY DEF PagesOf

\* A row added is a page added.
LEMMA PageAdded ==
    ASSUME NEW rows \in Seq(RoundRow), NEW row \in RoundRow
    PROVE  PagesOf(Append(rows, row)) = Append(PagesOf(rows), Page(row.bets))
<1> DEFINE S == [Player -> Agreed!Entry]
           new == Append(rows, row)
           page == Page(row.bets)
<1>1. /\ new \in Seq(RoundRow) /\ Len(new) = Len(rows) + 1 /\ new[Len(rows) + 1] = row
      /\ \A r \in 1 .. Len(rows) : new[r] = rows[r]
    BY RowInserted
<1>2. /\ PagesOf(new) \in Seq(S) /\ Len(PagesOf(new)) = Len(rows) + 1
      /\ \A r \in 1 .. Len(rows) + 1 : PagesOf(new)[r] = Page(new[r].bets)
    BY <1>1, PagesType
<1>3. /\ PagesOf(rows) \in Seq(S) /\ Len(PagesOf(rows)) = Len(rows)
      /\ \A r \in 1 .. Len(rows) : PagesOf(rows)[r] = Page(rows[r].bets)
    BY PagesType
<1>4. page \in S
    BY PageType DEF RoundRow
<1>5. Len(rows) \in Nat
    OBVIOUS
<1> HIDE DEF new, page, S
<1>6. /\ Append(PagesOf(rows), page) \in Seq(S)
      /\ Len(Append(PagesOf(rows), page)) = Len(rows) + 1
      /\ Append(PagesOf(rows), page)[Len(rows) + 1] = page
      /\ \A r \in 1 .. Len(rows) : Append(PagesOf(rows), page)[r] = PagesOf(rows)[r]
    BY <1>3, <1>4, RowInserted
<1>7. \A r \in 1 .. Len(rows) + 1 : PagesOf(new)[r] = Append(PagesOf(rows), page)[r]
    <2>1. \A r \in 1 .. Len(rows) : PagesOf(new)[r] = Append(PagesOf(rows), page)[r]
        BY <1>1, <1>2, <1>3, <1>5, <1>6
    <2>2. PagesOf(new)[Len(rows) + 1] = page
        BY <1>1, <1>2, <1>5 DEF page
    <2>3. QED BY <2>1, <2>2, <1>5, <1>6
<1>8. PagesOf(new) = Append(PagesOf(rows), page)
    BY <1>2, <1>6, <1>7, SeqEqual
<1>9. QED BY <1>8 DEF new, page

-----------------------------------------------------------------------------
(* What each phase makes of the ledger.                                    *)

\* From the round's start to the takeoff its page is blank and nothing is won;
\* from the takeoff to the payment it holds the stakes.
LEMMA PageOfPhase ==
    ASSUME IInv, pc # "wait"
    PROVE  /\ Agreed!Newest = roundID
           /\ roundID \in 1 .. Len(rounds) /\ Books \in Seq([Player -> Agreed!Entry])
           /\ pc \in {"hash", "bet", "takeoff"} => /\ Agreed!NewestIs(Agreed!Blank)
                                                 /\ Won = Agreed!Nothing
           /\ pc \in {"fly", "reveal", "settle", "pay"} => Agreed!NewestIs(Agreed!Taken)
<1>1. /\ roundID = Len(rounds) /\ roundID \in 1 .. Len(rounds) /\ rounds \in Seq(RoundRow)
    BY DEF IInv, TypeOK, Phase
<1>2. /\ Books \in Seq([Player -> Agreed!Entry]) /\ Len(Books) = Len(rounds)
      /\ Books[roundID] = Page(rounds[roundID].bets)
    BY <1>1, PagesType DEF Books
<1>3. Agreed!Newest = roundID /\ Books # <<>>
    BY <1>1, <1>2 DEF Agreed!Newest
<1>4. CASE pc \in {"hash", "bet", "takeoff"}
    <2>1. Page(rounds[roundID].bets) = Agreed!Blank
        BY <1>4 DEF IInv, BooksMatchMemory, Page, Agreed!Blank, NoRow
    <2>2. Won = Agreed!Nothing
        BY <1>4 DEF IInv, BeforeFlight, RecordsClean, Won, Agreed!Nothing
    <2>3. QED BY <1>1, <1>2, <1>3, <1>4, <2>1, <2>2 DEF Agreed!NewestIs
<1>5. CASE pc \in {"fly", "reveal", "settle", "pay"}
    <2>1. \A p \in Player : rounds[roundID].bets[p] = BetOf(participants[p])
        BY <1>5 DEF IInv, BooksMatchMemory
    <2>2. \A p \in Player : BetOf(participants[p]).amount = participants[p].amount
                           /\ BetOf(participants[p]).payout = 0
        BY DEF BetOf
    <2>3. Page(rounds[roundID].bets) = Agreed!Taken
        BY <2>1, <2>2 DEF Page, Agreed!Taken, Accepted
    <2>4. QED BY <1>1, <1>2, <1>3, <1>5, <2>3 DEF Agreed!NewestIs
<1>6. QED BY <1>1, <1>2, <1>3, <1>4, <1>5

\* What the ledger sees of a step that changes neither the bets of a round, nor
\* a participant's stake or payout.
LEMMA Unseen ==
    ASSUME IInv, Len(rounds') = Len(rounds),
           \A r \in 1 .. Len(rounds) : rounds'[r].bets = rounds[r].bets,
           balance' = balance,
           \A p \in Player : /\ participants'[p].amount = participants[p].amount
                             /\ participants'[p].payout = participants[p].payout
    PROVE  UNCHANGED <<Accepted, Won, Books, balance>>
<1>1. Books' = Books
    BY PagesKept DEF Books
<1>2. QED BY <1>1 DEF Accepted, Won

\* An UPDATE of a round's state or commitment does not change its bets.
LEMMA UpdateUnseen ==
    ASSUME IInv, pc # "wait", NEW reply \in Reply,
           \/ FinishStart(reply) \/ TakeoffNoBets(reply) \/ TakeoffMarks(reply)
           \/ Reveal(reply) \/ SettleRound(reply)
    PROVE  /\ Len(rounds') = Len(rounds)
           /\ \A r \in 1 .. Len(rounds) : rounds'[r].bets = rounds[r].bets
<1>1. /\ rounds \in Seq(RoundRow) /\ roundID \in 1 .. Len(rounds) /\ Len(rounds) <= MaxRounds
      /\ crashBP \in Int
    BY CurrentRow DEF IInv, TypeOK
<1>2. CASE rounds' = rounds
    BY <1>2
<1>3. ASSUME NEW st \in {"flying", "crashed", "settled"}, rounds' = SetRow(roundID, "state", st)
      PROVE  /\ Len(rounds') = Len(rounds)
             /\ \A r \in 1 .. Len(rounds) : rounds'[r].bets = rounds[r].bets
    <2>1. /\ Len(rounds') = Len(rounds) /\ rounds'[roundID].bets = rounds[roundID].bets
          /\ \A r \in 1 .. Len(rounds) : r # roundID => rounds'[r] = rounds[r]
        BY <1>1, <1>3, SetRowState
    <2>2. QED BY <2>1
<1>4. CASE rounds' = SetRow(roundID, "hash", Commit(roundID, crashBP))
    <2> DEFINE new == SetRow(roundID, "hash", Commit(roundID, crashBP))
    <2>1. /\ Len(new) = Len(rounds) /\ new[roundID].bets = rounds[roundID].bets
          /\ \A r \in 1 .. Len(rounds) : r # roundID => new[r] = rounds[r]
        BY <1>1, SetRowHash
    <2>2. rounds' = new
        BY <1>4
    <2> HIDE DEF new
    <2>3. QED BY <2>1, <2>2
<1>5. QED
    BY <1>2, <1>3, <1>4 DEF FinishStart, TakeoffNoBets, TakeoffMarks, Reveal, SettleRound

-----------------------------------------------------------------------------
(* The steps that show.                                                    *)

\* startRound makes nothing owed, and adds a blank page or none.
LEMMA StartRoundBegins ==
    ASSUME IInv, NEW c \in CrashPoint, NEW reply \in Reply, StartRound(c, reply)
    PROVE  Agreed!Begin
<1> USE DEF StartRound
<1>1. Accepted' = Agreed!Nothing /\ Won' = Agreed!Nothing
    BY DEF Accepted, Won, NoBets, Absent, Agreed!Nothing
<1>2. Books' \in {Books, Append(Books, Agreed!Blank)}
    <2>1. Page(NewRow(c).bets) = Agreed!Blank
        BY DEF Page, NewRow, NoRow, Agreed!Blank
    <2>2. NewRow(c) \in RoundRow /\ rounds \in Seq(RoundRow)
        BY NewRowType DEF IInv, TypeOK
    <2>3. PagesOf(Append(rounds, NewRow(c))) = Append(PagesOf(rounds), Agreed!Blank)
        BY <2>1, <2>2, PageAdded
    <2>4. rounds' = rounds \/ rounds' = Append(rounds, NewRow(c))
        OBVIOUS
    <2> HIDE DEF StartRound
    <2>5. QED BY <2>3, <2>4 DEF Books
<1>3. balance' = balance
    OBVIOUS
<1> HIDE DEF StartRound
<1>4. QED BY <1>1, <1>2, <1>3 DEF Agreed!Begin

\* So does a restart, which adds none.
LEMMA RestartBegins ==
    ASSUME IInv, Restart
    PROVE  Agreed!Begin
<1>1. Accepted' = Agreed!Nothing /\ Won' = Agreed!Nothing
    BY DEF Restart, Accepted, Won, NoBets, Absent, Agreed!Nothing
<1>2. Books' = Books /\ balance' = balance
    BY DEF Restart, database, Books
<1>3. QED BY <1>1, <1>2 DEF Agreed!Begin

\* A bet is accepted while the window is open, once for each player.
LEMMA PlaceBetBets ==
    ASSUME IInv, NEW p \in Player, NEW amount \in Amount, NEW target \in Target,
           PlaceBet(p, amount, target)
    PROVE  Agreed!Bet(p)
<1> USE DEF PlaceBet, database
<1>1. pc = "bet" /\ pc' = pc /\ Books' = Books /\ balance' = balance
    BY DEF Books
<1>2. Agreed!NewestIs(Agreed!Blank) /\ Won = Agreed!Nothing
    BY <1>1, PageOfPhase
<1>3. participants \in [Player -> Participant]
    BY DEF IInv, TypeOK
<1>4. participants[p].amount = 0
    BY <1>3 DEF Joined, Participant
<1>5. Accepted' = [Accepted EXCEPT ![p] = amount]
    BY <1>3 DEF Accepted, FreshBet
<1>6. Won' = Won
    <2>1. participants[p].payout = 0
        BY <1>1 DEF IInv, BeforeFlight, RecordsClean
    <2>2. QED BY <1>3, <2>1 DEF Won, FreshBet
<1>7. Accepted[p] = 0 /\ Accepted'[p] = amount /\ amount \in Nat \ {0}
    BY <1>4, <1>5, AmountAssumption DEF Accepted
<1> HIDE DEF PlaceBet
<1>8. QED BY <1>1, <1>2, <1>5, <1>6, <1>7 DEF Agreed!Bet

\* A payout at 1.00x or more is no less than the stake.
LEMMA PayoutCoversStake ==
    ASSUME NEW a \in Nat, NEW bp \in Nat, 100 <= bp
    PROVE  PayoutOf(a, bp) \in Nat /\ PayoutOf(a, bp) >= a
<1>1. a * bp >= a * 100 /\ a * bp \in Nat
    OBVIOUS
<1>2. QED BY <1>1 DEF PayoutOf

\* A cashout in flight, of anybody: what it owes covers the stake taken.
LEMMA CashOutsWin ==
    ASSUME IInv, IInv', pc = "fly", pc' \in {"fly", "reveal"}, UNCHANGED database,
           \A p \in Player :
               \/ participants'[p] = participants[p]
               \/ /\ Joined(participants[p]) /\ ~participants[p].cashedOut
                  /\ participants'[p].amount = participants[p].amount
                  /\ participants'[p].cashedOut
    PROVE  Agreed!Win
<1>1. Agreed!NewestIs(Agreed!Taken)
    BY PageOfPhase
<1>2. /\ participants \in [Player -> Participant] /\ participants' \in [Player -> Participant]
      /\ PaidAsAgreed' /\ (pc = "fly" \/ Flown)'
    BY DEF IInv, TypeOK, Flown
<1>3. Accepted' = Accepted /\ Books' = Books /\ balance' = balance
    BY DEF Accepted, Books, database
<1>4. Won' \in [Player -> Nat]
    BY <1>2 DEF Won, Participant
<1>5. ASSUME NEW p \in Player, Won'[p] # Won[p]
      PROVE  Won[p] = 0 /\ Accepted[p] > 0 /\ Won'[p] >= Accepted[p]
    <2>1. /\ Joined(participants[p]) /\ ~participants[p].cashedOut
          /\ participants'[p].amount = participants[p].amount
          /\ participants'[p].cashedOut
        BY <1>5 DEF Won
    <2>2. participants[p].payout = 0
        BY <2>1 DEF IInv, RecordsClean
    <2>3. /\ participants'[p].payout = PayoutOf(participants'[p].amount, participants'[p].mult)
          /\ 100 <= participants'[p].mult
          /\ participants'[p].amount \in Nat /\ participants'[p].mult \in Nat
        BY <1>2, <2>1 DEF PaidAsAgreed, Participant
    <2>4. participants'[p].payout >= participants'[p].amount
        BY <2>3, PayoutCoversStake
    <2>5. QED BY <2>1, <2>2, <2>4 DEF Won, Accepted, Joined
<1>6. QED BY <1>1, <1>3, <1>4, <1>5 DEF Agreed!Win

\* The COMMIT of the takeoff takes every stake; without it there is none taken.
LEMMA TakeoffTakes ==
    ASSUME IInv, NEW reply \in Reply, CommitTakeoff(reply)
    PROVE  Agreed!Take \/ Agreed!Close
<1> USE DEF CommitTakeoff, memory, database
<1>1. pc = "takeoff" /\ pc' \in {"fly", "wait"} /\ UNCHANGED <<Accepted, Won>>
    BY DEF GoIdle, Accepted, Won
<1>2. CASE ~Executed(reply)
    BY <1>1, <1>2 DEF Agreed!Close, Books
<1>3. CASE Executed(reply)
    <2> DEFINE bets == [p \in Player |-> BetOf(participants[p])]
    <2>1. /\ rounds \in Seq(RoundRow) /\ bets \in [Player -> BetRow]
          /\ Agreed!Newest = roundID /\ roundID \in 1 .. Len(rounds)
          /\ Agreed!NewestIs(Agreed!Blank)
        BY <1>1, PageOfPhase, BetRowType DEF IInv, TypeOK
    <2>2. Page(bets) = Agreed!Taken
        BY DEF Page, Agreed!Taken, Accepted, BetOf
    <2>3. rounds' = SetRow(roundID, "bets", bets)
        BY <1>3
    <2>4. balance' = [p \in Player |-> balance[p] - Accepted[p]]
        BY <1>3 DEF Accepted
    <2> HIDE DEF bets, CommitTakeoff
    <2>5. /\ Len(rounds') = Len(rounds) /\ rounds'[roundID].bets = bets
          /\ \A r \in 1 .. Len(rounds) : r # roundID => rounds'[r] = rounds[r]
        BY <2>1, <2>3, SetRowBets
    <2>6. Books' = [Books EXCEPT ![Agreed!Newest] = Agreed!Taken]
        BY <2>1, <2>2, <2>5, PageWritten DEF Books
    <2>7. QED BY <1>1, <2>1, <2>4, <2>6 DEF Agreed!Take
<1>4. QED BY <1>2, <1>3

\* The COMMIT of the settlement pays every winner what the round owes, together.
LEMMA SettlementPays ==
    ASSUME IInv, NEW reply \in Reply, CommitSettle(reply), Executed(reply)
    PROVE  Agreed!Pay
<1> USE DEF CommitSettle, memory, database
<1> DEFINE old(p) == rounds[roundID].bets[p]
           bets == [p \in Player |-> SettledRow(old(p), participants[p])]
<1>1. pc = "pay" /\ pc' \in {"pause", "wait"} /\ UNCHANGED <<Accepted, Won>>
    BY DEF GoIdle, Accepted, Won
<1>2. /\ rounds \in Seq(RoundRow) /\ participants \in [Player -> Participant]
      /\ Agreed!Newest = roundID /\ roundID \in 1 .. Len(rounds)
      /\ Agreed!NewestIs(Agreed!Taken) /\ rounds[roundID] \in RoundRow
    BY <1>1, PageOfPhase, CurrentRow DEF IInv, TypeOK
<1>3. ASSUME NEW p \in Player
      PROVE  /\ old(p) \in BetRow /\ participants[p] \in Participant
             /\ old(p).amount = participants[p].amount /\ old(p).payout = 0
             /\ ~participants[p].booked => participants[p].payout = 0
             /\ ~participants[p].cashedOut => participants[p].payout = 0
    <2>1. old(p) = BetOf(participants[p]) /\ (participants[p].booked <=> Joined(participants[p]))
        BY <1>1 DEF IInv, BooksMatchMemory
    <2>2. ~participants[p].cashedOut => participants[p].payout = 0
        BY DEF IInv, RecordsClean
    <2>3. ~Joined(participants[p]) /\ participants[p].cashedOut => participants[p].payout = 0
        <3>1. SUFFICES ASSUME ~Joined(participants[p]), participants[p].cashedOut
                       PROVE  participants[p].payout = 0
            OBVIOUS
        <3>2. participants[p].amount = 0 /\ participants[p].mult \in Nat
            BY <1>2, <3>1 DEF Joined, Participant
        <3>3. participants[p].payout = PayoutOf(0, participants[p].mult)
            BY <1>1, <3>1, <3>2 DEF IInv, PaidAsAgreed, Flown
        <3>4. QED BY <3>2, <3>3 DEF PayoutOf
    <2>4. old(p) \in BetRow
        BY <1>2 DEF RoundRow
    <2>5. QED BY <1>2, <2>1, <2>2, <2>3, <2>4, BetRowType
<1>4. bets \in [Player -> BetRow]
    BY <1>3, BetRowType
<1>5. Page(bets) = Agreed!Paid
    <2>1. ASSUME NEW p \in Player
          PROVE  /\ bets[p].amount = participants[p].amount
                 /\ bets[p].payout = participants[p].payout
        BY <1>3 DEF SettledRow, Settled, BetRow
    <2> HIDE DEF bets
    <2>2. QED BY <2>1 DEF Page, Agreed!Paid, Accepted, Won
<1>6. rounds' = SetRow(roundID, "bets", bets)
    OBVIOUS
<1>7. balance' = [p \in Player |-> balance[p] + Won[p]]
    <2>1. \A p \in Player : Credit(participants[p]) = participants[p].payout
        BY <1>3 DEF Credit
    <2>2. QED BY <2>1 DEF Won
<1> HIDE DEF bets, CommitSettle
<1>8. /\ Len(rounds') = Len(rounds) /\ rounds'[roundID].bets = bets
      /\ \A r \in 1 .. Len(rounds) : r # roundID => rounds'[r] = rounds[r]
    BY <1>2, <1>4, <1>6, SetRowBets
<1>9. Books' = [Books EXCEPT ![Agreed!Newest] = Agreed!Paid]
    BY <1>2, <1>5, <1>8, PageWritten DEF Books
<1>10. QED BY <1>1, <1>2, <1>7, <1>9 DEF Agreed!Pay

-----------------------------------------------------------------------------
(* Every step.                                                             *)

AgreedStep == Agreed!Next \/ UNCHANGED Agreed!vars

\* The goroutine's own steps, but for the next round's start.
LEMMA EngineStepAgrees ==
    ASSUME IInv, IInv', EngineStep, ~Resume
    PROVE  AgreedStep
<1> USE DEF AgreedStep, Agreed!Next, Agreed!vars
<1>1. ASSUME NEW reply \in Reply, FinishStart(reply) \/ Reveal(reply) \/ SettleRound(reply)
      PROVE  AgreedStep
    <2>1. /\ pc # "wait" /\ balance' = balance /\ participants' = participants
          /\ pc \in {"hash", "bet", "takeoff"} <=> pc' \in {"hash", "bet", "takeoff"}
        BY <1>1 DEF FinishStart, Reveal, SettleRound, memory, GoIdle
    <2>2. UNCHANGED <<Accepted, Won, Books, balance>>
        BY <1>1, <2>1, UpdateUnseen, Unseen
    <2>3. QED BY <2>1, <2>2
<1>2. ASSUME NEW reply \in Reply, TakeoffNoBets(reply) \/ TakeoffMarks(reply)
      PROVE  AgreedStep
    <2>1. /\ pc = "bet" /\ pc' \in {"takeoff", "fly", "wait"} /\ balance' = balance
          /\ participants \in [Player -> Participant]
        BY <1>2 DEF TakeoffNoBets, TakeoffMarks, memory, GoIdle, IInv, TypeOK
    <2>2. \A p \in Player : /\ participants'[p].amount = participants[p].amount
                            /\ participants'[p].payout = participants[p].payout
        BY <1>2, <2>1 DEF TakeoffNoBets, TakeoffMarks, memory, Participant
    <2>3. UNCHANGED <<Accepted, Won, Books, balance>>
        BY <1>2, <2>1, <2>2, UpdateUnseen, Unseen
    <2>4. QED BY <2>1, <2>3 DEF Agreed!Close
<1>3. ASSUME TakeoffFails
      PROVE  AgreedStep
    <2>1. /\ pc = "bet" /\ pc' = "wait" /\ UNCHANGED database
          /\ participants \in [Player -> Participant]
        BY <1>3 DEF TakeoffFails, GoIdle, IInv, TypeOK
    <2>2. \A p \in Player : /\ participants'[p].amount = participants[p].amount
                            /\ participants'[p].payout = participants[p].payout
        BY <1>3, <2>1 DEF TakeoffFails, Participant
    <2>3. UNCHANGED <<Accepted, Won, Books, balance>>
        BY <2>1, <2>2, Unseen DEF database
    <2>4. QED BY <2>1, <2>3 DEF Agreed!Close
<1>4. ASSUME NEW reply \in Reply, CommitTakeoff(reply)
      PROVE  AgreedStep
    BY <1>4, TakeoffTakes
<1>5. ASSUME Tick
      PROVE  AgreedStep
    <2>1. /\ pc = "fly" /\ pc' \in {"fly", "reveal"} /\ UNCHANGED database
          /\ participants \in [Player -> Participant]
        BY <1>5 DEF Tick, IInv, TypeOK
    <2>2. ASSUME NEW p \in Player, participants'[p] # participants[p]
          PROVE  /\ Joined(participants[p]) /\ ~participants[p].cashedOut
                 /\ participants'[p].amount = participants[p].amount
                 /\ participants'[p].cashedOut
        <3>1. /\ AutoDue(participants[p], Curve[ticks + 1])
              /\ participants'[p] = CashedOutAt(participants[p], participants[p].target)
            BY <1>5, <2>1, <2>2 DEF Tick, AutoCashouts
        <3>2. participants[p] \in Participant /\ participants[p].target \in Nat
            BY <2>1 DEF Participant
        <3>3. Joined(participants[p]) /\ ~participants[p].cashedOut
            BY <3>1 DEF AutoDue
        <3>4. /\ CashedOutAt(participants[p], participants[p].target).amount
                    = participants[p].amount
              /\ CashedOutAt(participants[p], participants[p].target).cashedOut
            BY <3>2, CashedOutType
        <3>5. QED BY <3>1, <3>3, <3>4
    <2>3. QED BY <2>1, <2>2, CashOutsWin
<1>6. ASSUME SettleFails
      PROVE  AgreedStep
    <2>1. /\ pc = "settle" /\ pc' = "wait" /\ UNCHANGED <<participants, rounds, balance>>
        BY <1>6 DEF SettleFails, GoIdle, memory, database
    <2>2. QED BY <2>1 DEF Accepted, Won, Books
<1>7. ASSUME NEW reply \in Reply, CommitSettle(reply)
      PROVE  AgreedStep
    <2>1. CASE Executed(reply)
        BY <1>7, <2>1, SettlementPays
    <2>2. CASE ~Executed(reply)
        <3>1. /\ pc = "pay" /\ pc' \in {"pause", "wait"}
              /\ UNCHANGED <<participants, rounds, balance>>
            BY <1>7, <2>2 DEF CommitSettle, GoIdle, memory, database
        <3>2. QED BY <3>1 DEF Accepted, Won, Books
    <2>3. QED BY <2>1, <2>2
<1> HIDE DEF AgreedStep
<1>8. QED BY <1>1, <1>2, <1>3, <1>4, <1>5, <1>6, <1>7 DEF EngineStep

\* The steps that answer a command, but for the round a Subscribe starts.
LEMMA CommandStepAgrees ==
    ASSUME IInv, IInv', CommandStep, ~\E p \in Player : WaitSubscribe(p)
    PROVE  AgreedStep
<1> USE DEF AgreedStep, Agreed!Next, Agreed!vars
<1>1. ASSUME NEW p \in Player, HandleSubscribe(p) \/ HandleUnsubscribe(p)
      PROVE  AgreedStep
    <2>1. UNCHANGED <<pc, participants, rounds, balance>>
        BY <1>1 DEF HandleSubscribe, HandleUnsubscribe, memory, database
    <2>2. QED BY <2>1 DEF Accepted, Won, Books
<1>2. ASSUME NEW p \in Player, CashOut(p)
      PROVE  AgreedStep
    <2>1. /\ pc = "fly" /\ pc' = "fly" /\ UNCHANGED database
          /\ participants \in [Player -> Participant] /\ Curve[ticks] \in Nat
          /\ Joined(participants[p]) /\ ~participants[p].cashedOut
          /\ participants' = [participants EXCEPT ![p] = CashedOutAt(@, Curve[ticks])]
        BY <1>2, CurveAssumption DEF CashOut, IInv, TypeOK
    <2>2. /\ participants'[p] = CashedOutAt(participants[p], Curve[ticks])
          /\ \A q \in Player \ {p} : participants'[q] = participants[q]
        BY <2>1
    <2>3. participants'[p].amount = participants[p].amount /\ participants'[p].cashedOut
        BY <2>1, <2>2, CashedOutType
    <2>4. QED BY <2>1, <2>2, <2>3, CashOutsWin
<1>3. ASSUME NEW p \in Player, NEW amount \in Amount, NEW target \in Target,
             PlaceBet(p, amount, target)
      PROVE  AgreedStep
    BY <1>3, PlaceBetBets
<1> HIDE DEF AgreedStep
<1>4. QED BY <1>1, <1>2, <1>3 DEF CommandStep

\* Stakes and winnings move as Ledger.tla says, for every number of players and
\* rounds, whatever statements fail or lose their answer and whenever the
\* process dies.
THEOREM ImplementsLedger == Spec => LedgerSpec
<1>1. Init => Agreed!Init
    BY BoundAssumption DEF Init, Agreed!Init, Accepted, Won, Books, PagesOf, NoBets, Absent,
       Agreed!Nothing
<1>2. IInv /\ IInv' /\ [Next]_vars => [Agreed!Next]_(Agreed!vars)
    <2> SUFFICES ASSUME IInv, IInv', [Next]_vars
                 PROVE  AgreedStep
        BY DEF AgreedStep
    <2>1. ASSUME NEW c \in CrashPoint, NEW reply \in Reply, StartRound(c, reply)
          PROVE  AgreedStep
        BY <2>1, StartRoundBegins DEF AgreedStep, Agreed!Next
    <2>2. CASE \E p \in Player : WaitSubscribe(p)
        BY <2>1, <2>2 DEF WaitSubscribe
    <2>3. CASE Resume
        <3>1. CASE subs # {}
            BY <2>1, <2>3, <3>1 DEF Resume
        <3>2. CASE subs = {}
            BY <2>3, <3>2 DEF Resume, GoIdle, memory, database, AgreedStep, Agreed!vars,
               Accepted, Won, Books
        <3>3. QED BY <3>1, <3>2
    <2>4. CASE EngineStep /\ ~Resume
        BY <2>4, EngineStepAgrees
    <2>5. CASE CommandStep /\ ~\E p \in Player : WaitSubscribe(p)
        BY <2>5, CommandStepAgrees
    <2>6. CASE Restart
        BY <2>6, RestartBegins DEF AgreedStep, Agreed!Next
    <2>7. CASE UNCHANGED vars
        BY <2>7 DEF vars, memory, database, AgreedStep, Agreed!vars, Accepted, Won, Books
    <2>8. QED BY <2>2, <2>3, <2>4, <2>5, <2>6, <2>7 DEF Next
<1>3. QED BY <1>1, <1>2, Invariance, PTL DEF Spec, LedgerSpec, Agreed!Spec

-----------------------------------------------------------------------------
(* What a balance is made of.                                              *)

\* sum[r] is what p had after r rounds.
SumsTo(p, sum) ==
    /\ sum[0] = StartBalance
    /\ \A r \in 1 .. Len(rounds) : sum[r] = sum[r - 1] + Net(rounds[r].bets[p])
    /\ sum[Len(rounds)] = balance[p]
HistoryExplains == \A p \in Player : \E sum \in [0 .. Len(rounds) -> Int] : SumsTo(p, sum)

\* The partial sums of n terms, and the terms with the k-th raised by d.
PartialSums(n, f, sum) == \A r \in 1 .. n : sum[r] = sum[r - 1] + f[r]
Raised(n, f, k, d) == [r \in 1 .. n |-> IF r = k THEN f[r] + d ELSE f[r]]

\* When one term of a sum changes, so do the partial sums from there on.
LEMMA SumShifts ==
    ASSUME NEW n \in Nat, NEW k \in 0 .. n, NEW d \in Int, k = 0 => d = 0,
           NEW f \in [1 .. n -> Int], NEW sum \in [0 .. n -> Int], PartialSums(n, f, sum)
    PROVE  \E new \in [0 .. n -> Int] :
               /\ new[0] = sum[0] /\ new[n] = sum[n] + d
               /\ PartialSums(n, Raised(n, f, k, d), new)
<1> USE DEF PartialSums
<1> DEFINE new == [r \in 0 .. n |-> IF k # 0 /\ k <= r THEN sum[r] + d ELSE sum[r]]
<1>1. /\ new \in [0 .. n -> Int]
      /\ \A i \in 0 .. n : new[i] = IF k # 0 /\ k <= i THEN sum[i] + d ELSE sum[i]
    OBVIOUS
<1> HIDE DEF new
<1>2. new[0] = sum[0] /\ new[n] = sum[n] + d
    <2>1. 0 \in 0 .. n /\ n \in 0 .. n /\ sum[0] \in Int /\ sum[n] \in Int
        OBVIOUS
    <2>2. QED BY <1>1, <2>1
<1>3. ASSUME NEW r \in 1 .. n
      PROVE  new[r] = new[r - 1] + (IF r = k THEN f[r] + d ELSE f[r])
    <2>1. /\ r \in 0 .. n /\ r - 1 \in 0 .. n /\ f[r] \in Int
          /\ sum[r] \in Int /\ sum[r - 1] \in Int /\ sum[r] = sum[r - 1] + f[r]
        OBVIOUS
    <2>2. /\ new[r] = IF k # 0 /\ k <= r THEN sum[r] + d ELSE sum[r]
          /\ new[r - 1] = IF k # 0 /\ k <= r - 1 THEN sum[r - 1] + d ELSE sum[r - 1]
        BY <1>1, <2>1
    <2>3. CASE r = k
        BY <2>1, <2>2, <2>3
    <2>4. CASE r # k
        <3>1. k <= r <=> k <= r - 1
            BY <2>4
        <3>2. CASE k # 0 /\ k <= r
            <4>1. new[r] = sum[r] + d /\ new[r - 1] = sum[r - 1] + d
                BY <2>2, <3>1, <3>2
            <4>2. QED BY <2>1, <2>4, <4>1
        <3>3. CASE ~(k # 0 /\ k <= r)
            <4>1. new[r] = sum[r] /\ new[r - 1] = sum[r - 1]
                BY <2>2, <3>1, <3>3
            <4>2. QED BY <2>1, <2>4, <4>1
        <3>4. QED BY <3>2, <3>3
    <2>5. QED BY <2>3, <2>4
<1>4. QED BY <1>1, <1>2, <1>3 DEF Raised

\* The table of rounds keeps its length, or grows by a round without bets.
LEMMA RowsGrow ==
    ASSUME IInv, Next
    PROVE  \/ Len(rounds') = Len(rounds)
           \/ /\ Len(rounds') = Len(rounds) + 1
              /\ \A p \in Player : Net(rounds'[Len(rounds) + 1].bets[p]) = 0
<1>1. ASSUME NEW c \in CrashPoint, NEW reply \in Reply, StartRound(c, reply)
      PROVE  \/ Len(rounds') = Len(rounds)
             \/ /\ Len(rounds') = Len(rounds) + 1
                /\ \A p \in Player : Net(rounds'[Len(rounds) + 1].bets[p]) = 0
    <2>1. CASE rounds' = rounds
        BY <2>1
    <2>2. CASE rounds' = Append(rounds, NewRow(c))
        <3>1. Len(rounds') = Len(rounds) + 1 /\ rounds'[Len(rounds) + 1] = NewRow(c)
            BY <2>2, RowInserted, NewRowType DEF IInv, TypeOK
        <3>2. \A p \in Player : Net(NewRow(c).bets[p]) = 0
            BY NewRowType DEF Net, NoRow
        <3>3. QED BY <3>1, <3>2
    <2>3. QED BY <1>1, <2>1, <2>2 DEF StartRound
<1>2. ASSUME NEW reply \in Reply, FinishStart(reply)
      PROVE  Len(rounds') = Len(rounds)
    <2>1. roundID \in 1 .. Len(rounds) /\ crashBP \in Int
        BY <1>2, CurrentRow DEF FinishStart, IInv, TypeOK
    <2>2. Len(SetRow(roundID, "hash", Commit(roundID, crashBP))) = Len(rounds)
        BY <2>1, SetRowHash DEF IInv, TypeOK
    <2>3. QED BY <1>2, <2>2 DEF FinishStart
<1>3. QED BY <1>1, <1>2, CommitmentsKept

\* One step: the current round's term changes with the balance, or a term 0 is added.
LEMMA HistoryStays == ASSUME IInv, IInv', HistoryExplains, [Next]_vars PROVE HistoryExplains'
<1>1. CASE UNCHANGED vars
    BY <1>1 DEF vars, database, HistoryExplains, SumsTo
<1>2. CASE Next
    <2> SUFFICES ASSUME NEW p \in Player
                 PROVE  (\E sum \in [0 .. Len(rounds) -> Int] : SumsTo(p, sum))'
        BY DEF HistoryExplains
    <2> DEFINE n == Len(rounds)
               d == balance'[p] - balance[p]
               f == [r \in 1 .. n |-> Net(rounds[r].bets[p])]
    <2>1. PICK sum \in [0 .. n -> Int] : SumsTo(p, sum)
        BY DEF HistoryExplains
    <2>2. /\ n \in Nat /\ Len(rounds') \in Nat /\ roundID \in 0 .. n
          /\ balance[p] \in Int /\ balance'[p] \in Int
          /\ \A r \in 1 .. n : Net(rounds[r].bets[p]) \in Int
          /\ \A r \in 1 .. Len(rounds') : Net(rounds'[r].bets[p]) \in Int
        <3>1. TypeOK /\ TypeOK'
            BY DEF IInv
        <3>2. rounds' \in Seq(RoundRow) /\ balance'[p] \in Int /\ roundID \in 0 .. n
            BY <3>1 DEF TypeOK
        <3>3. /\ Len(rounds') \in Nat
              /\ \A r \in 1 .. Len(rounds') : rounds'[r] \in RoundRow
            BY <3>2
        <3>4. QED BY <3>2, <3>3, RowsTyped, RowFacts
    <2>3. MovesTogether /\ Appends
        <3>1. CASE UNCHANGED vars
            BY <3>1, NothingWritten DEF vars, database
        <3>2. QED BY <1>2, <3>1, StepWrites
    <2>4. /\ n <= Len(rounds')
          /\ \A r \in 1 .. n : Net(rounds'[r].bets[p]) = IF r = roundID THEN f[r] + d ELSE f[r]
          /\ roundID = 0 => d = 0
        <3>1. roundID = 0 => d = 0
            BY <2>3 DEF MovesTogether
        <3>2. roundID # 0 => d = Net(rounds'[roundID].bets[p]) - Net(rounds[roundID].bets[p])
            BY <2>3 DEF MovesTogether
        <3>3. \A r \in 1 .. n : r # roundID => rounds'[r] = rounds[r]
            BY <2>3 DEF Appends
        <3>4. n <= Len(rounds')
            BY <1>2, <2>2, RowsGrow
        <3>5. \A r \in 1 .. n : r \in 1 .. Len(rounds') /\ f[r] = Net(rounds[r].bets[p])
            BY <2>2, <3>4
        <3>6. d \in Int
            BY <2>2
        <3> HIDE DEF d, f
        <3>7. ASSUME NEW r \in 1 .. n
              PROVE  Net(rounds'[r].bets[p]) = IF r = roundID THEN f[r] + d ELSE f[r]
            <4>1. /\ Net(rounds'[r].bets[p]) \in Int /\ Net(rounds[r].bets[p]) \in Int
                  /\ f[r] = Net(rounds[r].bets[p])
                BY <2>2, <3>5
            <4>2. CASE r = roundID
                <5>1. roundID # 0
                    BY <4>2
                <5>2. QED BY <3>2, <3>6, <4>1, <4>2, <5>1
            <4>3. CASE r # roundID
                BY <3>3, <4>1, <4>3
            <4>4. QED BY <4>2, <4>3
        <3>8. QED BY <3>1, <3>4, <3>7
    <2>5. f \in [1 .. n -> Int] /\ d \in Int /\ PartialSums(n, f, sum)
        BY <2>1, <2>2 DEF SumsTo, PartialSums
    <2> HIDE DEF f, d
    <2>6. PICK new \in [0 .. n -> Int] :
               /\ new[0] = sum[0] /\ new[n] = sum[n] + d
               /\ PartialSums(n, Raised(n, f, roundID, d), new)
        BY <2>2, <2>4, <2>5, SumShifts
    <2>7. /\ new[0] = StartBalance /\ new[n] = balance'[p]
          /\ \A r \in 1 .. n : new[r] = new[r - 1] + Net(rounds'[r].bets[p])
        <3>1. sum[n] = balance[p] /\ sum[0] = StartBalance
            BY <2>1 DEF SumsTo
        <3>2. sum[n] + d = balance'[p]
            BY <2>2, <3>1 DEF d
        <3>3. QED BY <2>4, <2>6, <3>1, <3>2 DEF PartialSums, Raised
    <2>8. CASE Len(rounds') = n
        BY <2>6, <2>7, <2>8 DEF SumsTo
    <2>9. CASE Len(rounds') = n + 1 /\ Net(rounds'[n + 1].bets[p]) = 0
        <3> DEFINE more == [r \in 0 .. n + 1 |-> IF r = n + 1 THEN balance'[p] ELSE new[r]]
        <3>1. more \in [0 .. n + 1 -> Int]
            BY <2>2, <2>6
        <3>2. /\ more[0] = StartBalance /\ more[n + 1] = balance'[p] /\ more[n] = balance'[p]
              /\ \A r \in 1 .. n : more[r] = new[r] /\ more[r - 1] = new[r - 1]
            BY <2>2, <2>7
        <3> HIDE DEF more
        <3>3. ASSUME NEW r \in 1 .. n + 1
              PROVE  more[r] = more[r - 1] + Net(rounds'[r].bets[p])
            <4>1. CASE r = n + 1
                BY <2>2, <2>9, <3>2, <4>1
            <4>2. CASE r # n + 1
                <5>1. r \in 1 .. n
                    BY <2>2, <4>2
                <5>2. QED BY <2>7, <3>2, <5>1
            <4>3. QED BY <4>1, <4>2
        <3>4. QED BY <2>9, <3>1, <3>2, <3>3 DEF SumsTo
    <2>10. QED BY <1>2, <2>8, <2>9, RowsGrow
<1>3. QED BY <1>1, <1>2

\* Every credit is accounted for: whatever failed, was applied with its answer
\* lost, or was cut off by a crash of the process, a balance is the starting
\* balance plus what the bets tables of all rounds say was won, less what they
\* say was staked (commitBetsAndTakeoff, runSettle).
THEOREM BalancesAreHistory == Spec => []HistoryExplains
<1>1. Init => HistoryExplains
    <2> SUFFICES ASSUME Init, NEW p \in Player
                 PROVE  \E sum \in [0 .. Len(rounds) -> Int] : SumsTo(p, sum)
        BY DEF HistoryExplains
    <2> DEFINE sum == [r \in 0 .. 0 |-> StartBalance]
    <2>1. Len(rounds) = 0 /\ balance[p] = StartBalance /\ StartBalance \in Int
        BY BoundAssumption DEF Init
    <2>2. sum \in [0 .. Len(rounds) -> Int] /\ sum[0] = StartBalance
        BY <2>1
    <2>3. SumsTo(p, sum)
        BY <2>1, <2>2 DEF SumsTo
    <2>4. QED BY <2>2, <2>3
<1>2. QED BY <1>1, HistoryStays, Invariance, PTL DEF Spec
=============================================================================
