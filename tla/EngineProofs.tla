---------------------------- MODULE EngineProofs ----------------------------
(***************************************************************************)
(* The safety properties of EngineProps.tla, for every value of the        *)
(* constants.  One lemma per action shows that it keeps IInv; the theorems *)
(* follow from the invariant.                                              *)
(***************************************************************************)
EXTENDS EngineProps, TLAPS

-----------------------------------------------------------------------------
(* Data.                                                                   *)

\* Replacing a row keeps the table a sequence of rows and the other rows.
LEMMA RowReplaced ==
    ASSUME NEW S, NEW s \in Seq(S), NEW id \in 1 .. Len(s), NEW row \in S
    PROVE  /\ [s EXCEPT ![id] = row] \in Seq(S)
           /\ Len([s EXCEPT ![id] = row]) = Len(s)
           /\ [s EXCEPT ![id] = row][id] = row
           /\ \A r \in 1 .. Len(s) : r # id => [s EXCEPT ![id] = row][r] = s[r]
OBVIOUS

\* Inserting a row keeps the rows already there.
LEMMA RowInserted ==
    ASSUME NEW S, NEW s \in Seq(S), NEW row \in S
    PROVE  /\ Append(s, row) \in Seq(S)
           /\ Len(Append(s, row)) = Len(s) + 1
           /\ Append(s, row)[Len(s) + 1] = row
           /\ \A r \in 1 .. Len(s) : Append(s, row)[r] = s[r]
OBVIOUS

\* An INTEGER column holds an integer, whatever was put in.
LEMMA Int32Type == ASSUME NEW x \in Int PROVE Int32(x, Int32Limit) \in Int
BY LimitAssumption DEF Int32

\* NULL stays NULL.
LEMMA Int32Zero == Int32(0, Int32Limit) = 0
<1>1. Int32Limit % (2 * Int32Limit) = Int32Limit
    BY LimitAssumption
<1>2. QED BY <1>1, LimitAssumption DEF Int32

\* A payout is a number of credits, never a debt.
LEMMA PayoutType == ASSUME NEW a \in Nat, NEW bp \in Nat PROVE PayoutOf(a, bp) \in Nat
BY DEF PayoutOf

\* Cashing somebody out leaves a participant's record.
LEMMA CashedOutType ==
    ASSUME NEW part \in Participant, NEW bp \in Nat
    PROVE  /\ CashedOutAt(part, bp) \in Participant
           /\ CashedOutAt(part, bp).amount = part.amount
           /\ CashedOutAt(part, bp).target = part.target
           /\ CashedOutAt(part, bp).booked = part.booked
           /\ CashedOutAt(part, bp).cashedOut
           /\ CashedOutAt(part, bp).mult = bp
           /\ CashedOutAt(part, bp).payout = PayoutOf(part.amount, bp)
<1> PayoutOf(part.amount, bp) \in Nat
    BY PayoutType DEF Participant
<1> QED BY DEF CashedOutAt, Participant

\* The rows the transactions write are rows.
LEMMA BetRowType ==
    ASSUME NEW part \in Participant
    PROVE  /\ NoRow \in BetRow
           /\ BetOf(part) \in BetRow
           /\ BetOf(part).payout = 0
           /\ BetOf(part).amount = part.amount
           /\ \A row \in BetRow : /\ Settled(row, part) \in BetRow
                                  /\ SettledRow(row, part) \in BetRow
<1>1. Int32(part.target, Int32Limit) \in Int /\ Int32(part.mult, Int32Limit) \in Int
    BY Int32Type DEF Participant
<1>2. NoRow \in BetRow
    BY DEF NoRow, BetRow
<1>3. /\ BetOf(part) \in BetRow
      /\ BetOf(part).payout = 0 /\ BetOf(part).amount = part.amount
    BY <1>1 DEF BetOf, BetRow, Participant
<1>4. ASSUME NEW row \in BetRow
      PROVE  Settled(row, part) \in BetRow /\ SettledRow(row, part) \in BetRow
    <2> DEFINE m == Int32(part.mult, Int32Limit)
    <2>1. m \in Int /\ part.payout \in Nat
        BY <1>1 DEF Participant
    <2> HIDE DEF m
    <2>2. Settled(row, part) = [row EXCEPT !.mult = m, !.payout = part.payout]
        BY DEF Settled, m
    <2>3. Settled(row, part) \in BetRow
        BY <2>1, <2>2 DEF BetRow
    <2>4. QED BY <2>3 DEF SettledRow
<1>5. QED BY <1>2, <1>3, <1>4

\* The row startRound inserts is a round row.
LEMMA NewRowType ==
    ASSUME NEW c \in CrashPoint
    PROVE  /\ NewRow(c) \in RoundRow
           /\ NewRow(c).state = "betting"
           /\ NewRow(c).hash = Pending
           /\ \A p \in Player : NewRow(c).bets[p] = NoRow
<1>1. Int32(c, Int32Limit) \in Int
    BY CrashAssumption, Int32Type
<1>2. NoRow \in BetRow
    BY DEF NoRow, BetRow
<1>3. QED BY <1>1, <1>2 DEF NewRow, RoundRow

\* Every UPDATE of the rounds table changes one field of one row.
LEMMA SetRowState ==
    ASSUME rounds \in Seq(RoundRow), NEW id \in 1 .. Len(rounds),
           NEW st \in {"betting", "flying", "crashed", "settled"}
    PROVE  /\ SetRow(id, "state", st) \in Seq(RoundRow)
           /\ Len(SetRow(id, "state", st)) = Len(rounds)
           /\ SetRow(id, "state", st)[id].state = st
           /\ SetRow(id, "state", st)[id].crash = rounds[id].crash
           /\ SetRow(id, "state", st)[id].hash = rounds[id].hash
           /\ SetRow(id, "state", st)[id].bets = rounds[id].bets
           /\ \A r \in 1 .. Len(rounds) : r # id => SetRow(id, "state", st)[r] = rounds[r]
<1> DEFINE row == [rounds[id] EXCEPT !["state"] = st]
<1>1. rounds[id] \in RoundRow
    OBVIOUS
<1>2. /\ row \in RoundRow
      /\ row.state = st /\ row.crash = rounds[id].crash
      /\ row.hash = rounds[id].hash /\ row.bets = rounds[id].bets
    BY <1>1 DEF RoundRow
<1>3. SetRow(id, "state", st) = [rounds EXCEPT ![id] = row]
    BY DEF SetRow
<1> HIDE DEF row
<1>4. QED BY <1>2, <1>3, RowReplaced

\* The UPDATE of commit_hash changes that column of one row only.
LEMMA SetRowHash ==
    ASSUME rounds \in Seq(RoundRow), NEW id \in 1 .. Len(rounds),
           Len(rounds) <= MaxRounds, NEW bp \in Int
    PROVE  LET h == Commit(id, bp) IN
           /\ SetRow(id, "hash", h) \in Seq(RoundRow)
           /\ Len(SetRow(id, "hash", h)) = Len(rounds)
           /\ SetRow(id, "hash", h)[id].state = rounds[id].state
           /\ SetRow(id, "hash", h)[id].crash = rounds[id].crash
           /\ SetRow(id, "hash", h)[id].hash = h
           /\ SetRow(id, "hash", h)[id].bets = rounds[id].bets
           /\ \A r \in 1 .. Len(rounds) : r # id => SetRow(id, "hash", h)[r] = rounds[r]
<1> DEFINE h == Commit(id, bp)
           row == [rounds[id] EXCEPT !["hash"] = h]
<1>1. rounds[id] \in RoundRow
    OBVIOUS
<1>2. h \in {Pending} \cup ((1 .. MaxRounds) \X Int)
    BY BoundAssumption DEF Commit
<1> HIDE DEF h
<1>3. /\ row \in RoundRow
      /\ row.state = rounds[id].state /\ row.crash = rounds[id].crash
      /\ row.hash = h /\ row.bets = rounds[id].bets
    BY <1>1, <1>2 DEF RoundRow
<1>4. SetRow(id, "hash", h) = [rounds EXCEPT ![id] = row]
    BY DEF SetRow
<1> HIDE DEF row
<1>5. QED BY <1>3, <1>4, RowReplaced DEF h

\* The COMMIT of a transaction changes the bets of one round only.
LEMMA SetRowBets ==
    ASSUME rounds \in Seq(RoundRow), NEW id \in 1 .. Len(rounds),
           NEW bets \in [Player -> BetRow]
    PROVE  /\ SetRow(id, "bets", bets) \in Seq(RoundRow)
           /\ Len(SetRow(id, "bets", bets)) = Len(rounds)
           /\ SetRow(id, "bets", bets)[id].state = rounds[id].state
           /\ SetRow(id, "bets", bets)[id].crash = rounds[id].crash
           /\ SetRow(id, "bets", bets)[id].hash = rounds[id].hash
           /\ SetRow(id, "bets", bets)[id].bets = bets
           /\ \A r \in 1 .. Len(rounds) : r # id => SetRow(id, "bets", bets)[r] = rounds[r]
<1> DEFINE row == [rounds[id] EXCEPT !["bets"] = bets]
<1>1. rounds[id] \in RoundRow
    OBVIOUS
<1>2. /\ row \in RoundRow
      /\ row.state = rounds[id].state /\ row.crash = rounds[id].crash
      /\ row.hash = rounds[id].hash /\ row.bets = bets
    BY <1>1 DEF RoundRow
<1>3. SetRow(id, "bets", bets) = [rounds EXCEPT ![id] = row]
    BY DEF SetRow
<1> HIDE DEF row
<1>4. QED BY <1>2, <1>3, RowReplaced

-----------------------------------------------------------------------------
(* One lemma per action: it keeps the invariant.                           *)

\* The round in play has a row.
LEMMA CurrentRow ==
    ASSUME IInv, pc # "wait"
    PROVE  roundID \in 1 .. Len(rounds) /\ rounds[roundID] \in RoundRow
BY DEF IInv, TypeOK, Phase

\* Subscribing changes no round state; its snapshot is gated on e.state.
LEMMA HandleSubscribeKeeps ==
    ASSUME IInv, NEW p \in Player, HandleSubscribe(p)
    PROVE  IInv'
<1> USE DEF HandleSubscribe, memory, database, environment
<1>1. TypeOK'
    BY CurrentRow DEF IInv, TypeOK, Phase, Broadcast, Revealed
<1>2. OutcomeHidden'
    BY DEF IInv, TypeOK, Phase, OutcomeHidden, InPlay, Broadcast, Revealed
<1>3. PaidAsAgreed' /\ AutoCashoutHonoured' /\ BooksMatchMemory'
    BY DEF IInv, PaidAsAgreed, AutoCashoutHonoured, BooksMatchMemory, Flown
<1>4. RecordsClean' /\ BeforeFlight' /\ RowFollows'
    BY DEF IInv, RecordsClean, BeforeFlight, RowFollows
<1>5. QED BY <1>1, <1>2, <1>3, <1>4 DEF IInv

\* Unsubscribing changes no round state.
LEMMA HandleUnsubscribeKeeps ==
    ASSUME IInv, NEW p \in Player, HandleUnsubscribe(p)
    PROVE  IInv'
<1> USE DEF HandleUnsubscribe, memory, database, environment
<1>1. TypeOK'
    BY DEF IInv, TypeOK, Phase
<1>2. OutcomeHidden'
    BY DEF IInv, OutcomeHidden, InPlay
<1>3. PaidAsAgreed' /\ AutoCashoutHonoured' /\ BooksMatchMemory'
    BY DEF IInv, PaidAsAgreed, AutoCashoutHonoured, BooksMatchMemory, Flown
<1>4. RecordsClean' /\ BeforeFlight' /\ RowFollows'
    BY DEF IInv, RecordsClean, BeforeFlight, RowFollows
<1>5. QED BY <1>1, <1>2, <1>3, <1>4 DEF IInv

\* A bet enters the map as FreshBet, while the row still has no bets.
LEMMA PlaceBetKeeps ==
    ASSUME IInv, NEW p \in Player, NEW amount \in Amount, NEW target \in Target,
           PlaceBet(p, amount, target)
    PROVE  IInv'
<1> USE DEF PlaceBet, database, environment
<1>1. FreshBet(amount, target) \in Participant
    BY AmountAssumption, TargetAssumption DEF FreshBet, Participant
<1>2. TypeOK'
    BY <1>1 DEF IInv, TypeOK, Phase, Broadcast, Revealed
<1>3. OutcomeHidden'
    BY DEF IInv, TypeOK, Phase, OutcomeHidden, InPlay, Broadcast, Revealed
<1>4. PaidAsAgreed' /\ AutoCashoutHonoured' /\ BooksMatchMemory'
    BY DEF IInv, TypeOK, Phase, PaidAsAgreed, AutoCashoutHonoured, BooksMatchMemory, Flown
<1>5. RecordsClean' /\ BeforeFlight' /\ RowFollows'
    BY <1>1, AmountAssumption DEF IInv, TypeOK, RecordsClean, BeforeFlight, RowFollows, FreshBet, Joined
<1>6. QED BY <1>2, <1>3, <1>4, <1>5 DEF IInv

\* A manual cashout pays the multiplier on screen, below the target.
LEMMA CashOutKeeps ==
    ASSUME IInv, NEW p \in Player, CashOut(p)
    PROVE  IInv'
<1> USE DEF CashOut, database, environment
<1> DEFINE new == CashedOutAt(participants[p], Curve[ticks])
<1>1. participants[p] \in Participant /\ Curve[ticks] \in Nat /\ 100 <= Curve[ticks]
    BY CurveAssumption DEF IInv, TypeOK
<1>2. /\ new \in Participant
      /\ new.amount = participants[p].amount /\ new.target = participants[p].target
      /\ new.booked = participants[p].booked /\ new.cashedOut
      /\ new.mult = Curve[ticks]
      /\ new.payout = PayoutOf(participants[p].amount, Curve[ticks])
    BY <1>1, CashedOutType
<1>3. participants' = [participants EXCEPT ![p] = new]
    OBVIOUS
<1> HIDE DEF new
<1>4. TypeOK'
    BY <1>2, <1>3 DEF IInv, TypeOK, Phase, Broadcast, Revealed
<1>5. OutcomeHidden'
    BY DEF IInv, TypeOK, Phase, OutcomeHidden, InPlay, Broadcast, Revealed
<1>6. PaidAsAgreed'
    <2>1. /\ PaidAsAgreed /\ pc = "fly" /\ ticks' = ticks /\ crashBP' = crashBP
          /\ Curve[ticks] <= crashBP /\ crashBP \in Nat
        BY DEF IInv, TypeOK, BeforeFlight
    <2>2. /\ participants[p].target \in Nat /\ Joined(participants[p]) /\ ~participants[p].cashedOut
          /\ participants[p].target > 0 => Curve[ticks] < participants[p].target
        BY <1>1, <2>1 DEF PaidAsAgreed, Participant
    <2>3. /\ participants'[p].cashedOut
          /\ participants'[p].payout = PayoutOf(participants'[p].amount, participants'[p].mult)
          /\ participants'[p].mult = Curve[ticks]
          /\ participants'[p].target = participants[p].target
        BY <1>2, <1>3 DEF IInv, TypeOK
    <2>4. \A q \in Player \ {p} : participants'[q] = participants[q]
        BY <1>3 DEF IInv, TypeOK
    <2>5. QED BY <1>1, <2>1, <2>2, <2>3, <2>4 DEF PaidAsAgreed
<1>7. AutoCashoutHonoured'
    BY DEF IInv, TypeOK, Phase, AutoCashoutHonoured, Flown
<1>8. BooksMatchMemory'
    BY <1>2, <1>3 DEF IInv, TypeOK, Phase, BooksMatchMemory, BetOf, Joined
<1>9. RecordsClean' /\ BeforeFlight' /\ RowFollows'
    BY <1>2, <1>3 DEF IInv, TypeOK, RecordsClean, BeforeFlight, RowFollows, Joined
<1>10. QED BY <1>4, <1>5, <1>6, <1>7, <1>8, <1>9 DEF IInv

\* Back in waitForSubscribers nothing is in play: types and records suffice.
LEMMA IdleKeeps ==
    ASSUME TypeOK', RecordsClean', pc' = "wait"
    PROVE  IInv'
BY DEF IInv, OutcomeHidden, InPlay, PaidAsAgreed, Flown, AutoCashoutHonoured,
       BooksMatchMemory, BeforeFlight, RowFollows

\* startRound, wherever it is called from.
LEMMA StartRoundKeeps ==
    ASSUME IInv, NEW c \in CrashPoint, NEW reply \in Reply, StartRound(c, reply),
           subs' \subseteq Player, pc \in {"wait", "pause"}
    PROVE  IInv'
<1> USE DEF StartRound
<1>1. /\ Append(rounds, NewRow(c)) \in Seq(RoundRow)
      /\ Len(Append(rounds, NewRow(c))) = Len(rounds) + 1
      /\ Append(rounds, NewRow(c))[Len(rounds) + 1] = NewRow(c)
    BY RowInserted, NewRowType DEF IInv, TypeOK
<1>2. NoBets \in [Player -> Participant]
    BY DEF NoBets, Absent, Participant
<1>3. TypeOK'
    <2>1. /\ Len(rounds) \in Nat /\ Len(rounds) <= MaxRounds /\ MaxRounds \in Nat
          /\ rounds \in Seq(RoundRow) /\ roundID \in 0 .. Len(rounds) /\ seen \subseteq 1 .. Len(rounds)
        BY BoundAssumption DEF IInv, TypeOK
    <2>2. reply # "failed" => Len(rounds) < MaxRounds
        BY <2>1
    <2>3. /\ rounds' \in Seq(RoundRow) /\ Len(rounds') <= MaxRounds
          /\ Len(rounds) <= Len(rounds') /\ Len(rounds') \in Nat
        BY <1>1, <2>1, <2>2 DEF Executed
    <2>4. roundID' \in 0 .. Len(rounds') /\ (reply = "ok" => roundID' = Len(rounds') /\ roundID' > 0)
        BY <1>1, <2>1, <2>3 DEF Executed
    <2>5. seen' \subseteq 1 .. Len(rounds')
        BY <2>1, <2>3
    <2>6. crashBP' \in Nat /\ crashBP' \in CrashPoint /\ ticks' = 0 /\ ticks' \in 0 .. MaxTicks
        BY CrashAssumption, CurveAssumption
    <2>7. participants' \in [Player -> Participant] /\ balance' \in [Player -> Int]
        BY <1>2 DEF IInv, TypeOK
    <2>8. faults' \in 0 .. MaxFaults /\ crashes' \in 0 .. MaxCrashes
        BY BoundAssumption DEF IInv, TypeOK, Statement
    <2>9. /\ state' \in {"idle", "betting", "flying", "crashed"} /\ pc' \in {"wait", "hash"}
          /\ pc' = "wait" => state' = "idle"
          /\ pc' = "hash" => state' \in {"idle", "crashed"} /\ reply = "ok"
          /\ state' \in {"idle", "crashed"}
        BY DEF IInv, TypeOK, Phase, GoIdle
    <2>10. Phase'
        BY <2>4, <2>6, <2>9 DEF Phase
    <2>11. QED BY <2>3, <2>4, <2>5, <2>6, <2>7, <2>8, <2>9, <2>10 DEF TypeOK
<1>4. RecordsClean'
    BY DEF RecordsClean, NoBets, Absent, Joined
<1>5. CASE reply = "ok"
    <2>1. pc' = "hash" /\ roundID' = Len(rounds) + 1 /\ rounds'[roundID'] = NewRow(c)
        BY <1>1, <1>5 DEF Executed
    <2>2. OutcomeHidden'
        BY <1>1, <2>1, NewRowType DEF IInv, TypeOK, OutcomeHidden
    <2>3. PaidAsAgreed' /\ AutoCashoutHonoured'
        BY <2>1 DEF PaidAsAgreed, AutoCashoutHonoured, Flown
    <2>4. BooksMatchMemory' /\ BeforeFlight' /\ RowFollows'
        BY <2>1, NewRowType DEF BooksMatchMemory, BeforeFlight, RowFollows, NoBets, Absent
    <2>5. QED BY <1>3, <1>4, <2>2, <2>3, <2>4 DEF IInv
<1>6. CASE reply # "ok"
    BY <1>3, <1>4, <1>6, IdleKeeps DEF GoIdle
<1>7. QED BY <1>5, <1>6

\* The first subscriber's round starts from waitForSubscribers.
LEMMA WaitSubscribeKeeps ==
    ASSUME IInv, NEW p \in Player, WaitSubscribe(p)
    PROVE  IInv'
<1>1. PICK c \in CrashPoint, reply \in Reply : StartRound(c, reply)
    BY DEF WaitSubscribe
<1>2. subs' \subseteq Player /\ pc = "wait"
    BY DEF WaitSubscribe, IInv, TypeOK
<1>3. QED BY <1>1, <1>2, StartRoundKeeps

\* The next round starts from the end of the sleep, or the engine idles.
LEMMA ResumeKeeps ==
    ASSUME IInv, Resume
    PROVE  IInv'
<1>1. subs' \subseteq Player /\ pc = "pause"
    BY DEF Resume, IInv, TypeOK
<1>2. CASE subs # {}
    <2>1. PICK c \in CrashPoint, reply \in Reply : StartRound(c, reply)
        BY <1>2 DEF Resume
    <2>2. QED BY <1>1, <2>1, StartRoundKeeps
<1>3. CASE subs = {}
    <2> USE DEF Resume, GoIdle, memory, database, environment
    <2>1. TypeOK'
        BY <1>3 DEF IInv, TypeOK, Phase
    <2>2. RecordsClean'
        BY <1>3 DEF IInv, RecordsClean
    <2>3. QED BY <1>3, <2>1, <2>2, IdleKeeps
<1>4. QED BY <1>2, <1>3

\* Committing the hash and opening the betting disclose nothing.
LEMMA FinishStartKeeps ==
    ASSUME IInv, NEW reply \in Reply, FinishStart(reply)
    PROVE  IInv'
<1> USE DEF FinishStart, memory
<1>1. roundID \in 1 .. Len(rounds) /\ crashBP \in Int
    BY CurrentRow DEF IInv, TypeOK
<1>2. /\ rounds' \in Seq(RoundRow) /\ Len(rounds') = Len(rounds)
      /\ rounds'[roundID].state = rounds[roundID].state
      /\ rounds'[roundID].bets = rounds[roundID].bets
    BY <1>1, SetRowHash DEF IInv, TypeOK
<1>3. seen' = seen
    BY DEF Broadcast, Revealed
<1>4. TypeOK'
    BY <1>2, <1>3, BoundAssumption DEF IInv, TypeOK, Phase, Statement
<1>5. OutcomeHidden' /\ PaidAsAgreed' /\ AutoCashoutHonoured'
    BY <1>2, <1>3 DEF IInv, OutcomeHidden, InPlay, PaidAsAgreed, AutoCashoutHonoured, Flown
<1>6. BooksMatchMemory' /\ RecordsClean' /\ BeforeFlight' /\ RowFollows'
    BY <1>2 DEF IInv, BooksMatchMemory, RecordsClean, BeforeFlight, RowFollows
<1>7. QED BY <1>4, <1>5, <1>6 DEF IInv

\* A takeoff without bets starts the flight with an empty map.
LEMMA TakeoffNoBetsKeeps ==
    ASSUME IInv, NEW reply \in Reply, TakeoffNoBets(reply)
    PROVE  IInv'
<1> USE DEF TakeoffNoBets, memory
<1>1. roundID \in 1 .. Len(rounds)
    BY CurrentRow
<1>2. /\ rounds' \in Seq(RoundRow) /\ Len(rounds') = Len(rounds)
      /\ rounds'[roundID].state \in {rounds[roundID].state, "flying"}
      /\ rounds'[roundID].bets = rounds[roundID].bets
    BY <1>1, SetRowState DEF IInv, TypeOK
<1>3. ASSUME NEW p \in Player
      PROVE  ~Joined(participants[p]) /\ BetOf(participants[p]) = NoRow
    <2>1. ~Joined(participants[p])
        BY DEF Bettors
    <2>2. participants[p].amount = 0 /\ participants[p].target = 0
        BY <2>1 DEF IInv, TypeOK, RecordsClean, Joined, Participant
    <2>3. QED BY <2>1, <2>2, Int32Zero DEF BetOf, NoRow
<1>4. TypeOK'
    BY <1>2, BoundAssumption, CurveAssumption DEF IInv, TypeOK, Phase, Statement, BeforeFlight
<1>5. OutcomeHidden'
    BY <1>2 DEF IInv, OutcomeHidden, InPlay
<1>6. PaidAsAgreed' /\ AutoCashoutHonoured'
    BY <1>3 DEF IInv, PaidAsAgreed, AutoCashoutHonoured, BeforeFlight, Flown
<1>7. BooksMatchMemory'
    BY <1>2, <1>3 DEF IInv, BooksMatchMemory, BeforeFlight
<1>8. RecordsClean' /\ BeforeFlight' /\ RowFollows'
    BY <1>2, CrashAssumption, CurveAssumption
    DEF IInv, TypeOK, Phase, RecordsClean, BeforeFlight, RowFollows
<1>9. QED BY <1>4, <1>5, <1>6, <1>7, <1>8 DEF IInv

\* Handing out bet ids changes nothing else in the map.
OnlyBooked(ids) ==
    /\ participants' \in [Player -> Participant]
    /\ \A p \in Player :
         /\ participants'[p].booked <=> p \in ids
         /\ participants'[p].amount = participants[p].amount
         /\ participants'[p].target = participants[p].target
         /\ participants'[p].cashedOut = participants[p].cashedOut
         /\ participants'[p].mult = participants[p].mult
         /\ participants'[p].payout = participants[p].payout

\* Handing out bet ids keeps the map's type.
LEMMA BookedType ==
    ASSUME IInv, NEW ids \in SUBSET Player,
           participants' = [p \in Player |-> [participants[p] EXCEPT !.booked = p \in ids]]
    PROVE  OnlyBooked(ids)
<1>1. ASSUME NEW p \in Player
      PROVE  /\ participants'[p] \in Participant
             /\ participants'[p].booked <=> p \in ids
             /\ participants'[p].amount = participants[p].amount
             /\ participants'[p].target = participants[p].target
             /\ participants'[p].cashedOut = participants[p].cashedOut
             /\ participants'[p].mult = participants[p].mult
             /\ participants'[p].payout = participants[p].payout
    <2>1. participants[p] \in Participant
        BY DEF IInv, TypeOK
    <2>2. CASE p \in ids
        <3>1. (p \in ids) = TRUE
            BY <2>2
        <3>2. participants'[p] = [participants[p] EXCEPT !.booked = TRUE]
            BY <3>1, Zenon
        <3>3. QED BY <2>1, <2>2, <3>2 DEF Participant
    <2>3. CASE p \notin ids
        <3>1. (p \in ids) = FALSE
            BY <2>3
        <3>2. participants'[p] = [participants[p] EXCEPT !.booked = FALSE]
            BY <3>1, Zenon
        <3>3. QED BY <2>1, <2>3, <3>2 DEF Participant
    <2>4. QED BY <2>2, <2>3
<1>2. participants' \in [Player -> Participant]
    BY <1>1
<1>3. QED BY <1>1, <1>2 DEF OnlyBooked

\* A rolled back takeoff leaves some ids behind in an idle engine's map.
LEMMA TakeoffFailsKeeps ==
    ASSUME IInv, TakeoffFails
    PROVE  IInv'
<1>1. PICK done \in SUBSET Bettors :
        participants' = [p \in Player |-> [participants[p] EXCEPT !.booked = p \in done]]
    BY DEF TakeoffFails
<1>2. OnlyBooked(done)
    <2>1. done \in SUBSET Player
        BY DEF Bettors
    <2>2. QED BY <1>1, <2>1, BookedType
<1>3. TypeOK'
    BY <1>2, BoundAssumption
    DEF IInv, TypeOK, Phase, TakeoffFails, GoIdle, database, OnlyBooked
<1>4. RecordsClean'
    BY <1>2 DEF IInv, RecordsClean, Joined, OnlyBooked
<1>5. QED BY <1>3, <1>4, IdleKeeps DEF TakeoffFails, GoIdle

\* The statements of the takeoff give every participant a bet id.
LEMMA TakeoffMarksKeeps ==
    ASSUME IInv, NEW reply \in Reply, TakeoffMarks(reply)
    PROVE  IInv'
<1> USE DEF TakeoffMarks
<1>1. roundID \in 1 .. Len(rounds)
    BY CurrentRow
<1>2. /\ rounds' \in Seq(RoundRow) /\ Len(rounds') = Len(rounds)
      /\ rounds'[roundID].state \in {rounds[roundID].state, "flying"}
      /\ rounds'[roundID].bets = rounds[roundID].bets
    BY <1>1, SetRowState DEF IInv, TypeOK
<1>3. Bettors \in SUBSET Player
    BY DEF Bettors
<1>4. OnlyBooked(Bettors)
    BY <1>3, BookedType
<1>5. TypeOK'
    BY <1>2, <1>4, BoundAssumption DEF IInv, TypeOK, Phase, Statement, GoIdle, OnlyBooked
<1>6. RecordsClean'
    BY <1>4 DEF IInv, RecordsClean, Joined, OnlyBooked
<1>7. CASE reply = "ok"
    <2>1. pc' = "takeoff"
        BY <1>7
    <2>2. OutcomeHidden' /\ PaidAsAgreed' /\ AutoCashoutHonoured'
        BY <1>2, <2>1 DEF IInv, OutcomeHidden, InPlay, PaidAsAgreed, AutoCashoutHonoured, Flown
    <2>3. BooksMatchMemory' /\ BeforeFlight' /\ RowFollows'
        BY <1>2, <1>4, <2>1
        DEF IInv, BooksMatchMemory, BeforeFlight, RowFollows, Bettors, Joined, OnlyBooked
    <2>4. QED BY <1>5, <1>6, <2>2, <2>3 DEF IInv
<1>8. CASE reply # "ok"
    BY <1>5, <1>6, <1>8, IdleKeeps DEF GoIdle
<1>9. QED BY <1>7, <1>8

\* The takeoff's COMMIT writes the rows the flight relies on.
LEMMA CommitTakeoffKeeps ==
    ASSUME IInv, NEW reply \in Reply, CommitTakeoff(reply)
    PROVE  IInv'
<1> USE DEF CommitTakeoff, memory, database
<1> DEFINE bets == [p \in Player |-> BetOf(participants[p])]
<1>1. roundID \in 1 .. Len(rounds)
    BY CurrentRow
<1>2. bets \in [Player -> BetRow]
    BY BetRowType DEF IInv, TypeOK
<1>3. Executed(reply) => /\ rounds' = SetRow(roundID, "bets", bets)
                         /\ \A p \in Player : bets[p] = BetOf(participants[p])
    OBVIOUS
<1> HIDE DEF bets
<1>4. /\ rounds' \in Seq(RoundRow) /\ Len(rounds') = Len(rounds)
      /\ rounds'[roundID].state = rounds[roundID].state
      /\ Executed(reply) => rounds'[roundID].bets = bets
    BY <1>1, <1>2, <1>3, SetRowBets DEF IInv, TypeOK
<1>5. balance' \in [Player -> Int]
    <2>1. \A p \in Player : balance[p] \in Int /\ participants[p].amount \in Int
        BY DEF IInv, TypeOK, Participant
    <2>2. CASE Executed(reply)
        <3>1. balance' = [p \in Player |-> balance[p] - participants[p].amount]
            BY <2>2
        <3>2. \A p \in Player : balance[p] - participants[p].amount \in Int
            BY <2>1
        <3> HIDE DEF CommitTakeoff
        <3>3. QED BY <3>1, <3>2
    <2>3. CASE ~Executed(reply)
        <3>1. balance' = balance
            BY <2>3
        <3> HIDE DEF CommitTakeoff
        <3>2. QED BY <3>1 DEF IInv, TypeOK
    <2>4. QED BY <2>2, <2>3
<1>6. TypeOK'
    <2>1. faults' \in 0 .. MaxFaults
        BY BoundAssumption DEF IInv, TypeOK, Statement
    <2>2. Phase' /\ state' \in {"idle", "flying"} /\ pc' \in {"wait", "fly"}
        BY <1>4, CurveAssumption DEF IInv, TypeOK, Phase, GoIdle, BeforeFlight
    <2>3. QED BY <1>4, <1>5, <2>1, <2>2 DEF IInv, TypeOK
<1>7. RecordsClean'
    BY DEF IInv, RecordsClean
<1>8. CASE reply = "ok"
    <2>1. pc' = "fly" /\ Executed(reply)
        BY <1>8 DEF Executed
    <2>2. OutcomeHidden' /\ AutoCashoutHonoured' /\ RowFollows'
        BY <1>4, <2>1 DEF IInv, OutcomeHidden, InPlay, AutoCashoutHonoured, RowFollows, Flown
    <2>3. PaidAsAgreed'
        <3>1. Curve[ticks] = 100 /\ UNCHANGED <<participants, ticks, crashBP>>
            BY CurveAssumption DEF IInv, BeforeFlight
        <3>2. ASSUME NEW p \in Player
              PROVE  /\ ~participants[p].cashedOut
                     /\ participants[p].target > 0 => 100 < participants[p].target
            <4>1. ~participants[p].cashedOut
                BY DEF IInv, BeforeFlight
            <4>2. participants[p].target \in Target \cup {0}
                BY DEF IInv, RecordsClean
            <4>3. \A t \in Target \cup {0} : t > 0 => 100 < t
                BY TargetAssumption
            <4>4. QED BY <4>1, <4>2, <4>3
        <3>3. QED BY <3>1, <3>2 DEF PaidAsAgreed
    <2>4. BooksMatchMemory'
        BY <1>3, <1>4, <2>1 DEF IInv, BooksMatchMemory, BeforeFlight
    <2>5. BeforeFlight'
        BY <2>1, CrashAssumption, CurveAssumption DEF IInv, TypeOK, Phase, BeforeFlight
    <2>6. QED BY <1>6, <1>7, <2>2, <2>3, <2>4, <2>5 DEF IInv
<1>9. CASE reply # "ok"
    BY <1>6, <1>7, <1>9, IdleKeeps DEF GoIdle
<1>10. QED BY <1>8, <1>9

\* A tick cashes out everybody due before it checks for the crash.
LEMMA TickKeeps ==
    ASSUME IInv, Tick
    PROVE  IInv'
<1> USE DEF Tick, database, environment
<1> DEFINE bp == Curve[ticks + 1]
           due == {p \in Player : AutoDue(participants[p], bp)}
<1>1. /\ ticks \in Nat /\ ticks + 1 \in 0 .. MaxTicks /\ bp \in Nat
      /\ Curve[ticks] \in Nat /\ Curve[ticks] <= bp
      /\ crashBP \in Nat /\ crashBP <= Curve[MaxTicks]
    BY CurveAssumption DEF IInv, TypeOK, Phase
<1>2. ASSUME NEW p \in Player, p \in due
      PROVE  /\ participants'[p] \in Participant
             /\ participants'[p].amount = participants[p].amount
             /\ participants'[p].target = participants[p].target
             /\ participants'[p].booked = participants[p].booked
             /\ participants'[p].cashedOut
             /\ participants'[p].mult = participants[p].target
             /\ participants'[p].payout = PayoutOf(participants[p].amount, participants[p].target)
    <2>1. participants[p] \in Participant /\ participants[p].target \in Nat
        BY DEF IInv, TypeOK, Participant
    <2>2. participants'[p] = CashedOutAt(participants[p], participants[p].target)
        BY <1>2 DEF AutoCashouts, IInv, TypeOK
    <2>3. QED BY <2>1, <2>2, CashedOutType
<1>3. ASSUME NEW p \in Player, p \notin due
      PROVE  participants'[p] = participants[p]
    BY <1>3 DEF AutoCashouts, IInv, TypeOK
<1>4. participants' \in [Player -> Participant]
    <2>1. \A p \in Player : participants'[p] \in Participant
        BY <1>2, <1>3 DEF IInv, TypeOK
    <2>2. DOMAIN participants = Player
        BY DEF IInv, TypeOK
    <2>3. QED BY <2>1, <2>2 DEF AutoCashouts
<1>5. bp < crashBP => ticks + 1 < MaxTicks
    BY <1>1, CurveAssumption
<1>6. \A p \in Player : p \in due <=>
          /\ Joined(participants[p]) /\ ~participants[p].cashedOut
          /\ participants[p].target > 0 /\ bp >= participants[p].target
    BY DEF AutoDue
<1> HIDE DEF due
<1>7. TypeOK'
    BY <1>1, <1>4, <1>5 DEF IInv, TypeOK, Phase, Broadcast, Revealed
<1>8. OutcomeHidden'
    BY DEF IInv, TypeOK, Phase, OutcomeHidden, InPlay, Broadcast, Revealed
<1>9. PaidAsAgreed'
    <2>1. ticks' = ticks + 1 /\ Curve[ticks'] = bp /\ crashBP' = crashBP
        OBVIOUS
    <2>2. ASSUME NEW p \in Player, p \in due
          PROVE  /\ participants'[p].payout = PayoutOf(participants'[p].amount, participants'[p].mult)
                 /\ participants'[p].mult <= bp
                 /\ participants'[p].mult = participants'[p].target
                 /\ participants'[p].cashedOut
                 /\ participants'[p].target \in Nat /\ 100 <= participants'[p].target
        <3>1. participants[p].target \in Target \cup {0} /\ participants[p].target > 0
            BY <1>6, <2>2 DEF IInv, RecordsClean
        <3>2. \A t \in Target \cup {0} : t > 0 => t \in Nat /\ 100 <= t
            BY TargetAssumption
        <3>3. QED BY <1>2, <1>6, <2>2, <3>1, <3>2
    <2>3. ASSUME NEW p \in Player, p \notin due
          PROVE  LET part == participants'[p] IN
                 /\ part.cashedOut =>
                      /\ part.payout = PayoutOf(part.amount, part.mult)
                      /\ 100 <= part.mult /\ part.mult <= bp
                      /\ part.target > 0 => part.mult <= part.target
                      /\ ByHand(part) => part.mult <= crashBP
                 /\ Joined(part) /\ ~part.cashedOut /\ part.target > 0 => bp < part.target
        <3>1. /\ participants'[p] = participants[p] /\ participants[p] \in Participant
              /\ participants[p].cashedOut =>
                   /\ participants[p].payout = PayoutOf(participants[p].amount, participants[p].mult)
                   /\ 100 <= participants[p].mult /\ participants[p].mult <= Curve[ticks]
                   /\ participants[p].target > 0 => participants[p].mult <= participants[p].target
                   /\ ByHand(participants[p]) => participants[p].mult <= crashBP
            BY <1>3, <2>3 DEF IInv, TypeOK, PaidAsAgreed
        <3>2. participants[p].mult \in Nat /\ participants[p].target \in Nat
            BY <3>1 DEF Participant
        <3>3. participants[p].mult <= Curve[ticks] => participants[p].mult <= bp
            BY <1>1, <3>2
        <3>4. Joined(participants[p]) /\ ~participants[p].cashedOut /\ participants[p].target > 0
                  => bp < participants[p].target
            BY <1>1, <1>6, <2>3, <3>2
        <3> HIDE DEF bp
        <3>5. QED BY <3>1, <3>3, <3>4
    <2>4. ASSUME NEW p \in Player
          PROVE  LET part == participants'[p] IN
                 /\ part.cashedOut =>
                      /\ part.payout = PayoutOf(part.amount, part.mult)
                      /\ 100 <= part.mult /\ part.mult <= bp
                      /\ part.target > 0 => part.mult <= part.target
                      /\ ByHand(part) => part.mult <= crashBP
                 /\ Joined(part) /\ ~part.cashedOut /\ part.target > 0 => bp < part.target
        <3>1. CASE p \in due
            BY <2>2, <3>1 DEF ByHand
        <3>2. CASE p \notin due
            BY <2>3, <3>2
        <3>3. QED BY <3>1, <3>2
    <2> HIDE DEF bp
    <2>5. QED BY <2>1, <2>4 DEF PaidAsAgreed
<1>10. AutoCashoutHonoured'
    <2>1. SUFFICES ASSUME bp >= crashBP, NEW p \in Player, Joined(participants'[p]),
                          participants'[p].target \in 1 .. crashBP
                   PROVE  participants'[p].cashedOut
                          /\ participants'[p].mult <= participants'[p].target
        BY DEF AutoCashoutHonoured, Flown
    <2>2. CASE p \in due
        BY <1>1, <1>2, <2>1, <2>2
    <2>3. CASE p \notin due
        BY <1>1, <1>3, <1>6, <2>1, <2>3 DEF IInv, PaidAsAgreed
    <2>4. QED BY <2>2, <2>3
<1>11. BooksMatchMemory'
    <2>1. \A p \in Player : /\ participants'[p].booked = participants[p].booked
                            /\ Joined(participants'[p]) = Joined(participants[p])
                            /\ BetOf(participants'[p]) = BetOf(participants[p])
        BY <1>2, <1>3 DEF Joined, BetOf
    <2>2. QED BY <2>1 DEF IInv, BooksMatchMemory
<1>12. RecordsClean' /\ RowFollows'
    BY <1>2, <1>3, <1>6 DEF IInv, RecordsClean, RowFollows, Joined
<1>13. BeforeFlight'
    BY <1>1 DEF IInv, BeforeFlight
<1>14. QED BY <1>7, <1>8, <1>9, <1>10, <1>11, <1>12, <1>13 DEF IInv

\* RevealOutcome moves only the state of the round's row.
LEMMA RevealKeeps ==
    ASSUME IInv, NEW reply \in Reply, Reveal(reply)
    PROVE  IInv'
<1> USE DEF Reveal, memory
<1>1. roundID \in 1 .. Len(rounds)
    BY CurrentRow
<1>2. /\ rounds' \in Seq(RoundRow) /\ Len(rounds') = Len(rounds)
      /\ rounds'[roundID].state \in {rounds[roundID].state, "crashed"}
      /\ rounds'[roundID].bets = rounds[roundID].bets
    BY <1>1, SetRowState DEF IInv, TypeOK
<1>3. TypeOK'
    BY <1>2, BoundAssumption DEF IInv, TypeOK, Phase, Statement
<1>4. OutcomeHidden' /\ PaidAsAgreed' /\ AutoCashoutHonoured'
    BY DEF IInv, OutcomeHidden, InPlay, PaidAsAgreed, AutoCashoutHonoured, Flown
<1>5. BooksMatchMemory' /\ RecordsClean' /\ BeforeFlight' /\ RowFollows'
    BY <1>2 DEF IInv, BooksMatchMemory, RecordsClean, BeforeFlight, RowFollows
<1>6. QED BY <1>3, <1>4, <1>5 DEF IInv

\* A rolled back settlement idles.
LEMMA SettleFailsKeeps ==
    ASSUME IInv, SettleFails
    PROVE  IInv'
<1>1. TypeOK'
    BY BoundAssumption DEF IInv, TypeOK, Phase, SettleFails, GoIdle, memory, database
<1>2. RecordsClean'
    BY DEF IInv, RecordsClean, SettleFails, memory
<1>3. QED BY <1>1, <1>2, IdleKeeps DEF SettleFails, GoIdle

\* SettleRound moves only the state of the round's row.
LEMMA SettleRoundKeeps ==
    ASSUME IInv, NEW reply \in Reply, SettleRound(reply)
    PROVE  IInv'
<1> USE DEF SettleRound, memory
<1>1. roundID \in 1 .. Len(rounds)
    BY CurrentRow
<1>2. /\ rounds' \in Seq(RoundRow) /\ Len(rounds') = Len(rounds)
      /\ rounds'[roundID].bets = rounds[roundID].bets
    BY <1>1, SetRowState DEF IInv, TypeOK
<1>3. TypeOK'
    BY <1>2, BoundAssumption DEF IInv, TypeOK, Phase, Statement, GoIdle
<1>4. RecordsClean'
    BY DEF IInv, RecordsClean
<1>5. CASE reply = "ok"
    <2>1. pc' = "pay"
        BY <1>5
    <2>2. OutcomeHidden' /\ PaidAsAgreed' /\ AutoCashoutHonoured'
        BY <2>1 DEF IInv, OutcomeHidden, InPlay, PaidAsAgreed, AutoCashoutHonoured, Flown
    <2>3. BooksMatchMemory' /\ BeforeFlight' /\ RowFollows'
        BY <1>2, <2>1 DEF IInv, BooksMatchMemory, BeforeFlight, RowFollows
    <2>4. QED BY <1>3, <1>4, <2>2, <2>3 DEF IInv
<1>6. CASE reply # "ok"
    BY <1>3, <1>4, <1>6, IdleKeeps DEF GoIdle
<1>7. QED BY <1>5, <1>6

\* The settlement's COMMIT writes what each participant was paid.
LEMMA CommitSettleKeeps ==
    ASSUME IInv, NEW reply \in Reply, CommitSettle(reply)
    PROVE  IInv'
<1> USE DEF CommitSettle, memory, database
<1> DEFINE bets == [p \in Player |-> SettledRow(rounds[roundID].bets[p], participants[p])]
<1>1. roundID \in 1 .. Len(rounds) /\ rounds[roundID].bets \in [Player -> BetRow]
    BY CurrentRow DEF RoundRow
<1>2. bets \in [Player -> BetRow]
    BY <1>1, BetRowType DEF IInv, TypeOK
<1>3. Executed(reply) =>
        /\ rounds' = SetRow(roundID, "bets", bets)
        /\ \A p \in Player :
             bets[p] = SettledRow(rounds[roundID].bets[p], participants[p])
    OBVIOUS
<1> HIDE DEF bets
<1>4. /\ rounds' \in Seq(RoundRow) /\ Len(rounds') = Len(rounds)
      /\ Executed(reply) => rounds'[roundID].bets = bets
    BY <1>1, <1>2, <1>3, SetRowBets DEF IInv, TypeOK
<1>5. balance' \in [Player -> Int]
    <2>1. \A p \in Player : balance[p] \in Int /\ Credit(participants[p]) \in Int
        BY DEF IInv, TypeOK, Participant, Credit
    <2>2. CASE Executed(reply)
        BY <2>1, <2>2
    <2>3. CASE ~Executed(reply)
        BY <2>3 DEF IInv, TypeOK
    <2>4. QED BY <2>2, <2>3
<1>6. TypeOK'
    <2>1. seen' \subseteq 1 .. Len(rounds')
        BY <1>1, <1>4 DEF IInv, TypeOK, Revealed
    <2>2. QED BY <1>4, <1>5, <2>1, BoundAssumption
          DEF IInv, TypeOK, Phase, Statement, GoIdle
<1>7. RecordsClean'
    BY DEF IInv, RecordsClean
<1>8. CASE reply = "ok"
    <2>1. pc' = "pause" /\ Executed(reply)
        BY <1>8 DEF Executed
    <2>2. OutcomeHidden' /\ PaidAsAgreed' /\ AutoCashoutHonoured'
        BY <2>1 DEF IInv, OutcomeHidden, InPlay, PaidAsAgreed, AutoCashoutHonoured, Flown
    <2>3. BooksMatchMemory'
        BY <1>3, <1>4, <2>1 DEF IInv, BooksMatchMemory
    <2>4. BeforeFlight' /\ RowFollows'
        BY <2>1 DEF BeforeFlight, RowFollows
    <2>5. QED BY <1>6, <1>7, <2>2, <2>3, <2>4 DEF IInv
<1>9. CASE reply # "ok"
    BY <1>6, <1>7, <1>9, IdleKeeps DEF GoIdle
<1>10. QED BY <1>8, <1>9

\* A restart forgets the round; every property is about a live round.
LEMMA RestartKeeps ==
    ASSUME IInv, Restart
    PROVE  IInv'
<1> USE DEF Restart, GoIdle, database
<1>1. NoBets \in [Player -> Participant]
    BY DEF NoBets, Absent, Participant
<1>2. TypeOK'
    BY <1>1, CurveAssumption, BoundAssumption DEF IInv, TypeOK, Phase
<1>3. RecordsClean'
    BY DEF RecordsClean, NoBets, Absent, Joined
<1>4. QED BY <1>2, <1>3, IdleKeeps

-----------------------------------------------------------------------------
(* The invariant.                                                          *)

\* A new engine on an empty database satisfies the invariant.
LEMMA InitEstablishes == Init => IInv
<1> SUFFICES ASSUME Init PROVE IInv
    OBVIOUS
<1> USE DEF Init
<1>1. NoBets \in [Player -> Participant]
    BY DEF NoBets, Absent, Participant
<1>2. TypeOK
    BY <1>1, CurveAssumption, BoundAssumption DEF TypeOK, Phase
<1>3. RecordsClean
    BY DEF RecordsClean, NoBets, Absent, Joined
<1>4. QED BY <1>2, <1>3
    DEF IInv, OutcomeHidden, InPlay, PaidAsAgreed, Flown, AutoCashoutHonoured,
        BooksMatchMemory, BeforeFlight, RowFollows

\* A stuttering step changes nothing the invariant reads.
LEMMA StutterKeeps == IInv /\ UNCHANGED vars => IInv'
BY DEF vars, memory, database, environment, IInv, TypeOK, Phase, OutcomeHidden, InPlay,
       PaidAsAgreed, Flown, AutoCashoutHonoured, BooksMatchMemory, RecordsClean,
       BeforeFlight, RowFollows

\* Every step of the system preserves the invariant.
LEMMA StepKeeps == IInv /\ [Next]_vars => IInv'
<1> SUFFICES ASSUME IInv, [Next]_vars PROVE IInv'
    OBVIOUS
<1>1. CASE EngineStep
    BY <1>1, FinishStartKeeps, TakeoffNoBetsKeeps, TakeoffFailsKeeps, TakeoffMarksKeeps,
       CommitTakeoffKeeps, TickKeeps, RevealKeeps, SettleFailsKeeps, SettleRoundKeeps,
       CommitSettleKeeps, ResumeKeeps
    DEF EngineStep
<1>2. CASE CommandStep
    BY <1>2, WaitSubscribeKeeps, HandleSubscribeKeeps, HandleUnsubscribeKeeps,
       CashOutKeeps, PlaceBetKeeps
    DEF CommandStep
<1>3. CASE Restart
    BY <1>3, RestartKeeps
<1>4. CASE UNCHANGED vars
    BY <1>4, StutterKeeps
<1>5. QED BY <1>1, <1>2, <1>3, <1>4 DEF Next

\* The inductive invariant holds of every reachable state of the engine.
THEOREM Invariance == Spec => []IInv
<1>1. QED BY InitEstablishes, StepKeeps, PTL DEF Spec

\* Types are right, and the switch of runLoop always meets a state it serves.
THEOREM TypeCorrect == Spec => []TypeOK
<1>1. IInv => TypeOK
    BY DEF IInv
<1>2. QED BY <1>1, Invariance, PTL

\* The outcome is neither shown nor queryable before the crash.
THEOREM Secrecy == Spec => []OutcomeHidden
<1>1. IInv => OutcomeHidden
    BY DEF IInv
<1>2. QED BY <1>1, Invariance, PTL

\* Cashouts are paid at the agreed multiplier.
THEOREM Payments == Spec => []PaidAsAgreed
<1>1. IInv => PaidAsAgreed
    BY DEF IInv
<1>2. QED BY <1>1, Invariance, PTL

\* No automatic cashout within the crash point is missed.
THEOREM DueCashoutsFire == Spec => []AutoCashoutHonoured
<1>1. IInv => AutoCashoutHonoured
    BY DEF IInv
<1>2. QED BY <1>1, Invariance, PTL

\* The bets table and the engine's memory agree in every phase.
THEOREM BooksAgree == Spec => []BooksMatchMemory
<1>1. IInv => BooksMatchMemory
    BY DEF IInv
<1>2. QED BY <1>1, Invariance, PTL

-----------------------------------------------------------------------------
(* The width of payouts.                                                   *)

\* Every stake in the map is one a form sent.
StakesSent == \A p \in Player : participants[p].amount \in Amount \cup {0}

\* Only PlaceBet writes a stake; a cashout keeps it, a round or a restart clears it.
LEMMA StakesKept == IInv /\ StakesSent /\ [Next]_vars => StakesSent'
<1> SUFFICES ASSUME IInv, StakesSent, [Next]_vars PROVE StakesSent'
    OBVIOUS
<1> USE DEF StakesSent
<1>0. participants \in [Player -> Participant]
    BY DEF IInv, TypeOK
<1>1. participants' = NoBets => StakesSent'
    BY DEF NoBets, Absent
<1>2. UNCHANGED participants => StakesSent'
    OBVIOUS
<1>3. CASE EngineStep
    <2>1. ASSUME NEW reply \in Reply, TakeoffMarks(reply) PROVE StakesSent'
        BY <1>0, <2>1 DEF TakeoffMarks, Participant
    <2>2. TakeoffFails => StakesSent'
        BY <1>0 DEF TakeoffFails, Participant
    <2>3. Tick => StakesSent'
        <3>1. ASSUME Tick, NEW p \in Player
              PROVE  participants'[p].amount = participants[p].amount
            <4>1. participants[p] \in Participant /\ participants[p].target \in Nat
                BY <1>0 DEF Participant
            <4>2. participants'[p] \in {participants[p],
                                       CashedOutAt(participants[p], participants[p].target)}
                BY <1>0, <3>1 DEF Tick, AutoCashouts
            <4>3. QED BY <4>1, <4>2, CashedOutType
        <3>2. QED BY <3>1
    <2>4. Resume => StakesSent'
        BY <1>1, <1>2 DEF Resume, StartRound, memory
    <2>5. ASSUME NEW reply \in Reply,
                 \/ FinishStart(reply) \/ TakeoffNoBets(reply) \/ CommitTakeoff(reply)
                 \/ Reveal(reply) \/ SettleRound(reply) \/ CommitSettle(reply)
          PROVE  StakesSent'
        BY <1>2, <2>5 DEF FinishStart, TakeoffNoBets, CommitTakeoff, Reveal, SettleRound,
                          CommitSettle, memory
    <2>6. SettleFails => StakesSent'
        BY <1>2 DEF SettleFails, memory
    <2>7. QED BY <1>3, <2>1, <2>2, <2>3, <2>4, <2>5, <2>6 DEF EngineStep
<1>4. CASE CommandStep
    <2> SUFFICES ASSUME NEW p \in Player,
                        \/ WaitSubscribe(p) \/ HandleSubscribe(p)
                        \/ HandleUnsubscribe(p) \/ CashOut(p)
                        \/ \E amount \in Amount, target \in Target : PlaceBet(p, amount, target)
                 PROVE  StakesSent'
        BY <1>4 DEF CommandStep
    <2>1. WaitSubscribe(p) => StakesSent'
        BY <1>1 DEF WaitSubscribe, StartRound
    <2>2. HandleSubscribe(p) \/ HandleUnsubscribe(p) => StakesSent'
        BY <1>2 DEF HandleSubscribe, HandleUnsubscribe, memory
    <2>3. CashOut(p) => StakesSent'
        BY <1>0 DEF CashOut, CashedOutAt, Participant
    <2>4. ASSUME NEW amount \in Amount, NEW target \in Target, PlaceBet(p, amount, target)
          PROVE  StakesSent'
        BY <1>0, <2>4 DEF PlaceBet, FreshBet
    <2>5. QED BY <2>1, <2>2, <2>3, <2>4
<1>5. CASE Restart
    BY <1>1, <1>5 DEF Restart
<1>6. CASE UNCHANGED vars
    BY <1>2, <1>6 DEF vars, memory
<1>7. QED BY <1>3, <1>4, <1>5, <1>6 DEF Next

\* settleCashout multiplies before it divides (engine.go:308).  The product stays
\* below any bound that no stake reaches at the last tick of the longest flight,
\* 2^63 among them: no cashout is paid at more than the multiplier on screen.
THEOREM ProductsFit ==
    ASSUME NEW Limit \in Nat, \A a \in Amount : a * Curve[MaxTicks] < Limit, Limit > 0
    PROVE  Spec => [](pc = "fly" \/ Flown => \A p \in Player :
                         participants[p].cashedOut =>
                             participants[p].amount * participants[p].mult < Limit)
<1> DEFINE Fits == pc = "fly" \/ Flown => \A p \in Player :
                       participants[p].cashedOut =>
                           participants[p].amount * participants[p].mult < Limit
<1>1. Init => StakesSent
    BY DEF Init, StakesSent, NoBets, Absent
<1>2. IInv /\ StakesSent => Fits
    <2> SUFFICES ASSUME IInv, StakesSent, pc = "fly" \/ Flown,
                        NEW p \in Player, participants[p].cashedOut
                 PROVE  participants[p].amount * participants[p].mult < Limit
        OBVIOUS
    <2> DEFINE a == participants[p].amount  m == participants[p].mult  top == Curve[MaxTicks]
    <2>1. a \in Nat /\ m \in Nat /\ ticks \in 0 .. MaxTicks
        BY DEF IInv, TypeOK, Participant
    <2>2. m <= Curve[ticks]
        BY DEF IInv, PaidAsAgreed
    <2>3. Curve[ticks] <= top /\ Curve[ticks] \in Nat /\ top \in Nat
        BY <2>1, CurveAssumption
    <2>4. m <= top
        BY <2>1, <2>2, <2>3
    <2>5. a * top < Limit
        <3>1. CASE a = 0
            BY <2>3, <3>1
        <3>2. CASE a # 0
            BY <3>2 DEF StakesSent
        <3>3. QED BY <3>1, <3>2
    <2> HIDE DEF a, m, top
    <2>6. \E d \in Nat : top = m + d
        <3>1. top - m \in Nat /\ top = m + (top - m)
            BY <2>1, <2>3, <2>4
        <3>2. QED BY <3>1
    <2>7. PICK d \in Nat : top = m + d
        BY <2>6
    <2>8. a * top = a * m + a * d /\ a * d \in Nat /\ a * m \in Nat
        BY <2>1, <2>7
    <2>9. a * m < Limit
        <3> DEFINE x == a * m  y == a * d
        <3>1. x + y < Limit /\ x \in Nat /\ y \in Nat
            BY <2>5, <2>8
        <3> HIDE DEF x, y
        <3>2. x < Limit
            BY <3>1
        <3>3. QED BY <3>2 DEF x
    <2>10. QED BY <2>9 DEF a, m
<1> HIDE DEF Fits
<1>3. Spec => []StakesSent
    BY <1>1, StakesKept, Invariance, PTL DEF Spec
<1>4. Spec => []Fits
    BY <1>2, <1>3, Invariance, PTL
<1>5. QED BY <1>4 DEF Fits

-----------------------------------------------------------------------------
(* The action properties.                                                  *)

\* A row follows itself, and its bets have a net result.
LEMMA RowFacts ==
    ASSUME NEW row \in RoundRow
    PROVE  Follows(row, row) /\ \A p \in Player : Net(row.bets[p]) \in Int
<1>1. Follows(row, row)
    BY DEF Follows, Rank, RoundRow
<1>2. ASSUME NEW p \in Player
      PROVE  Net(row.bets[p]) \in Int
    <2>1. row.bets[p] \in BetRow
        BY DEF RoundRow
    <2>2. QED BY <2>1 DEF Net, BetRow
<1>3. QED BY <1>1, <1>2

\* Every row of the history is a round row.
LEMMA RowsTyped ==
    ASSUME IInv
    PROVE  /\ \A r \in 1 .. Len(rounds) : rounds[r] \in RoundRow
           /\ Len(rounds) \in Nat
           /\ roundID # 0 => roundID \in 1 .. Len(rounds)
           /\ \A p \in Player : balance[p] \in Int
BY DEF IInv, TypeOK

\* A step that writes neither table keeps both promises.
LEMMA NothingWritten ==
    ASSUME IInv, rounds' = rounds, balance' = balance
    PROVE  MovesTogether /\ Appends
<1>1. Appends
    BY RowsTyped, RowFacts DEF Appends
<1>2. \A p \in Player : roundID # 0 => Net(rounds[roundID].bets[p]) \in Int
    BY RowsTyped, RowFacts
<1>3. QED BY <1>1, <1>2, RowsTyped DEF MovesTogether

\* An UPDATE of the current round's state or commitment, forwards.
LEMMA RoundUpdated ==
    ASSUME IInv, pc # "wait", balance' = balance, rounds' \in Seq(RoundRow),
           Len(rounds') = Len(rounds),
           rounds'[roundID].crash = rounds[roundID].crash,
           rounds'[roundID].bets = rounds[roundID].bets,
           Rank[rounds'[roundID].state] >= Rank[rounds[roundID].state],
           rounds[roundID].hash # Pending => rounds'[roundID].hash = rounds[roundID].hash,
           \A r \in 1 .. Len(rounds) : r # roundID => rounds'[r] = rounds[r]
    PROVE  MovesTogether /\ Appends
<1>1. roundID \in 1 .. Len(rounds) /\ rounds[roundID] \in RoundRow
    BY CurrentRow
<1>2. \A r \in 1 .. Len(rounds) : Follows(rounds[r], rounds[r])
    BY RowsTyped, RowFacts
<1>3. Follows(rounds[roundID], rounds'[roundID])
    BY DEF Follows
<1>4. Appends
    BY <1>1, <1>2, <1>3, RowsTyped DEF Appends
<1>5. \A p \in Player : Net(rounds[roundID].bets[p]) \in Int
    BY <1>1, RowFacts
<1>6. QED BY <1>4, <1>5, RowsTyped DEF MovesTogether

\* Starting a round appends a row without bets and touches no other.
LEMMA StartRoundWrites ==
    ASSUME IInv, NEW c \in CrashPoint, NEW reply \in Reply, StartRound(c, reply)
    PROVE  MovesTogether /\ Appends
<1>1. balance' = balance
    BY DEF StartRound
<1>2. CASE rounds' = rounds
    BY <1>1, <1>2, NothingWritten
<1>3. CASE rounds' = Append(rounds, NewRow(c))
    <2>1. /\ Len(rounds') = Len(rounds) + 1
          /\ \A r \in 1 .. Len(rounds) : rounds'[r] = rounds[r]
        BY <1>3, RowInserted, NewRowType DEF IInv, TypeOK
    <2>2. \A r \in 1 .. Len(rounds) : Follows(rounds[r], rounds[r])
        BY RowsTyped, RowFacts
    <2>3. Appends
        BY <2>1, <2>2, RowsTyped DEF Appends
    <2>4. roundID # 0 => /\ rounds'[roundID] = rounds[roundID]
                         /\ \A p \in Player : Net(rounds[roundID].bets[p]) \in Int
        BY <2>1, RowsTyped, RowFacts
    <2>5. QED BY <1>1, <2>3, <2>4, RowsTyped DEF MovesTogether
<1>4. QED BY <1>2, <1>3 DEF StartRound

\* The takeoff debits each stake together with its row.
LEMMA CommitTakeoffWrites ==
    ASSUME IInv, NEW reply \in Reply, CommitTakeoff(reply)
    PROVE  MovesTogether /\ Appends
<1> USE DEF CommitTakeoff, database
<1> DEFINE bets == [p \in Player |-> BetOf(participants[p])]
<1>1. CASE ~Executed(reply)
    BY <1>1, NothingWritten
<1>2. CASE Executed(reply)
    <2>1. roundID \in 1 .. Len(rounds) /\ rounds[roundID] \in RoundRow
        BY CurrentRow
    <2>2. \A p \in Player : /\ participants[p] \in Participant
                            /\ participants[p].amount \in Nat
                            /\ balance[p] \in Int
        BY DEF IInv, TypeOK, Participant
    <2>3. bets \in [Player -> BetRow]
        BY <2>2, BetRowType
    <2>4. ASSUME NEW p \in Player
          PROVE  /\ bets[p].payout = 0 /\ bets[p].amount = participants[p].amount
                 /\ rounds[roundID].bets[p] = NoRow
        BY <2>2, BetRowType DEF IInv, BooksMatchMemory
    <2>5. rounds' = SetRow(roundID, "bets", bets)
        BY <1>2
    <2> HIDE DEF bets
    <2>6. /\ Len(rounds') = Len(rounds)
          /\ rounds'[roundID].state = rounds[roundID].state
          /\ rounds'[roundID].crash = rounds[roundID].crash
          /\ rounds'[roundID].hash = rounds[roundID].hash
          /\ rounds'[roundID].bets = bets
          /\ \A r \in 1 .. Len(rounds) : r # roundID => rounds'[r] = rounds[r]
        BY <2>1, <2>3, <2>5, SetRowBets DEF IInv, TypeOK
    <2>7. Follows(rounds[roundID], rounds'[roundID])
        BY <2>1, <2>4, <2>6 DEF Follows, Rank, RoundRow, NoRow
    <2>8. Appends
        BY <2>1, <2>6, <2>7, RowsTyped, RowFacts DEF Appends
    <2>9. MovesTogether
        BY <1>2, <2>1, <2>2, <2>4, <2>6 DEF MovesTogether, Net, NoRow
    <2>10. QED BY <2>8, <2>9
<1>3. QED BY <1>1, <1>2

\* The settlement credits each payout together with its row.
LEMMA CommitSettleWrites ==
    ASSUME IInv, NEW reply \in Reply, CommitSettle(reply)
    PROVE  MovesTogether /\ Appends
<1> USE DEF CommitSettle, database
<1> DEFINE bets == [p \in Player |-> SettledRow(rounds[roundID].bets[p], participants[p])]
<1>1. CASE ~Executed(reply)
    BY <1>1, NothingWritten
<1>2. CASE Executed(reply)
    <2>1. /\ roundID \in 1 .. Len(rounds) /\ rounds[roundID] \in RoundRow
          /\ rounds[roundID].bets \in [Player -> BetRow]
        BY CurrentRow DEF RoundRow
    <2>2. \A p \in Player : /\ participants[p] \in Participant
                            /\ balance[p] \in Int
        BY DEF IInv, TypeOK
    <2>3. bets \in [Player -> BetRow]
        BY <2>1, <2>2, BetRowType
    <2>4. ASSUME NEW p \in Player
          PROVE  LET old == rounds[roundID].bets[p] IN
                 /\ old \in BetRow /\ old.payout = 0
                 /\ bets[p].amount = old.amount /\ bets[p].target = old.target
                 /\ bets[p].payout = Credit(participants[p])
                 /\ Credit(participants[p]) \in Nat
        <3> DEFINE old == rounds[roundID].bets[p]
        <3>1. old = BetOf(participants[p]) /\ old \in BetRow
            BY <2>1 DEF IInv, BooksMatchMemory
        <3>2. old.payout = 0
            BY <2>2, <3>1, BetRowType
        <3>3. bets[p] = SettledRow(old, participants[p])
            OBVIOUS
        <3>4. /\ participants[p].payout \in Nat
              /\ ~participants[p].cashedOut => participants[p].payout = 0
            BY <2>2 DEF IInv, RecordsClean, Participant
        <3> HIDE DEF old, bets
        <3>5. CASE participants[p].booked
            BY <3>1, <3>2, <3>3, <3>4, <3>5 DEF SettledRow, Settled, Credit, BetRow, old
        <3>6. CASE ~participants[p].booked
            BY <3>1, <3>2, <3>3, <3>6 DEF SettledRow, Credit, old
        <3>7. QED BY <3>5, <3>6
    <2>5. rounds' = SetRow(roundID, "bets", bets)
        BY <1>2
    <2> HIDE DEF bets
    <2>6. /\ Len(rounds') = Len(rounds)
          /\ rounds'[roundID].state = rounds[roundID].state
          /\ rounds'[roundID].crash = rounds[roundID].crash
          /\ rounds'[roundID].hash = rounds[roundID].hash
          /\ rounds'[roundID].bets = bets
          /\ \A r \in 1 .. Len(rounds) : r # roundID => rounds'[r] = rounds[r]
        BY <2>1, <2>3, <2>5, SetRowBets DEF IInv, TypeOK
    <2>7. Follows(rounds[roundID], rounds'[roundID])
        BY <2>1, <2>4, <2>6 DEF Follows, Rank, RoundRow
    <2>8. Appends
        BY <2>1, <2>6, <2>7, RowsTyped, RowFacts DEF Appends
    <2>9. MovesTogether
        <3>1. SUFFICES ASSUME NEW p \in Player
                       PROVE  balance'[p] - balance[p] =
                                Net(rounds'[roundID].bets[p]) - Net(rounds[roundID].bets[p])
            BY <2>1 DEF MovesTogether
        <3>2. balance'[p] = balance[p] + Credit(participants[p])
            BY <1>2
        <3>3. /\ rounds[roundID].bets[p].amount \in Nat /\ rounds[roundID].bets[p].payout = 0
              /\ bets[p].amount = rounds[roundID].bets[p].amount
              /\ bets[p].payout = Credit(participants[p]) /\ Credit(participants[p]) \in Nat
            BY <2>4 DEF BetRow
        <3>4. /\ Net(rounds'[roundID].bets[p]) =
                    Credit(participants[p]) - rounds[roundID].bets[p].amount
              /\ Net(rounds[roundID].bets[p]) = 0 - rounds[roundID].bets[p].amount
            BY <2>6, <3>3 DEF Net
        <3>5. balance[p] \in Int
            BY <2>2
        <3>6. QED BY <3>2, <3>3, <3>4, <3>5
    <2>10. QED BY <2>8, <2>9
<1>3. QED BY <1>1, <1>2

\* The single UPDATEs, none of which moves the row backwards.
LEMMA UpdatesWrite ==
    ASSUME IInv, NEW reply \in Reply,
           \/ FinishStart(reply)
           \/ TakeoffNoBets(reply)
           \/ TakeoffMarks(reply)
           \/ Reveal(reply)
           \/ SettleRound(reply)
    PROVE  MovesTogether /\ Appends
<1>1. CASE rounds' = rounds
    <2>1. balance' = balance
        BY DEF FinishStart, TakeoffNoBets, TakeoffMarks, Reveal, SettleRound
    <2>2. QED BY <1>1, <2>1, NothingWritten
<1>2. CASE rounds' # rounds /\ FinishStart(reply)
    <2>1. /\ pc = "hash" /\ balance' = balance
          /\ rounds' = SetRow(roundID, "hash", Commit(roundID, crashBP))
        BY <1>2 DEF FinishStart
    <2>2. /\ roundID \in 1 .. Len(rounds) /\ rounds[roundID] \in RoundRow
          /\ rounds[roundID].hash = Pending /\ crashBP \in Int
        BY <2>1, CurrentRow DEF IInv, BeforeFlight, TypeOK
    <2>3. /\ rounds' \in Seq(RoundRow)
          /\ Len(rounds') = Len(rounds)
          /\ rounds'[roundID].state = rounds[roundID].state
          /\ rounds'[roundID].crash = rounds[roundID].crash
          /\ rounds'[roundID].bets = rounds[roundID].bets
          /\ \A r \in 1 .. Len(rounds) : r # roundID => rounds'[r] = rounds[r]
        BY <2>1, <2>2, SetRowHash DEF IInv, TypeOK
    <2>4. Rank[rounds'[roundID].state] >= Rank[rounds[roundID].state]
        BY <2>2, <2>3, RowFacts DEF Follows
    <2>5. QED BY <2>1, <2>2, <2>3, <2>4, RoundUpdated
<1>3. CASE rounds' # rounds /\ ~FinishStart(reply)
    <2>1. PICK st \in {"flying", "crashed", "settled"} :
            /\ pc # "wait" /\ balance' = balance
            /\ rounds' = SetRow(roundID, "state", st)
            /\ Rank[st] >= Rank[rounds[roundID].state]
        <3>1. CASE TakeoffNoBets(reply) \/ TakeoffMarks(reply)
            BY <1>3, <3>1 DEF TakeoffNoBets, TakeoffMarks, IInv, RowFollows, Rank
        <3>2. CASE Reveal(reply)
            BY <1>3, <3>2 DEF Reveal, IInv, RowFollows, Rank
        <3>3. CASE SettleRound(reply)
            <4>1. rounds[roundID] \in RoundRow
                BY <3>3, CurrentRow DEF SettleRound
            <4>2. QED BY <1>3, <3>3, <4>1 DEF SettleRound, Rank, RoundRow
        <3>4. QED BY <1>3, <3>1, <3>2, <3>3
    <2>2. roundID \in 1 .. Len(rounds)
        BY <2>1, CurrentRow
    <2>3. /\ rounds' \in Seq(RoundRow)
          /\ Len(rounds') = Len(rounds)
          /\ rounds'[roundID].state = st
          /\ rounds'[roundID].crash = rounds[roundID].crash
          /\ rounds'[roundID].hash = rounds[roundID].hash
          /\ rounds'[roundID].bets = rounds[roundID].bets
          /\ \A r \in 1 .. Len(rounds) : r # roundID => rounds'[r] = rounds[r]
        BY <2>1, <2>2, SetRowState DEF IInv, TypeOK
    <2>4. QED BY <2>1, <2>3, RoundUpdated
<1>4. QED BY <1>1, <1>2, <1>3

\* Every step moves credits and rows together and only appends.
LEMMA StepWrites == IInv /\ [Next]_vars => [MovesTogether /\ Appends]_vars
<1> SUFFICES ASSUME IInv, Next PROVE MovesTogether /\ Appends
    OBVIOUS
<1>1. CASE rounds' = rounds /\ balance' = balance
    BY <1>1, NothingWritten
<1>2. CASE \E c \in CrashPoint, reply \in Reply : StartRound(c, reply)
    BY <1>2, StartRoundWrites
<1>3. CASE \E reply \in Reply : CommitTakeoff(reply) \/ CommitSettle(reply)
    BY <1>3, CommitTakeoffWrites, CommitSettleWrites
<1>4. CASE \E reply \in Reply :
             \/ FinishStart(reply) \/ TakeoffNoBets(reply) \/ TakeoffMarks(reply)
             \/ Reveal(reply) \/ SettleRound(reply)
    BY <1>4, UpdatesWrite
<1>5. CASE EngineStep
    <2>1. CASE TakeoffFails \/ Tick \/ SettleFails
        BY <1>1, <2>1 DEF TakeoffFails, Tick, SettleFails, database
    <2>2. CASE Resume
        BY <1>1, <1>2, <2>2 DEF Resume, database
    <2>3. QED BY <1>3, <1>4, <1>5, <2>1, <2>2 DEF EngineStep
<1>6. CASE CommandStep
    <2>1. CASE \E p \in Player : WaitSubscribe(p)
        BY <1>2, <2>1 DEF WaitSubscribe
    <2>2. CASE \E p \in Player : HandleSubscribe(p) \/ HandleUnsubscribe(p) \/ CashOut(p)
        BY <1>1, <2>2 DEF HandleSubscribe, HandleUnsubscribe, CashOut, database
    <2>3. CASE \E p \in Player, amount \in Amount, target \in Target :
                 PlaceBet(p, amount, target)
        BY <1>1, <2>3 DEF PlaceBet, database
    <2>4. QED BY <1>6, <2>1, <2>2, <2>3 DEF CommandStep
<1>7. CASE Restart
    BY <1>1, <1>7 DEF Restart, database
<1>8. QED BY <1>5, <1>6, <1>7 DEF Next

\* Credits and rows move together, whatever fails or crashes.
THEOREM Bookkeeping == Spec => BooksMoveTogether
<1>1. IInv /\ [Next]_vars => [MovesTogether]_vars
    BY StepWrites
<1>2. QED BY <1>1, Invariance, PTL DEF Spec, BooksMoveTogether

\* The history only grows and only in the current round's row.
THEOREM History == Spec => HistoryAppendOnly
<1>1. IInv /\ [Next]_vars => [Appends]_vars
    BY StepWrites
<1>2. QED BY <1>1, Invariance, PTL DEF Spec, HistoryAppendOnly

-----------------------------------------------------------------------------
(* Fairness: ProvablyFair, inductive on top of IInv with FairInv.          *)

\* No step but startRound and the UPDATE of commit_hash touches what a row
\* says of its outcome.
LEMMA CommitmentsKept ==
    ASSUME IInv, Next,
           ~\E c \in CrashPoint, reply \in Reply : StartRound(c, reply),
           ~\E reply \in Reply : FinishStart(reply)
    PROVE  /\ Len(rounds') = Len(rounds)
           /\ \A r \in 1 .. Len(rounds) : /\ rounds'[r].crash = rounds[r].crash
                                        /\ rounds'[r].hash = rounds[r].hash
<1>1. CASE rounds' = rounds
    BY <1>1
<1>2. ASSUME pc # "wait", NEW st \in {"betting", "flying", "crashed", "settled"},
             rounds' = SetRow(roundID, "state", st)
      PROVE  /\ Len(rounds') = Len(rounds)
             /\ \A r \in 1 .. Len(rounds) : /\ rounds'[r].crash = rounds[r].crash
                                          /\ rounds'[r].hash = rounds[r].hash
    <2>1. roundID \in 1 .. Len(rounds) /\ rounds \in Seq(RoundRow)
        BY <1>2, CurrentRow DEF IInv, TypeOK
    <2>2. /\ Len(rounds') = Len(rounds)
          /\ rounds'[roundID].crash = rounds[roundID].crash
          /\ rounds'[roundID].hash = rounds[roundID].hash
          /\ \A r \in 1 .. Len(rounds) : r # roundID => rounds'[r] = rounds[r]
        BY <1>2, <2>1, SetRowState
    <2>3. QED BY <2>2
<1>3. ASSUME pc # "wait", NEW bets \in [Player -> BetRow],
             rounds' = SetRow(roundID, "bets", bets)
      PROVE  /\ Len(rounds') = Len(rounds)
             /\ \A r \in 1 .. Len(rounds) : /\ rounds'[r].crash = rounds[r].crash
                                          /\ rounds'[r].hash = rounds[r].hash
    <2>1. roundID \in 1 .. Len(rounds) /\ rounds \in Seq(RoundRow)
        BY <1>3, CurrentRow DEF IInv, TypeOK
    <2>2. /\ Len(rounds') = Len(rounds)
          /\ rounds'[roundID].crash = rounds[roundID].crash
          /\ rounds'[roundID].hash = rounds[roundID].hash
          /\ \A r \in 1 .. Len(rounds) : r # roundID => rounds'[r] = rounds[r]
        BY <1>3, <2>1, SetRowBets
    <2>3. QED BY <2>2
<1>4. CASE \E reply \in Reply : TakeoffNoBets(reply) \/ TakeoffMarks(reply)
    BY <1>1, <1>2, <1>4 DEF TakeoffNoBets, TakeoffMarks
<1>5. CASE \E reply \in Reply : Reveal(reply) \/ SettleRound(reply)
    BY <1>1, <1>2, <1>5 DEF Reveal, SettleRound
<1>6. CASE \E reply \in Reply : CommitTakeoff(reply)
    <2>1. [p \in Player |-> BetOf(participants[p])] \in [Player -> BetRow]
        BY BetRowType DEF IInv, TypeOK
    <2>2. QED BY <1>1, <1>3, <1>6, <2>1 DEF CommitTakeoff, database
<1>7. CASE \E reply \in Reply : CommitSettle(reply)
    <2>1. /\ pc # "wait"
          /\ \A p \in Player : /\ rounds[roundID].bets[p] \in BetRow
                              /\ participants[p] \in Participant
        BY <1>7, CurrentRow DEF CommitSettle, RoundRow, IInv, TypeOK
    <2>2. [p \in Player |-> SettledRow(rounds[roundID].bets[p], participants[p])]
              \in [Player -> BetRow]
        BY <2>1, BetRowType
    <2>3. QED BY <1>1, <1>3, <1>7, <2>2 DEF CommitSettle, database
<1>8. CASE EngineStep
    <2>1. CASE TakeoffFails \/ Tick \/ SettleFails
        BY <1>1, <2>1 DEF TakeoffFails, Tick, SettleFails, database
    <2>2. CASE Resume
        BY <1>1, <2>2 DEF Resume, database
    <2>3. QED BY <1>4, <1>5, <1>6, <1>7, <1>8, <2>1, <2>2 DEF EngineStep
<1>9. CASE CommandStep
    <2>1. CASE \E p \in Player : WaitSubscribe(p)
        BY <2>1 DEF WaitSubscribe
    <2>2. CASE \E p \in Player : HandleSubscribe(p) \/ HandleUnsubscribe(p) \/ CashOut(p)
        BY <1>1, <2>2 DEF HandleSubscribe, HandleUnsubscribe, CashOut, database
    <2>3. CASE \E p \in Player, amount \in Amount, target \in Target :
                 PlaceBet(p, amount, target)
        BY <1>1, <2>3 DEF PlaceBet, database
    <2>4. QED BY <1>9, <2>1, <2>2, <2>3 DEF CommandStep
<1>10. CASE Restart
    BY <1>1, <1>10 DEF Restart, database
<1>11. QED BY <1>8, <1>9, <1>10 DEF Next

\* The row startRound inserts is committed to the crash point just drawn.
LEMMA StartRoundFair ==
    ASSUME IInv, FairInv, NEW c \in CrashPoint, NEW reply \in Reply, StartRound(c, reply)
    PROVE  FairInv'
<1> USE DEF StartRound
<1>1. pc' \in {"wait", "hash"} /\ crashBP' = c /\ Len(rounds) \in Nat
    BY DEF GoIdle, IInv, TypeOK
<1>2. CASE rounds' = rounds
    <2>1. pc' = "wait" \/ roundID' = Len(rounds) + 1
        BY DEF GoIdle
    <2>2. pc' = "wait"
        <3>1. ASSUME reply = "ok" PROVE FALSE
            <4>1. Len(rounds') = Len(rounds) + 1
                BY <3>1, RowInserted, NewRowType DEF IInv, TypeOK, Executed
            <4>2. QED BY <1>1, <1>2, <4>1
        <3>2. QED BY <3>1 DEF GoIdle
    <2>3. QED BY <1>2, <2>2 DEF FairInv, ProvablyFair, CommittedTo, Flown
<1>3. CASE rounds' = Append(rounds, NewRow(c))
    <2>1. /\ Len(rounds') = Len(rounds) + 1
          /\ rounds'[Len(rounds) + 1] = NewRow(c)
          /\ \A r \in 1 .. Len(rounds) : rounds'[r] = rounds[r]
        BY <1>3, RowInserted, NewRowType DEF IInv, TypeOK
    <2>2. ASSUME NEW r, r = Len(rounds) + 1
          PROVE  CommittedTo(r, c)'
        BY <2>1, <2>2 DEF CommittedTo, NewRow
    <2>3. ASSUME NEW r \in 1 .. Len(rounds')
          PROVE  \E d \in CrashPoint : CommittedTo(r, d)'
        <3>1. CASE r = Len(rounds) + 1
            BY <2>2, <3>1
        <3>2. CASE r \in 1 .. Len(rounds)
            BY <2>1, <3>2 DEF FairInv, ProvablyFair, CommittedTo
        <3>3. QED BY <1>1, <2>1, <3>1, <3>2
    <2>4. pc' # "wait" => roundID' = Len(rounds) + 1
        BY DEF GoIdle
    <2>5. pc' # "wait" => CommittedTo(roundID, crashBP)'
        BY <1>1, <2>2, <2>4 DEF CommittedTo
    <2>6. QED BY <1>1, <2>3, <2>5 DEF FairInv, ProvablyFair, Flown
<1>4. QED BY <1>2, <1>3

\* The commitment that replaces the placeholder is to the crash point played.
LEMMA FinishStartFair ==
    ASSUME IInv, FairInv, NEW reply \in Reply, FinishStart(reply)
    PROVE  FairInv'
<1> USE DEF FinishStart, memory
<1>1. /\ pc = "hash" /\ pc' = "bet" /\ roundID' = roundID /\ crashBP' = crashBP
      /\ roundID \in 1 .. Len(rounds) /\ crashBP \in CrashPoint /\ crashBP \in Nat
      /\ CommittedTo(roundID, crashBP)
    BY CurrentRow DEF IInv, TypeOK, Phase, FairInv, ProvablyFair
<1>2. /\ Len(rounds') = Len(rounds)
      /\ rounds'[roundID].crash = rounds[roundID].crash
      /\ rounds'[roundID].hash \in {rounds[roundID].hash, Commit(roundID, crashBP)}
      /\ \A r \in 1 .. Len(rounds) : r # roundID => rounds'[r] = rounds[r]
    <2>1. CASE rounds' = rounds
        BY <2>1
    <2>2. CASE rounds' = SetRow(roundID, "hash", Commit(roundID, crashBP))
        <3>1. Len(rounds) <= MaxRounds /\ rounds \in Seq(RoundRow) /\ crashBP \in Int
            BY <1>1 DEF IInv, TypeOK
        <3> DEFINE new == SetRow(roundID, "hash", Commit(roundID, crashBP))
        <3>2. /\ Len(new) = Len(rounds)
              /\ new[roundID].crash = rounds[roundID].crash
              /\ new[roundID].hash = Commit(roundID, crashBP)
              /\ \A r \in 1 .. Len(rounds) : r # roundID => new[r] = rounds[r]
            BY <1>1, <3>1, SetRowHash
        <3>3. rounds' = new
            BY <2>2
        <3> HIDE DEF new
        <3>4. QED BY <3>2, <3>3
    <2>3. QED BY <2>1, <2>2
<1>3. CommittedTo(roundID, crashBP)'
    BY <1>1, <1>2 DEF CommittedTo
<1>4. ASSUME NEW r \in 1 .. Len(rounds'), r # roundID
      PROVE  \E d \in CrashPoint : CommittedTo(r, d)'
    BY <1>2, <1>4 DEF FairInv, ProvablyFair, CommittedTo
<1>5. \A r \in 1 .. Len(rounds') : \E d \in CrashPoint : CommittedTo(r, d)'
    BY <1>1, <1>3, <1>4
<1>6. QED BY <1>1, <1>3, <1>5 DEF FairInv, ProvablyFair, Flown

\* The flight ends on the first tick that reaches the crash point, and every
\* other step leaves the outcome and the curve behind it alone.
LEMMA FlightFair ==
    ASSUME IInv, FairInv, Next,
           ~\E c \in CrashPoint, reply \in Reply : StartRound(c, reply),
           ~\E reply \in Reply : FinishStart(reply)
    PROVE  FairInv'
<1>1. /\ Len(rounds') = Len(rounds)
      /\ \A r \in 1 .. Len(rounds) : \A c \in CrashPoint : CommittedTo(r, c) => CommittedTo(r, c)'
    BY CommitmentsKept DEF CommittedTo
<1>2. \A r \in 1 .. Len(rounds') : \E c \in CrashPoint : CommittedTo(r, c)'
    BY <1>1 DEF FairInv, ProvablyFair
<1>3. CASE pc' = "wait"
    BY <1>2, <1>3 DEF FairInv, ProvablyFair, Flown
<1>4. CASE Tick
    <2>1. /\ pc = "fly" /\ ticks' = ticks + 1 /\ ticks \in Nat
          /\ pc' = IF Curve[ticks + 1] >= crashBP THEN "reveal" ELSE "fly"
          /\ UNCHANGED <<roundID, crashBP>>
          /\ ticks + 1 \in 0 .. MaxTicks
        BY <1>4, CurveAssumption DEF Tick, IInv, TypeOK, Phase
    <2>2. CommittedTo(roundID, crashBP)'
        BY <1>1, <2>1, CurrentRow DEF IInv, TypeOK, Phase, FairInv, ProvablyFair, CommittedTo
    <2>3. Curve[ticks + 1] \in Nat /\ crashBP \in Nat
        BY <2>1, CurveAssumption DEF IInv, TypeOK
    <2>4. \A t \in 1 .. ticks : Curve[t] < crashBP
        BY <2>1 DEF FairInv
    <2>5. QED BY <1>2, <2>1, <2>2, <2>3, <2>4 DEF FairInv, ProvablyFair, Flown
<1>5. CASE pc' # "wait" /\ ~Tick
    <2>1. /\ pc # "wait" /\ UNCHANGED <<roundID, crashBP, ticks>>
          /\ Flown' => Flown
          /\ pc' = "fly" => pc = "fly" \/ ticks = 0
        <3>1. CASE EngineStep
            BY <1>5, <3>1 DEF EngineStep, TakeoffNoBets, TakeoffMarks, CommitTakeoff, Reveal,
               SettleRound, CommitSettle, TakeoffFails, SettleFails, Resume, GoIdle,
               memory, Flown, IInv, BeforeFlight
        <3>2. CASE CommandStep
            BY <1>5, <3>2 DEF CommandStep, WaitSubscribe, HandleSubscribe, HandleUnsubscribe,
               CashOut, PlaceBet, memory, Flown
        <3>3. CASE Restart
            BY <1>5, <3>3 DEF Restart, GoIdle
        <3>4. QED BY <3>1, <3>2, <3>3 DEF Next
    <2>2. CommittedTo(roundID, crashBP)'
        BY <1>1, <2>1, CurrentRow DEF IInv, TypeOK, Phase, FairInv, ProvablyFair, CommittedTo
    <2>3. QED BY <1>2, <2>1, <2>2 DEF FairInv, ProvablyFair, Flown
<1>6. QED BY <1>3, <1>4, <1>5

\* Every row is committed to the crash point it was inserted with, and a round
\* is played to the one its row is committed to, whatever failed or crashed.
THEOREM Fairness == Spec => []ProvablyFair
<1>1. Init => FairInv
    BY DEF Init, FairInv, ProvablyFair, Flown
<1>2. IInv /\ FairInv /\ [Next]_vars => FairInv'
    <2>1. ASSUME IInv, FairInv, Next PROVE FairInv'
        BY <2>1, StartRoundFair, FinishStartFair, FlightFair
    <2>2. ASSUME FairInv, UNCHANGED vars PROVE FairInv'
        BY <2>2 DEF vars, memory, database, FairInv, ProvablyFair, CommittedTo, Flown
    <2>3. QED BY <2>1, <2>2
<1>3. FairInv => ProvablyFair
    BY DEF FairInv
<1>4. QED BY <1>1, <1>2, <1>3, Invariance, PTL DEF Spec

\* Numbers below the bound of the column are stored as they are.
LEMMA Int32Identity ==
    ASSUME NEW x \in Nat, x < Int32Limit
    PROVE  Int32(x, Int32Limit) = x
<1>1. (x + Int32Limit) % (2 * Int32Limit) = x + Int32Limit
    BY LimitAssumption
<1>2. QED BY <1>1, LimitAssumption DEF Int32

\* If crash points fit the column, as they do unless the draw exceeds 2^31, then
\* whoever recomputes a published commitment from its row finds it right, in
\* every round and for ever.
THEOREM HistoryVerifies ==
    ASSUME \A c \in CrashPoint : c < Int32Limit
    PROVE  Spec => []Verifies
<1>1. \A c \in CrashPoint : Int32(c, Int32Limit) = c
    BY Int32Identity, CrashAssumption
<1>2. ProvablyFair => Verifies
    BY <1>1 DEF ProvablyFair, CommittedTo, Verifies
<1>3. QED BY <1>2, Fairness, PTL

-----------------------------------------------------------------------------
(* How long a round takes.                                                 *)

\* The engine's steps to the end of the round in play, at most.
StepsLeft ==
    CASE pc = "hash" -> MaxTicks + 6
      [] pc = "bet" -> MaxTicks + 5
      [] pc = "takeoff" -> MaxTicks + 4
      [] pc = "fly" -> MaxTicks - ticks + 3
      [] pc = "reveal" -> 3
      [] pc = "settle" -> 2
      [] pc = "pay" -> 1
      [] OTHER -> 0

\* Each of its steps, failed or not, brings the engine nearer to the end of the
\* round, and no command of a player puts that off, in however many it comes.
NearerTheEnd ==
    /\ EngineStep /\ pc # "pause" => StepsLeft' < StepsLeft
    /\ CommandStep /\ pc # "wait" => StepsLeft' = StepsLeft

\* A round is over after MaxTicks + 6 steps of the engine, whoever is connected:
\* what is proved here of StartedRoundSettles is all but that the engine is
\* scheduled.
THEOREM RoundsAreBounded == Spec => [](StepsLeft \in 0 .. MaxTicks + 6) /\ [][NearerTheEnd]_vars
<1> USE DEF StepsLeft
<1>1. IInv => /\ MaxTicks \in Nat \ {0} /\ ticks \in 0 .. MaxTicks
              /\ pc = "fly" => ticks < MaxTicks
              /\ pc \in {"hash", "bet", "takeoff"} => ticks = 0
    BY CurveAssumption DEF IInv, TypeOK, Phase, BeforeFlight
<1>2. IInv => StepsLeft \in 0 .. MaxTicks + 6
    <2>1. CASE pc = "fly"
        BY <1>1, <2>1
    <2>2. CASE pc # "fly"
        BY <1>1, <2>2
    <2>3. QED BY <2>1, <2>2
<1>3. ASSUME IInv, EngineStep, pc # "pause" PROVE StepsLeft' < StepsLeft
    <2>1. ASSUME NEW reply \in Reply,
                 \/ FinishStart(reply) \/ TakeoffNoBets(reply) \/ TakeoffMarks(reply)
                 \/ CommitTakeoff(reply) \/ Reveal(reply) \/ SettleRound(reply)
                 \/ CommitSettle(reply)
          PROVE  StepsLeft' < StepsLeft
        BY <1>1, <1>3, <2>1 DEF FinishStart, TakeoffNoBets, TakeoffMarks, CommitTakeoff, Reveal,
                                SettleRound, CommitSettle, GoIdle, memory
    <2>2. TakeoffFails \/ SettleFails => StepsLeft' < StepsLeft
        BY <1>1, <1>3 DEF TakeoffFails, SettleFails, GoIdle
    <2>3. Tick => StepsLeft' < StepsLeft
        <3>1. Tick => pc = "fly" /\ ticks' = ticks + 1 /\ pc' \in {"fly", "reveal"}
            BY DEF Tick
        <3>2. QED BY <1>1, <1>3, <3>1
    <2>4. ~Resume
        BY <1>3 DEF Resume
    <2>5. QED BY <1>3, <2>1, <2>2, <2>3, <2>4 DEF EngineStep
<1>4. ASSUME CommandStep, pc # "wait" PROVE StepsLeft' = StepsLeft
    BY <1>4 DEF CommandStep, WaitSubscribe, HandleSubscribe, HandleUnsubscribe, CashOut, PlaceBet,
                memory
<1>5. IInv /\ [Next]_vars => [NearerTheEnd]_vars
    BY <1>3, <1>4 DEF NearerTheEnd
<1>6. QED BY <1>2, <1>5, Invariance, PTL DEF Spec

-----------------------------------------------------------------------------
\* The engine implements RoundLoop.tla: each of its steps is a step of the
\* cycle the sessions know, or does not show there.
THEOREM ImplementsRoundLoop == Spec => LoopSpec
<1> USE DEF Loop!Init, Loop!Next, Loop!vars, Loop!Wake, Loop!Join, Loop!Leave, Loop!Serving,
            Loop!TakeOff, Loop!Crash, Loop!Again, Loop!Pause, Loop!Abort, Loop!Restart,
            Loop!Begin, PhaseOf
<1>1. Init => Loop!Init
    BY DEF Init
<1>2. IInv /\ [Next]_vars => [Loop!Next]_(Loop!vars)
    <2> SUFFICES ASSUME IInv, [Next]_vars
                 PROVE  Loop!Next \/ UNCHANGED <<PhaseOf, subs>>
        OBVIOUS
    <2>1. ASSUME NEW c, NEW reply, StartRound(c, reply)
          PROVE  pc' \in {"hash", "wait"}
        BY <2>1 DEF StartRound, GoIdle
    <2>2. ASSUME NEW p \in Player, WaitSubscribe(p)
          PROVE  Loop!Next
        BY <2>1, <2>2 DEF WaitSubscribe
    <2>3. ASSUME NEW p \in Player,
                 \/ HandleSubscribe(p)
                 \/ HandleUnsubscribe(p)
          PROVE  Loop!Next
        BY <2>3 DEF HandleSubscribe, HandleUnsubscribe
    <2>4. ASSUME NEW p \in Player,
                 \/ CashOut(p)
                 \/ \E amount \in Amount, target \in Target : PlaceBet(p, amount, target)
          PROVE  UNCHANGED <<PhaseOf, subs>>
        BY <2>4 DEF CashOut, PlaceBet
    <2>5. ASSUME NEW reply,
                 \/ FinishStart(reply) \/ Reveal(reply)
          PROVE  UNCHANGED <<PhaseOf, subs>>
        BY <2>5 DEF FinishStart, Reveal
    <2>6. ASSUME NEW reply, TakeoffNoBets(reply) \/ TakeoffMarks(reply) \/ CommitTakeoff(reply)
          PROVE  Loop!Next \/ UNCHANGED <<PhaseOf, subs>>
        BY <2>6 DEF TakeoffNoBets, TakeoffMarks, CommitTakeoff, GoIdle
    <2>7. ASSUME TakeoffFails \/ SettleFails \/ Restart
          PROVE  Loop!Next
        BY <2>7 DEF TakeoffFails, SettleFails, Restart, GoIdle
    <2>8. CASE Tick
        BY <2>8 DEF Tick
    <2>9. ASSUME NEW reply, SettleRound(reply) \/ CommitSettle(reply)
          PROVE  Loop!Next \/ UNCHANGED <<PhaseOf, subs>>
        BY <2>9 DEF SettleRound, CommitSettle, GoIdle
    <2>10. CASE Resume
        BY <2>1, <2>10 DEF Resume, GoIdle
    <2>11. CASE UNCHANGED vars
        BY <2>11 DEF vars
    <2>12. QED
        BY <2>2, <2>3, <2>4, <2>5, <2>6, <2>7, <2>8, <2>9, <2>10, <2>11
        DEF Next, EngineStep, CommandStep
<1>3. QED BY <1>1, <1>2, Invariance, PTL DEF Spec, LoopSpec, Loop!Spec
=============================================================================
