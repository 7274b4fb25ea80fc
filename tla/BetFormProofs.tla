---------------------------- MODULE BetFormProofs ----------------------------
(***************************************************************************)
(* Proofs about BetForm.tla for every set of stakes, balance, capacity and *)
(* bound, with or without failures, and whatever snapshots are skipped.    *)
(***************************************************************************)
EXTENDS BetForm, SequenceTheorems, TLAPS

-----------------------------------------------------------------------------
(* The inductive invariant.                                                *)

\* Where in the history of the rounds a snapshot is, and where the engine is.
\* An engine is idle after a round; the program's first snapshot, of an idle
\* engine in round 0, is before all of them.
Stage(state) ==
    IF state = "betting" THEN 0
    ELSE IF state = "flying" THEN 1
    ELSE IF state = "idle" THEN 3 ELSE 2
Place(s) == 4 * s.round + Stage(s.state)
Here == 4 * round + Stage(phase)

\* Snapshots come in the order of the rounds, skipped ones or not.
InOrder ==
    /\ Place(snap) <= Here
    /\ \A i \in 1 .. Len(news) :
           /\ Place(snap) < Place(news[i]) /\ Place(news[i]) <= Here
           /\ \A j \in 1 .. Len(news) : i < j => Place(news[i]) < Place(news[j])

\* What the form remembers of the last bet it sent.
Remembered ==
    /\ sentRound <= snap.round
    /\ snap.state = "betting" /\ sentRound = snap.round => placed

\* The bet of the open window is in the map or on its way.
UnderWay ==
    phase = "betting" /\ sentRound = round =>
        entry > 0 \/ \E i \in 1 .. Len(inbox) : inbox[i] # CashOut

IInv == TypeOK /\ InOrder /\ Remembered /\ UnderWay

-----------------------------------------------------------------------------
(* Snapshots under way.                                                    *)

\* A send and a receive on the inbox.
LEMMA Sent ==
    ASSUME inbox \in Seq(Value), Len(inbox) <= InboxCap, NEW cmd \in Value, Send(cmd)
    PROVE  /\ inbox' \in Seq(Value) /\ Len(inbox') <= InboxCap
           /\ Len(inbox) \in Nat /\ Len(inbox') = Len(inbox) + 1
           /\ inbox'[Len(inbox')] = cmd
           /\ \A i \in 1 .. Len(inbox) : inbox'[i] = inbox[i]
BY CapAssumption DEF Send

LEMMA Received ==
    ASSUME NEW S, NEW queue \in Seq(S), queue # <<>>
    PROVE  /\ Tail(queue) \in Seq(S) /\ Len(Tail(queue)) = Len(queue) - 1
           /\ Len(queue) \in Nat \ {0}
           /\ Head(queue) = queue[1] /\ Head(queue) \in S
           /\ \A i \in 1 .. Len(Tail(queue)) : Tail(queue)[i] = queue[i + 1]
OBVIOUS

LEMMA FrameTyped ==
    ASSUME TypeOK
    PROVE  Frame \in Snap /\ Place(Frame) = Here
BY BoundAssumption DEF TypeOK, Frame, Snap, Place, Here, Stage

\* A broadcast keeps the youngest frames, the new one among them.
LEMMA Published ==
    ASSUME TypeOK, SendFrame, Frame # Told
    PROVE  /\ news' \in Seq(Snap) /\ Len(news') <= Cap
           /\ \E d \in Nat : \A i \in 1 .. Len(news') :
                  \/ i + d \in 1 .. Len(news) /\ news'[i] = news[i + d]
                  \/ i + d = Len(news) + 1 /\ news'[i] = Frame
<1> DEFINE all == Append(news, Frame)
<1>1. /\ all \in Seq(Snap) /\ Len(all) = Len(news) + 1 /\ Len(news) \in Nat
      /\ all[Len(news) + 1] = Frame
      /\ \A i \in 1 .. Len(news) : all[i] = news[i]
    BY FrameTyped DEF TypeOK
<1>2. PICK k \in 1 .. Len(all) : Len(all) - k < Cap /\ news' = SubSeq(all, k, Len(all))
    BY DEF SendFrame
<1> HIDE DEF all
<1>3. \A i \in k .. Len(all) : all[i] \in Snap
    BY <1>1, <1>2
<1>4. /\ news' \in Seq(Snap) /\ Len(news') = Len(all) - k + 1
      /\ \A i \in 1 .. Len(all) - k + 1 : news'[i] = all[k + i - 1]
    BY <1>1, <1>2, <1>3, SubSeqProperties
<1>5. Len(news') <= Cap
    BY <1>1, <1>2, <1>4, CapAssumption
<1>6. ASSUME NEW i \in 1 .. Len(news')
      PROVE  \/ i + (k - 1) \in 1 .. Len(news) /\ news'[i] = news[i + (k - 1)]
             \/ i + (k - 1) = Len(news) + 1 /\ news'[i] = Frame
    <2>1. i + (k - 1) \in 1 .. Len(news) + 1 /\ news'[i] = all[i + (k - 1)]
        BY <1>1, <1>2, <1>4, <1>6
    <2>2. QED BY <1>1, <2>1
<1>7. k - 1 \in Nat
    BY <1>1, <1>2
<1>8. QED BY <1>4, <1>5, <1>6, <1>7

LEMMA SendTyped ==
    ASSUME TypeOK, SendFrame
    PROVE  news' \in Seq(Snap) /\ Len(news') <= Cap
<1>1. CASE Frame = Told
    BY <1>1 DEF SendFrame, TypeOK
<1>2. CASE Frame # Told
    BY <1>2, Published
<1>3. QED BY <1>1, <1>2

-----------------------------------------------------------------------------
(* Types.                                                                  *)

LEMMA QueryRecords ==
    /\ NoQuery \in [step : {"none", "asked", "read"}, balance : Int]
    /\ Asked \in [step : {"none", "asked", "read"}, balance : Int]
    /\ \A b \in Int : Answer(b) \in [step : {"none", "asked", "read"}, balance : Int]
BY DEF NoQuery, Asked, Answer

LEMMA InitTypes == Init => TypeOK
<1> SUFFICES ASSUME Init PROVE TypeOK
    OBVIOUS
<1>1. <<>> \in Seq(Value) /\ <<>> \in Seq(Snap) /\ Len(<<>>) = 0
    OBVIOUS
<1>2. [state |-> "idle", round |-> 0] \in Snap
    BY BoundAssumption DEF Snap
<1>3. queries \in [Query -> [step : {"none", "asked", "read"}, balance : Int]]
    BY QueryRecords DEF Init
<1>4. /\ round \in 1 .. MaxRounds /\ sentRound \in 0 .. MaxRounds
      /\ balance \in Int /\ maxBet \in Int /\ shown \in Int
      /\ Len(inbox) <= InboxCap /\ Len(news) <= Cap
    BY <1>1, LoginAssumption, CapAssumption, BoundAssumption DEF Init
<1>5. QED BY <1>1, <1>2, <1>3, <1>4, ValueAssumption DEF Init, TypeOK

LEMMA EngineTypes == ASSUME TypeOK, EngineStep PROVE TypeOK'
<1> USE DEF TypeOK
<1>1. CASE BeginRound
    <2>1. round + 1 \in 1 .. MaxRounds /\ 0 \in Value
        BY <1>1, ValueAssumption, BoundAssumption DEF BeginRound
    <2>2. QED BY <1>1, <2>1 DEF BeginRound, form
<1>2. ASSUME NEW reply \in Replies, TakeOff(reply) PROVE TypeOK'
    BY <1>2, ValueAssumption DEF TakeOff, form
<1>3. CASE AutoCashout
    BY <1>3 DEF AutoCashout, form
<1>4. CASE Crash
    BY <1>4 DEF Crash, form
<1>5. ASSUME NEW reply \in Replies, Settle(reply) PROVE TypeOK'
    BY <1>5, ValueAssumption DEF Settle, form
<1>6. CASE BeginFails
    <2>1. news' \in Seq(Snap) /\ Len(news') <= Cap
        BY <1>6, SendTyped DEF BeginFails
    <2>2. QED BY <1>6, <2>1, ValueAssumption DEF BeginFails, form
<1>7. CASE Handle
    <2>1. /\ inbox' \in Seq(Value) /\ Len(inbox') <= InboxCap /\ Head(inbox) \in Value
        BY <1>7, Received, CapAssumption DEF Handle
    <2>2. QED BY <1>7, <2>1 DEF Handle, form
<1>8. CASE Publish
    BY <1>8, SendTyped DEF Publish, engine, form
<1>9. QED BY <1>1, <1>2, <1>3, <1>4, <1>5, <1>6, <1>7, <1>8 DEF EngineStep

\* The form after AutoSubmit on a round r.
LEMMA AutoSubmitTypes ==
    ASSUME TypeOK, NEW r \in 0 .. MaxRounds, AutoSubmit(r)
    PROVE  /\ inbox' \in Seq(Value) /\ Len(inbox') <= InboxCap
           /\ queued' = FALSE /\ placed' \in BOOLEAN /\ err' \in BOOLEAN
           /\ sentRound' \in 0 .. MaxRounds
<1>1. CASE Valid(Login)
    <2>1. value \in Value /\ Send(value)
        BY <1>1 DEF AutoSubmit, Submit, TypeOK
    <2>2. inbox' \in Seq(Value) /\ Len(inbox') <= InboxCap
        BY <2>1, Sent DEF TypeOK
    <2>3. QED BY <1>1, <2>2 DEF AutoSubmit, Submit
<1>2. CASE ~Valid(Login)
    BY <1>2 DEF AutoSubmit, TypeOK
<1>3. QED BY <1>1, <1>2

LEMMA SnapshotTypes == ASSUME TypeOK, TakeSnapshot PROVE TypeOK'
<1>1. /\ snap' \in Snap /\ news' \in Seq(Snap) /\ Len(news') <= Cap
      /\ snap'.round \in 0 .. MaxRounds
    <2>1. news \in Seq(Snap) /\ news # <<>> /\ Len(news) <= Cap
        BY DEF TakeSnapshot, TypeOK
    <2>2. /\ Head(news) \in Snap /\ Tail(news) \in Seq(Snap)
          /\ Len(Tail(news)) = Len(news) - 1 /\ Len(news) \in Nat
        BY <2>1, Received
    <2>3. QED BY <2>1, <2>2, CapAssumption DEF TakeSnapshot, Snap
<1>2. queries' \in [Query -> [step : {"none", "asked", "read"}, balance : Int]]
    BY DEF TakeSnapshot, TypeOK, Asked
<1> DEFINE r == snap'.round
<1>3. /\ inbox \in Seq(Value) /\ Len(inbox) <= InboxCap
      /\ value \in Value /\ queued \in BOOLEAN /\ placed \in BOOLEAN /\ err \in BOOLEAN
      /\ maxBet \in Int /\ sentRound \in 0 .. MaxRounds /\ Login \in Int
    BY LoginAssumption DEF TypeOK
<1>4. /\ inbox' \in Seq(Value) /\ Len(inbox') <= InboxCap
      /\ value' \in Value /\ queued' \in BOOLEAN /\ placed' \in BOOLEAN /\ err' \in BOOLEAN
      /\ maxBet' \in Int /\ sentRound' \in 0 .. MaxRounds
    <2>1. CASE OpenForm(r)
        <3>1. value' = value /\ maxBet' = Login
            BY <2>1 DEF OpenForm
        <3>2. CASE queued
            <4>1. AutoSubmit(r)
                BY <2>1, <3>2 DEF OpenForm
            <4>2. /\ inbox' \in Seq(Value) /\ Len(inbox') <= InboxCap
                  /\ queued' = FALSE /\ placed' \in BOOLEAN /\ err' \in BOOLEAN
                  /\ sentRound' \in 0 .. MaxRounds
                BY <1>1, <4>1, AutoSubmitTypes
            <4>3. QED BY <1>3, <3>1, <4>2
        <3>3. CASE ~queued
            <4>1. placed' = FALSE /\ UNCHANGED <<queued, err, sentRound, inbox>>
                BY <2>1, <3>3 DEF OpenForm
            <4>2. QED BY <1>3, <3>1, <4>1
        <3>4. QED BY <3>2, <3>3
    <2>2. CASE UNCHANGED <<inbox, form>>
        BY <1>3, <2>2 DEF form
    <2>3. QED BY <2>1, <2>2 DEF TakeSnapshot
<1>5. QED BY <1>1, <1>2, <1>4 DEF TakeSnapshot, engine, TypeOK

LEMMA KeyTypes == ASSUME TypeOK, KeyStep PROVE TypeOK'
<1> USE DEF TypeOK
<1>1. CASE Escape
    BY <1>1 DEF Escape, engine
<1>2. CASE Enter
    <2>1. snap.round \in 0 .. MaxRounds
        BY DEF Snap
    <2>2. /\ inbox' \in Seq(Value) /\ Len(inbox') <= InboxCap
          /\ queued' \in BOOLEAN /\ placed' \in BOOLEAN /\ err' \in BOOLEAN
          /\ sentRound' \in 0 .. MaxRounds
        <3>1. CASE Submit(snap.round)
            <4>1. inbox' \in Seq(Value) /\ Len(inbox') <= InboxCap
                BY <3>1, Sent DEF Submit
            <4>2. QED BY <2>1, <3>1, <4>1 DEF Submit
        <3>2. CASE ~Submit(snap.round)
            BY <1>2, <3>2 DEF Enter
        <3>3. QED BY <3>1, <3>2
    <2>3. QED BY <1>2, <2>2 DEF Enter, engine
<1>3. CASE Space
    BY <1>3, Sent, ValueAssumption DEF Space, engine, form, CashOut
<1>4. ASSUME NEW v \in Value, Edit(v) PROVE TypeOK'
    BY <1>4 DEF Edit, engine
<1>5. QED BY <1>1, <1>2, <1>3, <1>4 DEF KeyStep

LEMMA QueryTypes == ASSUME TypeOK, QueryStep PROVE TypeOK'
<1> USE DEF TypeOK
<1>1. PICK q \in Query : ReadRow(q) \/ QueryFails(q) \/ Refresh(q)
    BY DEF QueryStep
<1>2. CASE ReadRow(q)
    BY <1>2 DEF ReadRow, Answer, engine, form
<1>3. CASE QueryFails(q)
    BY <1>3 DEF QueryFails, NoQuery, engine, form
<1>4. CASE Refresh(q)
    BY <1>4 DEF Refresh, NoQuery, engine
<1>5. QED BY <1>1, <1>2, <1>3, <1>4

LEMMA StepTypes == ASSUME TypeOK, [Next]_vars PROVE TypeOK'
<1>1. CASE UNCHANGED vars
    BY <1>1 DEF vars, engine, form, TypeOK
<1>2. QED BY <1>1, EngineTypes, SnapshotTypes, KeyTypes, QueryTypes DEF Next

-----------------------------------------------------------------------------
(* The order of the snapshots.                                             *)

\* Two different snapshots are at different places.
LEMMA PlacesDiffer ==
    ASSUME NEW s \in Snap, NEW u \in Snap, Place(s) = Place(u)
    PROVE  s = u
<1>1. /\ s.round \in Int /\ u.round \in Int
      /\ s.state \in {"idle", "betting", "flying", "crashed"}
      /\ u.state \in {"idle", "betting", "flying", "crashed"}
    BY BoundAssumption DEF Snap
<1>2. PICK a \in Int, b \in Int : a = s.round /\ b = u.round
    BY <1>1
<1>3. PICK c \in 0 .. 3, d \in 0 .. 3 : c = Stage(s.state) /\ d = Stage(u.state)
    BY <1>1 DEF Stage
<1>4. 4 * a + c = 4 * b + d
    BY <1>2, <1>3 DEF Place
<1>5. a = b /\ c = d
    BY <1>4
<1>6. s.round = u.round /\ Stage(s.state) = Stage(u.state)
    BY <1>2, <1>3, <1>5
<1>7. s.state = u.state
    BY <1>1, <1>6 DEF Stage
<1>8. QED BY <1>6, <1>7 DEF Snap

LEMMA PlacesAreNumbers ==
    ASSUME TypeOK
    PROVE  /\ Here \in Int /\ Place(snap) \in Int
           /\ \A s \in Snap : Place(s) \in Int
BY BoundAssumption DEF TypeOK, Here, Place, Stage, Snap

LEMMA InitInOrder == Init => InOrder
BY DEF Init, InOrder, Place, Here, Stage

\* The engine goes on and no snapshot comes or goes.
LEMMA EngineGoesOn ==
    ASSUME TypeOK, InOrder, Here' \in Int, Here <= Here', UNCHANGED <<news, snap>>
    PROVE  InOrder'
<1>1. Here \in Int /\ Place(snap) \in Int /\ \A i \in 1 .. Len(news) : Place(news[i]) \in Int
    BY PlacesAreNumbers DEF TypeOK
<1>2. /\ snap' = snap /\ news' = news /\ Place(snap)' = Place(snap)
      /\ \A i \in 1 .. Len(news) : Place(news[i])' = Place(news[i])
    BY DEF Place
<1>3. \A x \in Int : x <= Here => x <= Here'
    BY <1>1
<1>4. QED BY <1>1, <1>2, <1>3 DEF InOrder

\* A snapshot is sent of where the engine is.
LEMMA SendInOrder ==
    ASSUME TypeOK, InOrder, SendFrame, Here' = Here, snap' = snap
    PROVE  InOrder'
<1> SUFFICES ASSUME Frame # Told PROVE InOrder'
    <2>1. CASE Frame = Told
        <3>1. Here \in Int /\ UNCHANGED <<news, snap>>
            BY <2>1, PlacesAreNumbers DEF SendFrame
        <3>2. QED BY <3>1, EngineGoesOn
    <2>2. QED BY <2>1
<1>1. /\ Here' = Here /\ snap' = snap /\ Here \in Int /\ Place(snap) \in Int
      /\ news \in Seq(Snap) /\ Len(news) \in Nat
      /\ \A i \in 1 .. Len(news) : Place(news[i]) \in Int
    <2>1. Here' = Here /\ snap' = snap
        OBVIOUS
    <2>2. news \in Seq(Snap)
        BY DEF TypeOK
    <2>3. Len(news) \in Nat /\ \A i \in 1 .. Len(news) : news[i] \in Snap
        BY <2>2
    <2>4. QED BY <2>1, <2>2, <2>3, PlacesAreNumbers
<1>2. Frame \in Snap /\ Place(Frame) = Here
    BY FrameTyped
<1>3. Place(snap) < Here
    <2>1. CASE news = <<>>
        <3>1. snap # Frame /\ snap \in Snap
            BY <2>1 DEF Told, TypeOK
        <3>2. Place(snap) # Here
            BY <1>2, <3>1, PlacesDiffer
        <3>3. QED BY <1>1, <3>2 DEF InOrder
    <2>2. CASE news # <<>>
        <3>1. Len(news) \in 1 .. Len(news)
            BY <1>1, <2>2
        <3>2. QED BY <1>1, <3>1 DEF InOrder
    <2>3. QED BY <2>1, <2>2
<1>4. ASSUME NEW i \in 1 .. Len(news) PROVE Place(news[i]) < Here
    <2>1. CASE i = Len(news)
        <3>1. news[i] # Frame /\ news[i] \in Snap
            BY <1>1, <2>1 DEF Told
        <3>2. Place(news[i]) # Here
            BY <1>2, <3>1, PlacesDiffer DEF InOrder
        <3>3. QED BY <1>1, <3>2 DEF InOrder
    <2>2. CASE i # Len(news)
        <3>1. Len(news) \in 1 .. Len(news) /\ i < Len(news)
            BY <1>1, <2>2
        <3>2. Place(news[i]) < Place(news[Len(news)]) /\ Place(news[Len(news)]) <= Here
            BY <3>1 DEF InOrder
        <3>3. QED BY <1>1, <3>1, <3>2
    <2>3. QED BY <2>1, <2>2
<1>5. PICK d \in Nat : \A i \in 1 .. Len(news') :
          \/ i + d \in 1 .. Len(news) /\ news'[i] = news[i + d]
          \/ i + d = Len(news) + 1 /\ news'[i] = Frame
    BY Published
<1>6. ASSUME NEW i \in 1 .. Len(news')
      PROVE  Place(snap) < Place(news'[i]) /\ Place(news'[i]) <= Here
    <2>1. CASE i + d \in 1 .. Len(news) /\ news'[i] = news[i + d]
        BY <2>1 DEF InOrder
    <2>2. CASE news'[i] = Frame
        BY <1>1, <1>2, <1>3, <2>2
    <2>3. QED BY <1>5, <2>1, <2>2
<1>7. ASSUME NEW i \in 1 .. Len(news'), NEW j \in 1 .. Len(news'), i < j
      PROVE  Place(news'[i]) < Place(news'[j])
    <2>1. i + d \in 1 .. Len(news) /\ news'[i] = news[i + d]
        BY <1>1, <1>5, <1>7
    <2>2. CASE j + d \in 1 .. Len(news) /\ news'[j] = news[j + d]
        BY <1>7, <2>1, <2>2 DEF InOrder
    <2>3. CASE news'[j] = Frame
        BY <1>2, <1>4, <2>1, <2>3
    <2>4. QED BY <1>5, <2>2, <2>3
<1>8. QED BY <1>1, <1>6, <1>7 DEF InOrder, Place

\* The snapshot taken is a later one than the snapshot on screen.
LEMMA TakenIsLater ==
    ASSUME TypeOK, InOrder, TakeSnapshot
    PROVE  /\ snap' \in Snap /\ snap' = news[1]
           /\ Place(snap) < Place(snap') /\ Place(snap') <= Here
           /\ 1 \in 1 .. Len(news)
<1>1. news \in Seq(Snap) /\ news # <<>> /\ snap' = Head(news)
    BY DEF TakeSnapshot, TypeOK
<1>2. snap' = news[1] /\ snap' \in Snap /\ 1 \in 1 .. Len(news)
    BY <1>1, Received
<1>3. QED BY <1>2 DEF InOrder

LEMMA TakeInOrder == ASSUME TypeOK, InOrder, TakeSnapshot PROVE InOrder'
<1>1. /\ Here' = Here
      /\ news \in Seq(Snap) /\ news # <<>> /\ news' = Tail(news)
    BY DEF TakeSnapshot, engine, Here, TypeOK
<1>2. /\ Len(news') = Len(news) - 1 /\ Len(news) \in Nat
      /\ \A i \in 1 .. Len(news') : news'[i] = news[i + 1]
    BY <1>1, Received
<1>3. /\ snap' = news[1] /\ Place(snap') <= Here /\ 1 \in 1 .. Len(news)
    BY TakenIsLater
<1>4. ASSUME NEW i \in 1 .. Len(news')
      PROVE  /\ Place(snap') < Place(news'[i]) /\ Place(news'[i]) <= Here
             /\ \A j \in 1 .. Len(news') : i < j => Place(news'[i]) < Place(news'[j])
    <2>1. i + 1 \in 1 .. Len(news) /\ news'[i] = news[i + 1] /\ 1 < i + 1
        BY <1>2
    <2>2. \A j \in 1 .. Len(news') :
              j + 1 \in 1 .. Len(news) /\ news'[j] = news[j + 1] /\ (i < j => i + 1 < j + 1)
        BY <1>2
    <2>3. QED BY <1>3, <2>1, <2>2 DEF InOrder
<1>5. QED BY <1>1, <1>3, <1>4 DEF InOrder, Place

LEMMA StepInOrder == ASSUME TypeOK, InOrder, [Next]_vars PROVE InOrder'
<1>1. TypeOK'
    BY StepTypes
<1>2. Here \in Int /\ Here' \in Int
    <2>1. round' \in Nat
        BY <1>1, BoundAssumption DEF TypeOK
    <2>2. Here' \in Int
        BY <2>1 DEF Here, Stage
    <2>3. QED BY <2>2, PlacesAreNumbers
<1>3. CASE Here <= Here' /\ UNCHANGED <<news, snap>>
    BY <1>2, <1>3, EngineGoesOn
<1>4. CASE EngineStep
    <2>1. CASE BeginRound
        BY <1>3, <2>1 DEF BeginRound, Here, Stage, TypeOK
    <2>2. ASSUME NEW reply \in Replies, TakeOff(reply) PROVE InOrder'
        BY <1>3, <2>2 DEF TakeOff, Here, Stage, TypeOK
    <2>3. CASE AutoCashout
        BY <1>2, <1>3, <2>3 DEF AutoCashout, Here
    <2>4. CASE Crash
        BY <1>3, <2>4 DEF Crash, Here, Stage, TypeOK
    <2>5. ASSUME NEW reply \in Replies, Settle(reply) PROVE InOrder'
        BY <1>3, <2>5 DEF Settle, Here, Stage, TypeOK
    <2>6. CASE BeginFails
        <3>1. CASE phase = "idle"
            <4>1. Here' = Here /\ snap' = snap /\ SendFrame
                BY <2>6, <3>1 DEF BeginFails, Here
            <4>2. QED BY <4>1, SendInOrder
        <3>2. CASE phase = "pause"
            BY <1>3, <2>6, <3>2 DEF BeginFails, Here, Stage, TypeOK
        <3>3. QED BY <2>6, <3>1, <3>2 DEF BeginFails
    <2>7. CASE Handle
        BY <1>2, <1>3, <2>7 DEF Handle, Here
    <2>8. CASE Publish
        BY <2>8, SendInOrder DEF Publish, engine, Here
    <2>9. QED BY <1>4, <2>1, <2>2, <2>3, <2>4, <2>5, <2>6, <2>7, <2>8 DEF EngineStep
<1>5. CASE TakeSnapshot
    BY <1>5, TakeInOrder
<1>6. CASE KeyStep \/ QueryStep \/ UNCHANGED vars
    <2>1. UNCHANGED <<engine, news, snap>>
        BY <1>6 DEF KeyStep, Escape, Enter, Space, Edit, QueryStep, ReadRow, QueryFails,
                    Refresh, vars
    <2>2. QED BY <1>2, <1>3, <2>1 DEF engine, Here
<1>7. QED BY <1>4, <1>5, <1>6 DEF Next

-----------------------------------------------------------------------------
(* What the form remembers.                                                *)

\* A window that opens is of a round no bet was sent for.
LEMMA NewWindow ==
    ASSUME TypeOK, InOrder, Remembered, TakeSnapshot
    PROVE  /\ snap'.round \in Int /\ sentRound <= snap'.round
           /\ snap'.state = "betting" => sentRound < snap'.round
<1>1. snap' \in Snap /\ Place(snap) < Place(snap')
    BY TakenIsLater
<1>2. /\ snap.round \in Int /\ snap'.round \in Int /\ sentRound \in Int
      /\ snap.state \in {"idle", "betting", "flying", "crashed"}
      /\ snap'.state \in {"idle", "betting", "flying", "crashed"}
    BY <1>1, BoundAssumption DEF TypeOK, Snap
<1>3. snap.round <= snap'.round
    BY <1>1, <1>2 DEF Place, Stage
<1>4. snap'.state = "betting" => snap.round < snap'.round
    BY <1>1, <1>2 DEF Place, Stage
<1>5. QED BY <1>2, <1>3, <1>4 DEF Remembered

LEMMA InitRemembered == Init => Remembered
BY DEF Init, Remembered

LEMMA SnapshotRemembered ==
    ASSUME TypeOK, InOrder, Remembered, TakeSnapshot
    PROVE  Remembered'
<1> DEFINE r == snap'.round
<1>1. /\ r \in Int /\ sentRound <= r /\ (snap'.state = "betting" => sentRound < r)
      /\ sentRound \in Int
    BY NewWindow, BoundAssumption DEF TypeOK
<1>2. CASE UNCHANGED <<sentRound>>
    BY <1>1, <1>2 DEF Remembered
<1>3. CASE sentRound' = r /\ placed' = TRUE
    BY <1>1, <1>3 DEF Remembered
<1>4. QED BY <1>2, <1>3 DEF TakeSnapshot, OpenForm, AutoSubmit, Submit, form

LEMMA StepRemembered ==
    ASSUME TypeOK, InOrder, Remembered, [Next]_vars
    PROVE  Remembered'
<1>1. CASE TakeSnapshot
    BY <1>1, SnapshotRemembered
<1>2. CASE UNCHANGED <<snap, sentRound, placed>>
    BY <1>2 DEF Remembered
<1>3. CASE EngineStep
    BY <1>2, <1>3 DEF EngineStep, BeginRound, AutoCashout, Crash, BeginFails, Handle, Publish,
                      TakeOff, Settle, form
<1>4. CASE Enter
    <2>1. CASE snap.state = "betting" /\ snap' = snap /\ Submit(snap.round)
        <3>1. snap.round \in Int /\ sentRound' = snap.round /\ placed' = TRUE /\ snap' = snap
            BY <2>1, BoundAssumption DEF Submit, TypeOK, Snap
        <3>2. QED BY <2>1, <3>1 DEF Remembered
    <2>2. CASE UNCHANGED <<snap, sentRound, placed>>
        BY <1>2, <2>2
    <2>3. QED BY <1>4, <2>1, <2>2 DEF Enter
<1>5. CASE Escape \/ Space \/ (\E v \in Value : Edit(v)) \/ QueryStep \/ UNCHANGED vars
    BY <1>2, <1>5 DEF Escape, Space, Edit, QueryStep, ReadRow, QueryFails, Refresh, vars, form
<1>6. QED BY <1>1, <1>3, <1>4, <1>5 DEF Next, KeyStep

-----------------------------------------------------------------------------
(* The bet of the open window.                                             *)

LEMMA InitUnderWay == Init => UnderWay
BY DEF Init, UnderWay

\* A command is sent: one of an earlier bet is still there, or it is a bet.
LEMMA SentUnderWay ==
    ASSUME TypeOK, UnderWay, UNCHANGED engine, NEW cmd \in Value, Send(cmd),
           cmd # CashOut \/ UNCHANGED sentRound
    PROVE  UnderWay'
<1>1. /\ Len(inbox) \in Nat /\ Len(inbox') = Len(inbox) + 1
      /\ inbox'[Len(inbox')] = cmd
      /\ \A i \in 1 .. Len(inbox) : inbox'[i] = inbox[i]
    BY Sent DEF TypeOK
<1>2. phase' = phase /\ round' = round /\ entry' = entry
    BY DEF engine
<1>3. CASE cmd # CashOut
    BY <1>1, <1>2, <1>3 DEF UnderWay
<1>4. CASE UNCHANGED sentRound
    <2>1. CASE \E i \in 1 .. Len(inbox) : inbox[i] # CashOut
        BY <1>1, <2>1 DEF UnderWay
    <2>2. CASE ~\E i \in 1 .. Len(inbox) : inbox[i] # CashOut
        BY <1>2, <1>4, <2>2 DEF UnderWay
    <2>3. QED BY <2>1, <2>2
<1>5. QED BY <1>3, <1>4

\* No bet was sent for a round that has yet to begin.
LEMMA BeginUnderWay ==
    ASSUME TypeOK, InOrder, Remembered, BeginRound
    PROVE  UnderWay'
<1>1. /\ round \in Int /\ snap.round \in Int /\ sentRound \in Int
      /\ snap.state \in {"idle", "betting", "flying", "crashed"}
      /\ phase \in {"idle", "pause"} /\ round' = round + 1 /\ sentRound' = sentRound
    BY BoundAssumption DEF TypeOK, Snap, BeginRound, form
<1>2. 4 * snap.round <= Place(snap) /\ Place(snap) \in Int
    BY <1>1 DEF Place, Stage
<1>3. Place(snap) <= 4 * round + 3
    BY <1>1, <1>2 DEF InOrder, Here, Stage
<1>4. snap.round <= round
    BY <1>1, <1>2, <1>3
<1>5. sentRound < round + 1
    BY <1>1, <1>4 DEF Remembered
<1>6. QED BY <1>1, <1>5 DEF UnderWay

LEMMA HandleUnderWay ==
    ASSUME TypeOK, UnderWay, Handle
    PROVE  UnderWay'
<1> SUFFICES ASSUME phase' = "betting", sentRound' = round'
             PROVE  entry' > 0 \/ \E i \in 1 .. Len(inbox') : inbox'[i] # CashOut
    BY DEF UnderWay
<1>1. /\ phase = "betting" /\ sentRound = round
      /\ entry' = (IF entry = 0 THEN Head(inbox) ELSE entry)
    BY DEF Handle, form
<1>2. /\ inbox \in Seq(Value) /\ inbox # <<>> /\ inbox' = Tail(inbox)
      /\ entry \in Nat
    BY ValueAssumption DEF Handle, TypeOK
<1>3. /\ Len(inbox') = Len(inbox) - 1 /\ Len(inbox) \in Nat \ {0}
      /\ Head(inbox) = inbox[1] /\ Head(inbox) \in Nat
      /\ \A i \in 1 .. Len(inbox') : inbox'[i] = inbox[i + 1]
    BY <1>2, Received, ValueAssumption
<1>4. CASE entry > 0
    BY <1>1, <1>4
<1>5. CASE entry = 0 /\ Head(inbox) # CashOut
    BY <1>1, <1>3, <1>5 DEF CashOut
<1>6. CASE entry = 0 /\ Head(inbox) = CashOut
    <2>1. PICK i \in 1 .. Len(inbox) : inbox[i] # CashOut
        BY <1>1, <1>6 DEF UnderWay
    <2>2. i - 1 \in 1 .. Len(inbox') /\ inbox'[i - 1] = inbox[i]
        <3>1. i # 1
            BY <1>3, <1>6, <2>1
        <3>2. i - 1 \in 1 .. Len(inbox')
            BY <1>3, <3>1
        <3>3. inbox'[i - 1] = inbox[(i - 1) + 1]
            BY <1>3, <3>2
        <3>4. (i - 1) + 1 = i
            OBVIOUS
        <3>5. QED BY <3>2, <3>3, <3>4
    <2>3. QED BY <2>1, <2>2
<1>7. QED BY <1>2, <1>4, <1>5, <1>6

LEMMA StepUnderWay ==
    ASSUME TypeOK, InOrder, Remembered, UnderWay, [Next]_vars
    PROVE  UnderWay'
<1> USE DEF UnderWay
<1>1. CASE UNCHANGED <<phase, round, entry, inbox, sentRound>>
    BY <1>1
<1>2. CASE EngineStep
    <2>1. CASE BeginRound
        BY <2>1, BeginUnderWay
    <2>2. CASE Handle
        BY <2>2, HandleUnderWay
    <2>3. CASE Publish
        BY <1>1, <2>3 DEF Publish, engine, form
    <2>4. CASE \/ AutoCashout \/ Crash \/ BeginFails
               \/ \E reply \in Replies : TakeOff(reply) \/ Settle(reply)
        BY <2>4 DEF AutoCashout, Crash, BeginFails, TakeOff, Settle
    <2>5. QED BY <1>2, <2>1, <2>2, <2>3, <2>4 DEF EngineStep
<1>3. ASSUME NEW r, UNCHANGED engine, Submit(r), value > 0 PROVE UnderWay'
    <2>1. value \in Value /\ value # CashOut /\ Send(value)
        BY <1>3, ValueAssumption DEF TypeOK, Submit, CashOut
    <2>2. QED BY <1>3, <2>1, SentUnderWay
<1>4. CASE TakeSnapshot
    BY <1>1, <1>3, <1>4 DEF TakeSnapshot, OpenForm, AutoSubmit, Valid, engine, form
<1>5. CASE Enter
    BY <1>1, <1>3, <1>5 DEF Enter, Valid, engine
<1>6. CASE Space
    <2>1. CashOut \in Value /\ Send(CashOut) /\ UNCHANGED <<engine, sentRound>>
        BY <1>6, ValueAssumption DEF Space, CashOut, form
    <2>2. QED BY <2>1, SentUnderWay
<1>7. CASE Escape \/ (\E v \in Value : Edit(v)) \/ QueryStep \/ UNCHANGED vars
    BY <1>1, <1>7 DEF Escape, Edit, QueryStep, ReadRow, QueryFails, Refresh, vars, engine, form
<1>8. QED BY <1>2, <1>4, <1>5, <1>6, <1>7 DEF Next, KeyStep

-----------------------------------------------------------------------------
(* The theorems.                                                           *)

\* The invariant holds in every state of the form and the engine.
THEOREM Invariance == Spec => []IInv
<1>1. Init => IInv
    BY InitTypes, InitInOrder, InitRemembered, InitUnderWay DEF IInv
<1>2. IInv /\ [Next]_vars => IInv'
    BY StepTypes, StepInOrder, StepRemembered, StepUnderWay DEF IInv
<1>3. QED BY <1>1, <1>2, PTL DEF Spec

\* Types hold, and the inbox and the channel of snapshots keep to their
\* capacity (PlaceBet, CashOut, broadcast).
THEOREM TypeCorrect == Spec => []TypeOK
<1>1. IInv => TypeOK
    BY DEF IInv
<1>2. QED BY <1>1, Invariance, PTL

\* A bet sent for the open window is entered once the inbox is read
\* (submitNow, autoSubmitQueue, handleCmd).
THEOREM BetEnters == Spec => []SentIsEntered
<1>1. IInv => SentIsEntered
    BY DEF IInv, UnderWay, SentIsEntered
<1>2. QED BY <1>1, Invariance, PTL

\* A bet leaves the form only in a window that opens, from the queue, or in one
\* that is open and was not used, on Enter.
LEMMA WhenBetsLeave ==
    ASSUME TypeOK, Next, BetSent
    PROVE  \/ TakeSnapshot /\ OpenForm(snap'.round) /\ snap'.state = "betting"
           \/ snap' = snap /\ snap.state = "betting" /\ ~placed
<1>1. Len(inbox) \in Nat
    BY DEF TypeOK
<1>2. ~UNCHANGED inbox
    BY <1>1 DEF BetSent
<1>3. ~Handle
    <2>1. Handle => Len(inbox') = Len(inbox) - 1
        BY Received DEF Handle, TypeOK
    <2>2. QED BY <1>1, <2>1 DEF BetSent
<1>4. ~Space
    <2>1. Space => inbox'[Len(inbox')] = CashOut
        BY Sent, ValueAssumption DEF Space, TypeOK, CashOut
    <2>2. QED BY <2>1 DEF BetSent
<1>5. ~EngineStep
    BY <1>2, <1>3 DEF EngineStep, BeginRound, AutoCashout, Crash, BeginFails, Publish, TakeOff, Settle
<1>6. ~(Escape \/ (\E v \in Value : Edit(v)) \/ QueryStep)
    BY <1>2 DEF Escape, Edit, QueryStep, ReadRow, QueryFails, Refresh
<1>7. CASE TakeSnapshot
    BY <1>2, <1>7 DEF TakeSnapshot
<1>8. CASE Enter
    BY <1>2, <1>8 DEF Enter
<1>9. QED BY <1>4, <1>5, <1>6, <1>7, <1>8 DEF Next, KeyStep

\* At most one bet leaves the form for each round the player sees, whatever is
\* queued, typed, skipped or answered late (OnSnapshot, Update).
THEOREM OneBet == Spec => OneBetPerRound
<1>1. IInv /\ [Next]_vars => [BetSent => sentRound < snap'.round]_vars
    <2> SUFFICES ASSUME IInv, Next, BetSent PROVE sentRound < snap'.round
        OBVIOUS
    <2>1. CASE TakeSnapshot /\ snap'.state = "betting"
        BY <2>1, NewWindow DEF IInv
    <2>2. CASE snap' = snap /\ snap.state = "betting" /\ ~placed
        <3>1. sentRound \in Int /\ snap.round \in Int
            BY BoundAssumption DEF IInv, TypeOK, Snap
        <3>2. QED BY <2>2, <3>1 DEF IInv, Remembered
    <2>3. QED BY <2>1, <2>2, WhenBetsLeave DEF IInv
<1>2. QED BY <1>1, Invariance, PTL DEF Spec, OneBetPerRound

\* A queued bet leaves the queue only by being sent, by a message that refuses
\* it, or by Escape; and no window that the screen comes to from anything but a
\* window leaves it there (autoSubmitQueue, onSnapshot).
THEOREM QueueIsServed == Spec => QueueServed
<1>1. ASSUME TypeOK, Next, queued
      PROVE  (~queued' => BetSent \/ err' \/ Escape) /\ (Opens => ~queued')
    <2>1. ASSUME NEW r, Submit(r), Valid(Login) \/ Valid(maxBet)
          PROVE  BetSent
        <3>1. Send(value) /\ value \in Value /\ value # CashOut
            BY <1>1, <2>1, ValueAssumption DEF Submit, Valid, CashOut, TypeOK
        <3>2. QED BY <1>1, <3>1, Sent DEF BetSent, TypeOK
    <2>2. CASE TakeSnapshot
        <3>1. CASE Opens
            <4>1. AutoSubmit(snap'.round)
                BY <1>1, <2>2, <3>1 DEF TakeSnapshot, OpenForm, Opens
            <4>2. CASE Valid(Login)
                <5>1. Submit(snap'.round)
                    BY <4>1, <4>2 DEF AutoSubmit
                <5>2. QED BY <2>1, <4>2, <5>1 DEF Submit
            <4>3. CASE ~Valid(Login)
                BY <4>1, <4>3 DEF AutoSubmit
            <4>4. QED BY <4>2, <4>3
        <3>2. CASE ~Opens
            BY <1>1, <2>2, <3>2 DEF TakeSnapshot, Opens, form
        <3>3. QED BY <3>1, <3>2
    <2>3. CASE Enter
        <3>1. ~Opens
            BY <2>3 DEF Enter, Opens
        <3>2. CASE Valid(maxBet) /\ Submit(snap.round)
            BY <2>1, <3>1, <3>2
        <3>3. CASE queued' = queued \/ queued' = TRUE
            BY <1>1, <3>1, <3>3
        <3>4. QED BY <2>3, <3>2, <3>3 DEF Enter
    <2>4. CASE Escape
        BY <2>4 DEF Escape, Opens
    <2>5. CASE EngineStep \/ Space \/ (\E v \in Value : Edit(v)) \/ QueryStep
        <3>1. UNCHANGED <<snap, queued>>
            BY <2>5 DEF EngineStep, BeginRound, AutoCashout, Crash, BeginFails, Handle, Publish,
                        TakeOff, Settle, Space, Edit, QueryStep, ReadRow, QueryFails, Refresh,
                        form
        <3>2. QED BY <1>1, <3>1 DEF Opens
    <2>6. QED BY <1>1, <2>2, <2>3, <2>4, <2>5 DEF Next, KeyStep
<1>2. TypeOK /\ [Next]_vars => [ServesQueue]_vars
    BY <1>1 DEF ServesQueue
<1>3. QED BY <1>2, TypeCorrect, PTL DEF Spec, QueueServed

-----------------------------------------------------------------------------
(* The stream and the engine this form is driven by.                       *)

\* The program never sees a round or a phase again once it saw a later one,
\* whichever snapshots were dropped (LatestWins).
THEOREM SeenInOrder == Spec => [][snap' # snap => Place(snap) < Place(snap')]_vars
<1>1. IInv /\ [Next]_vars => [snap' # snap => Place(snap) < Place(snap')]_vars
    <2> SUFFICES ASSUME IInv, Next, snap' # snap PROVE Place(snap) < Place(snap')
        OBVIOUS
    <2>1. TakeSnapshot
        BY DEF Next, EngineStep, BeginRound, AutoCashout, Crash, BeginFails, Handle, Publish,
               TakeOff, Settle, KeyStep, Escape, Enter, Space, Edit, QueryStep, ReadRow,
               QueryFails, Refresh
    <2>2. QED BY <2>1, TakenIsLater DEF IInv
<1>2. QED BY <1>1, Invariance, PTL DEF Spec

\* The phases of RoundLoop, for an audience of which this player is always one.
LoopPhase == IF phase \in {"crashed", "pause"} THEN "settling" ELSE phase
Loop == INSTANCE RoundLoop WITH phase <- LoopPhase, Player <- {"player"}, audience <- {"player"}

\* The engine of this model takes no step that RoundLoop does not allow, so that
\* it goes through the phases as Engine.tla does, failures included.
THEOREM EngineIsRoundLoop == Spec => [][Loop!Next]_(Loop!vars)
<1> USE DEF Loop!Next, Loop!vars, Loop!Wake, Loop!TakeOff, Loop!Crash, Loop!Again, Loop!Pause,
            Loop!Abort, Loop!Begin
<1>1. ASSUME Next PROVE Loop!Next \/ UNCHANGED LoopPhase
    <2>1. CASE BeginRound
        BY <2>1 DEF BeginRound, LoopPhase
    <2>2. ASSUME NEW reply \in Replies, TakeOff(reply) \/ Settle(reply)
          PROVE  Loop!Next \/ UNCHANGED LoopPhase
        BY <2>2 DEF TakeOff, Settle, LoopPhase
    <2>3. CASE Crash \/ BeginFails
        BY <2>3 DEF Crash, BeginFails, LoopPhase
    <2>4. CASE AutoCashout \/ Handle \/ Publish
        BY <2>4 DEF AutoCashout, Handle, Publish, LoopPhase, engine
    <2>5. CASE TakeSnapshot \/ KeyStep \/ QueryStep
        BY <2>5 DEF TakeSnapshot, KeyStep, Escape, Enter, Space, Edit, QueryStep, ReadRow,
                    QueryFails, Refresh, LoopPhase, engine
    <2>6. QED BY <1>1, <2>1, <2>2, <2>3, <2>4, <2>5 DEF Next, EngineStep
<1>2. UNCHANGED vars => UNCHANGED LoopPhase
    BY DEF vars, engine, LoopPhase
<1>3. [Next]_vars => [Loop!Next]_(Loop!vars)
    BY <1>1, <1>2
<1>4. QED BY <1>3, PTL DEF Spec
=============================================================================
