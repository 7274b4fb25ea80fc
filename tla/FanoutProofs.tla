---------------------------- MODULE FanoutProofs ----------------------------
(***************************************************************************)
(* For every set of subscribers and every channel capacity: the invariants *)
(* of Fanout.tla, and that the stream of each subscriber implements the    *)
(* safety part of LatestWins.tla.                                          *)
(***************************************************************************)
EXTENDS Fanout, FiniteSetTheorems, SequenceTheorems, TLAPS

\* What one subscriber sees of the fan-out.
Stream(c) == INSTANCE LatestWins WITH got <- got[c]

IInv == TypeOK /\ NewFrameFits /\ InOrder /\ NewestKept

\* What Append does to the length and the elements of a sequence.
LEMMA Appended ==
    ASSUME NEW s \in Seq(1 .. MaxFrames), NEW x \in 1 .. MaxFrames
    PROVE  /\ Append(s, x) \in Seq(1 .. MaxFrames)
           /\ Append(s, x) # <<>>
           /\ Len(Append(s, x)) = Len(s) + 1
           /\ Append(s, x)[Len(s) + 1] = x
           /\ \A i \in 1 .. Len(s) : Append(s, x)[i] = s[i]
OBVIOUS

\* What Head and Tail return of a sequence that is not empty.
LEMMA Shortened ==
    ASSUME NEW s \in Seq(1 .. MaxFrames), s # <<>>
    PROVE  /\ Tail(s) \in Seq(1 .. MaxFrames)
           /\ Head(s) = s[1] /\ Head(s) \in 1 .. MaxFrames
           /\ Len(s) \in Nat \ {0} /\ Len(Tail(s)) = Len(s) - 1
           /\ \A i \in 1 .. Len(Tail(s)) : Tail(s)[i] = s[i + 1]
<1>1. Len(s) \in Nat \ {0} /\ Head(s) = s[1]
    OBVIOUS
<1>2. QED BY <1>1, HeadTailProperties, Zenon

\* A sequence is empty exactly when its length is 0.
LEMMA Emptiness ==
    ASSUME NEW s \in Seq(1 .. MaxFrames)
    PROVE  Len(s) \in Nat /\ (s = <<>> <=> Len(s) = 0)
OBVIOUS

\* Frame numbers are numbers.
LEMMA Numbers ==
    ASSUME TypeOK
    PROVE  /\ sent \in Nat
           /\ \A c \in Client :
                /\ got[c] \in Nat
                /\ ch[c] \in Seq(1 .. MaxFrames)
                /\ Len(ch[c]) \in Nat
                /\ \A i \in 1 .. Len(ch[c]) : ch[c][i] \in Nat
BY FramesAssumption DEF TypeOK

\* The engine starts with every channel empty.
LEMMA InitEstablishes == Init => IInv
BY FramesAssumption, CapAssumption
DEF Init, IInv, TypeOK, MidCall, NewFrameFits, Full, InOrder, NewestKept

\* A new snapshot makes everything received or buffered old.
LEMMA BroadcastKeeps == ASSUME IInv, Broadcast PROVE IInv'
<1> USE DEF Broadcast
<1>1. TypeOK' /\ NewFrameFits'
    BY FramesAssumption DEF IInv, TypeOK, MidCall, NewFrameFits, Full
<1>2. InOrder'
    BY Numbers DEF IInv, InOrder
<1>3. NewestKept'
    BY DEF NewestKept
<1>4. QED BY <1>1, <1>2, <1>3 DEF IInv

\* What appending the snapshot being sent to c's channel does, for either select.
LEMMA SentTo ==
    ASSUME IInv, NEW c \in todo, ~Full(c),
           ch' = [ch EXCEPT ![c] = Append(@, sent)], todo' = todo \ {c},
           UNCHANGED <<sent, got>>
    PROVE  /\ ch' \in [Client -> Seq(1 .. MaxFrames)]
           /\ \A d \in Client : Len(ch'[d]) <= Cap
           /\ InOrder' /\ NewestKept'
<1>1. c \in Client /\ ch[c] \in Seq(1 .. MaxFrames) /\ sent \in 1 .. MaxFrames
    BY FramesAssumption DEF IInv, TypeOK, InOrder
<1> DEFINE new == Append(ch[c], sent)
<1>2. /\ new \in Seq(1 .. MaxFrames) /\ new # <<>>
      /\ Len(new) = Len(ch[c]) + 1 /\ Len(ch[c]) \in Nat
      /\ new[Len(ch[c]) + 1] = sent
      /\ \A i \in 1 .. Len(ch[c]) : new[i] = ch[c][i]
    BY <1>1, Appended, Emptiness
<1>3. ch' = [ch EXCEPT ![c] = new]
    OBVIOUS
<1> HIDE DEF new
<1>4. /\ ch'[c] = new
      /\ \A d \in Client : d # c => ch'[d] = ch[d]
    BY <1>1, <1>3 DEF IInv, TypeOK
<1>5. ch' \in [Client -> Seq(1 .. MaxFrames)]
    BY <1>2, <1>3 DEF IInv, TypeOK
<1>6. \A d \in Client : Len(ch'[d]) <= Cap
    BY <1>1, <1>2, <1>4, CapAssumption DEF IInv, NewFrameFits, Full
<1>7. InOrder'
    <2>1. ASSUME NEW d \in Client, d # c
          PROVE  /\ \A i \in 1 .. Len(ch'[d]) :
                      /\ got'[d] < ch'[d][i]
                      /\ d \in todo' => ch'[d][i] < sent'
                      /\ ch'[d][i] <= sent'
                 /\ \A i, j \in 1 .. Len(ch'[d]) : i < j => ch'[d][i] < ch'[d][j]
                 /\ got'[d] <= sent'
                 /\ d \in todo' => got'[d] < sent'
        BY <1>4, <2>1 DEF IInv, InOrder
    <2>2. /\ \A i \in 1 .. Len(new) : got[c] < new[i] /\ new[i] <= sent
          /\ \A i, j \in 1 .. Len(new) : i < j => new[i] < new[j]
          /\ got[c] <= sent
        <3>1. /\ got[c] < sent /\ sent \in Nat /\ got[c] \in Nat
              /\ \A i \in 1 .. Len(ch[c]) :
                   ch[c][i] \in Nat /\ got[c] < ch[c][i] /\ ch[c][i] < sent
              /\ \A i, j \in 1 .. Len(ch[c]) : i < j => ch[c][i] < ch[c][j]
            BY <1>1, Numbers DEF IInv, InOrder
        <3>2. \A i \in 1 .. Len(new) : i \in 1 .. Len(ch[c]) \/ i = Len(ch[c]) + 1
            BY <1>2
        <3>3. ASSUME NEW i \in 1 .. Len(new)
              PROVE  got[c] < new[i] /\ new[i] <= sent
            <4>1. CASE i \in 1 .. Len(ch[c])
                <5>1. /\ new[i] = ch[c][i] /\ new[i] \in Nat
                      /\ got[c] < new[i] /\ new[i] < sent
                    BY <1>2, <3>1, <4>1
                <5>2. QED BY <3>1, <5>1
            <4>2. CASE i = Len(ch[c]) + 1
                BY <1>2, <3>1, <4>2
            <4>3. QED BY <3>2, <4>1, <4>2
        <3>4. ASSUME NEW i \in 1 .. Len(new), NEW j \in 1 .. Len(new), i < j
              PROVE  new[i] < new[j]
            <4>1. i \in 1 .. Len(ch[c])
                BY <1>2, <3>2, <3>4
            <4>2. CASE j \in 1 .. Len(ch[c])
                BY <1>2, <3>1, <3>4, <4>1, <4>2
            <4>3. CASE j = Len(ch[c]) + 1
                BY <1>2, <3>1, <4>1, <4>3
            <4>4. QED BY <3>2, <4>2, <4>3
        <3>5. QED BY <3>1, <3>3, <3>4
    <2>3. QED BY <1>4, <2>1, <2>2 DEF InOrder
<1>8. NewestKept'
    BY <1>1, <1>2, <1>4 DEF IInv, NewestKept
<1>9. QED BY <1>5, <1>6, <1>7, <1>8

\* The first select appends the newest frame, or leaves a full channel alone.
LEMMA TrySendKeeps == ASSUME IInv, NEW c \in Client, TrySend(c) PROVE IInv'
<1>1. CASE Full(c)
    <2>1. TypeOK' /\ NewFrameFits'
        BY <1>1 DEF TrySend, IInv, TypeOK, MidCall, NewFrameFits, Full
    <2>2. InOrder' /\ NewestKept'
        BY <1>1 DEF TrySend, IInv, InOrder, NewestKept
    <2>3. QED BY <2>1, <2>2 DEF IInv
<1>2. CASE ~Full(c)
    <2>1. /\ c \in todo /\ UNCHANGED <<sent, got, pc>> /\ pc = "first" /\ cur' = c
          /\ ch' = [ch EXCEPT ![c] = Append(@, sent)] /\ todo' = todo \ {c}
        BY <1>2 DEF TrySend
    <2>2. /\ ch' \in [Client -> Seq(1 .. MaxFrames)]
          /\ \A d \in Client : Len(ch'[d]) <= Cap
          /\ InOrder' /\ NewestKept'
        BY <1>2, <2>1, SentTo
    <2>3. TypeOK' /\ NewFrameFits'
        BY <2>1, <2>2 DEF IInv, TypeOK, MidCall, NewFrameFits
    <2>4. QED BY <2>2, <2>3 DEF IInv
<1>3. QED BY <1>1, <1>2

\* Taking the oldest frame out of c's channel, for the engine or the session.
LEMMA Taken ==
    ASSUME IInv, NEW c \in Client, ch[c] # <<>>, ch' = [ch EXCEPT ![c] = Tail(@)],
           UNCHANGED <<sent, todo>>,
           \/ got' = got
           \/ got' = [got EXCEPT ![c] = Head(ch[c])]
    PROVE  /\ ch' \in [Client -> Seq(1 .. MaxFrames)] /\ got' \in [Client -> 0 .. MaxFrames]
           /\ \A d \in Client : Len(ch'[d]) <= Len(ch[d])
           /\ Len(ch'[c]) = Len(ch[c]) - 1
           /\ InOrder'
<1> DEFINE s == ch[c]
           t == Tail(s)
<1>1. s \in Seq(1 .. MaxFrames) /\ s # <<>>
    BY DEF IInv, TypeOK
<1>2. /\ t \in Seq(1 .. MaxFrames)
      /\ Head(s) = s[1] /\ Head(s) \in 1 .. MaxFrames
      /\ Len(s) \in Nat \ {0} /\ Len(t) = Len(s) - 1
      /\ \A i \in 1 .. Len(t) : t[i] = s[i + 1]
    BY <1>1, Shortened
<1>3. ch' = [ch EXCEPT ![c] = t]
    OBVIOUS
<1> HIDE DEF t
<1>4. /\ ch'[c] = t
      /\ \A d \in Client : d # c => ch'[d] = ch[d] /\ got'[d] = got[d]
      /\ got'[c] \in {got[c], s[1]}
    BY <1>2, <1>3 DEF IInv, TypeOK
<1>5. ch' \in [Client -> Seq(1 .. MaxFrames)] /\ got' \in [Client -> 0 .. MaxFrames]
    <2>1. ch' \in [Client -> Seq(1 .. MaxFrames)]
        BY <1>2, <1>3 DEF IInv, TypeOK
    <2>2. Head(s) \in 0 .. MaxFrames
        BY <1>2, FramesAssumption
    <2>3. got' \in [Client -> 0 .. MaxFrames]
        BY <2>2 DEF IInv, TypeOK
    <2>4. QED BY <2>1, <2>3
<1>6. \A d \in Client : Len(ch'[d]) <= Len(ch[d])
    BY <1>2, <1>4, Numbers DEF IInv
<1>7. InOrder'
    <2>1. ASSUME NEW d \in Client, d # c
          PROVE  /\ \A i \in 1 .. Len(ch'[d]) :
                      /\ got'[d] < ch'[d][i]
                      /\ d \in todo' => ch'[d][i] < sent'
                      /\ ch'[d][i] <= sent'
                 /\ \A i, j \in 1 .. Len(ch'[d]) : i < j => ch'[d][i] < ch'[d][j]
                 /\ got'[d] <= sent'
                 /\ d \in todo' => got'[d] < sent'
        BY <1>4, <2>1 DEF IInv, InOrder
    <2>2. /\ \A i \in 1 .. Len(s) :
               s[i] \in Nat /\ got[c] < s[i] /\ s[i] <= sent /\ (c \in todo => s[i] < sent)
          /\ \A i, j \in 1 .. Len(s) : i < j => s[i] < s[j]
          /\ got[c] <= sent /\ got[c] \in Nat /\ sent \in Nat
          /\ c \in todo => got[c] < sent
        BY Numbers DEF IInv, InOrder
    <2>3. \A i \in 1 .. Len(t) : i + 1 \in 1 .. Len(s) /\ 1 \in 1 .. Len(s) /\ 1 < i + 1
        BY <1>2
    <2> HIDE DEF s
    <2>4. \A i \in 1 .. Len(t) : /\ got[c] < t[i] /\ s[1] < t[i]
                                 /\ t[i] <= sent /\ (c \in todo => t[i] < sent)
        BY <1>2, <2>2, <2>3
    <2>5. \A i, j \in 1 .. Len(t) : i < j => t[i] < t[j]
        <3>1. ASSUME NEW i \in 1 .. Len(t), NEW j \in 1 .. Len(t), i < j
              PROVE  t[i] < t[j]
            <4>1. i + 1 \in 1 .. Len(s) /\ j + 1 \in 1 .. Len(s) /\ i + 1 < j + 1
                BY <2>3, <3>1
            <4>2. s[i + 1] < s[j + 1]
                BY <2>2, <4>1
            <4>3. QED BY <1>2, <4>2
        <3>2. QED BY <3>1
    <2>6. 1 \in 1 .. Len(s)
        BY <1>2
    <2>7. got'[c] <= sent /\ (c \in todo => got'[c] < sent)
        BY <1>4, <2>2, <2>6
    <2>8. \A i \in 1 .. Len(t) : got'[c] < t[i]
        BY <1>4, <2>4
    <2>9. /\ \A i \in 1 .. Len(ch'[c]) :
                /\ got'[c] < ch'[c][i]
                /\ c \in todo' => ch'[c][i] < sent'
                /\ ch'[c][i] <= sent'
          /\ \A i, j \in 1 .. Len(ch'[c]) : i < j => ch'[c][i] < ch'[c][j]
          /\ got'[c] <= sent' /\ (c \in todo' => got'[c] < sent')
        <3>1. ch'[c] = t /\ sent' = sent /\ todo' = todo
            BY <1>4
        <3> HIDE DEF t
        <3>2. QED BY <3>1, <2>4, <2>5, <2>7, <2>8
    <2>10. QED BY <2>1, <2>9 DEF InOrder
<1>8. QED BY <1>2, <1>4, <1>5, <1>6, <1>7 DEF s

\* The second select makes room, whatever the session did meanwhile.
LEMMA DrainKeeps == ASSUME IInv, Drain PROVE IInv'
<1> USE DEF Drain
<1>1. cur \in Client /\ cur \in todo
    BY DEF IInv, TypeOK, MidCall
<1>2. CASE ch[cur] = <<>>
    <2>1. ch' = ch
        BY <1>1, <1>2 DEF IInv, TypeOK
    <2>2. Len(ch[cur]) = 0
        BY <1>2
    <2>3. TypeOK' /\ NewFrameFits'
        BY <1>1, <2>1, <2>2, CapAssumption
        DEF IInv, TypeOK, MidCall, NewFrameFits, Full
    <2>4. InOrder' /\ NewestKept'
        BY <2>1 DEF IInv, InOrder, NewestKept
    <2>5. QED BY <2>3, <2>4 DEF IInv
<1>3. CASE ch[cur] # <<>>
    <2>1. ch' = [ch EXCEPT ![cur] = Tail(@)]
        BY <1>3
    <2>2. /\ ch' \in [Client -> Seq(1 .. MaxFrames)]
          /\ \A d \in Client : Len(ch'[d]) <= Len(ch[d])
          /\ Len(ch'[cur]) = Len(ch[cur]) - 1
          /\ InOrder'
        BY <1>1, <1>3, <2>1, Taken
    <2>3. \A d \in Client : Len(ch[d]) \in Nat /\ Len(ch'[d]) \in Nat /\ Len(ch[d]) <= Cap
        BY <2>2, Numbers DEF IInv, NewFrameFits
    <2>4. NewFrameFits'
        BY <1>1, <2>2, <2>3, CapAssumption DEF NewFrameFits, Full
    <2>5. TypeOK'
        BY <1>1, <2>2 DEF IInv, TypeOK, MidCall
    <2>6. NewestKept'
        BY <1>1, <2>1 DEF IInv, TypeOK, NewestKept
    <2>7. QED BY <2>2, <2>4, <2>5, <2>6 DEF IInv
<1>4. QED BY <1>2, <1>3

\* The third select appends the newest frame.
LEMMA RetryKeeps == ASSUME IInv, Retry PROVE IInv'
<1>1. cur \in todo /\ ~Full(cur) /\ pc = "retry"
    BY DEF Retry, IInv, TypeOK, MidCall, NewFrameFits
<1>2. /\ UNCHANGED <<sent, got, cur>> /\ pc' = "first" /\ todo' = todo \ {cur}
      /\ ch' = [ch EXCEPT ![cur] = Append(@, sent)]
    BY <1>1 DEF Retry
<1>3. /\ ch' \in [Client -> Seq(1 .. MaxFrames)]
      /\ \A d \in Client : Len(ch'[d]) <= Cap
      /\ InOrder' /\ NewestKept'
    BY <1>1, <1>2, SentTo
<1>4. TypeOK' /\ NewFrameFits'
    BY <1>2, <1>3 DEF IInv, TypeOK, MidCall, NewFrameFits
<1>5. QED BY <1>3, <1>4 DEF IInv

\* A session takes the oldest frame; the newest stays last, or is the one taken.
LEMMA ReceiveKeeps == ASSUME IInv, NEW c \in Client, Receive(c) PROVE IInv'
<1> USE DEF Receive
<1>1. /\ ch' \in [Client -> Seq(1 .. MaxFrames)] /\ got' \in [Client -> 0 .. MaxFrames]
      /\ \A d \in Client : Len(ch'[d]) <= Len(ch[d])
      /\ Len(ch'[c]) = Len(ch[c]) - 1
      /\ InOrder'
    BY Taken
<1>2. TypeOK'
    BY <1>1 DEF IInv, TypeOK, MidCall
<1>3. \A d \in Client : Len(ch[d]) \in Nat /\ Len(ch'[d]) \in Nat /\ Len(ch[d]) <= Cap
    BY <1>2, Numbers DEF IInv, NewFrameFits, TypeOK
<1>4. NewFrameFits'
    BY <1>1, <1>3, CapAssumption DEF IInv, TypeOK, NewFrameFits, Full
<1>5. ASSUME NEW d \in Client, d \notin todo
      PROVE  IF ch'[d] = <<>> THEN got'[d] = sent' ELSE ch'[d][Len(ch'[d])] = sent'
    <2>1. CASE d # c
        BY <1>5, <2>1 DEF IInv, TypeOK, NewestKept
    <2>2. CASE d = c
        <3>1. /\ ch[c] \in Seq(1 .. MaxFrames) /\ ch[c] # <<>>
              /\ ch[c][Len(ch[c])] = sent
            BY <1>5, <2>2 DEF IInv, TypeOK, NewestKept
        <3>2. /\ ch'[c] = Tail(ch[c]) /\ got'[c] = ch[c][1]
              /\ Len(ch'[c]) = Len(ch[c]) - 1 /\ Len(ch[c]) \in Nat \ {0}
              /\ \A i \in 1 .. Len(ch'[c]) : ch'[c][i] = ch[c][i + 1]
            BY <3>1, Shortened DEF IInv, TypeOK
        <3>3. ch'[c] = <<>> <=> Len(ch'[c]) = 0
            BY <1>1, Emptiness
        <3>4. CASE Len(ch[c]) = 1
            BY <2>2, <3>1, <3>2, <3>3, <3>4
        <3>5. CASE Len(ch[c]) # 1
            <4> DEFINE n == Len(ch[c])  m == Len(ch'[c])
            <4>1. n \in Nat \ {0} /\ n # 1 /\ m = n - 1
                BY <3>2, <3>5
            <4>2. m \in 1 .. m /\ m + 1 = n /\ m # 0
                <5> HIDE DEF n, m
                <5> QED BY <4>1
            <4>3. QED BY <2>2, <3>1, <3>2, <3>3, <4>2
        <3>6. QED BY <3>4, <3>5
    <2>3. QED BY <2>1, <2>2
<1>6. NewestKept'
    BY <1>5 DEF NewestKept
<1>7. QED BY <1>1, <1>2, <1>4, <1>6 DEF IInv

\* Every step preserves the invariant.
LEMMA StepKeeps == IInv /\ [Next]_vars => IInv'
<1>1. IInv /\ UNCHANGED vars => IInv'
    BY DEF vars, IInv, TypeOK, MidCall, NewFrameFits, Full, InOrder, NewestKept
<1>2. QED BY <1>1, BroadcastKeeps, TrySendKeeps, DrainKeeps, RetryKeeps, ReceiveKeeps
          DEF Next, Sending

\* The inductive invariant holds of every behaviour of the fan-out.
THEOREM Invariance == Spec => []IInv
<1>1. QED BY InitEstablishes, StepKeeps, PTL DEF Spec

\* Channels hold frames sent, and the engine's second and third select serve a
\* subscriber that is still to be served.
THEOREM TypeCorrect == Spec => []TypeOK
<1>1. IInv => TypeOK
    BY DEF IInv
<1>2. QED BY <1>1, Invariance, PTL

\* The third select always finds room: no default of sendTo loses the new frame.
THEOREM NewFrameAlwaysFits == Spec => []NewFrameFits
<1>1. IInv => NewFrameFits
    BY DEF IInv
<1>2. QED BY <1>1, Invariance, PTL

\* Frames stay in order in every channel.
THEOREM FramesInOrder == Spec => []InOrder
<1>1. IInv => InOrder
    BY DEF IInv
<1>2. QED BY <1>1, Invariance, PTL

\* Only stale frames are dropped, never the newest.
THEOREM NewestNeverDropped == Spec => []NewestKept
<1>1. IInv => NewestKept
    BY DEF IInv
<1>2. QED BY <1>1, Invariance, PTL

\* All that the comment on sendTo promises, for any number of subscribers and
\* any capacity, whoever reads at whatever moment.
THEOREM OnlyStaleDropped == Spec => []DropsOnlyStale
<1>1. IInv => DropsOnlyStale
    BY DEF IInv, DropsOnlyStale
<1>2. QED BY <1>1, Invariance, PTL

-----------------------------------------------------------------------------
\* Every subscriber's stream is a LatestWins stream, for any number of
\* subscribers and any capacity: a broadcast publishes, a receive takes, and
\* the steps of sendTo, and those of the other subscribers, do not show.
THEOREM StreamsRefine ==
    ASSUME NEW c \in Client
    PROVE  Spec => Stream(c)!Safety
<1> USE DEF Stream!Init, Stream!Next, Stream!Publish, Stream!Take, Stream!vars
<1>1. Init => Stream(c)!Init
    BY DEF Init
<1>2. IInv /\ [Next]_vars => [Stream(c)!Next]_(Stream(c)!vars)
    <2> SUFFICES ASSUME IInv, [Next]_vars
                 PROVE  Stream(c)!Next \/ UNCHANGED <<sent, got[c]>>
        OBVIOUS
    <2>1. CASE Broadcast
        BY <2>1 DEF Broadcast
    <2>2. CASE Sending
        BY <2>2 DEF Sending, TrySend, Drain, Retry
    <2>3. ASSUME NEW d \in Client, Receive(d)
          PROVE  Stream(c)!Next \/ UNCHANGED <<sent, got[c]>>
        <3>1. CASE d # c
            BY <2>3, <3>1 DEF Receive, IInv, TypeOK
        <3>2. CASE d = c
            <4>1. /\ 1 \in 1 .. Len(ch[c]) /\ got'[c] = ch[c][1] /\ ch[c][1] \in Nat
                BY <2>3, <3>2, Shortened DEF Receive, IInv, TypeOK
            <4>2. got[c] < got'[c] /\ got'[c] <= sent /\ got[c] \in Nat /\ sent \in Nat
                BY <4>1, Numbers DEF IInv, InOrder
            <4>3. QED BY <2>3, <4>1, <4>2 DEF Receive
        <3>3. QED BY <3>1, <3>2
    <2>4. CASE UNCHANGED vars
        BY <2>4 DEF vars
    <2>5. QED BY <2>1, <2>2, <2>3, <2>4 DEF Next
<1>3. QED BY <1>1, <1>2, Invariance, PTL DEF Spec, Stream!Safety

-----------------------------------------------------------------------------
\* The selects of sendTo that are left in the broadcast under way.
SelectsDone == CASE pc = "first" -> 0 [] pc = "drain" -> 1 [] pc = "retry" -> 2
SelectsLeft == 3 * Cardinality(todo) - SelectsDone

\* No select waits for a reader, and none is made in vain: each brings the
\* broadcast nearer to its end, and no receive puts it off, so that a broadcast
\* to n subscribers is over after 3 * n selects, whoever reads.
NeverPutOff ==
    /\ Sending => SelectsLeft' < SelectsLeft
    /\ (\E c \in Client : Receive(c)) => SelectsLeft' = SelectsLeft
    /\ Broadcast => SelectsLeft' = 3 * Cardinality(Client)

\* Serving one subscriber takes three selects at most off the count.
LEMMA Served ==
    ASSUME NEW S, IsFiniteSet(S), NEW c \in S
    PROVE  /\ Cardinality(S) \in Nat /\ Cardinality(S \ {c}) = Cardinality(S) - 1
           /\ Cardinality(S) >= 1
<1>1. Cardinality(S) \in Nat /\ Cardinality(S \ {c}) = Cardinality(S) - 1
    BY FS_CardinalityType, FS_RemoveElement
<1>2. Cardinality(S \ {c}) \in Nat
    BY FS_RemoveElement, FS_CardinalityType
<1>3. QED BY <1>1, <1>2

\* A session that never reads does not stall the engine: what is proved here of
\* BroadcastEnds is everything but that the goroutine is scheduled.
THEOREM BroadcastsAreBounded ==
    ASSUME IsFiniteSet(Client)
    PROVE  Spec => [](SelectsLeft \in 0 .. 3 * Cardinality(Client)) /\ [][NeverPutOff]_vars
<1>1. IInv => /\ IsFiniteSet(todo) /\ Cardinality(todo) \in Nat
              /\ Cardinality(Client) \in Nat /\ Cardinality(todo) <= Cardinality(Client)
    BY FS_Subset, FS_CardinalityType DEF IInv, TypeOK
<1>2. IInv => SelectsLeft \in 0 .. 3 * Cardinality(Client)
    <2> SUFFICES ASSUME IInv PROVE SelectsLeft \in 0 .. 3 * Cardinality(Client)
        OBVIOUS
    <2>1. CASE pc = "first"
        BY <1>1, <2>1 DEF SelectsLeft, SelectsDone
    <2>2. CASE pc # "first"
        <3>1. cur \in todo /\ pc \in {"drain", "retry"}
            BY <2>2 DEF IInv, TypeOK, MidCall
        <3>2. Cardinality(todo) >= 1
            BY <1>1, <3>1, Served
        <3>3. SelectsDone \in 1 .. 2
            BY <3>1 DEF SelectsDone
        <3>4. QED BY <1>1, <3>2, <3>3 DEF SelectsLeft
    <2>3. QED BY <2>1, <2>2
<1>3. IInv /\ [Next]_vars => [NeverPutOff]_vars
    <2> SUFFICES ASSUME IInv PROVE NeverPutOff
        OBVIOUS
    <2>1. ASSUME NEW c \in Client, TrySend(c) PROVE SelectsLeft' < SelectsLeft
        <3>1. CASE Full(c)
            BY <1>1, <2>1, <3>1 DEF TrySend, SelectsLeft, SelectsDone
        <3>2. CASE ~Full(c)
            <4>1. pc = "first" /\ pc' = "first" /\ c \in todo /\ todo' = todo \ {c}
                BY <2>1, <3>2 DEF TrySend
            <4>2. Cardinality(todo') = Cardinality(todo) - 1
                BY <1>1, <4>1, Served
            <4>3. QED BY <1>1, <4>1, <4>2 DEF SelectsLeft, SelectsDone
        <3>3. QED BY <3>1, <3>2
    <2>2. Drain => SelectsLeft' < SelectsLeft
        BY <1>1 DEF Drain, SelectsLeft, SelectsDone
    <2>3. Retry => SelectsLeft' < SelectsLeft
        <3> SUFFICES ASSUME Retry PROVE SelectsLeft' < SelectsLeft
            OBVIOUS
        <3>1. cur \in todo /\ todo' = todo \ {cur} /\ pc = "retry" /\ pc' = "first"
            BY DEF Retry, IInv, TypeOK, MidCall
        <3>2. Cardinality(todo') = Cardinality(todo) - 1
            BY <1>1, <3>1, Served
        <3>3. QED BY <1>1, <3>1, <3>2 DEF SelectsLeft, SelectsDone
    <2>4. (\E c \in Client : Receive(c)) => SelectsLeft' = SelectsLeft
        BY DEF Receive, SelectsLeft, SelectsDone
    <2>5. Broadcast => SelectsLeft' = 3 * Cardinality(Client)
        BY <1>1 DEF Broadcast, SelectsLeft, SelectsDone
    <2>6. QED BY <2>1, <2>2, <2>3, <2>4, <2>5 DEF NeverPutOff, Sending
<1>4. QED BY <1>2, <1>3, Invariance, PTL DEF Spec
=============================================================================
