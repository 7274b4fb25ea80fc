--------------------------- MODULE AccountsProofs ---------------------------
(***************************************************************************)
(* Proofs about Accounts: types, one daily credit a day, one welcome, and  *)
(* the credit of every session, for every set of keys and processes.  One  *)
(* credit a day needs that the database session's time zone is UTC; the    *)
(* last theorem says what happens in any other.                            *)
(***************************************************************************)
EXTENDS Accounts, FiniteSetTheorems, TLAPS

\* The column holds what the newest of the credits given left there.
Newest(k, c) ==
    /\ c \in credited[k] /\ players[k].last_credit_date = DateOf(Stamp(c))
    /\ \A e \in credited[k] : e <= c

\* None is given ahead of its day.
Dated(k) ==
    /\ players[k].last_credit_date = NULL => credited[k] = {}
    /\ players[k].last_credit_date # NULL => \E c \in Day : Newest(k, c)
    /\ \A c \in credited[k] : c <= day

\* The row of a key: nothing happened without one.
RowInv(k) ==
    /\ ~players[k].exists =>
           players[k].last_credit_date = NULL /\ welcomed[k] = 0 /\ net[k] = 0
    /\ Dated(k)

Greets(p, k) == At(p, k, "grant") /\ login[p][k].isNew

\* The logins of a key: at most one is on its way to greet the player, and then
\* nobody has.
LoginInv(k) ==
    \A p \in Process :
        /\ login[p][k].since <= day
        /\ Greets(p, k) => welcomed[k] = 0 /\ \A q \in Process : Greets(q, k) => q = p

KeyInv == \A k \in Key : RowInv(k) /\ LoginInv(k)

\* In UTC balances are explained.
Explained == Offset = 0 => BalanceExplained

IInv == TypeOK /\ Explained /\ WelcomedOnce /\ CreditedSinceLogin /\ KeyInv

-----------------------------------------------------------------------------
\* A statement that begins on the date d finds the credit of the date c too old
\* if d is later or, in any zone but UTC, the same.
LEMMA Compared ==
    ASSUME NEW c \in Day, NEW d \in Day
    PROVE  /\ DateOf(Stamp(c)) \in Nat
           /\ 24 * DateOf(Stamp(c)) < Stamp(d) <=> IF Offset = 0 THEN c < d ELSE c <= d
  <1>1. c \in Nat \ {0} /\ d \in Nat \ {0} /\ Offset \in Int /\ Offset >= -12 /\ Offset <= 14
    BY BoundAssumption, OffsetAssumption DEF Day
  <1>2. DateOf(Stamp(c)) = IF Offset > 0 THEN c - 1 ELSE c
    BY <1>1 DEF DateOf, Stamp
  <1> QED
    BY <1>1, <1>2 DEF Stamp

\* Credits are counted; one more date makes one more credit.
LEMMA Counted ==
    ASSUME NEW S \in SUBSET Day
    PROVE  IsFiniteSet(S) /\ Cardinality(S) \in Nat
  <1>1. IsFiniteSet(1 .. MaxDays)
    BY FS_Interval, BoundAssumption
  <1>2. IsFiniteSet(S)
    BY <1>1, FS_Subset DEF Day
  <1> QED
    BY <1>2, FS_CardinalityType

LEMMA OneMore ==
    ASSUME NEW S \in SUBSET Day, NEW d \in Day, d \notin S
    PROVE  Cardinality(S) \in Nat /\ Cardinality(S \cup {d}) = Cardinality(S) + 1
  BY Counted, FS_AddElement

\* What the statement of the daily credit keeps: the part of the invariant that
\* is about the rows.
LEMMA CreditKeeps ==
    ASSUME TypeOK, Explained, NEW k \in Key, NEW d \in Day, d <= day,
           RowInv(k), players[k].exists, Credit(k, d), UNCHANGED <<day, net>>
    PROVE  /\ players' \in [Key -> Player] /\ credited' \in [Key -> SUBSET Day]
           /\ Explained'
           /\ players'[k].exists /\ \A j \in Key \ {k} : players'[j] = players[j]
           /\ \A j \in Key : credited[j] \subseteq credited'[j]
           /\ \E c \in credited'[k] : c >= d
           /\ \A j \in Key : Dated(j) => Dated(j)'
  <1>0. /\ d \in Nat /\ net[k] \in Int
        /\ players \in [Key -> Player] /\ credited \in [Key -> SUBSET Day]
        /\ players[k].exists \in BOOLEAN /\ players[k].balance \in Int
        /\ \A c \in Day : c \in Int
    BY BoundAssumption DEF TypeOK, Player, Day
  <1>1. CASE Due(k, d)
    <2> DEFINE date == DateOf(Stamp(d))
    <2>0. date \in Int /\ date # NULL
      BY Compared DEF NULL
    <2>1. /\ players' = [players EXCEPT ![k] =
                 [exists |-> TRUE, balance |-> players[k].balance + DailyCreditGrant,
                  last_credit_date |-> date]]
          /\ credited' = [credited EXCEPT ![k] = credited[k] \cup {d}]
      BY <1>1 DEF Credit, WithCredit
    <2>2. /\ \A c \in credited[k] : c <= d
          /\ Offset = 0 => d \notin credited[k]
      <3>1. CASE players[k].last_credit_date = NULL
        BY <3>1 DEF RowInv, Dated
      <3>2. CASE players[k].last_credit_date # NULL
        <4>1. PICK c \in Day : Newest(k, c)
          BY <3>2 DEF RowInv, Dated
        <4>2. IF Offset = 0 THEN c < d ELSE c <= d
          BY <1>1, <3>2, <4>1, Compared DEF Due, Newest
        <4> QED
          BY <1>0, <4>1, <4>2 DEF Newest
      <3> QED
        BY <3>1, <3>2
    <2>3. players[k].balance + DailyCreditGrant \in Int
      BY <1>0, CreditAssumption
    <2>4. /\ players'[k] = [exists |-> TRUE,
                            balance |-> players[k].balance + DailyCreditGrant,
                            last_credit_date |-> date]
          /\ credited'[k] = credited[k] \cup {d}
          /\ \A j \in Key \ {k} : players'[j] = players[j] /\ credited'[j] = credited[j]
      BY <2>1, <1>0 DEF Player
    <2>5. players' \in [Key -> Player] /\ credited' \in [Key -> SUBSET Day]
      <3>1. players'[k] \in Player
        BY <2>0, <2>3, <2>4 DEF Player
      <3> QED
        BY <2>1, <2>4, <3>1, <1>0
    <2>6. Offset = 0 =>
            players'[k].balance =
              StartingBalance + DailyCreditGrant * Cardinality(credited'[k]) + net'[k]
      <3>0. SUFFICES ASSUME Offset = 0
                     PROVE  players'[k].balance =
                              StartingBalance + DailyCreditGrant * Cardinality(credited'[k]) + net'[k]
        OBVIOUS
      <3>1. Cardinality(credited[k]) \in Nat
            /\ Cardinality(credited'[k]) = Cardinality(credited[k]) + 1
        BY <1>0, <2>2, <2>4, <3>0, OneMore
      <3>2. players[k].balance =
                StartingBalance + DailyCreditGrant * Cardinality(credited[k]) + net[k]
        BY <3>0 DEF Explained, BalanceExplained
      <3> QED
        BY <3>1, <3>2, <1>0, <2>4, CreditAssumption
    <2>7. Explained'
      BY <2>4, <2>6 DEF Explained, BalanceExplained
    <2>8. players'[k].exists /\ \A j \in Key \ {k} : players'[j] = players[j]
      BY <2>4
    <2>9. /\ d \in credited'[k] /\ players'[k].last_credit_date = date
          /\ \A c \in credited'[k] : c <= d /\ c <= day
      <3>1. \A c \in credited[k] : c <= d /\ c <= day
        BY <2>2 DEF RowInv, Dated
      <3>2. d \in credited'[k] /\ players'[k].last_credit_date = date
        BY <2>4
      <3>3. d <= d /\ d <= day
        BY <1>0
      <3>4. ASSUME NEW c \in credited'[k] PROVE c <= d /\ c <= day
        <4>1. c \in credited[k] \/ c = d
          BY <2>4
        <4> QED
          BY <4>1, <3>1, <3>3
      <3> QED
        BY <3>2, <3>4
    <2>10. Dated(k)'
      <3>1. Newest(k, d)'
        BY <2>9 DEF Newest, DateOf, Stamp
      <3> QED
        BY <2>0, <2>9, <3>1 DEF Dated
    <2>11. \A j \in Key \ {k} : Dated(j) => Dated(j)'
      BY <2>4 DEF Dated, Newest, DateOf, Stamp
    <2> QED
      BY <2>4, <2>5, <2>7, <2>8, <2>9, <2>10, <2>11, <1>0
  <1>2. CASE ~Due(k, d)
    <2>1. players' = players /\ credited' = credited
      BY <1>2 DEF Credit
    <2>2. PICK c \in Day : Newest(k, c)
      BY <1>2 DEF Due, RowInv, Dated
    <2>3. c \in credited[k] /\ c >= d
      <3>1. ~(IF Offset = 0 THEN c < d ELSE c <= d)
        BY <1>2, <2>2, Compared DEF Due, Newest
      <3> QED
        BY <1>0, <2>2, <3>1 DEF Newest
    <2>4. Explained'
      BY <2>1, <1>0 DEF Explained, BalanceExplained
    <2> QED
      BY <2>1, <2>3, <2>4, <1>0 DEF Dated, Newest, DateOf, Stamp
  <1> QED
    BY <1>1, <1>2

-----------------------------------------------------------------------------
LEMMA InitInv == Init => IInv
  <1> SUFFICES ASSUME Init PROVE IInv
    OBVIOUS
  <1>1. TypeOK
    BY BoundAssumption DEF Init, TypeOK, Day, Player, LoginRecord, NoPlayer, NoLogin, NULL, At
  <1>2. Explained /\ WelcomedOnce /\ CreditedSinceLogin
    BY DEF Init, Explained, BalanceExplained, WelcomedOnce, CreditedSinceLogin, NoPlayer, NoLogin, At
  <1>3. KeyInv
    BY DEF Init, KeyInv, RowInv, Dated, Newest, LoginInv, Greets, NoPlayer, NoLogin, At
  <1> QED
    BY <1>1, <1>2, <1>3 DEF IInv

-----------------------------------------------------------------------------
\* A login's record is replaced, the others are not.
LEMMA Replaced ==
    ASSUME TypeOK, NEW p \in Process, NEW k \in Key, NEW l \in LoginRecord, Becomes(p, k, l)
    PROVE  /\ login' \in [Process -> [Key -> LoginRecord]]
           /\ login'[p][k] = l
           /\ \A q \in Process, j \in Key :
                  ~(q = p /\ j = k) => login'[q][j] = login[q][j]
  BY DEF TypeOK, Becomes

\* A step that changes a login only, and neither opens a session nor makes the
\* login one that greets.
LEMMA QuietKeeps ==
    ASSUME IInv, NEW p \in Process, NEW k \in Key, NEW l \in LoginRecord, Becomes(p, k, l),
           l.since <= day, l.step # "open", l.step = "grant" => ~l.isNew /\ players[k].exists,
           UNCHANGED <<day, players, credited, net, welcomed>>
    PROVE  IInv'
  <1> USE DEF IInv
  <1>1. /\ login' \in [Process -> [Key -> LoginRecord]]
        /\ login'[p][k] = l
        /\ \A q \in Process, j \in Key : ~(q = p /\ j = k) => login'[q][j] = login[q][j]
    BY Replaced
  <1>2. TypeOK'
    BY <1>1 DEF TypeOK, At
  <1>3. Explained' /\ WelcomedOnce'
    BY DEF Explained, BalanceExplained, WelcomedOnce
  <1>4. CreditedSinceLogin'
    BY <1>1 DEF CreditedSinceLogin, At
  <1>5. KeyInv'
    <2> SUFFICES ASSUME NEW j \in Key PROVE (RowInv(j) /\ LoginInv(j))'
      BY DEF KeyInv
    <2>1. RowInv(j)'
      BY DEF KeyInv, RowInv, Dated, Newest
    <2>2. ~Greets(p, k)'
      BY <1>1 DEF Greets, At
    <2>3. \A q \in Process : Greets(q, j)' => Greets(q, j)
      BY <1>1, <2>2 DEF Greets, At
    <2>4. LoginInv(j)'
      BY <1>1, <2>3 DEF KeyInv, LoginInv
    <2> QED
      BY <2>1, <2>4
  <1> QED
    BY <1>2, <1>3, <1>4, <1>5

\* The row of a new player is explained by the starting balance.
LEMMA InsertKeeps ==
    ASSUME IInv, NEW k \in Key, ~players[k].exists,
           players' = [players EXCEPT ![k] = NewPlayer],
           UNCHANGED <<day, credited, net, welcomed>>
    PROVE  /\ players' \in [Key -> Player]
           /\ Explained'
           /\ \A j \in Key : players[j].exists => players'[j].exists
           /\ players'[k].exists
           /\ \A j \in Key : RowInv(j)'
  <1> USE DEF IInv
  <1>1. RowInv(k) /\ credited[k] = {} /\ net[k] = 0 /\ welcomed[k] = 0
    BY DEF KeyInv, RowInv, Dated, Newest
  <1>2. players'[k] = NewPlayer /\ \A j \in Key \ {k} : players'[j] = players[j]
    BY DEF TypeOK
  <1>3. players' \in [Key -> Player]
    BY CreditAssumption DEF TypeOK, Player, NewPlayer, NULL
  <1>4. Explained'
    <2>1. players'[k].balance =
              StartingBalance + DailyCreditGrant * Cardinality(credited'[k]) + net'[k]
      <3>1. Cardinality(credited'[k]) = 0
        BY <1>1, FS_EmptySet
      <3> QED
        BY <3>1, <1>1, <1>2, CreditAssumption DEF NewPlayer
    <2> QED
      BY <2>1, <1>2 DEF Explained, BalanceExplained
  <1>5. \A j \in Key : RowInv(j)'
    <2>1. RowInv(k)'
      BY <1>1, <1>2 DEF RowInv, Dated, Newest, NewPlayer
    <2> QED
      BY <1>2, <2>1 DEF RowInv, Dated, Newest, KeyInv
  <1> QED
    BY <1>2, <1>3, <1>4, <1>5 DEF NewPlayer

-----------------------------------------------------------------------------
\* The records a login goes through have their type.
LEMMA Records ==
    ASSUME TypeOK, NEW new \in BOOLEAN
    PROVE  /\ NoLogin \in LoginRecord /\ NoLogin.since <= day
           /\ [NoLogin EXCEPT !.step = "get"] \in LoginRecord
           /\ [NoLogin EXCEPT !.step = "create"] \in LoginRecord
           /\ [step |-> "grant", since |-> day, isNew |-> new, answered |-> FALSE] \in LoginRecord
  <1>1. day \in Day /\ 1 \in Day /\ 1 <= day
    BY BoundAssumption DEF TypeOK, Day
  <1>2. NoLogin \in LoginRecord /\ NoLogin.since <= day
    BY <1>1 DEF NoLogin, LoginRecord
  <1>3. /\ [NoLogin EXCEPT !.step = "get"] \in LoginRecord
        /\ [NoLogin EXCEPT !.step = "create"] \in LoginRecord
    BY <1>1 DEF NoLogin, LoginRecord
  <1>4. [step |-> "grant", since |-> day, isNew |-> new, answered |-> FALSE] \in LoginRecord
    BY <1>1 DEF LoginRecord
  <1> QED
    BY <1>2, <1>3, <1>4

LEMMA BeginKeeps ==
    ASSUME IInv, NEW p \in Process, NEW k \in Key, Begin(p, k) PROVE IInv'
  <1>1. TypeOK
    BY DEF IInv
  <1> QED
    BY <1>1, Records, QuietKeeps DEF Begin, Goes, NoLogin

LEMMA GetKeeps ==
    ASSUME IInv, NEW p \in Process, NEW k \in Key, Get(p, k) PROVE IInv'
  <1>1. TypeOK
    BY DEF IInv
  <1>2. CASE players[k].exists
    <2> DEFINE l == [step |-> "grant", since |-> day, isNew |-> FALSE, answered |-> FALSE]
    <2>1. l \in LoginRecord /\ Becomes(p, k, l)
      BY <1>1, <1>2, Records DEF Get, GoesToGrant
    <2>2. l.since <= day
      BY <1>1 DEF TypeOK, Day
    <2> QED
      BY <1>2, <2>1, <2>2, QuietKeeps DEF Get
  <1>3. CASE ~players[k].exists
    BY <1>1, <1>3, Records, QuietKeeps DEF Get, Goes, NoLogin
  <1> QED
    BY <1>2, <1>3

LEMMA LogoutKeeps ==
    ASSUME IInv, NEW p \in Process, NEW k \in Key, Logout(p, k) PROVE IInv'
  <1>1. TypeOK
    BY DEF IInv
  <1> QED
    BY <1>1, Records, QuietKeeps DEF Logout, End, NoLogin

LEMMA CreateKeeps ==
    ASSUME IInv, NEW p \in Process, NEW k \in Key, Create(p, k) PROVE IInv'
  <1> USE DEF IInv, Create
  <1> DEFINE l == [step |-> "grant", since |-> day, isNew |-> TRUE, answered |-> FALSE]
  <1>1. l \in LoginRecord /\ Becomes(p, k, l)
    BY Records DEF GoesToGrant
  <1>2. /\ login' \in [Process -> [Key -> LoginRecord]]
        /\ login'[p][k] = l
        /\ \A q \in Process, j \in Key : ~(q = p /\ j = k) => login'[q][j] = login[q][j]
    BY <1>1, Replaced
  <1> HIDE DEF l
  <1>3. /\ players' \in [Key -> Player] /\ Explained'
        /\ \A j \in Key : players[j].exists => players'[j].exists
        /\ players'[k].exists
        /\ \A j \in Key : RowInv(j)'
    BY InsertKeeps
  <1>4. TypeOK'
    BY <1>2, <1>3 DEF TypeOK, At, l
  <1>5. WelcomedOnce' /\ CreditedSinceLogin'
    BY <1>2 DEF WelcomedOnce, CreditedSinceLogin, At, l
  <1>6. ASSUME NEW j \in Key PROVE LoginInv(j)'
    <2>1. CASE j # k
      BY <2>1, <1>2 DEF KeyInv, LoginInv, Greets, At
    <2>2. CASE j = k
      <3>1. welcomed'[k] = 0
        BY DEF KeyInv, RowInv, Dated, Newest
      <3>2. \A q \in Process : ~Greets(q, k)
        BY DEF TypeOK, Greets
      <3>3. \A q \in Process : Greets(q, k)' => q = p
        BY <1>2, <3>2 DEF Greets, At
      <3>4. \A q \in Process : login'[q][k].since <= day'
        <4>1. login'[p][k].since <= day'
          BY <1>2 DEF l, TypeOK, Day
        <4>2. \A q \in Process \ {p} : login'[q][k].since <= day'
          BY <1>2 DEF KeyInv, LoginInv
        <4> QED
          BY <4>1, <4>2
      <3> QED
        BY <2>2, <3>1, <3>3, <3>4 DEF LoginInv
    <2> QED
      BY <2>1, <2>2
  <1> QED
    BY <1>3, <1>4, <1>5, <1>6 DEF KeyInv

LEMMA GetOrCreateFailsKeeps ==
    ASSUME IInv, NEW p \in Process, NEW k \in Key, GetOrCreateFails(p, k) PROVE IInv'
  <1> USE DEF IInv, GetOrCreateFails
  <1>1. NoLogin \in LoginRecord /\ Becomes(p, k, NoLogin) /\ NoLogin.since <= day
    BY Records DEF End
  <1>2. CASE players' = players
    BY <1>1, <1>2, QuietKeeps DEF NoLogin
  <1>3. CASE players' # players
    <2>1. ~players[k].exists /\ players' = [players EXCEPT ![k] = NewPlayer]
      BY <1>3
    <2>2. /\ players' \in [Key -> Player] /\ Explained'
          /\ \A j \in Key : players[j].exists => players'[j].exists
          /\ \A j \in Key : RowInv(j)'
      BY <2>1, InsertKeeps
    <2>3. /\ login' \in [Process -> [Key -> LoginRecord]]
          /\ login'[p][k] = NoLogin
          /\ \A q \in Process, j \in Key : ~(q = p /\ j = k) => login'[q][j] = login[q][j]
      BY <1>1, Replaced
    <2>4. TypeOK'
      <3>1. /\ day' \in Day /\ credited' \in [Key -> SUBSET Day]
            /\ net' \in [Key -> Int] /\ welcomed' \in [Key -> Nat]
        BY DEF TypeOK
      <3>2. \A q \in Process, j \in Key :
                At(q, j, "grant")' \/ At(q, j, "open")' => players'[j].exists
        BY <2>2, <2>3 DEF TypeOK, At, NoLogin
      <3> QED
        BY <2>2, <2>3, <3>1, <3>2 DEF TypeOK
    <2>5. WelcomedOnce' /\ CreditedSinceLogin'
      <3>1. UNCHANGED <<welcomed, credited>>
        OBVIOUS
      <3>2. WelcomedOnce'
        BY <3>1 DEF WelcomedOnce
      <3>3. ASSUME NEW q \in Process, NEW j \in Key, At(q, j, "open")'
            PROVE  login'[q][j] = login[q][j]
        BY <2>3, <3>3 DEF At, NoLogin
      <3> QED
        BY <3>1, <3>2, <3>3 DEF CreditedSinceLogin, At
    <2>6. ASSUME NEW j \in Key PROVE LoginInv(j)'
      <3>1. \A q \in Process : Greets(q, j)' => Greets(q, j)
        BY <2>3 DEF Greets, At, NoLogin
      <3>2. \A q \in Process : login'[q][j].since <= day'
        BY <1>1, <2>3 DEF KeyInv, LoginInv
      <3> QED
        BY <3>1, <3>2 DEF KeyInv, LoginInv
    <2> QED
      BY <2>2, <2>4, <2>5, <2>6 DEF KeyInv
  <1> QED
    BY <1>2, <1>3

\* Login returns: the rows are as the statement of the credit leaves them, and
\* the one login that greets the player has done so.
LEMMA OpensKeeps ==
    ASSUME IInv, NEW p \in Process, NEW k \in Key, NEW answered \in BOOLEAN,
           At(p, k, "grant"), Opens(p, k, answered), UNCHANGED <<day, net>>,
           players' \in [Key -> Player], credited' \in [Key -> SUBSET Day],
           Explained',
           players'[k].exists, \A j \in Key \ {k} : players'[j] = players[j],
           \A j \in Key : credited[j] \subseteq credited'[j],
           \A j \in Key : Dated(j) => Dated(j)',
           answered => \E c \in credited'[k] : c >= login[p][k].since
    PROVE  IInv'
  <1> USE DEF IInv
  <1> DEFINE l == [step |-> "open", since |-> login[p][k].since,
                   isNew |-> login[p][k].isNew, answered |-> answered]
  <1>1. l \in LoginRecord /\ Becomes(p, k, l)
    BY DEF Opens, TypeOK, LoginRecord
  <1>2. /\ login' \in [Process -> [Key -> LoginRecord]]
        /\ login'[p][k] = l
        /\ \A q \in Process, j \in Key : ~(q = p /\ j = k) => login'[q][j] = login[q][j]
    BY <1>1, Replaced
  <1>3. l.step = "open" /\ l.since = login[p][k].since /\ l.answered = answered
    OBVIOUS
  <1> HIDE DEF l
  <1>4. /\ welcomed'[k] = IF login[p][k].isNew THEN welcomed[k] + 1 ELSE welcomed[k]
        /\ \A j \in Key \ {k} : welcomed'[j] = welcomed[j]
        /\ \A j \in Key : welcomed[j] \in Nat
        /\ welcomed' \in [Key -> Nat]
    BY DEF Opens, TypeOK
  <1>5. players[k].exists
    BY DEF TypeOK
  <1>6. TypeOK'
    <2>1. day' \in Day /\ net' \in [Key -> Int]
      BY DEF TypeOK
    <2>2. \A j \in Key : players[j].exists => players'[j].exists
      OBVIOUS
    <2>3. \A q \in Process, j \in Key :
              At(q, j, "grant")' \/ At(q, j, "open")' => players'[j].exists
      BY <1>2, <1>5, <2>2 DEF TypeOK, At
    <2> QED
      BY <1>2, <1>4, <2>1, <2>3 DEF TypeOK
  <1>7. WelcomedOnce'
    <2>1. login[p][k].isNew => welcomed[k] = 0
      BY DEF KeyInv, LoginInv, Greets
    <2>2. \A j \in Key : welcomed[j] <= 1
      BY DEF WelcomedOnce
    <2>3. welcomed'[k] <= 1
      BY <1>4, <2>1, <2>2
    <2> QED
      BY <1>4, <2>2, <2>3 DEF WelcomedOnce
  <1>8. CreditedSinceLogin'
    BY <1>2, <1>3 DEF CreditedSinceLogin, At
  <1>9. ASSUME NEW j \in Key PROVE RowInv(j)'
    <2>1. Dated(j)'
      BY DEF KeyInv, RowInv
    <2>2. CASE j = k
      BY <2>1, <2>2, <1>5 DEF RowInv
    <2>3. CASE j # k
      <3>1. players'[j] = players[j] /\ welcomed'[j] = welcomed[j] /\ net'[j] = net[j]
        BY <2>3, <1>4
      <3> QED
        BY <2>1, <3>1 DEF KeyInv, RowInv
    <2> QED
      BY <2>2, <2>3
  <1>10. ASSUME NEW j \in Key PROVE LoginInv(j)'
    <2>1. \A q \in Process : login'[q][j].since <= day'
      BY <1>2, <1>3 DEF KeyInv, LoginInv
    <2>2. \A q \in Process : Greets(q, j)' => Greets(q, j) /\ ~(q = p /\ j = k)
      BY <1>2, <1>3 DEF Greets, At
    <2>3. \A q \in Process : Greets(q, j)' => welcomed'[j] = welcomed[j]
      <3>1. CASE j # k
        BY <3>1, <1>4
      <3>2. CASE j = k
        BY <3>2, <2>2, <1>4 DEF KeyInv, LoginInv, Greets
      <3> QED
        BY <3>1, <3>2
    <2> QED
      BY <2>1, <2>2, <2>3 DEF KeyInv, LoginInv
  <1> QED
    BY <1>6, <1>7, <1>8, <1>9, <1>10 DEF KeyInv

\* The dates on which the statement of a login may have begun.
LEMMA Began ==
    ASSUME TypeOK, NEW p \in Process, NEW k \in Key, NEW d \in login[p][k].since .. day
    PROVE  d \in Day /\ d <= day /\ d >= login[p][k].since
  <1>1. login[p][k] \in LoginRecord /\ day \in Day
    BY DEF TypeOK
  <1>2. login[p][k].since \in Day
    BY <1>1 DEF LoginRecord
  <1> QED
    BY <1>1, <1>2, BoundAssumption DEF Day

LEMMA GrantKeeps ==
    ASSUME IInv, NEW p \in Process, NEW k \in Key, Grant(p, k) PROVE IInv'
  <1> USE DEF IInv
  <1>1. PICK d \in login[p][k].since .. day : Credit(k, d)
    BY DEF Grant
  <1>2. At(p, k, "grant") /\ Opens(p, k, TRUE) /\ UNCHANGED <<day, net>>
    BY DEF Grant
  <1>3. players[k].exists /\ RowInv(k)
    BY <1>2 DEF TypeOK, KeyInv
  <1>4. d \in Day /\ d <= day /\ d >= login[p][k].since
    BY Began
  <1>5. /\ players' \in [Key -> Player] /\ credited' \in [Key -> SUBSET Day]
        /\ Explained'
        /\ players'[k].exists /\ \A j \in Key \ {k} : players'[j] = players[j]
        /\ \A j \in Key : credited[j] \subseteq credited'[j]
        /\ \E c \in credited'[k] : c >= d
        /\ \A j \in Key : Dated(j) => Dated(j)'
    BY <1>1, <1>2, <1>3, <1>4, CreditKeeps
  <1>6. \E c \in credited'[k] : c >= login[p][k].since
    BY <1>4, <1>5 DEF TypeOK, LoginRecord, Day
  <1> QED
    BY <1>2, <1>5, <1>6, OpensKeeps

LEMMA GrantFailsKeeps ==
    ASSUME IInv, NEW p \in Process, NEW k \in Key, GrantFails(p, k) PROVE IInv'
  <1> USE DEF IInv
  <1>1. At(p, k, "grant") /\ Opens(p, k, FALSE) /\ UNCHANGED <<day, net>>
    BY DEF GrantFails
  <1>2. players[k].exists /\ RowInv(k)
    BY <1>1 DEF TypeOK, KeyInv
  <1>3. CASE UNCHANGED <<players, credited>>
    <2>1. /\ players' \in [Key -> Player] /\ credited' \in [Key -> SUBSET Day]
          /\ Explained'
          /\ \A j \in Key : Dated(j) => Dated(j)'
      BY <1>1, <1>3 DEF TypeOK, Explained, BalanceExplained, Dated, Newest
    <2>2. /\ players'[k].exists /\ \A j \in Key \ {k} : players'[j] = players[j]
          /\ \A j \in Key : credited[j] \subseteq credited'[j]
      BY <1>2, <1>3
    <2> QED
      BY <1>1, <2>1, <2>2, OpensKeeps
  <1>4. CASE \E d \in login[p][k].since .. day : Credit(k, d)
    <2>1. PICK d \in login[p][k].since .. day : Credit(k, d)
      BY <1>4
    <2>2. d \in Day /\ d <= day
      BY Began
    <2>3. /\ players' \in [Key -> Player] /\ credited' \in [Key -> SUBSET Day]
          /\ Explained'
          /\ players'[k].exists /\ \A j \in Key \ {k} : players'[j] = players[j]
          /\ \A j \in Key : credited[j] \subseteq credited'[j]
          /\ \A j \in Key : Dated(j) => Dated(j)'
      BY <1>1, <1>2, <2>1, <2>2, CreditKeeps
    <2> QED
      BY <1>1, <2>3, OpensKeeps
  <1> QED
    BY <1>3, <1>4 DEF GrantFails

-----------------------------------------------------------------------------
LEMMA RestartKeeps == ASSUME IInv, NEW p \in Process, Restart(p) PROVE IInv'
  <1> USE DEF IInv, Restart
  <1>1. NoLogin \in LoginRecord /\ NoLogin.since <= day
    BY Records
  <1>2. /\ login' \in [Process -> [Key -> LoginRecord]]
        /\ \A k \in Key : login'[p][k] = NoLogin
        /\ \A q \in Process \ {p} : \A k \in Key : login'[q][k] = login[q][k]
    BY <1>1 DEF TypeOK
  <1>3. TypeOK'
    BY <1>2 DEF TypeOK, At, NoLogin
  <1>4. Explained' /\ WelcomedOnce'
    BY DEF Explained, BalanceExplained, WelcomedOnce
  <1>5. CreditedSinceLogin'
    BY <1>2 DEF CreditedSinceLogin, At, NoLogin
  <1>6. ASSUME NEW j \in Key PROVE (RowInv(j) /\ LoginInv(j))'
    <2>1. RowInv(j)'
      BY DEF KeyInv, RowInv, Dated, Newest
    <2>2. \A q \in Process : Greets(q, j)' => Greets(q, j)
      BY <1>2 DEF Greets, At, NoLogin
    <2>3. \A q \in Process : login'[q][j].since <= day'
      BY <1>1, <1>2 DEF KeyInv, LoginInv
    <2> QED
      BY <2>1, <2>2, <2>3 DEF KeyInv, LoginInv
  <1> QED
    BY <1>3, <1>4, <1>5, <1>6 DEF KeyInv

LEMMA AdjustKeeps ==
    ASSUME IInv, NEW k \in Key, NEW amount \in Int, Adjust(k, amount) PROVE IInv'
  <1> USE DEF IInv, Adjust
  <1>1. /\ players[k] \in Player /\ net[k] \in Int
        /\ players'[k] = [players[k] EXCEPT !.balance = players[k].balance + amount]
        /\ net'[k] = net[k] + amount
        /\ \A j \in Key \ {k} : players'[j] = players[j] /\ net'[j] = net[j]
    BY DEF TypeOK
  <1>2. /\ players'[k] \in Player /\ players'[k].exists
        /\ players'[k].last_credit_date = players[k].last_credit_date
        /\ players'[k].balance = players[k].balance + amount
    BY <1>1 DEF Player
  <1>3. players' \in [Key -> Player] /\ net' \in [Key -> Int]
    BY <1>1, <1>2 DEF TypeOK
  <1>4. TypeOK'
    BY <1>1, <1>2, <1>3 DEF TypeOK, At
  <1>5. Explained'
    <2>2. Cardinality(credited[k]) \in Nat
      BY Counted DEF TypeOK
    <2>3. ASSUME Offset = 0
          PROVE  players'[k].balance =
                   StartingBalance + DailyCreditGrant * Cardinality(credited[k]) + net'[k]
      <3>1. players[k].balance =
                StartingBalance + DailyCreditGrant * Cardinality(credited[k]) + net[k]
        BY <2>3 DEF Explained, BalanceExplained
      <3>2. players[k].balance \in Int
        BY <1>1 DEF Player
      <3> DEFINE n == Cardinality(credited[k])
      <3>3. n \in Nat /\ DailyCreditGrant * n \in Int
        BY <2>2, CreditAssumption
      <3> HIDE DEF n
      <3> QED
        BY <1>1, <1>2, <3>1, <3>2, <3>3, CreditAssumption DEF n
    <2> QED
      BY <1>1, <2>3 DEF Explained, BalanceExplained
  <1>6. WelcomedOnce' /\ CreditedSinceLogin'
    BY DEF WelcomedOnce, CreditedSinceLogin, At
  <1>7. ASSUME NEW j \in Key PROVE RowInv(j)' /\ LoginInv(j)'
    BY <1>1, <1>2 DEF KeyInv, RowInv, Dated, Newest, LoginInv, Greets, At
  <1> QED
    BY <1>4, <1>5, <1>6, <1>7 DEF KeyInv

LEMMA MidnightKeeps == ASSUME IInv, Midnight PROVE IInv'
  <1> USE DEF IInv, Midnight
  <1>1. day' \in Day /\ day' = day + 1 /\ day \in Nat
    BY BoundAssumption DEF TypeOK, Day
  <1>2. TypeOK'
    BY <1>1 DEF TypeOK, At
  <1>3. Explained' /\ WelcomedOnce' /\ CreditedSinceLogin'
    BY DEF Explained, BalanceExplained, WelcomedOnce, CreditedSinceLogin, At
  <1>4. ASSUME NEW j \in Key PROVE RowInv(j)' /\ LoginInv(j)'
    <2>1. \A c \in credited[j] : c <= day'
      BY <1>1 DEF KeyInv, RowInv, Dated, Newest, TypeOK, Day
    <2>2. \A q \in Process : login[q][j].since <= day'
      BY <1>1 DEF KeyInv, LoginInv, TypeOK, LoginRecord, Day
    <2> QED
      BY <2>1, <2>2 DEF KeyInv, RowInv, Dated, Newest, LoginInv, Greets, At
  <1> QED
    BY <1>2, <1>3, <1>4 DEF KeyInv

LEMMA StepInv == ASSUME IInv, [Next]_vars PROVE IInv'
  <1>1. CASE UNCHANGED vars
    BY <1>1 DEF vars, IInv, TypeOK, Explained, BalanceExplained, WelcomedOnce, CreditedSinceLogin,
                KeyInv, RowInv, Dated, Newest, LoginInv, Greets, At
  <1>2. ASSUME NEW p \in Process, NEW k \in Key, LoginStep(p, k) PROVE IInv'
    BY <1>2, BeginKeeps, GetKeeps, CreateKeeps, GetOrCreateFailsKeeps, GrantKeeps,
       GrantFailsKeeps, LogoutKeeps DEF LoginStep
  <1>3. ASSUME NEW k \in Key, NEW amount \in Amount, Adjust(k, amount) \/ Adjust(k, -amount)
        PROVE  IInv'
    <2>1. amount \in Int /\ -amount \in Int
      BY AmountAssumption
    <2> QED
      BY <1>3, <2>1, AdjustKeeps
  <1> QED
    BY <1>1, <1>2, <1>3, RestartKeeps, MidnightKeeps DEF Next

-----------------------------------------------------------------------------
\* The inductive invariant holds in every time zone.
THEOREM Invariance == Spec => []IInv
  <1>1. Init => IInv
    BY InitInv
  <1>2. IInv /\ [Next]_vars => IInv'
    BY StepInv
  <1> QED
    BY <1>1, <1>2, PTL DEF Spec

\* Variables keep their types, and whoever is past getOrCreate has a row.
THEOREM TypeCorrect == Spec => []TypeOK
  <1>1. IInv => TypeOK
    BY DEF IInv
  <1> QED
    BY <1>1, Invariance, PTL

\* One daily credit for each day on which there was a login, at most, and no
\* credit, stake or payout lost (identity.go:79, players.sql.go:89).
THEOREM OneCreditADay == ASSUME Offset = 0 PROVE Spec => []BalanceExplained
  <1>1. IInv => BalanceExplained
    BY DEF IInv, Explained
  <1> QED
    BY <1>1, Invariance, PTL

\* A player is welcomed as new at most once (identity.go:107).
THEOREM OneWelcome == Spec => []WelcomedOnce
  <1>1. IInv => WelcomedOnce
    BY DEF IInv
  <1> QED
    BY <1>1, Invariance, PTL

\* A session whose credit was not in error has it (identity.go:83).
THEOREM SessionsCredited == Spec => []CreditedSinceLogin
  <1>1. IInv => CreditedSinceLogin
    BY DEF IInv
  <1> QED
    BY <1>1, Invariance, PTL

\* In any other zone every login that is not late for its day is credited, a
\* second one on the same day too: CURRENT_DATE AT TIME ZONE 'UTC' never is the
\* hour 0 that the column stands for (players.sql.go:95).
AlwaysDue == \A k \in Key : Due(k, day)
THEOREM ElsewhereAlwaysDue == ASSUME Offset # 0 PROVE Spec => []AlwaysDue
  <1>1. ASSUME IInv PROVE AlwaysDue
    <2> SUFFICES ASSUME NEW k \in Key, players[k].last_credit_date # NULL
                 PROVE  24 * players[k].last_credit_date < Stamp(day)
      BY DEF AlwaysDue, Due
    <2>1. PICK c \in Day : Newest(k, c)
      BY <1>1 DEF IInv, KeyInv, RowInv, Dated
    <2>2. c <= day /\ day \in Day
      BY <1>1, <2>1 DEF IInv, TypeOK, KeyInv, RowInv, Dated, Newest
    <2> QED
      BY <2>1, <2>2, Compared DEF Newest
  <1> QED
    BY <1>1, Invariance, PTL
=============================================================================
