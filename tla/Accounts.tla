------------------------------ MODULE Accounts ------------------------------
(***************************************************************************)
(* Logins and the players table: Login and getOrCreate of                  *)
(* internal/auth/identity.go, the statements of internal/db/players.sql.go *)
(* and the engine's changes of a balance.                                  *)
(*                                                                         *)
(* A process has at most one login or session of a key (Sessions.tla); a   *)
(* rolling update overlaps two processes, each with its own registry.  A   *)
(* statement is executed at one moment, but it begins earlier: its date is *)
(* any from when it may have begun.  Every statement may fail, or be       *)
(* executed and its answer be lost, or its connection hang up, which       *)
(* cancels it.                                                             *)
(*                                                                         *)
(* Days are numbered from 1.  Faulty variants stand before their           *)
(* definitions (README.md, "Mutants").                                     *)
(***************************************************************************)
EXTENDS Integers, FiniteSets

CONSTANTS
    Key,
    Process,
    StartingBalance, DailyCreditGrant,
    Amount,      \* stakes and payouts
    Offset,      \* hours the database session's time zone is ahead of UTC
    MaxDays,     \* bound: days
    MaxNet       \* bound: what the engine adds to a balance in total

ASSUME CreditAssumption == StartingBalance \in Nat /\ DailyCreditGrant \in Nat
ASSUME AmountAssumption == Amount \subseteq Nat
ASSUME OffsetAssumption == Offset \in (-12) .. 14
ASSUME BoundAssumption == MaxDays \in Nat \ {0} /\ MaxNet \in Nat

VARIABLES
    day,        \* the date in the database session's time zone
    players,    \* players[k]: the row of the key, or NoPlayer
    login,      \* login[p][k]: the login or session of k at the process p
    \* what the model watches
    credited,   \* credited[k]: the dates of the daily credits given
    net,        \* net[k]: what the engine added
    welcomed    \* welcomed[k]: logins that were told the player is new

vars == <<day, players, login, credited, net, welcomed>>

Day == 1 .. MaxDays
NULL == -1
NoPlayer == [exists |-> FALSE, balance |-> 0, last_credit_date |-> NULL]
NewPlayer == [exists |-> TRUE, balance |-> StartingBalance, last_credit_date |-> NULL]

\* since: the first date GrantDailyCredit may have begun on; isNew: as returned
\* by Login; answered: GrantDailyCredit returned a row or sql.ErrNoRows.
NoLogin == [step |-> "none", since |-> 1, isNew |-> FALSE, answered |-> FALSE]

Init ==
    /\ day = 1
    /\ players = [k \in Key |-> NoPlayer]
    /\ login = [p \in Process |-> [k \in Key |-> NoLogin]]
    /\ credited = [k \in Key |-> {}]
    /\ net = [k \in Key |-> 0]
    /\ welcomed = [k \in Key |-> 0]

-----------------------------------------------------------------------------
At(p, k, step) == login[p][k].step = step
Becomes(p, k, l) == login' = [login EXCEPT ![p][k] = l]
Goes(p, k, step) == Becomes(p, k, [NoLogin EXCEPT !.step = step])
GoesToGrant(p, k, isNew) ==
    Becomes(p, k, [step |-> "grant", since |-> day, isNew |-> isNew, answered |-> FALSE])

\* Login registers the key; a second login of it is refused.
Begin(p, k) ==
    /\ At(p, k, "none")
    /\ Goes(p, k, "get")
    /\ UNCHANGED <<day, players, credited, net, welcomed>>

\* Login returns an error, or Logout, or the process is gone: the key is free.
End(p, k) == Becomes(p, k, NoLogin)

\* GetPlayerByFingerprint.
GetTrusting(p, k) ==
    /\ At(p, k, "get")
    /\ GoesToGrant(p, k, ~players[k].exists)
    /\ UNCHANGED <<day, players, credited, net, welcomed>>
Get(p, k) ==
    /\ At(p, k, "get")
    /\ IF players[k].exists THEN GoesToGrant(p, k, FALSE) ELSE Goes(p, k, "create")
    /\ UNCHANGED <<day, players, credited, net, welcomed>>

\* CreatePlayer: pubkey_fingerprint is UNIQUE, a second INSERT fails.
CreateUpserts(p, k) ==
    /\ At(p, k, "create")
    /\ players' = [players EXCEPT ![k] = IF @.exists THEN @ ELSE NewPlayer]
    /\ GoesToGrant(p, k, TRUE)
    /\ UNCHANGED <<day, credited, net, welcomed>>
Create(p, k) ==
    /\ At(p, k, "create")
    /\ ~players[k].exists
    /\ players' = [players EXCEPT ![k] = NewPlayer]
    /\ GoesToGrant(p, k, TRUE)
    /\ UNCHANGED <<day, credited, net, welcomed>>

\* Either statement fails; CreatePlayer may have been executed.
GetOrCreateFails(p, k) ==
    /\ At(p, k, "get") \/ At(p, k, "create")
    /\ players' \in {players} \cup
           (IF At(p, k, "create") /\ ~players[k].exists
            THEN {[players EXCEPT ![k] = NewPlayer]} ELSE {})
    /\ End(p, k)
    /\ UNCHANGED <<day, credited, net, welcomed>>

-----------------------------------------------------------------------------
(* GrantDailyCredit of a statement that began on the date d.               *)

\* CURRENT_DATE AT TIME ZONE 'UTC' is a time: the hour in UTC at which the
\* date begins.  It is cut to a date when it is stored in the column, and the
\* column is the hour 0 of its date when it is compared.
Stamp(d) == 24 * d - Offset
DateOf(stamp) == stamp \div 24

DueUnlessNew(k, d) == players[k].last_credit_date # NULL /\ 24 * players[k].last_credit_date < Stamp(d)
DueAlways(k, d) == players[k].exists
Due(k, d) ==
    \/ players[k].last_credit_date = NULL
    \/ 24 * players[k].last_credit_date < Stamp(d)

WithCredit(row, d) ==
    [exists |-> TRUE, balance |-> row.balance + DailyCreditGrant,
     last_credit_date |-> DateOf(Stamp(d))]

Credit(k, d) ==
    IF Due(k, d)
    THEN /\ players' = [players EXCEPT ![k] = WithCredit(@, d)]
         /\ credited' = [credited EXCEPT ![k] = @ \cup {d}]
    ELSE UNCHANGED <<players, credited>>

\* Login returns whatever the credit's outcome; its error is ignored.
Opens(p, k, answered) ==
    /\ Becomes(p, k, [step |-> "open", since |-> login[p][k].since,
                      isNew |-> login[p][k].isNew, answered |-> answered])
    /\ welcomed' = [welcomed EXCEPT ![k] = IF login[p][k].isNew THEN @ + 1 ELSE @]

Grant(p, k) ==
    /\ At(p, k, "grant")
    /\ \E d \in login[p][k].since .. day : Credit(k, d)
    /\ Opens(p, k, TRUE)
    /\ UNCHANGED <<day, net>>

GrantFails(p, k) ==
    /\ At(p, k, "grant")
    /\ \/ UNCHANGED <<players, credited>>
       \/ \E d \in login[p][k].since .. day : Credit(k, d)
    /\ Opens(p, k, FALSE)
    /\ UNCHANGED <<day, net>>

-----------------------------------------------------------------------------
\* The session ends and its watcher logs the key out.
Logout(p, k) ==
    /\ At(p, k, "open")
    /\ End(p, k)
    /\ UNCHANGED <<day, players, credited, net, welcomed>>

\* The process ends, and with it its registry.
Restart(p) ==
    /\ login' = [login EXCEPT ![p] = [k \in Key |-> NoLogin]]
    /\ UNCHANGED <<day, players, credited, net, welcomed>>

\* AdjustBalance: the engine's debits and payouts, of a player in a round,
\* who may have left.
Adjust(k, amount) ==
    /\ players[k].exists
    /\ net[k] + amount \in (-MaxNet) .. MaxNet
    /\ players' = [players EXCEPT ![k].balance = @ + amount]
    /\ net' = [net EXCEPT ![k] = @ + amount]
    /\ UNCHANGED <<day, login, credited, welcomed>>

Midnight ==
    /\ day < MaxDays
    /\ day' = day + 1
    /\ UNCHANGED <<players, login, credited, net, welcomed>>

-----------------------------------------------------------------------------
LoginStep(p, k) ==
    \/ Begin(p, k) \/ Get(p, k) \/ Create(p, k) \/ GetOrCreateFails(p, k)
    \/ Grant(p, k) \/ GrantFails(p, k) \/ Logout(p, k)

Next ==
    \/ \E p \in Process, k \in Key : LoginStep(p, k)
    \/ \E p \in Process : Restart(p)
    \/ \E k \in Key, amount \in Amount : Adjust(k, amount) \/ Adjust(k, -amount)
    \/ Midnight

Spec == Init /\ [][Next]_vars

-----------------------------------------------------------------------------
Player == [exists : BOOLEAN, balance : Int, last_credit_date : Int]
LoginRecord == [step : {"none", "get", "create", "grant", "open"}, since : Day,
                isNew : BOOLEAN, answered : BOOLEAN]

\* Types; whoever is past getOrCreate has a row.
TypeOK ==
    /\ day \in Day
    /\ players \in [Key -> Player]
    /\ login \in [Process -> [Key -> LoginRecord]]
    /\ credited \in [Key -> SUBSET Day]
    /\ net \in [Key -> Int]
    /\ welcomed \in [Key -> Nat]
    /\ \A p \in Process, k \in Key : At(p, k, "grant") \/ At(p, k, "open") => players[k].exists

\* "credits per UTC day" (identity.go:16): a balance is the starting balance,
\* one daily credit for each date on which one was given, and what the engine
\* added, whatever logins of two processes, midnights, lost answers and rounds
\* come between.
BalanceExplained ==
    \A k \in Key : players[k].exists =>
        players[k].balance =
            StartingBalance + DailyCreditGrant * Cardinality(credited[k]) + net[k]

\* A player is new once: two first logins at a time do not both create the row
\* and show the welcome screen.
WelcomedOnce == \A k \in Key : welcomed[k] <= 1

\* A session whose credit was not in error has the credit of the day it logged
\* in or of a later one, its own or that of another login.
CreditedSinceLogin ==
    \A p \in Process, k \in Key :
        At(p, k, "open") /\ login[p][k].answered =>
            \E d \in credited[k] : d >= login[p][k].since
=============================================================================
