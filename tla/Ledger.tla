------------------------------- MODULE Ledger -------------------------------
(***************************************************************************)
(* What the game's ledger promises the players (README.md, "Durability     *)
(* boundary"), whatever statement fails and whenever the process dies: the *)
(* stakes of a round are taken together, all of those accepted and no      *)
(* other, or none is; so are its winnings paid, each at least the stake;   *)
(* both once at most, in the newest round only; and no balance moves       *)
(* otherwise.                                                              *)
(*                                                                         *)
(* Engine.tla implements this with its transactions.                       *)
(***************************************************************************)
EXTENDS Integers, Sequences

CONSTANT Player

VARIABLES
    open,       \* bets are taken
    accepted,   \* accepted[p]: the stake of the bet p has placed, 0 for none
    won,        \* won[p]: what the round owes p, 0 for nothing
    books,      \* books[r][p]: what is recorded of p in round r
    balance

vars == <<open, accepted, won, books, balance>>

Nothing == [p \in Player |-> 0]
Entry == [stake : Nat, payout : Nat]
Blank == [p \in Player |-> [stake |-> 0, payout |-> 0]]

\* The stakes and the winnings of the round, as they are recorded.
Taken == [p \in Player |-> [stake |-> accepted[p], payout |-> 0]]
Paid == [p \in Player |-> [stake |-> accepted[p], payout |-> won[p]]]

Newest == Len(books)
NewestIs(page) == books # <<>> /\ books[Newest] = page

Init ==
    /\ ~open
    /\ accepted = Nothing /\ won = Nothing
    /\ books = <<>>
    /\ balance \in [Player -> Int]

\* A round begins; or cannot, or the process dies: what was agreed is void.
Begin ==
    /\ open' \in BOOLEAN
    /\ accepted' = Nothing /\ won' = Nothing
    /\ books' \in {books, Append(books, Blank)}
    /\ UNCHANGED balance

Bet(p) ==
    /\ open
    /\ NewestIs(Blank) /\ won = Nothing
    /\ accepted[p] = 0 /\ accepted'[p] \in Nat \ {0}
    /\ accepted' = [accepted EXCEPT ![p] = accepted'[p]]
    /\ UNCHANGED <<open, won, books, balance>>

\* The window closes: the stakes are taken, or there are none, or they cannot.
Take ==
    /\ open /\ ~open'
    /\ NewestIs(Blank)
    /\ books' = [books EXCEPT ![Newest] = Taken]
    /\ balance' = [p \in Player |-> balance[p] - accepted[p]]
    /\ UNCHANGED <<accepted, won>>
Close ==
    /\ open /\ ~open'
    /\ UNCHANGED <<accepted, won, books, balance>>

\* Some of those whose stake was taken win.
Win ==
    /\ ~open
    /\ NewestIs(Taken)
    /\ won' \in [Player -> Nat]
    /\ \A p \in Player : won'[p] # won[p] =>
           won[p] = 0 /\ accepted[p] > 0 /\ won'[p] >= accepted[p]
    /\ UNCHANGED <<open, accepted, books, balance>>

Pay ==
    /\ ~open
    /\ NewestIs(Taken)
    /\ books' = [books EXCEPT ![Newest] = Paid]
    /\ balance' = [p \in Player |-> balance[p] + won[p]]
    /\ UNCHANGED <<open, accepted, won>>

Next == Begin \/ Take \/ Close \/ Win \/ Pay \/ \E p \in Player : Bet(p)

Spec == Init /\ [][Next]_vars
=============================================================================
