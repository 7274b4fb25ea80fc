------------------------------- MODULE Rules -------------------------------
(***************************************************************************)
(* The pure rules of a round: what a cashed-out bet pays, whose automatic  *)
(* cashout is due at a multiplier, and what an INTEGER column keeps of a   *)
(* number.  Multipliers are in basis points, 100 being 1.00x.  Nothing     *)
(* here has state: Engine.tla calls these operators.                       *)
(*                                                                         *)
(* A participant is a record of the engine's map.  The record of a player  *)
(* who is not in the map has amount 0: the bet form sends no amount below  *)
(* 1 (internal/tui/bet.go:94-96).                                          *)
(***************************************************************************)
EXTENDS Integers

\* Go's int32(x), where limit is 2^31.
Int32(x, limit) == ((x + limit) % (2 * limit)) - limit

Absent == [amount |-> 0, target |-> 0, booked |-> FALSE,
           cashedOut |-> FALSE, mult |-> 0, payout |-> 0]

Joined(part) == part.amount > 0

\* A bet as PlaceBet leaves it: not in the bets table, not cashed out.
FreshBet(amount, target) ==
    [amount |-> amount, target |-> target, booked |-> FALSE,
     cashedOut |-> FALSE, mult |-> 0, payout |-> 0]

\* Integer credits: the fraction of a credit is dropped.
PayoutOf(amount, bp) == (amount * bp) \div 100

CashedOutAt(part, bp) ==
    [part EXCEPT !.cashedOut = TRUE, !.mult = bp, !.payout = PayoutOf(part.amount, bp)]

\* A target of 0 is "manual only".
AutoDue(part, bp) ==
    Joined(part) /\ ~part.cashedOut /\ part.target > 0 /\ bp >= part.target

\* One tick's loop over the map: everyone due is paid at the configured
\* target, never at the multiplier the tick happened to reach (as the faulty
\* variant has it).
AutoCashoutsAtTick(parts, bp) ==
    [p \in DOMAIN parts |->
        IF AutoDue(parts[p], bp) THEN CashedOutAt(parts[p], bp) ELSE parts[p]]
AutoCashouts(parts, bp) ==
    [p \in DOMAIN parts |->
        IF AutoDue(parts[p], bp) THEN CashedOutAt(parts[p], parts[p].target) ELSE parts[p]]
=============================================================================
