# go-aviator in TLA+

go-aviator is a multiplayer crash game played over SSH. One goroutine, the
engine, runs the rounds; every SSH session has a terminal program that shows
the engine's snapshots and sends it bets and cashouts; PostgreSQL keeps the
rounds, the bets and the balances. This directory holds TLA+ models of that
code, TLC configurations that check them on small instances, and TLAPS proofs
of the main safety properties for all instances. Source lines below are
relative to the repository.

## Inventory

| Part | Source | State it keeps | Operations |
|---|---|---|---|
| Round engine | `internal/engine/engine.go`, `round.go` | `e.state`, round id, crash point, ticks, the map of participants | start a round, betting window, takeoff transaction, ticks, cashouts, crash, reveal, settlement, pause |
| Ledger | `migrations/`, `internal/db/*.sql.go` | rows of `rounds` and `bets`, `players.balance` | the engine's statements and two transactions; the screens' queries |
| Snapshot fan-out | `engine.go:435-461`, `tui/model.go:114` | one channel of 4 frames per subscriber | broadcast, `sendTo`, receive |
| Sessions | `internal/ssh/server.go`, `internal/auth/identity.go` | registry of active keys, inbox of 64 commands, `e.subs` | login, subscribe, play, quit, disconnect, unsubscribe, log out |
| Accounts | `identity.go`, `players.sql.go` | players, last daily credit | get or create, daily credit |
| Bet form, game screen | `tui/bet.go`, `tui/game.go` | typed values, queued bet, placed flag, maximum | type, submit, queue, auto-submit on a snapshot |
| Root program, screens | `tui/model.go`, `inspect.go`, `settings.go`, `leaderboard.go` | active screen, cursor, lists, pending answers | switch screens, query in the background, apply the answer |
| Fairness arithmetic | `internal/engine/fair.go` | none | draw the crash point, commit, verify |
| Rendering, store, main | `tui/graph.go`, `welcome.go`, `internal/store`, `cmd/server` | none | layout, migrations, wiring |

How they interact: sessions send commands into the engine's inbox (a blocking
send) and receive snapshots from a channel (the engine's send never blocks);
the engine alone writes rounds, bets and, except for the daily credit,
balances; the programs' background queries read the same tables. `e.subs` is
written by the engine goroutine only, `auth.Manager.active` by every session
under a mutex.

What is hard in it:

* a round lives in memory and in two transactions and five single statements,
  each of which can fail, or be applied with its answer lost, or be cut off by
  a crash of the process;
* the order inside a tick, and manual cashouts between two ticks;
* the outcome exists from the moment a round starts and must stay hidden until
  it crashes, while the engine starts a round with `e.state` still "crashed";
* commands wait in a bounded inbox that nobody reads during the settlement's
  five seconds, and the engine throws some of them away while idle;
* frames are dropped at full channels while the session is receiving;
* a session ends in two goroutines, both of which unsubscribe;
* the screens query in the background: an answer may come after its screen was
  left, or entered anew, or in another order than the questions;
* during a rolling update two processes, each with its own registry, serve one
  database, and a statement may begin before midnight and run after it.

What makes each part correct is stated with its module below. `PROJECT.json`
lists every hazard at its line with the properties that cover it.

## Modules

| Module | What it is |
|---|---|
| `Rules` | pure rules: payout, what is due at a tick, width of an INTEGER column |
| `Engine` | the engine goroutine and the ledger, one action per stretch of code between two places where something else can happen |
| `RoundLoop` | abstract: phases of a round and its audience; when a round may begin |
| `Ledger` | abstract: what the books promise the players |
| `EngineProps` | properties of `Engine`, the mappings to `RoundLoop` and `Ledger`, the inductive invariant |
| `MCEngine` | instance for TLC: the code's own first ticks, two players |
| `EngineProofs`, `LedgerProofs` | proofs about `Engine`; the refinement of `Ledger`, step by step |
| `LatestWins` | abstract: what the stream of snapshots promises one session |
| `Fanout` | `broadcast` and `sendTo`, one action per `select` |
| `MCFanout`, `FanoutProofs` | its instance, and proofs, refinement of `LatestWins` included |
| `Sessions` | connections, registry, programs, watchers, the inbox, and the engine as far as sessions depend on it; implements `RoundLoop` |
| `MCSessions` | its instance |
| `SessionsProofs` | proofs about `Sessions`, refinement of `RoundLoop` included |
| `BetForm` | one player's bet form, the snapshots and refreshed balances that drive it, and the engine as far as this player's bets depend on it |
| `BetFormProofs` | proofs about `BetForm` |
| `Screens` | the root program's history, settings and leaderboard screens and the statements they have under way |
| `ScreensProofs` | proofs about `Screens` |
| `Accounts` | logins, the players table and the daily credit, at two overlapping processes |
| `AccountsProofs` | proofs about `Accounts` |

`BetForm`, `Screens` and `Accounts` have no MC module: their configurations
give numbers and model values only.

### Engine

`pc` says where the goroutine is:

| `pc` | `e.state` | in the code |
|---|---|---|
| `wait` | idle | `waitForSubscribers`, blocked on the inbox |
| `hash` | idle or crashed | `startRound` between the INSERT and the assignment of `e.state` |
| `bet` | betting | the select of `runBetting` |
| `takeoff` | betting | `commitBetsAndTakeoff` before the COMMIT |
| `fly` | flying | the select of `runFlying` |
| `reveal`, `settle`, `pay` | crashed | `revealOutcome`; `runSettle` before `SettleRound`, and before its COMMIT |
| `pause` | crashed | the sleep of `runSettle` |

A command is an action of the place that reads the inbox; a command the code
ignores is a stuttering step. A bet or cashout that arrives while the inbox is
not read is one handled later, or ignored then. A statement takes one of three
replies: answered, not executed, executed with the answer lost
(`Statement`, `Executed`). The effects of a transaction appear at its COMMIT,
those of a statement sent outside it at once, which is how the code's
`e.sqlDB.ExecContext` and `e.db.SettleRound` inside the two transactions are
kept apart from `qtx`. `Restart` may happen anywhere and leaves the database.

Left out: names, the hidden flag, salt (part of the injective `Commit`),
timestamps, the countdown shown to players, log lines. The code
retries no statement, and neither does the model.

### Fanout

A snapshot is its number. The three selects of `sendTo` are three actions; a
session may receive between any two. The set of subscribers is fixed.

### Sessions

`prog[s]` follows the handler and then the program of a connection, `watch[s]`
the goroutine that waits for its end, `inbox` the commands under way. The
engine is reduced to four phases: it reads the inbox in idle, betting and
flying, and decides on a new round at the end of settling. A program handles
keys until it ends, those it had read before its connection ended included, so
that the watcher may have unsubscribed and logged out before its q is handled;
`late` marks an Unsubscribe sent then. `EngineFails` says whether SQL
statements fail. The connections of a key are numbered in the order in which
they log in, since nothing else tells them apart before.

### BetForm

The form's fields (`value`, `queued`, `placed`, `err`, `maxBet`) are those of
`betModel`; `TakeSnapshot` is `Update` on a `SnapshotMsg` (the form first, then
the query of the player's row), `Refresh` the answer of such a query, `Edit`,
`Escape`, `Enter` and `Space` the keys, on the game screen or, for snapshots
and answers, on any. What is typed is its value, 0 for whatever `parseValues`
cannot parse. The engine takes commands from an inbox it does not read during
a settlement; a statement of its own may fail when `EngineFails`, and an engine
that failed to start a round broadcasts a snapshot of its idle state
(`BeginFails`). Rounds are counted from the session's beginning. The stream
of snapshots is that of `LatestWins`: any number of the oldest frames may be
missing, so that the program may go from one betting window to the next
without seeing the flight between them; it may do so too because the takeoff
failed. `Prompt` excludes skipped windows and flights, so that a
counterexample does not rest on it. The balance at login is
`g.root.player.Balance`: `g.root` points to the `Model` local to `New`, which
nobody writes after `New` returned a copy of it; hence the constant `Login` in
`OpenForm` and `AutoSubmit`. `sentRound` is an observation of the model.

### Screens

`Screens` is `Update` of the root program and of three of its screens.
`queries` holds the statements under way, one per slot: `asked`, then
`answered` with what it returned or `failed`, then taken by the program
(`RoundsLoaded`, `BetsLoaded`, `PageLoaded`, `Saved`, `SaveFailed`,
`Refreshed`), which gives it to whatever screen is on. A screen is made anew
when it is entered, so one that is not on has no state; a statement still
under way from an earlier visit is marked `stray`, and `strayed` observes that
the screen that is on took the answer to such a one. An index past the end of
a list makes Bubble Tea recover and end the program; the model ends it too
(`OffList`, `Ends`). It comes to that only through the answer of an earlier
visit; see "Where documentation and code differ".

A history list is given by its first round, since it is always the newest
`Limit` completed ones in order; the rows of the leaderboard by how many they
are and how many players rank above them, beside the page number the screen
names; names are numbers, 0 for one that is refused. `Play` lets rounds
complete and players join the ranking under the screens.

### Accounts

`login[p][k]` follows a login of the key `k` at the process `p` through
`GetPlayerByFingerprint`, `CreatePlayer` and `GrantDailyCredit`. `credited`,
`net` and `welcomed` are observations: the dates on which credits were given,
what the engine added, how often the player was told to be new. The daily
credit is a single conditional UPDATE and so atomic, but `CURRENT_DATE` is the
date on which its transaction began: any from `since`, when the login sent it,
to the day it is executed. `Offset` is the time zone of the database session;
`CURRENT_DATE AT TIME ZONE 'UTC'` is modelled by the conversions it makes.

## Properties and runs

| Run | Configuration | Question | States |
|---|---|---|---|
| `books` | `MCEngineBooks.cfg` | two rounds with a failure and a crash | 315 816 |
| `live` | `MCEngineLive.cfg` | cashouts, and what must eventually happen | 178 651 |
| `fanout` | `MCFanout.cfg` | the snapshot stream | 1 120 |
| `sessions` | `MCSessions.cfg` | connections and the inbox | 97 195 |
| `betform` | `BetForm.cfg` | one player's bets | 2 747 458 |
| `screens` | `Screens.cfg` | late answers and the screens they meet | 806 560 |
| `accounts` | `Accounts.cfg` | two processes and the daily credit | 24 345 |
| `above_crash`, `settled_unpaid`, `parked` | `MCEngineAboveCrash.cfg`, `MCEngineSettledUnpaid.cfg`, `MCEngineParked.cfg` | documentation against code | violated |
| `stale_max`, `wrong_round` | `BetFormOverdraft.cfg`, `ScreensWrongRound.cfg` | comments against code | violated |

**books.** `BooksMatchMemory`: the round has no bet rows before the takeoff
commits, one per participant afterwards, each with its payout after the
settlement. `OutcomeHidden`, `BooksMoveTogether` (a balance moves by
exactly what its round's row changes by, so that it stays the sum of the whole
history), `HistoryAppendOnly`,
`ProvablyFair` (every commitment in the table is to the crash point its row was
inserted with, the one in play to the number the engine plays, and a flight
ends on the first tick that reaches it), `LoopSpec` (the engine implements
`RoundLoop`) and `LedgerSpec` (it implements `Ledger`: the stakes of a round
are taken together or not at all, so are its winnings paid, each at least the
stake, once, in the newest round only). `TypeOK` also says that `e.state` names
the code being run. Two rounds, because every hazard here is about what one
round does to the next or to the one before; two players, because a
transaction must treat them alike; one fault and one restart, anywhere. The
column of the crash points is scaled down to one that holds 1.00 and the
target, and not 1.20 (`Int32Limit`). The players' symmetry is used; the action properties and `RoundLoop`'s safety do
not tell players apart.

**live.** `PaidAsAgreed`: a cashout pays the bet times the agreed
multiplier, an automatic one its own target however far the tick overshot, one
by hand the multiplier on screen, which is below the crash point. What the
crash point is to an automatic one is another matter (`above_crash`).
`AutoCashoutHonoured`: after the crash no due automatic cashout was missed.
Then `StartedRoundSettles`, `AutoCashoutPaid` and `OpensForConnected`. Bounds:
two players, because cashouts of one can fall between cashouts of the other;
ticks 1.07, 1.15 and 1.23 as the code computes them; crash points 1.00 (the
floor, overshot by the first tick) and 1.20 (between two ticks); targets 1.05
(passed by the first tick, above the first crash point) and 1.18 (due on the
very tick of the crash). Bets without a target are in `above_crash` and in the
theorems; a cashout by hand comes before the target here.
Fairness: weak fairness of the engine's own steps. Both selects have
a timer among their cases and no statement is assumed to block for ever, so
the goroutine always goes on; no fairness is assumed of players. Statements do
not fail and the process stays up here: what a failure does to liveness is the
subject of `parked`, and a restart in flight leaves a round that nobody
settles and automatic cashouts that never fire, because `New` reads nothing
back (set `MaxCrashes = 1` and `AutoCashoutPaid` fails). That payments are as
agreed whatever fails is a theorem (`Payments`, `DueCashoutsFire`).

**fanout.** `DropsOnlyStale`: the third select finds room (`NewFrameFits`),
frames stay in order (`InOrder`) and the newest is not among those dropped
(`NewestKept`); `BroadcastEnds` and `ReaderStream` under fairness of the engine and of ONE reader, while the
other may never read. Channels of two frames (the code has four) can be empty,
partly read and full at each select; five frames overrun them twice.
`CHECK_DEADLOCK FALSE`: the model stops after its last frame.

**sessions.** `OneSessionPerKey`, `NoDeadSubscription`, `LoopSpec`, and the
liveness properties `Departs`, `GetsServed` (every login ends in a subscription
unless it fails or the player leaves) and `ComesToRest`. `StaysSubscribed`:
while a session is up and connected, the engine reads nothing that ends its
subscription, with one exception, which the model has and the property names: a
q handled after an earlier connection of the key had ended. Three connections, two of one player (the second may arrive
while the first is leaving) and one of another; an inbox of two commands (the
code has 64) is full easily, which is the interesting case. Fairness: strong
for the engine's reading, because it stops reading during each settlement but
reads again in every round; strong for the sends of handlers and watchers,
because Go serves the senders blocked on a channel in order; weak for the
timers. `CHECK_DEADLOCK FALSE`: every connection of the instance ends.
`EngineFails` is FALSE in this run: with TRUE the code keeps neither
`NoDeadSubscription` nor `ComesToRest`.

**betform.** `OneBetPerRound`: whatever is typed, queued, confirmed twice,
skipped or answered late, one bet is sent for each round seen.
`QueueServed`: a queued bet leaves the queue only by being sent, by a message
that refuses it, or by Escape; and it leaves it at the latest when the screen
comes to a betting window from anything but a window.
`SentIsEntered`: a bet sent for the open window is in the map once the inbox
is read; a bet that came too late for its own round may, after waiting through
the settlement, be entered in the next one and take the place of the bet sent
for it, which is why the property asks for some entry, not for this one. Two
rounds are needed for a placed flag, a late bet or a late frame of one to meet
the window of the next, and two are enough because the form remembers one:
`MaxRounds = 2`. Stakes: none, one the balance at
login covers, one only a win covers. A channel of two frames skips some and
delivers others late; an inbox of two holds a late bet and the next one, or is
full. One query at a time here; two, answered in either order, in
`stale_max`, where the player sees every window (`Prompt`) and no statement
fails. `CHECK_DEADLOCK FALSE`: nothing happens once the last round is over and
the player stops typing.

**screens.** `WaitsForAnswer`: a screen that says it is loading or saving has
a statement under way that will release it. `DetailMatches`: the bets shown
are those of the round shown. `PageInRanking`: however fast the page keys are
pressed while a page loads and in whatever order the pages come, the rows of
the leaderboard are those of the page it names, the cursor is on one of them,
and no page is asked for that begins behind the end of the ranking (the empty
one behind a full last page is asked for).
`SaveShown`: the settings close exactly on the name that was typed, and show
the flag that was saved. `LoadingEnds`, under fairness. The parts about the
history and the settings are guarded by `~strayed`: once a screen took the
answer to a statement of an earlier visit the code does not keep them, which
is the subject of `wrong_round`. Two statements under way are what it takes for
one to overtake the other; a list of two rows, of one or two rounds, has a
first row, a last one, and a round that completes while the list is open; three
or four ranked players at two a page give two pages of players, the second one
full or not, and an empty one behind it. Fairness: weak, for each statement, of its
execution or failure and of the program's taking the answer, because the
statements have no lock to wait for and Bubble Tea's loop takes every message;
nobody must press a key. `CHECK_DEADLOCK FALSE`: the program ends.

**accounts.** `BalanceExplained`: a balance is the starting balance, one daily
credit for each date one was given on, and what the engine added.
`WelcomedOnce`: two first logins do not both create the row.
`CreditedSinceLogin`: a session whose credit was not in error has the credit
of the day it logged in or of a later one. One key, because rows of different
keys do not touch; two processes, as in a rolling update, since one process
has at most one login of a key (`OneSessionPerKey`); three days, so that a
statement begun on one is executed on the next with another login's credit
between; `MaxNet` bounds what the engine adds, which nothing here reads.

### Where documentation and code differ

Each violated run checks one sentence of the repository's README or of a
comment and finds the code doing otherwise; `PROJECT.json` quotes them.

* `above_crash`: README.md:23 has the plane fly away at the pre-determined
  multiplier and whoever is still in lose. An automatic cashout is compared
  with the tick, before the crash is: one tick may pass both, and the target is
  paid though it lies above the crash point. With the code's ticks a target of
  1.05 is paid in every round, the instant crash of `fair.go:17` included,
  since the first tick is 1.07.
* `settled_unpaid`: `SettleRound` is sent outside the payouts' transaction.
* `parked`: one failed statement parks the engine until a new connection.
* `stale_max`: when a window opens, the form's maximum becomes the balance at
  login instead of the current one; a queued bet is sent at once, the engine
  debits it unchecked.
* `wrong_round`: the answer to the history query carries no tag, unlike that to
  the bets query. One asked for in an earlier visit replaces the list under an
  open detail, which then names another round than its bets are of.

More of the kind can be seen in the models without a run of its own:

* "Once revealed, any player can recompute the hash" (README.md:53), but a
  failed UPDATE of the commitment is only logged, and the round is played and
  revealed with `pending` in its row; and a crash point above 2^31-1, which
  `sampleCrash` returns about once in twenty million rounds, wraps around in
  `int32(e.crashBP)`, so that the row is not what its hash commits to. `Verifies`
  fails on the configuration of `books`, whose column one crash point does not
  fit; `HistoryVerifies` is its proof for columns that are wide enough.
* After a crash in flight nobody settles the round, because `New` reads
  nothing back: with `MaxCrashes = 1` the run `live` fails on
  `AutoCashoutPaid`.
* Unsubscribe names the player, not the subscription. A program that handles a
  q after its connection ended, when the watcher has unsubscribed and logged
  out and the player is back, sends a second one, which removes the new
  session's subscription: without its exception `StaysSubscribed` fails in the
  run `sessions`.
* "confirmed for next round" (bet.go:30), but the queue is served only when the
  screen comes to a window from another state. If the frames between two
  windows are skipped, or the takeoff fails and the next round begins with
  nothing broadcast between, the window goes by, `placedThisRound` stays set
  and the bet waits for the round after it.
* "Open round detail in history" (README.md:40), but Enter can end the session.
  History opened and left while its query runs, opened again, a round completed
  meanwhile, the second answer taken, the cursor moved to the last row, and the
  first, shorter list arrives: the cursor is past its end, and the next Enter
  indexes there (inspect.go:123). The answer to a bets query does so as well
  (inspect.go:99). The model takes these steps to `Ends`.
* An engine that idles because a statement failed throws Unsubscribes away:
  with `EngineFails = TRUE` the run `sessions` fails on `NoDeadSubscription`
  and `ComesToRest`.
* A queued bet refused when the window opens leaves `placedThisRound` of the
  round before: `AutoSubmit` does not touch it, and Enter then queues instead
  of submitting.
* In a database session that is not in UTC the two sides of the daily credit's
  comparison are not the same date: with `Offset = 2` the run `accounts` fails
  on `BalanceExplained`, for every login is granted a credit.

### Mutants

For every property of a passing run a faulty variant of one definition stands
just before the definition: the bug the property is there to catch (a check in
the wrong order, a missing WHERE, a debit outside its transaction, a blocking
send, a watcher that forgets to unsubscribe). Replacing the definition by its
variant makes TLC report the property violated; `PROJECT.json` ("mutants")
lists the pairs. No specification uses the variants.

## Proofs

Each proof module has one inductive invariant, `IInv`, proved by a lemma per
action (or per part of it and action), and theorems that follow from it. All
of it is for every value of the constants that satisfies the assumptions named
in the component's module.

| Module | Theorems |
|---|---|
| `EngineProofs` | `Invariance`, `TypeCorrect`, `Secrecy`, `Payments`, `DueCashoutsFire`, `BooksAgree`, `Bookkeeping`, `History`, `ImplementsRoundLoop`, `Fairness`, `HistoryVerifies`, `RoundsAreBounded`, `ProductsFit` |
| `LedgerProofs` | `ImplementsLedger`, `BalancesAreHistory` |
| `FanoutProofs` | `TypeCorrect`, `NewFrameAlwaysFits`, `FramesInOrder`, `NewestNeverDropped`, `OnlyStaleDropped`, `StreamsRefine`, `BroadcastsAreBounded` |
| `SessionsProofs` | `TypeCorrect`, `OneSession`, `SubscriptionsEnd`, `StaySubscribed`, `ImplementsRoundLoop` |
| `BetFormProofs` | `TypeCorrect`, `BetEnters`, `OneBet`, `QueueIsServed`, `SeenInOrder`, `EngineIsRoundLoop` |
| `ScreensProofs` | `TypeCorrect`, `NobodyWaitsForNothing`, `DetailsMatch`, `PagesExist`, `SavesAreShown` |
| `AccountsProofs` | `TypeCorrect`, `OneCreditADay`, `OneWelcome`, `SessionsCredited`, `ElsewhereAlwaysDue` |

Every invariant and every action property of the passing runs is stated by one
of them.

**Engine.** Assumptions: bets are positive, targets are 0 or above 1.00x (the
form refuses less than 1.01), crash points are at least 1.00x, and the curve
starts at 1.00x, does not decrease and reaches every crash point within
`MaxTicks`. None of the invariants is inductive alone. `PaidAsAgreed` needs
that the multiplier in flight has not passed the crash point (`BeforeFlight`)
and that nothing is written to a participant before its cashout
(`RecordsClean`). `BooksMatchMemory` needs which participants have a bet id in
each phase: none in the betting, all once the takeoff's statements are sent
(`BeforeFlight`). `OutcomeHidden` needs that the row's state lags behind but
never runs ahead (`RowFollows`). `IInv` is their conjunction. The action
properties follow from `IInv` in the state before: a COMMIT writes stakes into
rows that were empty, and payouts into rows that had none, so balance and rows
change by the same amount, player by player.

`Fairness` (`Spec => []ProvablyFair`) rests on `FairInv`, inductive on top of
`IInv`: in flight no tick so far has reached the crash point. It holds
whatever fails, the commitment's UPDATE included. `HistoryVerifies` adds the
assumption that crash points fit the column: then each commitment that was
stored is found again by hashing what the row says.

`ImplementsLedger` maps the engine's map of participants to what was agreed
and the table of bets to the books. Most steps stutter or are one abstract
step; the proof has a lemma per kind of step. It needs of `IInv` what a page of
the books looks like in each phase (`PageOfPhase`), and of the payments that a
multiplier is never below 1.00x, so that a payout covers its stake
(`PayoutCoversStake`, with the code's integer division).

`BalancesAreHistory` turns the two action properties into a statement about
states. A sum over the rounds would be an induction over data, which the
prover cannot do, so the partial sums are given by a witness: there is a
function from the rounds so far to numbers that begins with the starting
balance, adds each round's net, and ends with the balance. A step raises the
terms from the current round on, or repeats the last one.

`RoundsAreBounded` is the safety half of `StartedRoundSettles`: a count of the
steps left in the round goes down with each step of the engine and is not
touched by any command. `ProductsFit` bounds the product in `settleCashout` by
that of the stake and the last multiplier of the longest flight.

**Fanout.** For every set of subscribers and every capacity, and each
subscriber's stream implements the safety part of `LatestWins`. The invariant
is the conjunction of the three with `TypeOK`, which knows that the second and
third select serve a subscriber not yet served: the engine is the only sender,
so the room the drain makes is still there. `BroadcastsAreBounded`, for finite
sets of subscribers, counts the selects left in the broadcast.

**Sessions.** `IInv` has three parts. `Registered`: types, watchers go with
programs (`Watched`), and `OneSessionPerKey`. `SubscribedLast`: of the commands
of a player in the inbox, late ones aside, the Subscribe
of the session that is up comes last; it is what keeps the Unsubscribe of the
session before from taking its subscription. `Withdrawn`, if no statement
fails: each subscription, made or on its way, has a waiting watcher or an
Unsubscribe behind it in the inbox, and an idle engine has none.
`SubscriptionsEnd` assumes `~EngineFails`, as the code does not keep it
otherwise; the other theorems assume nothing of it, and `StaySubscribed` holds
for late keys as well.

**BetForm.** `InOrder`: number the moments of the rounds (`Place`, four to a
round); the snapshots on their way are strictly increasing, after the one on
screen and not after the engine, whichever were skipped. `Remembered`: a bet
sent in the window on screen has set `placed`, which is cleared only when a
later window opens. `UnderWay`: the bet of the open window is in the map or in
the inbox. The theorems hold whether or not statements fail and for any number
of queries under way. `EngineIsRoundLoop` shows that the engine of this model
goes through the phases as the detailed one does.

**Screens.** `Statements`: what each statement asks for and returned.
`Listing`, `DetailBets`, `SavesShown`, `BoardInRange`: for each screen, how the
statements of this visit go with what is shown: one list is asked for, once,
and until it comes nothing else happens on the screen; bets are under way for
the round under the cursor or shown; one save is under way and it saves what is
shown; the rows are those of the page on the screen. `PagesInRange` needs that
the ranking never shrinks.

**Accounts.** The invariant holds in every time zone of the database session.
`Dated`: the column holds what the newest of the credits given left there
(`Newest`), and none is ahead of its day. `Compared`: which statement finds
that credit too old, in UTC and elsewhere. `LoginInv`: at most one login of a
key is on its way to greet the player, and only if nobody has, because
`CreatePlayer` succeeds once. Only `OneCreditADay` needs UTC (`Offset = 0`, as
in the deployment's stock PostgreSQL image): there a grant that is due gives a
date not given before, and the count of dates (a lemma on cardinality) goes up
by one with the balance. `ElsewhereAlwaysDue` shows that the assumption is
needed: with any other offset the credit is due at every login.

Only model-checked: liveness, which is out of the prover's reach (the run
`live`, `BroadcastEnds` and the fairness part of `ReaderStream`, `Departs`,
`GetsServed`, `ComesToRest`, `LoadingEnds`), and what the violated runs show.

## Not modelled

* The distribution of crash points and the exponential (floating point),
  SHA-256 (an injective function instead). The inspect screen's verification
  of a round is a property (`Verifies`), not a step.
* Rendering; the store and its migrations; `cmd/server` and the deployment,
  except for the restart of a process (`Engine`, `Accounts`).
* Timestamps and the countdown; names (but for the settings screen) and error
  texts; the strip of recent crashes, the player's standing and the multipliers
  drawn in the graph, which are shown and read by nothing; the window's size.
* What the rows of the leaderboard say: ranks and sums.
* The width of payouts and balances. They are unbounded here; in the code
  `p.Amount * int64(multBP)` may overflow 64 bits for stakes of twenty million
  credits at the largest crash point `sampleCrash` returns (`ProductsFit`). The
  INTEGER columns' width is modelled (`Int32`).
* The snapshot that greets a new subscriber in `Fanout`: it goes into a channel
  nobody has written to.

What would come next: payouts at a scaled-down width against `PayoutOf`,
subscribers that come and go during a broadcast in `Fanout`, and `BetForm`
composed with `Screens`, whose answers go to either.
