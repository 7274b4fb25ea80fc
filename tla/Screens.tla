------------------------------- MODULE Screens -------------------------------
(***************************************************************************)
(* The root program of one session (Update in internal/tui/model.go) and   *)
(* its history, settings and leaderboard screens (inspect.go, settings.go, *)
(* leaderboard.go).                                                        *)
(*                                                                         *)
(* Keys and answers are handled one at a time, while the statements run in *)
(* the background: an answer may come late, in any order, after its screen *)
(* was left or entered anew, or say that the statement failed.  A screen   *)
(* is made anew when it is entered; one that is not on has no state here.  *)
(*                                                                         *)
(* The history list is the newest Limit completed rounds, newest first: it *)
(* is given by its first.  Completed rounds are numbered as they complete. *)
(* A page of the leaderboard is its number of rows, which follow in rank   *)
(* on the first `above' players.  A name is a number, 0 for one that is    *)
(* refused (blank, or too long).                                           *)
(*                                                                         *)
(* Faulty variants stand before their definitions (README.md, "Mutants").  *)
(***************************************************************************)
EXTENDS Integers

CONSTANTS
    Name,         \* what can be typed into the name field
    Limit,        \* rounds in the history list
    PageSize,     \* leaderboardPageSize
    MinRounds, MaxRounds,    \* bound: completed rounds, at first and at last
    MinRanked, MaxRanked,    \* bound: players with a bet
    MaxQueries    \* bound: statements under way

ASSUME NameAssumption == Name \subseteq Nat
ASSUME SizeAssumption == Limit \in Nat \ {0} /\ PageSize \in Nat \ {0}
ASSUME BoundAssumption ==
    /\ MinRounds \in Nat /\ MaxRounds \in Nat
    /\ MinRanked \in Nat /\ MaxRanked \in Nat
    /\ MaxQueries \in Nat

VARIABLES
    screen,      \* m.screen; "ended" when the program is over
    crashed,     \* m.lastSnap is of a crashed round
    player,      \* m.player
    inspect,     \* m.inspect
    settings,    \* m.settings
    board,       \* m.leaderboard
    queries,     \* statements under way
    finished,    \* the database: completed rounds
    ranked,      \* the database: players with a bet
    row,         \* the database: the player's row
    strayed      \* what the model watches: the screen took an answer to a
                 \* statement of an earlier visit

screens == <<inspect, settings, board>>
tables == <<finished, ranked, row>>
vars == <<screen, crashed, player, screens, queries, tables, strayed>>

Query == 1 .. MaxQueries
Row == [name : Name, hidden : BOOLEAN]
Save == {"name", "hide", "show"}
Kind == {"rounds", "bets", "page", "refresh"} \cup Save

NoRow == [name |-> 0, hidden |-> FALSE]
NoInspect == [latest |-> 0, cursor |-> 0, bets |-> 0, loading |-> FALSE,
              betsLoading |-> FALSE, detail |-> FALSE, direct |-> FALSE]
NoSettings == [field |-> "name", name |-> 0, hidden |-> FALSE,
               saving |-> FALSE, savingName |-> FALSE]
NoBoard == [rows |-> 0, above |-> 0, page |-> 0, cursor |-> 0, loading |-> FALSE]
NoQuery == [kind |-> "rounds", arg |-> 0, step |-> "none", got |-> 0,
            row |-> NoRow, stray |-> FALSE]

Init ==
    /\ screen \in {"welcome", "game"}
    /\ crashed \in BOOLEAN
    /\ row \in {r \in Row : r.name # 0}
    /\ player = row
    /\ inspect = NoInspect /\ settings = NoSettings /\ board = NoBoard
    /\ queries = [q \in Query |-> NoQuery]
    /\ finished \in MinRounds .. MaxRounds
    /\ ranked \in MinRanked .. MaxRanked
    /\ strayed = FALSE

-----------------------------------------------------------------------------
(* Statements: a command sent to the background, its execution, its answer.*)

Least(a, b) == IF a <= b THEN a ELSE b

\* The list that begins with the round latest, and its row number cursor.
Size(latest) == Least(latest, Limit)
RoundAt(latest, cursor) == latest - cursor

\* ListLeaderboard: how many rank above the page p, and its rows.
Above(p) == p * PageSize
RowsOf(p) == IF ranked <= Above(p) THEN 0 ELSE Least(PageSize, ranked - Above(p))

Free(q) == queries[q].step = "none"
First(q) == Free(q) /\ \A s \in Query : Free(s) => q <= s
Asked(kind, arg) == [NoQuery EXCEPT !.kind = kind, !.arg = arg, !.step = "asked"]

\* A screen that is entered finds the statements of its earlier visits there.
Ask(kind, arg) ==
    \E q \in Query : First(q) /\ queries' = [queries EXCEPT ![q] = Asked(kind, arg)]
Left(q, kinds) == [queries[q] EXCEPT !.stray = @ \/ (~Free(q) /\ queries[q].kind \in kinds)]
AskAnew(kind, arg, kinds) ==
    \E q \in Query :
        /\ First(q)
        /\ queries' = [s \in Query |-> IF s = q THEN Asked(kind, arg) ELSE Left(s, kinds)]
Done(q) == queries' = [queries EXCEPT ![q] = NoQuery]

\* What an executed statement writes and returns.
Written(q) ==
    CASE queries[q].kind = "name" -> [row EXCEPT !.name = queries[q].arg]
      [] queries[q].kind = "hide" -> [row EXCEPT !.hidden = TRUE]
      [] queries[q].kind = "show" -> [row EXCEPT !.hidden = FALSE]
      [] OTHER -> row
Result(q) ==
    CASE queries[q].kind = "rounds" -> finished
      [] queries[q].kind = "bets" -> queries[q].arg
      [] queries[q].kind = "page" -> RowsOf(queries[q].arg)
      [] OTHER -> 0
Returned(q) == IF queries[q].kind \in Save \cup {"refresh"} THEN Written(q) ELSE NoRow

Execute(q) ==
    /\ queries[q].step = "asked"
    /\ row' = Written(q)
    /\ queries' = [queries EXCEPT ![q] = [@ EXCEPT !.step = "answered", !.got = Result(q),
                                                   !.row = Returned(q)]]
    /\ UNCHANGED <<screen, crashed, player, screens, finished, ranked, strayed>>

\* A failed statement gives an empty list, or an error message for a save; a
\* save may have been executed all the same.  A failed refresh gives nothing.
FailSilent(q) ==
    /\ queries[q].step = "asked"
    /\ row' \in {row, Written(q)}
    /\ Done(q)
    /\ UNCHANGED <<screen, crashed, player, screens, finished, ranked, strayed>>
Fail(q) ==
    /\ queries[q].step = "asked"
    /\ row' \in {row, Written(q)}
    /\ queries' = [queries EXCEPT ![q] = CASE @.kind = "refresh" -> NoQuery
                                           [] @.kind \in Save -> [@ EXCEPT !.step = "failed"]
                                           [] OTHER -> [@ EXCEPT !.step = "answered"]]
    /\ UNCHANGED <<screen, crashed, player, screens, finished, ranked, strayed>>

\* Rounds complete and players place their first bets.
Play ==
    /\ screen # "ended"
    /\ \/ finished < MaxRounds /\ finished' = finished + 1 /\ UNCHANGED ranked
       \/ ranked < MaxRanked /\ ranked' = ranked + 1 /\ UNCHANGED finished
    /\ UNCHANGED <<screen, crashed, player, screens, queries, row, strayed>>

-----------------------------------------------------------------------------
(* The root program.                                                       *)

\* The program is over: nothing is kept, no answer is taken any more.
Ends ==
    /\ screen' = "ended"
    /\ inspect' = NoInspect /\ settings' = NoSettings /\ board' = NoBoard
    /\ queries' = [q \in Query |-> NoQuery]
    /\ strayed' = FALSE

\* q on the game screen, ctrl+c on any.
Quit ==
    /\ screen # "ended"
    /\ Ends
    /\ UNCHANGED <<crashed, player, tables>>

\* The welcome screen: any key but s, which opens the settings.
Continue ==
    /\ screen = "welcome"
    /\ screen' = "game"
    /\ UNCHANGED <<crashed, player, screens, queries, tables, strayed>>

OpenInspect(direct) ==
    /\ screen' = "inspect"
    /\ inspect' = [NoInspect EXCEPT !.loading = TRUE, !.direct = direct]
    /\ AskAnew("rounds", 0, {"rounds"})
    /\ strayed' = FALSE
    /\ UNCHANGED <<crashed, player, settings, board, tables>>
OpenHistory == screen = "game" /\ OpenInspect(FALSE)
OpenLatest == screen = "game" /\ crashed /\ OpenInspect(TRUE)

OpenSettings ==
    /\ screen \in {"welcome", "game"}
    /\ screen' = "settings"
    /\ settings' = [NoSettings EXCEPT !.name = player.name, !.hidden = player.hidden]
    /\ queries' = [q \in Query |-> Left(q, Save)]
    /\ strayed' = FALSE
    /\ UNCHANGED <<crashed, player, inspect, board, tables>>

OpenLeaderboard ==
    /\ screen = "game"
    /\ screen' = "leaderboard"
    /\ board' = [NoBoard EXCEPT !.loading = TRUE]
    /\ Ask("page", 0)
    /\ strayed' = FALSE
    /\ UNCHANGED <<crashed, player, inspect, settings, tables>>

ToGame ==
    /\ screen' = "game"
    /\ inspect' = NoInspect /\ settings' = NoSettings /\ board' = NoBoard
    /\ strayed' = FALSE

\* q and esc; inspect decides by itself whether it goes back to its list.
Leave ==
    /\ \/ screen \in {"settings", "leaderboard"}
       \/ screen = "inspect" /\ (inspect.detail => inspect.direct)
    /\ ToGame
    /\ UNCHANGED <<crashed, player, queries, tables>>

\* A snapshot whose state differs starts a refresh.
TakeSnapshot ==
    /\ screen # "ended"
    /\ crashed' \in BOOLEAN
    /\ Ask("refresh", 0)
    /\ UNCHANGED <<screen, player, screens, tables, strayed>>

Refreshed(q) ==
    /\ queries[q].kind = "refresh" /\ queries[q].step = "answered"
    /\ player' = queries[q].row
    /\ Done(q)
    /\ UNCHANGED <<screen, crashed, screens, tables, strayed>>

-----------------------------------------------------------------------------
(* inspect.go.                                                             *)

InList == screen = "inspect" /\ ~inspect.detail
InDetail == screen = "inspect" /\ inspect.detail

\* Up and down in a list of that size.
MovesUp(cursor, size) == {c \in {cursor - 1, cursor + 1} : c < size}
Moves(cursor, size) == {c \in {cursor - 1, cursor + 1} : IF c < cursor THEN c >= 0 ELSE c < size}

\* An index past the end of the list: Bubble Tea recovers and ends the program.
OffList(latest) == latest > 0 /\ inspect.cursor >= Size(latest)

MoveCursor ==
    /\ InList /\ ~inspect.loading
    /\ \E c \in Moves(inspect.cursor, Size(inspect.latest)) :
           inspect' = [inspect EXCEPT !.cursor = c]
    /\ UNCHANGED <<screen, crashed, player, settings, board, queries, tables, strayed>>

EnterRound ==
    /\ InList /\ ~inspect.loading /\ inspect.latest > 0
    /\ IF OffList(inspect.latest)
       THEN Ends
       ELSE /\ inspect' = [inspect EXCEPT !.detail = TRUE, !.bets = 0, !.betsLoading = TRUE]
            /\ Ask("bets", RoundAt(inspect.latest, inspect.cursor))
            /\ UNCHANGED <<screen, settings, board, strayed>>
    /\ UNCHANGED <<crashed, player, tables>>

BackToList ==
    /\ InDetail /\ ~inspect.direct
    /\ inspect' = [inspect EXCEPT !.detail = FALSE, !.bets = 0]
    /\ UNCHANGED <<screen, crashed, player, settings, board, queries, tables, strayed>>

\* The list arrives: opened by i, the screen goes on to its first round.
RoundsLoaded(q) ==
    /\ queries[q].kind = "rounds" /\ queries[q].step = "answered"
    /\ LET latest == queries[q].got
           onward == inspect.direct /\ latest > 0 IN
       CASE screen # "inspect" -> Done(q) /\ UNCHANGED <<screen, screens, strayed>>
         [] screen = "inspect" /\ InDetail /\ ~onward /\ ~inspect.betsLoading /\ OffList(latest) ->
                Ends
         [] OTHER ->
                /\ inspect' = [inspect EXCEPT !.latest = latest, !.loading = FALSE,
                                              !.detail = @ \/ onward,
                                              !.betsLoading = @ \/ onward]
                /\ queries' = [queries EXCEPT ![q] =
                                   IF onward THEN Asked("bets", RoundAt(latest, inspect.cursor))
                                   ELSE NoQuery]
                /\ strayed' = (strayed \/ queries[q].stray)
                /\ UNCHANGED <<screen, settings, board>>
    /\ UNCHANGED <<crashed, player, tables>>

\* The bets arrive and are shown if they are those of the round under the
\* cursor.
BetsLoadedUntagged(q) ==
    /\ queries[q].kind = "bets" /\ queries[q].step = "answered"
    /\ IF screen = "inspect" /\ inspect.latest > 0
       THEN inspect' = [inspect EXCEPT !.betsLoading = FALSE, !.bets = queries[q].got]
       ELSE UNCHANGED inspect
    /\ Done(q)
    /\ UNCHANGED <<screen, crashed, player, settings, board, tables, strayed>>
BetsLoaded(q) ==
    /\ queries[q].kind = "bets" /\ queries[q].step = "answered"
    /\ IF screen = "inspect" /\ OffList(inspect.latest)
       THEN Ends
       ELSE /\ inspect' = IF /\ screen = "inspect" /\ inspect.latest > 0
                             /\ queries[q].arg = RoundAt(inspect.latest, inspect.cursor)
                          THEN [inspect EXCEPT !.betsLoading = FALSE, !.bets = queries[q].got]
                          ELSE inspect
            /\ Done(q)
            /\ UNCHANGED <<screen, settings, board, strayed>>
    /\ UNCHANGED <<crashed, player, tables>>

-----------------------------------------------------------------------------
(* leaderboard.go.  Its keys work while a page is being loaded.            *)

MoveOnPage ==
    /\ screen = "leaderboard"
    /\ \E c \in Moves(board.cursor, board.rows) : board' = [board EXCEPT !.cursor = c]
    /\ UNCHANGED <<screen, crashed, player, inspect, settings, queries, tables, strayed>>

NextPageEager ==
    /\ screen = "leaderboard" /\ board.rows = PageSize
    /\ board' = [board EXCEPT !.loading = TRUE, !.page = @ + 1]
    /\ board.page <= MaxRanked
    /\ Ask("page", board.page + 1)
    /\ UNCHANGED <<screen, crashed, player, inspect, settings, tables, strayed>>
NextPage ==
    /\ screen = "leaderboard" /\ board.rows = PageSize
    /\ board' = [board EXCEPT !.loading = TRUE]
    /\ Ask("page", board.page + 1)
    /\ UNCHANGED <<screen, crashed, player, inspect, settings, tables, strayed>>

PrevPage ==
    /\ screen = "leaderboard" /\ board.page > 0
    /\ board' = [board EXCEPT !.loading = TRUE]
    /\ Ask("page", board.page - 1)
    /\ UNCHANGED <<screen, crashed, player, inspect, settings, tables, strayed>>

PageLoadedKeepCursor(q) ==
    /\ queries[q].kind = "page" /\ queries[q].step = "answered"
    /\ board' = IF screen = "leaderboard"
                THEN [board EXCEPT !.rows = queries[q].got, !.above = Above(queries[q].arg),
                                   !.page = queries[q].arg, !.loading = FALSE]
                ELSE board
    /\ Done(q)
    /\ UNCHANGED <<screen, crashed, player, inspect, settings, tables, strayed>>
PageLoaded(q) ==
    /\ queries[q].kind = "page" /\ queries[q].step = "answered"
    /\ board' = IF screen = "leaderboard"
                THEN [rows |-> queries[q].got, above |-> Above(queries[q].arg),
                      page |-> queries[q].arg, cursor |-> 0, loading |-> FALSE]
                ELSE board
    /\ Done(q)
    /\ UNCHANGED <<screen, crashed, player, inspect, settings, tables, strayed>>

-----------------------------------------------------------------------------
(* settings.go.  Its own keys are dead while a save is under way.          *)

Editing == screen = "settings" /\ ~settings.saving

SwitchField ==
    /\ Editing
    /\ settings' = [settings EXCEPT !.field = IF @ = "name" THEN "hidden" ELSE "name"]
    /\ UNCHANGED <<screen, crashed, player, inspect, board, queries, tables, strayed>>

Type(name) ==
    /\ Editing /\ settings.field = "name"
    /\ settings' = [settings EXCEPT !.name = name]
    /\ UNCHANGED <<screen, crashed, player, inspect, board, queries, tables, strayed>>

\* Enter on the name; a blank one only shows an error.
SaveNameUnchecked ==
    /\ Editing /\ settings.field = "name"
    /\ settings' = [settings EXCEPT !.saving = TRUE, !.savingName = TRUE]
    /\ IF settings.name # 0 THEN Ask("name", settings.name) ELSE UNCHANGED queries
    /\ UNCHANGED <<screen, crashed, player, inspect, board, tables, strayed>>
SaveName ==
    /\ Editing /\ settings.field = "name" /\ settings.name # 0
    /\ settings' = [settings EXCEPT !.saving = TRUE, !.savingName = TRUE]
    /\ Ask("name", settings.name)
    /\ UNCHANGED <<screen, crashed, player, inspect, board, tables, strayed>>

\* Enter or space on the hidden flag.
ToggleKeepKind ==
    /\ Editing /\ settings.field = "hidden"
    /\ settings' = [settings EXCEPT !.hidden = ~@, !.saving = TRUE]
    /\ Ask(IF settings.hidden THEN "show" ELSE "hide", 0)
    /\ UNCHANGED <<screen, crashed, player, inspect, board, tables, strayed>>
ToggleHidden ==
    /\ Editing /\ settings.field = "hidden"
    /\ settings' = [settings EXCEPT !.hidden = ~@, !.saving = TRUE, !.savingName = FALSE]
    /\ Ask(IF settings.hidden THEN "show" ELSE "hide", 0)
    /\ UNCHANGED <<screen, crashed, player, inspect, board, tables, strayed>>

Saves(q) == queries[q].kind \in Save

\* The row that was saved arrives: it closes the settings if savingName is set.
Saved(q) ==
    /\ Saves(q) /\ queries[q].step = "answered"
    /\ player' = queries[q].row
    /\ CASE screen # "settings" -> UNCHANGED <<screen, screens, strayed>>
         [] screen = "settings" /\ settings.savingName -> ToGame
         [] OTHER ->
                /\ settings' = [settings EXCEPT !.saving = FALSE, !.savingName = FALSE]
                /\ strayed' = (strayed \/ queries[q].stray)
                /\ UNCHANGED <<screen, inspect, board>>
    /\ Done(q)
    /\ UNCHANGED <<crashed, tables>>

SaveFailed(q) ==
    /\ Saves(q) /\ queries[q].step = "failed"
    /\ IF screen = "settings"
       THEN /\ settings' = [settings EXCEPT !.saving = FALSE]
            /\ strayed' = (strayed \/ queries[q].stray)
       ELSE UNCHANGED <<settings, strayed>>
    /\ Done(q)
    /\ UNCHANGED <<screen, crashed, player, inspect, board, tables>>

-----------------------------------------------------------------------------
RootKey ==
    Quit \/ Continue \/ OpenHistory \/ OpenLatest \/ OpenSettings \/ OpenLeaderboard \/ Leave
InspectKey == MoveCursor \/ EnterRound \/ BackToList
BoardKey == MoveOnPage \/ NextPage \/ PrevPage
SettingsKey == SwitchField \/ SaveName \/ ToggleHidden \/ \E name \in Name : Type(name)

Answer(q) ==
    \/ Refreshed(q) \/ RoundsLoaded(q) \/ BetsLoaded(q)
    \/ PageLoaded(q) \/ Saved(q) \/ SaveFailed(q)

Serve(q) == Execute(q) \/ Fail(q) \/ Answer(q)

Next ==
    \/ RootKey \/ InspectKey \/ BoardKey \/ SettingsKey
    \/ TakeSnapshot \/ Play
    \/ \E q \in Query : Serve(q)

Spec == Init /\ [][Next]_vars

\* Statements are executed or fail, and the program's loop takes their answers;
\* nobody is obliged to press a key.
FairSpec == Spec /\ \A q \in Query : WF_vars(Serve(q))

-----------------------------------------------------------------------------
Round == 0 .. MaxRounds
QueryRecord == [kind : Kind, arg : Nat, step : {"none", "asked", "answered", "failed"},
                got : Nat, row : Row \cup {NoRow}, stray : BOOLEAN]

\* Types; a screen that is not on has no state.
TypeOK ==
    /\ screen \in {"welcome", "game", "inspect", "settings", "leaderboard", "ended"}
    /\ crashed \in BOOLEAN
    /\ player \in Row /\ row \in Row
    /\ inspect \in [latest : Round, cursor : Nat, bets : Round, loading : BOOLEAN,
                    betsLoading : BOOLEAN, detail : BOOLEAN, direct : BOOLEAN]
    /\ settings \in [field : {"name", "hidden"}, name : Name \cup {0}, hidden : BOOLEAN,
                     saving : BOOLEAN, savingName : BOOLEAN]
    /\ board \in [rows : 0 .. PageSize, above : Nat, page : Nat, cursor : Nat, loading : BOOLEAN]
    /\ queries \in [Query -> QueryRecord]
    /\ finished \in Round /\ ranked \in 0 .. MaxRanked
    /\ strayed \in BOOLEAN
    /\ screen # "inspect" => inspect = NoInspect
    /\ screen # "settings" => settings = NoSettings
    /\ screen # "leaderboard" => board = NoBoard

\* A statement of one of these kinds is under way, asked for in this visit.
UnderWay(q, kinds) == ~Free(q) /\ queries[q].kind \in kinds /\ ~queries[q].stray

\* No screen waits for nothing: whatever was pressed, whatever failed and in
\* whatever order the answers came, a screen that says it is loading or saving
\* has a statement under way that will release it.  (The bets of a round lose
\* theirs if the list under them is replaced by one of an earlier visit.)
WaitsForAnswer ==
    /\ inspect.loading => \E q \in Query : UnderWay(q, {"rounds"})
    /\ settings.saving => \E q \in Query : UnderWay(q, Save)
    /\ board.loading => \E q \in Query : UnderWay(q, {"page"})
    /\ InDetail /\ inspect.betsLoading /\ ~strayed =>
           \E q \in Query : /\ UnderWay(q, {"bets"})
                            /\ queries[q].arg = RoundAt(inspect.latest, inspect.cursor)

\* "betsLoadedMsg carries per-round bet results, tagged with the round they
\* belong to" (inspect.go:38): the bets on screen are those of the round on
\* screen, however late the answers for other rounds come.
DetailShowsItsRound ==
    InDetail /\ ~inspect.betsLoading /\ inspect.latest > 0 /\ inspect.bets # 0 =>
        inspect.bets = RoundAt(inspect.latest, inspect.cursor)
\* It holds if no list asked for in an earlier visit came in this one.
DetailMatches == ~strayed => DetailShowsItsRound

\* However fast the page keys are pressed while a page is loading, and in
\* whatever order the pages come, those of an earlier visit too: the rows on
\* screen are those of the page the screen names, the cursor is on one of them,
\* and a page asked for begins no later than where the ranking ends.  (Behind a
\* full last page that is an empty one: the code asks for it.)
PageInRanking ==
    /\ board.rows > 0 => board.above = Above(board.page)
    /\ board.above + board.rows <= ranked
    /\ IF board.rows > 0 THEN board.cursor < board.rows ELSE board.cursor = 0
    /\ \A q \in Query : ~Free(q) /\ queries[q].kind = "page" =>
           Above(queries[q].arg) + queries[q].got <= ranked

\* An answer taken by the settings in the visit that asked for it.
OwnSave(q) ==
    /\ screen = "settings" /\ ~strayed
    /\ queries[q].step = "answered" /\ queries[q].kind \in Save /\ ~queries[q].stray
    /\ queries'[q].step = "none" /\ screen' # "ended"

\* The settings close by themselves exactly when the name on screen was saved;
\* saving the hidden flag leaves them open, after a failed name save too
\* (settings.go:28).  While they stay open they show the flag that was saved.
SaveShown ==
    [][\A q \in Query : OwnSave(q) =>
          IF screen' = "game"
          THEN queries[q].kind = "name" /\ player'.name = settings.name
          ELSE queries[q].kind # "name" /\ settings'.hidden = player'.hidden]_vars

\* A statement is answered, so a screen that loads or saves goes on or is left.
Loading ==
    \/ inspect.loading \/ settings.saving \/ board.loading
    \/ InDetail /\ inspect.betsLoading /\ ~strayed
LoadingEnds == []<>~Loading
=============================================================================
