---------------------------- MODULE ScreensProofs ----------------------------
(***************************************************************************)
(* Proofs about Screens.tla for every set of names, length of the history  *)
(* list, size of a page, and number of statements under way.               *)
(***************************************************************************)
EXTENDS Screens, TLAPS

-----------------------------------------------------------------------------
(* The inductive invariant.  A part for the statements under way, and one  *)
(* for each screen, which says how the statements of this visit go with    *)
(* what is on the screen.                                                  *)

InspectRecord ==
    [latest : Round, cursor : Nat, bets : Round, loading : BOOLEAN,
     betsLoading : BOOLEAN, detail : BOOLEAN, direct : BOOLEAN]
SettingsRecord ==
    [field : {"name", "hidden"}, name : Name \cup {0}, hidden : BOOLEAN,
     saving : BOOLEAN, savingName : BOOLEAN]
BoardRecord ==
    [rows : 0 .. PageSize, above : Nat, page : Nat, cursor : Nat, loading : BOOLEAN]

\* What a statement asks for and what it returned.
WellFormed(r) ==
    /\ r.step = "asked" => r.got = 0
    /\ r.kind = "rounds" => r.got \in Round
    /\ r.kind = "bets" => r.arg \in Round /\ r.got \in {0, r.arg}
    /\ r.kind = "page" => r.got \in 0 .. PageSize
    /\ r.kind = "name" => r.arg \in Name
    /\ r.step = "answered" /\ r.kind \in Save \cup {"refresh"} =>
           /\ r.row \in Row
           /\ r.kind = "name" => r.row.name = r.arg
           /\ r.kind = "hide" => r.row.hidden
           /\ r.kind = "show" => ~r.row.hidden
Statements == \A q \in Query : WellFormed(queries[q])

\* A page that is asked for is one of the ranking.
PagesInRange ==
    \A q \in Query : ~Free(q) /\ queries[q].kind = "page" =>
        queries[q].arg * PageSize + queries[q].got <= ranked

\* The list of this visit is asked for once.
Listed(q) == UnderWay(q, {"rounds"})
OneList == \A q, s \in Query : Listed(q) /\ Listed(s) => q = s

\* Until it arrives nothing else happens on the screen.
Listing ==
    /\ inspect.loading =>
           /\ \E q \in Query : Listed(q)
           /\ inspect.latest = 0 /\ inspect.cursor = 0 /\ ~inspect.detail
    /\ screen = "inspect" /\ ~strayed /\ (\E q \in Query : Listed(q)) => inspect.loading
    /\ inspect.direct => inspect.cursor = 0 /\ (~inspect.detail => inspect.latest = 0)
    /\ ~strayed => ~OffList(inspect.latest)

\* The bets of the round on screen are there or under way.
DetailBets ==
    InDetail /\ ~strayed =>
        LET shownRound == RoundAt(inspect.latest, inspect.cursor) IN
        /\ inspect.latest > 0
        /\ inspect.betsLoading =>
               \E q \in Query : UnderWay(q, {"bets"}) /\ queries[q].arg = shownRound
        /\ ~inspect.betsLoading => inspect.bets \in {0, shownRound}

\* One save is under way and the screen shows what it saves.
SavesShown ==
    /\ settings.saving => \E q \in Query : UnderWay(q, Save)
    /\ screen = "settings" /\ ~strayed =>
           \A q \in Query : UnderWay(q, Save) =>
               /\ settings.saving
               /\ \A s \in Query : UnderWay(s, Save) => s = q
               /\ settings.savingName <=> queries[q].kind = "name"
               /\ queries[q].kind = "name" => queries[q].arg = settings.name
               /\ queries[q].kind = "hide" => settings.hidden
               /\ queries[q].kind = "show" => ~settings.hidden

\* The page on screen, its rows and its cursor go together.
BoardInRange ==
    /\ board.loading => \E q \in Query : UnderWay(q, {"page"})
    /\ board.rows > 0 => board.cursor < board.rows
    /\ board.rows = 0 => board.cursor = 0
    /\ board.above = Above(board.page)
    /\ board.page * PageSize + board.rows <= ranked

IInv ==
    /\ TypeOK /\ Statements /\ PagesInRange
    /\ OneList /\ Listing /\ DetailBets
    /\ SavesShown /\ BoardInRange

-----------------------------------------------------------------------------
(* Statements under way.                                                   *)

LEMMA Numbers ==
    /\ Limit \in Nat /\ Limit > 0 /\ PageSize \in Nat /\ PageSize > 0
    /\ MaxRounds \in Nat /\ MaxRanked \in Nat /\ 0 \in Round
    /\ \A r \in Round : r \in Nat /\ r <= MaxRounds
    /\ \A r \in Nat : r <= MaxRounds => r \in Round
BY SizeAssumption, BoundAssumption DEF Round

\* The record r is that of a statement just asked for.
IsNew(r, kind, arg) ==
    /\ r.kind = kind /\ r.arg = arg /\ r.step = "asked"
    /\ r.got = 0 /\ r.stray = FALSE

LEMMA AskedTyped ==
    ASSUME NEW kind \in Kind, NEW arg \in Nat
    PROVE  Asked(kind, arg) \in QueryRecord /\ IsNew(Asked(kind, arg), kind, arg)
BY DEF Asked, NoQuery, QueryRecord, IsNew

LEMMA NoQueryTyped ==
    /\ NoQuery \in QueryRecord /\ WellFormed(NoQuery)
    /\ NoQuery.step = "none" /\ NoQuery.stray = FALSE
BY Numbers DEF NoQuery, QueryRecord, Kind, Save, WellFormed

LEMMA NewWellFormed ==
    ASSUME NEW kind \in Kind, NEW arg \in Nat, NEW r, IsNew(r, kind, arg),
           kind = "bets" => arg \in Round,
           kind = "name" => arg \in Name
    PROVE  WellFormed(r)
<1>1. r.got \in Round /\ r.got \in 0 .. PageSize
    BY Numbers DEF IsNew
<1>2. QED BY <1>1 DEF WellFormed, IsNew

\* A statement is asked for.
LEMMA AskEffect ==
    ASSUME queries \in [Query -> QueryRecord],
           NEW kind \in Kind, NEW arg \in Nat, Ask(kind, arg)
    PROVE  /\ queries' \in [Query -> QueryRecord]
           /\ \E q \in Query :
                  /\ Free(q) /\ IsNew(queries'[q], kind, arg)
                  /\ \A s \in Query : s # q => queries'[s] = queries[s]
<1>1. PICK q \in Query : Free(q) /\ queries' = [queries EXCEPT ![q] = Asked(kind, arg)]
    BY DEF Ask, First
<1>2. QED BY <1>1, AskedTyped

\* A statement of an earlier visit is only marked.
LEMMA LeftFields ==
    ASSUME queries \in [Query -> QueryRecord], NEW q \in Query, NEW kinds
    PROVE  LET l == Left(q, kinds) IN
           /\ l \in QueryRecord
           /\ l.kind = queries[q].kind /\ l.arg = queries[q].arg /\ l.step = queries[q].step
           /\ l.got = queries[q].got /\ l.row = queries[q].row
           /\ l.stray = (queries[q].stray \/ (~Free(q) /\ queries[q].kind \in kinds))
BY DEF Left, QueryRecord

LEMMA LeftWellFormed ==
    ASSUME queries \in [Query -> QueryRecord], Statements, NEW q \in Query, NEW kinds
    PROVE  WellFormed(Left(q, kinds))
BY LeftFields DEF Statements, WellFormed

LEMMA AnewEffect ==
    ASSUME queries \in [Query -> QueryRecord],
           NEW kind \in Kind, NEW arg \in Nat, NEW kinds, AskAnew(kind, arg, kinds)
    PROVE  /\ queries' \in [Query -> QueryRecord]
           /\ \E q \in Query :
                  /\ Free(q) /\ IsNew(queries'[q], kind, arg)
                  /\ \A s \in Query : s # q => queries'[s] = Left(s, kinds)
<1>1. PICK q \in Query :
          /\ Free(q)
          /\ queries' = [s \in Query |-> IF s = q THEN Asked(kind, arg) ELSE Left(s, kinds)]
    BY DEF AskAnew, First
<1>2. \A s \in Query : Left(s, kinds) \in QueryRecord
    BY LeftFields
<1>3. QED BY <1>1, <1>2, AskedTyped

\* A statement is executed.
LEMMA RowsOfPage ==
    ASSUME NEW p \in Nat, ranked \in Nat
    PROVE  /\ RowsOf(p) \in 0 .. PageSize
           /\ p * PageSize <= ranked => p * PageSize + RowsOf(p) <= ranked
<1>1. p * PageSize \in Nat
    BY Numbers
<1>2. QED BY <1>1, Numbers DEF RowsOf, Above, Least

LEMMA WrittenRow ==
    ASSUME TypeOK, Statements, NEW q \in Query
    PROVE  /\ Written(q) \in Row
           /\ queries[q].kind = "name" => Written(q).name = queries[q].arg
           /\ queries[q].kind = "hide" => Written(q).hidden
           /\ queries[q].kind = "show" => ~Written(q).hidden
<1>1. row \in Row /\ (queries[q].kind = "name" => queries[q].arg \in Name)
    BY DEF TypeOK, Statements, WellFormed
<1>2. QED BY <1>1 DEF Written, Row

LEMMA ExecuteEffect ==
    ASSUME TypeOK, Statements, NEW q \in Query, Execute(q)
    PROVE  /\ queries' \in [Query -> QueryRecord] /\ WellFormed(queries'[q])
           /\ queries'[q].kind = queries[q].kind /\ queries'[q].arg = queries[q].arg
           /\ queries'[q].stray = queries[q].stray /\ queries'[q].step = "answered"
           /\ queries'[q].got = Result(q)
           /\ \A s \in Query : s # q => queries'[s] = queries[s]
           /\ row' \in Row
<1>1. queries[q] \in QueryRecord /\ queries \in [Query -> QueryRecord]
    BY DEF TypeOK
<1>2. queries[q].kind \in Kind /\ queries[q].arg \in Nat /\ WellFormed(queries[q])
    BY <1>1 DEF QueryRecord, Statements
<1>3. finished \in Round /\ ranked \in Nat
    BY Numbers DEF TypeOK
<1>4. /\ Result(q) \in Nat
      /\ queries[q].kind = "rounds" => Result(q) \in Round
      /\ queries[q].kind = "bets" => Result(q) = queries[q].arg
      /\ queries[q].kind = "page" => Result(q) \in 0 .. PageSize
    <2>1. RowsOf(queries[q].arg) \in 0 .. PageSize
        BY <1>2, <1>3, RowsOfPage
    <2>2. finished \in Nat /\ RowsOf(queries[q].arg) \in Nat
        BY <1>3, <2>1, Numbers
    <2>3. QED BY <1>2, <1>3, <2>1, <2>2 DEF Result
<1>5. /\ Returned(q) \in Row \cup {NoRow}
      /\ queries[q].kind \in Save \cup {"refresh"} => Returned(q) = Written(q)
    BY WrittenRow DEF Returned
<1>6. DEFINE r == [queries[q] EXCEPT !.step = "answered", !.got = Result(q), !.row = Returned(q)]
<1>7. /\ r \in QueryRecord
      /\ r.kind = queries[q].kind /\ r.arg = queries[q].arg /\ r.stray = queries[q].stray
      /\ r.step = "answered" /\ r.got = Result(q) /\ r.row = Returned(q)
    BY <1>1, <1>4, <1>5 DEF QueryRecord
<1>8. queries' = [queries EXCEPT ![q] = r]
    BY <1>1 DEF Execute
<1> HIDE DEF r
<1>9. WellFormed(r)
    BY <1>2, <1>4, <1>5, <1>7, WrittenRow DEF WellFormed
<1>10. row' \in Row
    BY WrittenRow DEF Execute
<1>11. QED BY <1>1, <1>7, <1>8, <1>9, <1>10

\* A statement fails.
LEMMA FailEffect ==
    ASSUME TypeOK, Statements, NEW q \in Query, Fail(q)
    PROVE  /\ queries' \in [Query -> QueryRecord] /\ WellFormed(queries'[q])
           /\ \/ queries[q].kind = "refresh" /\ queries'[q].step = "none"
              \/ /\ queries[q].kind # "refresh"
                 /\ queries'[q].kind = queries[q].kind /\ queries'[q].arg = queries[q].arg
                 /\ queries'[q].stray = queries[q].stray
                 /\ queries'[q].step \in {"answered", "failed"}
                 /\ queries'[q].got = queries[q].got
           /\ \A s \in Query : s # q => queries'[s] = queries[s]
           /\ row' \in Row
<1>1. queries[q] \in QueryRecord /\ queries \in [Query -> QueryRecord]
    BY DEF TypeOK
<1>2. queries[q].step = "asked" /\ WellFormed(queries[q]) /\ queries[q].got = 0
    BY DEF Fail, Statements, WellFormed
<1>3. row' \in Row
    BY WrittenRow DEF Fail, TypeOK
<1>4. ASSUME NEW r \in QueryRecord, queries' = [queries EXCEPT ![q] = r]
      PROVE  /\ queries' \in [Query -> QueryRecord] /\ queries'[q] = r
             /\ \A s \in Query : s # q => queries'[s] = queries[s]
    BY <1>1, <1>4
<1>5. CASE queries[q].kind = "refresh"
    <2>1. queries' = [queries EXCEPT ![q] = NoQuery]
        <3>1. queries[q].kind \notin Save
            BY <1>5 DEF Save
        <3>2. QED BY <1>5, <3>1 DEF Fail
    <2>2. QED BY <1>3, <1>4, <1>5, <2>1, NoQueryTyped
<1>6. CASE queries[q].kind \in Save
    <2> DEFINE r == [queries[q] EXCEPT !.step = "failed"]
    <2>1. /\ r \in QueryRecord /\ r.kind = queries[q].kind /\ r.arg = queries[q].arg
          /\ r.stray = queries[q].stray /\ r.step = "failed" /\ r.got = queries[q].got
          /\ r.row = queries[q].row
        BY <1>1 DEF QueryRecord
    <2>2. queries[q].kind # "refresh"
        BY <1>6 DEF Save
    <2>3. queries' = [queries EXCEPT ![q] = r]
        BY <1>1, <1>6, <2>2 DEF Fail
    <2> HIDE DEF r
    <2>4. WellFormed(r)
        BY <1>2, <2>1 DEF WellFormed
    <2>5. QED BY <1>3, <1>4, <2>1, <2>2, <2>3, <2>4
<1>7. CASE queries[q].kind \notin Save /\ queries[q].kind # "refresh"
    <2> DEFINE r == [queries[q] EXCEPT !.step = "answered"]
    <2>1. /\ r \in QueryRecord /\ r.kind = queries[q].kind /\ r.arg = queries[q].arg
          /\ r.stray = queries[q].stray /\ r.step = "answered" /\ r.got = queries[q].got
          /\ r.row = queries[q].row
        BY <1>1 DEF QueryRecord
    <2>2. queries' = [queries EXCEPT ![q] = r]
        BY <1>1, <1>7 DEF Fail
    <2> HIDE DEF r
    <2>3. WellFormed(r)
        BY <1>2, <1>7, <2>1 DEF WellFormed
    <2>4. QED BY <1>3, <1>4, <1>7, <2>1, <2>2, <2>3
<1>8. QED BY <1>5, <1>6, <1>7

\* A statement is over.
LEMMA DoneEffect ==
    ASSUME queries \in [Query -> QueryRecord], NEW q \in Query, Done(q)
    PROVE  /\ queries' \in [Query -> QueryRecord] /\ queries'[q] = NoQuery
           /\ \A s \in Query : s # q => queries'[s] = queries[s]
BY NoQueryTyped DEF Done

-----------------------------------------------------------------------------
(* Statements of these kinds go on as they were.                           *)

Kept(kinds) ==
    \A q \in Query :
        /\ UnderWay(q, kinds)' <=> UnderWay(q, kinds)
        /\ UnderWay(q, kinds) =>
               queries'[q].kind = queries[q].kind /\ queries'[q].arg = queries[q].arg

LEMMA UnchangedKeeps == ASSUME UNCHANGED queries, NEW kinds PROVE Kept(kinds)
BY DEF Kept, UnderWay, Free

LEMMA AskKeeps ==
    ASSUME TypeOK, NEW kind \in Kind, NEW arg \in Nat, Ask(kind, arg), NEW kinds,
           kind \notin kinds
    PROVE  Kept(kinds)
<1>1. PICK q \in Query :
          /\ Free(q) /\ IsNew(queries'[q], kind, arg)
          /\ \A s \in Query : s # q => queries'[s] = queries[s]
    BY AskEffect DEF TypeOK
<1>2. QED BY <1>1 DEF Kept, UnderWay, Free, IsNew

LEMMA DoneKeeps ==
    ASSUME TypeOK, NEW q \in Query, Done(q), NEW kinds, queries[q].kind \notin kinds
    PROVE  Kept(kinds)
BY DoneEffect, NoQueryTyped DEF TypeOK, Kept, UnderWay, Free

LEMMA ExecuteKeeps ==
    ASSUME TypeOK, Statements, NEW q \in Query, Execute(q), NEW kinds
    PROVE  Kept(kinds)
BY ExecuteEffect DEF Execute, Kept, UnderWay, Free

LEMMA FailKeeps ==
    ASSUME TypeOK, Statements, NEW q \in Query, Fail(q), NEW kinds, "refresh" \notin kinds
    PROVE  Kept(kinds)
<1>1. queries[q].step = "asked"
    BY DEF Fail
<1>2. ASSUME NEW s \in Query, s # q PROVE queries'[s] = queries[s]
    BY <1>2, FailEffect
<1>3. CASE queries[q].kind = "refresh"
    <2>1. queries'[q].step = "none" /\ queries[q].kind \notin kinds
        BY <1>3, FailEffect
    <2>2. QED BY <1>2, <2>1 DEF Kept, UnderWay, Free
<1>4. CASE queries[q].kind # "refresh"
    <2>1. /\ queries'[q].kind = queries[q].kind /\ queries'[q].arg = queries[q].arg
          /\ queries'[q].stray = queries[q].stray /\ queries'[q].step # "none"
        BY <1>4, FailEffect
    <2>2. QED BY <1>1, <1>2, <2>1 DEF Kept, UnderWay, Free
<1>5. QED BY <1>3, <1>4

-----------------------------------------------------------------------------
(* Types.                                                                  *)

\* The parts of TypeOK.
Tables == player \in Row /\ row \in Row /\ finished \in Round /\ ranked \in 0 .. MaxRanked
Screen == {"welcome", "game", "inspect", "settings", "leaderboard", "ended"}
Shown ==
    /\ screen \in Screen
    /\ inspect \in InspectRecord /\ settings \in SettingsRecord /\ board \in BoardRecord
    /\ screen # "inspect" => inspect = NoInspect
    /\ screen # "settings" => settings = NoSettings
    /\ screen # "leaderboard" => board = NoBoard
Parts ==
    /\ Tables /\ Shown
    /\ crashed \in BOOLEAN /\ strayed \in BOOLEAN /\ queries \in [Query -> QueryRecord]

LEMMA TypeParts == TypeOK <=> Parts
BY DEF TypeOK, Parts, Tables, Shown, Screen, InspectRecord, SettingsRecord, BoardRecord

LEMMA NextParts == ASSUME Parts' PROVE TypeOK'
BY DEF TypeOK, Parts, Tables, Shown, Screen, InspectRecord, SettingsRecord, BoardRecord

LEMMA EmptyScreens ==
    NoInspect \in InspectRecord /\ NoSettings \in SettingsRecord /\ NoBoard \in BoardRecord
BY Numbers DEF NoInspect, InspectRecord, NoSettings, SettingsRecord, NoBoard, BoardRecord

LEMMA RowFields ==
    ASSUME NEW r \in Row
    PROVE  r.name \in Name /\ r.name \in Nat /\ r.hidden \in BOOLEAN
BY NameAssumption DEF Row

LEMMA EndsTypes ==
    ASSUME TypeOK, Ends, UNCHANGED <<crashed, player, tables>>
    PROVE  TypeOK'
<1>1. queries' \in [Query -> QueryRecord]
    BY NoQueryTyped DEF Ends
<1>2. Shown'
    BY EmptyScreens DEF Ends, Shown, Screen
<1>3. Tables' /\ crashed' \in BOOLEAN /\ strayed' \in BOOLEAN
    BY TypeParts DEF Parts, Tables, tables, Ends
<1>4. QED BY <1>1, <1>2, <1>3, NextParts DEF Parts

LEMMA RootTypes ==
    ASSUME TypeOK, RootKey
    PROVE  TypeOK'
<1>1. Parts
    BY TypeParts
<1>2. "rounds" \in Kind /\ "page" \in Kind /\ 0 \in Nat
    BY DEF Kind, Save
<1>3. CASE Quit
    BY <1>3, EndsTypes DEF Quit
<1>4. CASE Continue
    BY <1>1, <1>4, NextParts DEF Continue, Parts, Tables, tables, Shown, Screen, screens
<1>5. ASSUME NEW direct \in BOOLEAN, screen = "game", OpenInspect(direct) PROVE TypeOK'
    <2>1. queries' \in [Query -> QueryRecord]
        BY <1>1, <1>2, <1>5, AnewEffect DEF OpenInspect, Parts
    <2>2. inspect' \in InspectRecord
        BY <1>5, EmptyScreens DEF OpenInspect, InspectRecord
    <2>3. QED BY <1>1, <1>5, <2>1, <2>2, NextParts
             DEF OpenInspect, Parts, Tables, tables, Shown, Screen
<1>6. CASE OpenHistory \/ OpenLatest
    BY <1>5, <1>6 DEF OpenHistory, OpenLatest
<1>7. CASE OpenSettings
    <2>1. queries' \in [Query -> QueryRecord]
        BY <1>1, <1>7, LeftFields DEF OpenSettings, Parts
    <2>2. settings' \in SettingsRecord
        BY <1>1, <1>7, EmptyScreens, RowFields DEF OpenSettings, SettingsRecord, Parts, Tables
    <2>3. QED BY <1>1, <1>7, <2>1, <2>2, NextParts
             DEF OpenSettings, Parts, Tables, tables, Shown, Screen
<1>8. CASE OpenLeaderboard
    <2>1. queries' \in [Query -> QueryRecord]
        BY <1>1, <1>2, <1>8, AskEffect DEF OpenLeaderboard, Parts
    <2>2. board' \in BoardRecord
        BY <1>8, EmptyScreens DEF OpenLeaderboard, BoardRecord
    <2>3. QED BY <1>1, <1>8, <2>1, <2>2, NextParts
             DEF OpenLeaderboard, Parts, Tables, tables, Shown, Screen
<1>9. CASE Leave
    BY <1>1, <1>9, EmptyScreens, NextParts
       DEF Leave, ToGame, Parts, Tables, tables, Shown, Screen
<1>10. QED BY <1>3, <1>4, <1>6, <1>7, <1>8, <1>9 DEF RootKey

\* The round under the cursor.
LEMMA RoundUnderCursor ==
    ASSUME NEW latest \in Round, NEW cursor \in Nat, latest > 0, cursor < Size(latest)
    PROVE  RoundAt(latest, cursor) \in Round /\ RoundAt(latest, cursor) \in Nat
BY Numbers DEF RoundAt, Size, Least

LEMMA InspectTypes ==
    ASSUME TypeOK, InspectKey
    PROVE  TypeOK'
<1>1. Parts /\ inspect \in InspectRecord
    BY TypeParts DEF Parts, Shown
<1>2. CASE MoveCursor
    <2>1. inspect' \in InspectRecord
        BY <1>1, <1>2 DEF MoveCursor, InspectRecord, Moves
    <2>2. QED BY <1>1, <1>2, <2>1, NextParts
             DEF MoveCursor, InList, Parts, Tables, tables, Shown, Screen
<1>3. CASE EnterRound
    <2>1. CASE OffList(inspect.latest)
        BY <1>3, <2>1, EndsTypes DEF EnterRound
    <2>2. CASE ~OffList(inspect.latest)
        <3> DEFINE r == RoundAt(inspect.latest, inspect.cursor)
        <3>1. inspect.latest \in Round /\ inspect.cursor \in Nat /\ inspect.latest > 0
            BY <1>1, <1>3 DEF EnterRound, InspectRecord
        <3>2. inspect.cursor < Size(inspect.latest)
            BY <2>2, <3>1, Numbers DEF OffList, Size, Least
        <3>3. r \in Nat
            BY <3>1, <3>2, RoundUnderCursor
        <3>4. queries' \in [Query -> QueryRecord]
            <4>1. "bets" \in Kind /\ Ask("bets", r)
                BY <1>3, <2>2 DEF EnterRound, Kind
            <4>2. QED BY <1>1, <3>3, <4>1, AskEffect DEF Parts
        <3>5. inspect' \in InspectRecord
            BY <1>1, <1>3, <2>2, Numbers DEF EnterRound, InspectRecord
        <3>6. QED BY <1>1, <1>3, <2>2, <3>4, <3>5, NextParts
                 DEF EnterRound, InList, Parts, Tables, tables, Shown, Screen
    <2>3. QED BY <2>1, <2>2
<1>4. CASE BackToList
    <2>1. inspect' \in InspectRecord
        BY <1>1, <1>4, Numbers DEF BackToList, InspectRecord
    <2>2. QED BY <1>1, <1>4, <2>1, NextParts
             DEF BackToList, InDetail, Parts, Tables, tables, Shown, Screen
<1>5. QED BY <1>2, <1>3, <1>4 DEF InspectKey

LEMMA BoardTypes ==
    ASSUME TypeOK, BoardKey
    PROVE  TypeOK'
<1>1. Parts /\ board \in BoardRecord /\ board.page \in Nat
    BY TypeParts DEF Parts, Shown, BoardRecord
<1>2. CASE MoveOnPage
    <2>1. board' \in BoardRecord
        BY <1>1, <1>2, Numbers DEF MoveOnPage, BoardRecord, Moves
    <2>2. QED BY <1>1, <1>2, <2>1, NextParts
             DEF MoveOnPage, Parts, Tables, tables, Shown, Screen
<1>3. ASSUME NEW p \in Nat, Ask("page", p), screen = "leaderboard",
             board' = [board EXCEPT !.loading = TRUE],
             UNCHANGED <<screen, crashed, player, inspect, settings, tables, strayed>>
      PROVE  TypeOK'
    <2>1. queries' \in [Query -> QueryRecord]
        BY <1>1, <1>3, AskEffect DEF Parts, Kind
    <2>2. board' \in BoardRecord
        BY <1>1, <1>3 DEF BoardRecord
    <2>3. QED BY <1>1, <1>3, <2>1, <2>2, NextParts
             DEF Parts, Tables, tables, Shown, Screen
<1>4. CASE NextPage
    BY <1>1, <1>3, <1>4 DEF NextPage
<1>5. CASE PrevPage
    <2>1. board.page - 1 \in Nat
        BY <1>1, <1>5 DEF PrevPage
    <2>2. QED BY <1>3, <1>5, <2>1 DEF PrevPage
<1>6. QED BY <1>2, <1>4, <1>5 DEF BoardKey

LEMMA SettingsTypes ==
    ASSUME TypeOK, SettingsKey
    PROVE  TypeOK'
<1>1. Parts /\ settings \in SettingsRecord
    BY TypeParts DEF Parts, Shown
<1>2. ASSUME screen = "settings", settings' \in SettingsRecord,
             queries' \in [Query -> QueryRecord],
             UNCHANGED <<screen, crashed, player, inspect, board, tables, strayed>>
      PROVE  TypeOK'
    BY <1>1, <1>2, NextParts DEF Parts, Tables, tables, Shown, Screen
<1>3. CASE SwitchField
    <2>1. settings' \in SettingsRecord
        BY <1>1, <1>3 DEF SwitchField, SettingsRecord
    <2>2. QED BY <1>1, <1>2, <1>3, <2>1 DEF SwitchField, Editing, Parts
<1>4. ASSUME NEW name \in Name, Type(name) PROVE TypeOK'
    <2>1. settings' \in SettingsRecord
        BY <1>1, <1>4 DEF Type, SettingsRecord
    <2>2. QED BY <1>1, <1>2, <1>4, <2>1 DEF Type, Editing, Parts
<1>5. CASE SaveName
    <2>1. settings' \in SettingsRecord
        BY <1>1, <1>5 DEF SaveName, SettingsRecord
    <2>2. queries' \in [Query -> QueryRecord]
        <3>1. settings.name \in Nat
            <4>1. settings.name \in Name
                BY <1>1, <1>5 DEF SaveName, SettingsRecord
            <4>2. QED BY <4>1, NameAssumption
        <3>2. "name" \in Kind /\ Ask("name", settings.name)
            BY <1>5 DEF SaveName, Kind, Save
        <3>3. QED BY <1>1, <3>1, <3>2, AskEffect DEF Parts
    <2>3. QED BY <1>2, <1>5, <2>1, <2>2 DEF SaveName, Editing
<1>6. CASE ToggleHidden
    <2>1. settings' \in SettingsRecord
        BY <1>1, <1>6 DEF ToggleHidden, SettingsRecord
    <2>2. queries' \in [Query -> QueryRecord]
        <3>1. PICK kind \in {"show", "hide"} : Ask(kind, 0)
            BY <1>6 DEF ToggleHidden
        <3>2. kind \in Kind /\ 0 \in Nat
            BY DEF Kind, Save
        <3>3. QED BY <1>1, <3>1, <3>2, AskEffect DEF Parts
    <2>3. QED BY <1>2, <1>6, <2>1, <2>2 DEF ToggleHidden, Editing
<1>7. QED BY <1>3, <1>4, <1>5, <1>6 DEF SettingsKey

\* What an answer brings.
LEMMA AnswerFields ==
    ASSUME TypeOK, Statements, NEW q \in Query
    PROVE  /\ queries[q] \in QueryRecord /\ queries[q].arg \in Nat
           /\ queries[q].kind = "rounds" => queries[q].got \in Round
           /\ queries[q].kind = "bets" =>
                  queries[q].arg \in Round /\ queries[q].got \in {0, queries[q].arg}
           /\ queries[q].kind = "page" => queries[q].got \in 0 .. PageSize
           /\ queries[q].step = "answered" /\ queries[q].kind \in Save \cup {"refresh"} =>
                  queries[q].row \in Row
<1>1. queries[q] \in QueryRecord
    BY DEF TypeOK
<1>2. queries[q].arg \in Nat
    BY <1>1 DEF QueryRecord
<1>3. QED BY <1>1, <1>2 DEF Statements, WellFormed

LEMMA RoundsTypes ==
    ASSUME TypeOK, Statements, Listing, NEW q \in Query, RoundsLoaded(q)
    PROVE  TypeOK'
<1>1. Parts /\ inspect \in InspectRecord
    BY TypeParts DEF Parts, Shown
<1> DEFINE latest == queries[q].got
           onward == inspect.direct /\ latest > 0
<1>2. latest \in Round /\ onward \in BOOLEAN
    BY AnswerFields DEF RoundsLoaded
<1>3. CASE Ends
    BY <1>3, EndsTypes DEF RoundsLoaded
<1>4. CASE Done(q) /\ UNCHANGED <<screen, screens, strayed>>
    <2>1. queries' \in [Query -> QueryRecord]
        BY <1>1, <1>4, DoneEffect DEF Parts
    <2>2. QED BY <1>1, <1>4, <2>1, NextParts
             DEF RoundsLoaded, Parts, Tables, tables, Shown, Screen, screens
<1>5. ASSUME screen = "inspect",
             inspect' = [inspect EXCEPT !.latest = latest, !.loading = FALSE,
                                        !.detail = @ \/ onward, !.betsLoading = @ \/ onward],
             queries' = [queries EXCEPT ![q] =
                             IF onward THEN Asked("bets", RoundAt(latest, inspect.cursor))
                             ELSE NoQuery],
             strayed' = (strayed \/ queries[q].stray),
             UNCHANGED <<screen, settings, board>>
      PROVE  TypeOK'
    <2>1. inspect' \in InspectRecord
        BY <1>1, <1>2, <1>5 DEF InspectRecord
    <2>2. queries' \in [Query -> QueryRecord]
        <3>1. CASE onward
            <4>1. inspect.cursor = 0 /\ 0 < Size(latest) /\ 0 \in Nat /\ latest > 0
                BY <1>2, <3>1, Numbers DEF Listing, Size, Least
            <4>2. RoundAt(latest, inspect.cursor) \in Nat /\ "bets" \in Kind
                BY <1>2, <4>1, RoundUnderCursor DEF Kind
            <4>3. Asked("bets", RoundAt(latest, inspect.cursor)) \in QueryRecord
                BY <4>2, AskedTyped
            <4>4. QED BY <1>1, <1>5, <3>1, <4>3 DEF Parts
        <3>2. CASE ~onward
            BY <1>1, <1>5, <3>2, NoQueryTyped DEF Parts
        <3>3. QED BY <3>1, <3>2
    <2>3. strayed' \in BOOLEAN
        BY <1>5
    <2>4. UNCHANGED <<crashed, player, tables>>
        BY DEF RoundsLoaded
    <2>5. QED BY <1>1, <1>5, <2>1, <2>2, <2>3, <2>4, NextParts
             DEF Parts, Tables, tables, Shown, Screen
<1>6. QED BY <1>3, <1>4, <1>5 DEF RoundsLoaded

LEMMA BetsTypes ==
    ASSUME TypeOK, Statements, NEW q \in Query, BetsLoaded(q)
    PROVE  TypeOK'
<1>1. Parts /\ inspect \in InspectRecord
    BY TypeParts DEF Parts, Shown
<1>2. CASE Ends
    BY <1>2, EndsTypes DEF BetsLoaded
<1>3. CASE ~Ends
    <2>1. queries' \in [Query -> QueryRecord]
        BY <1>1, <1>3, DoneEffect DEF BetsLoaded, Parts
    <2>2. queries[q].got \in Round
        BY AnswerFields, Numbers DEF BetsLoaded
    <2>3. inspect' \in InspectRecord /\ (screen # "inspect" => inspect' = inspect)
        BY <1>1, <1>3, <2>2 DEF BetsLoaded, InspectRecord
    <2>4. QED BY <1>1, <1>3, <2>1, <2>3, NextParts
             DEF BetsLoaded, Parts, Tables, tables, Shown, Screen
<1>4. QED BY <1>2, <1>3

LEMMA PageTypes ==
    ASSUME TypeOK, Statements, NEW q \in Query, PageLoaded(q)
    PROVE  TypeOK'
<1>1. Parts /\ board \in BoardRecord
    BY TypeParts DEF Parts, Shown
<1>2. queries' \in [Query -> QueryRecord]
    BY <1>1, DoneEffect DEF PageLoaded, Parts
<1>3. queries[q].got \in 0 .. PageSize /\ queries[q].arg \in Nat
    BY AnswerFields DEF PageLoaded
<1>4. board' \in BoardRecord /\ (screen # "leaderboard" => board' = board)
    <2>1. Above(queries[q].arg) \in Nat
        BY <1>3, Numbers DEF Above
    <2>2. QED BY <1>1, <1>3, <2>1 DEF PageLoaded, BoardRecord
<1>5. QED BY <1>1, <1>2, <1>4, NextParts
         DEF PageLoaded, Parts, Tables, tables, Shown, Screen

LEMMA SavedTypes ==
    ASSUME TypeOK, Statements, NEW q \in Query, Saved(q) \/ SaveFailed(q) \/ Refreshed(q)
    PROVE  TypeOK'
<1>1. Parts /\ settings \in SettingsRecord
    BY TypeParts DEF Parts, Shown
<1>2. queries' \in [Query -> QueryRecord]
    BY <1>1, DoneEffect DEF Saved, SaveFailed, Refreshed, Parts
<1>3. player' \in Row
    <2>1. CASE SaveFailed(q)
        BY <1>1, <2>1 DEF SaveFailed, Parts, Tables
    <2>2. CASE Saved(q) \/ Refreshed(q)
        BY <2>2, AnswerFields DEF Saved, Refreshed, Saves
    <2>3. QED BY <2>1, <2>2
<1>4. Tables' /\ crashed' \in BOOLEAN
    BY <1>1, <1>3 DEF Saved, SaveFailed, Refreshed, Parts, Tables, tables
<1>5. strayed' \in BOOLEAN
    BY <1>1 DEF Saved, SaveFailed, Refreshed, ToGame, Parts
<1>6. [settings EXCEPT !.saving = FALSE, !.savingName = FALSE] \in SettingsRecord
    BY <1>1 DEF SettingsRecord
<1>7. [settings EXCEPT !.saving = FALSE] \in SettingsRecord
    BY <1>1 DEF SettingsRecord
<1>8. Shown'
    <2>1. CASE UNCHANGED <<screen, screens>>
        BY <1>1, <2>1 DEF Parts, Shown, screens
    <2>2. CASE ToGame
        BY <2>2, EmptyScreens DEF ToGame, Shown, Screen
    <2>3. CASE screen = "settings" /\ settings' \in SettingsRecord /\ UNCHANGED <<screen, inspect, board>>
        BY <1>1, <2>3 DEF Parts, Shown
    <2>4. QED BY <1>6, <1>7, <2>1, <2>2, <2>3 DEF Saved, SaveFailed, Refreshed, screens
<1>9. QED BY <1>2, <1>4, <1>5, <1>8, NextParts DEF Parts

LEMMA StepTypes ==
    ASSUME IInv, [Next]_vars
    PROVE  TypeOK'
<1>1. TypeOK /\ Statements /\ Listing /\ Parts
    BY TypeParts DEF IInv
<1>2. CASE UNCHANGED vars
    BY <1>1, <1>2, NextParts DEF vars, screens, tables, Parts, Tables, Shown
<1>3. CASE TakeSnapshot
    <2>1. queries' \in [Query -> QueryRecord]
        BY <1>1, <1>3, AskEffect DEF TakeSnapshot, Parts, Kind
    <2>2. QED BY <1>1, <1>3, <2>1, NextParts
             DEF TakeSnapshot, screens, tables, Parts, Tables, Shown, Screen
<1>4. CASE Play
    <2>1. finished' \in Round /\ ranked' \in 0 .. MaxRanked
        BY <1>1, <1>4, Numbers DEF Play, Round, Parts, Tables
    <2>2. QED BY <1>1, <1>4, <2>1, NextParts
             DEF Play, screens, Parts, Tables, Shown
<1>5. ASSUME NEW q \in Query, Execute(q) \/ Fail(q) PROVE TypeOK'
    <2>1. queries' \in [Query -> QueryRecord] /\ row' \in Row
        BY <1>1, <1>5, ExecuteEffect, FailEffect
    <2>2. UNCHANGED <<screen, crashed, player, screens, finished, ranked, strayed>>
        BY <1>5 DEF Execute, Fail
    <2>3. QED BY <1>1, <2>1, <2>2, NextParts DEF screens, Parts, Tables, Shown
<1>6. ASSUME NEW q \in Query, Answer(q) PROVE TypeOK'
    BY <1>1, <1>6, RoundsTypes, BetsTypes, PageTypes, SavedTypes DEF Answer
<1>7. QED BY <1>1, <1>2, <1>3, <1>4, <1>5, <1>6, RootTypes, InspectTypes, BoardTypes, SettingsTypes
         DEF Next, Serve

-----------------------------------------------------------------------------
(* The parts about statements alone.                                       *)

Asking == Statements /\ PagesInRange /\ OneList

\* What a step does to the statements under way.
AsksOne ==
    \E kind \in Kind \ {"rounds"}, arg \in Nat :
        /\ Ask(kind, arg)
        /\ kind = "bets" => arg \in Round
        /\ kind = "name" => arg \in Name
        /\ kind = "page" => arg * PageSize <= ranked
AsksList == AskAnew("rounds", 0, {"rounds"})
LeavesSaves == queries' = [q \in Query |-> Left(q, Save)]
AsksOn ==
    \E q \in Query, r \in Round :
        /\ queries[q].kind = "rounds"
        /\ queries' = [queries EXCEPT ![q] = Asked("bets", r)]
Empties == queries' = [q \in Query |-> NoQuery]

LEMMA AskOneEffect ==
    ASSUME TypeOK, Asking, UNCHANGED ranked, AsksOne
    PROVE  Asking'
<1>1. PICK kind \in Kind \ {"rounds"}, arg \in Nat :
          /\ Ask(kind, arg)
          /\ kind = "bets" => arg \in Round
          /\ kind = "name" => arg \in Name
          /\ kind = "page" => arg * PageSize <= ranked
    BY DEF AsksOne
<1>2. PICK q \in Query :
          /\ Free(q) /\ IsNew(queries'[q], kind, arg)
          /\ \A s \in Query : s # q => queries'[s] = queries[s]
    BY <1>1, AskEffect DEF Asking, TypeOK
<1>3. WellFormed(queries'[q])
    BY <1>1, <1>2, NewWellFormed
<1>4. Statements'
    BY <1>2, <1>3 DEF Asking, Statements
<1>5. arg * PageSize \in Nat
    BY Numbers
<1>6. kind = "page" => queries'[q].arg * PageSize + queries'[q].got <= ranked
    BY <1>1, <1>2, <1>5, Numbers DEF IsNew, Asking, TypeOK
<1>7. PagesInRange'
    BY <1>2, <1>6 DEF Asking, PagesInRange, Free, IsNew
<1>8. OneList'
    BY <1>1, <1>2 DEF Asking, OneList, Listed, UnderWay, Free, IsNew
<1>9. QED BY <1>4, <1>7, <1>8 DEF Asking

LEMMA AskListEffect ==
    ASSUME TypeOK, Asking, UNCHANGED ranked, AsksList
    PROVE  Asking'
<1>1. "rounds" \in Kind /\ 0 \in Nat
    BY DEF Kind
<1>2. PICK q \in Query :
          /\ Free(q) /\ IsNew(queries'[q], "rounds", 0)
          /\ \A s \in Query : s # q => queries'[s] = Left(s, {"rounds"})
    BY <1>1, AnewEffect DEF Asking, TypeOK, AsksList
<1>3. ASSUME NEW s \in Query, s # q
      PROVE  /\ WellFormed(queries'[s])
             /\ queries'[s].kind = queries[s].kind /\ queries'[s].arg = queries[s].arg
             /\ queries'[s].step = queries[s].step /\ queries'[s].got = queries[s].got
             /\ ~Free(s) /\ queries[s].kind = "rounds" => queries'[s].stray
    <2>1. LET l == Left(s, {"rounds"}) IN
          /\ l.kind = queries[s].kind /\ l.arg = queries[s].arg /\ l.step = queries[s].step
          /\ l.got = queries[s].got
          /\ l.stray = (queries[s].stray \/ (~Free(s) /\ queries[s].kind \in {"rounds"}))
        BY LeftFields DEF TypeOK
    <2>2. queries'[s] = Left(s, {"rounds"}) /\ WellFormed(Left(s, {"rounds"}))
        BY <1>2, <1>3, LeftWellFormed DEF Asking, TypeOK
    <2>3. QED BY <2>1, <2>2
<1>4. WellFormed(queries'[q])
    BY <1>1, <1>2, NewWellFormed
<1>5. Statements'
    BY <1>3, <1>4 DEF Statements
<1>6. PagesInRange'
    BY <1>2, <1>3 DEF Asking, PagesInRange, Free, IsNew
<1>7. \A s \in Query : Listed(s)' => s = q
    BY <1>3 DEF Listed, UnderWay, Free
<1>8. QED BY <1>5, <1>6, <1>7 DEF Asking, OneList

LEMMA LeaveSavesEffect ==
    ASSUME TypeOK, Asking, UNCHANGED ranked, LeavesSaves
    PROVE  Asking'
<1>1. ASSUME NEW s \in Query
      PROVE  /\ WellFormed(queries'[s])
             /\ queries'[s].kind = queries[s].kind /\ queries'[s].arg = queries[s].arg
             /\ queries'[s].step = queries[s].step /\ queries'[s].got = queries[s].got
             /\ queries[s].kind = "rounds" /\ queries[s].stray => queries'[s].stray
    <2>1. LET l == Left(s, Save) IN
          /\ l.kind = queries[s].kind /\ l.arg = queries[s].arg /\ l.step = queries[s].step
          /\ l.got = queries[s].got
          /\ l.stray = (queries[s].stray \/ (~Free(s) /\ queries[s].kind \in Save))
        BY LeftFields DEF TypeOK
    <2>2. queries'[s] = Left(s, Save) /\ WellFormed(Left(s, Save))
        BY LeftWellFormed DEF LeavesSaves, Asking, TypeOK
    <2>3. QED BY <2>1, <2>2
<1>2. Statements'
    BY <1>1 DEF Statements
<1>3. PagesInRange'
    BY <1>1 DEF Asking, PagesInRange, Free
<1>4. \A s \in Query : Listed(s)' => Listed(s)
    BY <1>1 DEF Listed, UnderWay, Free
<1>5. OneList'
    BY <1>4 DEF Asking, OneList
<1>6. QED BY <1>2, <1>3, <1>5 DEF Asking

LEMMA AskOnEffect ==
    ASSUME TypeOK, Asking, UNCHANGED ranked, AsksOn
    PROVE  Asking'
<1>1. PICK q \in Query, r \in Round :
          queries' = [queries EXCEPT ![q] = Asked("bets", r)]
    BY DEF AsksOn
<1>2. "bets" \in Kind /\ r \in Nat
    BY Numbers DEF Kind
<1>3. IsNew(queries'[q], "bets", r) /\ \A s \in Query : s # q => queries'[s] = queries[s]
    BY <1>1, <1>2, AskedTyped DEF Asking, TypeOK
<1>4. WellFormed(queries'[q])
    BY <1>2, <1>3, NewWellFormed
<1>5. Statements'
    BY <1>3, <1>4 DEF Asking, Statements
<1>6. PagesInRange'
    BY <1>3 DEF Asking, PagesInRange, Free, IsNew
<1>7. OneList'
    BY <1>3 DEF Asking, OneList, Listed, UnderWay, Free, IsNew
<1>8. QED BY <1>5, <1>6, <1>7 DEF Asking

LEMMA EmptyEffect ==
    ASSUME UNCHANGED ranked, Empties
    PROVE  Asking'
<1>1. \A q \in Query : queries'[q] = NoQuery
    BY DEF Empties
<1>2. Statements'
    BY <1>1, NoQueryTyped DEF Statements
<1>3. PagesInRange' /\ OneList'
    BY <1>1, NoQueryTyped DEF PagesInRange, OneList, Listed, UnderWay, Free
<1>4. QED BY <1>2, <1>3 DEF Asking

LEMMA DoneAsking ==
    ASSUME TypeOK, Asking, UNCHANGED ranked, NEW q \in Query, Done(q)
    PROVE  Asking'
<1>1. queries'[q] = NoQuery /\ \A s \in Query : s # q => queries'[s] = queries[s]
    BY DoneEffect DEF Asking, TypeOK
<1>2. Statements'
    BY <1>1, NoQueryTyped DEF Asking, Statements
<1>3. PagesInRange'
    BY <1>1, NoQueryTyped DEF Asking, PagesInRange, Free
<1>4. OneList'
    BY <1>1, NoQueryTyped DEF Asking, OneList, Listed, UnderWay, Free
<1>5. QED BY <1>2, <1>3, <1>4 DEF Asking

LEMMA ServeAsking ==
    ASSUME TypeOK, Asking, NEW q \in Query, Execute(q) \/ Fail(q)
    PROVE  Asking'
<1>1. ranked' = ranked /\ ranked \in Nat
    BY Numbers DEF Execute, Fail, Asking, TypeOK
<1>2. WellFormed(queries'[q]) /\ \A s \in Query : s # q => queries'[s] = queries[s]
    BY ExecuteEffect, FailEffect DEF Asking
<1>3. Statements'
    BY <1>2 DEF Asking, Statements
<1>4. "rounds" # "refresh" /\ "refresh" \notin {"rounds"}
    OBVIOUS
<1>5. Kept({"rounds"})
    BY <1>4, ExecuteKeeps, FailKeeps DEF Asking
<1>6. OneList'
    BY <1>5 DEF Asking, OneList, Listed, Kept
<1>7. ~Free(q)' /\ queries'[q].kind = "page" =>
          queries'[q].arg * PageSize + queries'[q].got <= ranked
    <2>1. SUFFICES ASSUME ~Free(q)', queries'[q].kind = "page"
                   PROVE  queries'[q].arg * PageSize + queries'[q].got <= ranked
        OBVIOUS
    <2>2. /\ queries[q].kind = "page" /\ queries'[q].arg = queries[q].arg
          /\ queries'[q].got \in {Result(q), queries[q].got}
        BY <2>1, ExecuteEffect, FailEffect DEF Free, Asking
    <2>3. queries[q].step = "asked" /\ queries[q].got = 0
        BY DEF Execute, Fail, Asking, Statements, WellFormed
    <2>4. queries[q].arg * PageSize + 0 <= ranked
        BY <2>2, <2>3 DEF Asking, PagesInRange, Free
    <2>5. queries[q].arg \in Nat /\ queries[q].arg * PageSize \in Nat
        BY AnswerFields, Numbers DEF Asking
    <2>6. Result(q) = RowsOf(queries[q].arg)
        BY <2>2 DEF Result
    <2>7. queries[q].arg * PageSize + RowsOf(queries[q].arg) <= ranked
        BY <1>1, <2>4, <2>5, RowsOfPage
    <2>8. QED BY <2>2, <2>3, <2>4, <2>6, <2>7
<1>8. PagesInRange'
    BY <1>1, <1>2, <1>7 DEF Asking, PagesInRange, Free
<1>9. QED BY <1>3, <1>6, <1>8 DEF Asking

LEMMA PlayAsking ==
    ASSUME TypeOK, Asking, UNCHANGED queries, ranked' \in Nat, ranked <= ranked'
    PROVE  Asking'
<1>1. ASSUME NEW q \in Query PROVE queries[q].arg * PageSize + queries[q].got \in Int
    <2>1. queries[q] \in QueryRecord
        BY DEF Asking, TypeOK
    <2>2. queries[q].arg \in Nat /\ queries[q].got \in Nat
        BY <2>1 DEF QueryRecord
    <2>3. QED BY <2>2, Numbers
<1>2. ranked \in Int
    BY Numbers DEF Asking, TypeOK
<1>3. PagesInRange'
    BY <1>1, <1>2 DEF Asking, PagesInRange, Free
<1>4. QED BY <1>3 DEF Asking, Statements, OneList, Listed, UnderWay, Free

LEMMA PageBounds ==
    ASSUME NEW p \in Nat
    PROVE  /\ p * PageSize \in Nat
           /\ (p + 1) * PageSize = p * PageSize + PageSize
           /\ p > 0 => (p - 1) * PageSize = p * PageSize - PageSize
BY Numbers

LEMMA KeyAsking ==
    ASSUME IInv, RootKey \/ InspectKey \/ BoardKey \/ SettingsKey
    PROVE  Asking'
<1> USE DEF Asking
<1>1. TypeOK /\ Asking /\ Parts /\ ranked \in Nat /\ ranked' = ranked
    <2>1. TypeOK /\ Asking /\ Parts
        BY TypeParts DEF IInv
    <2>2. ranked \in Nat
        BY <2>1, Numbers DEF Parts, Tables
    <2>3. UNCHANGED tables
        BY DEF RootKey, Quit, Continue, OpenHistory, OpenLatest, OpenInspect, OpenSettings,
               OpenLeaderboard, Leave, InspectKey, MoveCursor, EnterRound, BackToList,
               BoardKey, MoveOnPage, NextPage, PrevPage,
               SettingsKey, SwitchField, SaveName, ToggleHidden, Type
    <2>4. QED BY <2>1, <2>2, <2>3 DEF tables
<1>2. CASE UNCHANGED queries
    BY <1>1, <1>2, PlayAsking
<1>3. CASE AsksOne
    BY <1>1, <1>3, AskOneEffect
<1>4. CASE AsksList
    BY <1>1, <1>4, AskListEffect
<1>5. CASE LeavesSaves
    BY <1>1, <1>5, LeaveSavesEffect
<1>6. CASE Ends
    BY <1>1, <1>6, EmptyEffect DEF Ends, Empties
<1>7. CASE RootKey
    <2>1. 0 * PageSize <= ranked /\ "page" \in Kind \ {"rounds"}
        BY <1>1, Numbers DEF Kind, Save
    <2>2. OpenLeaderboard => AsksOne
        BY <2>1 DEF OpenLeaderboard, AsksOne
    <2>3. OpenSettings => LeavesSaves
        BY DEF OpenSettings, LeavesSaves
    <2>4. OpenHistory \/ OpenLatest => AsksList
        BY DEF OpenHistory, OpenLatest, OpenInspect, AsksList
    <2>5. QED BY <1>2, <1>3, <1>4, <1>5, <1>6, <1>7, <2>2, <2>3, <2>4
             DEF RootKey, Quit, Continue, Leave
<1>8. CASE InspectKey
    <2>1. CASE EnterRound /\ ~OffList(inspect.latest)
        <3>1. inspect.latest \in Round /\ inspect.cursor \in Nat /\ inspect.latest > 0
            BY <1>1, <2>1 DEF EnterRound, Parts, Shown, InspectRecord
        <3>2. inspect.cursor < Size(inspect.latest)
            BY <2>1, <3>1, Numbers DEF OffList, Size, Least
        <3>3. RoundAt(inspect.latest, inspect.cursor) \in Round
              /\ RoundAt(inspect.latest, inspect.cursor) \in Nat
            BY <3>1, <3>2, RoundUnderCursor
        <3>4. Ask("bets", RoundAt(inspect.latest, inspect.cursor)) /\ "bets" \in Kind \ {"rounds"}
            BY <2>1 DEF EnterRound, Kind
        <3>5. AsksOne
            BY <3>3, <3>4 DEF AsksOne
        <3>6. QED BY <1>3, <3>5
    <2>2. QED BY <1>2, <1>6, <1>8, <2>1 DEF InspectKey, MoveCursor, BackToList, EnterRound
<1>9. CASE BoardKey
    <2>1. /\ board.page \in Nat /\ board.rows \in Nat /\ "page" \in Kind \ {"rounds"}
          /\ board.page * PageSize + board.rows <= ranked
        BY <1>1, Numbers DEF IInv, BoardInRange, Parts, Shown, BoardRecord, Kind, Save
    <2>2. CASE NextPage
        <3>1. (board.page + 1) * PageSize <= ranked /\ board.page + 1 \in Nat
            BY <2>1, <2>2, PageBounds DEF NextPage
        <3>2. AsksOne
            BY <2>1, <2>2, <3>1 DEF NextPage, AsksOne
        <3>3. QED BY <1>3, <3>2
    <2>3. CASE PrevPage
        <3>1. board.page > 0 /\ board.page - 1 \in Nat
            BY <2>1, <2>3 DEF PrevPage
        <3>2. (board.page - 1) * PageSize <= ranked
            BY <1>1, <2>1, <3>1, PageBounds, Numbers
        <3>3. AsksOne
            BY <2>1, <2>3, <3>1, <3>2 DEF PrevPage, AsksOne
        <3>4. QED BY <1>3, <3>3
    <2>4. QED BY <1>2, <1>9, <2>2, <2>3 DEF BoardKey, MoveOnPage
<1>10. CASE SettingsKey
    <2>1. CASE SaveName
        <3>1. settings.name \in Name /\ settings.name \in Nat /\ "name" \in Kind \ {"rounds"}
            <4>1. settings.name \in Name
                BY <1>1, <2>1 DEF SaveName, Parts, Shown, SettingsRecord
            <4>2. QED BY <4>1, NameAssumption DEF Kind, Save
        <3>2. AsksOne
            BY <2>1, <3>1 DEF SaveName, AsksOne
        <3>3. QED BY <1>3, <3>2
    <2>2. CASE ToggleHidden
        <3>1. PICK kind \in {"show", "hide"} : Ask(kind, 0)
            BY <2>2 DEF ToggleHidden
        <3>2. kind \in Kind \ {"rounds"} /\ 0 \in Nat /\ kind # "bets" /\ kind # "name" /\ kind # "page"
            BY DEF Kind, Save
        <3>3. AsksOne
            BY <3>1, <3>2 DEF AsksOne
        <3>4. QED BY <1>3, <3>3
    <2>3. QED BY <1>2, <1>10, <2>1, <2>2 DEF SettingsKey, SwitchField, Type
<1>11. QED BY <1>7, <1>8, <1>9, <1>10

LEMMA StepAsking ==
    ASSUME IInv, [Next]_vars
    PROVE  Asking'
<1>1. TypeOK /\ Asking /\ Parts /\ ranked \in Nat
    BY TypeParts, Numbers DEF IInv, Asking, Parts, Tables
<1>2. CASE UNCHANGED vars
    BY <1>1, <1>2, PlayAsking DEF vars, tables
<1>3. CASE TakeSnapshot
    <2>1. Ask("refresh", 0) /\ "refresh" \in Kind \ {"rounds"} /\ UNCHANGED ranked
        BY <1>3 DEF TakeSnapshot, Kind, tables
    <2>2. AsksOne
        BY <2>1 DEF AsksOne
    <2>3. QED BY <1>1, <2>1, <2>2, AskOneEffect
<1>4. CASE Play
    <2>1. UNCHANGED queries /\ ranked' \in Nat /\ ranked <= ranked'
        BY <1>1, <1>4 DEF Play
    <2>2. QED BY <1>1, <2>1, PlayAsking
<1>5. ASSUME NEW q \in Query, Serve(q) PROVE Asking'
    <2>1. CASE Execute(q) \/ Fail(q)
        BY <1>1, <2>1, ServeAsking
    <2>2. CASE Done(q) /\ UNCHANGED ranked
        BY <1>1, <2>2, DoneAsking
    <2>3. CASE Ends /\ UNCHANGED ranked
        BY <1>1, <2>3, EmptyEffect DEF Ends, Empties
    <2>4. CASE RoundsLoaded(q)
        <3> DEFINE latest == queries[q].got
                   onward == inspect.direct /\ latest > 0
        <3>1. UNCHANGED ranked /\ queries[q].kind = "rounds"
            BY <2>4 DEF RoundsLoaded, tables
        <3>2. latest \in Round
            BY <1>1, <3>1, AnswerFields DEF Asking
        <3>3. CASE /\ onward
                   /\ queries' = [queries EXCEPT ![q] = Asked("bets", RoundAt(latest, inspect.cursor))]
            <4>1. inspect.cursor = 0 /\ 0 < Size(latest) /\ latest > 0 /\ 0 \in Nat
                BY <3>2, <3>3, Numbers DEF IInv, Listing, Size, Least
            <4>2. RoundAt(latest, inspect.cursor) \in Round
                BY <3>2, <4>1, RoundUnderCursor
            <4>3. AsksOn
                BY <3>1, <3>3, <4>2 DEF AsksOn
            <4>4. QED BY <1>1, <3>1, <4>3, AskOnEffect
        <3>4. CASE queries' = [queries EXCEPT ![q] = NoQuery]
            BY <2>2, <3>1, <3>4 DEF Done
        <3>5. QED BY <2>2, <2>3, <2>4, <3>1, <3>3, <3>4 DEF RoundsLoaded
    <2>5. CASE BetsLoaded(q)
        BY <2>2, <2>3, <2>5 DEF BetsLoaded, tables
    <2>6. CASE Refreshed(q) \/ PageLoaded(q) \/ Saved(q) \/ SaveFailed(q)
        BY <2>2, <2>6 DEF Refreshed, PageLoaded, Saved, SaveFailed, tables
    <2>7. QED BY <1>5, <2>1, <2>4, <2>5, <2>6 DEF Serve, Answer
<1>6. QED BY <1>2, <1>3, <1>4, <1>5, KeyAsking DEF Next

-----------------------------------------------------------------------------
(* The leaderboard.                                                        *)

LEMMA BoardKept ==
    ASSUME TypeOK, BoardInRange, UNCHANGED board, Kept({"page"}),
           ranked' \in Nat, ranked <= ranked'
    PROVE  BoardInRange'
<1>1. board \in BoardRecord /\ ranked \in Int
    BY TypeParts, Numbers DEF Parts, Shown, Tables
<1>2. board.page * PageSize + board.rows \in Int
    <2>1. board.page \in Nat /\ board.rows \in Nat
        BY <1>1, Numbers DEF BoardRecord
    <2>2. QED BY <2>1, Numbers
<1>3. board.loading => \E q \in Query : UnderWay(q, {"page"})'
    BY DEF BoardInRange, Kept
<1>4. Above(board.page)' = Above(board.page)
    BY DEF Above
<1>5. QED BY <1>1, <1>2, <1>3, <1>4 DEF BoardInRange

LEMMA BoardOff ==
    ASSUME TypeOK', screen' # "leaderboard"
    PROVE  BoardInRange'
<1>1. board' = NoBoard /\ ranked' \in Nat
    BY Numbers DEF TypeOK
<1>2. 0 * PageSize + 0 = 0 /\ 0 * PageSize = 0
    BY Numbers
<1>3. QED BY <1>1, <1>2 DEF BoardInRange, NoBoard, Above

\* A page is asked for.
LEMMA PageAsked ==
    ASSUME TypeOK, NEW p \in Nat, Ask("page", p)
    PROVE  \E q \in Query : UnderWay(q, {"page"})'
<1>1. "page" \in Kind
    BY DEF Kind
<1>2. PICK q \in Query : IsNew(queries'[q], "page", p)
    BY <1>1, AskEffect DEF TypeOK
<1>3. QED BY <1>2 DEF UnderWay, Free, IsNew

LEMMA BoardKeys ==
    ASSUME IInv, BoardKey
    PROVE  BoardInRange'
<1>1. TypeOK /\ BoardInRange /\ board \in BoardRecord
    BY TypeParts DEF IInv, Parts, Shown
<1>2. /\ board.page \in Nat /\ board.rows \in Nat /\ board.cursor \in Nat
    BY <1>1, Numbers DEF BoardRecord
<1>3. CASE MoveOnPage
    <2>1. /\ board'.cursor \in Moves(board.cursor, board.rows)
          /\ board'.rows = board.rows /\ board'.page = board.page
          /\ board'.above = board.above /\ board'.loading = board.loading
          /\ UNCHANGED <<queries, ranked>>
        BY <1>1, <1>3 DEF MoveOnPage, BoardRecord, tables
    <2>2. board.rows > 0 /\ board'.cursor < board.rows
        BY <1>1, <1>2, <2>1 DEF Moves, BoardInRange
    <2>3. board.loading => \E q \in Query : UnderWay(q, {"page"})'
        BY <1>1, <2>1 DEF BoardInRange, UnderWay, Free
    <2>4. QED BY <1>1, <1>2, <2>1, <2>2, <2>3 DEF BoardInRange, Above
<1>4. ASSUME NEW p \in Nat, Ask("page", p), board' = [board EXCEPT !.loading = TRUE],
             UNCHANGED ranked
      PROVE  BoardInRange'
    <2>1. /\ board'.cursor = board.cursor /\ board'.rows = board.rows
          /\ board'.page = board.page /\ board'.above = board.above
        BY <1>1, <1>4 DEF BoardRecord
    <2>2. \E q \in Query : UnderWay(q, {"page"})'
        BY <1>1, <1>4, PageAsked
    <2>3. QED BY <1>1, <1>4, <2>1, <2>2 DEF BoardInRange, Above
<1>5. CASE NextPage
    BY <1>2, <1>4, <1>5 DEF NextPage, tables
<1>6. CASE PrevPage
    <2>1. board.page - 1 \in Nat
        BY <1>2, <1>6 DEF PrevPage
    <2>2. QED BY <1>4, <1>6, <2>1 DEF PrevPage, tables
<1>7. QED BY <1>3, <1>5, <1>6 DEF BoardKey

LEMMA StepBoard ==
    ASSUME IInv, TypeOK', [Next]_vars
    PROVE  BoardInRange'
<1>1. /\ TypeOK /\ Statements /\ PagesInRange /\ BoardInRange
      /\ ranked \in Nat /\ ranked' \in Nat
    BY Numbers DEF IInv, TypeOK
<1>2. CASE screen' # "leaderboard"
    BY <1>2, BoardOff
<1>3. ASSUME screen' = "leaderboard", UNCHANGED <<board, ranked>>, Kept({"page"}) PROVE BoardInRange'
    BY <1>1, <1>3, BoardKept
<1>4. CASE UNCHANGED vars
    BY <1>2, <1>3, <1>4, UnchangedKeeps DEF vars, screens, tables
<1>5. CASE RootKey
    <2>1. CASE OpenLeaderboard
        <3>1. \E q \in Query : UnderWay(q, {"page"})'
            BY <1>1, <2>1, PageAsked DEF OpenLeaderboard
        <3>2. board'.rows = 0 /\ board'.above = 0 /\ board'.page = 0 /\ board'.cursor = 0
            BY <2>1 DEF OpenLeaderboard, NoBoard
        <3>3. 0 * PageSize + 0 = 0 /\ 0 * PageSize = 0
            BY Numbers
        <3>4. QED BY <1>1, <3>1, <3>2, <3>3 DEF BoardInRange, Above
    <2>2. CASE ~OpenLeaderboard
        <3>1. screen' # "leaderboard"
            BY <1>5, <2>2 DEF RootKey, Quit, Ends, Continue, OpenHistory, OpenLatest, OpenInspect,
                              OpenSettings, Leave, ToGame
        <3>2. QED BY <1>2, <3>1
    <2>3. QED BY <2>1, <2>2
<1>6. CASE InspectKey \/ SettingsKey
    <2>1. screen' # "leaderboard"
        BY <1>6 DEF InspectKey, MoveCursor, EnterRound, BackToList, InList, InDetail, Ends,
                    SettingsKey, SwitchField, Type, SaveName, ToggleHidden, Editing
    <2>2. QED BY <1>2, <2>1
<1>7. CASE TakeSnapshot
    <2>1. Ask("refresh", 0) /\ "refresh" \in Kind /\ UNCHANGED <<board, ranked>>
        BY <1>7 DEF TakeSnapshot, Kind, tables, screens
    <2>2. Kept({"page"})
        BY <1>1, <2>1, AskKeeps
    <2>3. QED BY <1>2, <1>3, <2>1, <2>2
<1>8. CASE Play
    <2>1. UNCHANGED <<board, queries>> /\ ranked <= ranked'
        BY <1>1, <1>8 DEF Play, screens
    <2>2. Kept({"page"})
        BY <2>1, UnchangedKeeps
    <2>3. QED BY <1>1, <2>1, <2>2, BoardKept
<1>9. ASSUME NEW q \in Query, Serve(q) PROVE BoardInRange'
    <2>1. CASE Execute(q) \/ Fail(q)
        <3>1. Kept({"page"}) /\ UNCHANGED <<board, ranked>>
            BY <1>1, <2>1, ExecuteKeeps, FailKeeps DEF Execute, Fail, screens
        <3>2. QED BY <1>2, <1>3, <3>1
    <2>2. CASE Done(q) /\ queries[q].kind # "page" /\ UNCHANGED <<board, ranked>>
        <3>1. Kept({"page"})
            BY <1>1, <2>2, DoneKeeps
        <3>2. QED BY <1>2, <1>3, <2>2, <3>1
    <2>3. CASE PageLoaded(q) /\ screen = "leaderboard"
        <3>1. /\ queries[q].kind = "page" /\ ~Free(q) /\ UNCHANGED ranked
              /\ board' = [rows |-> queries[q].got, above |-> Above(queries[q].arg),
                           page |-> queries[q].arg, cursor |-> 0, loading |-> FALSE]
            BY <2>3 DEF PageLoaded, Free, tables
        <3>2. queries[q].arg * PageSize + queries[q].got <= ranked
            BY <1>1, <3>1 DEF PagesInRange
        <3>3. queries[q].got \in Nat
            BY <1>1, <3>1, AnswerFields, Numbers
        <3>4. QED BY <3>1, <3>2, <3>3 DEF BoardInRange, Above
    <2>4. CASE PageLoaded(q) /\ screen # "leaderboard"
        BY <1>2, <2>4 DEF PageLoaded
    <2>5. CASE Refreshed(q)
        BY <2>2, <2>5 DEF Refreshed, screens, tables
    <2>6. CASE RoundsLoaded(q)
        BY <1>2, <2>2, <2>6 DEF RoundsLoaded, Ends, screens, tables
    <2>7. CASE BetsLoaded(q)
        BY <1>2, <2>2, <2>7 DEF BetsLoaded, Ends, tables
    <2>8. CASE Saved(q) \/ SaveFailed(q)
        BY <1>2, <2>2, <2>8 DEF Saved, SaveFailed, Saves, Save, ToGame, screens, tables
    <2>9. QED BY <1>9, <2>1, <2>3, <2>4, <2>5, <2>6, <2>7, <2>8 DEF Serve, Answer
<1>10. QED BY <1>4, <1>5, <1>6, <1>7, <1>8, <1>9, BoardKeys DEF Next

-----------------------------------------------------------------------------
(* The settings.                                                           *)

LEMMA SavesKept ==
    ASSUME SavesShown, UNCHANGED <<screen, settings, strayed>>, Kept(Save)
    PROVE  SavesShown'
<1>1. settings.saving => \E q \in Query : UnderWay(q, Save)'
    BY DEF SavesShown, Kept
<1>2. ASSUME screen = "settings", ~strayed, NEW q \in Query, UnderWay(q, Save)'
      PROVE  /\ settings.saving
             /\ \A s \in Query : UnderWay(s, Save)' => s = q
             /\ settings.savingName <=> queries'[q].kind = "name"
             /\ queries'[q].kind = "name" => queries'[q].arg = settings.name
             /\ queries'[q].kind = "hide" => settings.hidden
             /\ queries'[q].kind = "show" => ~settings.hidden
    <2>1. /\ UnderWay(q, Save)
          /\ queries'[q].kind = queries[q].kind /\ queries'[q].arg = queries[q].arg
          /\ \A s \in Query : UnderWay(s, Save)' => UnderWay(s, Save)
        BY <1>2 DEF Kept
    <2>2. QED BY <1>2, <2>1 DEF SavesShown
<1>3. QED BY <1>1, <1>2 DEF SavesShown

LEMMA SavesOff ==
    ASSUME TypeOK', screen' # "settings"
    PROVE  SavesShown'
<1>1. settings' = NoSettings
    BY DEF TypeOK
<1>2. QED BY <1>1 DEF SavesShown, NoSettings

\* A save is asked for: the only one of this visit.
LEMMA SaveAsked ==
    ASSUME TypeOK, SavesShown, screen = "settings", ~settings.saving,
           NEW kind \in Save, NEW arg \in Nat, Ask(kind, arg),
           UNCHANGED <<screen, strayed>>, settings'.saving,
           settings'.savingName <=> kind = "name",
           kind = "name" => arg = settings'.name,
           kind = "hide" => settings'.hidden,
           kind = "show" => ~settings'.hidden
    PROVE  SavesShown'
<1>1. kind \in Kind
    BY DEF Kind
<1>2. PICK q \in Query :
          /\ Free(q) /\ IsNew(queries'[q], kind, arg)
          /\ \A s \in Query : s # q => queries'[s] = queries[s]
    BY <1>1, AskEffect DEF TypeOK
<1>3. UnderWay(q, Save)'
    BY <1>2 DEF UnderWay, Free, IsNew
<1>4. ~strayed => \A s \in Query : UnderWay(s, Save)' => s = q
    BY <1>2 DEF SavesShown, UnderWay, Free
<1>5. queries'[q].kind = kind /\ queries'[q].arg = arg
    BY <1>2 DEF IsNew
<1>6. QED BY <1>3, <1>4, <1>5 DEF SavesShown

LEMMA SettingsKeys ==
    ASSUME IInv, SettingsKey
    PROVE  SavesShown'
<1>1. TypeOK /\ SavesShown /\ settings \in SettingsRecord
    BY TypeParts DEF IInv, Parts, Shown
<1>2. screen = "settings" /\ ~settings.saving /\ UNCHANGED <<screen, strayed>>
    BY DEF SettingsKey, SwitchField, Type, SaveName, ToggleHidden, Editing
<1>3. CASE SwitchField \/ \E name \in Name : Type(name)
    <2>1. ~settings'.saving /\ UNCHANGED queries
        BY <1>1, <1>2, <1>3 DEF SwitchField, Type, SettingsRecord
    <2>2. ~strayed => \A q \in Query : ~UnderWay(q, Save)'
        BY <1>1, <1>2, <2>1 DEF SavesShown, UnderWay, Free
    <2>3. QED BY <1>2, <2>1, <2>2 DEF SavesShown
<1>4. CASE SaveName
    <2>1. /\ settings'.saving /\ settings'.savingName /\ settings'.name = settings.name
        BY <1>1, <1>4 DEF SaveName, SettingsRecord
    <2>2. settings.name \in Nat
        <3>1. settings.name \in Name
            BY <1>1, <1>4 DEF SaveName, SettingsRecord
        <3>2. QED BY <3>1, NameAssumption
    <2>3. Ask("name", settings.name) /\ "name" \in Save
        BY <1>4 DEF SaveName, Save
    <2>4. QED BY <1>1, <1>2, <2>1, <2>2, <2>3, SaveAsked
<1>5. CASE ToggleHidden
    <2>1. /\ settings'.saving /\ ~settings'.savingName /\ settings'.hidden = ~settings.hidden
          /\ settings.hidden \in BOOLEAN
        BY <1>1, <1>5 DEF ToggleHidden, SettingsRecord
    <2>2. CASE settings.hidden
        <3>1. Ask("show", 0) /\ "show" \in Save /\ 0 \in Nat
            BY <1>5, <2>2 DEF ToggleHidden, Save
        <3>2. QED BY <1>1, <1>2, <2>1, <2>2, <3>1, SaveAsked
    <2>3. CASE ~settings.hidden
        <3>1. Ask("hide", 0) /\ "hide" \in Save /\ 0 \in Nat
            BY <1>5, <2>3 DEF ToggleHidden, Save
        <3>2. QED BY <1>1, <1>2, <2>1, <2>3, <3>1, SaveAsked
    <2>4. QED BY <2>2, <2>3
<1>6. QED BY <1>3, <1>4, <1>5 DEF SettingsKey

\* The answer to a save releases the screen.
LEMMA SaveAnswered ==
    ASSUME IInv, TypeOK', NEW q \in Query, Saved(q) \/ SaveFailed(q)
    PROVE  SavesShown'
<1>1. TypeOK /\ SavesShown /\ settings \in SettingsRecord
    BY TypeParts DEF IInv, Parts, Shown
<1>2. CASE screen' # "settings"
    BY <1>2, SavesOff
<1>3. CASE screen' = "settings"
    <2>1. screen = "settings" /\ ~settings'.saving /\ strayed' = (strayed \/ queries[q].stray)
        BY <1>1, <1>3 DEF Saved, SaveFailed, ToGame, SettingsRecord
    <2>2. Done(q) /\ queries[q].kind \in Save /\ ~Free(q)
        BY DEF Saved, SaveFailed, Saves, Free
    <2>3. queries'[q] = NoQuery /\ \A s \in Query : s # q => queries'[s] = queries[s]
        BY <1>1, <2>2, DoneEffect DEF TypeOK
    <2>4. ~strayed' => \A s \in Query : ~UnderWay(s, Save)'
        <3>1. SUFFICES ASSUME ~strayed', NEW s \in Query, UnderWay(s, Save)' PROVE FALSE
            OBVIOUS
        <3>2. s # q /\ UnderWay(s, Save)
            BY <2>3, <3>1, NoQueryTyped DEF UnderWay, Free
        <3>3. UnderWay(q, Save) /\ ~strayed
            BY <2>1, <2>2, <3>1 DEF UnderWay
        <3>4. QED BY <1>1, <2>1, <3>2, <3>3 DEF SavesShown
    <2>5. QED BY <2>1, <2>4 DEF SavesShown
<1>4. QED BY <1>2, <1>3

LEMMA StepSaves ==
    ASSUME IInv, TypeOK', [Next]_vars
    PROVE  SavesShown'
<1>1. TypeOK /\ Statements /\ SavesShown
    BY DEF IInv
<1>2. CASE screen' # "settings"
    BY <1>2, SavesOff
<1>3. ASSUME UNCHANGED <<screen, settings, strayed>>, Kept(Save) PROVE SavesShown'
    BY <1>1, <1>3, SavesKept
<1>4. CASE UNCHANGED vars
    BY <1>3, <1>4, UnchangedKeeps DEF vars, screens
<1>5. CASE RootKey
    <2>1. CASE OpenSettings
        <3>1. ~settings'.saving
            BY <2>1 DEF OpenSettings, NoSettings
        <3>2. ASSUME NEW s \in Query PROVE ~UnderWay(s, Save)'
            <4>1. LET l == Left(s, Save) IN
                  /\ l.kind = queries[s].kind /\ l.step = queries[s].step
                  /\ l.stray = (queries[s].stray \/ (~Free(s) /\ queries[s].kind \in Save))
                BY <1>1, LeftFields DEF TypeOK
            <4>2. queries'[s] = Left(s, Save)
                BY <2>1 DEF OpenSettings
            <4>3. QED BY <4>1, <4>2 DEF UnderWay, Free
        <3>3. QED BY <3>1, <3>2 DEF SavesShown
    <2>2. CASE ~OpenSettings
        <3>1. screen' # "settings"
            BY <1>5, <2>2 DEF RootKey, Quit, Ends, Continue, OpenHistory, OpenLatest, OpenInspect,
                              OpenLeaderboard, Leave, ToGame
        <3>2. QED BY <1>2, <3>1
    <2>3. QED BY <2>1, <2>2
<1>6. CASE InspectKey \/ BoardKey
    <2>1. screen' # "settings"
        BY <1>6 DEF InspectKey, MoveCursor, EnterRound, BackToList, InList, InDetail, Ends,
                    BoardKey, MoveOnPage, NextPage, PrevPage
    <2>2. QED BY <1>2, <2>1
<1>7. CASE TakeSnapshot
    <2>1. /\ Ask("refresh", 0) /\ "refresh" \in Kind /\ "refresh" \notin Save
          /\ UNCHANGED <<screen, settings, strayed>>
        BY <1>7 DEF TakeSnapshot, Kind, Save, screens
    <2>2. Kept(Save)
        BY <1>1, <2>1, AskKeeps
    <2>3. QED BY <1>3, <2>1, <2>2
<1>8. CASE Play
    BY <1>3, <1>8, UnchangedKeeps DEF Play, screens
<1>9. ASSUME NEW q \in Query, Serve(q) PROVE SavesShown'
    <2>1. CASE Execute(q) \/ Fail(q)
        <3>1. "refresh" \notin Save
            BY DEF Save
        <3>2. Kept(Save) /\ UNCHANGED <<screen, settings, strayed>>
            BY <1>1, <2>1, <3>1, ExecuteKeeps, FailKeeps DEF Execute, Fail, screens
        <3>3. QED BY <1>3, <3>2
    <2>2. CASE Done(q) /\ queries[q].kind \notin Save /\ UNCHANGED <<screen, settings, strayed>>
        <3>1. Kept(Save)
            BY <1>1, <2>2, DoneKeeps
        <3>2. QED BY <1>3, <2>2, <3>1
    <2>3. CASE Refreshed(q)
        BY <2>2, <2>3 DEF Refreshed, Save, screens
    <2>4. CASE RoundsLoaded(q)
        BY <1>2, <2>2, <2>4 DEF RoundsLoaded, Ends, Save, screens
    <2>5. CASE BetsLoaded(q)
        BY <1>2, <2>2, <2>5 DEF BetsLoaded, Ends, Save
    <2>6. CASE PageLoaded(q)
        BY <2>2, <2>6 DEF PageLoaded, Save
    <2>7. QED BY <1>9, <2>1, <2>3, <2>4, <2>5, <2>6, SaveAnswered DEF Serve, Answer
<1>10. QED BY <1>4, <1>5, <1>6, <1>7, <1>8, <1>9, SettingsKeys DEF Next

-----------------------------------------------------------------------------
(* The history.                                                            *)

LEMMA ListingKept ==
    ASSUME Listing, UNCHANGED <<screen, inspect, strayed>>, Kept({"rounds"})
    PROVE  Listing'
<1>1. \A q \in Query : Listed(q)' <=> Listed(q)
    BY DEF Kept, Listed
<1>2. QED BY <1>1 DEF Listing, OffList

LEMMA DetailKept ==
    ASSUME DetailBets, UNCHANGED <<screen, inspect, strayed>>, Kept({"bets"})
    PROVE  DetailBets'
<1> DEFINE shownRound == RoundAt(inspect.latest, inspect.cursor)
<1>1. ASSUME NEW q \in Query, UnderWay(q, {"bets"}), queries[q].arg = shownRound
      PROVE  UnderWay(q, {"bets"})' /\ queries'[q].arg = shownRound
    BY <1>1 DEF Kept
<1>2. QED BY <1>1 DEF DetailBets, InDetail, RoundAt

LEMMA InspectOff ==
    ASSUME TypeOK', screen' # "inspect"
    PROVE  Listing' /\ DetailBets'
<1>1. inspect' = NoInspect
    BY DEF TypeOK
<1>2. QED BY <1>1 DEF Listing, DetailBets, InDetail, OffList, NoInspect

LEMMA InspectOpened ==
    ASSUME TypeOK, NEW direct \in BOOLEAN, OpenInspect(direct)
    PROVE  Listing' /\ DetailBets'
<1>1. "rounds" \in Kind /\ 0 \in Nat
    BY DEF Kind
<1>2. PICK q \in Query : IsNew(queries'[q], "rounds", 0)
    BY <1>1, AnewEffect DEF OpenInspect, TypeOK
<1>3. Listed(q)'
    BY <1>2 DEF Listed, UnderWay, Free, IsNew
<1>4. /\ inspect'.loading /\ inspect'.latest = 0 /\ inspect'.cursor = 0 /\ ~inspect'.detail
    BY DEF OpenInspect, NoInspect
<1>5. QED BY <1>3, <1>4 DEF Listing, DetailBets, InDetail, OffList

LEMMA InspectKeys ==
    ASSUME IInv, TypeOK', InspectKey
    PROVE  Listing' /\ DetailBets'
<1>1. TypeOK /\ Listing /\ DetailBets /\ inspect \in InspectRecord
    BY TypeParts DEF IInv, Parts, Shown
<1>2. inspect.latest \in Nat /\ inspect.cursor \in Nat
    BY <1>1, Numbers DEF InspectRecord
<1>3. CASE MoveCursor
    <2>1. /\ inspect'.cursor \in Moves(inspect.cursor, Size(inspect.latest))
          /\ inspect'.latest = inspect.latest /\ ~inspect'.loading
          /\ ~inspect'.detail /\ inspect'.direct = inspect.direct
          /\ screen = "inspect" /\ ~inspect.detail /\ ~inspect.loading
          /\ UNCHANGED <<screen, strayed, queries>>
        BY <1>1, <1>3 DEF MoveCursor, InList, InspectRecord
    <2>2. Size(inspect.latest) \in Nat /\ (inspect.latest = 0 => Size(inspect.latest) = 0)
        BY <1>2, Numbers DEF Size, Least
    <2>3. ~inspect.direct
        <3>1. SUFFICES ASSUME inspect.direct PROVE FALSE
            OBVIOUS
        <3>2. inspect.cursor = 0 /\ inspect.latest = 0
            BY <1>1, <2>1, <3>1 DEF Listing
        <3>3. QED BY <2>1, <2>2, <3>2 DEF Moves
    <2>4. ~strayed /\ inspect.latest > 0 => inspect'.cursor < Size(inspect.latest)
        <3>1. SUFFICES ASSUME ~strayed, inspect.latest > 0
                       PROVE  inspect'.cursor < Size(inspect.latest)
            OBVIOUS
        <3>2. inspect.cursor < Size(inspect.latest)
            BY <1>1, <1>2, <2>2, <3>1 DEF Listing, OffList
        <3>3. QED BY <1>2, <2>1, <2>2, <3>2 DEF Moves
    <2>5. ~strayed => ~OffList(inspect.latest)'
        <3>1. inspect'.cursor \in Int
            BY <1>2, <2>1 DEF Moves
        <3>2. Size(inspect.latest)' = Size(inspect.latest)
            BY <2>1 DEF Size
        <3>3. QED BY <2>1, <2>2, <2>4, <3>1, <3>2 DEF OffList
    <2>6. \A q \in Query : Listed(q)' <=> Listed(q)
        BY <2>1 DEF Listed, UnderWay, Free
    <2>7. Listing'
        BY <1>1, <2>1, <2>3, <2>5, <2>6 DEF Listing
    <2>8. QED BY <2>1, <2>7 DEF DetailBets, InDetail
<1>4. CASE EnterRound
    <2>1. CASE Ends
        BY <2>1, InspectOff DEF Ends
    <2>2. CASE ~Ends
        <3> DEFINE r == RoundAt(inspect.latest, inspect.cursor)
        <3>1. /\ inspect'.latest = inspect.latest /\ inspect'.cursor = inspect.cursor
              /\ ~inspect'.loading /\ inspect'.detail /\ inspect'.betsLoading
              /\ inspect'.direct = inspect.direct
              /\ ~inspect.loading /\ inspect.latest > 0 /\ ~inspect.detail
              /\ screen = "inspect" /\ UNCHANGED <<screen, strayed>>
              /\ Ask("bets", r) /\ ~OffList(inspect.latest)
            BY <1>1, <1>4, <2>2 DEF EnterRound, InList, InspectRecord
        <3>2. r \in Nat /\ "bets" \in Kind
            <4>1. inspect.cursor < Size(inspect.latest) /\ inspect.latest \in Round
                BY <1>1, <1>2, <3>1, Numbers DEF OffList, Size, Least, InspectRecord
            <4>2. QED BY <1>2, <3>1, <4>1, RoundUnderCursor DEF Kind
        <3>3. Kept({"rounds"})
            <4>1. "bets" \notin {"rounds"}
                OBVIOUS
            <4>2. QED BY <1>1, <3>1, <3>2, <4>1, AskKeeps
        <3>4. PICK q \in Query : IsNew(queries'[q], "bets", r)
            BY <1>1, <3>1, <3>2, AskEffect DEF TypeOK
        <3>5. UnderWay(q, {"bets"})' /\ queries'[q].arg = r
            BY <3>4 DEF UnderWay, Free, IsNew
        <3>6. RoundAt(inspect.latest, inspect.cursor)' = r
            BY <3>1 DEF RoundAt
        <3>7. DetailBets'
            BY <3>1, <3>5, <3>6 DEF DetailBets
        <3>8. \A s \in Query : Listed(s)' <=> Listed(s)
            BY <3>3 DEF Kept, Listed
        <3>9. Listing'
            BY <1>1, <3>1, <3>8 DEF Listing, OffList
        <3>10. QED BY <3>7, <3>9
    <2>3. QED BY <2>1, <2>2
<1>5. CASE BackToList
    <2>1. /\ inspect'.latest = inspect.latest /\ inspect'.cursor = inspect.cursor
          /\ inspect'.loading = inspect.loading /\ ~inspect'.detail
          /\ ~inspect'.direct /\ inspect.detail
          /\ UNCHANGED <<screen, strayed, queries>>
        BY <1>1, <1>5 DEF BackToList, InDetail, InspectRecord
    <2>2. \A s \in Query : Listed(s)' <=> Listed(s)
        BY <2>1 DEF Listed, UnderWay, Free
    <2>3. Listing'
        BY <1>1, <2>1, <2>2 DEF Listing, OffList
    <2>4. QED BY <2>1, <2>3 DEF DetailBets, InDetail
<1>6. QED BY <1>3, <1>4, <1>5 DEF InspectKey

\* The list arrives.  If it is the one asked for in this visit, nothing was
\* done on the screen before.
LEMMA ListArrives ==
    ASSUME IInv, TypeOK', NEW q \in Query, RoundsLoaded(q), screen' = "inspect"
    PROVE  Listing' /\ DetailBets'
<1>1. TypeOK /\ Statements /\ OneList /\ Listing /\ DetailBets /\ inspect \in InspectRecord
    BY TypeParts DEF IInv, Parts, Shown
<1> DEFINE latest == queries[q].got
           onward == inspect.direct /\ latest > 0
           r == RoundAt(latest, inspect.cursor)
<1>2. latest \in Round /\ latest \in Nat /\ inspect.cursor \in Nat
    BY <1>1, AnswerFields, Numbers DEF RoundsLoaded, InspectRecord
<1>3. /\ inspect'.latest = latest /\ inspect'.cursor = inspect.cursor
      /\ ~inspect'.loading /\ inspect'.direct = inspect.direct
      /\ inspect'.detail = (inspect.detail \/ onward)
      /\ inspect'.betsLoading = (inspect.betsLoading \/ onward)
      /\ queries' = [queries EXCEPT ![q] = IF onward THEN Asked("bets", r) ELSE NoQuery]
      /\ strayed' = (strayed \/ queries[q].stray)
      /\ screen = "inspect" /\ queries[q].kind = "rounds" /\ ~Free(q)
    BY <1>1 DEF RoundsLoaded, Ends, InspectRecord, Free
<1>4. inspect.direct => inspect.cursor = 0
    BY <1>1 DEF Listing
<1>5. /\ onward => IsNew(queries'[q], "bets", r)
      /\ ~onward => queries'[q] = NoQuery
      /\ \A s \in Query : s # q => queries'[s] = queries[s]
    <2>1. CASE onward
        <3>1. 0 < Size(latest) /\ latest > 0
            BY <1>2, <2>1, Numbers DEF Size, Least
        <3>2. r \in Nat /\ "bets" \in Kind
            BY <1>2, <1>4, <2>1, <3>1, RoundUnderCursor DEF Kind
        <3>3. queries'[q] = Asked("bets", r) /\ \A s \in Query : s # q => queries'[s] = queries[s]
            BY <1>1, <1>3, <2>1 DEF TypeOK
        <3>4. QED BY <2>1, <3>2, <3>3, AskedTyped
    <2>2. CASE ~onward
        BY <1>1, <1>3, <2>2 DEF TypeOK
    <2>3. QED BY <2>1, <2>2
<1>6. ~strayed' => /\ Listed(q) /\ ~strayed /\ inspect.cursor = 0 /\ ~inspect.detail
    <2>1. SUFFICES ASSUME ~strayed' PROVE Listed(q) /\ ~strayed /\ inspect.cursor = 0 /\ ~inspect.detail
        OBVIOUS
    <2>2. Listed(q) /\ ~strayed
        BY <1>3, <2>1 DEF Listed, UnderWay
    <2>3. QED BY <1>1, <1>3, <2>2 DEF Listing
<1>7. ~strayed' => \A s \in Query : ~Listed(s)'
    <2>1. SUFFICES ASSUME ~strayed', NEW s \in Query, Listed(s)' PROVE FALSE
        OBVIOUS
    <2>2. CASE s = q
        BY <1>5, <2>1, <2>2, NoQueryTyped DEF Listed, UnderWay, Free, IsNew
    <2>3. CASE s # q
        BY <1>1, <1>5, <1>6, <2>1, <2>3 DEF OneList, Listed, UnderWay, Free
    <2>4. QED BY <2>2, <2>3
<1>8. ~strayed' => ~OffList(inspect.latest)'
    BY <1>2, <1>3, <1>6, Numbers DEF OffList, Size, Least
<1>9. Listing'
    <2>1. inspect'.direct => inspect'.cursor = 0 /\ (~inspect'.detail => inspect'.latest = 0)
        <3>1. SUFFICES ASSUME inspect'.direct
                       PROVE  inspect'.cursor = 0 /\ (~inspect'.detail => inspect'.latest = 0)
            OBVIOUS
        <3>2. inspect.direct
            BY <1>3, <3>1
        <3>3. inspect'.cursor = 0
            BY <1>3, <1>4, <3>2
        <3>4. CASE latest > 0
            BY <1>3, <3>2, <3>3, <3>4
        <3>5. CASE latest = 0
            BY <1>3, <3>3, <3>5
        <3>6. QED BY <1>2, <3>4, <3>5
    <2>2. QED BY <1>3, <1>7, <1>8, <2>1 DEF Listing
<1>10. DetailBets'
    <2>1. SUFFICES ASSUME ~strayed', inspect'.detail PROVE DetailBets'
        BY DEF DetailBets, InDetail
    <2>2. onward /\ latest > 0 /\ inspect'.betsLoading
        BY <1>3, <1>6, <2>1
    <2>3. UnderWay(q, {"bets"})' /\ queries'[q].arg = r
        BY <1>5, <2>2 DEF UnderWay, Free, IsNew
    <2>4. RoundAt(inspect.latest, inspect.cursor)' = r
        BY <1>3 DEF RoundAt
    <2>5. QED BY <1>3, <2>2, <2>3, <2>4 DEF DetailBets
<1>11. QED BY <1>9, <1>10

LEMMA BetsArrive ==
    ASSUME IInv, TypeOK', NEW q \in Query, BetsLoaded(q), screen' = "inspect"
    PROVE  Listing' /\ DetailBets'
<1>1. TypeOK /\ Statements /\ Listing /\ DetailBets /\ inspect \in InspectRecord
    BY TypeParts DEF IInv, Parts, Shown
<1> DEFINE shownRound == RoundAt(inspect.latest, inspect.cursor)
<1>2. /\ Done(q) /\ queries[q].kind = "bets" /\ screen = "inspect"
      /\ UNCHANGED strayed
      /\ queries[q].got \in {0, queries[q].arg}
    BY <1>1, AnswerFields DEF BetsLoaded, Ends
<1>3. /\ inspect'.latest = inspect.latest /\ inspect'.cursor = inspect.cursor
      /\ inspect'.loading = inspect.loading /\ inspect'.direct = inspect.direct
      /\ inspect'.detail = inspect.detail
      /\ IF inspect.latest > 0 /\ queries[q].arg = shownRound
         THEN ~inspect'.betsLoading /\ inspect'.bets = queries[q].got
         ELSE inspect' = inspect
    BY <1>1, <1>2 DEF BetsLoaded, Ends, InspectRecord
<1>4. queries'[q] = NoQuery /\ \A s \in Query : s # q => queries'[s] = queries[s]
    BY <1>1, <1>2, DoneEffect DEF TypeOK
<1>5. \A s \in Query : Listed(s)' <=> Listed(s)
    BY <1>2, <1>4, NoQueryTyped DEF Listed, UnderWay, Free
<1>6. Listing'
    BY <1>1, <1>2, <1>3, <1>5 DEF Listing, OffList
<1>7. RoundAt(inspect.latest, inspect.cursor)' = shownRound
    BY <1>3 DEF RoundAt
<1>8. DetailBets'
    <2>1. SUFFICES ASSUME InDetail, ~strayed PROVE DetailBets'
        BY <1>2, <1>3 DEF DetailBets, InDetail
    <2>2. inspect.latest > 0
        BY <1>1, <2>1 DEF DetailBets
    <2>3. CASE queries[q].arg = shownRound
        BY <1>2, <1>3, <1>7, <2>2, <2>3 DEF DetailBets
    <2>4. CASE queries[q].arg # shownRound
        <3>1. inspect' = inspect
            BY <1>3, <2>4
        <3>2. CASE inspect.betsLoading
            <4>1. PICK s \in Query : UnderWay(s, {"bets"}) /\ queries[s].arg = shownRound
                BY <1>1, <2>1, <3>2 DEF DetailBets
            <4>2. UnderWay(s, {"bets"})' /\ queries'[s].arg = shownRound
                BY <1>4, <2>4, <4>1 DEF UnderWay, Free
            <4>3. QED BY <1>7, <2>2, <3>1, <3>2, <4>2 DEF DetailBets
        <3>3. CASE ~inspect.betsLoading
            BY <1>1, <1>7, <2>1, <3>1, <3>3 DEF DetailBets
        <3>4. QED BY <3>2, <3>3
    <2>5. QED BY <2>3, <2>4
<1>9. QED BY <1>6, <1>8

LEMMA StepInspect ==
    ASSUME IInv, TypeOK', [Next]_vars
    PROVE  Listing' /\ DetailBets'
<1>1. TypeOK /\ Statements /\ Listing /\ DetailBets
    BY DEF IInv
<1>2. CASE screen' # "inspect"
    BY <1>2, InspectOff
<1>3. ASSUME UNCHANGED <<screen, inspect, strayed>>, Kept({"rounds"}), Kept({"bets"})
      PROVE  Listing' /\ DetailBets'
    BY <1>1, <1>3, ListingKept, DetailKept
<1>4. CASE UNCHANGED vars
    BY <1>3, <1>4, UnchangedKeeps DEF vars, screens
<1>5. CASE RootKey
    <2>1. CASE OpenHistory \/ OpenLatest
        BY <1>1, <2>1, InspectOpened DEF OpenHistory, OpenLatest
    <2>2. CASE ~(OpenHistory \/ OpenLatest)
        <3>1. screen' # "inspect"
            BY <1>5, <2>2 DEF RootKey, Quit, Ends, Continue, OpenSettings, OpenLeaderboard,
                              Leave, ToGame
        <3>2. QED BY <1>2, <3>1
    <2>3. QED BY <2>1, <2>2
<1>6. CASE BoardKey \/ SettingsKey
    <2>1. screen' # "inspect"
        BY <1>6 DEF BoardKey, MoveOnPage, NextPage, PrevPage,
                    SettingsKey, SwitchField, Type, SaveName, ToggleHidden, Editing
    <2>2. QED BY <1>2, <2>1
<1>7. "refresh" \notin {"rounds"} /\ "refresh" \notin {"bets"}
    OBVIOUS
<1>8. CASE TakeSnapshot
    <2>1. /\ Ask("refresh", 0) /\ "refresh" \in Kind
          /\ UNCHANGED <<screen, inspect, strayed>>
        BY <1>8 DEF TakeSnapshot, Kind, screens
    <2>2. Kept({"rounds"}) /\ Kept({"bets"})
        BY <1>1, <1>7, <2>1, AskKeeps
    <2>3. QED BY <1>3, <2>1, <2>2
<1>9. CASE Play
    BY <1>3, <1>9, UnchangedKeeps DEF Play, screens
<1>10. ASSUME NEW q \in Query, Serve(q) PROVE Listing' /\ DetailBets'
    <2>1. CASE Execute(q) \/ Fail(q)
        <3>1. Kept({"rounds"}) /\ Kept({"bets"}) /\ UNCHANGED <<screen, inspect, strayed>>
            BY <1>1, <1>7, <2>1, ExecuteKeeps, FailKeeps DEF Execute, Fail, screens
        <3>2. QED BY <1>3, <3>1
    <2>2. CASE /\ Done(q) /\ queries[q].kind \notin {"rounds"} /\ queries[q].kind \notin {"bets"}
               /\ UNCHANGED <<screen, inspect, strayed>>
        <3>1. Kept({"rounds"}) /\ Kept({"bets"})
            BY <1>1, <2>2, DoneKeeps
        <3>2. QED BY <1>3, <2>2, <3>1
    <2>3. CASE RoundsLoaded(q) \/ BetsLoaded(q)
        BY <1>2, <2>3, ListArrives, BetsArrive
    <2>4. CASE Refreshed(q)
        BY <2>2, <2>4 DEF Refreshed, screens
    <2>5. CASE PageLoaded(q)
        BY <2>2, <2>5 DEF PageLoaded
    <2>6. CASE Saved(q)
        <3>1. CASE screen = "inspect"
            BY <2>2, <2>6, <3>1 DEF Saved, Saves, Save, screens
        <3>2. CASE screen # "inspect"
            BY <1>2, <2>6, <3>2 DEF Saved, ToGame
        <3>3. QED BY <3>1, <3>2
    <2>7. CASE SaveFailed(q)
        <3>1. CASE screen = "inspect"
            BY <2>2, <2>7, <3>1 DEF SaveFailed, Saves, Save
        <3>2. CASE screen # "inspect"
            BY <1>2, <2>7, <3>2 DEF SaveFailed
        <3>3. QED BY <3>1, <3>2
    <2>8. QED BY <1>10, <2>1, <2>3, <2>4, <2>5, <2>6, <2>7 DEF Serve, Answer
<1>11. QED BY <1>4, <1>5, <1>6, <1>8, <1>9, <1>10, InspectKeys DEF Next

-----------------------------------------------------------------------------
(* The theorems.                                                           *)

LEMMA InitInv == Init => IInv
<1> SUFFICES ASSUME Init PROVE IInv
    OBVIOUS
<1>1. \A q \in Query : queries[q] = NoQuery
    BY DEF Init
<1>2. queries \in [Query -> QueryRecord]
    BY NoQueryTyped DEF Init
<1>3. MinRounds \in Nat /\ MinRanked \in Nat
    BY BoundAssumption
<1>4. finished \in Round /\ ranked \in 0 .. MaxRanked /\ row \in Row
    BY <1>3, Numbers DEF Init, Round
<1>5. screen \in {"welcome", "game"} /\ screens = <<NoInspect, NoSettings, NoBoard>>
    BY DEF Init, screens
<1>6. Shown
    BY <1>5, EmptyScreens DEF Shown, Screen, screens
<1>7. TypeOK
    BY <1>2, <1>4, <1>6, TypeParts DEF Init, Parts, Tables
<1>8. Statements /\ PagesInRange /\ OneList
    BY <1>1, NoQueryTyped DEF Statements, PagesInRange, OneList, Listed, UnderWay, Free
<1>9. Listing /\ DetailBets /\ SavesShown
    BY DEF Init, Listing, DetailBets, InDetail, SavesShown, OffList, NoInspect, NoSettings
<1>10. BoardInRange
    <2>1. ranked >= 0 * PageSize + 0
        BY <1>4, Numbers
    <2>2. 0 * PageSize = 0
        BY Numbers
    <2>3. QED BY <2>1, <2>2 DEF Init, BoardInRange, NoBoard, Above
<1>11. QED BY <1>7, <1>8, <1>9, <1>10 DEF IInv

\* The invariant holds in every state of the program.
THEOREM Invariance == Spec => []IInv
<1>1. IInv /\ [Next]_vars => IInv'
    BY StepTypes, StepAsking, StepBoard, StepSaves, StepInspect DEF IInv, Asking
<1>2. QED BY <1>1, InitInv, PTL DEF Spec

\* Types hold, and a screen that was left keeps nothing (Update).
THEOREM TypeCorrect == Spec => []TypeOK
<1>1. IInv => TypeOK
    BY DEF IInv
<1>2. QED BY <1>1, Invariance, PTL

\* Whatever was pressed, whatever failed and however late the answers are, a
\* screen that loads or saves has a statement under way that releases it
\* (inspect.go:47, settings.go:43, leaderboard.go:51).
THEOREM NobodyWaitsForNothing == Spec => []WaitsForAnswer
<1>1. IInv => WaitsForAnswer
    BY DEF IInv, Listing, Listed, SavesShown, BoardInRange, DetailBets, WaitsForAnswer
<1>2. QED BY <1>1, Invariance, PTL

\* The bets on screen are those of the round on screen, unless a list of an
\* earlier visit came (inspect.go:93).
THEOREM DetailsMatch == Spec => []DetailMatches
<1>1. IInv => DetailMatches
    BY DEF IInv, DetailBets, DetailMatches, DetailShowsItsRound
<1>2. QED BY <1>1, Invariance, PTL

\* The rows on screen are those of the page named there, the cursor is on one
\* of them, and no page is asked for that begins behind the ranking's end,
\* however fast the keys and however late the pages (leaderboard.go:65-95).
THEOREM PagesExist == Spec => []PageInRanking
<1>1. IInv => PageInRanking
    <2> SUFFICES ASSUME IInv PROVE PageInRanking
        OBVIOUS
    <2>1. board.rows \in Nat
        BY Numbers DEF IInv, TypeOK
    <2>2. QED BY <2>1 DEF IInv, PagesInRange, BoardInRange, PageInRanking, Above
<1>2. QED BY <1>1, Invariance, PTL

\* Only Saved takes the answer to a save.
LEMMA OwnSaveIsSaved ==
    ASSUME IInv, Next, NEW q \in Query, OwnSave(q)
    PROVE  Saved(q)
<1>1. /\ TypeOK /\ Statements /\ screen = "settings" /\ screen' # "ended"
      /\ queries[q].step = "answered" /\ queries[q].kind \in {"name", "hide", "show"}
      /\ queries'[q].step = "none"
    BY DEF IInv, OwnSave, Save
<1>2. queries'[q] # queries[q]
    BY <1>1
<1>3. ~\E kind \in Kind, arg \in Nat : Ask(kind, arg)
    <2>1. SUFFICES ASSUME NEW kind \in Kind, NEW arg \in Nat, Ask(kind, arg) PROVE FALSE
        OBVIOUS
    <2>2. PICK s \in Query : Free(s) /\ \A t \in Query : t # s => queries'[t] = queries[t]
        BY <1>1, <2>1, AskEffect DEF TypeOK
    <2>3. QED BY <1>1, <1>2, <2>2 DEF Free
<1>4. ~RootKey
    BY <1>1, <1>2 DEF RootKey, Quit, Ends, Continue, OpenHistory, OpenLatest, OpenSettings,
                     OpenLeaderboard, Leave
<1>5. ~InspectKey /\ ~BoardKey
    BY <1>1 DEF InspectKey, MoveCursor, EnterRound, BackToList, InList, InDetail,
                BoardKey, MoveOnPage, NextPage, PrevPage
<1>6. ~SettingsKey
    <2>1. ~SaveName
        <3>1. SUFFICES ASSUME SaveName PROVE FALSE
            OBVIOUS
        <3>2. settings.name \in Name \cup {0} /\ settings.name # 0 /\ Ask("name", settings.name)
            BY <1>1, <3>1 DEF SaveName, TypeOK
        <3>3. settings.name \in Name
            BY <3>2
        <3>4. settings.name \in Nat /\ "name" \in Kind
            BY <3>3, NameAssumption DEF Kind, Save
        <3>5. QED BY <1>3, <3>2, <3>4
    <2>2. ~ToggleHidden
        <3>1. SUFFICES ASSUME ToggleHidden PROVE FALSE
            OBVIOUS
        <3>2. Ask("show", 0) \/ Ask("hide", 0)
            BY <3>1 DEF ToggleHidden
        <3>3. "show" \in Kind /\ "hide" \in Kind /\ 0 \in Nat
            BY DEF Kind, Save
        <3>4. QED BY <1>3, <3>2, <3>3
    <2>3. QED BY <1>2, <2>1, <2>2 DEF SettingsKey, SwitchField, Type
<1>7. ~TakeSnapshot /\ ~Play
    <2>1. "refresh" \in Kind /\ 0 \in Nat
        BY DEF Kind
    <2>2. QED BY <1>2, <1>3, <2>1 DEF TakeSnapshot, Play
<1>8. PICK s \in Query : Serve(s)
    BY <1>4, <1>5, <1>6, <1>7 DEF Next
<1>9. ~Execute(s) /\ ~Fail(s)
    <2>1. SUFFICES ASSUME Execute(s) \/ Fail(s) PROVE FALSE
        OBVIOUS
    <2>2. s # q
        BY <1>1, <2>1 DEF Execute, Fail
    <2>3. queries'[q] = queries[q]
        BY <1>1, <2>1, <2>2, ExecuteEffect, FailEffect
    <2>4. QED BY <1>2, <2>3
<1>10. Done(s)
    BY <1>1, <1>8, <1>9 DEF Serve, Answer, Refreshed, RoundsLoaded, BetsLoaded, PageLoaded,
                           Saved, SaveFailed
<1>11. s = q
    BY <1>1, <1>2, <1>10, DoneEffect DEF TypeOK
<1>12. QED BY <1>1, <1>8, <1>9, <1>11 DEF Serve, Answer, Refreshed, RoundsLoaded, BetsLoaded,
                                   PageLoaded, SaveFailed

\* The settings close by themselves exactly when the name on screen was saved;
\* otherwise they stay and show the flag that was saved (model.go:256,
\* settings.go:28).
THEOREM SavesAreShown == Spec => SaveShown
<1>1. ASSUME IInv, Next, NEW q \in Query, OwnSave(q)
      PROVE  IF screen' = "game"
             THEN queries[q].kind = "name" /\ player'.name = settings.name
             ELSE queries[q].kind # "name" /\ settings'.hidden = player'.hidden
    <2>1. Saved(q)
        BY <1>1, OwnSaveIsSaved
    <2>2. /\ UnderWay(q, Save) /\ screen = "settings" /\ ~strayed /\ SavesShown
          /\ settings \in SettingsRecord
        BY <1>1, TypeParts DEF OwnSave, UnderWay, Free, IInv, Parts, Shown
    <2>3. /\ settings.savingName <=> queries[q].kind = "name"
          /\ queries[q].kind = "name" => queries[q].arg = settings.name
          /\ queries[q].kind = "hide" => settings.hidden
          /\ queries[q].kind = "show" => ~settings.hidden
        BY <2>2 DEF SavesShown
    <2>4. /\ player' = queries[q].row /\ queries[q].row \in Row
          /\ queries[q].kind = "name" => queries[q].row.name = queries[q].arg
          /\ queries[q].kind = "hide" => queries[q].row.hidden
          /\ queries[q].kind = "show" => ~queries[q].row.hidden
          /\ queries[q].kind \in {"name", "hide", "show"}
        BY <1>1, <2>1 DEF Saved, OwnSave, IInv, Statements, WellFormed, Save
    <2>5. CASE settings.savingName
        <3>1. screen' = "game"
            BY <2>1, <2>2, <2>5 DEF Saved, ToGame
        <3>2. QED BY <2>3, <2>4, <2>5, <3>1
    <2>6. CASE ~settings.savingName
        <3>1. screen' = "settings" /\ settings'.hidden = settings.hidden
            BY <2>1, <2>2, <2>6 DEF Saved, SettingsRecord
        <3>2. settings.hidden \in BOOLEAN /\ player'.hidden \in BOOLEAN
            BY <2>2, <2>4, RowFields DEF SettingsRecord
        <3>3. QED BY <2>3, <2>4, <2>6, <3>1, <3>2
    <2>7. QED BY <2>5, <2>6
<1>2. IInv /\ [Next]_vars =>
          [\A q \in Query : OwnSave(q) =>
              IF screen' = "game"
              THEN queries[q].kind = "name" /\ player'.name = settings.name
              ELSE queries[q].kind # "name" /\ settings'.hidden = player'.hidden]_vars
    BY <1>1
<1>3. QED BY <1>2, Invariance, PTL DEF Spec, SaveShown
=============================================================================
