------------------------------- MODULE Boards -------------------------------
(***************************************************************************)
(* The boards of the two games: the pairs of the memory game and the grid   *)
(* of the match-3 game.                                                     *)
(***************************************************************************)
EXTENDS Integers, FiniteSets

-----------------------------------------------------------------------------
(***************************************************************************)
(* The memory game of one tab: the board of the server's session, the       *)
(* timers that turn two cards down again, and the board the tab shows.      *)
(* Clicks travel to the server; its answers arrive in the order they are    *)
(* sent, and are modelled as applied at once.  A timer belongs to the game  *)
(* that started it, and may run out when the tab already plays another.     *)
(***************************************************************************)

CONSTANTS
    Pairs,      \* symbols (eight)
    MaxClicks   \* bound: flips on their way to the server

ASSUME MemoryAssumption == IsFiniteSet(Pairs) /\ MaxClicks \in Nat

VARIABLES
    board,      \* of the session: [live, matched, up]; not live once finished
    closing,    \* timers: [cards, own], own while their game is the session's
    clicked,    \* cards whose flip is on its way to the server
    shown,      \* cards the tab shows face up
    fading,     \* cards whose symbol the tab will forget (MEMORY_CLOSE_DELAY_MS)
    symbols,    \* cards whose symbol the tab knows
    mixed,      \* a timer of an earlier game reached this one
    late        \* a flip arrived, or the game was started, while symbols faded

memoryVars == <<board, closing, clicked, shown, fading, symbols, mixed, late>>

Cards == Pairs \X {1, 2}
CardsOf(matched) == matched \X {1, 2}
Board(live, matched, up) == [live |-> live, matched |-> matched, up |-> up]
Open == board.up \cup CardsOf(board.matched)

MemoryInit ==
    /\ board = Board(FALSE, {}, {})
    /\ closing = {} /\ clicked = {} /\ shown = {} /\ fading = {} /\ symbols = {}
    /\ mixed = FALSE
    /\ late = FALSE

Orphaned == {[t EXCEPT !.own = FALSE] : t \in closing}

\* A start makes a new session, whatever the socket was playing.
memoryStart ==
    /\ board' = Board(TRUE, {}, {})
    /\ closing' = Orphaned
    /\ shown' = {} /\ symbols' = {} /\ mixed' = FALSE
    /\ late' = (fading # {})
    /\ UNCHANGED <<clicked, fading>>

\* The tab sends a flip unless the game is over or cards are being turned.
handleMouseDown(card) ==
    /\ board.live /\ fading = {}
    /\ Cardinality(clicked) < MaxClicks
    /\ clicked' = clicked \cup {card}
    /\ UNCHANGED <<board, closing, shown, fading, symbols, mixed, late>>

\* Slip: a third card can be turned while two wait to be closed.
FlippableAlways(card) == board.live /\ card \notin Open

Flippable(card) == board.live /\ Cardinality(board.up) < 2 /\ card \notin Open

\* Slip: cards are closed at the next mismatch only.
NoTimer(up) == closing

TimerSet(up) == closing \cup {[cards |-> up, own |-> TRUE]}

flip(card) ==
    LET up == board.up \cup {card}
        matched == board.matched \cup {p \in Pairs : CardsOf({p}) \subseteq up}
    IN  /\ card \in clicked
        /\ clicked' = clicked \ {card}
        /\ IF Flippable(card)
           THEN /\ board' = Board(matched # Pairs, matched, up \ CardsOf(matched))
                /\ closing' = IF matched = Pairs THEN Orphaned
                              ELSE IF Cardinality(up) = 2 /\ matched = board.matched
                              THEN TimerSet(up) ELSE closing
                /\ shown' = shown \cup {card}
                /\ symbols' = symbols \cup {card}
                /\ late' = (late \/ fading # {})
           ELSE UNCHANGED <<board, closing, shown, symbols, late>>
        /\ UNCHANGED <<fading, mixed>>

\* The timer turns the cards of its own game down and tells the tab, which
\* turns down the cards of these ids on the board it shows by then.
mismatch ==
    \E t \in closing :
        /\ closing' = closing \ {t}
        /\ board' = IF t.own THEN [board EXCEPT !.up = {}] ELSE board
        /\ shown' = shown \ t.cards
        /\ fading' = fading \cup t.cards
        /\ mixed' = (mixed \/ ~t.own)
        /\ UNCHANGED <<clicked, symbols, late>>

\* The delays of mismatches that come this close together end together.
symbolsFade ==
    /\ fading # {}
    /\ symbols' = symbols \ fading
    /\ fading' = {}
    /\ UNCHANGED <<board, closing, clicked, shown, mixed, late>>

\* game:end, a disconnection, or the tab's timer.
memoryEnds ==
    /\ board.live
    /\ board' = [board EXCEPT !.live = FALSE]
    /\ closing' = Orphaned
    /\ UNCHANGED <<clicked, shown, fading, symbols, mixed, late>>

MemoryNext ==
    \/ memoryStart \/ memoryEnds \/ mismatch \/ symbolsFade
    \/ \E card \in Cards : handleMouseDown(card) \/ flip(card)

MemorySpec == MemoryInit /\ [][MemoryNext]_memoryVars

-----------------------------------------------------------------------------
(* Properties.                                                              *)

\* Type correctness of the board, the timers and the tab.
MemoryTypeOK ==
    /\ board \in [live: BOOLEAN, matched: SUBSET Pairs, up: SUBSET Cards]
    /\ closing \subseteq [cards: SUBSET Cards, own: BOOLEAN]
    /\ {clicked, shown, fading, symbols} \subseteq SUBSET Cards /\ {mixed, late} \subseteq BOOLEAN

\* A card the tab shows face up is face up for the server, and the other way
\* round unless a timer of an earlier game has closed cards of this one.
TabShowsBoard == board.live => shown \subseteq Open /\ (mixed \/ shown = Open)

\* Two cards that are face up have a timer that will close them: no game is
\* stuck with two open cards and every flip refused.
CardsWillClose ==
    board.live =>
        /\ Cardinality(board.up) <= 2
        /\ Cardinality(board.up) = 2 => [cards |-> board.up, own |-> TRUE] \in closing

\* A card shown face up is shown with its symbol, unless its flip was on its
\* way, or its game was started, while the tab forgot symbols.
SymbolsAreKnown == board.live /\ ~late => shown \subseteq symbols

-----------------------------------------------------------------------------
(***************************************************************************)
(* The board of a match-3 game: generated cell by cell, changed by swaps of *)
(* neighbours.  A swap that makes a line of three empties the lines, lets   *)
(* the columns fall, refills them from the top and goes on while there are  *)
(* lines; the handler does this in one go, here in steps.                   *)
(***************************************************************************)

CONSTANTS
    Symbols,        \* MATCH3_SYMBOLS (five)
    Width, Height,  \* eight and eight
    Goal,           \* cells to clear (75: 1500 points of 20 a cell)
    Hole

\* With two symbols a cell could have none left to take.
ASSUME Match3Assumption ==
    /\ Cardinality(Symbols) >= 3 /\ Hole \notin Symbols
    /\ {Width, Height} \subseteq Nat \ {0} /\ Goal \in Nat

VARIABLES
    grid,       \* symbol at <<x, y>>; y = 0 is the top row
    phase,      \* "dealt" cell by cell, "idle", "falling", "fallen" or "over"
    cleared     \* score, in cells, up to Goal

match3Vars == <<grid, phase, cleared>>

Cols == 0 .. Width - 1
Rows == 0 .. Height - 1
Grid == Cols \X Rows

Match3Init ==
    /\ grid = [p \in Grid |-> Hole]
    /\ phase = "dealt"
    /\ cleared = 0

Right(p, n) == <<p[1] + n, p[2]>>
Below(p, n) == <<p[1], p[2] + n>>

\* Where three equal symbols begin.
Lines(g, Next(_, _)) ==
    {p \in Grid : Next(p, 2) \in Grid /\ g[p] # Hole
                    /\ g[p] = g[Next(p, 1)] /\ g[p] = g[Next(p, 2)]}

findMatches(g) ==
    UNION ({{p, Right(p, 1), Right(p, 2)} : p \in Lines(g, Right)}
        \cup {{p, Below(p, 1), Below(p, 2)} : p \in Lines(g, Below)})

\* Cells are dealt row by row: the first one without a symbol, and the two
\* before it in its row or column that are equal to s.
NotAfter(p, q) == p[2] < q[2] \/ (p[2] = q[2] /\ p[1] <= q[1])

FirstHole ==
    CHOOSE p \in Grid : grid[p] = Hole /\ \A q \in Grid : grid[q] = Hole => NotAfter(p, q)

Follows(p, s, Next(_, _)) ==
    Next(p, -2) \in Grid /\ grid[Next(p, -1)] = s /\ grid[Next(p, -2)] = s

\* Slip: only the row is looked at.
TakesInRow(p) == {s \in Symbols : ~Follows(p, s, Right)}

Takes(p) == {s \in Symbols : ~Follows(p, s, Right) /\ ~Follows(p, s, Below)}

generateStableBoard ==
    /\ phase = "dealt"
    /\ \E s \in Takes(FirstHole) : grid' = [grid EXCEPT ![FirstHole] = s]
    /\ phase' = IF FirstHole = <<Width - 1, Height - 1>> THEN "idle" ELSE "dealt"
    /\ UNCHANGED cleared

Swap(g, p, q) == [g EXCEPT ![p] = g[q], ![q] = g[p]]
Apart(a, b) == IF a > b THEN a - b ELSE b - a

\* A swap that makes no line is undone.
handleMatch3Swap(p, q) ==
    LET g == Swap(grid, p, q) IN
    /\ phase = "idle"
    /\ Apart(p[1], q[1]) + Apart(p[2], q[2]) = 1
    /\ IF findMatches(g) = {}
       THEN grid' = Swap(g, p, q) /\ phase' = "idle"
       ELSE grid' = g /\ phase' = "falling"
    /\ UNCHANGED cleared

Emptied == [p \in Grid |-> IF p \in findMatches(grid) THEN Hole ELSE grid[p]]

\* Slip: a cell that does not move is emptied, too.
FallThrough(col, y, empty) == [col EXCEPT ![empty] = col[y], ![y] = Hole]

Fall(col, y, empty) == IF empty = y THEN col ELSE [col EXCEPT ![empty] = col[y], ![y] = Hole]

\* One column of processCascades, from the bottom up: `empty` is where the
\* next symbol comes to rest.
Fallen(column) ==
    LET step[y \in 0 .. Height] ==
            IF y = Height THEN [col |-> column, empty |-> Height - 1]
            ELSE LET r == step[y + 1] IN
                 IF r.col[y] = Hole THEN r
                 ELSE [col |-> Fall(r.col, y, r.empty), empty |-> r.empty - 1]
    IN  step[0]

Column(g, x) == [y \in Rows |-> g[<<x, y>>]]

\* One round: the lines are emptied and the columns fall; then every cell
\* above gets a symbol at random.
processCascades ==
    LET fallen == [x \in Cols |-> Fallen(Column(Emptied, x)).col]
        lines == findMatches(grid)
    IN  /\ phase = "falling" /\ lines # {}
        /\ grid' = [p \in Grid |-> fallen[p[1]][p[2]]]
        /\ phase' = "fallen"
        /\ cleared' = IF cleared + Cardinality(lines) > Goal THEN Goal
                      ELSE cleared + Cardinality(lines)

Holes == {p \in Grid : grid[p] = Hole}

Refill ==
    /\ phase = "fallen"
    /\ \E fill \in [Holes -> Symbols] : grid' = [p \in Grid |-> IF p \in Holes THEN fill[p] ELSE grid[p]]
    /\ phase' = "falling"
    /\ UNCHANGED cleared

\* No line is left: the new board and the score are sent, and the game is won
\* once the score is high enough.
boardUpdate ==
    /\ phase = "falling" /\ findMatches(grid) = {}
    /\ phase' = IF cleared >= Goal THEN "over" ELSE "idle"
    /\ UNCHANGED <<grid, cleared>>

\* The next game of the socket.
nextBoard ==
    /\ phase \in {"idle", "over"}
    /\ grid' = [p \in Grid |-> Hole]
    /\ phase' = "dealt"
    /\ cleared' = 0

Match3Next ==
    \/ generateStableBoard \/ processCascades \/ Refill \/ boardUpdate \/ nextBoard
    \/ \E p, q \in Grid : handleMatch3Swap(p, q)

Match3Spec == Match3Init /\ [][Match3Next]_match3Vars

-----------------------------------------------------------------------------
(* Properties.                                                              *)

\* Type correctness of the board and the score.
Match3TypeOK ==
    /\ grid \in [Grid -> Symbols \cup {Hole}]
    /\ phase \in {"dealt", "idle", "falling", "fallen", "over"} /\ cleared \in 0 .. Goal

\* A board the player may swap on has no holes and no line of three: it is
\* dealt without one, and the cascades of a swap end without one.
BoardIsStable ==
    phase \in {"idle", "over"} =>
        /\ \A p \in Grid : grid[p] # Hole
        /\ \A p \in Grid, d \in {<<1, 0>>, <<0, 1>>} :
              LET q == <<p[1] + d[1], p[2] + d[2]>>
                  r == <<q[1] + d[1], q[2] + d[2]>>
              IN  r \in Grid => Cardinality({grid[p], grid[q], grid[r]}) > 1

\* The rows without a symbol of a column, from y on.
HolesFrom(col, y) == {z \in Rows : z >= y /\ col[z] = Hole}

\* Whatever lines are emptied, a symbol that is left falls by the holes below
\* it, and the cells that stay empty are the ones above them all, as many as
\* there were holes.
ColumnsFall ==
    phase = "falling" =>
        \A x \in Cols :
            LET col == Column(Emptied, x)
                fallen == Fallen(col)
            IN  /\ fallen.empty = Cardinality(HolesFrom(col, 0)) - 1
                /\ \A y \in Rows :
                      /\ fallen.col[y] = Hole <=> y <= fallen.empty
                      /\ col[y] # Hole => fallen.col[y + Cardinality(HolesFrom(col, y))] = col[y]
=============================================================================
