--------------------------- MODULE TerminalSnapshot ---------------------------
(***************************************************************************)
(* The replay of a live terminal (terminal/export.rs): what the daemon     *)
(* sends a client that attaches so that the client's emulator, fed with    *)
(* it, is where the daemon's is; the same under a limit of size, which     *)
(* drops the oldest history by whole logical lines; and the rows of the    *)
(* durable history.                                                        *)
(*                                                                         *)
(* The emulator (alacritty_terminal) is external: a small one is modelled  *)
(* here from the operations the code uses.  It knows narrow and wide       *)
(* characters, styles, wrapped rows, the pending wrap, history, the scroll *)
(* region, origin mode, tab stops, the saved cursor and the alternate      *)
(* screen.  What is drawn by the program is a sequence of operations, and  *)
(* so is a snapshot: bytes, palettes and the other modes are left out.     *)
(***************************************************************************)
EXTENDS Integers, SequencesExt

CONSTANTS Columns,      \* width of the screen, at least 4
          Lines,        \* height of the screen, at least 3
          MaxHistory,   \* limit of the scrollback
          MaxOps        \* bound: operations of the program after its start

(* In a terminal of three columns or less, the second writing of a wide    *)
(* character that has a wrap pending also removes the leading spacer of    *)
(* the row before.                                                         *)
VARIABLES term, ops
vars == <<term, ops>>

\* F of a value that is computed once.
Then(v, F(_)) == CHOOSE r \in {F(x) : x \in {v}} : TRUE

-----------------------------------------------------------------------------
(***************************************************************************)
(* The emulator.  A cell is a character and a style; a wide character "W"  *)
(* is followed by its spacer "-", and one that did not fit at the end of a *)
(* row leaves a leading spacer "L" there.                                  *)
(***************************************************************************)
BlankCell == <<" ", 0>>
BlankRow == [cells |-> [i \in 1..Columns |-> BlankCell], wrap |-> FALSE]
Position(l, c) == [line |-> l, column |-> c]

ResetTerm ==
    [rows |-> [i \in 1..Lines |-> BlankRow], history |-> 0,
     at |-> Position(0, 0), pending |-> FALSE, style |-> 0,
     saved |-> Position(0, 0), savedStyle |-> 0,
     top |-> 0, bottom |-> Lines - 1, origin |-> FALSE,
     tabs |-> {0}, alt |-> FALSE]

RowOf(t, l) == t.rows[t.history + l + 1]

(* One line up: into the history when the region starts at the top. *)
ScrollUp(t) ==
    LET end  == t.history + t.bottom + 1
        grown == SubSeq(t.rows, 1, end) \o <<BlankRow>> \o SubSeq(t.rows, end + 1, Len(t.rows))
        start == t.history + t.top + 1
    IN  CASE t.top > 0 \/ t.alt        -> [t EXCEPT !.rows = RemoveAt(grown, start)]
          [] t.history < MaxHistory    -> [t EXCEPT !.rows = grown, !.history = @ + 1]
          [] OTHER                     -> [t EXCEPT !.rows = Tail(grown)]

LineFeed(t) ==
    CASE t.at.line = t.bottom    -> ScrollUp(t)
      [] t.at.line = Lines - 1   -> t
      [] OTHER                   -> [t EXCEPT !.at.line = @ + 1]

CarriageReturn(t) == [t EXCEPT !.at.column = 0, !.pending = FALSE]

WrapLine(t) ==
    CarriageReturn(LineFeed([t EXCEPT !.rows[t.history + t.at.line + 1].wrap = TRUE]))

(* A character over half of a wide one removes the other half, and the     *)
(* leading spacer of the row before.                                       *)
WithoutWide(t) ==
    LET r == t.history + t.at.line + 1
        c == t.at.column + 1
        old == t.rows[r].cells[c][1]
        Unwide(cell) == <<" ", cell[2]>>
        halves == CASE old = "W" /\ c < Columns -> [t EXCEPT !.rows[r].cells[c + 1] = Unwide(@)]
                    [] old = "-" /\ c > 1       -> [t EXCEPT !.rows[r].cells[c - 1] = Unwide(@)]
                    [] OTHER                    -> t
    IN  IF old \in {"W", "-"} /\ c <= 2 /\ r > 1 /\ t.rows[r - 1].cells[Columns][1] = "L"
          THEN [halves EXCEPT !.rows[r - 1].cells[Columns] = Unwide(@)]
          ELSE halves

Write(t, ch) ==
    LET r == t.history + t.at.line + 1
        c == t.at.column + 1
    IN  Then(WithoutWide(t), LAMBDA u :
          [u EXCEPT !.rows[r].cells[c] = <<ch, t.style>>,
                    !.rows[r].wrap = IF c = Columns THEN FALSE ELSE @])

Advance(t) == IF t.at.column + 1 < Columns THEN [t EXCEPT !.at.column = @ + 1]
                                           ELSE [t EXCEPT !.pending = TRUE]

Unwrapped(t) == IF t.pending THEN WrapLine(t) ELSE t

Put(t, ch) ==
    Then(Unwrapped(t), LAMBDA u :
      IF ch # "W" THEN Advance(Write(u, ch))
      ELSE Then(IF u.at.column + 1 < Columns THEN u ELSE WrapLine(Write(u, "L")), LAMBDA v :
             Then(Write(v, "W"), LAMBDA w :
               Advance(Write([w EXCEPT !.at.column = @ + 1], "-")))))

LeastOf(a, b) == IF a < b THEN a ELSE b

Goto(t, l, c) ==
    LET offset == IF t.origin THEN t.top ELSE 0
        limit  == IF t.origin THEN t.bottom ELSE Lines - 1
    IN  [t EXCEPT !.at = Position(LeastOf(l + offset, limit), LeastOf(c, Columns - 1)),
                  !.pending = FALSE]

Apply(t, op) ==
    CASE op[1] = "put"    -> Put(t, op[2])
      [] op[1] = "sgr"    -> [t EXCEPT !.style = op[2]]
      [] op[1] = "crlf"   -> LineFeed(CarriageReturn(t))
      [] op[1] = "goto"   -> Goto(t, op[2], op[3])
      [] op[1] = "region" -> Goto([t EXCEPT !.top = op[2], !.bottom = op[3]], 0, 0)
      [] op[1] = "origin" -> IF op[2] THEN Goto([t EXCEPT !.origin = TRUE], 0, 0)
                                      ELSE [t EXCEPT !.origin = FALSE]
      [] op[1] = "clear tabs" -> [t EXCEPT !.tabs = {}]
      [] op[1] = "set tab"    -> [t EXCEPT !.tabs = @ \cup {t.at.column}]
      [] op[1] = "save"  -> [t EXCEPT !.saved = t.at, !.savedStyle = t.style]
      [] op[1] = "alt"   -> [t EXCEPT !.rows = [i \in 1..Lines |-> BlankRow], !.history = 0,
                                      !.alt = TRUE]
      [] op[1] = "reset" -> ResetTerm

Run(start, sequence) ==
    LET After[i \in 0..Len(sequence)] ==
          IF i = 0 THEN start ELSE Then(After[i - 1], LAMBDA t : Apply(t, sequence[i]))
    IN  After[Len(sequence)]

-----------------------------------------------------------------------------
(***************************************************************************)
(* The snapshot.                                                           *)
(***************************************************************************)
IsSpacer(cell) == cell[1] \in {"-", "L"}
IsDrawn(cell) == ~IsSpacer(cell)

\* Faulty variant, for mutation: every row ends with an explicit line ending.
RowEndAlways(row, isLast) == IF isLast THEN <<>> ELSE <<<<"crlf">>>>

(* A wrapped row stays wrapped: the next character triggers the wrap. *)
RowEnd(row, isLast) == IF isLast \/ row.wrap THEN <<>> ELSE <<<<"crlf">>>>

(* The cells of the rows, a style only where it changes. *)
Drawn(cells) ==
    FlattenSeq([i \in DOMAIN cells |->
      IF i > 1 /\ cells[i - 1][2] = cells[i][2]
        THEN <<<<"put", cells[i][1]>>>>
        ELSE <<<<"sgr", cells[i][2]>>, <<"put", cells[i][1]>>>>])

(* The style that is current carries over from row to row. *)
RowsFrom(t, first) ==
    LET rows == SubSeq(t.rows, first, Len(t.rows))
        cells(i) == SelectSeq(rows[i].cells, IsDrawn)
        StyleBefore(i) == IF i = 1 THEN <<>> ELSE <<Last(cells(i - 1))[2]>>
        One(i) == LET drawn == Drawn(cells(i))
                  IN  (IF StyleBefore(i) = <<cells(i)[1][2]>> THEN Tail(drawn) ELSE drawn)
                        \o RowEnd(rows[i], i = Len(rows))
    IN  FlattenSeq([i \in DOMAIN rows |-> One(i)])

(* live_snapshot_with_terminal_state_options: the region and the stops are *)
(* found out by moving the cursor; forward moves end at the last column    *)
(* whether there is a stop or not.                                         *)
Probe(t) ==
    LET atTop    == Apply(t, <<"origin", TRUE>>)
        atBottom == Apply(atTop, <<"goto", Lines, 0>>)
    IN  [top |-> atTop.at.line, bottom |-> atBottom.at.line,
         tabs |-> (t.tabs \cap {0}) \cup {c \in t.tabs : c > 0} \cup {Columns - 1}]

\* Faulty variant, for mutation: origin mode is not taken into account.
CursorLineAbsolute(t, top) == t.at.line

(* The cursor is addressed within the region when origin mode is on. *)
CursorLine(t, top) == IF t.origin THEN Max({t.at.line - top, 0}) ELSE t.at.line

\* Faulty variant, for mutation: a pending wrap after a wide character is
\* restored from the spacer's column.
PendingWrapOnSpacer(t, top) ==
    IF ~t.pending THEN <<>>
    ELSE LET cell == RowOf(t, t.at.line).cells[t.at.column + 1]
         IN  <<<<"sgr", cell[2]>>, <<"put", IF IsSpacer(cell) THEN " " ELSE cell[1]>>>>

(* A pending wrap is restored by writing the last character again. *)
PendingWrap(t, top) ==
    IF ~t.pending THEN <<>>
    ELSE LET row == RowOf(t, t.at.line)
             onSpacer == row.cells[t.at.column + 1][1] = "-" /\ t.at.column > 0
             column == IF onSpacer THEN t.at.column - 1 ELSE t.at.column
             cell == row.cells[column + 1]
         IN  (IF onSpacer THEN <<<<"goto", CursorLine(t, top), column>>>> ELSE <<>>)
               \o <<<<"sgr", cell[2]>>, <<"put", cell[1]>>>>

(* write_live_snapshot_with_options, from the given row on. *)
WriteSnapshot(t, first) ==
    LET probed == Probe(t) IN
    <<<<"reset">>>>
      \o (IF t.alt THEN <<<<"alt">>>> ELSE <<>>)
      \o RowsFrom(t, first)
      \o <<<<"sgr", 0>>, <<"region", probed.top, probed.bottom>>, <<"clear tabs">>>>
      \o FlattenSeq(SetToSeq({<<<<"goto", 0, c>>, <<"set tab">>>> : c \in probed.tabs}))
      \o <<<<"goto", t.saved.line, t.saved.column>>, <<"sgr", t.savedStyle>>, <<"save">>,
           <<"origin", t.origin>>, <<"goto", CursorLine(t, probed.top), t.at.column>>>>
      \o PendingWrap(t, probed.top)
      \o <<<<"sgr", t.style>>>>

LiveSnapshot(t) == WriteSnapshot(t, 1)

\* Faulty variant, for mutation: the tail starts wherever the limit falls.
RetainedAnywhere(t, retained) == retained

(* The history rows a snapshot with that many keeps: it starts at the      *)
(* beginning of a logical line.                                            *)
Retained(t, retained) ==
    Max({k \in 0..retained :
           k \in {0, t.history} \/ ~t.rows[t.history - k].wrap})

RenderSnapshot(t, retained) == WriteSnapshot(t, t.history - Retained(t, retained) + 1)

(* The binary search of bounded_live_snapshot_with_terminal_state. *)
Searched(n, Fits(_)) ==
    LET Best[low \in 0..n, high \in 0..n] ==
          IF low >= high THEN low
          ELSE LET middle == low + (high - low + 1) \div 2
               IN  IF Fits(middle) THEN Best[middle, high] ELSE Best[low, middle - 1]
    IN  Best[0, n]

(* <<>> when even the screen does not fit, else the rows that are kept;    *)
(* size[k]: what a snapshot with k rows of history takes.                  *)
BoundedSnapshot(t, size, maxBytes) ==
    CASE size[t.history] <= maxBytes -> <<Retained(t, t.history)>>
      [] size[0] > maxBytes          -> <<>>
      [] OTHER -> LET Fits(k) == size[k] <= maxBytes
                  IN  <<Retained(t, Searched(Max({t.history - 1, 0}), Fits))>>

-----------------------------------------------------------------------------
(***************************************************************************)
(* The rows of the durable history.                                        *)
(***************************************************************************)
(* The end of a row that holds nothing but spaces is cut off. *)
WithoutPadding(text) ==
    SubSeq(text, 1, Max({0} \cup {i \in DOMAIN text : text[i] # " "}))

RowToString(row) ==
    LET drawn == SelectSeq(row.cells, IsDrawn)
    IN  WithoutPadding([i \in DOMAIN drawn |-> drawn[i][1]])

\* Faulty variant, for mutation: the style of the end of a row stays.
RowToAnsiOpen(row) ==
    LET visible == SubSeq(SelectSeq(row.cells, IsDrawn), 1, Len(RowToString(row)))
    IN  Drawn(visible)

(* row_to_ansi: it starts from the default style and ends with it. *)
RowToAnsi(row) ==
    LET visible == SubSeq(SelectSeq(row.cells, IsDrawn), 1, Len(RowToString(row)))
        drawn == Drawn(visible)
        kept == IF visible # <<>> /\ visible[1][2] = 0 THEN Tail(drawn) ELSE drawn
    IN  kept \o (IF visible # <<>> /\ Last(visible)[2] # 0 THEN <<<<"sgr", 0>>>> ELSE <<>>)

(* join_document: the empty rows at the end are left out. *)
Document(rows, Text(_)) ==
    SubSeq(rows, 1, Max({0} \cup {i \in DOMAIN rows : Text(rows[i]) # <<>>}))

ScrollbackToText(t) == Document(t.rows, RowToString)
ScrollbackToAnsi(t) == Document(t.rows, RowToAnsi)

-----------------------------------------------------------------------------
(* External: what a program draws.  It starts on an empty screen or after  *)
(* output that has wrapped and scrolled.                                   *)
Puts(text) == [i \in DOMAIN text |-> IF text[i] = "/" THEN <<"crlf">> ELSE <<"put", text[i]>>]
Starts == {Puts(<<>>),
           Puts(<<"a", "/", "b", "a", "W", "a", "/", "b", "/", "a", "b">>),
           Puts(<<"a", "b", "a", "W", "W", "a", "W", "W", "/", "b">>)}

ProgramOps ==
    {<<"put", "a">>, <<"put", "W">>, <<"sgr", 1>>, <<"crlf">>, <<"set tab">>, <<"save">>,
     <<"origin", TRUE>>, <<"alt">>}
      \cup {<<"goto", l, c>> : l \in 0..(Lines - 1), c \in 0..(Columns - 1)}
      \cup {<<"region", 1, Lines - 1>>, <<"region", 0, Lines - 2>>}

Init == ops = 0 /\ term \in {Run(ResetTerm, start) : start \in Starts}

Draw ==
    /\ ops < MaxOps
    /\ ops' = ops + 1
    /\ \E op \in ProgramOps : /\ op[1] = "alt" => ~term.alt
                              /\ term' = Apply(term, op)

Next == Draw
Spec == Init /\ [][Next]_vars

-----------------------------------------------------------------------------
(***************************************************************************)
(* Properties.                                                             *)
(***************************************************************************)
(* Everything that decides what the program's next output looks like; a    *)
(* stop in the last column makes no difference.                            *)
Look(t) == [t EXCEPT !.tabs = @ \ {Columns - 1}]

(* A leading spacer is followed by its wide character and the last row     *)
(* goes on nowhere.  Scrolling inside a region can part a spacer from its  *)
(* character, and a wrap below the region stays on its line: there the     *)
(* snapshot draws the next row one cell to the left, or loses the mark.    *)
WrapsAreWhole(t) ==
    \A i \in DOMAIN t.rows :
      /\ t.rows[i].cells[Columns][1] = "L" => i < Len(t.rows) /\ t.rows[i + 1].cells[1][1] = "W"
      /\ i = Len(t.rows) => ~t.rows[i].wrap

(* A client fed with the snapshot is where the daemon's terminal is:       *)
(* history, screen, wrapped rows, cursor, pending wrap, region, origin     *)
(* mode, stops, saved cursor and styles.                                   *)
SnapshotIsFaithful ==
    Look(Run(ResetTerm, LiveSnapshot(term))) = Look(term)

(* Under any limit of size the snapshot keeps as much history as fits from *)
(* the beginning of a logical line, and fails only when the screen alone   *)
(* does not fit; what it shows is the terminal without its oldest rows.    *)
BoundedSnapshotIsBest ==
    Then([k \in 0..term.history |-> Len(RenderSnapshot(term, k))], LAMBDA size :
      \A maxBytes \in {size[k] : k \in DOMAIN size} \cup {size[0] - 1} :
        LET best == BoundedSnapshot(term, size, maxBytes)
            wholes == {k \in 0..term.history : Retained(term, k) = k}
            fitting == {k \in wholes : size[k] <= maxBytes}
        IN  /\ (best = <<>>) <=> (fitting = {})
            /\ best # <<>> => Head(best) = Max(fitting))

BoundedSnapshotShowsTheEnd ==
    \A k \in 0..term.history :
      LET shown == Run(ResetTerm, RenderSnapshot(term, k))
          left  == term.history - shown.history
      IN  /\ Look(shown) = Look([term EXCEPT !.rows = SubSeq(@, left + 1, Len(@)),
                                              !.history = @ - left])
          /\ shown.history > 0 /\ left > 0 => ~term.rows[left].wrap

RowKeepsItsStyles(row) ==
    \A shown \in {Run(ResetTerm, RowToAnsi(row))} :
    LET visible == SelectSeq(row.cells, IsDrawn)
        drawn == SelectSeq(shown.rows[1].cells \o shown.rows[2].cells, IsDrawn)
        text == RowToString(row)
    IN  /\ \A j \in 1..Len(text) : drawn[j] = visible[j]
        /\ \A j \in (Len(text) + 1)..Len(visible) : visible[j][1] = " "
        /\ shown.style = 0
HistoryRowsKeepTheirStyles == \A i \in DOMAIN term.rows : RowKeepsItsStyles(term.rows[i])

(* A row of the durable history has the characters and the styles of the   *)
(* row of the screen without the padding at its end, and leaves the next   *)
(* row the default style; the plain document has the same rows.            *)
HistoryRowsAreFaithful ==
    /\ ScrollbackToText(term) = ScrollbackToAnsi(term)
    /\ HistoryRowsKeepTheirStyles

SnapshotsAreFaithful ==
    /\ WrapsAreWhole(term) => SnapshotIsFaithful /\ BoundedSnapshotShowsTheEnd
    /\ BoundedSnapshotIsBest
    /\ HistoryRowsAreFaithful
=============================================================================
