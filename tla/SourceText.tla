----------------------------- MODULE SourceText -----------------------------
(***************************************************************************)
(* The text of the file viewer: how a source is cut into lines and rows,   *)
(* and how the keyboard and the pointer move a selection over it.          *)
(*                                                                         *)
(* A source is a sequence of scalars: "a" stands for one that begins a     *)
(* grapheme, "m" for a mark that joins the one before it (two bytes), "r"  *)
(* and "n" for carriage return and line feed.  An offset is the number of  *)
(* scalars before it.  A line is cut into rows of at most                  *)
(* FRAGMENT_BYTE_CAP bytes, between graphemes unless one grapheme alone is *)
(* longer than a row; the selection is kept in offsets of the source, with *)
(* the row the caret was put on, which tells apart the end of a row and    *)
(* the start of the next.                                                  *)
(***************************************************************************)
EXTENDS Integers, SequencesExt

CONSTANTS
  MaxLength,           \* bound: scalars of a source
  FRAGMENT_BYTE_CAP    \* bytes of a row

Scalars == {"a", "m", "r", "n"}
Lt(x, y) == x < y

Bytes(s, i, j) == (j - i) + Cardinality({k \in (i + 1)..j : s[k] = "m"})

\* Where a grapheme of the text between i and j begins or ends.
IsCut(s, i, j, k) == k = i \/ k = j \/ s[k + 1] # "m" \/ s[k] \in {"r", "n"}
Cuts(s, i, j) == {k \in i..j : IsCut(s, i, j, k)}

----------------------------------------------------------------------------
(* Lines and rows. *)

Row(line, i, j) == [line |-> line, start |-> i, end |-> j]

\* The rows of a grapheme longer than a row: each as long as it may be.
Chunks(s, line, i, j) ==
  FoldLeft(LAMBDA out, step :
             LET a == IF out = <<>> THEN i ELSE Last(out).end
                 fits == {k \in (a + 1)..j : Bytes(s, a, k) <= FRAGMENT_BYTE_CAP}
             IN  IF a = j THEN out
                 ELSE Append(out, Row(line, a, CHOOSE k \in fits : \A x \in fits : x <= k)),
           <<>>, [step \in 1..(j - i) |-> step])

FragmentLineAtBytes(s, line, i, j) ==
  IF i = j THEN <<Row(line, i, j)>> ELSE Chunks(s, line, i, j)
FragmentLine(s, line, i, j) ==
  LET cuts == SetToSortSeq(Cuts(s, i, j), Lt)
      \* one grapheme after another; start is where the row under way begins
      Step(acc, g) ==
        LET a == cuts[g]
            b == cuts[g + 1]
        IN  IF Bytes(s, a, b) > FRAGMENT_BYTE_CAP
              THEN [start |-> b,
                    rows |-> (IF acc.start < a
                                THEN Append(acc.rows, Row(line, acc.start, a))
                                ELSE acc.rows) \o Chunks(s, line, a, b)]
            ELSE IF Bytes(s, acc.start, b) > FRAGMENT_BYTE_CAP
              THEN [start |-> a, rows |-> Append(acc.rows, Row(line, acc.start, a))]
            ELSE acc
      done == FoldLeft(Step, [start |-> i, rows |-> <<>>],
                       [g \in 1..(Len(cuts) - 1) |-> g])
  IN  IF done.start < j \/ i = j
        THEN Append(done.rows, Row(line, done.start, j)) ELSE done.rows

\* CR LF and LF end a line and are in no row; a CR alone is content.
LogicalLine(s, i, j) ==
  [start |-> i, next |-> j,
   end |-> IF s[j] = "n" /\ j - i >= 2 /\ s[j - 1] = "r" THEN j - 2
           ELSE IF s[j] = "n" THEN j - 1 ELSE j]

PrepareLines(s) ==
  LET starts == SetToSortSeq({0} \union {k \in 1..(Len(s) - 1) : s[k] = "n"}, Lt)
  IN  IF s = <<>> THEN <<>>
      ELSE [l \in 1..Len(starts) |->
              LogicalLine(s, starts[l],
                          IF l = Len(starts) THEN Len(s) ELSE starts[l + 1])]

Prepare(s) ==
  LET lines == PrepareLines(s)
  IN  [source |-> s, lines |-> lines,
       rows |-> FoldLeft(LAMBDA out, l :
                           out \o FragmentLine(s, l, lines[l].start, lines[l].end),
                         <<>>, [l \in 1..Len(lines) |-> l])]

----------------------------------------------------------------------------
VARIABLES
  doc,     \* the document: its source, lines and rows
  sel      \* the selection, the row of its caret and the column it keeps

vars == <<doc, sel>>

NoSelection ==
  [set |-> FALSE, anchor |-> 0, caret |-> 0, row |-> 0, column |-> -1, dragging |-> FALSE]

Size == Len(doc.source)

\* The last line that begins at or before the offset; 0 without lines.
LineForOffset(o) == Cardinality({l \in 1..Len(doc.lines) : doc.lines[l].start <= o})

\* The first row that ends at or after the offset, or the last one.
FragmentForOffset(o) ==
  LET before == Cardinality({f \in 1..Len(doc.rows) : doc.rows[f].end < o})
  IN  IF before < Len(doc.rows) THEN before + 1 ELSE Len(doc.rows)

CaretFragment(state) ==
  IF /\ state.row \in 1..Len(doc.rows)
     /\ doc.rows[state.row].start <= state.caret
     /\ state.caret <= doc.rows[state.row].end
    THEN state.row ELSE FragmentForOffset(state.caret)

StepRowHere(o, right) == FragmentForOffset(o)

\* The row a step begins on when the offset is between two rows of a line.
StepRow(o, right) ==
  LET f == FragmentForOffset(o)
      line == doc.rows[f].line
  IN  IF right /\ o = doc.rows[f].end /\ f < Len(doc.rows)
           /\ doc.rows[f + 1].line = line
        THEN f + 1
      ELSE IF ~right /\ o = doc.rows[f].start /\ f > 1
           /\ doc.rows[f - 1].line = line
        THEN f - 1
      ELSE f

\* One grapheme left or right; the end of a line is one step wide.
HorizontalOffset(o, right) ==
  LET l == LineForOffset(o)
      line == doc.lines[l]
      row == doc.rows[StepRow(o, right)]
      cuts == Cuts(doc.source, row.start, row.end)
  IN  IF l = 0 THEN 0
      ELSE IF right /\ o >= line.end
        THEN IF l < Len(doc.lines) THEN doc.lines[l + 1].start ELSE Size
      ELSE IF ~right /\ o > line.end THEN line.end
      ELSE IF ~right /\ o = line.start
        THEN IF l > 1 THEN doc.lines[l - 1].end ELSE 0
      ELSE IF right
        THEN LET ahead == {k \in cuts : k > o} IN
             IF ahead = {} THEN o ELSE CHOOSE k \in ahead : \A x \in ahead : k <= x
      ELSE LET behind == {k \in cuts : k < o} \union {row.start} IN
           CHOOSE k \in behind : \A x \in behind : x <= k

\* Home and End within the line, or with the command key within the source.
LineEdge(o, end) ==
  LET l == LineForOffset(o)
  IN  IF l = 0 THEN 0 ELSE IF end THEN doc.lines[l].end ELSE doc.lines[l].start

\* The offset in a row nearest to a column, at a grapheme that begins there.
InRow(f, column) ==
  LET row == doc.rows[f]
      want == row.start + (IF column < row.end - row.start
                             THEN column ELSE row.end - row.start)
      after == {k \in Cuts(doc.source, row.start, row.end) : k >= want}
  IN  CHOOSE k \in after : \A x \in after : k <= x

Placed(state, shift, target, row, column) ==
  [state EXCEPT !.set = TRUE, !.anchor = IF shift THEN @ ELSE target,
                !.caret = target, !.row = row, !.column = column]

Vertical(state, up, shift) ==
  LET f == CaretFragment(state)
      row == doc.rows[f]
      within == IF state.caret > row.end THEN row.end ELSE state.caret
      column == IF state.column >= 0 THEN state.column ELSE within - row.start
      next == IF up THEN (IF f > 1 THEN f - 1 ELSE f)
              ELSE IF f < Len(doc.rows) THEN f + 1 ELSE f
  IN  IF f = 0 THEN Placed(state, shift, 0, 0, -1)
      ELSE Placed(state, shift, InRow(next, column), next, column)

\* An arrow without shift first collapses a selection to its edge.
Horizontal(state, right, shift, command) ==
  LET low == IF state.anchor < state.caret THEN state.anchor ELSE state.caret
      high == IF state.anchor < state.caret THEN state.caret ELSE state.anchor
      target == IF ~shift /\ low # high THEN (IF right THEN high ELSE low)
                ELSE IF command THEN LineEdge(state.caret, right)
                ELSE HorizontalOffset(state.caret, right)
  IN  Placed(state, shift, target, FragmentForOffset(target), -1)

HomeEnd(state, end, shift, command) ==
  LET target == IF command THEN (IF end THEN Size ELSE 0)
                ELSE LineEdge(state.caret, end)
  IN  Placed(state, shift, target, FragmentForOffset(target), -1)

----------------------------------------------------------------------------
Sources == UNION {[1..n -> Scalars] : n \in 0..MaxLength}

Init ==
  /\ \E s \in Sources : doc = Prepare(s)
  /\ sel = NoSelection

Navigate ==
  /\ \E forward, shift, command \in BOOLEAN, key \in {"arrow", "edge", "row"} :
       sel' = CASE key = "arrow" -> Horizontal(sel, forward, shift, command)
                [] key = "edge"  -> HomeEnd(sel, forward, shift, command)
                [] key = "row"   -> Vertical(sel, ~forward, shift)
  /\ UNCHANGED doc

SelectAll ==
  /\ sel' = [sel EXCEPT !.set = TRUE, !.anchor = 0, !.caret = Size,
                        !.row = FragmentForOffset(Size), !.column = -1]
  /\ UNCHANGED doc

\* The menu leaves the row and the column of the caret as they were.
SelectAllFromMenu ==
  /\ doc.source # <<>>
  /\ sel' = [sel EXCEPT !.set = TRUE, !.anchor = 0, !.caret = Size]
  /\ UNCHANGED doc

\* A press puts the caret before a scalar of a visible row; a drag moves it.
PointerCaret ==
  /\ \E f \in 1..Len(doc.rows), starts, shift \in BOOLEAN :
       \E o \in doc.rows[f].start..doc.rows[f].end :
         /\ ~starts => sel.dragging
         /\ sel' = [sel EXCEPT
              !.set = TRUE, !.caret = o, !.row = f, !.column = -1,
              !.anchor = IF (starts /\ ~shift) \/ ~sel.set THEN o ELSE @,
              !.dragging = TRUE]
  /\ UNCHANGED doc

PointerReleased ==
  /\ sel.dragging
  /\ sel' = [sel EXCEPT !.dragging = FALSE]
  /\ UNCHANGED doc

Next == Navigate \/ SelectAll \/ SelectAllFromMenu \/ PointerCaret \/ PointerReleased

Spec == Init /\ [][Next]_vars

----------------------------------------------------------------------------
\* The lines with their endings are the source, one after the other, and the
\* rows of a line are its content: no scalar is lost, repeated or shown twice,
\* no row is longer than its bound, only an empty line has an empty row, and
\* a grapheme that fits in a row is not cut.
RowsAreLossless ==
  LET s == doc.source
      rowsOf(l) == SelectSeq(doc.rows, LAMBDA r : r.line = l)
      Joined(seq, from, to) ==
        /\ seq # <<>> => seq[1].start = from /\ Last(seq).end = to
        /\ \A k \in 1..(Len(seq) - 1) : seq[k].end = seq[k + 1].start
  IN  /\ Len(s) > 0 => doc.lines[1].start = 0 /\ Last(doc.lines).next = Len(s)
      /\ \A l \in 1..Len(doc.lines) :
           LET line == doc.lines[l]
           IN  /\ l > 1 => doc.lines[l - 1].next = line.start
               /\ SubSeq(s, line.end + 1, line.next) \in {<<>>, <<"n">>, <<"r", "n">>}
               /\ \A k \in (line.start + 1)..line.end : s[k] # "n"
               /\ rowsOf(l) # <<>>
               /\ Joined(rowsOf(l), line.start, line.end)
      /\ \A f \in 1..Len(doc.rows) :
           LET r == doc.rows[f]
               line == doc.lines[r.line]
               cuts == Cuts(s, line.start, line.end)
               \* the grapheme that a cut at offset k falls in
               Low(k) == CHOOSE x \in cuts : x < k /\ \A y \in cuts : y < k => y <= x
               High(k) == CHOOSE x \in cuts : x > k /\ \A y \in cuts : y > k => x <= y
           IN  /\ Bytes(s, r.start, r.end) <= FRAGMENT_BYTE_CAP
               /\ r.start = r.end => line.start = line.end
               /\ r.start \notin cuts =>
                    Bytes(s, Low(r.start), High(r.start)) > FRAGMENT_BYTE_CAP

\* From the start of the source the right arrow reaches its end, every press
\* moves, and the left arrow goes back over the same stops.
ArrowsReachEverything ==
  LET Stops == {o \in 0..Size :
                  \/ \E f \in 1..Len(doc.rows) :
                       o \in Cuts(doc.source, doc.rows[f].start, doc.rows[f].end)
                  \/ o = Size}
  IN  \A o \in Stops :
        /\ o # Size => HorizontalOffset(o, TRUE) > o
        /\ HorizontalOffset(o, TRUE) # o =>
             HorizontalOffset(HorizontalOffset(o, TRUE), FALSE) = o

\* Whatever keys and presses came, the ends of the selection are in the
\* source and never between a CR and its LF, and the row that shows the caret
\* holds it unless it stands after the last line's ending.
CaretIsShown ==
  LET Whole(o) == /\ o \in 0..Size
                  /\ (o > 0 /\ o < Size) =>
                       ~(doc.source[o] = "r" /\ doc.source[o + 1] = "n")
      f == CaretFragment(sel)
  IN  sel.set =>
        /\ Whole(sel.anchor) /\ Whole(sel.caret)
        /\ f # 0 => \/ doc.rows[f].start <= sel.caret /\ sel.caret <= doc.rows[f].end
                    \/ sel.caret = Size /\ f = Len(doc.rows)

\* The viewer shows the whole source in bounded rows, the arrows reach all of
\* it, and the caret is always where the selection says
\* (file_viewer_document.rs, prepare_cancellable and fragment_line;
\* file_viewer_selection.rs, horizontal_offset, navigate and pointer_caret).
TextIsWhole ==
  /\ ~sel.set => RowsAreLossless /\ ArrowsReachEverything
  /\ CaretIsShown
=============================================================================
