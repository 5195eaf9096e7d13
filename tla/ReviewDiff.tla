----------------------------- MODULE ReviewDiff -----------------------------
(***************************************************************************)
(* The diff of a code review and the notes written on its lines            *)
(* (src/src/orchestration/code_diff.rs, src/src/app/code_review_ui.rs,     *)
(* src/src/orchestration/diff_notes.rs).                                   *)
(*                                                                         *)
(* A worker runs git, parses the unified diff and hands the files to the   *)
(* window; the user writes notes under lines of it, the repository changes *)
(* and is reviewed again, and the notes of the earlier review are shown    *)
(* with the new one.                                                       *)
(*                                                                         *)
(* A line of text is a tuple of words.  A raw line of git's output is a    *)
(* sign and a text, so that a removed line "-- x" and the header "--- x"   *)
(* are the same raw line, as they are for the parser.  The digest that     *)
(* identifies a reviewed file is the tuple of what is digested.            *)
(***************************************************************************)
EXTENDS Naturals, Sequences, FiniteSets, SequencesExt

CONSTANTS
    MaxOps,         \* lines of the edit script of the first file
    MaxReviews,     \* reviews opened
    MaxEdits,       \* changes of the repository after the first review
    MaxNotes        \* notes written

Context == 1        \* unchanged lines git shows around a change

\* A line of an edit script: kept, removed or added; removed and added lines
\* may look like the headers of a file.
Ops == {"keep", "del", "add"}
\* Every short script, and two with changes far enough apart for two hunks.
Scripts == UNION {[1 .. n -> Ops] : n \in 1 .. MaxOps}
           \cup {<<"del", "keep", "keep", "keep", "add">>, <<"add", "keep", "keep", "keep", "del">>}

TextOf(script, i) == CASE script[i] = "keep" -> <<"line">>
                       [] script[i] = "del"  -> <<"--", "other">>
                       [] script[i] = "add"  -> <<"++", "other">>

Changes == {"modified", "new", "deleted", "renamed", "binary"}
Contents == {"text", "binary", "large", "unreadable"}

\* Could the tracked file have changed this way by this script?
Fits(change, script) ==
    CASE change = "modified" -> \E i \in DOMAIN script : script[i] # "keep"
      [] change = "new"      -> \A i \in DOMAIN script : script[i] = "add"
      [] change = "deleted"  -> \A i \in DOMAIN script : script[i] = "del"
      [] change = "renamed"  -> TRUE
      [] change = "binary"   -> script = <<"add">>

VARIABLES
    repo,       \* the repository: head, how its files changed
    worker,     \* "none", or the loader thread's "running"
    requests,   \* reviews the loader was asked for
    results,    \* what it answered
    review,     \* the open review
    notes,      \* the notes of the repository
    editing,    \* the note being written: <<>> or <<edit>>
    reviews, edits, \* reviews opened and changes made so far
    loaded      \* history: the repository as each review's load saw it

vars == <<repo, worker, requests, results, review, notes, editing, reviews, edits, loaded>>

NoReview == [key |-> 0, loading |-> FALSE, failed |-> FALSE, files |-> <<>>, selected |-> 0,
             allNotes |-> FALSE]

RepoStates == {[head |-> 1, change |-> c, script |-> s, untracked |-> u] :
             c \in Changes, s \in Scripts, u \in Contents}

Init ==
    /\ repo \in {r \in RepoStates : Fits(r.change, r.script)
                                /\ (r.untracked # "text" => r.script \in {<<"add">>, <<"del">>})}
    /\ worker = "none" /\ requests = <<>> /\ results = <<>>
    /\ review = NoReview /\ notes = <<>> /\ editing = <<>>
    /\ reviews = 0 /\ edits = 0 /\ loaded = <<>>

(***************************************************************************)
(* git's output: the raw lines of `git diff HEAD`.                         *)
(***************************************************************************)
Raw(sign, text) == [sign |-> sign, text |-> text]
RawHunk(old, new) == [sign |-> "@@", text |-> <<"@@">>, old |-> old, new |-> new]

Shown(script) == {i \in DOMAIN script :
    \E j \in DOMAIN script : script[j] # "keep" /\ j <= i + Context /\ i <= j + Context}

\* Lines of the old (or the new) file among the first n of a script.
Before(script, n, other) == Cardinality({i \in 1 .. n : script[i] # other})

HunkEnd(script, i) ==
    CHOOSE e \in Shown(script) : e >= i /\ i .. e \subseteq Shown(script) /\ e + 1 \notin Shown(script)

\* Where a hunk starts: one earlier when it has no line of that side.
Start(script, i, other) ==
    LET end == HunkEnd(script, i)
    IN  Before(script, i - 1, other) + (IF Before(script, end, other) > Before(script, i - 1, other) THEN 1 ELSE 0)

RawLine(script, i) ==
    (IF i - 1 \in Shown(script) THEN <<>>
     ELSE <<RawHunk(Start(script, i, "add"), Start(script, i, "del"))>>)
    \o <<Raw(CASE script[i] = "keep" -> " " [] script[i] = "del" -> "-" [] script[i] = "add" -> "+",
             TextOf(script, i))>>

Hunks(script) == FlattenSeq([i \in DOMAIN script |-> IF i \in Shown(script) THEN RawLine(script, i) ELSE <<>>])

Header(old, new) == <<Raw("-", <<"--", old>>), Raw("+", <<"++", new>>)>>

GitFile(change, script) ==
    <<Raw("diff", <<"f">>)>> \o
    (CASE change = "modified" -> Header("f", "f") \o Hunks(script)
       [] change = "new"      -> <<Raw("new", <<>>)>> \o Header("/dev/null", "f") \o Hunks(script)
       [] change = "deleted"  -> <<Raw("deleted", <<>>)>> \o Header("f", "/dev/null") \o Hunks(script)
       [] change = "renamed"  -> <<Raw("rename from", <<"e">>), Raw("rename to", <<"f">>)>> \o
            (IF Shown(script) = {} THEN <<>> ELSE Header("e", "f") \o Hunks(script))
       [] change = "binary"   -> <<Raw("binary", <<>>)>>)

\* The changed file and one more after it.
SecondScript == <<"del", "keep">>
GitDiff(r) == GitFile(r.change, r.script) \o
              <<Raw("diff", <<"g">>)>> \o Header("g", "g") \o Hunks(SecondScript)

(***************************************************************************)
(* parse_unified_diff                                                      *)
(***************************************************************************)
NewFile(path) == [path |-> path, old |-> <<>>, isNew |-> FALSE, isDeleted |-> FALSE, isBinary |-> FALSE,
                  additions |-> 0, deletions |-> 0, lines |-> <<>>, unavailable |-> FALSE, identity |-> <<>>]

DiffLine(kind, old, new, text) == [kind |-> kind, old |-> old, new |-> new, text |-> text]

\* Faulty variant, for mutation: a header is recognised inside a hunk too.
LooksLikeHeaderAnywhere(p, raw) ==
    \/ raw.sign = "-" /\ raw.text[1] = "--"
    \/ raw.sign = "+" /\ raw.text[1] = "++"

\* "--- " and "+++ " name the file only before its first hunk.
LooksLikeHeader(p, raw) ==
    /\ ~p.inHunk
    /\ \/ raw.sign = "-" /\ raw.text[1] = "--"
       \/ raw.sign = "+" /\ raw.text[1] = "++"

NamedBy(file, raw) ==
    IF raw.text[2] = "/dev/null" THEN file
    ELSE IF raw.sign = "-" THEN [file EXCEPT !.old = <<raw.text[2]>>]
    ELSE [file EXCEPT !.path = raw.text[2]]

\* A line of a hunk, numbered by the counters of its side.
ContentLine(p, file, raw) ==
    CASE raw.sign = "+" ->
            [p EXCEPT !.new = @ + 1, !.file = <<[file EXCEPT !.additions = @ + 1,
                !.lines = Append(@, DiffLine("Added", <<>>, <<p.new>>, raw.text))]>>]
      [] raw.sign = "-" ->
            [p EXCEPT !.old = @ + 1, !.file = <<[file EXCEPT !.deletions = @ + 1,
                !.lines = Append(@, DiffLine("Removed", <<p.old>>, <<>>, raw.text))]>>]
      [] raw.sign = " " ->
            [p EXCEPT !.old = @ + 1, !.new = @ + 1, !.file = <<[file EXCEPT
                !.lines = Append(@, DiffLine("Context", <<p.old>>, <<p.new>>, raw.text))]>>]

\* A hunk's header: the counters start where it says.
HunkLine(p, file, raw) ==
    [p EXCEPT !.inHunk = TRUE, !.old = raw.old, !.new = raw.new,
              !.file = <<[file EXCEPT !.lines = Append(@, DiffLine("HunkHeader", <<>>, <<>>, raw.text))]>>]

\* The next file: the one before it is complete, its counters are gone.
NextFile(p, raw) ==
    [files |-> p.files \o p.file, file |-> <<NewFile(raw.text[1])>>, old |-> 0, new |-> 0, inHunk |-> FALSE]

ParseLine(p, raw) ==
    IF raw.sign = "diff" THEN NextFile(p, raw)
    ELSE IF p.file = <<>> THEN p
    ELSE LET file == p.file[1]
         IN  CASE raw.sign = "new"         -> [p EXCEPT !.file = <<[file EXCEPT !.isNew = TRUE]>>]
               [] raw.sign = "deleted"     -> [p EXCEPT !.file = <<[file EXCEPT !.isDeleted = TRUE]>>]
               [] raw.sign = "binary"      -> [p EXCEPT !.file = <<[file EXCEPT !.isBinary = TRUE]>>]
               [] raw.sign = "rename from" -> [p EXCEPT !.file = <<[file EXCEPT !.old = raw.text]>>]
               [] raw.sign = "rename to"   -> [p EXCEPT !.file = <<[file EXCEPT !.path = raw.text[1]]>>]
               [] raw.sign = "@@"          -> HunkLine(p, file, raw)
               [] OTHER -> IF LooksLikeHeader(p, raw) THEN [p EXCEPT !.file = <<NamedBy(file, raw)>>]
                           ELSE ContentLine(p, file, raw)

ParseUnifiedDiff(text) ==
    LET p == FoldLeft(ParseLine, [files |-> <<>>, file |-> <<>>, old |-> 0, new |-> 0, inHunk |-> FALSE], text)
    IN  p.files \o p.file

\* new_file_diff: an untracked file, read by the app itself.
NewFileDiff(content) ==
    LET file == [NewFile("u") EXCEPT !.isNew = TRUE]
    IN  CASE content = "text" ->
                [file EXCEPT !.additions = 2,
                    !.lines = [i \in 1 .. 2 |-> DiffLine("Added", <<>>, <<i>>, <<"u">>)]]
          [] content = "binary" -> [file EXCEPT !.isBinary = TRUE, !.unavailable = TRUE]
          [] OTHER -> [file EXCEPT !.unavailable = TRUE]

\* Faulty variant, for mutation: the identity leaves out the lines' numbers.
ReviewIdentityByText(file, head) ==
    <<head, file.path, file.old, [i \in DOMAIN file.lines |-> file.lines[i].text]>>

ReviewIdentity(file, head) == <<head, file.path, file.old, file.lines>>

\* load_repo_diff, with git failing or its answer.
LoadRepoDiff(r) ==
    LET files == Append(ParseUnifiedDiff(GitDiff(r)), NewFileDiff(r.untracked))
    IN  [i \in DOMAIN files |-> [files[i] EXCEPT !.identity = ReviewIdentity(files[i], r.head)]]

(***************************************************************************)
(* The loader and the review.                                              *)
(***************************************************************************)
\* open_code_review.  The thread may not start: the request is dropped.
OpenCodeReview ==
    /\ reviews < MaxReviews /\ reviews' = reviews + 1
    /\ review' = [NoReview EXCEPT !.key = reviews + 1, !.loading = TRUE] /\ editing' = <<>>
    /\ loaded' = Append(loaded, <<>>)
    /\ \/ worker' = "running" /\ requests' = Append(requests, reviews + 1)
       \/ worker = "none" /\ UNCHANGED <<worker, requests>>
    /\ UNCHANGED <<repo, results, notes, edits>>

\* The loader thread answers one request, from the repository as it is now.
Load(ok) ==
    /\ requests # <<>>
    /\ results' = Append(results, [key |-> Head(requests), files |-> IF ok THEN <<LoadRepoDiff(repo)>> ELSE <<>>])
    /\ loaded' = [loaded EXCEPT ![Head(requests)] = <<repo>>]
    /\ requests' = Tail(requests)
    /\ UNCHANGED <<repo, worker, review, notes, editing, reviews, edits>>

\* Faulty variant, for mutation: an answer to an earlier review is accepted.
IsForAnyReview(result) == review.key # 0

\* The answer is the open review's.
IsForReview(result) == review.key # 0 /\ result.key = review.key

\* poll_diff_loader, one answer.
PollDiffLoader ==
    /\ results # <<>> /\ results' = Tail(results)
    /\ review' = IF ~IsForReview(Head(results)) THEN review
                 ELSE IF Head(results).files = <<>> THEN [review EXCEPT !.loading = FALSE, !.failed = TRUE]
                 ELSE [review EXCEPT !.loading = FALSE, !.failed = FALSE, !.selected = 1,
                                     !.files = Head(results).files[1]]
    /\ UNCHANGED <<repo, worker, requests, notes, editing, reviews, edits, loaded>>

\* code_review_file_list: only drawn with a loaded diff.
SelectFile(i) ==
    /\ i # review.selected /\ review' = [review EXCEPT !.selected = i]
    /\ UNCHANGED <<repo, worker, requests, results, notes, editing, reviews, edits, loaded>>

CloseReview ==
    /\ review # NoReview /\ review' = NoReview /\ editing' = <<>>
    /\ UNCHANGED <<repo, worker, requests, results, notes, reviews, edits, loaded>>

(***************************************************************************)
(* Notes.                                                                  *)
(***************************************************************************)
\* diff_line_anchor: the new number if there is one.
Anchor(line) == IF line.new # <<>> THEN line.new ELSE line.old
OldSide(line) == line.new = <<>>

\* note_is_stale, for a file of the diff.
NoteIsStale(note, file) == note.identity # file.identity

\* Faulty variant, for mutation: the side of the line is not compared.
SitsAtNumber(note, line, file) == <<note.line>> = Anchor(line) /\ ~NoteIsStale(note, file)

\* The note belongs under this line.
SitsAt(note, line, file) ==
    /\ <<note.line>> = Anchor(line) /\ note.old = OldSide(line)
    /\ ~NoteIsStale(note, file)

Row(kind, n) == [kind |-> kind, n |-> n]

NotesRows(chosen(_)) ==
    [i \in DOMAIN SetToSortSeq({n \in DOMAIN notes : chosen(n)}, <) |->
        Row("Note", SetToSortSeq({n \in DOMAIN notes : chosen(n)}, <)[i])]

\* build_review_rows: the lines of a file, each followed by its notes and by the
\* editor, then the notes without a line.
BuildReviewRows(file) ==
    LET mine(n) == notes[n].path = file.path
        editor == {e \in ToSet(editing) : e.path = file.path}
        at(i) == {n \in DOMAIN notes : mine(n) /\ SitsAt(notes[n], file.lines[i], file)}
        under(i) == NotesRows(LAMBDA n : n \in at(i))
        editorAt(i) == \E e \in editor : <<e.line>> = Anchor(file.lines[i]) /\ e.old = OldSide(file.lines[i])
        anchored == UNION {at(i) : i \in DOMAIN file.lines}
        edited == \E i \in DOMAIN file.lines : editorAt(i)
        rows(i) == <<Row("Diff", i)>> \o under(i) \o (IF editorAt(i) THEN <<Row("Editor", 0)>> ELSE <<>>)
    IN  FlattenSeq([i \in DOMAIN file.lines |-> rows(i)])
        \o NotesRows(LAMBDA n : mine(n) /\ n \notin anchored)
        \o (IF editor # {} /\ ~edited THEN <<Row("Editor", 0)>> ELSE <<>>)

\* code_review_body: the list of all notes can replace the diff.
DiffIsShown == ~review.allNotes /\ ~review.loading /\ ~review.failed /\ review.files # <<>>

ToggleAllNotes ==
    /\ review.key # 0 /\ review' = [review EXCEPT !.allNotes = ~@]
    /\ UNCHANGED <<repo, worker, requests, results, notes, editing, reviews, edits, loaded>>

\* "+" beside a line of the selected file: NoteAction::Create.
CreateNote(i) ==
    LET file == review.files[review.selected]
    IN  /\ editing = <<>> /\ Len(notes) < MaxNotes
        /\ Anchor(file.lines[i]) # <<>>
        /\ editing' = <<[note |-> 0, path |-> file.path, line |-> Anchor(file.lines[i])[1],
                         old |-> OldSide(file.lines[i]), about |-> file.lines[i]]>>
        /\ UNCHANGED <<repo, worker, requests, results, review, notes, reviews, edits, loaded>>

\* NoteAction::Edit, from the list of notes or from the note's row.
EditNote(n) ==
    /\ review.allNotes \/ (DiffIsShown /\ notes[n].path = review.files[review.selected].path)
    /\ editing' = <<[note |-> n, path |-> notes[n].path, line |-> notes[n].line,
                     old |-> notes[n].old, about |-> notes[n].about]>>
    /\ editing' # editing
    /\ UNCHANGED <<repo, worker, requests, results, review, notes, reviews, edits, loaded>>

Without(n) == SubSeq(notes, 1, n - 1) \o SubSeq(notes, n + 1, Len(notes))

\* save_note_editor: a new note gets the identity of the file it is about, an
\* edited one keeps its own, an emptied one is removed.
SaveNoteEditor(empty) ==
    /\ editing # <<>> /\ review.key # 0 /\ editing' = <<>>
    /\ LET e == editing[1]
           file == SelectSeq(review.files, LAMBDA f : f.path = e.path)[1]
       IN  notes' = CASE e.note = 0 /\ ~empty -> Append(notes, [path |-> e.path, line |-> e.line, old |-> e.old,
                                                     identity |-> file.identity, about |-> e.about])
                      [] e.note # 0 /\ empty  -> Without(e.note)
                      [] OTHER -> notes
    /\ UNCHANGED <<repo, worker, requests, results, review, reviews, edits, loaded>>

CancelEditor ==
    /\ editing # <<>> /\ editing' = <<>>
    /\ UNCHANGED <<repo, worker, requests, results, review, notes, reviews, edits, loaded>>

\* NoteAction::Delete.  An edit of a deleted note is saved to nothing: notes are
\* found by their id.
DeleteNote(n) ==
    /\ review.key # 0 /\ editing = <<>> /\ notes' = Without(n)
    /\ UNCHANGED <<repo, worker, requests, results, review, editing, reviews, edits, loaded>>

(***************************************************************************)
(* The agents go on working in the repository.                             *)
(***************************************************************************)
Edit(r) ==
    /\ edits < MaxEdits /\ edits' = edits + 1 /\ reviews > 0 /\ repo' = r /\ r # repo
    /\ UNCHANGED <<worker, requests, results, review, notes, editing, reviews, loaded>>

\* A line more at the top, the last change undone, or everything committed.
Edited(r) ==
    {[r EXCEPT !.script = <<op>> \o @] : op \in {"keep", "del", "add"}}
    \cup {[r EXCEPT !.script = Front(@)] : x \in {1} \cap {y \in {1} : Len(r.script) > 1}}
    \cup {[r EXCEPT !.head = @ + 1]}

Next ==
    \/ OpenCodeReview \/ CloseReview \/ PollDiffLoader
    \/ \E ok \in BOOLEAN : Load(ok)
    \/ DiffIsShown /\ \E i \in DOMAIN review.files : SelectFile(i)
    \/ DiffIsShown /\ \E i \in DOMAIN review.files[review.selected].lines : CreateNote(i)
    \/ ToggleAllNotes \/ CancelEditor \/ \E empty \in BOOLEAN : SaveNoteEditor(empty)
    \/ \E n \in DOMAIN notes : DeleteNote(n) \/ EditNote(n)
    \/ \E r \in {x \in Edited(repo) : Fits(x.change, x.script)} : Edit(r)

Spec == Init /\ [][Next]_vars

(***************************************************************************)
(* Properties.                                                             *)
(***************************************************************************)
\* The lines of a script's hunks, numbered by counting in the two files.
Numbered(script) ==
    {[text |-> TextOf(script, i),
      old |-> IF script[i] = "add" THEN <<>> ELSE <<Before(script, i, "add")>>,
      new |-> IF script[i] = "del" THEN <<>> ELSE <<Before(script, i, "del")>>] : i \in Shown(script)}

FileIs(file, path, script) ==
    /\ file.path = path
    /\ {[text |-> l.text, old |-> l.old, new |-> l.new] :
           l \in {x \in ToSet(file.lines) : x.kind # "HunkHeader"}} = Numbered(script)
    /\ file.additions = Cardinality({i \in DOMAIN script : script[i] = "add"})
    /\ file.deletions = Cardinality({i \in DOMAIN script : script[i] = "del"})

\* The open review shows the diff of the repository as its own load saw it.
FilesAreRight(r) ==
    /\ Len(review.files) = 3
    /\ FileIs(review.files[1], "f", IF r.change = "binary" THEN <<>> ELSE r.script)
    /\ review.files[1].old = (CASE r.change = "renamed" -> <<"e">> [] r.change \in {"new", "binary"} -> <<>>
                                [] OTHER -> <<"f">>)
    /\ FileIs(review.files[2], "g", SecondScript)

\* Each note of a file is shown once; a note shown under a line was written on a
\* line with that text, on that side and with those numbers.
NotesAreRight(file) ==
    LET rows == BuildReviewRows(file)
        places(n) == {i \in DOMAIN rows : rows[i] = Row("Note", n)}
        lineOf(i) == {j \in 1 .. i : rows[j].kind = "Diff" /\ \A k \in j + 1 .. i : rows[k].kind # "Diff"}
    IN  /\ \A n \in DOMAIN notes : Cardinality(places(n)) = (IF notes[n].path = file.path THEN 1 ELSE 0)
        /\ \A n \in DOMAIN notes : \A i \in places(n) : ~NoteIsStale(notes[n], file) =>
               \E j \in lineOf(i) : file.lines[rows[j].n] = notes[n].about
        /\ editing # <<>> => Cardinality({i \in DOMAIN rows : rows[i].kind = "Editor"})
                             = (IF editing[1].path = file.path THEN 1 ELSE 0)

\* The review shows the diff as git has it: every changed line with its text and
\* its numbers in the two files, also when its text looks like a header, the
\* files in order and none mixed with the next, and only the diff its own load
\* read; and every note is shown exactly once, under the line it was written on
\* or, after that line changed, apart from the lines (parse_unified_diff,
\* poll_diff_loader, build_review_rows).
ReviewIsExact ==
    review.files # <<>> =>
        /\ loaded[review.key] # <<>> /\ FilesAreRight(loaded[review.key][1])
        /\ \A i \in DOMAIN review.files : NotesAreRight(review.files[i])
=============================================================================
