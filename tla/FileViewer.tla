----------------------------- MODULE FileViewer -----------------------------
(***************************************************************************)
(* The file viewer and the two threads behind it: the reader that loads a  *)
(* file and the highlighter that colours the text it loaded.  Each has one *)
(* slot for a request and one for a result, a generation that every        *)
(* request and every cancellation advances, and a flag that the thread     *)
(* raises when it ends, for whatever reason.  The window asks, cancels,    *)
(* closes and polls; it takes a result first and looks at the flag after,  *)
(* and the thread may run between the two.                                 *)
(*                                                                         *)
(* A text is the version of the file it was read from.  A file changes     *)
(* while the viewer is open; what the user asks to see again must have     *)
(* been read after the question.                                           *)
(***************************************************************************)
EXTENDS Naturals

CONSTANTS
  Paths,       \* the files
  MaxOpens,    \* bound: times a file is asked for
  MaxEdits,    \* bound: times a file changes
  MaxDeaths    \* bound: times a thread ends by a panic or cannot start

VARIABLES
  disk,        \* the version of every file
  viewer,      \* what the viewer shows; path 0 when it is closed
  worker,      \* the reader and the highlighter
  pc,          \* where the window is between taking a result and the flag
  opens, edits, deaths

vars == <<disk, viewer, worker, pc, opens, edits, deaths>>

Workers == {"reader", "highlighter"}
\* "long" is a text with lines too long to colour.
Kinds == {"text", "long", "binary", "unreadable"}

NoText == [path |-> 0, version |-> 0]
NoResult == [token |-> 0, text |-> NoText, kind |-> "text"]
NewWorker(closed) ==
  [next |-> 0, latest |-> 0, pending |-> NoResult, job |-> NoResult,
   read |-> FALSE, completed |-> NoResult, closed |-> closed]

\* asked is the version of the file when it was asked for (a ghost).
Closed == [path |-> 0, loading |-> FALSE, error |-> FALSE, document |-> NoText,
           highlighted |-> NoText, token |-> 0, asked |-> 0]
LoadingFileState(p) ==
  [Closed EXCEPT !.path = p, !.loading = TRUE, !.asked = disk[p]]

----------------------------------------------------------------------------
(* What the window does with a thread. *)

IsCurrentAlways(w, token) == TRUE
IsCurrent(w, token) == w.latest = token

Cancelled(w, token) == w.closed \/ ~IsCurrent(w, token)

Request(w, job) ==
  LET token == w.next + 1
  IN  [w EXCEPT !.next = token, !.latest = token, !.completed = NoResult,
                !.pending = IF w.closed THEN NoResult
                            ELSE [job EXCEPT !.token = token]]

Cancel(w) ==
  [w EXCEPT !.next = @ + 1, !.latest = w.next + 1,
            !.pending = NoResult, !.completed = NoResult]

IsAvailable(w) == ~w.closed

\* A result of another generation is taken and dropped.
Polled(w) ==
  IF IsCurrent(w, w.completed.token) THEN w.completed ELSE NoResult
Taken(w) == [w EXCEPT !.completed = NoResult]

----------------------------------------------------------------------------
(* The window. *)

\* A reader whose thread ended is replaced by a new one, which may not start.
ReaderFor(started) ==
  IF IsAvailable(worker["reader"]) THEN worker["reader"] ELSE NewWorker(~started)

StartFileViewerLoad(p, started) ==
  /\ worker' = [worker EXCEPT
                  !["highlighter"] = Cancel(@),
                  !["reader"] = Request(ReaderFor(started),
                                        [NoResult EXCEPT !.text.path = p])]
  /\ viewer' = LoadingFileState(p)
  /\ opens' = opens + 1
  /\ pc' = "asked"
  /\ deaths' = IF started THEN deaths ELSE deaths + 1
  /\ UNCHANGED <<disk, edits>>

MayStart(started) ==
  ~started => ~IsAvailable(worker["reader"]) /\ deaths < MaxDeaths

OpenFileViewer ==
  /\ pc = "idle" /\ opens < MaxOpens
  /\ \E p \in Paths, started \in BOOLEAN :
       MayStart(started) /\ StartFileViewerLoad(p, started)

Retry ==
  /\ pc = "idle" /\ opens < MaxOpens
  /\ viewer.path # 0 /\ viewer.error
  /\ \E started \in BOOLEAN :
       MayStart(started) /\ StartFileViewerLoad(viewer.path, started)

\* After the request the window looks whether anybody will answer it.
CheckReader ==
  /\ pc = "asked"
  /\ viewer' = IF IsAvailable(worker["reader"]) THEN viewer
               ELSE [viewer EXCEPT !.loading = FALSE, !.error = TRUE]
  /\ pc' = "idle"
  /\ UNCHANGED <<disk, worker, opens, edits, deaths>>

CloseViewer ==
  /\ pc = "idle" /\ viewer.path # 0
  /\ viewer' = Closed
  /\ worker' = [w \in Workers |-> Cancel(worker[w])]
  /\ UNCHANGED <<disk, pc, opens, edits, deaths>>

\* What the reader read is shown; a text short enough is sent to be coloured.
ActivateLoadedFile(result, w) ==
  LET shown == [viewer EXCEPT !.loading = FALSE,
                              !.error = (result.kind = "unreadable"),
                              !.document = IF result.kind \in {"text", "long"}
                                             THEN result.text ELSE NoText]
      colours == result.kind = "text" /\ IsAvailable(w["highlighter"])
      asked == Request(w["highlighter"], result)
  IN  IF colours
        THEN /\ viewer' = [shown EXCEPT !.token = asked.next]
             /\ worker' = [w EXCEPT !["highlighter"] = asked]
        ELSE viewer' = shown /\ worker' = w

PollFileViewerLoad ==
  /\ pc = "idle"
  /\ LET result == Polled(worker["reader"])
         taken == [worker EXCEPT !["reader"] = Taken(@)]
     IN  IF result # NoResult
           THEN /\ IF /\ IsCurrent(worker["reader"], result.token)
                      /\ viewer.loading /\ viewer.path = result.text.path
                     THEN ActivateLoadedFile(result, taken)
                     ELSE worker' = taken /\ UNCHANGED viewer
                /\ pc' = "colours"
           ELSE /\ worker' = taken
                /\ pc' = "nothing"
                /\ UNCHANGED viewer
  /\ UNCHANGED <<disk, opens, edits, deaths>>

PollFindsNothing ==
  /\ pc = "nothing"
  /\ viewer' = IF viewer.loading /\ ~IsAvailable(worker["reader"])
                 THEN [viewer EXCEPT !.loading = FALSE, !.error = TRUE] ELSE viewer
  /\ pc' = "colours"
  /\ UNCHANGED <<disk, worker, opens, edits, deaths>>

PollHighlighter ==
  /\ pc = "colours"
  /\ LET result == Polled(worker["highlighter"])
     IN  viewer' = IF viewer.path # 0 /\ result # NoResult
                        /\ viewer.token = result.token
                     THEN [viewer EXCEPT !.highlighted = result.text, !.token = 0]
                     ELSE viewer
  /\ worker' = [worker EXCEPT !["highlighter"] = Taken(@)]
  /\ pc' = "ended"
  /\ UNCHANGED <<disk, opens, edits, deaths>>

HighlighterEndedIgnored ==
  /\ pc = "ended"
  /\ pc' = "idle"
  /\ UNCHANGED <<disk, viewer, worker, opens, edits, deaths>>
\* A highlighter that ended leaves the text plain.
HighlighterEnded ==
  /\ pc = "ended"
  /\ viewer' = IF IsAvailable(worker["highlighter"]) THEN viewer
               ELSE [viewer EXCEPT !.token = 0]
  /\ pc' = "idle"
  /\ UNCHANGED <<disk, worker, opens, edits, deaths>>

----------------------------------------------------------------------------
(* The threads. *)

TakeJob(w) ==
  /\ ~worker[w].closed
  /\ worker[w].pending # NoResult /\ worker[w].job = NoResult
  /\ worker' = [worker EXCEPT
                  ![w].job = worker[w].pending, ![w].read = FALSE,
                  ![w].pending = NoResult]
  /\ UNCHANGED <<disk, viewer, pc, opens, edits, deaths>>

\* The reader opens a regular file and reads at most a bounded prefix of it;
\* what it finds is text, text with long lines, binary, or an error.
LoadFileForView ==
  /\ worker["reader"].job # NoResult /\ ~worker["reader"].read
  /\ \E k \in Kinds :
       LET w == worker["reader"]
       IN  worker' = [worker EXCEPT
             !["reader"] =
               IF Cancelled(w, w.job.token) THEN [w EXCEPT !.job = NoResult]
               ELSE [w EXCEPT !.read = TRUE, !.job.kind = k,
                              !.job.text.version = disk[w.job.text.path]]]
  /\ UNCHANGED <<disk, viewer, pc, opens, edits, deaths>>

\* Colouring looks for a cancellation between lines.
HighlightText ==
  /\ worker["highlighter"].job # NoResult /\ ~worker["highlighter"].read
  /\ LET w == worker["highlighter"]
     IN  worker' = [worker EXCEPT
           !["highlighter"] =
             IF Cancelled(w, w.job.token) THEN [w EXCEPT !.job = NoResult]
             ELSE [w EXCEPT !.read = TRUE]]
  /\ UNCHANGED <<disk, viewer, pc, opens, edits, deaths>>

Publish(w) ==
  /\ worker[w].job # NoResult /\ worker[w].read
  /\ worker' = [worker EXCEPT
       ![w] = IF Cancelled(@, @.job.token)
                THEN [@ EXCEPT !.job = NoResult, !.read = FALSE]
                ELSE [@ EXCEPT !.completed = worker[w].job, !.job = NoResult, !.read = FALSE]]
  /\ UNCHANGED <<disk, viewer, pc, opens, edits, deaths>>

\* A panic of the thread raises the flag and drops the request that waits.
WorkerExits(w) ==
  /\ deaths < MaxDeaths
  /\ ~worker[w].closed
  /\ worker' = [worker EXCEPT
                  ![w] = [@ EXCEPT !.closed = TRUE, !.pending = NoResult,
                                   !.job = NoResult, !.read = FALSE]]
  /\ deaths' = deaths + 1
  /\ UNCHANGED <<disk, viewer, pc, opens, edits>>

FileChanges ==
  /\ edits < MaxEdits
  /\ \E p \in Paths : disk' = [disk EXCEPT ![p] = @ + 1]
  /\ edits' = edits + 1
  /\ UNCHANGED <<viewer, worker, pc, opens, deaths>>

----------------------------------------------------------------------------
Init ==
  /\ disk = [p \in Paths |-> 1]
  /\ viewer = Closed
  /\ worker = [w \in Workers |-> NewWorker(FALSE)]
  /\ pc = "idle"
  /\ opens = 0 /\ edits = 0 /\ deaths = 0

Poll == PollFileViewerLoad \/ PollFindsNothing \/ PollHighlighter \/ HighlighterEnded

Works(w) == TakeJob(w) \/ Publish(w) \/ (w = "reader" /\ LoadFileForView)
              \/ (w = "highlighter" /\ HighlightText)

Next ==
  \/ OpenFileViewer \/ Retry \/ CheckReader \/ CloseViewer
  \/ PollFileViewerLoad \/ PollFindsNothing \/ PollHighlighter \/ HighlighterEnded
  \/ \E w \in Workers : TakeJob(w) \/ Publish(w) \/ WorkerExits(w)
  \/ LoadFileForView \/ HighlightText
  \/ FileChanges

Spec == Init /\ [][Next]_vars

\* Frames go on, and a thread that has work goes on with it.
Fairness ==
  /\ WF_vars(CheckReader) /\ WF_vars(Poll)
  /\ \A w \in Workers : WF_vars(Works(w))

FairSpec == Spec /\ Fairness

----------------------------------------------------------------------------
\* The viewer shows the file whose name it carries, as it was after it was
\* asked for and never as an earlier request read it, and its colours are
\* those of the text it shows (file_viewer_ui.rs, poll_file_viewer_load and
\* poll_highlighter; file_viewer_reader.rs and code_highlight.rs, the
\* generations).
ViewerShowsItsFile ==
  viewer.document # NoText =>
    /\ viewer.document.path = viewer.path
    /\ viewer.document.version >= viewer.asked
    /\ viewer.highlighted \in {NoText, viewer.document}

Unsettled == viewer.loading \/ viewer.token # 0
Settled == ~viewer.loading /\ viewer.token = 0

\* "Leyendo archivo" does not stay for ever, and nothing waits for colours
\* that will not come, though the threads may end at any step
\* (file_viewer_ui.rs, start_file_viewer_load and poll_file_viewer_load).
ViewerSettles ==
  Unsettled ~> Settled
=============================================================================
