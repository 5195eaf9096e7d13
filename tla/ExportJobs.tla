------------------------------ MODULE ExportJobs ------------------------------
(***************************************************************************)
(* Exports to a file: the lazy worker of app/export_worker.rs and the      *)
(* window that uses it (app/export_action.rs, the exit in app.rs).  One    *)
(* export at a time: the worker's thread starts with the first one, jobs   *)
(* and results travel in channels of one slot, and an export counts as     *)
(* running until the window has taken its result.  The thread may die in   *)
(* the middle of a job; from then on there are no exports.  At the exit    *)
(* the window waits for the export that is running and then for the        *)
(* thread.                                                                 *)
(***************************************************************************)
EXTENDS Naturals, Sequences

CONSTANT MaxExports    \* bound: exports asked for

VARIABLES thread,       \* "none", "waiting", "working", "dead", "ended"
          jobs,         \* slot of the channel to the thread
          results,      \* slot of the channel to the window
          sender,       \* the window still holds the sending end
          unavailable,  \* the worker is known not to work
          active,       \* <<>> or <<the export that is running>>
          window,       \* "open", "draining", "joining", "gone"
          asked,        \* exports asked for
          accepted,     \* ghost: exports that were accepted
          written,      \* ghost: exports whose file was written
          reported      \* ghost: <<export, outcome>> told to the user

vars == <<thread, jobs, results, sender, unavailable, active, window,
          asked, accepted, written, reported>>

Init ==
    /\ thread = "none" /\ jobs = <<>> /\ results = <<>> /\ sender = TRUE
    /\ unavailable = FALSE /\ active = <<>> /\ window = "open"
    /\ asked = 0 /\ accepted = {} /\ written = {} /\ reported = <<>>

Busy == active # <<>>

\* Faulty variant, for mutation: only an export that has not begun is in the way.
RefusesQueued == jobs # <<>>

(* The first lines of try_submit, and of export_focused_scrollback. *)
Refuses == Busy

(* try_submit, refused: one is running, or the worker is known not to work.*)
SubmitRefused ==
    /\ window = "open" /\ asked < MaxExports
    /\ Refuses \/ unavailable
    /\ asked' = asked + 1
    /\ UNCHANGED <<thread, jobs, results, sender, unavailable, active, window, accepted,
                   written, reported>>

(* ... without a thread: it cannot be started, which is not tried again, or *)
(* it is dead and the channel says so.                                     *)
SubmitUnavailable ==
    /\ window = "open" /\ asked < MaxExports
    /\ ~Refuses /\ ~unavailable
    /\ thread \in {"none", "dead"}
    /\ asked' = asked + 1
    /\ unavailable' = TRUE
    /\ UNCHANGED <<thread, jobs, results, sender, active, window, accepted, written, reported>>

(* ... accepted; the first export starts the thread. *)
Submit ==
    /\ window = "open" /\ asked < MaxExports
    /\ ~Refuses /\ ~unavailable
    /\ thread # "dead"
    /\ jobs = <<>>
    /\ asked' = asked + 1
    /\ thread' = IF thread = "none" THEN "waiting" ELSE thread
    /\ jobs' = <<asked'>>
    /\ active' = <<asked'>>
    /\ accepted' = accepted \cup {asked'}
    /\ UNCHANGED <<results, sender, unavailable, window, written, reported>>

(* The thread takes a job; run_job writes the file or fails; the result is *)
(* sent when its slot is free.                                             *)
TakeJob ==
    /\ thread = "waiting"
    /\ jobs # <<>>
    /\ thread' = "working"
    /\ UNCHANGED <<jobs, results, sender, unavailable, active, window, asked, accepted,
                   written, reported>>

FinishJob ==
    /\ thread = "working"
    /\ results = <<>>
    /\ thread' = "waiting"
    /\ jobs' = <<>>
    /\ \E ok \in BOOLEAN :
         /\ results' = <<<<Head(jobs), IF ok THEN "written" ELSE "failed">>>>
         /\ written' = IF ok THEN written \cup {Head(jobs)} ELSE written
    /\ UNCHANGED <<sender, unavailable, active, window, asked, accepted, reported>>

(* A panic in the middle of a job; the file may be there. *)
Dies ==
    /\ thread = "working"
    /\ thread' = "dead"
    /\ jobs' = <<>>
    /\ written' \in {written, written \cup {Head(jobs)}}
    /\ UNCHANGED <<results, sender, unavailable, active, window, asked, accepted, reported>>

(* The sending end is gone and nothing is left to do. *)
EndThread ==
    /\ thread = "waiting"
    /\ jobs = <<>>
    /\ ~sender
    /\ thread' = "ended"
    /\ UNCHANGED <<jobs, results, sender, unavailable, active, window, asked, accepted,
                   written, reported>>

-----------------------------------------------------------------------------
(* poll and drain: the result, or that the thread is gone (interrupted).  *)
Settled(outcome) ==
    /\ active' = <<>>
    /\ reported' = Append(reported, <<Head(active), outcome>>)

\* Faulty variant, for mutation: a dead thread is only noted.
TakeResultFromTheLiving ==
    \/ /\ results # <<>>
       /\ results' = <<>>
       /\ Settled(Head(results)[2])
       /\ unavailable' = unavailable
    \/ /\ results = <<>> /\ thread = "dead" /\ ~unavailable
       /\ unavailable' = TRUE
       /\ UNCHANGED <<results, active, reported>>

TakeResult ==
    \/ /\ results # <<>>
       /\ results' = <<>>
       /\ Settled(Head(results)[2])
       /\ unavailable' = unavailable
    \/ /\ results = <<>> /\ thread = "dead"
       /\ unavailable' = TRUE
       /\ results' = results
       /\ Settled("interrupted")

PollExports ==
    /\ window = "open" /\ Busy
    /\ TakeResult
    /\ UNCHANGED <<thread, jobs, sender, window, asked, accepted, written>>

(* on_exit *)
Exit ==
    /\ window = "open"
    /\ window' = "draining"
    /\ UNCHANGED <<thread, jobs, results, sender, unavailable, active, asked, accepted,
                   written, reported>>

Drain ==
    /\ window = "draining" /\ Busy
    /\ TakeResult
    /\ UNCHANGED <<thread, jobs, sender, window, asked, accepted, written>>

(* Drop: the sending end is closed ... *)
DropWorker ==
    /\ window = "draining" /\ ~Busy
    /\ sender' = FALSE
    /\ window' = "joining"
    /\ UNCHANGED <<thread, jobs, results, unavailable, active, asked, accepted, written, reported>>

(* ... and the thread joined. *)
Join ==
    /\ window = "joining"
    /\ thread \in {"none", "dead", "ended"}
    /\ window' = "gone"
    /\ UNCHANGED <<thread, jobs, results, sender, unavailable, active, asked, accepted,
                   written, reported>>

Next == \/ SubmitRefused \/ SubmitUnavailable \/ Submit
        \/ TakeJob \/ FinishJob \/ Dies \/ EndThread
        \/ PollExports \/ Exit \/ Drain \/ DropWorker \/ Join

Spec == Init /\ [][Next]_vars

(* The thread runs, frames are drawn while an export is running (each one  *)
(* asks for the next) and the exit goes on.                                *)
Fairness ==
    /\ WF_vars(TakeJob) /\ WF_vars(FinishJob) /\ WF_vars(EndThread)
    /\ WF_vars(PollExports) /\ WF_vars(Drain) /\ WF_vars(DropWorker) /\ WF_vars(Join)
FairSpec == Spec /\ Fairness

-----------------------------------------------------------------------------
(* Every accepted export is told to the user once, and told as written     *)
(* only if its file is there; a refused one leaves no file; when the       *)
(* process is gone nothing accepted is untold.                             *)
ExportsAreAccounted ==
    /\ \A i \in DOMAIN reported :
         /\ reported[i][1] \in accepted
         /\ \A j \in DOMAIN reported : reported[i][1] = reported[j][1] => i = j
         /\ reported[i][2] = "written" => reported[i][1] \in written
         /\ reported[i][2] = "failed" => reported[i][1] \notin written
    /\ written \subseteq accepted
    /\ \A e \in accepted : <<e>> = active \/ \E i \in DOMAIN reported : reported[i][1] = e
    /\ window = "gone" => ~Busy

IsDraining == window = "draining"
IsGone == window = "gone"

(* An export that was accepted is told to the user, whether the window     *)
(* stays open or is closed meanwhile, and closing comes to its end.        *)
ExportsEnd ==
    /\ Busy ~> ~Busy
    /\ IsDraining ~> IsGone
=============================================================================
