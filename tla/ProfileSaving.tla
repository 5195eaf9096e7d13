---------------------------- MODULE ProfileSaving ----------------------------
(***************************************************************************)
(* How the desktop app saves its profile: the layout file and the terminal *)
(* histories of local panels, written by several instances of the app that *)
(* share one profile directory (src/src/app.rs, app/persistence_worker.rs, *)
(* state/run_marker.rs, state/persistence.rs).                             *)
(*                                                                         *)
(* An instance has a UI thread (app[i]) and a persistence worker           *)
(* (worker[i]) joined by a bounded job queue and a completion queue.  The  *)
(* newest instance owns the profile: its token is in run.marker, and every *)
(* durable write holds run.lock from the check of the token to its end.    *)
(*                                                                         *)
(* Data: a panel stands for a project with one local terminal, a layout is *)
(* its set of panels and a revision, the history of a panel is how many    *)
(* pieces of output of each run it holds.  A durable write of one file is  *)
(* atomic (module DurableWrite).                                           *)
(***************************************************************************)
EXTENDS Naturals, Sequences, FiniteSets

CONSTANTS
    Insts,      \* runs of the app
    Panels,
    Old,        \* the runs before these
    None,
    MaxRev,     \* bound: edits of the layout
    MaxOut,     \* bound: pieces of output per run and panel
    Overlap     \* may an instance publish while another one is between
                \* reading the layout and taking the profile over?

\* Old is no instance of the app, and None neither an instance nor a panel.

VARIABLES
    marker,     \* run.marker: the token of the owner
    lock,       \* run.lock: the instance that holds it, by thread
    layout,     \* layout.json
    disk,       \* the histories in the scrollback directory
    app, worker,
    closed      \* history: panels a person has closed

vars == <<marker, lock, layout, disk, app, worker, closed>>

Runs == Insts \cup {Old}
Content == [Runs -> 0..(MaxOut + 1)]
Empty == [r \in Runs |-> 0]
Layout == [panels: SUBSET Panels, rev: 0..MaxRev]

\* A job of the worker and its completion.
Job == [kind: {"restore"}, panels: SUBSET Panels] \cup
       [kind: {"state"}, snapshot: Layout] \cup
       [kind: {"incremental"}, frames: [Panels -> 0..MaxOut], live: SUBSET Panels,
        known: SUBSET Panels] \cup
       [kind: {"full"}, checkpoint: [Panels -> Content \cup {None}],
        frames: [Panels -> 0..MaxOut]]
Completion == [kind: {"restore"}, histories: [Panels -> Content \cup {None}],
               failed: SUBSET Panels] \cup
              [kind: {"state"}, snapshot: Layout, ok: BOOLEAN] \cup
              [kind: {"incremental"}, acks: [Panels -> 0..MaxOut],
               rollover: SUBSET Panels] \cup
              [kind: {"full"}, acks: [Panels -> 0..MaxOut], missed: BOOLEAN]

UiStep == {"off", "loaded", "frame", "close_drain", "close_save", "close_write",
           "full_drain", "full_wait", "full_prune",
           "exit_drain", "exit_save", "exit_write", "exit_check", "exit_end", "dead"}

App == [pc: UiStep, panels: SUBSET Panels, rev: 0..MaxRev,
        persisted: Layout \cup {None}, enabled: BOOLEAN, known: SUBSET Panels,
        grid: [Panels -> Content], acked: [Panels -> 0..MaxOut],
        pending: SUBSET Panels, ready: [Panels -> Content \cup {None}],
        failed: BOOLEAN, pass: 0..2, layout_saved: BOOLEAN, history_saved: BOOLEAN,
        clean: BOOLEAN, rollover: BOOLEAN]
Worker == [jobs: Seq(Job), guard: {"idle", "held", "refused"}, blocked: BOOLEAN,
           done: Seq(Completion)]

TypeOK ==
    /\ marker \in Insts \cup {None}
    /\ lock \in Insts \X {"ui", "worker"} \cup {None}
    /\ layout \in Layout \cup {None}
    /\ disk \in [Panels -> Content]
    /\ app \in [Insts -> App]
    /\ worker \in [Insts -> Worker]
    /\ \A i \in Insts : Len(worker[i].jobs) <= 3
    /\ closed \subseteq Panels

NewApp == [pc |-> "off", panels |-> {}, rev |-> 0, persisted |-> None, enabled |-> FALSE,
           known |-> {}, grid |-> [p \in Panels |-> Empty],
           acked |-> [p \in Panels |-> 0], pending |-> {},
           ready |-> [p \in Panels |-> None], failed |-> FALSE, pass |-> 0,
           layout_saved |-> FALSE, history_saved |-> FALSE, clean |-> TRUE,
           rollover |-> FALSE]
NewWorker == [jobs |-> <<>>, guard |-> "idle", blocked |-> FALSE, done |-> <<>>]

\* A fresh profile, or one with a panel and its history from earlier runs.
Init ==
    /\ marker = None /\ lock = None /\ closed = {}
    /\ \E saved \in {ps \in SUBSET Panels : Cardinality(ps) <= 1} :
          /\ layout = IF saved = {} THEN None ELSE [panels |-> saved, rev |-> 0]
          /\ disk = [p \in Panels |-> IF p \in saved THEN [Empty EXCEPT ![Old] = 1] ELSE Empty]
    /\ app = [i \in Insts |-> NewApp]
    /\ worker = [i \in Insts |-> NewWorker]

-----------------------------------------------------------------------------
(* The lease.                                                              *)

\* Nobody is between reading the layout and taking the profile over.
NobodyStarting == Overlap \/ \A j \in Insts : app[j].pc # "loaded"

\* Faulty variant: the token is not looked at once the lock is there.
GuardGrantedAnyone(i) == lock = None

\* acquire_write_guard by a thread of i: the lock, then the token.
GuardGranted(i) == lock = None /\ marker = i

\* The lock is taken for longer than its timeout, or the token is another's.
GuardRefused(i) == lock # None \/ marker # i

\* current_process_may_write, and ensure_persistence_ownership on it: an
\* instance that finds itself dispossessed never writes again.
MayWrite(i) == app[i].enabled /\ marker = i

Disowned(i, a) == [a EXCEPT !.enabled = MayWrite(i)]

-----------------------------------------------------------------------------
(* Starting.                                                               *)

Snapshot(i) == [panels |-> app[i].panels, rev |-> app[i].rev]

\* TerminalApp::new reads the layout; one that cannot be read is not replaced.
Load(i, readable) ==
    /\ app[i].pc = "off"
    /\ app' = [app EXCEPT ![i] =
         IF readable /\ layout # None
         THEN [NewApp EXCEPT !.pc = "loaded", !.enabled = TRUE, !.panels = layout.panels,
                             !.rev = layout.rev, !.persisted = layout, !.known = layout.panels,
                             !.pending = layout.panels]
         ELSE [NewApp EXCEPT !.pc = "loaded", !.enabled = readable]]
    /\ UNCHANGED <<marker, lock, layout, disk, worker, closed>>

\* Faulty variant: the marker is replaced without the lock.
ClaimUnlocked(i, claimed) ==
    /\ app[i].pc = "loaded"
    /\ marker' = IF claimed THEN i ELSE marker
    /\ app' = [app EXCEPT ![i].pc = "frame"]
    /\ worker' = [worker EXCEPT ![i].jobs =
                    IF app[i].persisted = None THEN <<>>
                    ELSE <<[kind |-> "restore", panels |-> app[i].panels]>>]
    /\ UNCHANGED <<lock, layout, disk, closed>>

\* begin_run takes the lease over, or fails after the lock's timeout; the
\* capture of the old histories is the first job of the queue.
Claim(i, claimed) ==
    /\ app[i].pc = "loaded"
    /\ claimed => lock = None
    /\ marker' = IF claimed THEN i ELSE marker
    /\ app' = [app EXCEPT ![i].pc = "frame"]
    /\ worker' = [worker EXCEPT ![i].jobs =
                    IF app[i].persisted = None THEN <<>>
                    ELSE <<[kind |-> "restore", panels |-> app[i].panels]>>]
    /\ UNCHANGED <<lock, layout, disk, closed>>

-----------------------------------------------------------------------------
(* The person and the terminals.                                           *)

\* Panel ids are random: a new panel has none that any file or screen holds.
InUse == (IF layout = None THEN {} ELSE layout.panels) \cup closed
         \cup {p \in Panels : disk[p] # Empty} \cup UNION {app[j].panels : j \in Insts}

NewPanel(i, p) ==
    /\ app[i].pc = "frame" /\ app[i].rev < MaxRev /\ p \notin InUse
    /\ app' = [app EXCEPT ![i].panels = @ \cup {p}, ![i].rev = @ + 1]
    /\ UNCHANGED <<marker, lock, layout, disk, worker, closed>>

\* handle_command remembers the layout, then closes the panel.
ClosePanel(i, p) ==
    /\ app[i].pc = "frame" /\ app[i].rev < MaxRev /\ p \in app[i].panels
    /\ app' = [app EXCEPT ![i].known = @ \cup app[i].panels, ![i].panels = @ \ {p},
                          ![i].rev = @ + 1, ![i].pending = @ \ {p},
                          ![i].ready = [@ EXCEPT ![p] = None]]
    /\ closed' = closed \cup {p}
    /\ UNCHANGED <<marker, lock, layout, disk, worker>>

\* The terminals produce output until they are closed at exit.
Output(i, p) ==
    /\ app[i].pc \notin {"off", "loaded", "dead"} /\ app[i].pass < 2
    /\ p \in app[i].panels
    /\ app[i].grid[p][i] < MaxOut
    /\ app' = [app EXCEPT ![i].grid[p][i] = @ + 1]
    /\ UNCHANGED <<marker, lock, layout, disk, worker, closed>>

\* restore_pending_scrollbacks: a captured history enters its terminal.
ApplyRestore(i, p) ==
    /\ app[i].pc = "frame" /\ app[i].ready[p] # None
    /\ app' = [app EXCEPT ![i].ready[p] = None,
                          ![i].grid[p] = [app[i].ready[p] EXCEPT ![i] = app[i].grid[p][i]]]
    /\ UNCHANGED <<marker, lock, layout, disk, worker, closed>>

-----------------------------------------------------------------------------
(* The worker's jobs.                                                      *)

\* A job of one of these kinds is accepted and its completion not yet read.
InFlight(i, kinds) ==
    \/ \E k \in DOMAIN worker[i].jobs : worker[i].jobs[k].kind \in kinds
    \/ \E k \in DOMAIN worker[i].done : worker[i].done[k].kind \in kinds

Submit(i, job) == [worker[i] EXCEPT !.jobs = Append(@, job)]

\* pending_leaf_logs: the output of app a, of run i, not yet acknowledged.
PendingFrames(i, a) ==
    [p \in Panels |-> IF p \in a.panels /\ a.grid[p][i] > a.acked[p] THEN a.grid[p][i] ELSE 0]

Restoring(a) == {p \in a.panels : p \in a.pending \/ a.ready[p] # None}

\* full_scrollback_entries for the panels in only: a terminal being restored has
\* its new output rescued in the log, any other one is exported.
FullJob(i, a, only) ==
    [kind |-> "full",
     checkpoint |-> [p \in Panels |-> IF p \in (a.panels \cap only) \ Restoring(a)
                                      THEN a.grid[p] ELSE None],
     frames |-> [p \in Panels |-> IF p \in Restoring(a) \cap only THEN PendingFrames(i, a)[p] ELSE 0]]

\* The worker takes a job: under the guard, or refused it.
WorkerTakes(i) ==
    /\ app[i].pc \notin {"off", "loaded", "dead"}
    /\ worker[i].jobs # <<>> /\ worker[i].guard = "idle"
    /\ \/ /\ GuardGranted(i)
          /\ lock' = <<i, "worker">>
          /\ worker' = [worker EXCEPT ![i].guard = "held"]
       \/ /\ GuardRefused(i)
          /\ worker' = [worker EXCEPT ![i].guard = "refused"]
          /\ UNCHANGED lock
    /\ UNCHANGED <<marker, layout, disk, app, closed>>

\* The end of a job: its completion is sent and the guard dropped.
Completes(i, completion) ==
    /\ worker' = [worker EXCEPT ![i] =
                    [@ EXCEPT !.jobs = Tail(@), !.guard = "idle",
                              !.done = Append(@, completion),
                              !.blocked = @ \/ (completion.kind = "restore"
                                                /\ completion.failed # {})]]
    /\ lock' = IF worker[i].guard = "held" THEN None ELSE lock
    /\ UNCHANGED <<marker, app, closed>>

\* Job::Restore, with or without the guard; a panel whose history cannot be
\* read blocks the directory.
RunRestore(i, failed) ==
    LET job == Head(worker[i].jobs)
    IN  /\ worker[i].guard # "idle" /\ job.kind = "restore"
        /\ failed \subseteq job.panels
        /\ Completes(i, [kind |-> "restore", failed |-> failed,
                         histories |-> [p \in Panels |->
                            IF p \in job.panels \ failed /\ disk[p] # Empty
                            THEN disk[p] ELSE None]])
        /\ UNCHANGED <<layout, disk>>

\* Job::State.
RunState(i, ok) ==
    LET job == Head(worker[i].jobs)
        written == ok /\ worker[i].guard = "held"
    IN  /\ worker[i].guard # "idle" /\ job.kind = "state"
        /\ NobodyStarting
        /\ layout' = IF written THEN job.snapshot ELSE layout
        /\ Completes(i, [kind |-> "state", snapshot |-> job.snapshot, ok |-> written])
        /\ UNCHANGED disk

\* Frames of run i appended to the files of the panels in ok.
Appended(i, frames, ok) ==
    [p \in Panels |-> IF frames[p] > 0 /\ p \in ok THEN [disk[p] EXCEPT ![i] = frames[p]]
                      ELSE disk[p]]

Pruned(files, live, known) ==
    [p \in Panels |-> IF p \in known \ live THEN Empty ELSE files[p]]

\* Faulty variant: failed writes are acknowledged too.
AcksAll(written, ok) == written

\* What is acknowledged of the written counts, when those in ok succeeded.
Acks(written, ok) == [p \in Panels |-> IF p \in ok THEN written[p] ELSE 0]

\* Faulty variant: the directory is not blocked.
SucceedsBlind(i, ok) == IF worker[i].guard = "held" THEN ok ELSE {}

\* The panels whose files a job may write: none without the guard, none in a
\* blocked directory, and any write may fail.
Succeeds(i, ok) == IF worker[i].guard = "held" /\ ~worker[i].blocked THEN ok ELSE {}

\* Job::Incremental: appends, then the pruning of the scope it carries; the logs
\* of the panels in full have reached their limit.
RunIncremental(i, ok, full) ==
    LET job == Head(worker[i].jobs)
        done == Succeeds(i, ok)
        runs == Succeeds(i, Panels) # {}
    IN  /\ worker[i].guard # "idle" /\ job.kind = "incremental"
        /\ full \subseteq {p \in Panels : runs /\ job.frames[p] > 0}
        /\ NobodyStarting
        /\ disk' = IF runs THEN Pruned(Appended(i, job.frames, done), job.live, job.known)
                   ELSE disk
        /\ Completes(i, [kind |-> "incremental", rollover |-> full,
                         acks |-> Acks(job.frames, done)])
        /\ UNCHANGED layout

\* Job::Full: checkpoints replace the files, rescued frames are appended.
RunFull(i, ok) ==
    LET job == Head(worker[i].jobs)
        done == Succeeds(i, ok)
        exported == {p \in Panels : job.checkpoint[p] # None}
        entries == exported \cup {p \in Panels : job.frames[p] > 0}
    IN  /\ worker[i].guard # "idle" /\ job.kind = "full"
        /\ NobodyStarting
        /\ disk' = [p \in Panels |-> IF p \in exported \cap done THEN job.checkpoint[p]
                                     ELSE Appended(i, job.frames, done)[p]]
        /\ Completes(i, [kind |-> "full", missed |-> ~(entries \subseteq done),
                         acks |-> Acks([p \in Panels |-> IF p \in exported
                                                         THEN job.checkpoint[p][i]
                                                         ELSE job.frames[p]], done)])
        /\ UNCHANGED layout

-----------------------------------------------------------------------------
(* What the UI thread makes of the completions.                            *)

\* acknowledge_persisted_logs, for the panels that still exist.
Acknowledge(i, a, acks) ==
    [a EXCEPT !.acked = [p \in Panels |-> IF p \in a.panels /\ acks[p] > @[p]
                                          THEN acks[p] ELSE @[p]]]

\* Faulty variant: a layout counts as saved although its write failed.
ApplyBlind(i, a, c) ==
    CASE c.kind = "restore" ->
            [a EXCEPT !.pending = {},
                      !.failed = @ \/ c.failed # {},
                      !.ready = [p \in Panels |-> IF p \in a.panels THEN c.histories[p] ELSE None]]
      [] c.kind = "state" -> [a EXCEPT !.persisted = c.snapshot]
      [] OTHER -> Acknowledge(i, a, c.acks)

\* apply_persistence_completions, one completion.
Apply(i, a, c) ==
    CASE c.kind = "restore" ->
            [a EXCEPT !.pending = {},
                      !.failed = @ \/ c.failed # {},
                      !.ready = [p \in Panels |-> IF p \in a.panels THEN c.histories[p] ELSE None]]
      [] c.kind = "state" -> IF c.ok THEN [a EXCEPT !.persisted = c.snapshot] ELSE a
      [] OTHER -> Acknowledge(i, a, c.acks)

\* At most one completion of each of the three classes is waiting.
ApplyAll(i, a) ==
    LET d == worker[i].done
        a1 == IF Len(d) >= 1 THEN Apply(i, a, d[1]) ELSE a
        a2 == IF Len(d) >= 2 THEN Apply(i, a1, d[2]) ELSE a1
    IN  IF Len(d) >= 3 THEN Apply(i, a2, d[3]) ELSE a2

\* The panels whose logs ask for a checkpoint.
Rollover(i) ==
    UNION {worker[i].done[k].rollover :
             k \in {n \in DOMAIN worker[i].done : worker[i].done[n].kind = "incremental"}}

\* poll_persistence_worker.
Poll(i) ==
    LET a == ApplyAll(i, app[i])
        wanted == Rollover(i) \cap a.panels
    IN  /\ app[i].pc = "frame" /\ worker[i].done # <<>>
        /\ app' = [app EXCEPT ![i] = a]
        /\ worker' = [worker EXCEPT ![i].done = <<>>,
                         ![i].jobs = IF wanted = {} THEN @
                                     ELSE Append(@, FullJob(i, a, wanted))]
        /\ UNCHANGED <<marker, lock, layout, disk, closed>>

-----------------------------------------------------------------------------
(* Autosave.                                                               *)

\* The scheduled layout save of maybe_persist_state.
AutosaveState(i) ==
    /\ app[i].pc = "frame" /\ app[i].enabled
    /\ app[i].persisted # Snapshot(i)
    /\ IF MayWrite(i)
       THEN /\ ~InFlight(i, {"state"})
            /\ worker' = [worker EXCEPT ![i] =
                            Submit(i, [kind |-> "state", snapshot |-> Snapshot(i)])]
            /\ UNCHANGED app
       ELSE /\ app' = [app EXCEPT ![i] = Disowned(i, @)]
            /\ UNCHANGED worker
    /\ UNCHANGED <<marker, lock, layout, disk, closed>>

\* Faulty variant: closed panels are pruned before the layout forgets them.
MayPruneEarly(i, a) == TRUE

\* The layout on disk is the one on the screen.
MayPrune(i, a) ==
    ~InFlight(i, {"state"}) /\ a.persisted = [panels |-> a.panels, rev |-> a.rev]

\* persist_scrollbacks(false) of app a: what it submits and what it forgets.
IncrementalJob(i, a) ==
    [kind |-> "incremental", frames |-> PendingFrames(i, a), live |-> a.panels,
     known |-> IF MayPrune(i, a) THEN a.known \cup a.panels ELSE {}]

Remembering(i, a) ==
    [a EXCEPT !.known = IF MayPrune(i, a) THEN a.panels ELSE @ \cup a.panels]

AutosaveScrollback(i) ==
    /\ app[i].pc = "frame" /\ app[i].enabled
    /\ IF MayWrite(i)
       THEN /\ ~app[i].failed /\ ~InFlight(i, {"incremental", "full"})
            /\ worker' = [worker EXCEPT ![i] = Submit(i, IncrementalJob(i, app[i]))]
            /\ app' = [app EXCEPT ![i] = Remembering(i, @)]
       ELSE /\ app' = [app EXCEPT ![i] = Disowned(i, @)]
            /\ UNCHANGED worker
    /\ UNCHANGED <<marker, lock, layout, disk, closed>>

-----------------------------------------------------------------------------
(* Closing a workspace: the older accepted saves finish first.             *)

CloseWorkspace(i, p) ==
    /\ app[i].pc = "frame" /\ app[i].rev < MaxRev /\ p \in app[i].panels
    /\ app' = [app EXCEPT ![i] =
                 [@ EXCEPT !.pc = IF MayWrite(i) THEN "close_drain" ELSE "frame",
                           !.enabled = MayWrite(i),
                           !.known = @ \cup app[i].panels, !.panels = @ \ {p}, !.rev = @ + 1,
                           !.pending = @ \ {p}, !.ready = [@ EXCEPT ![p] = None]]]
    /\ closed' = closed \cup {p}
    /\ UNCHANGED <<marker, lock, layout, disk, worker>>

\* drain_persistence_worker: nothing accepted is still to be done, and every
\* completion is applied.
Drained(i) ==
    /\ worker[i].jobs = <<>>
    /\ worker' = [worker EXCEPT ![i].done = <<>>]

\* Faulty variant: the workspace's removal is saved beside an older save.
CloseDrainSkipped(i) ==
    /\ app[i].pc = "close_drain"
    /\ app' = [app EXCEPT ![i].pc = "close_save"]
    /\ UNCHANGED <<marker, lock, layout, disk, worker, closed>>

CloseDrain(i) ==
    /\ app[i].pc = "close_drain"
    /\ Drained(i)
    /\ app' = [app EXCEPT ![i] =
                 [Disowned(i, ApplyAll(i, @)) EXCEPT
                    !.pc = IF MayWrite(i) THEN "close_save" ELSE "frame",
                    !.rollover = MayWrite(i) /\ Rollover(i) # {}]]
    /\ UNCHANGED <<marker, lock, layout, disk, closed>>

\* try_save_state on the UI thread asks for the guard.
Acquire(i, from, granted, refused) ==
    /\ app[i].pc = from
    /\ \/ /\ GuardGranted(i)
          /\ lock' = <<i, "ui">>
          /\ app' = [app EXCEPT ![i] = granted]
       \/ /\ GuardRefused(i)
          /\ app' = [app EXCEPT ![i] = refused]
          /\ UNCHANGED lock
    /\ UNCHANGED <<marker, layout, disk, worker, closed>>

CloseSave(i) == Acquire(i, "close_save", [app[i] EXCEPT !.pc = "close_write"],
                        [app[i] EXCEPT !.pc = "frame", !.rollover = FALSE])

\* The removal is durable: only now is the closed history pruned.
CloseWrite(i, ok) ==
    LET a == [app[i] EXCEPT !.persisted = Snapshot(i)]
    IN  /\ app[i].pc = "close_write" /\ NobodyStarting
        /\ lock' = None
        /\ layout' = IF ok THEN Snapshot(i) ELSE layout
        /\ IF ok /\ app[i].rollover
           THEN /\ app' = [app EXCEPT ![i] = [a EXCEPT !.pc = "full_drain", !.layout_saved = TRUE]]
                /\ UNCHANGED worker
           ELSE IF ok /\ ~a.failed /\ ~InFlight(i, {"incremental", "full"})
           THEN /\ app' = [app EXCEPT ![i] = [Remembering(i, a) EXCEPT !.pc = "frame"]]
                /\ worker' = [worker EXCEPT ![i] = Submit(i, IncrementalJob(i, a))]
           ELSE /\ app' = [app EXCEPT ![i] = [(IF ok THEN a ELSE @) EXCEPT !.pc = "frame",
                                                                         !.rollover = FALSE]]
                /\ UNCHANGED worker
        /\ UNCHANGED <<marker, disk, closed>>

-----------------------------------------------------------------------------
(* persist_scrollbacks_with_pruning(true, ...): a full save, from a        *)
(* workspace close (pass 0) or from one of the two passes at exit.         *)

FullDone(a, saved) ==
    IF a.pass = 0 THEN [a EXCEPT !.pc = "frame", !.layout_saved = FALSE, !.rollover = FALSE]
    ELSE [a EXCEPT !.pc = "exit_check", !.history_saved = saved]

FullDrain(i) ==
    LET a == ApplyAll(i, [app[i] EXCEPT !.known = @ \cup app[i].panels])
    IN  /\ app[i].pc = "full_drain"
        /\ worker[i].jobs = <<>>
        /\ IF MayWrite(i) /\ ~a.failed /\ GuardGranted(i)
           THEN /\ app' = [app EXCEPT ![i] = [a EXCEPT !.pc = "full_wait"]]
                /\ worker' = [worker EXCEPT ![i].done = <<>>, ![i].jobs = <<FullJob(i, a, Panels)>>]
           ELSE /\ app' = [app EXCEPT ![i] = FullDone(Disowned(i, a), FALSE)]
                /\ worker' = [worker EXCEPT ![i].done = <<>>]
        /\ UNCHANGED <<marker, lock, layout, disk, closed>>

\* Every entry acknowledged, and every entry a checkpoint.
FullComplete(i) == ~worker[i].done[1].missed /\ Restoring(app[i]) = {}

FullWait(i) ==
    LET a == ApplyAll(i, app[i])
    IN  /\ app[i].pc = "full_wait"
        /\ Drained(i)
        /\ app' = [app EXCEPT ![i] = IF FullComplete(i) THEN [a EXCEPT !.pc = "full_prune"]
                                     ELSE FullDone(a, FALSE)]
        /\ UNCHANGED <<marker, lock, layout, disk, closed>>

FullPrune(i) ==
    /\ app[i].pc = "full_prune" /\ NobodyStarting
    /\ \/ /\ GuardGranted(i)
          /\ disk' = IF app[i].layout_saved THEN Pruned(disk, app[i].panels, app[i].known)
                     ELSE disk
          /\ app' = [app EXCEPT ![i] = FullDone(@, TRUE)]
       \/ /\ GuardRefused(i)
          /\ app' = [app EXCEPT ![i] = FullDone(@, FALSE)]
          /\ UNCHANGED disk
    /\ UNCHANGED <<marker, lock, layout, worker, closed>>

-----------------------------------------------------------------------------
(* on_exit: a save, the end of the local terminals, a save of what they    *)
(* had left, and only then the removal of the marker.                      *)

Ended == [NewApp EXCEPT !.pc = "dead"]

Exit(i) ==
    /\ app[i].pc = "frame"
    /\ app' = [app EXCEPT ![i] = IF MayWrite(i)
                                 THEN [@ EXCEPT !.pc = "exit_drain", !.pass = 1] ELSE Ended]
    /\ worker' = IF MayWrite(i) THEN worker ELSE [worker EXCEPT ![i] = NewWorker]
    /\ lock' = IF lock = <<i, "worker">> /\ ~MayWrite(i) THEN None ELSE lock
    /\ UNCHANGED <<marker, layout, disk, closed>>

\* Faulty variant: one pass is taken for a clean end.
NextPassShort(a, saved) ==
    IF saved THEN [a EXCEPT !.pc = "exit_end"] ELSE Ended

\* Faulty variant: the first save is tried until it succeeds.
NextPassRetry(a, saved) ==
    CASE a.pass = 1 /\ a.enabled -> [a EXCEPT !.pc = "exit_drain", !.pass = IF saved THEN 2 ELSE 1]
      [] a.pass = 2 /\ a.clean /\ saved -> [a EXCEPT !.pc = "exit_end"]
      [] OTHER -> Ended

\* After a pass at exit: the second one, the end of the marker, or neither.
NextPass(a, saved) ==
    CASE a.pass = 1 /\ a.enabled -> [a EXCEPT !.pc = "exit_drain", !.pass = 2, !.clean = saved]
      [] a.pass = 2 /\ a.clean /\ saved -> [a EXCEPT !.pc = "exit_end"]
      [] OTHER -> Ended

ExitDrain(i) ==
    LET a == Disowned(i, ApplyAll(i, app[i]))
    IN  /\ app[i].pc = "exit_drain"
        /\ Drained(i)
        /\ app' = [app EXCEPT ![i] = IF MayWrite(i) THEN [a EXCEPT !.pc = "exit_save"]
                                     ELSE NextPass(a, FALSE)]
        /\ UNCHANGED <<marker, lock, layout, disk, closed>>

ExitSave(i) == Acquire(i, "exit_save", [app[i] EXCEPT !.pc = "exit_write"],
                       [app[i] EXCEPT !.pc = "full_drain", !.layout_saved = FALSE])

ExitWrite(i, ok) ==
    /\ app[i].pc = "exit_write" /\ NobodyStarting
    /\ lock' = None
    /\ layout' = IF ok THEN Snapshot(i) ELSE layout
    /\ app' = [app EXCEPT ![i] = [@ EXCEPT !.pc = "full_drain", !.layout_saved = ok,
                                           !.persisted = IF ok THEN Snapshot(i) ELSE @]]
    /\ UNCHANGED <<marker, disk, worker, closed>>

ExitCheck(i) ==
    LET a == Disowned(i, app[i])
    IN  /\ app[i].pc = "exit_check"
        /\ app' = [app EXCEPT ![i] =
                     NextPass(a, a.layout_saved /\ a.history_saved /\ MayWrite(i))]
        /\ UNCHANGED <<marker, lock, layout, disk, worker, closed>>

\* end_run_clean.
EndRunClean(i) ==
    /\ app[i].pc = "exit_end"
    /\ marker' = IF GuardGranted(i) THEN None ELSE marker
    /\ app' = [app EXCEPT ![i] = Ended]
    /\ worker' = [worker EXCEPT ![i] = NewWorker]
    /\ UNCHANGED <<lock, layout, disk, closed>>

\* The process dies; the system releases its lock.
Crash(i) ==
    /\ app[i].pc \notin {"off", "dead"}
    /\ app' = [app EXCEPT ![i] = Ended]
    /\ worker' = [worker EXCEPT ![i] = NewWorker]
    /\ lock' = IF lock \in {<<i, "ui">>, <<i, "worker">>} THEN None ELSE lock
    /\ UNCHANGED <<marker, layout, disk, closed>>

-----------------------------------------------------------------------------
UiNext(i) ==
    \/ \E ok \in BOOLEAN : Load(i, ok) \/ Claim(i, ok) \/ CloseWrite(i, ok) \/ ExitWrite(i, ok)
    \/ \E p \in Panels :
          NewPanel(i, p) \/ ClosePanel(i, p) \/ CloseWorkspace(i, p) \/ ApplyRestore(i, p)
    \/ Poll(i) \/ CloseDrain(i) \/ AutosaveState(i) \/ AutosaveScrollback(i) \/ CloseSave(i)
    \/ FullDrain(i) \/ FullWait(i) \/ FullPrune(i)
    \/ Exit(i) \/ ExitDrain(i) \/ ExitSave(i) \/ ExitCheck(i) \/ EndRunClean(i)

WorkerNext(i) ==
    \/ WorkerTakes(i)
    \/ \E failed \in SUBSET Panels : RunRestore(i, failed)
    \/ \E ok \in BOOLEAN : RunState(i, ok)
    \/ \E ok \in SUBSET Panels :
          RunFull(i, ok) \/ \E full \in SUBSET Panels : RunIncremental(i, ok, full)

Next ==
    \E i \in Insts :
        \/ UiNext(i) \/ WorkerNext(i) \/ Crash(i)
        \/ \E p \in Panels : Output(i, p)

Spec == Init /\ [][Next]_vars

\* What closes a workspace or the window: the UI thread has one thing to do at a
\* time, so that one condition of fairness speaks of all of it.
Closing(i) ==
    \/ CloseDrain(i) \/ CloseSave(i) \/ (\E ok \in BOOLEAN : CloseWrite(i, ok))
    \/ FullDrain(i) \/ FullWait(i) \/ FullPrune(i)
    \/ ExitDrain(i) \/ ExitSave(i) \/ (\E ok \in BOOLEAN : ExitWrite(i, ok))
    \/ ExitCheck(i) \/ EndRunClean(i)

\* Both threads keep running, and a durable write that is tried again and again
\* succeeds in the end.  Nobody has to open, edit or close anything.
Fairness ==
    \A i \in Insts :
        /\ WF_vars(Poll(i)) /\ WF_vars(AutosaveState(i)) /\ WF_vars(AutosaveScrollback(i))
        /\ WF_vars(Closing(i)) /\ WF_vars(WorkerNext(i))
        /\ SF_vars(RunState(i, TRUE)) /\ SF_vars(RunIncremental(i, Panels, {}))

FairSpec == Spec /\ Fairness

-----------------------------------------------------------------------------
(* Properties.                                                             *)

\* A layout that was saved is replaced only by a newer one: an accepted save
\* that finishes late, or an instance that was overtaken, never undoes it.
NewerLayoutWins == layout # None => layout'.rev >= layout.rev

\* A project disappears from the saved layout only when a person closed it,
\* however many instances of the app share the profile.
ProjectsStay == layout # None => \A p \in layout.panels \ layout'.panels : p \in closed
ProjectsNeverVanish == [][ProjectsStay]_vars

\* Durable output is lost only together with its panel, and a panel's history
\* is removed only once the saved layout no longer lists the panel.
DurableHistoryStays ==
    \A p \in Panels :
        \/ \A r \in Runs : disk'[p][r] >= disk[p][r]
        \/ layout # None /\ p \notin layout.panels /\ p \in closed

\* Durable files change only in the hands of the instance named by the
\* marker, from the check of its token to the end of the write.
OwnerWrites ==
    <<layout, disk>>' # <<layout, disk>> =>
        \E i \in Insts : marker = i /\ (lock # None => lock[1] = i)

\* A history that could not be read is not replaced or pruned by the run
\* that failed to read it.
UnreadHistoryStays == \A i \in Insts : marker = i /\ worker[i].blocked => disk' = disk

HistoryStays == DurableHistoryStays /\ UnreadHistoryStays

\* What is edited is saved, while its instance lives and owns the profile.
EditWaits(i) == app[i].pc = "frame" /\ app[i].persisted # Snapshot(i)
EditIsSaved(i) == layout = Snapshot(i) \/ ~app[i].enabled

\* So is the output of its terminals, also one that is still being restored;
\* only a history that could not be read stops it.
OutputWaits(i, p) ==
    app[i].pc = "frame" /\ p \in app[i].panels /\ app[i].grid[p][i] > app[i].acked[p]
OutputIsDurable(i, p) ==
    \/ disk[p][i] = app[i].grid[p][i] \/ p \notin app[i].panels
    \/ app[i].failed \/ worker[i].blocked \/ ~app[i].enabled

\* A thread that waits for the worker, or for the lock, gets out: closing a
\* workspace returns to the window and closing the window ends the process.
ClosesWorkspace(i) == app[i].pc \in {"close_drain", "close_save"}
IsBackOrDead(i) == app[i].pc \in {"frame", "dead"}
ClosesWindow(i) == app[i].pass > 0
IsDead(i) == app[i].pc = "dead"

\* The marker disappears only after everything the run had on the screen is
\* in the saved layout and the saved histories.
EndsSaved ==
    \A i \in Insts : marker = i /\ marker' = None =>
        /\ layout = Snapshot(i)
        /\ \A p \in app[i].panels : disk[p] = app[i].grid[p]
=============================================================================
