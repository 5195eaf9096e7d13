---------------------------- MODULE LocalHistory ----------------------------
(***************************************************************************)
(* The history of one local terminal (src/src/terminal/pty.rs, the leaf    *)
(* operations of src/src/terminal/panel.rs and LocalRetirement of          *)
(* src/src/hook_runtime.rs).                                               *)
(*                                                                         *)
(* A reader thread retains what the child prints: raw in the pending log,  *)
(* parsed in the grid.  A replay thread puts the history of earlier runs   *)
(* back into the grid, before the live output.  The app saves either a     *)
(* checkpoint of the grid or the pending log; a worker writes it, and an   *)
(* acknowledgement removes the written prefix from the pending log.  A     *)
(* retirement moves the log to a journal of its own.                       *)
(*                                                                         *)
(* A piece of output is <<run, n>>: the n-th read of a run of the child.   *)
(* The files of a history are one sequence: the checkpoint followed by the *)
(* frames of the log that belong to it (DaemonPersistence has the files).  *)
(***************************************************************************)
EXTENDS Naturals, SequencesExt, ReaderRetirement

CONSTANTS
    MaxRuns,     \* runs of the terminal: restarts of the app and replacements
    MaxReads,    \* reads of one run
    MaxFaults    \* parser panics, refused threads and failed writes

VARIABLES
    run,         \* the run of the terminal
    reads,       \* reads of this run so far
    cell,        \* the state cell of its reader
    reader,      \* where the reader is inside a read
    term,        \* [grid, poisoned]
    pending,     \* pending_log: output no file confirmed yet
    replay,      \* the replay thread: [pc, old, live], restoring_history while busy
    failed,      \* history_restore_failed
    restored,    \* the leaf is in restored_history_leaves
    history,     \* what the app knows of the history to restore
    disk,        \* the history on disk
    save,        \* the save in flight: [state, kind, run, output, bytes]
    retiring,    \* the steps of a retirement
    journal,     \* [held, written]: the durable buffer and the file of the retirement
    base,        \* ghost: what was on disk when the app started
    faults       \* faults so far

vars == <<run, reads, cell, reader, term, pending, replay, failed, restored,
          history, disk, save, retiring, journal, base, faults>>

NoSave == [state |-> "none", kind |-> "log", run |-> 0, output |-> <<>>, bytes |-> 0]

NoReplay == [pc |-> "none", old |-> <<>>, live |-> <<>>]

Restoring == replay.pc # "none"

Fault == faults < MaxFaults /\ faults' = faults + 1

\* spawn_with_history_unfenced, for a terminal of the app: it starts empty.
Fresh(n) ==
    /\ run' = n /\ reads' = 0 /\ cell' = "IDLE" /\ reader' = "idle"
    /\ term' = [grid |-> <<>>, poisoned |-> FALSE] /\ pending' = <<>>
    /\ replay' = NoReplay /\ failed' = FALSE /\ restored' = FALSE
    /\ retiring' = "no" /\ journal' = [held |-> <<>>, written |-> {}]

Init ==
    /\ run = 1 /\ reads = 0 /\ cell = "IDLE" /\ reader = "idle"
    /\ term = [grid |-> <<>>, poisoned |-> FALSE] /\ pending = <<>>
    /\ replay = NoReplay /\ failed = FALSE /\ restored = FALSE
    /\ retiring = "no" /\ journal = [held |-> <<>>, written |-> {}]
    /\ disk = << <<0, 1>>, <<0, 2>> >> /\ base = {<<0, 1>>, <<0, 2>>}
    /\ history = [state |-> "queued", old |-> <<>>] /\ save = NoSave /\ faults = 0

(***************************************************************************)
(* The reader thread.                                                      *)
(***************************************************************************)
\* read_and_retain: an admitted read returns bytes of the child.
Read ==
    /\ reader = "idle" /\ MayBeginRead(cell) /\ reads < MaxReads
    /\ cell' = BeginRead(cell) /\ reader' = "read" /\ reads' = reads + 1
    /\ UNCHANGED <<run, term, pending, replay, failed, restored, history, disk,
                   save, retiring, journal, base, faults>>

\* wait_for_history_restore, between the read and its retention.
WaitForHistoryRestore == ~Restoring

PassHistoryRestore ==
    /\ reader = "read" /\ WaitForHistoryRestore /\ reader' = "passed"
    /\ UNCHANGED <<run, reads, cell, term, pending, replay, failed, restored,
                   history, disk, save, retiring, journal, base, faults>>

\* retain_raw_read_and_parse: the log first, then the grid if it is healthy; a
\* panic of the parser poisons it.
RetainRawRead ==
    /\ reader = "passed"
    /\ pending' = Append(pending, <<run, reads>>)
    /\ \/ /\ term' = IF term.poisoned THEN term
                     ELSE [term EXCEPT !.grid = Append(@, <<run, reads>>)]
          /\ UNCHANGED faults
       \/ Fault /\ ~term.poisoned /\ term' = [term EXCEPT !.poisoned = TRUE]
    /\ cell' = FinishRead(cell) /\ reader' = "idle"
    /\ UNCHANGED <<run, reads, replay, failed, restored, history, disk, save,
                   retiring, journal, base>>

\* The child ends or closes its side: a read in progress sees the end of file.
ReachEof ==
    /\ reader = "idle" /\ MayBeginRead(cell) /\ cell' = "EOF"
    /\ UNCHANGED <<run, reads, reader, term, pending, replay, failed, restored,
                   history, disk, save, retiring, journal, base, faults>>

(***************************************************************************)
(* Restoring the history.                                                  *)
(***************************************************************************)
\* The worker answers the restore request, the first of its queue; when it
\* cannot read the files no save of the run goes through any more.
LoadHistory ==
    /\ history.state = "queued"
    /\ \/ /\ history' = [state |-> IF disk = <<>> THEN "done" ELSE "ready", old |-> disk]
          /\ UNCHANGED faults
       \/ Fault /\ history' = [history EXCEPT !.state = "unread"]
    /\ UNCHANGED <<run, reads, cell, reader, term, pending, replay, failed, restored,
                   disk, save, retiring, journal, base>>

\* replay_session_preserving_live takes the request unless a replay runs or one
\* failed in this terminal; the thread may also be refused.
Accepts == ~Restoring /\ ~failed

\* restore_leaf_histories, from restore_pending_scrollbacks: the leaf counts as
\* restored once the request is accepted.
RestoreLeafHistories ==
    /\ history.state = "ready"
    /\ \/ restored /\ UNCHANGED <<replay, restored, faults>>
          /\ history' = [state |-> "done", old |-> <<>>]
       \/ /\ ~restored /\ Accepts
          /\ replay' = [pc |-> "begin", old |-> history.old, live |-> <<>>]
          /\ restored' = TRUE /\ history' = [state |-> "done", old |-> <<>>]
          /\ UNCHANGED faults
       \/ ~restored /\ Accepts /\ Fault /\ UNCHANGED <<replay, restored, history>>
    /\ UNCHANGED <<run, reads, cell, reader, term, pending, failed, disk, save,
                   retiring, journal, base>>

ReplayFails ==
    /\ failed' = TRUE /\ replay' = NoReplay

\* The replay takes the live output out of the grid and clears it.
ReplayBegin ==
    /\ replay.pc = "begin"
    /\ IF term.poisoned
       THEN ReplayFails /\ UNCHANGED term
       ELSE /\ replay' = [replay EXCEPT !.pc = "old", !.live = term.grid]
            /\ term' = [term EXCEPT !.grid = <<>>] /\ UNCHANGED failed
    /\ UNCHANGED <<run, reads, cell, reader, pending, restored, history, disk, save,
                   retiring, journal, base, faults>>

\* One chunk of the checkpoint or of a frame enters the grid, the lock being
\* released after it; the parser may panic here too.
ReplayChunk ==
    /\ replay.pc = "old" /\ replay.old # <<>>
    /\ \/ /\ ~term.poisoned
          /\ term' = [term EXCEPT !.grid = Append(@, Head(replay.old))]
          /\ replay' = [replay EXCEPT !.old = Tail(@)] /\ UNCHANGED <<failed, faults>>
       \/ ~term.poisoned /\ Fault /\ term' = [term EXCEPT !.poisoned = TRUE] /\ ReplayFails
       \/ term.poisoned /\ ReplayFails /\ UNCHANGED <<term, faults>>
    /\ UNCHANGED <<run, reads, cell, reader, pending, restored, history, disk, save,
                   retiring, journal, base>>

\* The live output goes back in at the end, and the reader is released.
ReplayEnd ==
    /\ replay.pc = "old" /\ replay.old = <<>>
    /\ IF term.poisoned
       THEN ReplayFails /\ UNCHANGED term
       ELSE /\ term' = [term EXCEPT !.grid = @ \o replay.live]
            /\ replay' = NoReplay /\ UNCHANGED failed
    /\ UNCHANGED <<run, reads, cell, reader, pending, restored, history, disk, save,
                   retiring, journal, base, faults>>

(***************************************************************************)
(* Saving.                                                                 *)
(***************************************************************************)
Owned == retiring # "no"

\* Faulty variant, for mutation: a retirement publishes a grid that still grows.
NeverBlocked == FALSE

\* retirement_snapshot_blocked
RetirementSnapshotBlocked == Owned /\ retiring # "complete"

\* leaf_scrollbacks: restore_pending
RestorePending == history.state \in {"queued", "ready"} /\ ~restored

\* Faulty variant, for mutation: a history that waits to be restored does not
\* keep the grid from being a checkpoint.
WholeUnlessRestoring == ~Restoring /\ ~failed /\ ~term.poisoned

\* recovery_snapshot and checkpoint_snapshot: the grid is a whole checkpoint.
GridIsWhole == ~RestorePending /\ ~Restoring /\ ~failed /\ ~term.poisoned

Submits(kind, output, bytes) ==
    /\ save' = [state |-> "sent", kind |-> kind, run |-> run, output |-> output, bytes |-> bytes]
    /\ UNCHANGED <<run, reads, cell, reader, term, pending, replay, failed, restored,
                   history, disk, retiring, journal, base, faults>>

\* pending_leaf_logs and pending_log_snapshot: the autosave.
SubmitIncremental ==
    /\ save.state = "none" /\ history.state # "unread" /\ ~Owned /\ pending # <<>>
    /\ Submits("log", pending, Len(pending))

\* leaf_scrollbacks, after the worker's queue was drained: a whole grid, or the
\* log alone; nothing is sent for a terminal whose snapshot is not available.
SubmitFull ==
    /\ save.state = "none" /\ history.state \notin {"queued", "unread"}
    /\ ~RetirementSnapshotBlocked
    /\ IF GridIsWhole
       THEN Submits("checkpoint", term.grid, Len(pending))
       ELSE Submits("log", pending, Len(pending))

\* persist_full_entries and persist_incremental_entries, behind the restore
\* request in the worker's queue.
WorkerSaves ==
    /\ save.state = "sent" /\ history.state # "queued"
    /\ \/ /\ disk' = IF save.kind = "checkpoint" THEN save.output ELSE disk \o save.output
          /\ history.state # "unread"
          /\ save' = [save EXCEPT !.state = "saved"] /\ UNCHANGED faults
       \/ history.state # "unread" /\ Fault /\ save' = NoSave /\ UNCHANGED disk
       \/ history.state = "unread" /\ save' = NoSave /\ UNCHANGED <<disk, faults>>
    /\ UNCHANGED <<run, reads, cell, reader, term, pending, replay, failed, restored,
                   history, retiring, journal, base>>

\* Faulty variant, for mutation: the acknowledgement of an earlier run counts.
ForAnyRun == save.run \in Nat

\* acknowledge_leaf_log: only the run the output was captured from.
ForThisRun == save.run = run

\* acknowledge_pending_log
AcknowledgeLeafLog ==
    /\ save.state = "saved" /\ save' = NoSave
    /\ pending' = IF ForThisRun /\ ~Owned
                  THEN SubSeq(pending, 1 + IF save.bytes < Len(pending) THEN save.bytes
                                           ELSE Len(pending), Len(pending))
                  ELSE pending
    /\ UNCHANGED <<run, reads, cell, reader, term, replay, failed, restored, history,
                   disk, retiring, journal, base, faults>>

(***************************************************************************)
(* Retirement, replacement and restart.                                    *)
(***************************************************************************)
\* claim_retirement_log_owner
ClaimRetirement ==
    /\ ~Owned /\ retiring' = "claimed" /\ cell' = Request(cell)
    /\ UNCHANGED <<run, reads, reader, term, pending, replay, failed, restored,
                   history, disk, save, journal, base, faults>>

\* retirement_pending_snapshot: the reader is still and no replay runs.
PrefixIsStable == Quiescent(cell) /\ ~Restoring

\* transfer_retirement_frames
Transferred ==
    /\ journal' = [journal EXCEPT !.held = @ \o pending] /\ pending' = <<>>

\* take_retirement_prefix and take_retirement_tail; sampling the physical end
\* before the tail decides whether this tail is the last.
TransferFrames ==
    /\ \/ retiring = "claimed" /\ PrefixIsStable /\ retiring' = "captured"
       \/ retiring = "draining" /\ cell = "EOF" /\ retiring' = "last"
       \/ retiring = "draining" /\ Draining(cell) /\ UNCHANGED retiring
    /\ pending = <<>> => retiring' # retiring
    /\ Transferred
    /\ UNCHANGED <<run, reads, cell, reader, term, replay, failed, restored, history,
                   disk, save, base, faults>>

\* append and begin_retirement_drain; the last append completes the retirement.
AppendJournal ==
    /\ retiring \in {"captured", "draining", "last"}
    /\ \/ /\ journal' = [held |-> <<>>, written |-> journal.written \cup ToSet(journal.held)]
          /\ retiring' = CASE retiring = "last" -> "complete" [] OTHER -> "draining"
          /\ cell' = IF retiring = "captured" THEN ResumeDrain(cell) ELSE cell
          /\ retiring = "draining" => journal.held # <<>>
          /\ UNCHANGED faults
       \/ Fault /\ UNCHANGED <<journal, retiring, cell>>
    /\ UNCHANGED <<run, reads, reader, term, pending, replay, failed, restored,
                   history, disk, save, base>>

\* restart of an agent in its leaf (panel.rs): a new terminal, same leaf.
ReplaceRuntime ==
    /\ run < MaxRuns /\ Fresh(run + 1)
    /\ base' = IF history.state = "done" THEN {} ELSE base
    /\ UNCHANGED <<history, disk, save, faults>>

\* The app stops at any point and starts again.
Restart ==
    /\ run < MaxRuns /\ Fresh(run + 1)
    /\ history' = [state |-> "queued", old |-> <<>>] /\ save' = NoSave
    /\ base' = ToSet(disk) /\ UNCHANGED <<disk, faults>>

Next ==
    \/ Read \/ PassHistoryRestore \/ RetainRawRead \/ ReachEof
    \/ LoadHistory \/ RestoreLeafHistories \/ ReplayBegin \/ ReplayChunk \/ ReplayEnd
    \/ SubmitIncremental \/ SubmitFull \/ WorkerSaves \/ AcknowledgeLeafLog
    \/ ClaimRetirement \/ TransferFrames \/ AppendJournal
    \/ ReplaceRuntime \/ Restart

Spec == Init /\ [][Next]_vars

(***************************************************************************)
(* Properties.                                                             *)
(***************************************************************************)
Retained == {<<run, n>> : n \in 1 .. (IF reader = "idle" THEN reads ELSE reads - 1)}

NoRepeats(s) == IsInjective(s)

\* What a terminal printed, and what it printed in earlier runs, is never lost
\* nor written twice: every retained read of the run is in the log, on disk or
\* in the journal of the retirement; the history the app started with stays on
\* disk whatever happens to its replay (refused, running, failed, or not read
\* at all) until the terminal it was shown in is replaced; and no piece of
\* output is twice on disk or in the grid.
OutputIsKept ==
    /\ Retained \subseteq ToSet(disk) \cup ToSet(pending) \cup ToSet(journal.held)
                              \cup journal.written
    /\ base \subseteq ToSet(disk)
    /\ NoRepeats(disk) /\ NoRepeats(term.grid)

\* The output of earlier runs comes before that of the terminal ("historial
\* viejo primero, salida viva después").
HistoryFirst ==
    \A i, j \in DOMAIN disk : i < j => disk[i][1] <= disk[j][1]
=============================================================================
