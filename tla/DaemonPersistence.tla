------------------------- MODULE DaemonPersistence -------------------------
(***************************************************************************)
(* From the child's output to the disk: the daemon session of one leaf,    *)
(* its PTY, the pump thread that makes the output durable, and the         *)
(* retirement that may destroy the terminal only afterwards                *)
(* (src/src/daemon/server.rs, src/src/terminal/pty.rs).                    *)
(*                                                                         *)
(* Threads and what they interleave on:                                    *)
(*   reader   moves output from the kernel to the grid and pending_log     *)
(*   pump     under the registry lock drains pending_log into              *)
(*            persist_pending and picks targets; writes the files with no  *)
(*            lock held; takes the lock again to acknowledge               *)
(*   client   handlers (Spawn, Attach, Resize, Kill), each under the lock  *)
(* capture and loading are the handlers that release nothing but pass      *)
(* through several steps with the lock held.  promised is history: the     *)
(* units the daemon has vouched for, by an acknowledgement or by Killed.   *)
(* The fence a managed session must also pass before Kill is the subject   *)
(* of HookLedger; here Kill is admitted.                                   *)
(*                                                                         *)
(* The durable history of the leaf is a checkpoint file and an incremental *)
(* log (state/scrollback_store.rs, scrollback_log.rs).  Output is          *)
(* abstracted to units numbered in the order the terminal produced them; a *)
(* frame carries one unit.  Both files carry a generation; the log counts  *)
(* only when the generations agree.  A missing checkpoint reads as         *)
(* generation 0 with no text, a missing log as generation None.  The       *)
(* frames of a log are numbered from 1 without gaps (read_frames rejects   *)
(* anything else), so the durable sequence number of a frame is its        *)
(* position.                                                               *)
(***************************************************************************)
EXTENDS Integers, Sequences, FiniteSets, Functions, ReaderRetirement, TLAPS

CONSTANTS
    None,            \* Rust Option::None
    MaxOutput,       \* bound: units of output the model produces
    AltUnits,        \* units drawn on the alternate screen (full-screen programs)
    GenModulus,      \* 2^32: generations wrap around
    MaxText,         \* MAX_PERSISTED_BYTES, in units: what a checkpoint retains
    HighWater,       \* HIGH_WATER, in units: the reader stops above it
    AltLogFrames,    \* MAX_ALTERNATE_LOG_BYTES, in frames
    MaxLogFrames,    \* MAX_LOG_BYTES, in frames
    MaxSessions,     \* bound: sessions born on the leaf
    MaxFaults,       \* bound: I/O errors, panics and crashes
    RollbackMayFail, \* may the rollback of a failed append fail as well?
    RespawnDuringWrite \* may a new session load the leaf's files while the
                       \* pump still writes them for its predecessor?

ASSUME DaemonAssumption ==
    /\ MaxOutput \in Nat
    /\ AltUnits \subseteq 1..MaxOutput
    /\ GenModulus \in Nat /\ GenModulus > 1
    /\ MaxText \in Nat \ {0}
    /\ None \notin Nat
    /\ HighWater \in Nat \ {0}
    /\ {AltLogFrames, MaxLogFrames, MaxSessions, MaxFaults} \subseteq Nat
    /\ {RollbackMayFail, RespawnDuringWrite} \subseteq BOOLEAN

Unit == 1..MaxOutput
Generation == 0..(GenModulus - 1)
Checkpoint == [gen: Generation, text: Seq(Unit)]
Log == [gen: Generation \cup {None}, frames: Seq(Unit)]

NoCheckpoint == [gen |-> 0, text |-> <<>>]
NoLog == [gen |-> None, frames |-> <<>>]

\* clamp_scrollback keeps the newest text.
Clamp(text) ==
    IF Len(text) <= MaxText THEN text
    ELSE SubSeq(text, Len(text) - MaxText + 1, Len(text))

\* What the grid exports as history: the primary screen only.
Export(grid) ==
    LET Primary(u) == u \notin AltUnits IN Clamp(SelectSeq(grid, Primary))

\* try_load_leaf_session: the log is replayed on top of the checkpoint it
\* belongs to, and ignored when it belongs to another one.
History(ckpt, log) ==
    ckpt.text \o (IF log.gen = ckpt.gen THEN log.frames ELSE <<>>)

\* Faulty variant, for mutation: the retained log may become current again.
NextGenerationNoSkip(ckpt, log) == (ckpt.gen + 1) % GenModulus

\* next_checkpoint_generation: never the generation of a log still on disk.
NextCheckpointGeneration(ckpt, log) ==
    LET next == (ckpt.gen + 1) % GenModulus IN
    IF log.gen = next THEN (next + 1) % GenModulus ELSE next

\* reset_log: an atomic write of a bare header.
ResetLog(gen) == [gen |-> gen, frames |-> <<>>]

\* The sequence number persist_incremental_targets_in_dir gives a batch.
FirstSeq(log) == Len(log.frames) + 1

\* append_frames refuses a batch that does not continue the durable sequence.
ContinuesSequence(log, first_seq) == first_seq = Len(log.frames) + 1

AppendFrames(log, frames) == [gen |-> log.gen, frames |-> log.frames \o frames]

-----------------------------------------------------------------------------
VARIABLES
    ckpt, log,                               \* the leaf's files
    produced, unread, child, settled,        \* the child and its terminal
    reader, grid, poisoned, alternate, pending_log,              \* PtyHandle
    open, sid, birth, persist_pending, scrollback_dirty,     \* DaemonSession
    was_alternate, live_repair, retirement,
    pc, due, scrollback_target, incremental_target, outcome,   \* pump thread
    capture, loading,                        \* handlers inside the lock
    promised, faults

disk    == <<ckpt, log>>
tty     == <<produced, unread, child, settled>>
pty     == <<reader, grid, poisoned, alternate, pending_log>>
session == <<open, sid, birth, persist_pending, scrollback_dirty,
             was_alternate, live_repair, retirement>>
pump    == <<pc, due, scrollback_target, incremental_target, outcome>>
handler == <<capture, loading>>
vars    == <<disk, tty, pty, session, pump, handler, promised, faults>>

\* The four retirement_* flags of DaemonSession are only ever set in order.
Retirement == {"none", "requested", "captured", "draining", "final"}

ScrollbackTarget == [sid: 1..MaxSessions, text: Seq(Unit), count: 0..MaxOutput]
IncrementalTarget == [sid: 1..MaxSessions, frames: Seq(Unit), alternate: BOOLEAN]
Idle == [ack |-> 0, dirty |-> FALSE]

TypeOK ==
    /\ ckpt \in Checkpoint /\ log \in Log
    /\ produced \in 0..MaxOutput /\ unread \in 0..MaxOutput
    /\ child \in {"running", "exited"} /\ settled \in BOOLEAN
    /\ reader \in ReaderState /\ grid \in Seq(Unit) /\ pending_log \in Seq(Unit)
    /\ {poisoned, alternate, open, scrollback_dirty, was_alternate,
        live_repair, due} \subseteq BOOLEAN
    /\ sid \in 0..MaxSessions /\ birth \in 0..MaxOutput
    /\ persist_pending \in Seq(Unit)
    /\ retirement \in Retirement
    /\ pc \in {"pump", "take", "checkpoint", "rotate", "ack_checkpoint",
               "append", "compact", "compact_log", "ack_append", "finish"}
    /\ scrollback_target \in ScrollbackTarget \cup {None}
    /\ incremental_target \in IncrementalTarget \cup {None}
    /\ outcome \in [ack: 0..MaxOutput, dirty: BOOLEAN]
    /\ capture \in [caller: {"pump", "kill"}, complete: BOOLEAN] \cup {None}
    /\ loading \in Checkpoint \cup {None}
    /\ promised \subseteq Unit /\ faults \in 0..MaxFaults

Init ==
    /\ ckpt = NoCheckpoint /\ log = NoLog
    /\ produced = 0 /\ sid = 0 /\ birth = 0
    /\ open = FALSE /\ persist_pending = <<>> /\ scrollback_dirty = FALSE
    /\ was_alternate = FALSE /\ live_repair = FALSE /\ retirement = "none"
    /\ unread = 0 /\ child = "exited" /\ settled = FALSE
    /\ reader = "IDLE" /\ grid = <<>> /\ poisoned = FALSE
    /\ alternate = FALSE /\ pending_log = <<>>
    /\ pc = "pump" /\ due = FALSE /\ outcome = Idle
    /\ scrollback_target = None /\ incremental_target = None
    /\ capture = None /\ loading = None
    /\ promised = {} /\ faults = 0

\* Everything that lives in the session or its PTY goes with it.
DropSession ==
    /\ open' = FALSE /\ persist_pending' = <<>> /\ scrollback_dirty' = FALSE
    /\ was_alternate' = FALSE /\ live_repair' = FALSE /\ retirement' = "none"
    /\ unread' = 0 /\ child' = "exited" /\ settled' = FALSE
    /\ reader' = "IDLE" /\ grid' = <<>> /\ poisoned' = FALSE
    /\ alternate' = FALSE /\ pending_log' = <<>>
    /\ birth' = produced

\* A fault the code handles: the next one of a bounded number.
Fault == faults < MaxFaults /\ faults' = faults + 1

\* The registry mutex is free: no handler is between its steps and the pump
\* is not between draining and picking targets.
RegistryFree == capture = None /\ loading = None /\ pc # "take"

-----------------------------------------------------------------------------
(* The child, its terminal and the reader thread.                          *)

ChildWrites ==
    /\ open /\ child = "running" /\ produced + unread < MaxOutput
    /\ unread' = unread + 1
    /\ UNCHANGED <<disk, produced, child, settled, pty, session, pump, handler,
                   promised, faults>>

\* On its own, or because begin_retirement_drain terminated it.
ChildExits ==
    /\ open /\ child = "running"
    /\ child' = "exited"
    /\ UNCHANGED <<disk, produced, unread, settled, pty, session, pump, handler,
                   promised, faults>>

\* The rest of retirement_physical_complete: the reader thread ended, the
\* child was reaped, the input writer and the master's closer finished.
Settle ==
    /\ open /\ child = "exited" /\ reader = "EOF" /\ retirement = "draining"
    /\ ~settled /\ settled' = TRUE
    /\ UNCHANGED <<disk, produced, unread, child, pty, session, pump, handler,
                   promised, faults>>

\* Durable pressure: bytes waiting in the daemon's queue count, so draining
\* into RAM cannot reopen the gate.
ReaderBegins ==
    /\ open /\ MayBeginRead(reader)
    /\ Len(pending_log) + Len(persist_pending) < HighWater
    /\ reader' = BeginRead(reader)
    /\ UNCHANGED <<disk, tty, grid, poisoned, alternate, pending_log, session,
                   pump, handler, promised, faults>>

\* retain_raw_read_for_reader: the raw bytes are retained before the parser
\* sees them; a parser panic poisons the grid and nothing else.
Retain(panics) ==
    /\ unread' = unread - 1
    /\ produced' = produced + 1
    /\ pending_log' = Append(pending_log, produced')
    /\ poisoned' = (poisoned \/ panics)
    /\ IF poisoned'
       THEN UNCHANGED <<grid, alternate>>
       ELSE /\ grid' = Append(grid, produced')
            /\ alternate' = (produced' \in AltUnits)
    /\ reader' = FinishRead(reader)

ReadData ==
    /\ open /\ InRead(reader) /\ unread > 0
    /\ \/ Retain(FALSE) /\ UNCHANGED faults
       \/ ~poisoned /\ Retain(TRUE) /\ Fault
    /\ UNCHANGED <<disk, child, settled, session, pump, handler, promised>>

\* Nothing to read: end of file once the child is gone, otherwise
\* WouldBlock, a retry.
ReadNothing ==
    /\ open /\ InRead(reader) /\ unread = 0
    /\ reader' = IF child = "exited" THEN "EOF" ELSE FinishRead(reader)
    /\ UNCHANGED <<disk, tty, grid, poisoned, alternate, pending_log, session,
                   pump, handler, promised, faults>>

ReadFails ==
    /\ open /\ InRead(reader) /\ Fault
    /\ reader' = "FAILED"
    /\ UNCHANGED <<disk, tty, grid, poisoned, alternate, pending_log, session,
                   pump, handler, promised>>
-----------------------------------------------------------------------------
(* Output into the daemon's durable queue.                                 *)

\* ingest_pty_frames of the first n units of pending_log.
Ingest(n) ==
    /\ persist_pending' = persist_pending \o SubSeq(pending_log, 1, n)
    /\ pending_log' = SubSeq(pending_log, n + 1, Len(pending_log))

\* A boundary that was refused drains nothing and schedules a repair.
Refuse ==
    /\ live_repair' = TRUE
    /\ UNCHANGED <<persist_pending, pending_log, scrollback_dirty, was_alternate>>

\* A repair was scheduled and may be retried now; the clock decides.
RepairWaits(retry) == live_repair /\ ~retry

\* A boundary that needs no snapshot drains up to a budget, at least one
\* frame; leaving the alternate screen or a repair needs the whole snapshot.
NeedsSnapshot == live_repair \/ (was_alternate /\ ~alternate)

\* drain_log_prefix lets one frame of any size through, so a drain of a
\* non-empty log takes at least one.
DrainSizes == IF pending_log = <<>> THEN {0} ELSE 1..Len(pending_log)

\* pump_output for a session that is not retiring.  metadata says whether
\* the title, cwd or agent status changed, which counts as output.
PumpSession(retry, refused, metadata) ==
    IF RepairWaits(retry)
    THEN \E n \in DrainSizes :          \* the durable rescue: raw frames only
            /\ Ingest(n)
            /\ scrollback_dirty' = (scrollback_dirty \/ n > 0)
            /\ UNCHANGED <<was_alternate, live_repair>>
    ELSE IF poisoned \/ (refused /\ NeedsSnapshot)
    THEN Refuse
    ELSE \E n \in IF NeedsSnapshot THEN {Len(pending_log)} ELSE DrainSizes :
            /\ Ingest(n)
            /\ scrollback_dirty' = (scrollback_dirty \/ n > 0 \/ NeedsSnapshot \/ metadata)
            /\ was_alternate' = alternate
            /\ live_repair' = FALSE

\* attach_boundary: always takes the snapshot (and changes nothing while a
\* repair waits for its retry).
Attach ==
    /\ RegistryFree /\ open /\ retirement = "none"
    /\ \/ Refuse
       \/ /\ ~poisoned
          /\ Ingest(Len(pending_log))
          /\ scrollback_dirty' = (scrollback_dirty \/ pending_log # <<>> \/ NeedsSnapshot)
          /\ was_alternate' = alternate
          /\ live_repair' = FALSE
    /\ UNCHANGED <<disk, tty, reader, grid, poisoned, alternate, open, sid, birth,
                   retirement, pump, handler, promised, faults>>

\* resize marks the grid dirty; a size that really changes is a frame of its
\* own, recorded past the reader.
Resize(changed) ==
    /\ RegistryFree /\ open /\ retirement = "none"
    /\ scrollback_dirty' = TRUE
    /\ IF changed
       THEN /\ produced + unread < MaxOutput
            /\ (produced + 1 \in AltUnits) = alternate
            /\ produced' = produced + 1
            /\ pending_log' = Append(pending_log, produced')
            /\ grid' = IF poisoned THEN grid ELSE Append(grid, produced')
       ELSE UNCHANGED <<produced, pending_log, grid>>
    /\ UNCHANGED <<disk, unread, child, settled, reader, poisoned, alternate, open,
                   sid, birth, persist_pending, was_alternate, live_repair,
                   retirement, pump, handler, promised, faults>>
-----------------------------------------------------------------------------
(* Retirement: pause, capture, acknowledge, drain, capture the tail, kill. *)

PhysicalComplete(state) == state = "EOF" /\ settled

\* Faulty variant, for mutation: the drain (and with it the termination of
\* the child) does not wait for the disk.
MayDrainEarly(phase, queue) == phase = "captured"

\* Only an acknowledged prefix lets the drain begin.
MayDrain(phase, queue) == phase = "captured" /\ queue = <<>>

\* The first half of capture_retirement, up to the sample of the physical
\* boundary: claim the log (which requests the pause), take the prefix once
\* the reader is quiescent, and begin the drain once nothing waits for the
\* disk.  `phase' is the retirement phase it starts from, `closer' says
\* whether the thread that closes the master could be started; the reader is
\* resumed either way.
BeginCapture(caller, phase, closer) ==
    LET paused  == IF phase = "requested" THEN Request(reader) ELSE reader
        prefix  == phase = "requested" /\ Quiescent(paused)
        queue   == IF prefix THEN persist_pending \o pending_log ELSE persist_pending
        taken   == IF prefix THEN "captured" ELSE phase
        drain   == MayDrain(taken, queue)
        resumed == IF drain THEN ResumeDrain(paused) ELSE paused
        begun   == drain /\ closer /\ (Draining(resumed) \/ resumed = "EOF")
    IN  /\ reader' = resumed
        /\ persist_pending' = queue
        /\ pending_log' = IF prefix THEN <<>> ELSE pending_log
        /\ retirement' = IF begun THEN "draining" ELSE taken
        /\ capture' = [caller |-> caller, complete |-> PhysicalComplete(resumed)]
        /\ IF closer THEN UNCHANGED faults ELSE drain /\ Fault

\* drop(session.handle) and the removal from the registry.  Killed is the
\* daemon's word that everything the terminal produced is durable.
CloseSession ==
    /\ DropSession
    /\ promised' = promised \cup ((birth + 1)..(produced + unread))

\* Faulty variant, for mutation: a transfer of the tail counts as the final
\* one whether or not the boundary had been reached before it.
FinishCaptureEagerly ==
    /\ capture # None /\ loading = None /\ capture' = None
    /\ LET tail == retirement = "draining" /\ (Draining(reader) \/ reader = "EOF")
           queue == IF tail THEN persist_pending \o pending_log ELSE persist_pending
           phase == IF tail THEN "final" ELSE retirement
       IN  IF capture.caller = "kill" /\ phase = "final" /\ queue = <<>>
           THEN CloseSession /\ UNCHANGED <<produced, sid>>
           ELSE /\ persist_pending' = queue
                /\ pending_log' = IF tail THEN <<>> ELSE pending_log
                /\ retirement' = phase
                /\ UNCHANGED <<tty, reader, grid, poisoned, alternate, open, sid, birth,
                               scrollback_dirty, was_alternate, live_repair, promised>>
    /\ UNCHANGED <<disk, pump, loading, faults>>

\* The second half of capture_retirement: the tail moves to the durable
\* queue, and is the last one only if the boundary was reached before the
\* transfer.  kill then removes the session when nothing is left to write.
FinishCapture ==
    /\ capture # None /\ loading = None /\ capture' = None
    /\ LET tail == retirement = "draining" /\ (Draining(reader) \/ reader = "EOF")
           queue == IF tail THEN persist_pending \o pending_log ELSE persist_pending
           phase == IF tail /\ capture.complete THEN "final" ELSE retirement
       IN  IF capture.caller = "kill" /\ phase = "final" /\ queue = <<>>
           THEN CloseSession /\ UNCHANGED <<produced, sid>>
           ELSE /\ persist_pending' = queue
                /\ pending_log' = IF tail THEN <<>> ELSE pending_log
                /\ retirement' = phase
                /\ UNCHANGED <<tty, reader, grid, poisoned, alternate, open, sid, birth,
                               scrollback_dirty, was_alternate, live_repair, promised>>
    /\ UNCHANGED <<disk, pump, loading, faults>>

\* A client's Kill, CloseBirth or ReconcileLive reaching `kill'.
Kill ==
    /\ RegistryFree /\ open
    /\ \E closer \in BOOLEAN :
          BeginCapture("kill", IF retirement = "none" THEN "requested" ELSE retirement,
                       closer)
    /\ UNCHANGED <<disk, tty, grid, poisoned, alternate, open, sid, birth,
                   scrollback_dirty, was_alternate, live_repair, pump, loading, promised>>
-----------------------------------------------------------------------------
(* Birth and crash.                                                        *)

\* try_load_leaf_session reads the checkpoint, then the log.
SpawnReadsCheckpoint ==
    /\ RegistryFree /\ ~open /\ sid < MaxSessions
    /\ pc = "pump" \/ RespawnDuringWrite
    /\ loading' = ckpt
    /\ UNCHANGED <<disk, tty, pty, session, pump, capture, promised, faults>>

\* restore_cold_history fills the grid before the reader starts.
SpawnOpens ==
    /\ loading # None /\ loading' = None
    /\ open' = TRUE /\ sid' = sid + 1 /\ birth' = produced
    /\ child' = "running" /\ reader' = "IDLE"
    /\ grid' = History(loading, log)
    /\ UNCHANGED <<disk, produced, unread, settled, poisoned, alternate, pending_log,
                   persist_pending, scrollback_dirty, was_alternate, live_repair,
                   retirement, pump, capture, promised, faults>>

\* The daemon dies: RAM is lost, the child goes with its terminal, and an
\* append in progress leaves any complete prefix of its batch.
Crash ==
    /\ open \/ pc # "pump" \/ loading # None
    /\ Fault
    /\ DropSession /\ capture' = None /\ loading' = None
    /\ pc' = "pump" /\ due' = FALSE /\ outcome' = Idle
    /\ scrollback_target' = None /\ incremental_target' = None
    /\ log' \in {log} \cup
          (IF pc = "append" /\ log.gen = ckpt.gen
           THEN {AppendFrames(log, SubSeq(incremental_target.frames, 1, n)) :
                    n \in 1..Len(incremental_target.frames)}
           ELSE {})
    /\ UNCHANGED <<ckpt, produced, sid, promised>>
-----------------------------------------------------------------------------
(* The pump thread.  checkpoint_due is true in the rounds that write full  *)
(* checkpoints; the clock decides.                                         *)

PumpOutput ==
    /\ pc = "pump" /\ RegistryFree
    /\ due' \in BOOLEAN
    /\ pc' = "take"
    /\ \/ /\ ~open
          /\ UNCHANGED <<pty, session, capture, faults>>
       \/ /\ open /\ retirement # "none"
          /\ \E closer \in BOOLEAN : BeginCapture("pump", retirement, closer)
          /\ UNCHANGED <<grid, poisoned, alternate, open, sid, birth,
                         scrollback_dirty, was_alternate, live_repair>>
       \/ /\ open /\ retirement = "none"
          /\ \E retry, refused, metadata \in BOOLEAN :
                PumpSession(retry, refused, metadata)
          /\ UNCHANGED <<reader, grid, poisoned, alternate, open, sid, birth,
                         retirement, capture, faults>>
    /\ UNCHANGED <<disk, tty, scrollback_target, incremental_target, outcome,
                   loading, promised>>

\* take_dirty_scrollback_targets: grid and queue under one boundary, so the
\* text covers exactly the count of queued units it will acknowledge.
TakeCheckpoint(retry, refused) ==
    IF ~(due /\ open /\ retirement = "none" /\ scrollback_dirty) \/ RepairWaits(retry)
    THEN UNCHANGED <<pending_log, persist_pending, scrollback_dirty, was_alternate,
                     live_repair, scrollback_target>>
    ELSE IF poisoned \/ (refused /\ NeedsSnapshot)
    THEN Refuse /\ UNCHANGED scrollback_target
    ELSE /\ Ingest(Len(pending_log))
         /\ was_alternate' = alternate
         /\ live_repair' = FALSE
         /\ scrollback_dirty' = alternate
         /\ scrollback_target' =
               IF alternate THEN None
               ELSE [sid |-> sid, text |-> Export(grid), count |-> Len(persist_pending')]

\* incremental_scrollback_targets: in a checkpoint round only retiring
\* sessions, which no checkpoint covers.
TakeTargets ==
    /\ pc = "take" /\ capture = None
    /\ \E retry, refused \in BOOLEAN : TakeCheckpoint(retry, refused)
    /\ incremental_target' =
          IF open /\ persist_pending' # <<>> /\ (~due \/ retirement # "none")
          THEN [sid |-> sid, frames |-> persist_pending', alternate |-> was_alternate']
          ELSE None
    /\ pc' = IF scrollback_target' # None THEN "checkpoint"
             ELSE IF incremental_target' # None THEN "append" ELSE "finish"
    /\ UNCHANGED <<disk, tty, reader, grid, poisoned, alternate, open, sid, birth,
                   retirement, due, outcome, handler, promised, faults>>

\* Writing a file leaves everything in RAM alone but the thread's own state.
WriterOnly ==
    UNCHANGED <<tty, pty, session, due, scrollback_target, incremental_target,
                handler, promised>>

\* save_leaf_scrollback_versioned: text and generation in one atomic write.
SaveCheckpoint ==
    /\ pc = "checkpoint"
    /\ \/ /\ ckpt' = [gen |-> NextCheckpointGeneration(ckpt, log),
                      text |-> scrollback_target.text]
          /\ pc' = "rotate"
          /\ UNCHANGED <<outcome, faults>>
       \/ /\ Fault                       \* unreadable history, or the write failed
          /\ pc' = "ack_checkpoint"
          /\ outcome' = [ack |-> 0, dirty |-> TRUE]
          /\ UNCHANGED ckpt
    /\ UNCHANGED log /\ WriterOnly

\* The checkpoint is published: it is acknowledged even if the rotation fails.
RotateLog ==
    /\ pc = "rotate" /\ pc' = "ack_checkpoint"
    /\ \/ /\ log' = ResetLog(ckpt.gen)
          /\ outcome' = [ack |-> scrollback_target.count, dirty |-> FALSE]
          /\ UNCHANGED faults
       \/ /\ Fault /\ UNCHANGED log
          /\ outcome' = [ack |-> scrollback_target.count, dirty |-> TRUE]
    /\ UNCHANGED ckpt /\ WriterOnly

\* The rest of a batch is retried by a later round.
AbandonAppend == pc' = "finish" /\ UNCHANGED <<log, outcome>>

\* persist_incremental_targets_in_dir for a log of another generation.
ResetStaleLog ==
    /\ pc = "append" /\ log.gen # ckpt.gen
    /\ \/ log' = ResetLog(ckpt.gen) /\ UNCHANGED <<pc, outcome, faults>>
       \/ Fault /\ AbandonAppend
    /\ UNCHANGED ckpt /\ WriterOnly

\* The batch is renumbered to continue the durable sequence and appended.  A
\* failed append is rolled back; if that fails too, complete frames stay.
AppendBatch ==
    /\ pc = "append" /\ log.gen = ckpt.gen
    /\ ContinuesSequence(log, FirstSeq(log))
    /\ \/ /\ log' = AppendFrames(log, incremental_target.frames)
          /\ outcome' = [ack |-> Len(incremental_target.frames), dirty |-> FALSE]
          /\ pc' = IF incremental_target.alternate /\ Len(log'.frames) > AltLogFrames
                   THEN "compact" ELSE "ack_append"
          /\ UNCHANGED faults
       \/ Fault /\ AbandonAppend
       \/ /\ RollbackMayFail /\ Fault
          /\ \E n \in 1..Len(incremental_target.frames) :
                log' = AppendFrames(log, SubSeq(incremental_target.frames, 1, n))
          /\ pc' = "finish" /\ UNCHANGED outcome
    /\ UNCHANGED ckpt /\ WriterOnly

\* compact_alternate_log: replay the files, and if they end on the alternate
\* screen publish the primary one as the next checkpoint.
CompactCheckpoint ==
    /\ pc = "compact"
    /\ LET history == History(ckpt, log)
           inside == history[Len(history)] \in AltUnits
       IN  \/ /\ inside
              /\ ckpt' = [gen |-> NextCheckpointGeneration(ckpt, log),
                          text |-> Export(history)]
              /\ pc' = "compact_log" /\ UNCHANGED faults
           \/ /\ ~inside
              /\ pc' = "ack_append" /\ UNCHANGED <<ckpt, faults>>
           \/ /\ inside /\ Fault
              /\ pc' = "ack_append" /\ UNCHANGED ckpt
    /\ UNCHANGED <<log, outcome>> /\ WriterOnly

CompactLog ==
    /\ pc = "compact_log" /\ pc' = "ack_append"
    /\ \/ log' = ResetLog(ckpt.gen) /\ UNCHANGED faults
       \/ Fault /\ UNCHANGED log
    /\ UNCHANGED <<ckpt, outcome>> /\ WriterOnly

Smaller(a, b) == IF a < b THEN a ELSE b

\* Faulty variant, for mutation: an acknowledgement empties the queue, which
\* may have grown since the batch was taken.
AcknowledgeEverything(target, dirty) ==
    IF open /\ sid = target.sid
    THEN /\ persist_pending' = IF outcome.ack = 0 THEN persist_pending ELSE <<>>
         /\ promised' = promised \cup
               Range(SubSeq(persist_pending, 1, Smaller(outcome.ack, Len(persist_pending))))
         /\ scrollback_dirty' = (scrollback_dirty \/ dirty)
    ELSE UNCHANGED <<persist_pending, promised, scrollback_dirty>>

\* acknowledge_persisted, for the session the target was taken from.
Acknowledge(target, dirty) ==
    IF open /\ sid = target.sid
    THEN LET n == Smaller(outcome.ack, Len(persist_pending))
         IN  /\ persist_pending' = SubSeq(persist_pending, n + 1, Len(persist_pending))
             /\ promised' = promised \cup Range(SubSeq(persist_pending, 1, n))
             /\ scrollback_dirty' = (scrollback_dirty \/ dirty)
    ELSE UNCHANGED <<persist_pending, promised, scrollback_dirty>>

AcknowledgeCheckpoint ==
    /\ pc = "ack_checkpoint" /\ RegistryFree
    /\ Acknowledge(scrollback_target, outcome.dirty)
    /\ scrollback_target' = None /\ outcome' = Idle
    /\ pc' = IF incremental_target # None THEN "append" ELSE "finish"
    /\ UNCHANGED <<disk, tty, pty, open, sid, birth, was_alternate, live_repair,
                   retirement, due, incremental_target, handler, faults>>

\* A log past its size limit asks for a checkpoint.
AcknowledgeAppend ==
    /\ pc = "ack_append" /\ RegistryFree
    /\ Acknowledge(incremental_target, Len(log.frames) > MaxLogFrames)
    /\ outcome' = Idle
    /\ pc' = "finish"
    /\ UNCHANGED <<disk, tty, pty, open, sid, birth, was_alternate, live_repair,
                   retirement, due, scrollback_target, incremental_target, handler,
                   faults>>

\* finish_acknowledged_retirements: kill every session being retired.
FinishRound ==
    /\ pc = "finish" /\ RegistryFree
    /\ pc' = "pump" /\ due' = FALSE /\ incremental_target' = None
    /\ IF open /\ retirement # "none"
       THEN \E closer \in BOOLEAN : BeginCapture("kill", retirement, closer)
       ELSE UNCHANGED <<reader, persist_pending, pending_log, retirement, capture, faults>>
    /\ UNCHANGED <<disk, tty, grid, poisoned, alternate, open, sid, birth,
                   scrollback_dirty, was_alternate, live_repair, scrollback_target,
                   outcome, loading, promised>>
-----------------------------------------------------------------------------
PumpStep ==
    \/ PumpOutput \/ TakeTargets \/ SaveCheckpoint \/ RotateLog
    \/ AcknowledgeCheckpoint \/ ResetStaleLog \/ AppendBatch
    \/ CompactCheckpoint \/ CompactLog \/ AcknowledgeAppend \/ FinishRound

ReaderStep == ReaderBegins \/ ReadData \/ ReadNothing

ClientStep == Attach \/ (\E changed \in BOOLEAN : Resize(changed)) \/ Kill

Next ==
    \/ ChildWrites \/ ChildExits \/ Settle
    \/ ReaderStep \/ ReadFails
    \/ PumpStep \/ FinishCapture
    \/ ClientStep
    \/ SpawnReadsCheckpoint \/ SpawnOpens
    \/ Crash

Spec == Init /\ [][Next]_vars

DrainedChildExits == retirement = "draining" /\ ChildExits

(***************************************************************************)
(* Fairness.  The pump loops forever and competes for the registry mutex   *)
(* with client handlers, which hold it for a bounded time: strong          *)
(* fairness.  The reader thread runs whenever the gate admits a read.  A   *)
(* child whose drain has begun was sent its termination signal.            *)
(***************************************************************************)
Fairness ==
    /\ SF_vars(PumpStep) /\ WF_vars(FinishCapture) /\ WF_vars(ReaderStep)
    /\ WF_vars(Settle) /\ WF_vars(DrainedChildExits)

FairSpec == Spec /\ Fairness
-----------------------------------------------------------------------------
\* What a cold start replays never repeats output and never reorders it: not
\* after a checkpoint whose log could not be rotated, not after a crash in
\* the middle of an append, not after a wrapped generation.
RestoredOnceInOrder ==
    LET h == History(ckpt, log) IN
    \A i, j \in DOMAIN h : i < j => h[i] < h[j]

\* Output the daemon vouched for (acknowledged, or produced by a terminal it
\* reported Killed) is restored by every later cold start, unless the
\* checkpoint's size limit displaced it by newer output.
PromisedIsRecoverable ==
    LET h == Range(History(ckpt, log)) IN
    \A u \in promised \ AltUnits :
        u \in h \/ Cardinality({v \in h : v > u}) >= MaxText

\* Every unit a live terminal produced is in the reader's log, in the
\* daemon's queue, or durable: no hand-over between the three, and no
\* acknowledgement of a batch that grew meanwhile, drops one.
NothingFallsBetweenQueues ==
    open => \A u \in (birth + 1)..produced :
        u \in Range(pending_log) \cup Range(persist_pending) \cup promised

\* `No child termination is admitted before this exact prefix is ACKed': when
\* the drain begins, everything read up to the pause has been acknowledged.
\* (After an attempt that failed, the resumed reader may have read more.)
TerminationAfterDurablePrefix ==
    [][retirement' = "draining" /\ retirement # "draining"
          => (birth + 1)..produced \subseteq
                promised \cup (IF retirement = "captured" THEN Range(pending_log) ELSE {})]_vars

\* A retirement, once requested, ends with the terminal destroyed, unless its
\* reader failed (the PTY is then kept on purpose).
IsRetiring == open /\ retirement # "none"
IsRetired == ~open \/ reader = "FAILED"
RetirementCompletes == IsRetiring ~> IsRetired
-----------------------------------------------------------------------------
(***************************************************************************)
(* Proofs.  What a person's terminal printed is never dropped between the  *)
(* three places that hold it, for every size of the queues, every number   *)
(* of sessions and faults, and whatever the disk does.  That nothing falls *)
(* between the queues is inductive together with the type of the queues;   *)
(* that the child is terminated only after its output is durable follows   *)
(* from it in the step that begins the drain.                              *)
(***************************************************************************)
Queues ==
    /\ pending_log \in Seq(Nat) /\ persist_pending \in Seq(Nat)
    /\ produced \in Nat /\ birth \in Nat

\* The units somebody answers for: queued by the reader, queued for the disk,
\* or vouched for.
Held == Range(pending_log) \cup Range(persist_pending) \cup promised

(* What is moved from one queue to another is in one of the two.           *)
LEMMA RangeOfConcat ==
    ASSUME NEW s \in Seq(Nat), NEW t \in Seq(Nat)
    PROVE  s \o t \in Seq(Nat) /\ Range(s \o t) = Range(s) \cup Range(t)
<1> DEFINE u == s \o t
<1>1. /\ u \in Seq(Nat) /\ Len(u) = Len(s) + Len(t)
      /\ \A i \in 1..Len(s) : u[i] = s[i]
      /\ \A i \in 1..Len(t) : u[Len(s) + i] = t[i]
      /\ \A i \in 1..Len(u) : i <= Len(s) \/ (i - Len(s) \in 1..Len(t) /\ u[i] = t[i - Len(s)])
  OBVIOUS
<1>2. /\ DOMAIN u = 1..Len(u) /\ DOMAIN s = 1..Len(s) /\ DOMAIN t = 1..Len(t)
      /\ Len(s) \in Nat /\ Len(t) \in Nat
  BY <1>1
<1> HIDE DEF u
<1>3. Range(u) \subseteq Range(s) \cup Range(t)
  <2> SUFFICES ASSUME NEW i \in 1..Len(u) PROVE u[i] \in Range(s) \cup Range(t)
    BY <1>2 DEF Range
  <2>1. CASE i <= Len(s)
    <3>1. i \in 1..Len(s)
      BY <1>2, <2>1
    <3> QED
      BY <1>1, <1>2, <3>1, Zenon DEF Range
  <2>2. CASE i - Len(s) \in 1..Len(t) /\ u[i] = t[i - Len(s)]
    BY <1>2, <2>2 DEF Range
  <2>3. \/ i <= Len(s)
        \/ i - Len(s) \in 1..Len(t) /\ u[i] = t[i - Len(s)]
    BY <1>1, Zenon
  <2> QED
    BY <2>1, <2>2, <2>3
<1>4. Range(s) \subseteq Range(u)
  <2> SUFFICES ASSUME NEW i \in 1..Len(s) PROVE s[i] \in Range(u)
    BY <1>2 DEF Range
  <2>1. u[i] = s[i] /\ i \in 1..Len(u)
    BY <1>1, <1>2
  <2> QED
    BY <1>2, <2>1 DEF Range
<1>5. Range(t) \subseteq Range(u)
  <2> SUFFICES ASSUME NEW i \in 1..Len(t) PROVE t[i] \in Range(u)
    BY <1>2 DEF Range
  <2>1. Len(s) + i \in 1..Len(u)
    BY <1>1, <1>2
  <2> QED
    BY <1>1, <1>2, <2>1 DEF Range
<1> QED
  BY <1>1, <1>3, <1>4, <1>5 DEF u

(* A drained prefix and what stays behind are the queue.                   *)
LEMMA RangeOfSplit ==
    ASSUME NEW s \in Seq(Nat), NEW n \in 0..Len(s)
    PROVE  /\ SubSeq(s, 1, n) \in Seq(Nat) /\ SubSeq(s, n + 1, Len(s)) \in Seq(Nat)
           /\ Range(s) \subseteq Range(SubSeq(s, 1, n)) \cup Range(SubSeq(s, n + 1, Len(s)))
<1> DEFINE a == SubSeq(s, 1, n)
           b == SubSeq(s, n + 1, Len(s))
<1>1. /\ a \in Seq(Nat) /\ Len(a) = n /\ \A i \in 1..n : a[i] = s[i]
      /\ DOMAIN a = 1..n /\ DOMAIN s = 1..Len(s) /\ Len(s) \in Nat /\ n \in Nat
  OBVIOUS
<1>2. /\ b \in Seq(Nat) /\ Len(b) = Len(s) - n
      /\ \A i \in 1..(Len(s) - n) : b[i] = s[n + i]
      /\ DOMAIN b = 1..(Len(s) - n)
  OBVIOUS
<1> HIDE DEF a, b
<1>3. ASSUME NEW i \in 1..Len(s) PROVE s[i] \in Range(a) \cup Range(b)
  <2>1. CASE i <= n
    BY <1>1, <2>1 DEF Range
  <2>2. CASE i > n
    <3>1. i - n \in 1..(Len(s) - n) /\ n + (i - n) = i
      BY <1>1, <2>2
    <3>2. b[i - n] = s[i]
      BY <1>2, <3>1
    <3> QED
      BY <1>2, <3>1, <3>2 DEF Range
  <2> QED
    BY <1>1, <2>1, <2>2
<1> QED
  BY <1>1, <1>2, <1>3 DEF a, b, Range

LEMMA RangeOfAppend ==
    ASSUME NEW s \in Seq(Nat), NEW e \in Nat
    PROVE  Append(s, e) \in Seq(Nat) /\ Range(s) \cup {e} \subseteq Range(Append(s, e))
<1> DEFINE u == Append(s, e)
<1>1. /\ u \in Seq(Nat) /\ Len(u) = Len(s) + 1 /\ u[Len(s) + 1] = e
      /\ \A i \in 1..Len(s) : u[i] = s[i]
      /\ DOMAIN u = 1..(Len(s) + 1) /\ DOMAIN s = 1..Len(s) /\ Len(s) \in Nat
  OBVIOUS
<1> HIDE DEF u
<1>2. Len(s) + 1 \in 1..(Len(s) + 1) /\ \A i \in 1..Len(s) : i \in 1..(Len(s) + 1)
  BY <1>1
<1> QED
  BY <1>1, <1>2 DEF u, Range

\* What the pump has picked up: an acknowledgement counts units, and a file is
\* written only for a target.
Targets ==
    /\ outcome.ack \in Nat
    /\ scrollback_target # None => scrollback_target.count \in Nat
    /\ incremental_target # None => incremental_target.frames \in Seq(Nat)
    /\ pc \in {"checkpoint", "rotate"} => scrollback_target # None
    /\ pc = "append" => incremental_target # None

IInv == Queues /\ Targets /\ NothingFallsBetweenQueues

\* The queues as they are after a step that only moves what they hold.
Kept ==
    /\ pending_log' \in Seq(Nat) /\ persist_pending' \in Seq(Nat)
    /\ Held \subseteq Held'

(* Whoever keeps what is held, of the same session and the same output,    *)
(* keeps the invariant.                                                    *)
LEMMA KeptIsEnough ==
    ASSUME IInv, Kept, Targets', UNCHANGED <<produced, birth>>, open' => open
    PROVE  IInv'
BY DEF IInv, Kept, Queues, NothingFallsBetweenQueues, Held

LEMMA IngestKeeps ==
    ASSUME Queues, NEW n \in 0..Len(pending_log), Ingest(n), promised' = promised
    PROVE  Kept
<1> DEFINE a == SubSeq(pending_log, 1, n)
           b == SubSeq(pending_log, n + 1, Len(pending_log))
<1>1. /\ a \in Seq(Nat) /\ b \in Seq(Nat)
      /\ Range(pending_log) \subseteq Range(a) \cup Range(b)
  BY RangeOfSplit DEF Queues
<1>2. persist_pending' = persist_pending \o a /\ pending_log' = b
  BY DEF Ingest
<1> HIDE DEF a, b
<1>3. /\ persist_pending' \in Seq(Nat)
      /\ Range(persist_pending') = Range(persist_pending) \cup Range(a)
  BY <1>1, <1>2, RangeOfConcat DEF Queues
<1> QED
  BY <1>1, <1>2, <1>3 DEF Kept, Held

(* The whole log moves to the durable queue.                               *)
LEMMA TransferKeeps ==
    ASSUME Queues, NEW all \in BOOLEAN, promised' = promised,
           persist_pending' = IF all THEN persist_pending \o pending_log ELSE persist_pending,
           pending_log' = IF all THEN <<>> ELSE pending_log
    PROVE  Kept
<1>1. CASE all
  <2>1. /\ persist_pending' \in Seq(Nat)
        /\ Range(persist_pending') = Range(persist_pending) \cup Range(pending_log)
    BY <1>1, RangeOfConcat DEF Queues
  <2> QED
    BY <1>1, <2>1 DEF Kept, Held
<1>2. CASE ~all
  BY <1>2 DEF Kept, Held, Queues
<1> QED
  BY <1>1, <1>2

(* What is acknowledged is vouched for, and nothing past it leaves.        *)
LEMMA AcknowledgeKeeps ==
    ASSUME Queues, outcome.ack \in Nat, NEW target, NEW dirty, Acknowledge(target, dirty),
           pending_log' = pending_log
    PROVE  Kept
<1>1. CASE open /\ sid = target.sid
  <2> DEFINE n == Smaller(outcome.ack, Len(persist_pending))
             a == SubSeq(persist_pending, 1, n)
             b == SubSeq(persist_pending, n + 1, Len(persist_pending))
  <2>1. n \in 0..Len(persist_pending)
    BY DEF Smaller, Queues
  <2>2. persist_pending' = b /\ promised' = promised \cup Range(a)
    BY <1>1 DEF Acknowledge
  <2> HIDE DEF n
  <2>3. /\ b \in Seq(Nat)
        /\ Range(persist_pending) \subseteq Range(a) \cup Range(b)
    BY <2>1, RangeOfSplit DEF Queues
  <2> QED
    BY <2>2, <2>3 DEF Kept, Held, Queues
<1>2. CASE ~(open /\ sid = target.sid)
  BY <1>2 DEF Acknowledge, Kept, Held, Queues
<1> QED
  BY <1>1, <1>2

LEMMA PumpSessionKeeps ==
    ASSUME Queues, NEW retry \in BOOLEAN, NEW refused \in BOOLEAN, NEW metadata \in BOOLEAN,
           PumpSession(retry, refused, metadata), promised' = promised
    PROVE  Kept
<1>1. ASSUME Refuse PROVE Kept
  BY <1>1 DEF Refuse, Kept, Held, Queues
<1>2. Len(pending_log) \in 0..Len(pending_log) /\ DrainSizes \subseteq 0..Len(pending_log)
  BY DEF DrainSizes, Queues
<1> QED
  BY <1>1, <1>2, IngestKeeps DEF PumpSession

(* A kill, a round of the pump or its end begins to capture a retirement:  *)
(* the prefix moves as one, and the drain begins only when nothing waits   *)
(* for the disk.                                                           *)
LEMMA CaptureKeeps ==
    ASSUME Queues, NEW caller, NEW phase, NEW closer \in BOOLEAN,
           BeginCapture(caller, phase, closer), promised' = promised
    PROVE  /\ Kept
           /\ retirement' = "draining" /\ phase # "draining" =>
                 /\ persist_pending = <<>>
                 /\ phase # "captured" => phase = "requested" /\ pending_log = <<>>
<1> DEFINE paused == IF phase = "requested" THEN Request(reader) ELSE reader
           prefix == phase = "requested" /\ Quiescent(paused)
           queue == IF prefix THEN persist_pending \o pending_log ELSE persist_pending
           taken == IF prefix THEN "captured" ELSE phase
           begun == MayDrain(taken, queue) /\ retirement' = "draining"
<1>1. /\ persist_pending' = queue
      /\ pending_log' = IF prefix THEN <<>> ELSE pending_log
      /\ retirement' = "draining" /\ taken # "draining" => taken = "captured" /\ queue = <<>>
  BY DEF BeginCapture, MayDrain
<1>2. prefix \in BOOLEAN
  OBVIOUS
<1>3. prefix => phase = "requested"
  OBVIOUS
<1> HIDE DEF prefix
<1>4. Kept
  BY <1>1, <1>2, TransferKeeps
<1>5. ASSUME retirement' = "draining", phase # "draining"
      PROVE  /\ persist_pending = <<>>
             /\ phase # "captured" => phase = "requested" /\ pending_log = <<>>
  <2>1. CASE prefix
    <3>1. persist_pending \o pending_log = <<>>
      BY <1>1, <1>5, <2>1
    <3>2. persist_pending = <<>> /\ pending_log = <<>>
      BY <3>1 DEF Queues
    <3> QED
      BY <1>3, <2>1, <3>2
  <2>2. CASE ~prefix
    BY <1>1, <1>5, <2>2
  <2> QED
    BY <2>1, <2>2
<1> QED
  BY <1>4, <1>5

\* A step that moves no output: the queues, the session and the targets stay.
LEMMA NothingMoves ==
    ASSUME IInv, Targets', open' => open,
           UNCHANGED <<pending_log, persist_pending, produced, birth, promised>>
    PROVE  IInv'
<1>1. Kept
  BY DEF Kept, Held, IInv, Queues
<1> QED
  BY <1>1, KeptIsEnough

(* A session that is gone, or one that has just begun, has nothing to lose. *)
LEMMA DropKeeps ==
    ASSUME IInv, Targets', DropSession, produced' \in Nat
    PROVE  IInv'
BY DEF IInv, Queues, DropSession, NothingFallsBetweenQueues

LEMMA PtyKeeps ==
    ASSUME IInv,
           \/ ChildWrites \/ ChildExits \/ Settle \/ ReaderStep \/ ReadFails
    PROVE  IInv'
<1> USE DEF disk, tty, session, pump, handler
<1>1. CASE ChildWrites \/ ChildExits \/ Settle
  BY <1>1, NothingMoves DEF ChildWrites, ChildExits, Settle, pty, IInv, Targets
<1>2. CASE ReaderBegins \/ ReadNothing \/ ReadFails
  BY <1>2, NothingMoves DEF ReaderBegins, ReadNothing, ReadFails, IInv, Targets
<1>3. CASE ReadData
  <2>1. /\ produced' = produced + 1 /\ pending_log' = Append(pending_log, produced')
        /\ UNCHANGED <<session, pump, promised>>
    BY <1>3 DEF ReadData, Retain
  <2>2. /\ produced' \in Nat /\ pending_log' \in Seq(Nat)
        /\ Range(pending_log) \cup {produced'} \subseteq Range(pending_log')
    BY <2>1, RangeOfAppend DEF IInv, Queues
  <2>3. Queues' /\ Targets'
    BY <2>1, <2>2 DEF IInv, Queues, Targets
  <2>4. NothingFallsBetweenQueues'
    BY <2>1, <2>2 DEF IInv, Queues, NothingFallsBetweenQueues
  <2> QED
    BY <2>3, <2>4 DEF IInv
<1> QED
  BY <1>1, <1>2, <1>3 DEF ReaderStep

LEMMA ClientKeeps == ASSUME IInv, ClientStep PROVE IInv'
<1> USE DEF disk, tty, session, pump, handler
<1>1. CASE Attach
  <2>1. Kept
    <3>1. CASE Refuse
      BY <1>1, <3>1 DEF Attach, Refuse, Kept, Held, IInv, Queues
    <3>2. CASE Ingest(Len(pending_log))
      <4>1. Len(pending_log) \in 0..Len(pending_log)
        BY DEF IInv, Queues
      <4> QED
        BY <1>1, <3>2, <4>1, IngestKeeps DEF Attach, IInv
    <3> QED
      BY <1>1, <3>1, <3>2 DEF Attach
  <2> QED
    BY <1>1, <2>1, KeptIsEnough DEF Attach, IInv, Targets
<1>2. ASSUME NEW changed \in BOOLEAN, Resize(changed) PROVE IInv'
  <2>1. CASE changed
    <3>1. /\ produced' = produced + 1 /\ pending_log' = Append(pending_log, produced')
          /\ UNCHANGED <<open, birth, persist_pending, pump, promised>>
      BY <1>2, <2>1 DEF Resize
    <3>2. /\ produced' \in Nat /\ pending_log' \in Seq(Nat)
          /\ Range(pending_log) \cup {produced'} \subseteq Range(pending_log')
      BY <3>1, RangeOfAppend DEF IInv, Queues
    <3>3. Queues' /\ Targets'
      BY <3>1, <3>2 DEF IInv, Queues, Targets
    <3>4. NothingFallsBetweenQueues'
      BY <3>1, <3>2 DEF IInv, Queues, NothingFallsBetweenQueues
    <3> QED
      BY <3>3, <3>4 DEF IInv
  <2>2. CASE ~changed
    BY <1>2, <2>2, NothingMoves DEF Resize, IInv, Targets
  <2> QED
    BY <2>1, <2>2
<1>3. CASE Kill
  <2>1. PICK closer \in BOOLEAN :
            BeginCapture("kill", IF retirement = "none" THEN "requested" ELSE retirement, closer)
    BY <1>3 DEF Kill
  <2>2. Kept
    BY <1>3, <2>1, CaptureKeeps DEF Kill, IInv
  <2> QED
    BY <1>3, <2>2, KeptIsEnough DEF Kill, IInv, Targets
<1> QED
  BY <1>1, <1>2, <1>3 DEF ClientStep

LEMMA SessionKeeps ==
    ASSUME IInv, FinishCapture \/ SpawnReadsCheckpoint \/ SpawnOpens \/ Crash
    PROVE  IInv'
<1> USE DEF disk, tty, session, pump, handler
<1>1. CASE FinishCapture
  <2> DEFINE tail == retirement = "draining" /\ (Draining(reader) \/ reader = "EOF")
             queue == IF tail THEN persist_pending \o pending_log ELSE persist_pending
  <2>0. Targets'
    BY <1>1 DEF FinishCapture, IInv, Targets
  <2>1. \/ CloseSession /\ UNCHANGED produced
        \/ /\ persist_pending' = queue
           /\ pending_log' = IF tail THEN <<>> ELSE pending_log
           /\ UNCHANGED <<produced, open, birth, promised>>
    BY <1>1 DEF FinishCapture
  <2>2. tail \in BOOLEAN
    OBVIOUS
  <2>3. CASE CloseSession /\ UNCHANGED produced
    BY <2>0, <2>3, DropKeeps DEF CloseSession, IInv, Queues
  <2> HIDE DEF tail
  <2>4. CASE /\ persist_pending' = queue
             /\ pending_log' = IF tail THEN <<>> ELSE pending_log
             /\ UNCHANGED <<produced, open, birth, promised>>
    <3>1. Kept
      BY <2>2, <2>4, TransferKeeps DEF IInv
    <3> QED
      BY <2>0, <2>4, <3>1, KeptIsEnough
  <2> QED
    BY <2>1, <2>3, <2>4
<1>2. CASE SpawnReadsCheckpoint
  BY <1>2, NothingMoves DEF SpawnReadsCheckpoint, pty, IInv, Targets
<1>3. CASE SpawnOpens
  BY <1>3 DEF SpawnOpens, IInv, Queues, Targets, NothingFallsBetweenQueues
<1>4. CASE Crash
  <2>1. Targets'
    BY <1>4 DEF Crash, Idle, Targets
  <2> QED
    BY <1>4, <2>1, DropKeeps DEF Crash, IInv, Queues
<1> QED
  BY <1>1, <1>2, <1>3, <1>4

LEMMA PumpKeeps == ASSUME IInv, PumpStep PROVE IInv'
<1> USE DEF disk, tty, session, pump, handler
<1>1. CASE PumpOutput
  <2>1. Kept
    <3>1. CASE UNCHANGED <<pty, session>>
      BY <1>1, <3>1 DEF PumpOutput, pty, Kept, Held, IInv, Queues
    <3>2. ASSUME NEW closer \in BOOLEAN, BeginCapture("pump", retirement, closer) PROVE Kept
      BY <1>1, <3>2, CaptureKeeps DEF PumpOutput, IInv
    <3>3. ASSUME NEW retry \in BOOLEAN, NEW refused \in BOOLEAN, NEW metadata \in BOOLEAN,
                 PumpSession(retry, refused, metadata)
          PROVE  Kept
      BY <1>1, <3>3, PumpSessionKeeps DEF PumpOutput, IInv
    <3> QED
      BY <1>1, <3>1, <3>2, <3>3 DEF PumpOutput
  <2>2. Targets'
    BY <1>1 DEF PumpOutput, IInv, Targets
  <2>3. UNCHANGED <<produced, birth, open>>
    BY <1>1 DEF PumpOutput
  <2> QED
    BY <2>1, <2>2, <2>3, KeptIsEnough
<1>2. CASE TakeTargets
  <2>1. PICK retry, refused \in BOOLEAN : TakeCheckpoint(retry, refused)
    BY <1>2 DEF TakeTargets
  <2>2. Kept
    <3>1. CASE UNCHANGED <<pending_log, persist_pending>>
      BY <1>2, <3>1 DEF TakeTargets, Kept, Held, IInv, Queues
    <3>2. CASE Ingest(Len(pending_log))
      <4>1. Len(pending_log) \in 0..Len(pending_log)
        BY DEF IInv, Queues
      <4> QED
        BY <1>2, <3>2, <4>1, IngestKeeps DEF TakeTargets, IInv
    <3> QED
      BY <2>1, <3>1, <3>2 DEF TakeCheckpoint, Refuse
  <2>3. scrollback_target' # None => scrollback_target'.count \in Nat
    <3>1. Len(persist_pending') \in Nat
      BY <2>2 DEF Kept
    <3> QED
      BY <2>1, <3>1 DEF TakeCheckpoint, IInv, Targets
  <2>4. incremental_target' # None => incremental_target'.frames \in Seq(Nat)
    BY <1>2, <2>2 DEF TakeTargets, Kept
  <2>5. Targets'
    BY <1>2, <2>3, <2>4 DEF TakeTargets, IInv, Targets
  <2> QED
    BY <1>2, <2>2, <2>5, KeptIsEnough DEF TakeTargets
<1>3. CASE SaveCheckpoint \/ RotateLog
  <2>1. Targets'
    BY <1>3 DEF SaveCheckpoint, RotateLog, WriterOnly, IInv, Targets
  <2> QED
    BY <1>3, <2>1, NothingMoves DEF SaveCheckpoint, RotateLog, WriterOnly, pty
<1>4. CASE ResetStaleLog \/ AppendBatch
  <2>1. pc = "append" /\ Len(incremental_target.frames) \in Nat
    BY <1>4 DEF ResetStaleLog, AppendBatch, IInv, Targets
  <2>2. Targets'
    BY <1>4, <2>1 DEF ResetStaleLog, AppendBatch, AbandonAppend, WriterOnly, IInv, Targets
  <2> QED
    BY <1>4, <2>2, NothingMoves DEF ResetStaleLog, AppendBatch, WriterOnly, pty
<1>5. CASE CompactCheckpoint \/ CompactLog
  <2>1. Targets'
    BY <1>5 DEF CompactCheckpoint, CompactLog, WriterOnly, IInv, Targets
  <2> QED
    BY <1>5, <2>1, NothingMoves DEF CompactCheckpoint, CompactLog, WriterOnly, pty
<1>6. CASE AcknowledgeCheckpoint
  <2>1. Kept
    BY <1>6, AcknowledgeKeeps DEF AcknowledgeCheckpoint, pty, IInv, Targets
  <2>2. Targets'
    BY <1>6 DEF AcknowledgeCheckpoint, Idle, IInv, Targets
  <2> QED
    BY <1>6, <2>1, <2>2, KeptIsEnough DEF AcknowledgeCheckpoint
<1>7. CASE AcknowledgeAppend
  <2>1. Kept
    BY <1>7, AcknowledgeKeeps DEF AcknowledgeAppend, pty, IInv, Targets
  <2>2. Targets'
    BY <1>7 DEF AcknowledgeAppend, Idle, IInv, Targets
  <2> QED
    BY <1>7, <2>1, <2>2, KeptIsEnough DEF AcknowledgeAppend
<1>8. CASE FinishRound
  <2>1. Kept
    <3>1. ASSUME NEW closer \in BOOLEAN, BeginCapture("kill", retirement, closer) PROVE Kept
      BY <1>8, <3>1, CaptureKeeps DEF FinishRound, IInv
    <3>2. CASE UNCHANGED <<persist_pending, pending_log>>
      BY <1>8, <3>2 DEF FinishRound, Kept, Held, IInv, Queues
    <3> QED
      BY <1>8, <3>1, <3>2 DEF FinishRound
  <2>2. Targets'
    BY <1>8 DEF FinishRound, IInv, Targets
  <2> QED
    BY <1>8, <2>1, <2>2, KeptIsEnough DEF FinishRound
<1> QED
  BY <1>1, <1>2, <1>3, <1>4, <1>5, <1>6, <1>7, <1>8 DEF PumpStep

(* Nothing the terminal printed falls between the reader's log, the        *)
(* daemon's queue and the disk (NothingFallsBetweenQueues).                *)
LEMMA QueuesInductive == Spec => []IInv
<1>1. Init => IInv
  BY DEF Init, IInv, Queues, Targets, NothingFallsBetweenQueues, Idle
<1>2. IInv /\ [Next]_vars => IInv'
  <2> SUFFICES ASSUME IInv, [Next]_vars PROVE IInv'
    OBVIOUS
  <2>1. CASE UNCHANGED vars
    BY <2>1, NothingMoves DEF vars, tty, pty, session, pump, IInv, Targets
  <2> QED
    BY <2>1, PtyKeeps, ClientKeeps, SessionKeeps, PumpKeeps DEF Next
<1> QED
  BY <1>1, <1>2, PTL DEF Spec

THEOREM OutputIsHeld == Spec => []NothingFallsBetweenQueues
<1>1. IInv => NothingFallsBetweenQueues
  BY DEF IInv
<1> QED
  BY <1>1, QueuesInductive, PTL

(* TerminationAfterDurablePrefix: the drain, and with it the termination   *)
(* of the child, begins only after everything read up to the pause has     *)
(* been acknowledged by the disk (begin_retirement_drain).                 *)
LEMMA DrainStep ==
    ASSUME IInv, [Next]_vars, retirement' = "draining", retirement # "draining"
    PROVE  (birth + 1)..produced \subseteq
               promised \cup (IF retirement = "captured" THEN Range(pending_log) ELSE {})
<1> DEFINE Done == (birth + 1)..produced \subseteq
               promised \cup (IF retirement = "captured" THEN Range(pending_log) ELSE {})
<1>1. ASSUME NEW caller, NEW phase, NEW closer \in BOOLEAN,
             BeginCapture(caller, phase, closer), open, promised' = promised,
             phase = IF retirement = "none" THEN "requested" ELSE retirement
      PROVE  Done
  <2>1. /\ persist_pending = <<>>
        /\ phase # "captured" => pending_log = <<>>
    BY <1>1, CaptureKeeps DEF IInv
  <2>2. phase = "captured" => retirement = "captured"
    BY <1>1
  <2>3. \A u \in (birth + 1)..produced :
            u \in Range(pending_log) \cup Range(persist_pending) \cup promised
    BY <1>1 DEF IInv, NothingFallsBetweenQueues
  <2>4. Range(persist_pending) = {} /\ (pending_log = <<>> => Range(pending_log) = {})
    BY <2>1 DEF Range
  <2> QED
    BY <2>1, <2>2, <2>3, <2>4
<1>2. CASE Kill
  BY <1>1, <1>2 DEF Kill
<1>3. CASE PumpOutput
  BY <1>1, <1>3 DEF PumpOutput, session
<1>4. CASE FinishRound
  BY <1>1, <1>4 DEF FinishRound
<1>5. CASE FinishCapture
  BY <1>5 DEF FinishCapture, CloseSession, DropSession
<1>6. CASE ChildWrites \/ ChildExits \/ Settle \/ ReaderStep \/ ReadFails
  BY <1>6 DEF ChildWrites, ChildExits, Settle, ReaderStep, ReaderBegins, ReadData,
              ReadNothing, ReadFails, session
<1>7. CASE Attach \/ \E changed \in BOOLEAN : Resize(changed)
  BY <1>7 DEF Attach, Resize
<1>8. CASE SpawnReadsCheckpoint \/ SpawnOpens \/ Crash
  BY <1>8 DEF SpawnReadsCheckpoint, SpawnOpens, Crash, DropSession, session
<1>9. CASE \/ TakeTargets \/ SaveCheckpoint \/ RotateLog \/ AcknowledgeCheckpoint
           \/ ResetStaleLog \/ AppendBatch \/ CompactCheckpoint \/ CompactLog
           \/ AcknowledgeAppend
  BY <1>9 DEF TakeTargets, SaveCheckpoint, RotateLog, AcknowledgeCheckpoint, ResetStaleLog,
              AppendBatch, CompactCheckpoint, CompactLog, AcknowledgeAppend, WriterOnly, session
<1>10. CASE UNCHANGED vars
  BY <1>10 DEF vars, session
<1> QED
  BY <1>2, <1>3, <1>4, <1>5, <1>6, <1>7, <1>8, <1>9, <1>10 DEF Next, ClientStep, PumpStep

THEOREM PrefixIsDurable == Spec => TerminationAfterDurablePrefix
<1>1. IInv /\ [Next]_vars =>
        [retirement' = "draining" /\ retirement # "draining"
          => (birth + 1)..produced \subseteq
                promised \cup (IF retirement = "captured" THEN Range(pending_log) ELSE {})]_vars
  BY DrainStep
<1> QED
  BY <1>1, QueuesInductive, PTL DEF Spec, TerminationAfterDurablePrefix
=============================================================================
