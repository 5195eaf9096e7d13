----------------------------- MODULE MCEndings ------------------------------
(* What has to end well after a failure, for TLC: the upgrade of the       *)
(* memory, the retirement of a session in the daemon, the profile of the   *)
(* app that owns it, the recovery queue of the terminals and the review    *)
(* notes. The parts have nothing in common: part, chosen at the start,     *)
(* names the one a behaviour is of, and v1, v2, ... hold its variables, in *)
(* the order of its module, so that a run explores each part completely    *)
(* and no product of two.                                                  *)
EXTENDS MemoryCutover, Naturals, TLC

CONSTANTS
    None, MaxOutput, AltUnits, GenModulus, MaxText, HighWater, AltLogFrames,
    MaxLogFrames, MaxSessions, MaxFaults, RollbackMayFail, RespawnDuringWrite, Insts,
    Panels, Old, MaxRev, MaxOut, Overlap, MaxLeases, MaxResizes, MaxLosses,
    QueueCapacity, Repos, Settings, MaxEdits, MaxReviews, MaxFailures, MaxUnread, i1,
    p1, p2

VARIABLES
    part,
    v1, v2, v3, v4, v5, v6, v7, v8, v9, v10, v11, v12, v13, v14, v15, v16, v17, v18,
    v19, v20, v21, v22, v23, v24, v25, v26, v27, v28

Daemon == INSTANCE DaemonPersistence WITH
    ckpt <- v1, log <- v2, produced <- v3, unread <- v4, child <- v5, settled <- v6,
    reader <- v7, grid <- v8, poisoned <- v9, alternate <- v10, pending_log <- v11,
    open <- v12, sid <- v13, birth <- v14, persist_pending <- v15,
    scrollback_dirty <- v16, was_alternate <- v17, live_repair <- v18,
    retirement <- v19, pc <- v20, due <- v21, scrollback_target <- v22,
    incremental_target <- v23, outcome <- v24, capture <- v25, loading <- v26,
    promised <- v27, faults <- v28
Profile == INSTANCE ProfileSaving WITH
    marker <- v1, lock <- v2, layout <- v3, disk <- v4, app <- v5, worker <- v6,
    closed <- v7
Recovery == INSTANCE RemoteRecovery WITH
    lease <- v1, queue <- v2, stopping <- v3, worker <- v4, prefer <- v5, session <- v6,
    ui <- v7, daemon <- v8, losses <- v9
Notes == INSTANCE ReviewNotes WITH
    review <- v1, edits <- v2, asks <- v3, failures <- v4, accepted <- v5, disk <- v6,
    pending <- v7, active <- v8, failedActive <- v9, completions <- v10,
    unavailable <- v11, errors <- v12, thread <- v13, starts <- v14, ui <- v15,
    typed <- v16

cutoverVars == <<version, data, writers, pc, snapshot, backups, evidence, upgraded, crashes>>
mcvars == <<part, cutoverVars, v1, v2, v3, v4, v5, v6, v7, v8, v9, v10, v11, v12, v13, v14, v15, v16, v17,
            v18, v19, v20, v21, v22, v23, v24, v25, v26, v27, v28>>

after0 == <<v1, v2, v3, v4, v5, v6, v7, v8, v9, v10, v11, v12, v13, v14, v15, v16, v17,
           v18, v19, v20, v21, v22, v23, v24, v25, v26, v27, v28>>
after7 == <<v8, v9, v10, v11, v12, v13, v14, v15, v16, v17, v18, v19, v20, v21, v22,
           v23, v24, v25, v26, v27, v28>>
after9 == <<v10, v11, v12, v13, v14, v15, v16, v17, v18, v19, v20, v21, v22, v23, v24,
           v25, v26, v27, v28>>
after16 == <<v17, v18, v19, v20, v21, v22, v23, v24, v25, v26, v27, v28>>

\* A step of one part.
OfCutover(A) == part = "cutover" /\ A /\ UNCHANGED <<part, after0>>
OfRetirement(A) == part = "retirement" /\ A /\ UNCHANGED <<part, cutoverVars>>
OfOwner(A) == part = "owner" /\ A /\ UNCHANGED <<part, after7, cutoverVars>>
OfRecovery(A) == part = "recovery" /\ A /\ UNCHANGED <<part, after9, cutoverVars>>
OfNotes(A) == part = "notes" /\ A /\ UNCHANGED <<part, after16, cutoverVars>>

\* The variables past the n-th are not used.
Unused(n) ==
    /\ n < 1 => v1 = 0
    /\ n < 2 => v2 = 0
    /\ n < 3 => v3 = 0
    /\ n < 4 => v4 = 0
    /\ n < 5 => v5 = 0
    /\ n < 6 => v6 = 0
    /\ n < 7 => v7 = 0
    /\ n < 8 => v8 = 0
    /\ n < 9 => v9 = 0
    /\ n < 10 => v10 = 0
    /\ n < 11 => v11 = 0
    /\ n < 12 => v12 = 0
    /\ n < 13 => v13 = 0
    /\ n < 14 => v14 = 0
    /\ n < 15 => v15 = 0
    /\ n < 16 => v16 = 0
    /\ n < 17 => v17 = 0
    /\ n < 18 => v18 = 0
    /\ n < 19 => v19 = 0
    /\ n < 20 => v20 = 0
    /\ n < 21 => v21 = 0
    /\ n < 22 => v22 = 0
    /\ n < 23 => v23 = 0
    /\ n < 24 => v24 = 0
    /\ n < 25 => v25 = 0
    /\ n < 26 => v26 = 0
    /\ n < 27 => v27 = 0
    /\ n < 28 => v28 = 0

MCInit ==
    \/ part = "cutover" /\ Init /\ Unused(0)
    \/ part = "retirement" /\ Daemon!Init /\ Init /\ version = 1
    \/ part = "owner" /\ Profile!Init /\ Unused(7) /\ Init /\ version = 1
    \/ part = "recovery" /\ Recovery!Init /\ Unused(9) /\ Init /\ version = 1
    \/ part = "notes" /\ Notes!Init /\ Unused(16) /\ Init /\ version = 1

MCNext ==
    \/ OfCutover(Next)
    \/ OfRetirement(Daemon!Next)
    \/ OfOwner(Profile!Next)
    \/ OfRecovery(Recovery!Next)
    \/ OfNotes(Notes!Next)

\* The fairness of each part, as its own module states it.  A behaviour is of one
\* part, so one condition can speak of an action of each.
MCFairness ==
    /\ WF_mcvars(
          \/ OfRetirement(Daemon!FinishCapture)
          \/ OfOwner(Profile!Poll(i1))
          \/ OfRecovery(Recovery!Worker)
          \/ OfNotes(Notes!Thread))
    /\ WF_mcvars(
          \/ OfRetirement(Daemon!ReaderStep)
          \/ OfOwner(Profile!AutosaveState(i1))
          \/ OfRecovery(\E g \in Recovery!Leases : Recovery!CleanupDue(g))
          \/ OfNotes(Notes!Barrier))
    /\ WF_mcvars(
          \/ OfRetirement(Daemon!Settle)
          \/ OfOwner(Profile!AutosaveScrollback(i1))
          \/ OfRecovery(Recovery!Notice \/ Recovery!QueueRemoteRecovery(TRUE) \/ Recovery!QueueAttachedResize))
    /\ WF_mcvars(
          \/ OfRetirement(Daemon!DrainedChildExits)
          \/ OfOwner(Profile!Closing(i1)))
    /\ WF_mcvars(OfOwner(Profile!WorkerNext(i1)))
    /\ SF_mcvars(
          \/ OfRetirement(Daemon!PumpStep)
          \/ OfOwner(Profile!RunState(i1, TRUE))
          \/ OfRecovery(Recovery!CloseSucceeds))
    /\ SF_mcvars(OfOwner(Profile!RunIncremental(i1, Panels, {})))

MCSpec == MCInit /\ [][MCNext]_mcvars /\ MCFairness
-----------------------------------------------------------------------------
\* state/persistence.rs: a saved history is replaced only by one that has it,
\* and the marker of the run goes only after everything is saved.
SavedIsKept ==
    [][part = "owner" => Profile!HistoryStays /\ Profile!EndsSaved]_mcvars

\* state/persistence.rs: what is edited, and what terminals print, is saved.
\* (No action prefers a panel: what holds of p1 holds of p2.)
WaitsForSave(n) ==
    /\ part = "owner"
    /\ \/ n = 0 /\ Profile!EditWaits(i1)
       \/ n = 1 /\ Profile!OutputWaits(i1, p1)
SaveIsDone(n) ==
    /\ part = "owner"
    /\ \/ n = 0 /\ Profile!EditIsSaved(i1)
       \/ n = 1 /\ Profile!OutputIsDurable(i1, p1)
WorkIsSaved == \A n \in 0..1 : WaitsForSave(n) ~> SaveIsDone(n)

\* state/persistence.rs, daemon/server.rs, runtime/pty_manager.rs and
\* preferences_worker.rs: closing a workspace or the window returns, a session
\* that retires is retired, a close is confirmed, and the barrier returns.
Closes(n) ==
    \/ part = "owner" /\ n = 1 /\ Profile!ClosesWorkspace(i1)
    \/ part = "owner" /\ n = 2 /\ Profile!ClosesWindow(i1)
    \/ part = "retirement" /\ n = 1 /\ Daemon!IsRetiring
    \/ part = "recovery" /\ Recovery!Unconfirmed(n)
    \/ part = "notes" /\ n = 1 /\ Notes!InBarrier
Returns(n) ==
    \/ part = "owner" /\ n = 1 /\ Profile!IsBackOrDead(i1)
    \/ part = "owner" /\ n = 2 /\ Profile!IsDead(i1)
    \/ part = "retirement" /\ Daemon!IsRetired
    \/ part = "recovery" /\ Recovery!Confirmed(n)
    \/ part = "notes" /\ ~Notes!InBarrier
ClosingReturns == \A n \in 1..2 : Closes(n) ~> Returns(n)
=============================================================================
