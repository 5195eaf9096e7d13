------------------------------ MODULE MCFiles -------------------------------
(* What is written and read back, for TLC: durable files, the history of   *)
(* local terminals, worktrees, the diff and the notes of a review,         *)
(* exports, updates and the snapshot of a screen. The parts have nothing   *)
(* in common: part, chosen at the start, names the one a behaviour is of,  *)
(* and v1, v2, ... hold its variables, in the order of its module, so that *)
(* a run explores each part completely and no product of two.              *)
EXTENDS DurableWrite, Naturals, TLC

CONSTANTS
    MaxRuns, MaxReads, MaxFaults, MaxTrees, MaxJobs, MaxFailures, MaxCrashes, MaxOps,
    MaxReviews, MaxEdits, MaxNotes, Systems, MaxDownloads, Columns, Lines, MaxHistory,
    snapshotMaxOps, MaxExports, Repos, Settings, notesMaxEdits, MaxUnread, a, b

VARIABLES
    part,
    v1, v2, v3, v4, v5, v6, v7, v8, v9, v10, v11, v12, v13, v14, v15, v16

History == INSTANCE LocalHistory WITH
    run <- v1, reads <- v2, cell <- v3, reader <- v4, term <- v5, pending <- v6,
    replay <- v7, failed <- v8, restored <- v9, history <- v10, disk <- v11,
    save <- v12, retiring <- v13, journal <- v14, base <- v15, faults <- v16
Trees == INSTANCE Worktrees WITH
    where <- v1, known <- v2, late <- v3, live <- v4, records <- v5, listed <- v6,
    jobs <- v7, asked <- v8, worker <- v9, outcomes <- v10, failures <- v11,
    crashes <- v12
Diff == INSTANCE ReviewDiff WITH
    repo <- v1, worker <- v2, requests <- v3, results <- v4, review <- v5, notes <- v6,
    editing <- v7, reviews <- v8, edits <- v9, loaded <- v10
Update == INSTANCE Updates WITH
    os <- v1, st <- v2, cancel <- v3, job <- v4, files <- v5, sound <- v6, cmd <- v7,
    apps <- v8, code <- v9, live <- v10, unsaved <- v11, launched <- v12,
    downloads <- v13, crashes <- v14, since <- v15
Snapshot == INSTANCE TerminalSnapshot WITH
    term <- v1, ops <- v2, MaxOps <- snapshotMaxOps
Exports == INSTANCE ExportJobs WITH
    thread <- v1, jobs <- v2, results <- v3, sender <- v4, unavailable <- v5,
    active <- v6, window <- v7, asked <- v8, accepted <- v9, written <- v10,
    reported <- v11
Notes == INSTANCE ReviewNotes WITH
    review <- v1, edits <- v2, asks <- v3, failures <- v4, accepted <- v5, disk <- v6,
    pending <- v7, active <- v8, failedActive <- v9, completions <- v10,
    unavailable <- v11, errors <- v12, thread <- v13, starts <- v14, ui <- v15,
    typed <- v16, MaxEdits <- notesMaxEdits

writeVars == <<dir, tmp, possible, recent, writer, acked, damage, spoiled>>
mcvars == <<part, writeVars, v1, v2, v3, v4, v5, v6, v7, v8, v9, v10, v11, v12, v13, v14, v15, v16>>

after0 == <<v1, v2, v3, v4, v5, v6, v7, v8, v9, v10, v11, v12, v13, v14, v15, v16>>
after2 == <<v3, v4, v5, v6, v7, v8, v9, v10, v11, v12, v13, v14, v15, v16>>
after10 == <<v11, v12, v13, v14, v15, v16>>
after11 == <<v12, v13, v14, v15, v16>>
after12 == <<v13, v14, v15, v16>>
after15 == <<v16>>

\* A step of one part.
OfWrite(A) == part = "write" /\ A /\ UNCHANGED <<part, after0>>
OfHistory(A) == part = "history" /\ A /\ UNCHANGED <<part, writeVars>>
OfTrees(A) == part = "trees" /\ A /\ UNCHANGED <<part, after12, writeVars>>
OfDiff(A) == part = "diff" /\ A /\ UNCHANGED <<part, after10, writeVars>>
OfUpdates(A) == part = "updates" /\ A /\ UNCHANGED <<part, after15, writeVars>>
OfSnapshot(A) == part = "snapshot" /\ A /\ UNCHANGED <<part, after2, writeVars>>
OfExports(A) == part = "exports" /\ A /\ UNCHANGED <<part, after11, writeVars>>
OfNotes(A) == part = "notes" /\ A /\ UNCHANGED <<part, writeVars>>

\* The variables past the n-th are not used.
Unused(n) ==
    /\ n < 1 => v1 = 0
    /\ n < 2 => v2 = 0
    /\ n < 3 => v3 = 0
    /\ n < 4 => v4 = 0
    /\ n < 5 => v5 = 0
    /\ n < 6 => v6 = 0
    /\ n < 7 => v7 = 0
    /\ n < 8 => v8 = 0
    /\ n < 9 => v9 = 0
    /\ n < 10 => v10 = 0
    /\ n < 11 => v11 = 0
    /\ n < 12 => v12 = 0
    /\ n < 13 => v13 = 0
    /\ n < 14 => v14 = 0
    /\ n < 15 => v15 = 0
    /\ n < 16 => v16 = 0

MCInit ==
    \/ part = "write" /\ Init /\ Unused(0)
    \/ part = "history" /\ History!Init /\ Init /\ dir.main = None /\ ~recent
    \/ part = "trees" /\ Trees!Init /\ Unused(12) /\ Init /\ dir.main = None /\ ~recent
    \/ part = "diff" /\ Diff!Init /\ Unused(10) /\ Init /\ dir.main = None /\ ~recent
    \/ part = "updates" /\ Update!Init /\ Unused(15) /\ Init /\ dir.main = None /\ ~recent
    \/ part = "snapshot" /\ Snapshot!Init /\ Unused(2) /\ Init /\ dir.main = None /\ ~recent
    \/ part = "exports" /\ Exports!Init /\ Unused(11) /\ Init /\ dir.main = None /\ ~recent
    \/ part = "notes" /\ Notes!Init /\ Init /\ dir.main = None /\ ~recent

MCNext ==
    \/ OfWrite(Next)
    \/ OfHistory(History!Next)
    \/ OfTrees(Trees!Next)
    \/ OfDiff(Diff!Next)
    \/ OfUpdates(Update!Next)
    \/ OfSnapshot(Snapshot!Next)
    \/ OfExports(Exports!Next)
    \/ OfNotes(Notes!Next)

MCSpec == MCInit /\ [][MCNext]_mcvars
-----------------------------------------------------------------------------
\* terminal/pty.rs, worktree_archive.rs and app/preferences_worker.rs: what
\* local terminals printed, what worktrees hold and what the user wrote about a
\* review is kept.
WorkIsKept ==
    /\ part = "history" => History!OutputIsKept
    /\ part = "trees" => Trees!WorktreesAreKept
    /\ part = "notes" => Notes!NotesAreKept

\* update_install.rs: an update is installed whole or not at all.
UpdatesAreSafe == part = "updates" => Update!UpdatesAreSafe

\* orchestration/code_diff.rs, terminal/export.rs and export_worker.rs: what is
\* shown again is what was there, and every export is told of once.
CopiesAreExact ==
    /\ part = "diff" => Diff!ReviewIsExact
    /\ part = "snapshot" => Snapshot!SnapshotsAreFaithful
    /\ part = "exports" => Exports!ExportsAreAccounted
=============================================================================
