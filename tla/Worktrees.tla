----------------------------- MODULE Worktrees -----------------------------
(***************************************************************************)
(* Archiving and restoring the worktrees of a repository                   *)
(* (src/src/orchestration/worktree_archive.rs, worktree_removal_safety.rs, *)
(* the listing and the WorktreeOps worker of code_diff.rs, and the         *)
(* worktree section of src/src/app/code_review_ui.rs).                     *)
(*                                                                         *)
(* The review lists the worktrees; archiving one moves its directory, with *)
(* every uncommitted file, to the archive of the repository, and restoring *)
(* moves it back.  A record written before the move says where it came     *)
(* from.  The jobs run on a worker, one at a time, from a queue, with the  *)
(* terminals that were open when the job was asked for.  The app may stop  *)
(* between any two steps of a job.                                         *)
(***************************************************************************)
EXTENDS Naturals, SequencesExt

CONSTANTS
    MaxTrees,     \* worktrees ever added
    MaxJobs,      \* jobs ever asked for
    MaxFailures,  \* git commands that fail
    MaxCrashes    \* times the app stops

\* Paths: two of the managed directory, the second inside the first (an agent
\* launched in a worktree gets its own inside it), and one of the user; the
\* archive gives every move a name of its own.
User == <<"user">>
Managed == {<<"wt", "agent">>, <<"wt", "agent", "inner">>}
Slot(n) == <<"archive", <<"z1", "z2", "z3", "z4">>[n]>>

VARIABLES
    where,     \* the path of a worktree, with all its files; <<>> before it is added
    known,     \* the path git has for it
    late,      \* ghost: worktrees added in one a job was moving, or where it moves to
    live,      \* paths where a terminal is open
    records,   \* ArchiveRecord files
    listed,    \* the worktrees the review shows
    jobs,      \* the worker's queue
    asked,     \* jobs asked for so far
    worker,    \* the step of the job at the head of the queue
    outcomes,  \* results the frame has not polled
    failures, crashes

vars == <<where, known, late, live, records, listed, jobs, asked, worker, outcomes,
          failures, crashes>>

Idle == [step |-> "idle", from |-> User, to |-> User]

Trees == 1 .. MaxTrees

Init ==
    /\ where = [t \in Trees |-> IF t = 1 THEN User ELSE <<>>] /\ known = where /\ late = {}
    /\ live = {} /\ records = {} /\ listed = {}
    /\ jobs = <<>> /\ asked = 0 /\ worker = Idle /\ outcomes = <<>>
    /\ failures = 0 /\ crashes = 0

Added == {t \in Trees : where[t] # <<>>}

\* A linked worktree: its directory and git name each other.
Linked == {where[t] : t \in {u \in Added : known[u] = where[u]}}

Exists(p) == \E t \in Added : IsPrefix(p, where[t])

\* is_managed_worktree
IsManaged(p) == p[1] = "wt" /\ Exists(p)

\* original_for: the record of an archived worktree, if the directory it names
\* can still be reached.
OriginalFor(p) == {r.original : r \in {x \in records : x.archived = p /\ Exists(p)
                       /\ (Len(x.original) > 2 => Exists(Front(x.original)))}}

\* list_git_worktrees
ListGitWorktrees ==
    {[place |-> p, managed |-> IsManaged(p), from |-> OriginalFor(p)] : p \in {known[t] : t \in Added}}

(***************************************************************************)
(* The user, the agents and the review.                                    *)
(***************************************************************************)
\* An agent's launch creates a worktree at a free path, on another thread.
AddWorktree(t, p) ==
    /\ where[t] = <<>> /\ t - 1 \in Added /\ ~Exists(p) /\ p \notin {known[u] : u \in Added}
    /\ Len(p) > 2 => Exists(Front(p))
    /\ where' = [where EXCEPT ![t] = p] /\ known' = [known EXCEPT ![t] = p]
    /\ late' = IF worker.step # "idle" /\ (IsPrefix(worker.from, p) \/ p = worker.to) THEN late \cup {t} ELSE late
    /\ UNCHANGED <<live, records, listed, jobs, asked, worker, outcomes, failures, crashes>>

OpenTerminal(p) ==
    /\ p \notin live /\ live' = live \cup {p}
    /\ UNCHANGED <<where, known, late, records, listed, jobs, asked, worker, outcomes,
                   failures, crashes>>

CloseTerminal(p) ==
    /\ p \in live /\ live' = live \ {p}
    /\ UNCHANGED <<where, known, late, records, listed, jobs, asked, worker, outcomes,
                   failures, crashes>>

Ask(job) ==
    /\ asked < MaxJobs /\ asked' = asked + 1 /\ jobs' = Append(jobs, job)
    /\ UNCHANGED <<where, known, late, live, records, listed, worker, outcomes, failures, crashes>>

\* poll_diff_loader, once the diff is there.
RequestList == Ask([kind |-> "list", n |-> asked + 1, place |-> User, live |-> {}])

\* queue_worktree_move, from a row of the list: the terminals open now.
RequestArchive(row) ==
    row.managed /\ Ask([kind |-> "archive", n |-> asked + 1, place |-> row.place, live |-> live])

RequestRestore(row) ==
    row.from # {} /\ Ask([kind |-> "restore", n |-> asked + 1, place |-> row.place, live |-> live])

(***************************************************************************)
(* The worker.                                                             *)
(***************************************************************************)
\* require_inactive: no terminal of the request in the directory.
Inactive(p, open) == ~\E q \in open : IsPrefix(p, q) /\ Exists(q)

\* Faulty variant, for mutation: the directory may hold another worktree.
MayMoveWhole(p, open) == p \in Linked /\ Inactive(p, open)

\* check_recursive_delete: a linked worktree, with none inside it.
MayMove(p, open) ==
    /\ p \in Linked /\ Inactive(p, open)
    /\ ~\E q \in {known[t] : t \in Added} : IsStrictPrefix(p, q) /\ Exists(q)

\* Faulty variant, for mutation: a worktree may be restored over another.
FreeToRestoreOver(original) == original[1] = "wt"

FreeToRestore(original) == ~Exists(original)

\* The end of a job: its outcome carries a new list.
Finished(error) ==
    /\ outcomes' = Append(outcomes, [list |-> ListGitWorktrees', error |-> error])
    /\ jobs' = Tail(jobs) /\ worker' = Idle

\* archive: its checks.
StartArchive(job) ==
    /\ job.kind = "archive"
    /\ IF IsManaged(job.place) /\ MayMove(job.place, job.live)
       THEN /\ worker' = [step |-> "record", from |-> job.place, to |-> Slot(job.n)]
            /\ UNCHANGED <<jobs, outcomes>>
       ELSE Finished(TRUE)

\* restore: its checks.
StartRestore(job) ==
    /\ job.kind = "restore"
    /\ LET original == OriginalFor(job.place)
       IN  IF original # {} /\ (\A o \in original : FreeToRestore(o)) /\ MayMove(job.place, job.live)
           THEN /\ worker' = [step |-> "move", from |-> job.place, to |-> CHOOSE o \in original : TRUE]
                /\ UNCHANGED <<jobs, outcomes>>
           ELSE Finished(TRUE)

\* run_worktree_job
StartJob ==
    /\ jobs # <<>> /\ worker.step = "idle"
    /\ UNCHANGED <<where, known, late, live, records, listed, asked, failures, crashes>>
    /\ \/ Head(jobs).kind = "list" /\ Finished(FALSE)
       \/ StartArchive(Head(jobs)) \/ StartRestore(Head(jobs))

\* Faulty variant, for mutation: no record is written before the move.
RecordNothing ==
    /\ worker.step = "record" /\ worker' = [worker EXCEPT !.step = "move"]
    /\ UNCHANGED <<where, known, late, live, records, listed, jobs, asked, outcomes, failures, crashes>>

\* write_durable of the record.
Record ==
    /\ worker.step = "record" /\ worker' = [worker EXCEPT !.step = "move"]
    /\ records' = records \cup {[archived |-> worker.to, original |-> worker.from]}
    /\ UNCHANGED <<where, known, late, live, listed, jobs, asked, outcomes, failures, crashes>>

\* git worktree move: the directory and what is inside it; into the target when
\* that is a directory by now.  Git learns the new path of this worktree only.
GitMove(from, to) ==
    LET target == IF Exists(to) THEN Append(to, Last(from)) ELSE to
    IN  /\ where' = [t \in Trees |-> IF t \in Added /\ IsPrefix(from, where[t])
                                     THEN target \o SubSeq(where[t], Len(from) + 1, Len(where[t]))
                                     ELSE where[t]]
        /\ known' = [t \in Trees |-> IF where[t] = from THEN target ELSE known[t]]

Move ==
    /\ worker.step = "move"
    /\ UNCHANGED <<late, live, records, listed, asked, crashes>>
    /\ \/ /\ GitMove(worker.from, worker.to) /\ UNCHANGED failures
          /\ IF worker.to[1] = "archive" THEN Finished(FALSE)
             ELSE worker' = [worker EXCEPT !.step = "forget"] /\ UNCHANGED <<jobs, outcomes>>
       \/ /\ failures < MaxFailures /\ failures' = failures + 1 /\ UNCHANGED <<where, known>>
          /\ Finished(TRUE)

\* remove_file of the record, after a restore.
Forget ==
    /\ worker.step = "forget"
    /\ records' = {r \in records : r.archived # worker.from}
    /\ UNCHANGED <<where, known, late, live, listed, asked, failures, crashes>>
    /\ Finished(FALSE)

\* poll_worktree_ops
PollWorktreeOps ==
    /\ outcomes # <<>> /\ outcomes' = <<>> /\ listed' = outcomes[Len(outcomes)].list
    /\ UNCHANGED <<where, known, late, live, records, jobs, asked, worker, failures, crashes>>

\* The app stops: the queue is gone, the files are what they are.
Crash ==
    /\ crashes < MaxCrashes /\ crashes' = crashes + 1
    /\ live' = {} /\ listed' = {} /\ jobs' = <<>> /\ worker' = Idle /\ outcomes' = <<>>
    /\ UNCHANGED <<where, known, late, records, asked, failures>>

Next ==
    \/ \E t \in Trees \ {1}, p \in Managed : AddWorktree(t, p)
    \/ \E p \in Linked : OpenTerminal(p)
    \/ \E p \in live : CloseTerminal(p)
    \/ RequestList
    \/ \E row \in listed : RequestArchive(row) \/ RequestRestore(row)
    \/ StartJob \/ Record \/ Move \/ Forget \/ PollWorktreeOps
    \/ Crash

Spec == Init /\ [][Next]_vars

(***************************************************************************)
(* Properties.                                                             *)
(***************************************************************************)
\* "Neither archival nor restore deletes source files": no two worktrees ever
\* share a path, whatever was archived, restored or created in its place
\* meanwhile and wherever a job stopped; the user's own worktree never moves;
\* what is in the archive has the record that lets it be restored; a restored
\* worktree is back at a path of its own, not inside what took its place; and
\* git loses sight of none.  Only a worktree added between the checks of a job
\* and its move escapes the last two.
WorktreesAreKept ==
    /\ \A t, u \in Added : where[t] = where[u] => t = u
    /\ where[1] = User
    /\ \A t \in Added : where[t][1] = "archive" /\ Len(where[t]) = 2
            => \E r \in records : r.archived = where[t] /\ r.original[1] = "wt"
    /\ \A t \in Added \ late : known[t] = where[t]
    /\ late = {} => \A t \in Added : where[t][1] = "wt" => where[t] \in Managed
=============================================================================
