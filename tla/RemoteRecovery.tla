--------------------------- MODULE RemoteRecovery ---------------------------
(***************************************************************************)
(* The recovery queue of the terminals (runtime/pty_manager.rs): the UI     *)
(* thread asks for a process behind a session identity, and one worker      *)
(* thread talks to the daemon, falls back to a process of its own when the  *)
(* daemon surely created nothing, and confirms the closing of what the user *)
(* closed.  The module follows ONE identity.  Every time the UI creates a   *)
(* session under it, it gets a new lease; the leases are numbered in order  *)
(* and the job of an old lease may still run when the next one exists.      *)
(*                                                                         *)
(* The daemon is external: a call to it may fail before anything is sent,   *)
(* be lost with or without effect, be refused, or succeed.                  *)
(***************************************************************************)
EXTENDS Integers, Sequences

CONSTANTS
    MaxLeases,      \* bound: sessions created under the identity
    MaxResizes,     \* bound: sizes the panel asks for after its first
    MaxLosses,      \* bound: times the daemon drops the connection
    QueueCapacity   \* REMOTE_QUEUE_CAPACITY

VARIABLES
    lease,      \* RemoteLease of every session created under the identity
    queue,      \* RemoteQueueState.ready
    stopping,   \* the queue was dropped
    worker,     \* what the recovery worker is doing
    prefer,     \* prefer_attach of the worker
    session,    \* ManagedSession and RemoteRecoveryState, lease 0 when absent
    ui,         \* where flush_pending_inputs stands
    daemon,     \* the daemon runs a process of this identity
    losses      \* connections lost so far

vars == <<lease, queue, stopping, worker, prefer, session, ui, daemon, losses>>

Unset == "none"
Leases == DOMAIN lease
Dims == 1 .. MaxResizes + 1

-----------------------------------------------------------------------------
(* Answers of the backend.                                                  *)

Failure(intent, safe, retryable, mayClose) ==
    [ok |-> FALSE, typed |-> TRUE, intent |-> intent, safe |-> safe,
     retryable |-> retryable, mayClose |-> mayClose]
Protected == Failure("adopt", FALSE, TRUE, TRUE)
BirthPending == Failure("birth", FALSE, TRUE, TRUE)
BirthRejected == Failure("birth", FALSE, FALSE, FALSE)
BeforeCreation == Failure("birth", TRUE, TRUE, FALSE)
\* An error the local factory returns as it is.
Untyped == [Failure("adopt", FALSE, FALSE, FALSE) EXCEPT !.typed = FALSE]
Handle(where, owned) == [ok |-> TRUE, at |-> where, owned |-> owned]

\* The answers to a Spawn, with the daemon as it is afterwards.  The creation
\* is idempotent for the identity.
SpawnAnswers ==
    {<<Handle("remote", TRUE), TRUE>>, <<BirthPending, TRUE>>, <<BirthPending, daemon>>,
     <<BirthRejected, daemon>>}
\* recover_remote: an adoption asks for the screen first, and only spawns when
\* the daemon lists no such session.
Answers(intent) ==
    CASE intent = "birth" -> {<<BeforeCreation, daemon>>, <<Protected, daemon>>} \cup SpawnAnswers
      [] intent = "adopt" /\ daemon -> {<<Protected, TRUE>>, <<Handle("remote", FALSE), TRUE>>}
      [] OTHER -> {<<Protected, FALSE>>} \cup SpawnAnswers

NormalizedForgetful(l, r) == r
\* normalize_birth_uncertainty: once a birth may have happened, no later
\* answer makes it safe to create the process elsewhere.
Normalized(l, r) ==
    IF r.ok \/ ~l.mayHaveSpawned THEN r
    ELSE [r EXCEPT !.safe = FALSE, !.intent = "birth", !.mayClose = @ \/ l.mayClose]
MaySpawned(l, r) ==
    l.mayHaveSpawned
        \/ IF r.ok THEN r.owned ELSE r.intent = "birth" /\ ~r.safe /\ (r.retryable \/ r.mayClose)

-----------------------------------------------------------------------------
(* Leases.                                                                  *)

NewLease(fresh) ==
    [retired |-> "live", pending |-> FALSE, localOnly |-> FALSE, mayClose |-> ~fresh,
     attempted |-> FALSE, mayHaveSpawned |-> FALSE, shut |-> FALSE, birth |-> fresh,
     desired |-> 1, applied |-> 0, done |-> <<>>, barrier |-> FALSE,
     due |-> TRUE,   \* cleanup_after is past
     \* the lease's own process: none, alive, retained for the closer,
     \* handed to it, or dropped without it
     local |-> Unset]

CleanupEligible(l) == l.mayClose \/ ~l.attempted \/ l.localOnly
NoCleanupPending == FALSE
CleanupPending == \E g \in Leases : lease[g].barrier /\ lease[g].retired = "closed"
Cleaning(l) == l.retired = "closed" /\ CleanupEligible(l) /\ ~l.pending

\* RemoteQueue::submit.
Submits(g) == ~CleanupPending /\ ~stopping /\ Len(queue) < QueueCapacity
                 /\ lease[g].retired = "live" /\ ~lease[g].pending

DropLocal(l) == IF l.local = "alive" THEN [l EXCEPT !.local = "dropped"] ELSE l
\* retain_local_completion.
Retained(l, r) ==
    IF r.ok /\ r.at = "local"
    THEN [l EXCEPT !.localOnly = TRUE, !.local = "retained", !.retired = "closed"] ELSE l

-----------------------------------------------------------------------------
(* The UI thread.                                                           *)

NoSession == [lease |-> 0, fresh |-> FALSE, retryable |-> FALSE, handle |-> Unset,
              alive |-> FALSE, failed |-> FALSE]

Init == /\ lease = <<>> /\ queue = <<>> /\ stopping = FALSE
        /\ worker = [at |-> "idle"] /\ prefer = FALSE
        /\ session = NoSession /\ ui = "idle"
        /\ daemon \in BOOLEAN /\ losses = 0

Create(fresh) ==
    /\ ui = "idle" /\ ~stopping /\ session.lease = 0 /\ Len(lease) < MaxLeases
    /\ lease' = Append(lease, NewLease(fresh))
    /\ session' = [NoSession EXCEPT !.lease = Len(lease) + 1, !.fresh = fresh, !.retryable = TRUE]
\* spawn_pending: an identity nobody used before, so it comes first and
\* finds no process; the request is queued at once.
SpawnPending ==
    /\ Create(TRUE) /\ lease = <<>> /\ ~daemon
    /\ ui' = "submit"
    /\ UNCHANGED <<queue, stopping, worker, prefer, daemon, losses>>
\* create_detached_with_id: a restored panel keeps its identity.
CreateDetached ==
    /\ Create(FALSE)
    /\ UNCHANGED <<queue, stopping, worker, prefer, ui, daemon, losses>>

\* collect_remote_completions, which begins flush_pending_inputs and
\* attach_detached.
Collected(l, r) ==
    [session EXCEPT !.fresh = IF r.ok THEN FALSE ELSE r.typed /\ r.intent = "birth",
                    !.retryable = IF r.ok THEN @ ELSE r.typed /\ r.retryable,
                    !.failed = ~r.ok]
Resubmit(g, r) == [lease |-> g, kind |-> "prepared", intent |-> "adopt", result |-> r]
Publishes(l, c) == c.result.ok /\ c.dims = l.desired
Collect ==
    /\ ui = "idle" /\ session.lease # 0 /\ ui' = "collected"
    /\ LET g == session.lease
           l == [lease[g] EXCEPT !.done = <<>>]
           done == lease[g].done # <<>>
           c == lease[g].done[1]
       IN \/ ~done /\ UNCHANGED <<lease, queue, session>>
          \/ /\ done /\ Publishes(l, c)
             /\ lease' = [lease EXCEPT ![g] = l]
             /\ session' = [Collected(l, c.result) EXCEPT !.handle = c.result.at, !.alive = TRUE]
             /\ UNCHANGED queue
          \/ /\ done /\ ~c.result.ok
             /\ lease' = [lease EXCEPT ![g] = l]
             /\ session' = Collected(l, c.result)
             /\ UNCHANGED queue
          \/ /\ done /\ c.result.ok /\ ~Publishes(l, c)
             /\ session' = Collected(l, c.result)
             /\ IF Submits(g)
                THEN /\ queue' = Append(queue, Resubmit(g, c.result))
                     /\ lease' = [lease EXCEPT ![g] = [l EXCEPT !.pending = TRUE]]
                ELSE /\ lease' = [lease EXCEPT ![g] = DropLocal(l)]
                     /\ UNCHANGED queue
    /\ UNCHANGED <<stopping, worker, prefer, daemon, losses>>

\* The rest of flush_pending_inputs (and of attach_detached): a handle whose
\* connection is gone is forgotten, and queue_remote_recovery begins with the
\* pending flag.
Notice ==
    /\ ui = "collected"
    /\ LET gone == session.handle = "remote" /\ ~session.alive
           absent == session.handle = Unset \/ gone
           l == lease[session.lease]
       IN /\ session' = IF gone THEN [session EXCEPT !.handle = Unset] ELSE session
          /\ ui' = IF absent /\ session.retryable /\ ~l.pending THEN "submit" ELSE "resize"
    /\ UNCHANGED <<lease, queue, stopping, worker, prefer, daemon, losses>>
\* The completion is looked at after the flag; due is next_retry.
QueueRemoteRecovery(due) ==
    /\ ui = "submit" /\ ui' = "resize"
    /\ LET g == session.lease
           asks == due /\ lease[g].retired = "live" /\ lease[g].done = <<>>
           job == [lease |-> g, kind |-> "spawn",
                   intent |-> IF session.fresh THEN "birth" ELSE "adopt"]
       IN IF asks /\ Submits(g)
          THEN /\ queue' = Append(queue, job)
               /\ lease' = [lease EXCEPT ![g].pending = TRUE]
          ELSE UNCHANGED <<queue, lease>>
    /\ UNCHANGED <<stopping, worker, prefer, session, daemon, losses>>
\* queue_attached_resize ends the frame.
QueueAttachedResize ==
    /\ ui = "resize" /\ ui' = "idle"
    /\ LET g == session.lease
           wanted == session.handle # Unset /\ lease[g].applied # lease[g].desired
       IN IF wanted /\ Submits(g)
          THEN /\ queue' = Append(queue, [lease |-> g, kind |-> "resize"])
               /\ lease' = [lease EXCEPT ![g].pending = TRUE]
          ELSE UNCHANGED <<queue, lease>>
    /\ UNCHANGED <<stopping, worker, prefer, session, daemon, losses>>

\* set_desired_grid_size.
SetDesiredGridSize ==
    /\ ui = "idle" /\ session.lease # 0 /\ lease[session.lease].desired <= MaxResizes
    /\ lease' = [lease EXCEPT ![session.lease].desired = @ + 1]
    /\ ui' = "resize"
    /\ UNCHANGED <<queue, stopping, worker, prefer, session, daemon, losses>>

\* RemoteQueue::retire, under the lock that publication takes.
Retire(g, kill) ==
    LET held == session.handle = "local"
        l == [lease[g] EXCEPT !.localOnly = @ \/ held,
                              !.local = IF held THEN "retained" ELSE @,
                              !.retired = IF kill THEN "closed" ELSE "detached",
                              !.shut = TRUE, !.done = <<>>, !.barrier = kill]
    IN IF lease[g].done = <<>> THEN l ELSE Retained(l, lease[g].done[1].result)
\* close: the panel goes, a process in the daemon stays.
Close ==
    /\ ui = "idle" /\ session.lease # 0
    /\ lease' = [lease EXCEPT ![session.lease] =
                    Retire(session.lease, session.handle = "local")]
    /\ session' = NoSession
    /\ UNCHANGED <<queue, stopping, worker, prefer, ui, daemon, losses>>
\* close_and_kill_remote: refused while an ambiguous birth cannot be closed.
CloseAndKillRemote ==
    /\ ui = "idle" /\ session.lease # 0
    /\ session.handle = "local" \/ session.retryable \/ lease[session.lease].mayClose
    /\ lease' = [lease EXCEPT ![session.lease] = Retire(session.lease, TRUE)]
    /\ session' = NoSession
    /\ UNCHANGED <<queue, stopping, worker, prefer, ui, daemon, losses>>

\* The manager is dropped: every session is closed, then the queue.
DropManager ==
    /\ ui = "idle" /\ ~stopping
    /\ stopping' = TRUE /\ session' = NoSession
    /\ lease' = [g \in Leases |->
                    IF g = session.lease THEN Retire(g, session.handle = "local") ELSE lease[g]]
    /\ UNCHANGED <<queue, worker, prefer, ui, daemon, losses>>

-----------------------------------------------------------------------------
(* The worker thread.                                                       *)

Cleanups == {g \in Leases : Cleaning(lease[g])}
Closings == {g \in Cleanups : lease[g].due}
Idle == [at |-> "idle"]

\* The worker alternates between jobs and the closings that are due.
TakeJob ==
    /\ worker.at = "idle" /\ queue # <<>>
    /\ ~prefer => Closings = {}
    /\ worker' = [at |-> "start", job |-> Head(queue)]
    /\ queue' = Tail(queue) /\ prefer' = FALSE
    /\ UNCHANGED <<lease, stopping, session, ui, daemon, losses>>
TakeClosing(g) ==
    /\ worker.at = "idle" /\ g \in Closings
    /\ prefer => queue = <<>>
    /\ worker' = [at |-> "closing", lease |-> g]
    /\ prefer' = TRUE
    /\ UNCHANGED <<lease, queue, stopping, session, ui, daemon, losses>>
WorkerReturnsAtOnce ==
    /\ worker.at = "idle" /\ stopping /\ queue = <<>>
    /\ worker' = [at |-> "gone"]
    /\ UNCHANGED <<lease, queue, stopping, prefer, session, ui, daemon, losses>>
\* The worker of a dropped queue returns when nothing is left to confirm.
WorkerReturns ==
    /\ worker.at = "idle" /\ stopping /\ queue = <<>> /\ Cleanups = {}
    /\ worker' = [at |-> "gone"]
    /\ UNCHANGED <<lease, queue, stopping, prefer, session, ui, daemon, losses>>

\* perform_remote_job: a retired lease drops its job, and what it prepared.
Job == worker.job
Mine == lease[Job.lease]
StartJob ==
    /\ worker.at = "start"
    /\ LET g == Job.lease IN
       CASE Mine.retired # "live" ->
              /\ worker' = Idle
              /\ lease' = [lease EXCEPT ![g] =
                     [(IF Job.kind = "prepared" /\ Job.result.at = "local" THEN DropLocal(@) ELSE @)
                        EXCEPT !.pending = FALSE]]
         [] Mine.retired = "live" /\ Job.kind = "resize" ->
              /\ worker' = Idle
              /\ lease' = [lease EXCEPT ![g].applied = Mine.desired, ![g].pending = FALSE]
         [] Mine.retired = "live" /\ Job.kind = "prepared" ->
              /\ worker' = [at |-> "settle", job |-> Job, result |-> Job.result]
              /\ lease' = [lease EXCEPT ![g].mayHaveSpawned = MaySpawned(Mine, Job.result)]
         [] OTHER ->
              /\ worker' = [at |-> "asking", job |-> Job]
              /\ lease' = [lease EXCEPT ![g].attempted = TRUE]
    /\ UNCHANGED <<queue, stopping, prefer, session, ui, daemon, losses>>

\* The call to the daemon, and what its answer says of the birth.
Ask ==
    /\ worker.at = "asking"
    /\ \E answer \in Answers(Job.intent) :
         LET r == Normalized(Mine, answer[1])
             falls == ~r.ok /\ r.safe /\ Job.intent = "birth"
         IN /\ daemon' = answer[2]
            /\ lease' = [lease EXCEPT ![Job.lease].mayHaveSpawned = MaySpawned(Mine, r)]
            /\ worker' = [at |-> IF falls THEN "admit" ELSE "settle", job |-> Job, result |-> r]
    /\ UNCHANGED <<queue, stopping, prefer, session, ui, losses>>
\* admit_local_birth: a retirement shuts the admission for good.  A birth that
\* is not admitted was never attempted.
AdmitLocalBirth ==
    /\ worker.at = "admit"
    /\ IF Mine.retired = "live" /\ ~Mine.shut
       THEN /\ worker' = [worker EXCEPT !.at = "factory"]
            /\ lease' = [lease EXCEPT ![Job.lease].localOnly = TRUE]
       ELSE /\ worker' = [worker EXCEPT !.at = "settle"]
            /\ lease' = [lease EXCEPT ![Job.lease].attempted = FALSE]
    /\ UNCHANGED <<queue, stopping, prefer, session, ui, daemon, losses>>
\* spawn_local_handle, for as long as it takes.
LocalFactory ==
    /\ worker.at = "factory"
    /\ \E r \in {Handle("local", FALSE), Untyped} :
         /\ worker' = [worker EXCEPT !.at = "settle", !.result = r]
         /\ lease' = [lease EXCEPT ![Job.lease].local = IF r.ok THEN "alive" ELSE @]
    /\ UNCHANGED <<queue, stopping, prefer, session, ui, daemon, losses>>

\* What the result says goes into the lease; a handle gets the latest size.
Settled(l, r) ==
    CASE r.ok -> [l EXCEPT !.birth = r.owned, !.localOnly = r.at = "local", !.mayClose = TRUE,
                           !.applied = l.desired]
      [] ~r.ok /\ r.typed -> [l EXCEPT !.mayClose = r.mayClose, !.birth = @ \/ r.intent = "birth"]
      [] OTHER -> l
Settle ==
    /\ worker.at = "settle"
    /\ lease' = [lease EXCEPT ![Job.lease] = Settled(Mine, worker.result)]
    /\ worker' = [at |-> "publish", job |-> Job, result |-> worker.result, dims |-> Mine.desired]
    /\ UNCHANGED <<queue, stopping, prefer, session, ui, daemon, losses>>
PublishedLate(l, w) == [l EXCEPT !.done = <<[result |-> w.result, dims |-> w.dims]>>]
\* Publication and retirement share the completion's lock.
Published(l, w) ==
    IF l.retired = "live" THEN [l EXCEPT !.done = <<[result |-> w.result, dims |-> w.dims]>>]
    ELSE Retained(l, w.result)
Publish ==
    /\ worker.at = "publish"
    /\ lease' = [lease EXCEPT ![Job.lease] = Published(Mine, worker)]
    /\ worker' = [at |-> "clear", job |-> Job]
    /\ UNCHANGED <<queue, stopping, prefer, session, ui, daemon, losses>>
ClearPending ==
    /\ worker.at = "clear"
    /\ lease' = [lease EXCEPT ![Job.lease].pending = FALSE]
    /\ worker' = Idle
    /\ UNCHANGED <<queue, stopping, prefer, session, ui, daemon, losses>>

\* A closing is confirmed by the local closer, which takes the process over
\* (handoff_local_retirement), or by the daemon.
HandoffLocalRetirement(l) == [l EXCEPT !.local = IF @ = "retained" THEN "handed" ELSE @]
ClosesLocally(l) == l.localOnly \/ ~l.attempted
CloseSucceeds ==
    /\ worker.at = "closing" /\ worker' = Idle
    /\ LET l == lease[worker.lease] IN
         /\ lease' = [lease EXCEPT ![worker.lease] =
                [(IF ClosesLocally(l) THEN HandoffLocalRetirement(l) ELSE l)
                    EXCEPT !.retired = "detached"]]
         /\ daemon' = (daemon /\ ClosesLocally(l))
    /\ UNCHANGED <<queue, stopping, prefer, session, ui, losses>>
\* No authority or no room to retire it, no daemon, or its answer is lost.
CloseFails ==
    /\ worker.at = "closing" /\ worker' = Idle
    /\ LET l == lease[worker.lease] IN
         /\ ClosesLocally(l) => l.local = "retained"
         /\ daemon' \in IF ClosesLocally(l) THEN {daemon} ELSE {daemon, FALSE}
         /\ lease' = [lease EXCEPT ![worker.lease].due = FALSE]
    /\ UNCHANGED <<queue, stopping, prefer, session, ui, losses>>

\* REMOTE_CLOSE_RETRY has passed.
CleanupDue(g) ==
    /\ lease[g].retired = "closed" /\ ~lease[g].due
    /\ lease' = [lease EXCEPT ![g].due = TRUE]
    /\ UNCHANGED <<queue, stopping, worker, prefer, session, ui, daemon, losses>>

\* The daemon drops the connection of an attached panel, with or without
\* the process behind it.
LoseConnection ==
    /\ session.handle = "remote" /\ session.alive /\ losses < MaxLosses
    /\ losses' = losses + 1
    /\ session' = [session EXCEPT !.alive = FALSE]
    /\ daemon' \in {daemon, FALSE}
    /\ UNCHANGED <<lease, queue, stopping, worker, prefer, ui>>

-----------------------------------------------------------------------------
Ui == \/ SpawnPending \/ CreateDetached
      \/ Collect \/ Notice \/ (\E due \in BOOLEAN : QueueRemoteRecovery(due)) \/ QueueAttachedResize
      \/ SetDesiredGridSize \/ Close \/ CloseAndKillRemote \/ DropManager
Worker == \/ TakeJob
          \/ \E g \in Leases : TakeClosing(g)
          \/ WorkerReturns
          \/ StartJob \/ Ask \/ AdmitLocalBirth \/ LocalFactory \/ Settle \/ Publish \/ ClearPending
          \/ CloseSucceeds \/ CloseFails
Next == Ui \/ Worker \/ LoseConnection \/ \E g \in Leases : CleanupDue(g)

Spec == Init /\ [][Next]_vars
\* The worker never stops by itself, a frame runs to its end, and a closing
\* that is retried for ever is confirmed in the end.
Fairness == /\ WF_vars(Worker)
            /\ WF_vars(\E g \in Leases : CleanupDue(g))
            /\ WF_vars(Notice \/ QueueRemoteRecovery(TRUE) \/ QueueAttachedResize)
            /\ SF_vars(CloseSucceeds)
FairSpec == Spec /\ Fairness

-----------------------------------------------------------------------------
(* Properties.                                                              *)

\* One identity never has two processes: while the daemon may run one, no
\* lease in use has a process of its own.
OneProcess == \A g \in Leases : ~(daemon /\ lease[g].retired = "live" /\ lease[g].local = "alive")
\* Nothing is left for a session that was closed: a result that arrives late
\* is not published to it.
NothingAfterRetirement ==
    \A g \in Leases : lease[g].done # <<>> => lease[g].retired = "live" /\ session.lease = g
\* A closing never reaches the process of the session that came after it:
\* the daemon is not asked for a new one before the old one is confirmed.
ClosedBeforeReopened ==
    worker.at = "asking" => \A g \in 1 .. Job.lease - 1 : lease[g].retired = "closed" => lease[g].localOnly
\* What a closed session started in the app goes to the closer.
KeepsItsLocals ==
    \A g \in Leases : lease[g].local = "retained" => lease[g].retired = "closed" /\ lease[g].localOnly

RecoveryIsSafe == OneProcess /\ NothingAfterRetirement /\ ClosedBeforeReopened /\ KeepsItsLocals

Unconfirmed(g) == g \in Leases /\ Cleaning(lease[g])
Confirmed(g) == g \in Leases /\ lease[g].retired = "detached"

\* A closing the worker can do is confirmed, even after the manager is gone.
CloseIsConfirmed ==
    \A g \in 1 .. MaxLeases : Unconfirmed(g) ~> Confirmed(g)

\* No process the app started itself is dropped on the way: it is published,
\* or the closer takes it over.
LocalsReachTheCloser == \A g \in Leases : lease[g].local # "dropped"
=============================================================================
