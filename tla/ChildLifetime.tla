---------------------------- MODULE ChildLifetime ----------------------------
(***************************************************************************)
(* The owner of the child process of a terminal                            *)
(* (src/src/terminal/child_lifetime.rs) and the attempt that starts it     *)
(* (SpawnAttempt and spawn_with_history in src/src/terminal/pty.rs).       *)
(*                                                                         *)
(* A worker thread is created before the child and is the only one that    *)
(* terminates it and waits for it.  The terminal asks for the termination  *)
(* and drops its side of the channel without waiting.  Two proofs leave    *)
(* this code: reaped, that the child is gone, and the proof of an attempt  *)
(* that no child was ever started; the birth ledger releases a birth on    *)
(* either of them.                                                         *)
(***************************************************************************)
EXTENDS Naturals, TLAPS

CONSTANT MaxErrors   \* calls on the process that fail, in all

VARIABLES
    factory,     \* the thread that starts the terminal
    attempt,     \* SpawnAttempt: [entered, tried]
    proof,       \* no_child_proof was issued
    worker,      \* the thread pty-child-lifetime
    terminating, \* its local flag
    channel,     \* [asked, open]: termination requests and their sender
    child,       \* the process, as the system knows it
    owned,       \* the child is in the slot of ChildOwner
    reaped,      \* the flag the terminal reads
    alive,       \* the flag on_exit clears
    errors       \* failed calls so far

lifetimeVars == <<factory, attempt, proof, worker, terminating, channel, child, owned,
                  reaped, alive, errors>>

LifetimeInit ==
    /\ factory = "start" /\ attempt = [entered |-> FALSE, tried |-> FALSE]
    /\ proof = FALSE /\ worker = "none" /\ terminating = FALSE
    /\ channel = [asked |-> FALSE, open |-> TRUE]
    /\ child = "none" /\ owned = FALSE /\ reaped = FALSE /\ alive = TRUE /\ errors = 0

Error == errors < MaxErrors /\ errors' = errors + 1

(***************************************************************************)
(* Starting.                                                               *)
(***************************************************************************)
\* spawn_with_history: the guarded factory is entered after the birth was
\* consumed; an error before it enters nothing.
EnterFactory ==
    /\ factory = "start"
    /\ \/ /\ attempt' = [attempt EXCEPT !.entered = TRUE] /\ factory' = "entered"
          /\ UNCHANGED errors
       \/ Error /\ factory' = "failed" /\ UNCHANGED attempt
    /\ UNCHANGED <<proof, worker, terminating, channel, child, owned, reaped, alive>>

\* Admission, the PTY and the reader are prepared, then start_with creates the
\* worker; each of them may fail.
StartWorker ==
    /\ factory = "entered"
    /\ \/ worker' = "admission" /\ factory' = "worker" /\ UNCHANGED errors
       \/ Error /\ factory' = "failed" /\ UNCHANGED worker
    /\ UNCHANGED <<attempt, proof, terminating, channel, child, owned, reaped, alive>>

\* Faulty variant, for mutation: the attempt is noted when the call succeeds.
SpawnChildNotedLate ==
    /\ factory = "worker"
    /\ \/ /\ child' = "running" /\ owned' = TRUE /\ factory' = "spawned"
          /\ attempt' = [attempt EXCEPT !.tried = TRUE] /\ UNCHANGED errors
       \/ Error /\ child' \in {"none", "lost"} /\ factory' = "failed" /\ UNCHANGED <<attempt, owned>>
    /\ UNCHANGED <<proof, worker, terminating, channel, reaped, alive>>

\* spawn_command: the attempt is noted before the call, which may fail with the
\* process already there.
SpawnChild ==
    /\ factory = "worker" /\ attempt' = [attempt EXCEPT !.tried = TRUE]
    /\ \/ child' = "running" /\ owned' = TRUE /\ factory' = "spawned" /\ UNCHANGED errors
       \/ Error /\ child' \in {"none", "lost"} /\ factory' = "failed" /\ UNCHANGED owned
    /\ UNCHANGED <<proof, worker, terminating, channel, reaped, alive>>

\* ready.send: the worker is admitted, the terminal exists.
AdmitWorker ==
    /\ factory = "spawned" /\ factory' = "terminal" /\ worker' = "polling"
    /\ UNCHANGED <<attempt, proof, terminating, channel, child, owned, reaped, alive, errors>>

\* A failed factory drops the sender of the admission: the worker returns.
WorkerIsNotAdmitted ==
    /\ worker = "admission" /\ factory \in {"failed", "closed"} /\ worker' = "done"
    /\ UNCHANGED <<factory, attempt, proof, terminating, channel, child, owned,
                   reaped, alive, errors>>

\* no_child_proof, for confirm_no_child_birth.
ProveNoChild ==
    /\ factory = "failed" /\ factory' = "closed"
    /\ proof' = (attempt.entered /\ ~attempt.tried)
    /\ UNCHANGED <<attempt, worker, terminating, channel, child, owned, reaped, alive, errors>>

(***************************************************************************)
(* The process and the terminal.                                           *)
(***************************************************************************)
ProcessExits ==
    /\ child = "running" /\ child' = "exited"
    /\ UNCHANGED <<factory, attempt, proof, worker, terminating, channel, owned,
                   reaped, alive, errors>>

\* terminate, at a retirement.
Terminate ==
    /\ factory = "terminal" /\ ~channel.asked /\ channel' = [channel EXCEPT !.asked = TRUE]
    /\ UNCHANGED <<factory, attempt, proof, worker, terminating, child, owned, reaped,
                   alive, errors>>

\* Dropping the terminal: a request, and the sender is gone.
DropTerminal ==
    /\ factory = "terminal" /\ factory' = "closed"
    /\ channel' = [asked |-> TRUE, open |-> FALSE]
    /\ UNCHANGED <<attempt, proof, worker, terminating, child, owned, reaped, alive, errors>>

(***************************************************************************)
(* run_child_owner.                                                        *)
(***************************************************************************)
\* Faulty variant, for mutation: a failed wait is taken for the end of the child.
WaitConfirmedOnError ==
    \/ child = "exited" /\ child' = "reaped" /\ reaped' = TRUE /\ worker' = "exiting" /\ UNCHANGED errors
    \/ Error /\ UNCHANGED child /\ reaped' = TRUE /\ worker' = "exiting"

\* wait_confirmed: it returns once the process ended; an error grants nothing.
WaitConfirmed ==
    \/ child = "exited" /\ child' = "reaped" /\ reaped' = TRUE /\ worker' = "exiting" /\ UNCHANGED errors
    \/ Error /\ worker' = "receiving" /\ UNCHANGED <<child, reaped>>

\* exited: the poll of a worker nobody asked to terminate the child.
PollChild ==
    /\ worker = "polling" /\ ~terminating
    /\ \/ child = "exited" /\ worker' = "waiting" /\ UNCHANGED errors
       \/ child = "running" /\ worker' = "receiving" /\ UNCHANGED errors
       \/ Error /\ worker' = "receiving"
    /\ UNCHANGED <<factory, attempt, proof, terminating, channel, child, owned, reaped, alive>>

\* terminate: its error is ignored.
TerminateChild ==
    /\ worker = "polling" /\ terminating /\ worker' = "waiting"
    /\ \/ child' = "exited" /\ UNCHANGED errors
       \/ child = "running" /\ Error /\ UNCHANGED child
    /\ UNCHANGED <<factory, attempt, proof, terminating, channel, owned, reaped, alive>>

WaitForChild ==
    /\ worker = "waiting" /\ WaitConfirmed
    /\ UNCHANGED <<factory, attempt, proof, terminating, channel, owned, alive>>

\* Faulty variant, for mutation: a sender that is gone is not a request.
RequestedBySend == channel.asked /\ channel.open

\* recv_timeout: a request, or no sender any more.
Requested == channel.asked \/ ~channel.open

ReceiveRequest ==
    /\ worker = "receiving" /\ worker' = "polling"
    /\ terminating' = (terminating \/ Requested)
    /\ UNCHANGED <<factory, attempt, proof, channel, child, owned, reaped, alive, errors>>

\* The child leaves its slot, then on_exit.
ReleaseChild ==
    /\ worker = "exiting" /\ worker' = "done" /\ owned' = FALSE /\ alive' = FALSE
    /\ UNCHANGED <<factory, attempt, proof, terminating, channel, child, reaped, errors>>

Ended == worker \in {"none", "done"} /\ factory = "closed" /\ UNCHANGED lifetimeVars

LifetimeNext ==
    \/ EnterFactory \/ StartWorker \/ SpawnChild \/ AdmitWorker \/ WorkerIsNotAdmitted \/ ProveNoChild
    \/ ProcessExits \/ Terminate \/ DropTerminal
    \/ PollChild \/ TerminateChild \/ WaitForChild \/ ReceiveRequest \/ ReleaseChild
    \/ Ended

WorkerSteps == PollChild \/ TerminateChild \/ WaitForChild \/ ReceiveRequest \/ ReleaseChild

LifetimeSpec == LifetimeInit /\ [][LifetimeNext]_lifetimeVars

\* The worker thread runs, and recv_timeout returns after 20 ms.  A wait whose
\* termination failed blocks for as long as the child lives.
FairSpec == LifetimeSpec /\ WF_lifetimeVars(WorkerSteps)

(***************************************************************************)
(* Properties.                                                             *)
(***************************************************************************)
\* The proofs this code issues are true: reaped only after a successful wait of
\* a process that ended, the terminal is shown as ended only after that, a live
\* child is never out of its owner's slot while a worker has it, and the proof
\* that no child was started is not issued for one that may be running.
ProofsAreTrue ==
    /\ reaped => child = "reaped"
    /\ ~alive => reaped
    /\ child = "running" => owned /\ worker # "done"
    /\ proof => child = "none"

Dropped == factory = "closed" /\ child \in {"running", "exited"}
Ends == reaped \/ (worker = "waiting" /\ errors > 0)

\* A child whose terminal was dropped is reaped, whatever the poll and the wait
\* answered in between (unless the system refused the termination itself).
DroppedIsReaped == Dropped ~> Ends

(***************************************************************************)
(* Proof that the proofs are true, for any number of failing calls.        *)
(***************************************************************************)
LifetimeTypeOK ==
    /\ factory \in {"start", "entered", "worker", "spawned", "terminal", "failed", "closed"}
    /\ attempt \in [entered : BOOLEAN, tried : BOOLEAN]
    /\ worker \in {"none", "admission", "polling", "waiting", "receiving", "exiting", "done"}
    /\ channel \in [asked : BOOLEAN, open : BOOLEAN]
    /\ child \in {"none", "running", "exited", "reaped", "lost"}
    /\ proof \in BOOLEAN /\ terminating \in BOOLEAN
    /\ owned \in BOOLEAN /\ reaped \in BOOLEAN /\ alive \in BOOLEAN

\* How far the factory came says what there can be of a child and of a worker:
\* a failed factory leaves no child that runs in its slot, a terminal has a
\* worker with a child it has not waited for.
Stages ==
    /\ factory \in {"start", "entered"} => worker = "none" /\ child = "none"
    /\ factory = "worker" => worker = "admission" /\ child = "none"
    /\ factory = "spawned" => worker = "admission" /\ child \in {"running", "exited"}
    /\ factory = "failed" => worker \in {"none", "admission", "done"} /\ child \in {"none", "lost"}
    /\ factory = "terminal" => worker \notin {"none", "admission"}
    /\ factory = "closed" /\ worker \in {"none", "admission"} => child \in {"none", "lost"}
    /\ worker \in {"polling", "waiting", "receiving"} =>
           factory \in {"terminal", "closed"} /\ child \in {"running", "exited"}
    /\ worker = "exiting" => reaped

\* A call that may have started a child was noted before, and the proof is of
\* an attempt that is over.
Noted == ~attempt.tried => child = "none"
ProofIsLast == proof => factory = "closed"

IInv == LifetimeTypeOK /\ Stages /\ Noted /\ ProofIsLast /\ ProofsAreTrue

(* Nothing is started and nothing is claimed.                              *)
LEMMA InitIsTrue == LifetimeInit => IInv
<1> SUFFICES ASSUME LifetimeInit
             PROVE  IInv
  OBVIOUS
<1> USE DEF LifetimeInit
<1>1. LifetimeTypeOK
  BY DEF LifetimeTypeOK
<1>2. Stages
  BY DEF Stages
<1>3. Noted /\ ProofIsLast /\ ProofsAreTrue
  BY DEF Noted, ProofIsLast, ProofsAreTrue
<1> QED
  BY <1>1, <1>2, <1>3 DEF IInv

(* Every step of the factory, of the terminal, of the process and of the   *)
(* worker keeps the invariant.                                             *)
LEMMA StepIsTrue == IInv /\ [LifetimeNext]_lifetimeVars => IInv'
<1> SUFFICES ASSUME IInv, [LifetimeNext]_lifetimeVars
             PROVE  IInv'
  OBVIOUS
<1> USE DEF IInv, LifetimeTypeOK, Stages, Noted, ProofIsLast, ProofsAreTrue
<1>1. CASE EnterFactory
  BY <1>1 DEF EnterFactory, Error
<1>2. CASE StartWorker
  BY <1>2 DEF StartWorker, Error
<1>3. CASE SpawnChild
  BY <1>3 DEF SpawnChild, Error
<1>4. CASE AdmitWorker
  BY <1>4 DEF AdmitWorker
<1>5. CASE WorkerIsNotAdmitted
  BY <1>5 DEF WorkerIsNotAdmitted
<1>6. CASE ProveNoChild
  BY <1>6 DEF ProveNoChild
<1>7. CASE ProcessExits
  BY <1>7 DEF ProcessExits
<1>8. CASE Terminate
  BY <1>8 DEF Terminate
<1>9. CASE DropTerminal
  BY <1>9 DEF DropTerminal
<1>10. CASE PollChild
  BY <1>10 DEF PollChild, Error
<1>11. CASE TerminateChild
  BY <1>11 DEF TerminateChild, Error
<1>12. CASE WaitForChild
  <2>1. CASE child = "exited" /\ child' = "reaped" /\ reaped' = TRUE /\ worker' = "exiting"
    BY <1>12, <2>1 DEF WaitForChild
  <2>2. CASE worker' = "receiving" /\ UNCHANGED <<child, reaped>>
    BY <1>12, <2>2 DEF WaitForChild
  <2> QED
    BY <1>12, <2>1, <2>2 DEF WaitForChild, WaitConfirmed
<1>13. CASE ReceiveRequest
  BY <1>13 DEF ReceiveRequest, Requested
<1>14. CASE ReleaseChild
  BY <1>14 DEF ReleaseChild
<1>15. CASE Ended \/ UNCHANGED lifetimeVars
  BY <1>15 DEF Ended, lifetimeVars
<1> QED
  BY <1>1, <1>2, <1>3, <1>4, <1>5, <1>6, <1>7, <1>8, <1>9, <1>10, <1>11, <1>12, <1>13,
     <1>14, <1>15 DEF LifetimeNext

(* What the owner of the child process reports of it (reaped, alive and    *)
(* no_child_proof in child_lifetime.rs and pty.rs) is true in every        *)
(* reachable state.                                                        *)
THEOREM ProofsHold == LifetimeSpec => []ProofsAreTrue
<1>1. IInv => ProofsAreTrue
  BY DEF IInv
<1> QED
  BY InitIsTrue, StepIsTrue, <1>1, PTL DEF LifetimeSpec
=============================================================================
