----------------------------- MODULE ReviewNotes -----------------------------
(***************************************************************************)
(* Notes of a code review and the worker that saves them                    *)
(* (app/code_review_ui.rs, app/preferences_worker.rs,                       *)
(* orchestration/diff_notes.rs).  The UI thread keeps the review that is    *)
(* open; the worker thread reads and writes the files of notes, one job at  *)
(* a time.  A write may fail, and the thread may die without an answer.     *)
(*                                                                         *)
(* The notes of a repository are one record: a version, which every edit    *)
(* makes new, and whether that version was sent to an agent.  The settings  *)
(* of the app are saved by the same worker and are the destination          *)
(* Settings, which no review opens.                                         *)
(***************************************************************************)
EXTENDS Integers, SequencesExt

CONSTANTS
    Repos,          \* repositories with notes
    Settings,       \* the destination of the settings
    MaxEdits,       \* bound: edits, of notes and settings
    MaxReviews,     \* bound: reviews opened and loads asked for
    MaxFailures,    \* bound: failed writes and dead threads
    MaxUnread       \* bound: answers the UI has not collected when it acts

VARIABLES
    review,     \* CodeReviewState, <<>> when no review is open
    edits, asks, failures,
    accepted,   \* newest notes or settings the app was told to keep
    disk,       \* what the files hold
    pending, active, failedActive, completions, unavailable, errors,  \* PreferencesWorker
    thread,     \* the worker thread and its two channels
    starts,     \* whether a thread can be started now
    ui,         \* "poll", or waiting in the barrier before an update or the end
    typed       \* versions an agent's terminal accepted

worker_vars == <<pending, active, failedActive, completions, unavailable, errors, thread>>
vars == <<review, edits, asks, failures, accepted, disk, worker_vars, starts, ui, typed>>

Dests == Repos \cup {Settings}
NoNotes == [version |-> 0, sent |-> FALSE]
Save(d, n) == [kind |-> "save", dest |-> d, notes |-> n]
Load(k, q, r) == [kind |-> "load", dest |-> r, key |-> k, request |-> q]
Import(k, q, r) == [kind |-> "import", dest |-> r, key |-> k, request |-> q]
NoThread == [on |-> FALSE, job |-> <<>>, result |-> <<>>]
SameWrite(j, i) == j.kind = "save" /\ i.kind = "save" /\ j.dest = i.dest
Done(j, ok, n) == [job |-> j, ok |-> ok, notes |-> n]
Interrupted(j) == Done(j, FALSE, NoNotes)

Init == /\ review = <<>> /\ edits = 0 /\ asks = 0 /\ failures = 0
        /\ accepted = [d \in Dests |-> NoNotes] /\ disk = [d \in Dests |-> NoNotes]
        /\ pending = <<>> /\ active = <<>> /\ failedActive = <<>> /\ completions = <<>>
        /\ unavailable = FALSE /\ errors = [d \in Dests |-> <<>>] /\ thread = NoThread /\ starts = TRUE
        /\ ui = "poll" /\ typed = {}

-----------------------------------------------------------------------------
(* PreferencesWorker, as a record w of its fields.                          *)

W == [pending |-> pending, active |-> active, failedActive |-> failedActive,
      completions |-> completions, unavailable |-> unavailable, errors |-> errors,
      thread |-> thread, starts |-> starts]
Becomes(now) ==
    \E w \in {now} :
      /\ pending' = w.pending /\ active' = w.active /\ failedActive' = w.failedActive
      /\ completions' = w.completions /\ unavailable' = w.unavailable
      /\ errors' = w.errors /\ thread' = w.thread
\* The step F after the steps that led to w.
Then(w, F(_)) == CHOOSE v \in {F(x) : x \in {w}} : TRUE

\* queue: a save takes the place of the one that waits for the same file, a
\* load that of any other load.
Queued(w, j) ==
    LET same == {i \in DOMAIN w.pending : SameWrite(j, w.pending[i])}
        kept == IF j.kind = "load" THEN SelectSeq(w.pending, LAMBDA i : i.kind # "load") ELSE w.pending
    IN [w EXCEPT !.pending = IF same # {} THEN [i \in DOMAIN @ |-> IF i \in same THEN j ELSE @[i]]
                             ELSE Append(kept, j)]
WriteWaiting(w, j) ==
    LET waiting == w.active \o w.failedActive \o w.pending
    IN \E i \in DOMAIN waiting : SameWrite(j, waiting[i])

\* note_write_result: the failure of a file is forgotten by a save that
\* nothing newer waits behind.
Noted(w, c) ==
    CASE c.job.kind = "save" /\ ~c.ok -> [w EXCEPT !.errors[c.job.dest] = <<c.job>>]
      [] c.job.kind = "save" /\ c.ok /\ ~WriteWaiting(w, c.job) -> [w EXCEPT !.errors[c.job.dest] = <<>>]
      [] OTHER -> w
\* mark_unavailable keeps the job without an answer ahead of the queue, and
\* tells every one of them that it failed.
LastSave(w, d) ==
    LET saves == SelectSeq(w.failedActive \o w.pending, LAMBDA j : j.kind = "save" /\ j.dest = d)
    IN IF saves = <<>> THEN w.errors[d] ELSE <<saves[Len(saves)]>>
\* A wrong end of the thread: the job without an answer is dropped.
MarkDropsActive(w) ==
    LET told == w.failedActive \o w.pending
    IN IF w.unavailable THEN w
       ELSE [w EXCEPT !.unavailable = TRUE, !.thread = NoThread, !.active = <<>>,
                      !.errors = [d \in Dests |-> LastSave(w, d)],
                      !.completions = @ \o [i \in DOMAIN told |-> Interrupted(told[i])]]
MarkUnavailable(w) ==
    LET held == [w EXCEPT !.failedActive = IF w.active # <<>> THEN w.active ELSE @, !.active = <<>>]
        told == held.failedActive \o held.pending
    IN IF w.unavailable THEN w
       ELSE [held EXCEPT !.unavailable = TRUE, !.thread = NoThread,
                         !.errors = [d \in Dests |-> LastSave(held, d)],
                         !.completions = @ \o [i \in DOMAIN told |-> Interrupted(told[i])]]

\* schedule: the job that waits longest goes to the thread.  A load is
\* refused while the newest notes of its repository are not on disk.
\* A wrong check: a load runs whatever is unsaved.
NeverBlocked(w, j) == FALSE
Blocked(w, j) == j.kind = "load" /\ w.errors[j.dest] # <<>>
Next1(w) == IF w.failedActive # <<>> THEN w.failedActive[1] ELSE w.pending[1]
Without(w) == IF w.failedActive # <<>> THEN [w EXCEPT !.failedActive = <<>>]
              ELSE [w EXCEPT !.pending = Tail(@)]
Idle(w) == w.active # <<>> \/ w.unavailable \/ (w.failedActive = <<>> /\ w.pending = <<>>)
Started(w) ==
    [Without(w) EXCEPT !.active = <<Next1(w)>>, !.thread = [NoThread EXCEPT !.on = TRUE, !.job = <<Next1(w)>>]]
Refused(w) == [Without(w) EXCEPT !.completions = Append(@, Interrupted(Next1(w)))]
\* At most one load waits, so one refusal at most comes before the start.
ScheduledOnce(w) ==
    CASE Idle(w) -> w
      [] ~Idle(w) /\ ~w.thread.on /\ ~w.starts -> MarkUnavailable(w)
      [] OTHER -> IF Blocked(w, Next1(w)) THEN Refused(w) ELSE Started(w)
Scheduled(w) == Then(Then(w, ScheduledOnce), ScheduledOnce)

\* retry: what failed and nothing newer waits for goes first.
RetryJobs(w) ==
    {d \in Dests : w.errors[d] # <<>> /\ ~WriteWaiting(w, w.errors[d][1])}
\* notes_write_errors is a BTreeMap: one fixed order of the repositories.
Retried(w) ==
    LET again == RetryJobs(w)
        notes == SetToSeq({w.errors[r][1] : r \in again \ {Settings}})
        settings == IF Settings \in again THEN w.errors[Settings] ELSE <<>>
    IN Scheduled([w EXCEPT !.unavailable = FALSE, !.pending = notes \o settings \o @])
Submitted(w, j) == Then(Queued(w, j), LAMBDA q : IF q.unavailable THEN Retried(q) ELSE Scheduled(q))
\* load_notes: notes that are known to be unsaved are queued again first.
LoadQueued(w, j) ==
    Then(IF w.errors[j.dest] # <<>> /\ ~WriteWaiting(w, w.errors[j.dest][1])
         THEN Queued(w, w.errors[j.dest][1]) ELSE w, LAMBDA q : Submitted(q, j))

\* finish, for the answer in the results channel.
Finished(w) ==
    LET c == w.thread.result[1]
        free == [w EXCEPT !.active = <<>>, !.thread.result = <<>>]
    IN [Then(free, LAMBDA w1 : Noted(w1, c)) EXCEPT !.completions = Append(@, c)]

-----------------------------------------------------------------------------
(* The worker thread.                                                       *)

\* run_job: an absent file is an empty collection.
Run(ok) ==
    /\ thread.job # <<>>
    /\ ~ok => failures < MaxFailures
    /\ failures' = IF ok THEN failures ELSE failures + 1
    /\ LET j == thread.job[1] IN
         /\ disk' = IF j.kind = "save" /\ ok THEN [disk EXCEPT ![j.dest] = j.notes] ELSE disk
         /\ thread' = [thread EXCEPT !.job = <<>>,
                                     !.result = <<Done(j, ok, IF ok THEN disk[j.dest] ELSE NoNotes)>>]
    /\ UNCHANGED <<review, edits, asks, accepted, pending, active, failedActive, completions,
                   unavailable, errors, starts, ui, typed>>
\* The thread ends without an answer, before or after its write.
Dies(wrote) ==
    /\ thread.job # <<>> /\ failures < MaxFailures /\ failures' = failures + 1
    /\ LET j == thread.job[1] IN
         disk' = IF j.kind = "save" /\ wrote THEN [disk EXCEPT ![j.dest] = j.notes] ELSE disk
    /\ thread' = NoThread
    /\ UNCHANGED <<review, edits, asks, accepted, pending, active, failedActive, completions,
                   unavailable, errors, starts, ui, typed>>

\* A new thread cannot be had for a while.
SpawnerFails ==
    /\ starts /\ failures < MaxFailures /\ failures' = failures + 1 /\ starts' = FALSE
    /\ UNCHANGED <<review, edits, asks, accepted, disk, worker_vars, ui, typed>>
SpawnerRecovers ==
    /\ ~starts /\ starts' = TRUE
    /\ UNCHANGED <<review, edits, asks, failures, accepted, disk, worker_vars, ui, typed>>

-----------------------------------------------------------------------------
(* The UI thread.                                                           *)

\* Every frame collects the answers before it draws what the user acts on.
Ui == ui = "poll" /\ Len(completions) <= MaxUnread

\* finish_review_notes: only the version that was sent is marked.
DeliveredAny(rv) ==
    IF rv = <<>> \/ (rv # <<>> /\ rv[1].delivery = <<>>) THEN rv
    ELSE LET d == rv[1].delivery[1] IN
         IF d.result = "wait" THEN rv
         ELSE <<[rv[1] EXCEPT !.delivery = <<>>, !.notes.sent = @ \/ (d.result = "ok" /\ d.version > 0)]>>
Delivered(rv) ==
    IF rv = <<>> \/ (rv # <<>> /\ rv[1].delivery = <<>>) THEN rv
    ELSE LET d == rv[1].delivery[1] IN
         IF d.result = "wait" THEN rv
         ELSE <<[rv[1] EXCEPT !.delivery = <<>>,
                              !.notes.sent = @ \/ (d.result = "ok" /\ d.version = rv[1].notes.version)]>>
\* persist_review_notes, for the review rv.
Persisted(w, rv) == Submitted(w, Save(rv[1].repo, rv[1].notes))
Kept(rv) == [accepted EXCEPT ![rv[1].repo] = rv[1].notes]
\* poll_review_prompt_delivery.
Receipt(w) == IF Delivered(review) # <<>> /\ Delivered(review)[1].notes # review[1].notes
              THEN [w |-> Persisted(w, Delivered(review)), accepted |-> Kept(Delivered(review))]
              ELSE [w |-> w, accepted |-> accepted]

\* open_code_review: a new key, whatever was open is replaced after its
\* receipt was looked at.
OpenCodeReview(r) ==
    /\ Ui /\ asks < MaxReviews /\ asks' = asks + 1
    /\ review' = <<[key |-> asks + 1, repo |-> r, notes |-> NoNotes, ready |-> FALSE, loading |-> TRUE,
                    failed |-> FALSE, request |-> asks + 1, import |-> 0, importing |-> FALSE,
                    delivery |-> <<>>]>>
    /\ accepted' = Receipt(W).accepted
    /\ Becomes(Then(Receipt(W).w, LAMBDA w : LoadQueued(w, Load(asks + 1, asks + 1, r))))
    /\ UNCHANGED <<edits, failures, disk, starts, ui, typed>>
CloseReview ==
    /\ Ui /\ review # <<>> /\ review' = <<>>
    /\ UNCHANGED <<edits, asks, failures, accepted, disk, worker_vars, starts, ui, typed>>

\* save_note_editor and the other note actions: only over loaded notes; an
\* edited note is to be sent again.
EditNotes ==
    /\ Ui /\ review # <<>> /\ review[1].ready /\ edits < MaxEdits /\ edits' = edits + 1
    /\ \E rv \in {<<[review[1] EXCEPT !.notes = [version |-> edits + 1, sent |-> FALSE]]>>} :
         review' = rv /\ accepted' = Kept(rv) /\ Becomes(Persisted(W, rv))
    /\ UNCHANGED <<asks, failures, disk, starts, ui, typed>>
SaveSettings ==
    /\ Ui /\ edits < MaxEdits /\ edits' = edits + 1
    /\ LET n == [version |-> edits + 1, sent |-> FALSE] IN
         /\ Becomes(Submitted(W, Save(Settings, n)))
         /\ accepted' = [accepted EXCEPT ![Settings] = n]
    /\ UNCHANGED <<review, asks, failures, disk, starts, ui, typed>>

\* retry_review_notes, alone or behind the warning's button, which retries the
\* saves first and is there only while nothing is in flight.
Busy(w) == w.active # <<>> \/ (~w.unavailable /\ (w.failedActive # <<>> \/ w.pending # <<>>))
Warned(w) == w.unavailable \/ \E d \in Dests : w.errors[d] # <<>>
MayReload == review # <<>> /\ ~review[1].ready /\ ~review[1].loading /\ asks < MaxReviews
ReloadNotes(w) ==
    IF MayReload
    THEN /\ asks' = asks + 1
         /\ review' = <<[review[1] EXCEPT !.loading = TRUE, !.request = asks + 1]>>
         /\ Becomes(LoadQueued(w, Load(review[1].key, asks + 1, review[1].repo)))
    ELSE UNCHANGED <<asks, review>> /\ Becomes(w)
RetryReviewNotes ==
    /\ Ui /\ MayReload /\ ReloadNotes(W)
    /\ UNCHANGED <<edits, failures, accepted, disk, starts, ui, typed>>
RetrySaving ==
    /\ Ui /\ Warned(W) /\ ~Busy(W)
    /\ \E w \in {Retried(W)} : ReloadNotes(w)
    /\ UNCHANGED <<edits, failures, accepted, disk, starts, ui, typed>>

ImportNotes ==
    /\ Ui /\ review # <<>> /\ review[1].ready /\ ~review[1].importing
    /\ asks < MaxReviews /\ asks' = asks + 1
    /\ review' = <<[review[1] EXCEPT !.import = asks + 1, !.importing = TRUE]>>
    /\ Becomes(Submitted(W, Import(review[1].key, asks + 1, review[1].repo)))
    /\ UNCHANGED <<edits, failures, accepted, disk, starts, ui, typed>>

\* recover_retained_review_notes: the newest notes the worker still holds.
RetainedNotes(r) ==
    LET saves == SelectSeq(errors[r] \o failedActive \o active \o pending,
                           LAMBDA j : j.kind = "save" /\ j.dest = r)
    IN IF saves = <<>> THEN <<>> ELSE <<Last(saves)>>
\* A wrong recovery: the load that failed may still answer later.
RecoverKeepsRequest ==
    /\ Ui /\ review # <<>> /\ review[1].failed /\ ~review[1].ready /\ ~review[1].loading
    /\ RetainedNotes(review[1].repo) # <<>>
    /\ review' = <<[review[1] EXCEPT !.notes = RetainedNotes(review[1].repo)[1].notes,
                                     !.import = 0, !.importing = FALSE, !.failed = FALSE, !.ready = TRUE]>>
    /\ UNCHANGED <<edits, asks, failures, accepted, disk, worker_vars, starts, ui, typed>>
RecoverRetained ==
    /\ Ui /\ review # <<>> /\ review[1].failed /\ ~review[1].ready /\ ~review[1].loading
    /\ RetainedNotes(review[1].repo) # <<>>
    /\ review' = <<[review[1] EXCEPT !.notes = RetainedNotes(review[1].repo)[1].notes, !.request = 0,
                                     !.import = 0, !.importing = FALSE, !.failed = FALSE, !.ready = TRUE]>>
    /\ UNCHANGED <<edits, asks, failures, accepted, disk, worker_vars, starts, ui, typed>>

-----------------------------------------------------------------------------
(* Sending the notes, and what the agent's terminal answers.                *)

\* send_pending_notes and send_code_review_feedback: one delivery at a time;
\* feedback is not a note.
Feedback == -1
Sendable == {Feedback} \cup (IF review[1].ready /\ ~review[1].notes.sent /\ review[1].notes.version > 0
                      THEN {review[1].notes.version} ELSE {})
SendDirectly(v) ==
    /\ Ui /\ review # <<>> /\ review[1].delivery = <<>> /\ v \in Sendable
    /\ typed' = typed \cup ({v} \ {Feedback})
    /\ \E rv \in {<<[review[1] EXCEPT !.notes.sent = @ \/ v = review[1].notes.version]>>} :
         /\ review' = rv
         /\ IF rv # review THEN accepted' = Kept(rv) /\ Becomes(Persisted(W, rv))
            ELSE UNCHANGED <<accepted, worker_vars>>
    /\ UNCHANGED <<edits, asks, failures, disk, starts, ui>>
SendDeferred(v) ==
    /\ Ui /\ review # <<>> /\ review[1].delivery = <<>> /\ v \in Sendable
    /\ review' = <<[review[1] EXCEPT !.delivery = <<[version |-> v, result |-> "wait"]>>]>>
    /\ UNCHANGED <<edits, asks, failures, accepted, disk, worker_vars, starts, ui, typed>>
Answers(ok) ==
    /\ review # <<>> /\ review[1].delivery # <<>> /\ review[1].delivery[1].result = "wait"
    /\ review' = <<[review[1] EXCEPT !.delivery[1].result = IF ok THEN "ok" ELSE "err"]>>
    /\ typed' = IF ok THEN typed \cup ({review[1].delivery[1].version} \ {Feedback}) ELSE typed
    /\ UNCHANGED <<edits, asks, failures, accepted, disk, worker_vars, starts, ui>>
PollReviewPromptDelivery ==
    /\ Ui /\ Delivered(review) # review
    /\ review' = Delivered(review) /\ accepted' = Receipt(W).accepted /\ Becomes(Receipt(W).w)
    /\ UNCHANGED <<edits, asks, failures, disk, starts, ui, typed>>

-----------------------------------------------------------------------------
(* Collecting results: the poll of every frame and the barrier.             *)

\* The answer to a load reaches the review that asked for it, and to an
\* import the review whose notes it is merged into and saved with.
Loaded(rv, c) ==
    IF c.ok THEN [rv EXCEPT !.loading = FALSE, !.notes = c.notes, !.ready = TRUE, !.failed = FALSE]
    ELSE [rv EXCEPT !.loading = FALSE, !.ready = FALSE, !.failed = TRUE]
AsksFor(rv, c) == /\ rv # <<>> /\ rv[1].key = c.job.key /\ rv[1].repo = c.job.dest
                  /\ IF c.job.kind = "load" THEN rv[1].request = c.job.request
                     ELSE rv[1].import = c.job.request /\ rv[1].ready
Applied(s, c) ==
    CASE c.job.kind = "save" -> s
      [] c.job.kind # "save" /\ ~AsksFor(s.review, c) -> s
      [] c.job.kind = "load" /\ AsksFor(s.review, c) -> [s EXCEPT !.review = <<Loaded(s.review[1], c)>>]
      [] c.job.kind = "import" /\ AsksFor(s.review, c) ->
           IF ~c.ok THEN [s EXCEPT !.review[1].importing = FALSE]
           ELSE LET n == [version |-> s.edits + 1, sent |-> FALSE] IN
                [review |-> <<[s.review[1] EXCEPT !.importing = FALSE, !.import = 0, !.notes = n]>>,
                 edits |-> s.edits + 1, accepted |-> [s.accepted EXCEPT ![c.job.dest] = n],
                 w |-> Submitted(s.w, Save(c.job.dest, n))]

\* PreferencesWorker::poll: the answer, or the news that the thread is gone.
Polled(w) == Then(CASE w.thread.result # <<>> -> Finished(w)
                    [] w.active # <<>> /\ ~w.thread.on -> MarkUnavailable(w)
                    [] OTHER -> w, Scheduled)
PollPreferencesWorker(w) ==
    \E p \in {Polled(w)} :
    \E s \in {FoldLeft(LAMBDA t, c : Then(t, LAMBDA u : Applied(u, c)),
                       [review |-> review, edits |-> edits, accepted |-> accepted,
                        w |-> [p EXCEPT !.completions = <<>>]], p.completions)} :
      /\ review' = s.review /\ edits' = s.edits /\ accepted' = s.accepted /\ Becomes(s.w)
Poll ==
    /\ ui = "poll" /\ ~(Polled(W) = W /\ completions = <<>>)
    /\ PollPreferencesWorker(W)
    /\ UNCHANGED <<asks, failures, disk, starts, ui, typed>>

\* persist_final_state, before an update or the end: the receipt is looked at,
\* then drain waits for the thread until nothing is left or it is gone.
BeginDrain ==
    /\ Ui /\ ui' = "draining"
    /\ review' = Delivered(review) /\ accepted' = Receipt(W).accepted /\ Becomes(Receipt(W).w)
    /\ UNCHANGED <<edits, asks, failures, disk, starts, typed>>
\* A wrong barrier: it waits for the answer of a thread that is gone.
DrainWaitsForAnswer ==
    /\ ui = "draining"
    /\ \E w \in {Scheduled(W)} :
         /\ ~w.unavailable /\ w.active # <<>>
         /\ IF w # W THEN Becomes(w) ELSE w.thread.result # <<>> /\ Becomes(Finished(w))
    /\ UNCHANGED <<review, edits, asks, failures, accepted, disk, starts, ui, typed>>
DrainWaits ==
    /\ ui = "draining"
    /\ \E w \in {Scheduled(W)} :
         /\ ~w.unavailable /\ w.active # <<>>
         /\ IF w # W THEN Becomes(w)
            ELSE \/ w.thread.result # <<>> /\ Becomes(Finished(w))
                 \/ ~w.thread.on /\ Becomes(MarkUnavailable(w))
    /\ UNCHANGED <<review, edits, asks, failures, accepted, disk, starts, ui, typed>>
\* drain_preferences_for_shutdown goes round again when a result gave it work.
Unsaved(w) == w.unavailable \/ \E d \in Dests : w.errors[d] # <<>>
\* A wrong barrier: it does not look at what the last answers asked for.
DrainReturnsAtOnce ==
    /\ ui = "draining" /\ UNCHANGED <<asks, failures, disk, starts, typed>>
    /\ \E w \in {Scheduled(W)} :
         /\ w.active # <<>> => w.unavailable
         /\ PollPreferencesWorker(w)
         /\ ui' = IF Unsaved(w) THEN "refused" ELSE "saved"
DrainReturns ==
    /\ ui = "draining" /\ UNCHANGED <<asks, failures, disk, starts, typed>>
    /\ \E w \in {Scheduled(W)} :
         /\ w.active # <<>> => w.unavailable
         /\ PollPreferencesWorker(w)
         /\ ui' = IF Busy(W)' THEN "draining"
                  ELSE IF Unsaved(w) THEN "refused" ELSE "saved"
UpdateDeclined ==
    /\ ui \in {"saved", "refused"} /\ ui' = "poll"
    /\ UNCHANGED <<review, edits, asks, failures, accepted, disk, worker_vars, starts, typed>>

Thread == \E flag \in BOOLEAN : Run(flag) \/ Dies(flag)
Barrier == DrainWaits \/ DrainReturns
Sends == \E v \in Feedback .. MaxEdits + MaxReviews : SendDirectly(v) \/ SendDeferred(v)
Reviews == (\E r \in Repos : OpenCodeReview(r)) \/ CloseReview \/ EditNotes \/ ImportNotes
Recovers == RetrySaving \/ RetryReviewNotes \/ RecoverRetained
Next ==
    \/ Thread \/ SpawnerFails \/ SpawnerRecovers
    \/ Reviews \/ SaveSettings \/ Recovers
    \/ Sends \/ (\E ok \in BOOLEAN : Answers(ok)) \/ PollReviewPromptDelivery
    \/ Poll \/ BeginDrain \/ Barrier \/ UpdateDeclined

\* The worker thread runs by itself, and the UI thread stays in the barrier
\* until it returns.
Spec == Init /\ [][Next]_vars /\ WF_vars(Thread) /\ WF_vars(Barrier)

-----------------------------------------------------------------------------
\* Notes and settings the app accepted are in their file, or the worker still
\* holds the newest of them for a retry.
NothingIsForgotten ==
    \A d \in Dests : accepted[d] # disk[d] =>
        RetainedNotes(d) # <<>> /\ RetainedNotes(d)[1].notes = accepted[d]
\* A review never shows an older snapshot of the file than the notes the app
\* accepted, whatever load, recovery or import filled it.
ShownIsCurrent == review # <<>> /\ review[1].ready => review[1].notes = accepted[review[1].repo]
\* Notes marked as sent are the version an agent's terminal accepted.
SentIsTyped == \A d \in Dests : (accepted[d].sent => accepted[d].version \in typed)
                                /\ (disk[d].sent => disk[d].version \in typed)
\* The barrier before an update or the end only reports success when the files
\* hold everything.
BarrierIsHonest == ui = "saved" => disk = accepted
\* app/preferences_worker.rs: what the user wrote about a review is neither
\* lost nor shown stale, through failed writes, dead threads and retries.
NotesAreKept == NothingIsForgotten /\ ShownIsCurrent /\ SentIsTyped /\ BarrierIsHonest

\* app.rs, drain_preferences_for_shutdown: the barrier returns.
InBarrier == ui = "draining"
BarrierReturns == InBarrier ~> ~InBarrier
=============================================================================
