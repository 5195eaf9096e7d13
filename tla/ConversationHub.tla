-------------------------- MODULE ConversationHub --------------------------
(* The two bounded channels between the window and the journal worker of    *)
(* the conversations, while the app works and while it closes               *)
(* (conversation/worker.rs, app/conversation_ui.rs).  The journal is        *)
(* reduced to what a delivery does to a transfer; ConversationStore has the *)
(* rest.                                                                    *)
EXTENDS Integers, Sequences, TLAPS

CONSTANTS Ops,        \* transfers, one target chat each
          Capacity,   \* slots of each channel, at least 1 (64 in the code)
          MaxJobs     \* bound: jobs that the window submits for the user

VARIABLES
  jobs,      \* window -> worker: <<"Ask">>, <<"DeliverNow", o>>,
             \* <<"Resolve", o, ok>>, <<"Delivered", o, ok>>, <<"Flush">>
  events,    \* worker -> window: <<"Info">>, <<"Deliver", o>>
  enabled,   \* the worker may claim deliveries
  state,     \* state[o] in the journal
  worker,    \* [pc, event, left]: where the worker's loop is
  errors,    \* transfers whose receipt could not be recorded
  receipts,  \* receipts the window could not post yet
  window,    \* "open", "closing", "saved", "unsaved", "late"
  ack,       \* the barrier: "none", "posted", "ok", "error"
  after,     \* a receipt was posted after the barrier
  failure,   \* an error was reported while closing
  asked      \* jobs submitted so far

vars == <<jobs, events, enabled, state, worker, errors, receipts,
          window, ack, after, failure, asked>>

Init ==
  /\ jobs = <<>> /\ events = <<>> /\ enabled = TRUE
  /\ state = [o \in Ops |-> "pending"]
  /\ worker = [pc |-> "recv", event |-> <<>>, left |-> {}]
  /\ errors = {} /\ receipts = <<>>
  /\ window = "open" /\ ack = "none" /\ after = FALSE /\ failure = FALSE
  /\ asked = 0

(***************************************************************************)
(* The worker.                                                              *)
(***************************************************************************)

workerOnly == UNCHANGED <<enabled, receipts, window, after, failure, asked>>

\* After a job, or a second without one, the worker sends the job's event and
\* then looks at its targets, if it may.
Then(event) == worker' = [pc |-> "emit", event |-> event, left |-> {}]

Claimed(o) == state' = [state EXCEPT ![o] = "dispatching"]

\* A receipt finds its transfer as the claim left it, already answered, or
\* decided otherwise by the user, which is an error that a barrier reports.
Recorded(o, ok) ==
  IF state[o] = "dispatching"
  THEN /\ state' = [state EXCEPT ![o] = IF ok THEN "input_queued" ELSE "failed"]
       /\ errors' = errors \ {o} /\ Then(<<>>)
  ELSE /\ UNCHANGED state
       /\ errors' = IF state[o] = "completed" THEN errors \ {o} ELSE errors \union {o}
       /\ Then(IF state[o] = "completed" THEN <<>> ELSE <<"Error">>)

\* The user decides about a delivery that was never confirmed.
Resolved(o, ok) ==
  /\ state' = IF state[o] # "dispatching" THEN state
              ELSE [state EXCEPT ![o] = IF ok THEN "input_queued" ELSE "failed"]
  /\ errors' = IF state[o] \in {"dispatching", "completed"} THEN errors \ {o} ELSE errors
  /\ Then(IF state[o] \in {"dispatching", "completed"} THEN <<>> ELSE <<"Error">>)

TakeJob ==
  /\ worker.pc = "recv" /\ jobs # <<>>
  /\ jobs' = Tail(jobs)
  /\ LET job == Head(jobs) IN
       \/ /\ job[1] = "Ask" /\ Then(<<"Info">>)
          /\ UNCHANGED <<state, errors, ack>>
       \/ /\ job[1] = "DeliverNow" /\ state[job[2]] = "pending"
          /\ Claimed(job[2]) /\ Then(<<"Deliver", job[2]>>)
          /\ UNCHANGED <<errors, ack>>
       \/ /\ job[1] = "DeliverNow" /\ state[job[2]] # "pending"
          /\ Then(<<"Error">>)
          /\ UNCHANGED <<state, errors, ack>>
       \/ /\ job[1] = "Delivered" /\ Recorded(job[2], job[3])
          /\ UNCHANGED ack
       \/ /\ job[1] = "Resolve" /\ Resolved(job[2], job[3])
          /\ UNCHANGED ack
       \/ /\ job[1] = "Flush" /\ Then(<<>>)
          /\ ack' = IF errors = {} THEN "ok" ELSE "error"
          /\ UNCHANGED <<state, errors>>
  /\ workerOnly /\ UNCHANGED events

\* A second passes without a job.
Timeout ==
  /\ worker.pc = "recv" /\ jobs = <<>>
  /\ Then(<<>>)
  /\ workerOnly /\ UNCHANGED <<jobs, events, state, errors, ack>>

\* A full channel holds the worker until the window takes an event.
Emit ==
  /\ worker.pc = "emit"
  /\ worker.event # <<>> => Len(events) < Capacity
  /\ events' = IF worker.event = <<>> THEN events ELSE Append(events, worker.event)
  /\ worker' = [pc |-> "look", event |-> <<>>, left |-> {}]
  /\ workerOnly /\ UNCHANGED <<jobs, state, errors, ack>>

\* A worker that does not look at its permission before scanning.
MayScanAlways == TRUE

MayScan == enabled

Look ==
  /\ worker.pc = "look"
  /\ worker' = IF MayScan THEN [worker EXCEPT !.pc = "scan", !.left = Ops]
                          ELSE [worker EXCEPT !.pc = "recv"]
  /\ workerOnly /\ UNCHANGED <<jobs, events, state, errors, ack>>

\* One target of the scan: its pending transfer is claimed and handed to the
\* window when the chat can take it, and passed over otherwise.
Scan ==
  /\ worker.pc = "scan"
  /\ \/ /\ worker.left = {} /\ worker' = [worker EXCEPT !.pc = "recv"]
        /\ UNCHANGED state
     \/ \E o \in worker.left :
          /\ worker' = [worker EXCEPT !.left = @ \ {o}]
          /\ UNCHANGED state
     \/ \E o \in worker.left :
          /\ state[o] = "pending" /\ Claimed(o)
          /\ worker' = [pc |-> "hand", event |-> <<"Deliver", o>>,
                        left |-> worker.left \ {o}]
  /\ workerOnly /\ UNCHANGED <<jobs, events, errors, ack>>

Hand ==
  /\ worker.pc = "hand" /\ Len(events) < Capacity
  /\ events' = Append(events, worker.event)
  /\ worker' = [worker EXCEPT !.pc = "scan", !.event = <<>>]
  /\ workerOnly /\ UNCHANGED <<jobs, state, errors, ack>>

Worker == TakeJob \/ Timeout \/ Emit \/ Look \/ Scan \/ Hand

(***************************************************************************)
(* The window while it is open.                                             *)
(***************************************************************************)

windowOnly == UNCHANGED <<state, worker, errors>>

\* A job for the user is refused when the channel is full.
Submit(job) ==
  /\ window = "open" /\ asked < MaxJobs
  /\ asked' = asked + 1
  /\ jobs' = IF Len(jobs) < Capacity THEN Append(jobs, job) ELSE jobs
  /\ windowOnly
  /\ UNCHANGED <<events, enabled, receipts, window, ack, after, failure>>

\* The recipient answers through its bridge, perhaps before the receipt.
RecipientReplies(o) ==
  /\ state[o] \in {"dispatching", "input_queued"}
  /\ state' = [state EXCEPT ![o] = "completed"]
  /\ UNCHANGED <<jobs, events, enabled, worker, errors, receipts, window,
                 ack, after, failure, asked>>

\* Losing the profile, or joining a shared session, takes the permission away
\* and a later frame may give it back.
Permission ==
  /\ window = "open" /\ enabled' = ~enabled
  /\ windowOnly
  /\ UNCHANGED <<jobs, events, receipts, window, ack, after, failure, asked>>

\* A frame posts the receipts that fit, ...
PostReceipt ==
  /\ window = "open" /\ receipts # <<>> /\ Len(jobs) < Capacity
  /\ jobs' = Append(jobs, Head(receipts)) /\ receipts' = Tail(receipts)
  /\ windowOnly
  /\ UNCHANGED <<events, enabled, window, ack, after, failure, asked>>

\* ... takes the events, types a prompt it is handed, if it may and the terminal
\* is still the right one, and owes the worker a receipt either way.
TakeEvent ==
  /\ window = "open" /\ events # <<>>
  /\ events' = Tail(events)
  /\ IF Head(events)[1] # "Deliver" THEN UNCHANGED receipts
     ELSE \E ok \in {enabled, FALSE} :
       receipts' = Append(receipts, <<"Delivered", Head(events)[2], ok>>)
  /\ windowOnly
  /\ UNCHANGED <<jobs, enabled, window, ack, after, failure, asked>>

(***************************************************************************)
(* Closing: finish() takes the permission away and loops over four steps,   *)
(* each of which may find nothing to do, until a barrier comes back with    *)
(* no receipt behind it.                                                    *)
(***************************************************************************)

Close ==
  /\ window = "open"
  /\ window' = "closing" /\ enabled' = FALSE
  /\ windowOnly
  /\ UNCHANGED <<jobs, events, receipts, ack, after, failure, asked>>

\* An event that waits; a delivery is refused without typing it.
Drained ==
  /\ events # <<>> /\ events' = Tail(events)
  /\ receipts' = IF Head(events)[1] # "Deliver" THEN receipts
                 ELSE Append(receipts, <<"Delivered", Head(events)[2], FALSE>>)
  /\ failure' = (failure \/ Head(events)[1] = "Error")

DrainEvents ==
  /\ window = "closing" /\ Drained
  /\ windowOnly /\ UNCHANGED <<jobs, enabled, window, ack, after, asked>>

PostClosing ==
  /\ window = "closing" /\ receipts # <<>> /\ Len(jobs) < Capacity
  /\ jobs' = Append(jobs, Head(receipts)) /\ receipts' = Tail(receipts)
  /\ after' = TRUE
  /\ windowOnly /\ UNCHANGED <<events, enabled, window, ack, failure, asked>>

\* A barrier taken at its word.
BarrierProvesAlone == receipts = <<>>

\* A barrier that was posted before the last receipts proves nothing of them.
BarrierProves == ~after /\ receipts = <<>>

\* The barrier came back, and the events before it were drained.
TakeAck ==
  /\ window = "closing" /\ ack \in {"ok", "error"} /\ events = <<>>
  /\ failure' = (failure \/ ack = "error")
  /\ ack' = "none"
  /\ window' = IF ~BarrierProves THEN window
               ELSE IF failure' THEN "unsaved" ELSE "saved"
  /\ windowOnly /\ UNCHANGED <<jobs, events, enabled, receipts, after, asked>>

PostBarrier ==
  /\ window = "closing" /\ ack = "none" /\ receipts = <<>> /\ Len(jobs) < Capacity
  /\ jobs' = Append(jobs, <<"Flush">>) /\ ack' = "posted" /\ after' = FALSE
  /\ windowOnly /\ UNCHANGED <<events, enabled, receipts, window, failure, asked>>

\* Three seconds have passed.
Deadline ==
  /\ window = "closing"
  /\ window' = "late"
  /\ windowOnly
  /\ UNCHANGED <<jobs, events, enabled, receipts, ack, after, failure, asked>>

Closing == DrainEvents \/ PostClosing \/ TakeAck \/ PostBarrier

Next ==
  \/ Worker \/ Closing \/ Close \/ Deadline \/ Permission \/ PostReceipt \/ TakeEvent
  \/ Submit(<<"Ask">>)
  \/ \E o \in Ops : \/ Submit(<<"DeliverNow", o>>) \/ RecipientReplies(o)
                    \/ \E ok \in BOOLEAN : Submit(<<"Resolve", o, ok>>)

\* The worker's thread and the closing loop run; nothing else has to.
Spec == Init /\ [][Next]_vars /\ WF_vars(Worker) /\ WF_vars(Closing)

-----------------------------------------------------------------------------
\* When closing reports that the conversations are saved, every delivery that
\* the worker claimed, however late, has its durable outcome, and no receipt
\* failed (finish, app/conversation_ui.rs:196).
SavedMeansSettled == window = "saved" =>
  errors = {} /\ \A o \in Ops : state[o] # "dispatching"

IsClosing == window = "closing"

\* Closing ends by itself, whatever fills the two channels: the worker never
\* waits for the window while the window waits for the worker
\* (app/conversation_ui.rs:224).
ClosingEnds == IsClosing ~> ~IsClosing

(***************************************************************************)
(* Proof that saved means settled, for any number of transfers and slots.   *)
(***************************************************************************)
Jobs == {<<"Ask">>, <<"Flush">>} \union ({"DeliverNow"} \X Ops)
          \union ({"Resolve", "Delivered"} \X Ops \X BOOLEAN)
Events == {<<"Info">>, <<"Error">>} \union ({"Deliver"} \X Ops)

Receipts == {"Delivered"} \X Ops \X BOOLEAN

ChannelsOK == jobs \in Seq(Jobs) /\ events \in Seq(Events) /\ receipts \in Seq(Receipts)
WorkerOK ==
  /\ worker \in [pc : {"recv", "emit", "look", "scan", "hand"},
                 event : Events \union {<<>>}, left : SUBSET Ops]
  /\ worker.pc = "hand" => worker.event # <<>>
JournalOK ==
  /\ state \in [Ops -> {"pending", "dispatching", "input_queued", "failed", "completed"}]
  /\ errors \subseteq Ops
WindowOK ==
  /\ enabled \in BOOLEAN /\ after \in BOOLEAN /\ failure \in BOOLEAN
  /\ window \in {"open", "closing", "saved", "unsaved", "late"}
  /\ ack \in {"none", "posted", "ok", "error"}

TypeOK == ChannelsOK /\ WorkerOK /\ JournalOK /\ WindowOK

\* Some element of s is of the kind k and about the transfer o.
Holds(s, k, o) == \E i \in DOMAIN s : s[i][1] = k /\ s[i][2] = o

\* A claimed delivery is in somebody's hands until it has its outcome: the
\* worker's, on its way to the window, owed by the window or on its way back.
InHand(o) == worker.pc \in {"emit", "hand"} /\ worker.event = <<"Deliver", o>>
AccountedFor(o) ==
  InHand(o) \/ Holds(events, "Deliver", o) \/ Holds(receipts, "Delivered", o)
            \/ Holds(jobs, "Delivered", o)
Accounted == \A o \in Ops : state[o] = "dispatching" => AccountedFor(o)

\* Nothing is asked of the worker any more and it may not claim anything.
Quiet ==
  /\ jobs = <<>> /\ enabled = FALSE
  /\ worker.pc \in {"recv", "emit", "look"} /\ (worker.pc = "emit" => worker.event = <<>>)

\* There is one barrier at most; it is the last job unless a receipt was posted
\* behind it, and when it comes back then the worker is quiet.
IsBarrier(i) == i \in DOMAIN jobs /\ jobs[i] = <<"Flush">>
OneBarrier ==
  \A i \in DOMAIN jobs : IsBarrier(i) =>
    ack = "posted" /\ \A j \in DOMAIN jobs : IsBarrier(j) => i = j
DoorsAreShut == IF window = "open" THEN ack = "none" ELSE enabled = FALSE
BarrierIsLast ==
  window = "closing" /\ ack = "posted" /\ ~after => jobs # <<>> /\ IsBarrier(Len(jobs))
BarrierIsBack ==
  window = "closing" /\ ack \in {"ok", "error"} /\ ~after =>
    Quiet /\ (ack = "ok" => errors = {})

IInv ==
  /\ TypeOK /\ Accounted
  /\ OneBarrier /\ DoorsAreShut /\ BarrierIsLast /\ BarrierIsBack
  /\ window = "saved" => Quiet
  /\ SavedMeansSettled

(* What a sequence holds after an element was added to it, or taken.       *)
LEMMA HoldsOfAppend ==
  ASSUME NEW S, NEW s \in Seq(S), NEW e \in S
  PROVE  /\ Append(s, e) \in Seq(S)
         /\ \A k, o : Holds(s, k, o) => Holds(Append(s, e), k, o)
         /\ Holds(Append(s, e), e[1], e[2])
<1>1. Append(s, e) \in Seq(S) /\ DOMAIN s \subseteq DOMAIN Append(s, e)
      /\ \A i \in DOMAIN s : Append(s, e)[i] = s[i]
  OBVIOUS
<1>2. Len(s) + 1 \in DOMAIN Append(s, e) /\ Append(s, e)[Len(s) + 1] = e
  OBVIOUS
<1> QED
  BY <1>1, <1>2 DEF Holds

LEMMA HoldsOfTail ==
  ASSUME NEW S, NEW s \in Seq(S), s # <<>>
  PROVE  /\ Tail(s) \in Seq(S) /\ Head(s) \in S
         /\ \A k, o : Holds(s, k, o) => Holds(Tail(s), k, o) \/ (Head(s)[1] = k /\ Head(s)[2] = o)
<1>1. /\ Tail(s) \in Seq(S) /\ Head(s) \in S /\ Head(s) = s[1]
      /\ \A i \in DOMAIN s : i = 1 \/ (i - 1 \in DOMAIN Tail(s) /\ Tail(s)[i - 1] = s[i])
  OBVIOUS
<1> QED
  BY <1>1 DEF Holds

(* What travels in the two channels.                                       *)
LEMMA Messages ==
  /\ \A e \in Events : e[1] = "Deliver" => e[2] \in Ops /\ e = <<"Deliver", e[2]>>
  /\ \A o \in Ops : <<"Deliver", o>> \in Events
  /\ <<"Info">> \in Events /\ <<"Error">> \in Events /\ <<>> \notin Events
  /\ \A j \in Jobs : j[1] \in {"DeliverNow", "Resolve", "Delivered"} => j[2] \in Ops
  /\ <<"Ask">> \in Jobs /\ <<"Flush">> \in Jobs
  /\ \A o \in Ops : <<"DeliverNow", o>> \in Jobs
  /\ \A o \in Ops, ok \in BOOLEAN : <<"Resolve", o, ok>> \in Jobs
  /\ \A o \in Ops, ok \in BOOLEAN : <<"Delivered", o, ok>> \in Receipts
  /\ \A r \in Receipts : r \in Jobs /\ r[1] = "Delivered" /\ r # <<"Flush">>
BY DEF Events, Jobs, Receipts

(* Every step keeps the types.                                             *)
LEMMA ChannelsStep ==
  ASSUME TypeOK, [Next]_vars
  PROVE  ChannelsOK'
<1> USE DEF TypeOK, ChannelsOK
<1>1. ASSUME NEW j \in Jobs, jobs' = Append(jobs, j) \/ UNCHANGED jobs
      PROVE  jobs' \in Seq(Jobs)
  BY <1>1, HoldsOfAppend
<1>2. jobs # <<>> => Tail(jobs) \in Seq(Jobs) /\ Head(jobs) \in Jobs
  OBVIOUS
<1>3. events # <<>> => Tail(events) \in Seq(Events) /\ Head(events) \in Events
  OBVIOUS
<1>4. receipts # <<>> => Tail(receipts) \in Seq(Receipts) /\ Head(receipts) \in Receipts
  OBVIOUS
<1>5. CASE TakeJob \/ Timeout \/ Look \/ Scan
  BY <1>5, <1>2 DEF TakeJob, Timeout, Look, Scan, workerOnly
<1>6. CASE Emit \/ Hand
  <2>1. CASE UNCHANGED events
    BY <1>6, <2>1 DEF Emit, Hand, workerOnly
  <2>2. CASE events' = Append(events, worker.event) /\ worker.event \in Events
    BY <1>6, <2>2, HoldsOfAppend DEF Emit, Hand, workerOnly
  <2> QED
    BY <1>6, <2>1, <2>2 DEF Emit, Hand, WorkerOK
<1>7. CASE DrainEvents \/ TakeEvent
  <2>1. ASSUME NEW ok \in BOOLEAN, Head(events)[1] = "Deliver"
        PROVE  Append(receipts, <<"Delivered", Head(events)[2], ok>>) \in Seq(Receipts)
    <3>1. <<"Delivered", Head(events)[2], ok>> \in Receipts
      BY <1>3, <1>7, <2>1, Messages DEF DrainEvents, Drained, TakeEvent
    <3> QED
      BY <3>1, HoldsOfAppend
  <2>2. receipts' \in Seq(Receipts)
    BY <1>7, <2>1 DEF DrainEvents, Drained, TakeEvent, WindowOK
  <2> QED
    BY <1>3, <1>7, <2>2 DEF DrainEvents, Drained, TakeEvent
<1>8. CASE PostClosing \/ PostReceipt
  BY <1>1, <1>4, <1>8, Messages DEF PostClosing, PostReceipt
<1>9. CASE PostBarrier
  BY <1>1, <1>9, Messages DEF PostBarrier
<1>10. ASSUME NEW job \in Jobs, Submit(job)
       PROVE  ChannelsOK'
  BY <1>1, <1>10 DEF Submit
<1>11. CASE TakeAck \/ Close \/ Deadline \/ Permission \/ UNCHANGED vars
            \/ \E o \in Ops : RecipientReplies(o)
  BY <1>11 DEF TakeAck, Close, Deadline, Permission, RecipientReplies, vars
<1> QED
  BY <1>5, <1>6, <1>7, <1>8, <1>9, <1>10, <1>11, Messages DEF Next, Worker, Closing

LEMMA WorkerStep ==
  ASSUME TypeOK, [Next]_vars
  PROVE  WorkerOK' /\ JournalOK' /\ WindowOK'
<1> USE DEF TypeOK, WorkerOK, JournalOK, WindowOK
<1>1. CASE TakeJob
  <2> USE <1>1 DEF TakeJob, workerOnly
  <2> DEFINE job == Head(jobs)
  <2>1. job \in Jobs
    BY DEF ChannelsOK
  <2>2. job[1] \in {"DeliverNow", "Resolve", "Delivered"} => job[2] \in Ops
    BY <2>1, Messages
  <2> HIDE DEF job
  <2>3. \A e \in Events \union {<<>>} : Then(e) => WorkerOK'
    BY DEF Then
  <2>4. CASE job[1] = "Ask" \/ job[1] = "Flush"
    BY <2>3, <2>4, Messages DEF job
  <2>5. CASE job[1] = "DeliverNow"
    BY <2>2, <2>3, <2>5, Messages DEF job, Claimed
  <2>6. CASE job[1] = "Delivered"
    BY <2>2, <2>3, <2>6, Messages DEF job, Recorded
  <2>7. CASE job[1] = "Resolve"
    BY <2>2, <2>3, <2>7, Messages DEF job, Resolved
  <2> QED
    BY <2>4, <2>5, <2>6, <2>7 DEF job
<1>2. CASE Timeout \/ Look \/ Emit \/ Hand
  <2>1. CASE Timeout
    BY <2>1 DEF Timeout, Then, workerOnly
  <2>2. CASE Emit
    BY <2>2 DEF Emit, workerOnly
  <2>3. CASE Hand
    BY <2>3 DEF Hand, workerOnly
  <2>4. CASE Look
    <3>1. worker' \in {[worker EXCEPT !.pc = "scan", !.left = Ops], [worker EXCEPT !.pc = "recv"]}
      BY <2>4 DEF Look
    <3>2. WorkerOK'
      BY <3>1
    <3> QED
      BY <2>4, <3>2 DEF Look, workerOnly
  <2> QED
    BY <1>2, <2>1, <2>2, <2>3, <2>4
<1>3. CASE Scan
  <2>1. CASE worker.left = {} /\ worker' = [worker EXCEPT !.pc = "recv"] /\ UNCHANGED state
    BY <1>3, <2>1 DEF Scan, workerOnly
  <2>2. ASSUME NEW o \in worker.left, worker' = [worker EXCEPT !.left = @ \ {o}], UNCHANGED state
        PROVE  WorkerOK' /\ JournalOK' /\ WindowOK'
    BY <1>3, <2>2 DEF Scan, workerOnly
  <2>3. ASSUME NEW o \in worker.left, Claimed(o),
               worker' = [pc |-> "hand", event |-> <<"Deliver", o>>, left |-> worker.left \ {o}]
        PROVE  WorkerOK' /\ JournalOK' /\ WindowOK'
    <3>1. <<"Deliver", o>> \in Events /\ <<"Deliver", o>> # <<>>
      BY Messages
    <3> QED
      BY <1>3, <2>3, <3>1 DEF Scan, Claimed, workerOnly
  <2> QED
    BY <1>3, <2>1, <2>2, <2>3 DEF Scan
<1>4. CASE DrainEvents \/ TakeEvent \/ PostClosing \/ PostReceipt \/ PostBarrier \/ TakeAck
           \/ Close \/ Deadline \/ Permission
  BY <1>4, SMTT(40), ZenonT(40) DEF DrainEvents, Drained, TakeEvent, PostClosing, PostReceipt, PostBarrier, TakeAck,
     Close, Deadline, Permission, windowOnly
<1>5. ASSUME NEW job, Submit(job)
      PROVE  WorkerOK' /\ JournalOK' /\ WindowOK'
  BY <1>5 DEF Submit, windowOnly
<1>6. CASE UNCHANGED vars \/ \E o \in Ops : RecipientReplies(o)
  BY <1>6 DEF RecipientReplies, vars
<1> QED
  BY <1>1, <1>2, <1>3, <1>4, <1>5, <1>6 DEF Next, Worker, Closing

(* A claimed delivery stays in somebody's hands until it has its outcome.  *)
LEMMA AccountedStep ==
  ASSUME TypeOK, Accounted, [Next]_vars
  PROVE  Accounted'
<1> SUFFICES ASSUME NEW o \in Ops, state'[o] = "dispatching"
             PROVE  AccountedFor(o)'
  BY DEF Accounted
<1> USE DEF TypeOK, ChannelsOK, WorkerOK, JournalOK
<1>0. state[o] = "dispatching" => AccountedFor(o)
  BY DEF Accounted
<1>1. CASE TakeJob
  <2> DEFINE job == Head(jobs)
  <2>1. /\ Tail(jobs) = jobs' /\ UNCHANGED <<events, receipts>> /\ ~InHand(o)
        /\ Holds(jobs, "Delivered", o) =>
             Holds(jobs', "Delivered", o) \/ (job[1] = "Delivered" /\ job[2] = o)
    BY <1>1, HoldsOfTail DEF TakeJob, workerOnly, InHand
  <2>2. CASE job[1] = "DeliverNow" /\ job[2] = o /\ state[o] = "pending"
    <3>1. worker' = [pc |-> "emit", event |-> <<"Deliver", o>>, left |-> {}]
      BY <1>1, <2>2 DEF TakeJob, Then
    <3> QED
      BY <3>1 DEF AccountedFor, InHand
  <2>3. CASE ~(job[1] = "DeliverNow" /\ job[2] = o /\ state[o] = "pending")
    <3>1. state[o] = "dispatching" /\ ~(job[1] = "Delivered" /\ job[2] = o)
      BY <1>1, <2>3 DEF TakeJob, Claimed, Recorded, Resolved
    <3> QED
      BY <1>0, <2>1, <3>1 DEF AccountedFor
  <2> QED
    BY <2>2, <2>3
<1>2. CASE Timeout \/ Look
  BY <1>0, <1>2 DEF Timeout, Look, Then, workerOnly, AccountedFor, InHand
<1>3. CASE Emit \/ Hand
  <2>1. UNCHANGED <<state, receipts, jobs>>
    BY <1>3 DEF Emit, Hand, workerOnly
  <2>2. CASE UNCHANGED events /\ worker.event = <<>>
    BY <1>0, <2>1, <2>2 DEF AccountedFor, InHand
  <2>3. CASE events' = Append(events, worker.event) /\ worker.event \in Events
    <3>1. Holds(events, "Deliver", o) \/ worker.event = <<"Deliver", o>> => Holds(events', "Deliver", o)
      BY <2>3, HoldsOfAppend
    <3> QED
      BY <1>0, <2>1, <3>1 DEF AccountedFor, InHand
  <2> QED
    BY <1>3, <2>2, <2>3 DEF Emit, Hand
<1>4. CASE Scan
  <2>1. UNCHANGED <<jobs, events, receipts>> /\ ~InHand(o)
    BY <1>4 DEF Scan, workerOnly, InHand
  <2>2. CASE state[o] = "dispatching"
    BY <1>0, <2>1, <2>2 DEF AccountedFor
  <2>3. CASE state[o] # "dispatching"
    <3>1. worker'.pc = "hand" /\ worker'.event = <<"Deliver", o>>
      BY <1>4, <2>3 DEF Scan, Claimed
    <3> QED
      BY <3>1 DEF AccountedFor, InHand
  <2> QED
    BY <2>2, <2>3
<1>5. CASE DrainEvents \/ TakeEvent
  <2>1. UNCHANGED <<state, worker, jobs>>
    BY <1>5 DEF DrainEvents, TakeEvent, windowOnly
  <2>2. events' = Tail(events) /\ events # <<>> /\ Head(events) \in Events
    BY <1>5, HoldsOfTail DEF DrainEvents, Drained, TakeEvent
  <2>3. Holds(events, "Deliver", o) =>
          Holds(events', "Deliver", o) \/ (Head(events)[1] = "Deliver" /\ Head(events)[2] = o)
    BY <2>2, HoldsOfTail
  <2>4. CASE Head(events)[1] # "Deliver"
    <3>1. UNCHANGED receipts
      BY <1>5, <2>4 DEF DrainEvents, Drained, TakeEvent
    <3> QED
      BY <1>0, <2>1, <2>3, <2>4, <3>1 DEF AccountedFor, InHand
  <2>5. CASE Head(events)[1] = "Deliver"
    <3>1. PICK ok \in BOOLEAN : receipts' = Append(receipts, <<"Delivered", Head(events)[2], ok>>)
      BY <1>5, <2>5 DEF DrainEvents, Drained, TakeEvent, WindowOK
    <3>2. <<"Delivered", Head(events)[2], ok>> \in Receipts
      BY <2>2, <2>5, Messages
    <3>3. /\ Holds(receipts, "Delivered", o) => Holds(receipts', "Delivered", o)
          /\ Holds(receipts', "Delivered", Head(events)[2])
      BY <3>1, <3>2, HoldsOfAppend
    <3> QED
      BY <1>0, <2>1, <2>3, <3>3 DEF AccountedFor, InHand
  <2> QED
    BY <2>4, <2>5
<1>6. CASE PostClosing \/ PostReceipt
  <2>1. UNCHANGED <<state, worker, events>> /\ receipts # <<>>
        /\ jobs' = Append(jobs, Head(receipts)) /\ receipts' = Tail(receipts)
    BY <1>6 DEF PostClosing, PostReceipt, windowOnly
  <2>2. Head(receipts) \in Jobs /\ Head(receipts)[1] = "Delivered"
    BY <2>1, HoldsOfTail, Messages
  <2>3. Holds(receipts, "Delivered", o) => Holds(receipts', "Delivered", o) \/ Head(receipts)[2] = o
    BY <2>1, HoldsOfTail
  <2>4. /\ Holds(jobs, "Delivered", o) => Holds(jobs', "Delivered", o)
        /\ Holds(jobs', "Delivered", Head(receipts)[2])
    BY <2>1, <2>2, HoldsOfAppend
  <2> QED
    BY <1>0, <2>1, <2>3, <2>4 DEF AccountedFor, InHand
<1>7. ASSUME NEW j \in Jobs, jobs' \in {jobs, Append(jobs, j)},
             UNCHANGED <<state, worker, events, receipts>>
      PROVE  AccountedFor(o)'
  <2>1. Holds(jobs, "Delivered", o) => Holds(Append(jobs, j), "Delivered", o)
    BY HoldsOfAppend
  <2> QED
    BY <1>0, <1>7, <2>1 DEF AccountedFor, InHand
<1>8. CASE PostBarrier
  BY <1>7, <1>8, Messages DEF PostBarrier, windowOnly
<1>9. ASSUME NEW job \in Jobs, Submit(job)
      PROVE  AccountedFor(o)'
  BY <1>7, <1>9 DEF Submit, windowOnly
<1>10. CASE \E p \in Ops : RecipientReplies(p)
  BY <1>0, <1>10 DEF RecipientReplies, AccountedFor, InHand
<1>11. CASE TakeAck \/ Close \/ Deadline \/ Permission \/ UNCHANGED vars
  BY <1>0, <1>11 DEF TakeAck, Close, Deadline, Permission, windowOnly, vars, AccountedFor, InHand
<1> QED
  BY <1>1, <1>2, <1>3, <1>4, <1>5, <1>6, <1>8, <1>9, <1>10, <1>11, Messages
     DEF Next, Worker, Closing

(* A barrier is never joined by a second one and is overtaken by nothing   *)
(* but a receipt that was posted behind it.                                *)
LEMMA BarrierStep ==
  ASSUME IInv, [Next]_vars
  PROVE  OneBarrier' /\ DoorsAreShut' /\ BarrierIsLast' /\ BarrierIsBack'
<1> DEFINE Goal == OneBarrier /\ DoorsAreShut /\ BarrierIsLast /\ BarrierIsBack
<1> SUFFICES Goal'
  OBVIOUS
<1> USE DEF IInv, TypeOK, ChannelsOK
<1>1. CASE TakeJob
  <2> DEFINE job == Head(jobs)
  <2>1. /\ jobs # <<>> /\ jobs' = Tail(jobs) /\ job \in Jobs /\ job = jobs[1]
        /\ Len(jobs') = Len(jobs) - 1 /\ Len(jobs) \in Nat \ {0}
        /\ DOMAIN jobs = 1..Len(jobs) /\ DOMAIN jobs' = 1..Len(jobs')
        /\ \A i \in DOMAIN jobs' : i + 1 \in DOMAIN jobs /\ jobs'[i] = jobs[i + 1]
    BY <1>1, HoldsOfTail DEF TakeJob
  <2>2. UNCHANGED <<enabled, window, after>>
    BY <1>1 DEF TakeJob, workerOnly
  <2>3. job[1] = "Flush" <=> job = <<"Flush">>
    BY <2>1 DEF Jobs
  <2>4. CASE job[1] = "Flush"
    <3>1. IsBarrier(1) /\ ack = "posted" /\ \A j \in DOMAIN jobs : IsBarrier(j) => j = 1
      BY <2>1, <2>3, <2>4, SMTT(40), ZenonT(40) DEF IsBarrier, OneBarrier
    <3>2. OneBarrier'
      BY <2>1, <3>1 DEF OneBarrier, IsBarrier
    <3>3. window # "open" /\ DoorsAreShut'
      BY <2>2, <3>1 DEF DoorsAreShut
    <3>4. ack' = IF errors = {} THEN "ok" ELSE "error"
      BY <1>1, <2>4 DEF TakeJob
    <3>5. worker'.pc = "emit" /\ worker'.event = <<>> /\ UNCHANGED errors
      BY <1>1, <2>4 DEF TakeJob, Then
    <3>6. window = "closing" /\ ~after => jobs' = <<>>
      <4>1. window = "closing" /\ ~after => Len(jobs) = 1
        BY <2>1, <3>1 DEF BarrierIsLast
      <4> QED
        BY <2>1, <4>1
    <3> QED
      BY <2>2, <3>2, <3>3, <3>4, <3>5, <3>6 DEF BarrierIsLast, BarrierIsBack, Quiet, DoorsAreShut
  <2>5. CASE job[1] # "Flush"
    <3>1. UNCHANGED ack /\ ~IsBarrier(1)
      BY <1>1, <2>1, <2>3, <2>5 DEF TakeJob, IsBarrier
    <3>2. OneBarrier'
      <4>1. \A i \in DOMAIN jobs' : IsBarrier(i)' => i \in Nat /\ i + 1 \in DOMAIN jobs /\ IsBarrier(i + 1)
        BY <2>1 DEF IsBarrier
      <4>2. SUFFICES ASSUME NEW i \in DOMAIN jobs', IsBarrier(i)'
                     PROVE  ack' = "posted" /\ \A j \in DOMAIN jobs' : IsBarrier(j)' => i = j
        BY DEF OneBarrier
      <4>3. ack = "posted" /\ \A j \in DOMAIN jobs' : IsBarrier(j)' => i + 1 = j + 1
        BY <4>1, <4>2 DEF OneBarrier
      <4> QED
        BY <3>1, <4>1, <4>2, <4>3
    <3>3. BarrierIsLast'
      <4>1. SUFFICES ASSUME window = "closing", ack = "posted", ~after
                     PROVE  jobs' # <<>> /\ IsBarrier(Len(jobs))
        BY <2>1, <2>2, <3>1, <4>1 DEF BarrierIsLast, IsBarrier
      <4>2. IsBarrier(Len(jobs))
        BY <4>1 DEF BarrierIsLast
      <4>3. Len(jobs) # 1
        BY <3>1, <4>2
      <4>4. Len(jobs') > 0
        BY <2>1, <4>3
      <4> QED
        BY <4>2, <4>4
    <3>4. BarrierIsBack'
      BY <2>1, <2>2, <3>1 DEF BarrierIsBack, Quiet
    <3> QED
      BY <2>2, <3>1, <3>2, <3>3, <3>4 DEF DoorsAreShut
  <2> QED
    BY <2>4, <2>5
<1>2. CASE Timeout \/ Emit \/ Look \/ Scan \/ Hand
  <2>1. UNCHANGED <<jobs, enabled, window, after, ack, errors>>
    BY <1>2 DEF Timeout, Emit, Look, Scan, Hand, workerOnly
  <2>2. Quiet => Quiet'
    BY <1>2, <2>1 DEF Timeout, Emit, Look, MayScan, Scan, Hand, Then, Quiet, WorkerOK
  <2> QED
    BY <2>1, <2>2 DEF OneBarrier, IsBarrier, DoorsAreShut, BarrierIsLast, BarrierIsBack
<1>3. CASE DrainEvents \/ TakeEvent \/ Permission \/ UNCHANGED vars
           \/ \E o \in Ops : RecipientReplies(o)
  <2>1. UNCHANGED <<jobs, window, after, ack, errors, worker>>
        /\ (UNCHANGED enabled \/ window = "open")
    BY <1>3 DEF DrainEvents, TakeEvent, Permission, RecipientReplies, windowOnly, vars
  <2> QED
    BY <2>1 DEF OneBarrier, IsBarrier, DoorsAreShut, BarrierIsLast, BarrierIsBack, Quiet
<1>4. CASE Close \/ Deadline \/ TakeAck
  <2>1. UNCHANGED jobs /\ (ack' = ack \/ (ack' = "none" /\ TakeAck))
    BY <1>4 DEF Close, Deadline, TakeAck
  <2>2. OneBarrier'
    BY <1>4, <2>1 DEF OneBarrier, IsBarrier, TakeAck
  <2> QED
    BY <1>4, <2>2 DEF Close, Deadline, TakeAck, DoorsAreShut, BarrierIsLast, BarrierIsBack
<1>5. ASSUME NEW j \in Jobs, j # <<"Flush">>, jobs' \in {jobs, Append(jobs, j)}
      PROVE  OneBarrier \/ ack # "posted" => \A i \in DOMAIN jobs' : IsBarrier(i)' => IsBarrier(i)
  BY <1>5 DEF IsBarrier
<1>6. CASE PostClosing \/ PostReceipt
  <2>1. /\ Head(receipts) \in Jobs /\ Head(receipts) # <<"Flush">>
        /\ jobs' = Append(jobs, Head(receipts)) /\ UNCHANGED <<ack, window, enabled>>
        /\ after' = TRUE \/ window = "open"
    BY <1>6, HoldsOfTail, Messages DEF PostClosing, PostReceipt
  <2>2. OneBarrier'
    BY <1>5, <2>1 DEF OneBarrier, IsBarrier
  <2> QED
    BY <2>1, <2>2 DEF DoorsAreShut, BarrierIsLast, BarrierIsBack
<1>7. ASSUME NEW job \in Jobs, job # <<"Flush">>, Submit(job)
      PROVE  Goal'
  <2>1. OneBarrier'
    BY <1>5, <1>7 DEF Submit, OneBarrier, IsBarrier
  <2> QED
    BY <1>7, <2>1 DEF Submit, DoorsAreShut, BarrierIsLast, BarrierIsBack
<1>8. CASE PostBarrier
  <2>1. /\ jobs' = Append(jobs, <<"Flush">>) /\ ack' = "posted" /\ ~after' /\ ack = "none"
        /\ UNCHANGED <<window, enabled>> /\ window = "closing"
    BY <1>8 DEF PostBarrier
  <2>2. \A i \in DOMAIN jobs : ~IsBarrier(i)
    BY <2>1 DEF OneBarrier
  <2>3. \A i \in DOMAIN jobs' : IsBarrier(i)' <=> i = Len(jobs')
    BY <2>1, <2>2 DEF IsBarrier
  <2>4. jobs' # <<>> /\ Len(jobs') \in DOMAIN jobs'
    BY <2>1
  <2> QED
    BY <2>1, <2>3, <2>4 DEF OneBarrier, DoorsAreShut, BarrierIsLast, BarrierIsBack
<1>9. \A o \in Ops : \A ok \in BOOLEAN :
        /\ <<"DeliverNow", o>> # <<"Flush">> /\ <<"Resolve", o, ok>> # <<"Flush">>
        /\ <<"Ask">> # <<"Flush">>
  OBVIOUS
<1> QED
  BY <1>1, <1>2, <1>3, <1>4, <1>6, <1>7, <1>8, <1>9, Messages DEF Next, Worker, Closing

(* A barrier that proves leaves nothing open, and nothing is opened later. *)
LEMMA SavedStep ==
  ASSUME IInv, [Next]_vars
  PROVE  (window = "saved" => Quiet)' /\ SavedMeansSettled'
<1> SUFFICES ASSUME window' = "saved"
             PROVE  Quiet' /\ errors' = {} /\ \A o \in Ops : state'[o] # "dispatching"
  BY DEF SavedMeansSettled
<1> USE DEF IInv
<1>1. CASE window = "saved"
  <2>1. Quiet /\ errors = {} /\ \A o \in Ops : state[o] # "dispatching"
    BY <1>1 DEF SavedMeansSettled
  <2>2. CASE UNCHANGED <<jobs, enabled, worker, errors, state>>
    BY <2>1, <2>2 DEF Quiet
  <2>3. CASE Timeout \/ Emit \/ Look
    BY <2>1, <2>3 DEF Timeout, Emit, Look, MayScan, Then, workerOnly, Quiet, TypeOK, WorkerOK
  <2>4. CASE TakeJob \/ Scan \/ Hand
    BY <2>1, <2>4 DEF TakeJob, Scan, Hand, Quiet
  <2>5. ASSUME NEW o \in Ops, RecipientReplies(o)
        PROVE  Quiet' /\ errors' = {} /\ \A p \in Ops : state'[p] # "dispatching"
    BY <2>1, <2>5 DEF RecipientReplies, Quiet, TypeOK, JournalOK
  <2> QED
    BY <1>1, <2>2, <2>3, <2>4, <2>5
       DEF Next, Worker, Closing, DrainEvents, PostClosing, TakeAck, PostBarrier, Close, Deadline,
           Permission, PostReceipt, TakeEvent, Submit, vars
<1>2. CASE window # "saved"
  <2>1. TakeAck
    BY <1>2 DEF Next, Worker, TakeJob, Timeout, Emit, Look, Scan, Hand, workerOnly, Closing,
       DrainEvents, PostClosing, PostBarrier, Close, Deadline, Permission, PostReceipt,
       TakeEvent, Submit, RecipientReplies, vars
  <2>2. /\ window = "closing" /\ ack = "ok" /\ ~after /\ events = <<>> /\ receipts = <<>>
        /\ UNCHANGED <<jobs, enabled, worker, errors, state>>
    BY <1>2, <2>1 DEF TakeAck, BarrierProves, windowOnly
  <2>3. Quiet /\ errors = {}
    BY <2>2 DEF BarrierIsBack
  <2>4. \A o \in Ops : ~AccountedFor(o)
    BY <2>2, <2>3 DEF AccountedFor, Holds, InHand, Quiet
  <2> QED
    BY <2>2, <2>3, <2>4 DEF Accounted, Quiet
<1> QED
  BY <1>1, <1>2

(* Nothing was asked yet.                                                  *)
LEMMA InitIsSettled == Init => IInv
<1> SUFFICES ASSUME Init
             PROVE  IInv
  OBVIOUS
<1>1. TypeOK
  <2>1. ChannelsOK
    BY DEF Init, ChannelsOK
  <2>2. WorkerOK
    BY DEF Init, WorkerOK
  <2>3. JournalOK /\ WindowOK
    BY DEF Init, JournalOK, WindowOK
  <2> QED
    BY <2>1, <2>2, <2>3 DEF TypeOK
<1>2. Accounted /\ SavedMeansSettled /\ (window = "saved" => Quiet)
  BY DEF Init, Accounted, SavedMeansSettled
<1>3. OneBarrier /\ DoorsAreShut /\ BarrierIsLast /\ BarrierIsBack
  BY DEF Init, OneBarrier, IsBarrier, DoorsAreShut, BarrierIsLast, BarrierIsBack
<1> QED
  BY <1>1, <1>2, <1>3 DEF IInv

(* When closing the window reports the conversations as saved (finish in   *)
(* conversation_ui.rs), no delivery that the worker claimed is without its *)
(* durable outcome, whatever was in the two channels: for any number of    *)
(* transfers, of slots and of jobs.                                        *)
THEOREM SavedIsSettled == Spec => []SavedMeansSettled
<1>1. IInv /\ [Next]_vars => IInv'
  BY ChannelsStep, WorkerStep, AccountedStep, BarrierStep, SavedStep DEF IInv, TypeOK
<1>2. IInv => SavedMeansSettled
  BY DEF IInv
<1> QED
  BY InitIsSettled, <1>1, <1>2, PTL DEF Spec
=============================================================================
