--------------------------- MODULE PromptDelivery ---------------------------
(***************************************************************************)
(* Texts the app types into its terminals: the startup input of a new      *)
(* session, prompts that wait for the program to draw something, prompts    *)
(* for a terminal in use, and one text broadcast to several terminals       *)
(* (runtime/pty_manager.rs, runtime/prompt_delivery.rs,                     *)
(* terminal/input_writer.rs, app/broadcast_ui.rs).  Each terminal has its   *)
(* own writer thread and a bounded queue of input.                          *)
(*                                                                         *)
(* A text is a number; text 0 is the startup input.  A text takes one unit  *)
(* of the input budget.  The terminal itself (it draws, ends, loses its     *)
(* connection or gets it back) is the environment.                          *)
(***************************************************************************)
EXTENDS Integers, Sequences, FiniteSets

CONSTANTS
    Panels,
    MaxTexts,           \* bound: prompts written in all
    MaxReplaced,        \* bound: sessions replaced in all panels
    MAX_INPUT_BYTES     \* budget of a terminal's input queue, in texts

VARIABLES
    term,       \* ManagedSession of each panel, with its slots
    writer,     \* InputWriter of each panel
    typed,      \* texts each panel's queue accepted, with the session
    texts,      \* prompts written so far
    channel,    \* the channel behind the receipt of a tracked prompt
    receipt,    \* what its holder knows of it
    broadcast   \* BroadcastState, <<>> when the dialog is closed

vars == <<term, writer, typed, texts, channel, receipt, broadcast>>

Texts == 1 .. MaxTexts
OpenWriter == [pending |-> <<>>, flight |-> <<>>, buffered |-> 0,
               closed |-> FALSE, finishing |-> FALSE]
NewSession(g) == [gen |-> g, handle |-> "none", recoverable |-> TRUE, started |-> FALSE,
                  startup |-> <<>>, prompt |-> <<>>]

Init == /\ term = [p \in Panels |-> NewSession(1)]
        /\ writer = [p \in Panels |-> OpenWriter]
        /\ typed = [p \in Panels |-> <<>>]
        /\ texts = 0
        /\ channel = [t \in Texts |-> "none"] /\ receipt = [t \in Texts |-> "none"]
        /\ broadcast = <<>>

-----------------------------------------------------------------------------
(* InputWriter.                                                             *)

\* check_open and enqueue: all of a text or none of it.
InputOpen(w) == ~w.closed /\ ~w.finishing
Enqueue(w) == IF ~InputOpen(w) THEN "broken"
              ELSE IF w.buffered + 1 > MAX_INPUT_BYTES THEN "full" ELSE "ok"
Enqueued(w, t) == [w EXCEPT !.buffered = @ + 1, !.pending = Append(@, t)]
Types(p, t) == /\ writer' = [writer EXCEPT ![p] = Enqueued(@, t)]
               /\ typed' = [typed EXCEPT ![p] = Append(@, [gen |-> term[p].gen, text |-> t])]

\* run_input_worker takes the next text; it returns once the queue is closed
\* or its last message is out.
TakeInput(p) ==
    /\ writer[p].flight = <<>> /\ ~writer[p].closed /\ writer[p].pending # <<>>
    /\ writer' = [writer EXCEPT ![p].flight = <<Head(writer[p].pending)>>, ![p].pending = Tail(@)]
    /\ UNCHANGED <<term, typed, texts, channel, receipt, broadcast>>
\* write_input_batch ends: everything went, the queue was closed meanwhile,
\* or the terminal refused and the rest of the queue is given up.
ReleasedNothing(n) == n
Released(n) == IF n > 0 THEN n - 1 ELSE 0
Written(p) ==
    /\ writer[p].flight # <<>> /\ ~writer[p].closed
    /\ writer' = [writer EXCEPT ![p].flight = <<>>, ![p].buffered = Released(@)]
    /\ UNCHANGED <<term, typed, texts, channel, receipt, broadcast>>
WriteStops(p) ==
    /\ writer[p].flight # <<>> /\ writer[p].closed
    /\ writer' = [writer EXCEPT ![p].flight = <<>>, ![p].buffered = Released(@)]
    /\ UNCHANGED <<term, typed, texts, channel, receipt, broadcast>>
WriteFails(p) ==
    /\ writer[p].flight # <<>>
    /\ writer' = [writer EXCEPT ![p] = [OpenWriter EXCEPT !.closed = TRUE]]
    /\ UNCHANGED <<term, typed, texts, channel, receipt, broadcast>>

Closed(w) == [w EXCEPT !.closed = TRUE, !.pending = <<>>, !.buffered = 0]
\* enqueue_final: the last message takes the place of what is queued.
EnqueueFinal(p) ==
    /\ term[p].handle = "live" /\ InputOpen(writer[p])
    /\ writer' = [writer EXCEPT ![p] =
            [@ EXCEPT !.buffered = @ - Len(writer[p].pending) + 1, !.pending = <<-1>>, !.finishing = TRUE]]
    /\ UNCHANGED <<term, typed, texts, channel, receipt, broadcast>>

-----------------------------------------------------------------------------
(* The terminal, as the app sees it.                                        *)

\* collect_remote_completions publishes a handle: configure_startup_input,
\* and the prompts that waited for it are armed.  ready is output_ready; a
\* startup input without a startup command is typed at once.
Armed(slot, ready) == IF slot = <<>> THEN slot
                      ELSE <<[slot[1] EXCEPT !.ready = @ \/ ready, !.defer = FALSE]>>
Slot(t, ready, defer) == <<[text |-> t, ready |-> ready, cancelled |-> FALSE, defer |-> defer]>>
Attach(p, ready, command) ==
    /\ term[p].handle = "none" /\ term[p].recoverable
    /\ LET first == ~term[p].started
           now == [term[p] EXCEPT !.handle = "live", !.started = TRUE,
                                  !.startup = IF first /\ command THEN Slot(0, ready, FALSE) ELSE @,
                                  !.prompt = Armed(@, ready)]
       IN /\ term' = [term EXCEPT ![p] = now]
          /\ IF first /\ ~command
             THEN /\ writer' = [writer EXCEPT ![p] = Enqueued(OpenWriter, 0)]
                  /\ typed' = [typed EXCEPT ![p] = Append(@, [gen |-> term[p].gen, text |-> 0])]
             ELSE writer' = [writer EXCEPT ![p] = OpenWriter] /\ UNCHANGED typed
    /\ UNCHANGED <<texts, channel, receipt, broadcast>>
\* The program draws: is_ready.
Render(p) ==
    /\ term[p].handle = "live"
    /\ term' = [term EXCEPT ![p].startup = Armed(@, TRUE), ![p].prompt = Armed(@, TRUE)]
    /\ term' # term
    /\ UNCHANGED <<writer, typed, texts, channel, receipt, broadcast>>
\* The transport breaks, or the program ends.
Ends(p, how) ==
    /\ term[p].handle = "live"
    /\ term' = [term EXCEPT ![p].handle = how]
    /\ writer' = [writer EXCEPT ![p] = IF how = "lost" THEN Closed(@) ELSE @]
    /\ UNCHANGED <<typed, texts, channel, receipt, broadcast>>
\* The recovery is refused for good.
Refused(p) ==
    /\ term[p].handle = "none" /\ term[p].recoverable
    /\ term' = [term EXCEPT ![p].recoverable = FALSE]
    /\ UNCHANGED <<writer, typed, texts, channel, receipt, broadcast>>

\* A sender that goes away without an answer.
Hangs(p) == [t \in Texts |-> IF term[p].prompt # <<>> /\ term[p].prompt[1].text = t
                             THEN "gone" ELSE channel[t]]
\* The session is closed and the panel gets another one.
Replace(p) ==
    /\ Cardinality({q \in Panels : term[q].gen > 1}) < MaxReplaced /\ term[p].gen = 1
    /\ channel' = Hangs(p)
    /\ term' = [term EXCEPT ![p] = NewSession(@.gen + 1)]
    /\ writer' = [writer EXCEPT ![p] = Closed(@)]
    /\ UNCHANGED <<typed, texts, receipt, broadcast>>

-----------------------------------------------------------------------------
(* PtyManager: prompts.                                                     *)

SubmitPromptAhead(p) == IF term[p].handle # "live" THEN "broken" ELSE Enqueue(writer[p])
\* submit_prompt: only into a terminal with nothing waiting.
SubmitPrompt(p) ==
    IF term[p].startup # <<>> \/ term[p].prompt # <<>> THEN "full"
    ELSE IF term[p].handle # "live" THEN "broken" ELSE Enqueue(writer[p])

\* queue_prompt_tracked: one slot, and a receipt.
MayQueue(p) ==
    /\ term[p].prompt = <<>>
    /\ \/ term[p].handle = "none" /\ term[p].recoverable
       \/ term[p].handle = "lost" /\ term[p].recoverable
       \/ term[p].handle = "live" /\ InputOpen(writer[p])
QueuePromptTracked(p) ==
    /\ texts < MaxTexts /\ MayQueue(p)
    /\ LET t == texts + 1 IN
         /\ texts' = t
         /\ term' = [term EXCEPT ![p].prompt = Slot(t, FALSE, term[p].handle = "none")]
         /\ channel' = [channel EXCEPT ![t] = "open"]
         /\ receipt' = [receipt EXCEPT ![t] = "waiting"]
    /\ UNCHANGED <<writer, typed, broadcast>>

\* DeferredPrompt: poll, and drop.
Poll(t) ==
    /\ receipt[t] = "waiting" /\ channel[t] \in {"ok", "err", "gone"}
    /\ receipt' = [receipt EXCEPT ![t] = IF channel[t] = "ok" THEN "accepted" ELSE "failed"]
    /\ UNCHANGED <<term, writer, typed, texts, channel, broadcast>>
Cancel(t) ==
    /\ receipt[t] = "waiting"
    /\ receipt' = [receipt EXCEPT ![t] = "cancelled"]
    /\ term' = [p \in Panels |->
                  IF term[p].prompt # <<>> /\ term[p].prompt[1].text = t
                  THEN [term[p] EXCEPT !.prompt[1].cancelled = TRUE] ELSE term[p]]
    /\ UNCHANGED <<writer, typed, texts, channel, broadcast>>

\* flush_pending_inputs, panel by panel.  A connection that is gone is
\* forgotten and a cancelled prompt leaves its slot; then flush_one_pending
\* for the startup input, and for the prompt once no startup input waits.
Noticed(m) == [m EXCEPT !.handle = IF @ = "lost" THEN "none" ELSE @,
                        !.prompt = IF @ # <<>> /\ @[1].cancelled THEN <<>> ELSE @]
Waits(m) == m.prompt # <<>> /\ m.prompt[1].defer /\ m.recoverable
NoticedOnly(m) == [m EXCEPT !.handle = IF @ = "lost" THEN "none" ELSE @]
\* What becomes of the text in a slot: it stays, it is typed, or it fails.
Fate(m, slot, w) ==
    CASE m.handle = "dead" -> "err"
      [] m.handle # "dead" /\ Enqueue(w) = "broken" -> "err"
      [] OTHER -> IF slot[1].ready /\ Enqueue(w) = "ok" THEN "ok" ELSE "stays"
FlushNone(p, m) ==
    LET lost == m.prompt # <<>> /\ ~Waits(m) IN
    /\ term' = [term EXCEPT ![p] = IF lost THEN [m EXCEPT !.prompt = <<>>] ELSE m]
    /\ channel' = IF lost THEN [channel EXCEPT ![m.prompt[1].text] = "err"] ELSE channel
    /\ UNCHANGED <<writer, typed>>
FlushStartup(p, m) ==
    LET fate == Fate(m, m.startup, writer[p]) IN
    /\ term' = [term EXCEPT ![p] = IF fate = "stays" THEN m ELSE [m EXCEPT !.startup = <<>>]]
    /\ IF fate = "ok" THEN Types(p, 0) ELSE UNCHANGED <<writer, typed>>
    /\ UNCHANGED channel
FlushPrompt(p, m) ==
    LET fate == Fate(m, m.prompt, writer[p])
        t == m.prompt[1].text
    IN /\ term' = [term EXCEPT ![p] = IF fate = "stays" THEN m ELSE [m EXCEPT !.prompt = <<>>]]
       /\ channel' = IF fate = "stays" THEN channel ELSE [channel EXCEPT ![t] = fate]
       /\ IF fate = "ok" THEN Types(p, t) ELSE UNCHANGED <<writer, typed>>
FlushPendingInputs(p) ==
    LET m == Noticed(term[p]) IN
    /\ m # term[p] \/ m.startup # <<>> \/ m.prompt # <<>>
    /\ \/ m.handle = "none" /\ FlushNone(p, m)
       \/ m.handle # "none" /\ m.startup # <<>> /\ FlushStartup(p, m)
       \/ m.handle # "none" /\ m.startup = <<>> /\ m.prompt # <<>> /\ FlushPrompt(p, m)
       \/ /\ m.handle # "none" /\ m.startup = <<>> /\ m.prompt = <<>>
          /\ term' = [term EXCEPT ![p] = m] /\ UNCHANGED <<writer, typed, channel>>
    /\ UNCHANGED <<texts, receipt, broadcast>>

-----------------------------------------------------------------------------
(* The broadcast dialog.                                                    *)

Usable(p) == term[p].handle = "live"
\* open_broadcast keeps who each destination was.
OpenBroadcast ==
    /\ broadcast = <<>> /\ texts < MaxTexts /\ \E p \in Panels : Usable(p)
    /\ texts' = texts + 1
    /\ \E chosen \in SUBSET {p \in Panels : Usable(p)} \ {{}} :
         broadcast' = <<[text |-> texts + 1, selected |-> chosen,
                         gens |-> [p \in Panels |-> term[p].gen]]>>
    /\ UNCHANGED <<term, writer, typed, channel, receipt>>
CloseBroadcast ==
    /\ broadcast # <<>> /\ broadcast' = <<>>
    /\ UNCHANGED <<term, writer, typed, texts, channel, receipt>>
\* dispatch_broadcast: refresh the destinations, type into the ones that are
\* still who they were, and keep the failed ones selected with the draft.
SelectedAgain(b, sent) == IF b.selected = sent THEN {} ELSE b.selected
StillSelected(b, sent) == b.selected \ sent
Eligible(b, p) == Usable(p) /\ term[p].gen = b.gens[p]
DispatchBroadcast ==
    /\ broadcast # <<>>
    /\ LET b == broadcast[1]
           tried == {p \in b.selected : Eligible(b, p)}
           sent == {p \in tried : SubmitPrompt(p) = "ok"}
           failed == StillSelected(b, sent)
       IN /\ tried # {}
          /\ writer' = [p \in Panels |-> IF p \in sent THEN Enqueued(writer[p], b.text) ELSE writer[p]]
          /\ typed' = [p \in Panels |->
                 IF p \in sent THEN Append(typed[p], [gen |-> term[p].gen, text |-> b.text]) ELSE typed[p]]
          /\ broadcast' = IF failed = {} THEN <<>> ELSE <<[b EXCEPT !.selected = failed]>>
    /\ UNCHANGED <<term, texts, channel, receipt>>

-----------------------------------------------------------------------------
Next ==
    \/ \E p \in Panels :
          \/ TakeInput(p) \/ Written(p) \/ WriteStops(p) \/ WriteFails(p)
          \/ EnqueueFinal(p)
          \/ \E ready, command \in BOOLEAN : Attach(p, ready, command)
          \/ Render(p) \/ (\E how \in {"lost", "dead"} : Ends(p, how)) \/ Refused(p) \/ Replace(p)
          \/ QueuePromptTracked(p) \/ FlushPendingInputs(p)
    \/ \E t \in Texts : Poll(t) \/ Cancel(t)
    \/ OpenBroadcast \/ CloseBroadcast \/ DispatchBroadcast

Spec == Init /\ [][Next]_vars

-----------------------------------------------------------------------------
(* Properties.                                                              *)

\* A text is typed at most once into a panel, however often it is retried.
TypedOnce ==
    \A p \in Panels : \A i, j \in DOMAIN typed[p] :
        i # j => typed[p][i].text # typed[p][j].text \/ (typed[p][i].text = 0 /\ typed[p][i].gen # typed[p][j].gen)
\* No prompt goes ahead of the startup input of its session.
StartupFirst ==
    \A p \in Panels : \A i, j \in DOMAIN typed[p] :
        typed[p][i].gen = typed[p][j].gen /\ typed[p][j].text = 0 => i >= j
\* A receipt tells the truth: accepted is typed, and what failed or was
\* cancelled is not and cannot be any more, so that it may be sent again.
IsTyped(t) == \E p \in Panels : \E i \in DOMAIN typed[p] : typed[p][i].text = t
IsWaiting(t) == \E p \in Panels : term[p].prompt # <<>> /\ term[p].prompt[1].text = t
                                      /\ ~term[p].prompt[1].cancelled
ReceiptIsTrue ==
    \A t \in Texts :
        /\ receipt[t] = "accepted" => IsTyped(t)
        /\ receipt[t] = "failed" => ~IsTyped(t) /\ ~IsWaiting(t)
        /\ receipt[t] = "cancelled" => ~IsWaiting(t)
\* The budget is what is queued and under way.
BudgetIsKept ==
    \A p \in Panels : InputOpen(writer[p]) =>
        /\ writer[p].buffered = Len(writer[p].pending) + Len(writer[p].flight)
        /\ writer[p].buffered <= MAX_INPUT_BYTES
\* A broadcast reaches only the sessions the dialog showed.
BroadcastIsReviewed ==
    broadcast # <<>> => \A p \in Panels : \A i \in DOMAIN typed[p] :
        typed[p][i].text = broadcast[1].text => typed[p][i].gen = broadcast[1].gens[p]

PromptsAreSafe == TypedOnce /\ StartupFirst /\ ReceiptIsTrue /\ BudgetIsKept /\ BroadcastIsReviewed
=============================================================================
