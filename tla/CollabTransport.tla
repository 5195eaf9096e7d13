-------------------------- MODULE CollabTransport --------------------------
(* The background transport of a shared session (collab/transport.rs): the  *)
(* UI thread queues commands without blocking, one thread owns the web      *)
(* socket, reconnects, and queues events for the UI.  Sessions are numbered *)
(* in the order the UI opens them.  Payload sizes are one unit each, so the *)
(* byte budgets act as bounds on the lengths of the queues.                 *)
EXTENDS Naturals, Sequences, SequencesExt

CONSTANTS
    MaxShares,   \* bound on the sessions the UI opens
    MaxFrames,   \* bound on the frames the UI queues for one session
    MaxLinks,    \* bound on the connections made
    MaxReads,    \* bound on the messages read on one connection
    CommandCap,  \* COMMAND_QUEUE_CAPACITY and the budget of queued bytes
    OutboundCap, \* MAX_QUEUED_BINARY_BYTES of the thread's own queue
    EventCap     \* EVENT_QUEUE_CAPACITY and the budget of queued bytes

VARIABLES
    ui,       \* [share, closed, frames]: what the UI thread has asked for
    tGen,     \* generation
    closeReq, \* close_requested
    cmdQ,     \* the command channel: [gen, op, share]
    evQ,      \* the event channel: [kind, link, n]
    overflow, \* event_overflowed
    tpc,      \* where the transport thread is
    held,     \* the command taken by wait_for_commands_or_reconnect, or << >>
    want,     \* desired_websocket_url: a session, or 0
    link,     \* the socket: [share, id, n], share 0 when there is none
    outbound, \* frames to send, by the session they belong to
    links,    \* connections made so far
    seen,     \* history: last message the UI drained, [link, n]
    gap,      \* history: a message was skipped within one connection
    foreign   \* history: a frame went out on another session's connection

vars == <<ui, tGen, closeReq, cmdQ, evQ, overflow, tpc, held, want, link, outbound,
          links, seen, gap, foreign>>

NoLink == [share |-> 0, id |-> 0, n |-> 0]
News(kind) == [kind |-> kind, link |-> 0, n |-> 0]

Init ==
    /\ ui = [share |-> 0, closed |-> TRUE, frames |-> 0]
    /\ tGen = 0
    /\ closeReq = FALSE
    /\ cmdQ = << >>
    /\ evQ = << >>
    /\ overflow = FALSE
    /\ tpc = "top"
    /\ held = << >>
    /\ want = 0
    /\ link = NoLink
    /\ outbound = << >>
    /\ links = 0
    /\ seen = [link |-> 0, n |-> 0]
    /\ gap = FALSE
    /\ foreign = FALSE

-----------------------------------------------------------------------------
(* The UI thread: BackgroundTransport::send and drain_events.              *)

thread == <<tpc, held, want, link, outbound, links, foreign>>
events == <<evQ, overflow, seen, gap>>

SendClose ==
    /\ ~ui.closed
    /\ tGen' = tGen + 1
    /\ closeReq' = TRUE
    /\ ui' = [ui EXCEPT !.closed = TRUE]
    /\ UNCHANGED <<cmdQ, thread, events>>

\* A command the channel has no room for is refused.
Push(op) ==
    IF Len(cmdQ) < CommandCap
    THEN cmdQ' = Append(cmdQ, [gen |-> tGen, op |-> op, share |-> ui'.share])
    ELSE UNCHANGED cmdQ

\* A session is opened only after the one before was closed.
SendConnect ==
    /\ ui.closed
    /\ ui.share < MaxShares
    /\ Len(cmdQ) < CommandCap
    /\ ui' = [share |-> ui.share + 1, closed |-> FALSE, frames |-> 0]
    /\ Push("connect")
    /\ UNCHANGED <<tGen, closeReq, thread, events>>

SendBinary ==
    /\ ~ui.closed
    /\ ui.frames < MaxFrames
    /\ ui' = [ui EXCEPT !.frames = @ + 1]
    /\ Push("binary")
    /\ UNCHANGED <<tGen, closeReq, thread, events>>

\* What the UI makes of one drained event.
Skips(s, e) == e.kind = "data" /\ e.link = s.link /\ e.n # s.n + 1
Drained(s, e) == IF e.kind = "data" THEN [link |-> e.link, n |-> e.n] ELSE s

DrainEvents ==
    /\ evQ # << >> \/ overflow
    /\ LET at(i) == FoldLeft(Drained, seen, SubSeq(evQ, 1, i)) IN
       /\ seen' = at(Len(evQ))
       /\ gap' = (gap \/ \E i \in 1..Len(evQ) : Skips(at(i - 1), evQ[i]))
    /\ evQ' = << >>
    /\ overflow' = FALSE
    /\ UNCHANGED <<ui, tGen, closeReq, cmdQ, thread>>

-----------------------------------------------------------------------------
(* The transport thread.                                                   *)

uivars == <<ui, tGen, seen, gap>>

Room == Len(evQ) < EventCap

\* emit_event: an event there is no room for sets the overflow flag instead.
Emit(es) ==
    LET fits == IF Len(es) <= EventCap - Len(evQ) THEN Len(es) ELSE EventCap - Len(evQ) IN
    /\ evQ' = evQ \o SubSeq(es, 1, fits)
    /\ overflow' = (overflow \/ fits < Len(es))

\* Faulty variant: the address survives, and the thread reconnects.
HandleCloseKeepsAddress ==
    /\ outbound' = << >>
    /\ link' = NoLink
    /\ Emit(<<News("Disconnected")>>)
    /\ UNCHANGED want

HandleClose ==
    /\ want' = 0
    /\ outbound' = << >>
    /\ link' = NoLink
    /\ Emit(<<News("Disconnected")>>)

\* enqueue_outbound drops the oldest frames when the queue is full.
Enqueued(s) == IF Len(outbound) < OutboundCap THEN Append(outbound, s) ELSE Append(Tail(outbound), s)

HandleCommand(c) ==
    IF c.op = "connect"
    THEN /\ want' = c.share
         /\ link' = NoLink
         /\ Emit(IF link.share # 0 THEN <<News("Disconnected")>> ELSE << >>)
         /\ UNCHANGED outbound
    ELSE /\ outbound' = Enqueued(c.share)
         /\ Emit(IF Len(outbound) = OutboundCap THEN <<News("Error")>> ELSE << >>)
         /\ UNCHANGED <<want, link>>

\* A command of an earlier generation is dropped.
Take(c) ==
    IF c.gen = tGen THEN HandleCommand(c) ELSE UNCHANGED <<want, link, outbound, evQ, overflow>>

\* The flag is swapped at the top of the loop.
Top ==
    /\ tpc = "top"
    /\ closeReq' = FALSE
    /\ IF closeReq THEN HandleClose ELSE UNCHANGED <<want, link, outbound, evQ, overflow>>
    /\ tpc' = IF link'.share = 0 THEN "wait" ELSE "drain"
    /\ UNCHANGED <<uivars, cmdQ, held, links, foreign>>

\* Without a socket the thread waits for a command, for ever when it has no
\* address to reconnect to, otherwise until the next attempt.
Wait ==
    /\ tpc = "wait"
    /\ \/ /\ cmdQ # << >>
          /\ held' = <<Head(cmdQ)>>
          /\ cmdQ' = Tail(cmdQ)
       \/ /\ want # 0
          /\ held' = << >>
          /\ UNCHANGED cmdQ
    /\ tpc' = "waited"
    /\ UNCHANGED <<uivars, closeReq, evQ, overflow, want, link, outbound, links, foreign>>

\* The flag is swapped again before the command is looked at.
Waited ==
    /\ tpc = "waited"
    /\ closeReq' = FALSE
    /\ IF closeReq THEN HandleClose ELSE UNCHANGED <<want, link, outbound, evQ, overflow>>
    /\ tpc' = "take"
    /\ UNCHANGED <<uivars, cmdQ, held, links, foreign>>

TakeHeld ==
    /\ tpc = "take"
    /\ IF held # << >> THEN Take(held[1]) ELSE UNCHANGED <<want, link, outbound, evQ, overflow>>
    /\ held' = << >>
    /\ tpc' = IF want' = 0 THEN "top" ELSE "drain"
    /\ UNCHANGED <<uivars, closeReq, cmdQ, links, foreign>>

Drain ==
    /\ tpc = "drain"
    /\ IF cmdQ # << >>
       THEN /\ Take(Head(cmdQ))
            /\ cmdQ' = Tail(cmdQ)
            /\ UNCHANGED tpc
       ELSE /\ tpc' = IF link.share # 0 THEN "io" ELSE IF want # 0 THEN "connect" ELSE "top"
            /\ UNCHANGED <<want, link, outbound, evQ, overflow, cmdQ>>
    /\ UNCHANGED <<uivars, closeReq, held, links, foreign>>

\* connect_websocket fails, or the timeouts cannot be set, or it is too early.
ConnectFails ==
    /\ tpc = "connect"
    /\ tpc' = "top"
    /\ Emit(<<News("Error")>>)
    /\ UNCHANGED <<uivars, closeReq, cmdQ, held, want, link, outbound, links, foreign>>

\* A connection made after a close was asked for is closed at once.
ConnectDespiteClose ==
    /\ tpc = "connect"
    /\ links < MaxLinks
    /\ links' = links + 1
    /\ link' = [share |-> want, id |-> links + 1, n |-> 0]
    /\ Emit(<<News("Connected")>>)
    /\ tpc' = "io"
    /\ UNCHANGED <<uivars, closeReq, cmdQ, held, want, outbound, foreign>>

Connect ==
    /\ tpc = "connect"
    /\ links < MaxLinks
    /\ IF closeReq
       THEN /\ tpc' = "top"
            /\ UNCHANGED <<link, links, evQ, overflow>>
       ELSE /\ links' = links + 1
            /\ link' = [share |-> want, id |-> links + 1, n |-> 0]
            /\ Emit(<<News("Connected")>>)
            /\ tpc' = "io"
    /\ UNCHANGED <<uivars, closeReq, cmdQ, held, want, outbound, foreign>>

\* The queued frames are sent; a failure drops the socket and what was taken.
SendAll ==
    /\ tpc = "io"
    /\ foreign' = (foreign \/ \E i \in 1..Len(outbound) : outbound[i] # link.share)
    /\ outbound' = << >>
    /\ tpc' = "read"
    /\ UNCHANGED <<uivars, closeReq, cmdQ, evQ, overflow, held, want, link, links>>

SendFails ==
    /\ tpc = "io"
    /\ \E k \in 1..Len(outbound) :
          /\ foreign' = (foreign \/ \E i \in 1..(k - 1) : outbound[i] # link.share)
          /\ outbound' = SubSeq(outbound, k + 1, Len(outbound))
    /\ link' = NoLink
    /\ Emit(<<News("Error"), News("Disconnected")>>)
    /\ tpc' = "top"
    /\ UNCHANGED <<uivars, closeReq, cmdQ, held, want, links>>

\* One read: nothing, a message, or the end of the connection.  A message the
\* UI's queue has no room for ends the connection.
ReadNothing ==
    /\ tpc = "read"
    /\ tpc' = "top"
    /\ UNCHANGED <<uivars, closeReq, cmdQ, events, held, want, link, outbound, links, foreign>>

ReadMessageLossy ==
    /\ tpc = "read"
    /\ link.n < MaxReads
    /\ link' = [link EXCEPT !.n = @ + 1]
    /\ Emit(<<[kind |-> "data", link |-> link.id, n |-> link.n + 1]>>)
    /\ tpc' = "top"
    /\ UNCHANGED <<uivars, closeReq, cmdQ, held, want, outbound, links, foreign>>

ReadMessage ==
    /\ tpc = "read"
    /\ link.n < MaxReads
    /\ LET e == [kind |-> "data", link |-> link.id, n |-> link.n + 1] IN
       \/ /\ Room
          /\ link' = [link EXCEPT !.n = @ + 1]
          /\ Emit(<<e>>)
       \/ /\ ~Room
          /\ link' = NoLink
          /\ Emit(<<e, News("Disconnected")>>)
    /\ tpc' = "top"
    /\ UNCHANGED <<uivars, closeReq, cmdQ, held, want, outbound, links, foreign>>

ReadFails ==
    /\ tpc = "read"
    /\ link' = NoLink
    /\ Emit(<<News("Error"), News("Disconnected")>>)
    /\ tpc' = "top"
    /\ UNCHANGED <<uivars, closeReq, cmdQ, held, want, outbound, links, foreign>>

Thread ==
    \/ Top \/ Wait \/ Waited \/ TakeHeld \/ Drain
    \/ Connect \/ ConnectFails
    \/ SendAll \/ SendFails
    \/ ReadNothing \/ ReadMessage \/ ReadFails

Next == SendClose \/ SendConnect \/ SendBinary \/ DrainEvents \/ Thread

\* The thread runs as long as the program, and the UI drains every frame.
Fairness == WF_vars(Thread) /\ WF_vars(DrainEvents)

Spec == Init /\ [][Next]_vars /\ Fairness

TypeOK ==
    /\ ui \in [share : 0..MaxShares, closed : BOOLEAN, frames : 0..MaxFrames]
    /\ tGen \in 0..MaxShares
    /\ {closeReq, overflow, gap, foreign} \subseteq BOOLEAN
    /\ Len(cmdQ) <= CommandCap
    /\ Len(evQ) <= EventCap
    /\ tpc \in {"top", "wait", "waited", "take", "drain", "connect", "io", "read"}
    /\ Len(held) <= 1
    /\ want \in 0..MaxShares
    /\ link \in [share : 0..MaxShares, id : 0..MaxLinks, n : 0..MaxReads]
    /\ Len(outbound) <= OutboundCap
    /\ links \in 0..MaxLinks

-----------------------------------------------------------------------------
\* A frame of one session is never sent on the connection of another, however
\* quickly the UI closes one and opens the next.
OwnFramesOnly == ~foreign

\* Within one connection the UI receives the messages without a gap: when its
\* queue overflows the connection ends instead.
NoGap == ~gap

\* Once the UI has closed the last session, its connection ends and the thread
\* does not reconnect.
LastIsClosed == ui.closed /\ ui.share = MaxShares
Unlinked == link = NoLink
CloseCloses == [](LastIsClosed => <>[]Unlinked)
=============================================================================
