---------------------------- MODULE DaemonOutput ----------------------------
(***************************************************************************)
(* daemon/server.rs, terminal/remote_session.rs: how the output of one     *)
(* shell of the daemon reaches the screens of the apps attached to it.     *)
(*                                                                         *)
(* The reader draws a unit of output on the daemon's grid and appends it   *)
(* to the pending log in one step.  The pump, the checkpoint and an attach *)
(* number what is pending and put it into the bounded queue of every       *)
(* subscriber, all under the registry lock.  A snapshot that cannot be     *)
(* taken (too large, grid unavailable) disconnects the subscribers and     *)
(* suspends live output until it can.                                      *)
(***************************************************************************)
EXTENDS Integers, Sequences, SequencesExt

CONSTANTS
    Clients,        \* the clients that are followed, of any number
    QueueCap,       \* SUBSCRIBER_QUEUE_CAPACITY, with what the socket buffers
    ChunkUnits,     \* RAW_OUTPUT_CHUNK_BYTES
    Budget,         \* INTERACTIVE_BYTE_BUDGET
    History,        \* units of history restored before the session is published
    MaxUnits,       \* bound: units of output and changes of the title, the history included
    MaxFaults       \* bound: refused snapshots and clients that leave

ASSUME OutputAssumption ==
    /\ QueueCap \in Nat \ {0} /\ ChunkUnits \in Nat \ {0} /\ Budget \in Nat \ {0}
    /\ History \in Nat /\ MaxUnits \in Nat /\ History <= MaxUnits /\ MaxFaults \in Nat

VARIABLES
    grid,       \* the daemon's terminal
    pending,    \* pending_log of the PTY: units drawn but not numbered
    finished,   \* the reader saw the end of the output
    session,    \* the DaemonSession
    conn,       \* the daemon's side of each client's connection
    client,     \* each client's remote terminal
    faults

vars == <<grid, pending, finished, session, conn, client, faults>>

Unit == [id: 1..MaxUnits, kind: {"text", "enter", "leave"}]

\* What a terminal shows.  `at` says up to which unit; `primary` is hidden
\* while the alternate screen is shown.
Screen == [at: 0..MaxUnits, alternate: BOOLEAN, title: 0..MaxUnits,
           primary: Seq(1..MaxUnits), overlay: Seq(1..MaxUnits)]
Blank == [at |-> 0, alternate |-> FALSE, title |-> 0, primary |-> <<>>, overlay |-> <<>>]

NoHandle == [phase |-> "out", seen |-> 0, exited |-> FALSE, screen |-> Blank]

MaxSeq == MaxUnits + MaxFaults

\* The grid starts with the history a former session left, if any.
Init ==
    /\ grid = [Blank EXCEPT !.at = History, !.primary = [i \in 1..History |-> i]]
    /\ pending = <<>>
    /\ finished = FALSE
    /\ session = [seq |-> 0, alive |-> TRUE, alternate |-> FALSE, repair |-> "none",
                  dirty |-> FALSE, title |-> 0, life |-> "live"]
    /\ conn = [c \in Clients |-> [open |-> FALSE, subscribed |-> FALSE, queue |-> <<>>]]
    /\ client = [c \in Clients |-> NoHandle]
    /\ faults = 0

-----------------------------------------------------------------------------
(* The terminal.                                                           *)

Draw(screen, unit) ==
    CASE unit.kind = "enter" ->
           [screen EXCEPT !.at = unit.id, !.alternate = TRUE, !.overlay = <<>>]
      [] unit.kind = "leave" ->
           [screen EXCEPT !.at = unit.id, !.alternate = FALSE, !.overlay = <<>>]
      [] screen.alternate ->
           [screen EXCEPT !.at = unit.id, !.overlay = Append(@, unit.id)]
      [] OTHER ->
           [screen EXCEPT !.at = unit.id, !.primary = Append(@, unit.id)]

\* How much of the history a bounded snapshot keeps: all, or the active screen.
Kept == {Len(grid.primary), IF grid.primary = <<>> THEN 0 ELSE 1}

\* The snapshot resets the terminal that replays it; of a hidden primary
\* screen it has nothing.
Snapshot(kept) ==
    [grid EXCEPT !.primary = IF grid.alternate THEN <<>>
                             ELSE SubSeq(@, Len(@) - kept + 1, Len(@))]

Room == grid.at + grid.title < MaxUnits

\* retain_raw_read_and_parse.
Produce(kind) ==
    LET unit == [id |-> grid.at + 1, kind |-> kind]
    IN  /\ ~finished /\ Room
        /\ kind = "enter" => ~grid.alternate
        /\ kind = "leave" => grid.alternate
        /\ grid' = Draw(grid, unit)
        /\ pending' = Append(pending, unit)
        /\ UNCHANGED <<finished, session, conn, client, faults>>

Retitle ==
    /\ ~finished /\ Room
    /\ grid' = [grid EXCEPT !.title = @ + 1]
    /\ UNCHANGED <<pending, finished, session, conn, client, faults>>

Finish ==
    /\ ~finished /\ finished' = TRUE
    /\ UNCHANGED <<grid, pending, session, conn, client, faults>>

-----------------------------------------------------------------------------
(* Numbering and delivery.  A stage of the daemon works on the record of   *)
(* what the registry lock protects.                                        *)

State == [session |-> session, pending |-> pending, conn |-> conn]

Output(seq, units) == [kind |-> "output", seq |-> seq, units |-> units]
Replay(seq, screen) == [kind |-> "replay", seq |-> seq, screen |-> screen]

\* ingest_pty_frames: the numbered events of the drained units.
Numbered(seq, units) ==
    [i \in 1..((Len(units) + ChunkUnits - 1) \div ChunkUnits) |->
       Output(seq + i, SubSeq(units, (i - 1) * ChunkUnits + 1,
                              IF i * ChunkUnits < Len(units) THEN i * ChunkUnits
                              ELSE Len(units)))]

Disconnected(link) == [link EXCEPT !.open = FALSE, !.subscribed = FALSE]

\* disconnect_session_subscribers.
DisconnectAll(links) ==
    [c \in Clients |-> IF links[c].subscribed THEN Disconnected(links[c]) ELSE links[c]]

BroadcastForgets(links, events) ==
    [c \in Clients |->
       LET room == QueueCap - Len(links[c].queue)
       IN  IF ~links[c].subscribed THEN links[c]
           ELSE IF Len(events) <= room THEN [links[c] EXCEPT !.queue = @ \o events]
           ELSE [links[c] EXCEPT !.subscribed = FALSE,
                                 !.queue = @ \o SubSeq(events, 1, room)]]

\* broadcast: a subscriber whose queue is full is disconnected.
Broadcast(links, events) ==
    [c \in Clients |->
       LET room == QueueCap - Len(links[c].queue)
       IN  IF ~links[c].subscribed THEN links[c]
           ELSE IF Len(events) <= room THEN [links[c] EXCEPT !.queue = @ \o events]
           ELSE Disconnected([links[c] EXCEPT !.queue = @ \o SubSeq(events, 1, room)])]

\* refuse_live_snapshot.
Refused(d) ==
    [d EXCEPT !.session.repair = "waiting", !.conn = DisconnectAll(@)]

\* Faulty variant: the end of the alternate screen is passed on as raw output.
NeedsReplayAfterRefusal(d) == d.session.repair = "due"

\* Clients that attached inside the alternate screen, and everyone after a
\* refusal, need a snapshot in place of the raw output.
NeedsReplay(d) ==
    d.session.repair = "due" \/ (d.session.alternate /\ ~grid.alternate)

\* The first n pending units numbered, and the events that stand for them.
Drained(d, n, kept) ==
    LET raw == Numbered(d.session.seq, SubSeq(d.pending, 1, n))
        last == IF raw = <<>> /\ NeedsReplay(d) THEN d.session.seq + 1
                ELSE d.session.seq + Len(raw)
    IN  [events |-> IF NeedsReplay(d) THEN <<Replay(last, Snapshot(kept))>> ELSE raw,
         d |-> [d EXCEPT !.session.seq = last,
                         !.session.alternate = grid.alternate,
                         !.session.repair = "none",
                         !.session.dirty = @ \/ last # d.session.seq,
                         !.pending = SubSeq(@, n + 1, Len(@))]]

\* pump_output while live output is suspended: units leave for the durable
\* queue only.
DurableOnly(d) ==
    LET n == IF Len(d.pending) < ChunkUnits THEN Len(d.pending) ELSE ChunkUnits
        raw == Numbered(d.session.seq, SubSeq(d.pending, 1, n))
    IN  [d EXCEPT !.session.seq = @ + Len(raw),
                  !.session.dirty = @ \/ n > 0,
                  !.session.alive = @ /\ ~finished,
                  !.pending = SubSeq(@, n + 1, Len(@))]

\* Faulty variant: the budget holds for output that has ended, too.
ShareAlwaysCapped(d, focused) ==
    IF focused /\ ~NeedsReplay(d) /\ Len(d.pending) > Budget THEN Budget
    ELSE Len(d.pending)

\* How many pending units the pump takes: the focused session has a budget,
\* unless its output has ended or is replaced by a snapshot.
Share(d, focused) ==
    IF focused /\ ~finished /\ ~NeedsReplay(d) /\ Len(d.pending) > Budget THEN Budget
    ELSE Len(d.pending)

\* pump_output and the broadcast of its events: the output, a changed title,
\* the end.
PumpLive(d, focused, kept) ==
    LET out == Drained(d, Share(d, focused), kept)
        s == out.d.session
        renamed == grid.title # s.title
        titles == IF renamed THEN <<[kind |-> "title", seq |-> s.seq + 1, title |-> grid.title]>>
                  ELSE <<>>
        exits == IF finished /\ s.alive THEN <<[kind |-> "exit"]>> ELSE <<>>
    IN  [out.d EXCEPT !.session.seq = @ + Len(titles),
                      !.session.dirty = @ \/ renamed,
                      !.session.title = grid.title,
                      !.session.alive = @ /\ ~finished,
                      !.conn = Broadcast(@, out.events \o titles \o exits)]

Pumped(d, refuse, focused, kept) ==
    IF d.session.life # "live" THEN d
    ELSE IF d.session.repair = "waiting" THEN DurableOnly(d)
    ELSE IF refuse THEN Refused(d)
    ELSE PumpLive(d, focused, kept)

\* take_dirty_scrollback_targets; what it writes is DaemonPersistence's.
Checkpointed(d, refuse, kept) ==
    IF d.session.life # "live" \/ ~d.session.dirty \/ d.session.repair = "waiting" THEN d
    ELSE IF refuse THEN Refused(d)
    ELSE LET out == Drained(d, Len(d.pending), kept)
         IN  [out.d EXCEPT !.session.dirty = grid.alternate,
                           !.conn = Broadcast(@, out.events)]

Becomes(d) ==
    /\ session' = d.session
    /\ pending' = d.pending
    /\ conn' = d.conn

\* Only a refusal that happens is charged.
Charge(refused) == faults + refused <= MaxFaults /\ faults' = faults + refused

\* A round of the pump thread under the registry lock, with the checkpoint
\* when it is due.
Pump(refuse, focused, due, kept) ==
    LET pumped == Pumped(State, refuse = "pump", focused, kept)
        done == IF due THEN Checkpointed(pumped, refuse = "checkpoint", kept) ELSE pumped
    IN  /\ session.life # "gone"
        /\ Becomes(done)
        /\ Charge(IF done.session.repair = "waiting" /\ session.repair # "waiting"
                  THEN 1 ELSE 0)
        /\ UNCHANGED <<grid, finished, client>>

\* LIVE_REPAIR_RETRY has passed.
RetryDue ==
    /\ session.repair = "waiting"
    /\ session' = [session EXCEPT !.repair = "due"]
    /\ UNCHANGED <<grid, pending, finished, conn, client, faults>>

MayAttach == session.life = "live" /\ session.repair # "waiting"

\* Faulty variant: the earlier subscribers are not told what was drained.
BoundaryUntold(kept) == Drained(State, Len(pending), kept).d

\* attach_boundary and the broadcast of what it drained.
Boundary(kept) ==
    LET out == Drained(State, Len(pending), kept)
    IN  [out.d EXCEPT !.conn = Broadcast(@, out.events)]

\* Attach: the snapshot and what was pending are taken at one boundary; the
\* earlier subscribers get the pending output, the new one the snapshot.
Attach(c, kept) ==
    LET d == Boundary(kept)
        answer == [kind |-> "attached", seq |-> d.session.seq, screen |-> Snapshot(kept),
                   alive |-> session.alive]
    IN  /\ MayAttach /\ client[c].phase = "out"
        /\ Becomes([d EXCEPT !.conn[c] = [open |-> TRUE, subscribed |-> TRUE,
                                          queue |-> <<answer>>]])
        /\ client' = [client EXCEPT ![c].phase = "attaching"]
        /\ UNCHANGED <<grid, finished, faults>>

\* A client that is not followed here attaches: it takes part in the boundary
\* and in nothing else.
AttachElsewhere(kept) ==
    /\ MayAttach
    /\ Becomes(Boundary(kept))
    /\ UNCHANGED <<grid, finished, client, faults>>

\* An attach, by any client, whose snapshot cannot be taken.
AttachRefused ==
    /\ MayAttach
    /\ Becomes(Refused(State)) /\ Charge(1)
    /\ UNCHANGED <<grid, finished, client>>

\* Kill is accepted: from now on output goes to the durable queue only
\* (DaemonPersistence), and attaches are told to wait.
Kill ==
    /\ session.life = "live"
    /\ session' = [session EXCEPT !.life = "retiring"]
    /\ UNCHANGED <<grid, pending, finished, conn, client, faults>>

\* The retirement ends.
EndRetirement ==
    /\ session.life = "retiring"
    /\ session' = [session EXCEPT !.life = "gone"]
    /\ conn' = DisconnectAll(Broadcast(conn, <<[kind |-> "exit"]>>))
    /\ UNCHANGED <<grid, pending, finished, client, faults>>

-----------------------------------------------------------------------------
(* The client: attach_remote and its reader thread.                        *)

\* attach_remote has connected, or its handle is in use.
Connected(c) == client[c].phase \in {"attaching", "attached"}

\* RemoteReader::next_output drops what the attach already contained.
Fresh(c, event) == event.seq > client[c].seen

Shown(c, event) ==
    IF event.kind = "output" THEN FoldLeft(Draw, client[c].screen, event.units)
    ELSE IF event.kind = "title" THEN [client[c].screen EXCEPT !.title = event.title]
    ELSE event.screen

Receive(c, event) ==
    IF event.kind = "attached"
    THEN [phase |-> "attached", seen |-> event.seq, exited |-> ~event.alive,
          screen |-> event.screen]
    ELSE IF event.kind = "exit" THEN [client[c] EXCEPT !.phase = "done", !.exited = TRUE]
    ELSE IF Fresh(c, event)
    THEN [client[c] EXCEPT !.seen = event.seq, !.screen = Shown(c, event)]
    ELSE client[c]

Read(c) ==
    /\ Connected(c) /\ conn[c].queue # <<>>
    /\ client' = [client EXCEPT ![c] = Receive(c, Head(conn[c].queue))]
    /\ conn' = [conn EXCEPT ![c].queue = Tail(@)]
    /\ UNCHANGED <<grid, pending, finished, session, faults>>

\* The client finds its socket closed, with or without having read what was
\* queued.  A terminal known to have exited is not attached again.
Lose(c) ==
    /\ Connected(c) /\ ~conn[c].open
    /\ client' = [client EXCEPT ![c] = IF client[c].exited THEN [client[c] EXCEPT !.phase = "done"]
                                       ELSE NoHandle]
    /\ conn' = [conn EXCEPT ![c].queue = <<>>]
    /\ UNCHANGED <<grid, pending, finished, session, faults>>

\* RemoteLink::disconnect: the panel is detached, or the wait for the answer
\* times out.
Leave(c) ==
    /\ Connected(c) /\ conn[c].open
    /\ client' = [client EXCEPT ![c] = NoHandle]
    /\ conn' = [conn EXCEPT ![c] = [open |-> FALSE, subscribed |-> FALSE, queue |-> <<>>]]
    /\ Charge(1)
    /\ UNCHANGED <<grid, pending, finished, session>>

-----------------------------------------------------------------------------
PumpRound ==
    \E refuse \in {"no", "pump", "checkpoint"}, focused, due \in BOOLEAN, kept \in Kept :
        Pump(refuse, focused, due, kept)

Next ==
    \/ \E kind \in {"text", "enter", "leave"} : Produce(kind)
    \/ Retitle \/ Finish
    \/ PumpRound \/ RetryDue
    \/ (\E kept \in Kept : AttachElsewhere(kept)) \/ AttachRefused
    \/ Kill \/ EndRetirement
    \/ \E c \in Clients :
          (\E kept \in Kept : Attach(c, kept)) \/ Read(c) \/ Lose(c) \/ Leave(c)

Spec == Init /\ [][Next]_vars

\* The pump loops, time passes, and a client reads, notices a closed socket
\* and attaches again.
Fairness ==
    /\ WF_vars(PumpRound) /\ WF_vars(RetryDue)
    /\ \A c \in Clients : WF_vars(\E kept \in Kept : Attach(c, kept)) /\ WF_vars(Read(c)) /\ WF_vars(Lose(c))

FairSpec == Spec /\ Fairness

-----------------------------------------------------------------------------
(* Properties.                                                             *)

\* The shape of the state.  A subscriber has an open connection, and a queue
\* holds at most what sync_channel(SUBSCRIBER_QUEUE_CAPACITY) takes.
TypeOK ==
    /\ grid \in Screen
    /\ pending \in Seq(Unit)
    /\ finished \in BOOLEAN
    /\ session \in [seq: 0..MaxSeq, alive: BOOLEAN, alternate: BOOLEAN,
                    repair: {"none", "waiting", "due"}, dirty: BOOLEAN,
                    title: 0..MaxUnits, life: {"live", "retiring", "gone"}]
    /\ \A c \in Clients :
          /\ conn[c].open \in BOOLEAN /\ conn[c].subscribed \in BOOLEAN
          /\ conn[c].subscribed => conn[c].open
          /\ Len(conn[c].queue) <= QueueCap
          /\ client[c].phase \in {"out", "attaching", "attached", "done"}
          /\ client[c].seen \in 0..MaxSeq
          /\ client[c].screen \in Screen

\* The position in the output a client reaches when it reads its queue, or a
\* negative number when it would miss or repeat a unit.
Position(c) ==
    LET Follow(p, event) ==
          IF p.at < 0 \/ event.kind = "exit" THEN p
          ELSE IF event.kind = "attached" THEN [seen |-> event.seq, at |-> event.screen.at]
          ELSE IF event.seq <= p.seen THEN p
          ELSE IF event.kind = "title" THEN [p EXCEPT !.seen = event.seq]
          ELSE IF event.kind = "replay" THEN
               [seen |-> event.seq, at |-> IF event.screen.at < p.at THEN -1 ELSE event.screen.at]
          ELSE [seen |-> event.seq,
                at |-> IF event.units[1].id = p.at + 1 THEN Last(event.units).id ELSE -1]
    IN  FoldLeft(Follow, [seen |-> client[c].seen, at |-> client[c].screen.at],
                 conn[c].queue).at

\* Nothing is missed and nothing repeated between the shell and a screen: what
\* a subscriber shows and what is queued for it are together exactly what the
\* daemon has numbered, whoever else attaches, overflows or is refused.
StreamIsWhole ==
    \A c \in Clients :
        /\ Connected(c) => Position(c) >= 0
        /\ conn[c].subscribed /\ session.life = "live" =>
              Position(c) = grid.at - Len(pending)

Shows(screen) ==
    /\ screen.alternate = grid.alternate
    /\ grid.alternate => screen.overlay = grid.overlay
    /\ ~grid.alternate =>
          /\ IsSuffix(screen.primary, grid.primary)
          /\ screen.primary = <<>> => grid.primary = <<>>

\* A client that has read everything shows the daemon's screen, also when it
\* attached inside an alternate screen that has been left since.
CaughtUpShowsTheScreen ==
    \A c \in Clients :
        client[c].phase = "attached" /\ conn[c].subscribed /\ conn[c].queue = <<>>
          /\ pending = <<>> /\ session.life = "live"
        => Shows(client[c].screen) /\ client[c].screen.title >= session.title

\* The end of the process is announced after its last output: who has seen it
\* shows the final screen, unless the session was killed.
ExitIsLast ==
    \A c \in Clients :
        client[c].exited /\ session.life = "live" =>
            finished /\ pending = <<>> /\ Shows(client[c].screen)

\* What a client shows is what the daemon has, while it runs and at its end.
ScreenIsTrue == CaughtUpShowsTheScreen /\ ExitIsLast

\* Once the output has ended every client that attaches, however often it is
\* refused or cut off, comes to show all of it.
EveryoneCatchesUp ==
    \A c \in Clients :
        finished ~> (session.life # "live" \/ (client[c].exited /\ Shows(client[c].screen)))
=============================================================================
