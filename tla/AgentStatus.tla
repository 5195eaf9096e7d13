---------------------------- MODULE AgentStatus ----------------------------
(***************************************************************************)
(* The in-band status channel of agents (terminal/agent_status.rs): an     *)
(* agent writes OSC 9999 reports between its ordinary output, the reader   *)
(* of the PTY in the daemon cuts them out of what the terminal parses, and *)
(* the daemon forwards the captured metadata to the client, whose own      *)
(* reader cuts it out again.  Bytes are read in chunks that may end        *)
(* anywhere inside a sequence.                                             *)
(*                                                                         *)
(* A byte is a record: its kind, and for the last byte of a report's       *)
(* payload the report and the age written in it.  The code of OSC 9999 is  *)
(* the one digit "9" (OSC 7 is captured by the same code and left out); a  *)
(* payload parses when it is whole.                                        *)
(***************************************************************************)
EXTENDS Integers, SequencesExt

CONSTANTS
  LooseKinds,       \* kinds of single bytes the agent writes
  MaxWrites,        \* bound: writes of the agent
  MaxReports,       \* bound: reports among them
  MaxTitles,        \* bound: changes of the window title
  MaxTime,          \* bound: ticks of the clock
  MaxAttaches,      \* bound: times a client attaches anew
  MAX_PAYLOAD,      \* MAX_PAYLOAD_BYTES
  MAX_CODE_DIGITS,
  TTL               \* AGENT_STATUS_TTL_MS, in ticks

VARIABLES
  tty,       \* bytes the agent wrote and the reader has not read
  read,      \* every byte read so far
  stream,    \* the daemon reader's AgentStatusStream
  clean,     \* what the daemon's terminal was given
  parsed,    \* report of the last read, not stored yet: <<>> or <<report>>
  report,    \* PtyHandle.agent_status of the daemon: <<>> or <<report>>
  raw,       \* PtyHandle.pending_log: bytes read and not pumped
  title,     \* PtyHandle.title
  lastMeta,  \* Session.last_metadata: <<title, report>>
  wire,      \* messages on their way to the client
  cstream,   \* the client reader's AgentStatusStream
  creport,   \* PtyHandle.agent_status of the client
  now,       \* pty_clock_now_ms
  writes, attaches

vars == <<tty, read, stream, clean, parsed, report, raw, title, lastMeta,
          wire, cstream, creport, now, writes, attaches>>

-----------------------------------------------------------------------------
(* Bytes and what an agent writes.                                         *)

Byte(k) == [kind |-> k, id |-> 0, age |-> 0]
Esc == Byte("esc")
Header == <<Esc, Byte("]"), Byte("9"), Byte(";")>>
Body(id, age) == <<Byte("part"), [kind |-> "rest", id |-> id, age |-> age]>>
Overlong == Header \o [i \in 1 .. MAX_PAYLOAD + 1 |-> Byte("part")] \o <<Byte("bel")>>
Loose == {<<Byte(k)>> : k \in LooseKinds}

Reports(bytes) == Cardinality({i \in DOMAIN bytes : bytes[i].kind = "rest"})
NextId == 1 + Reports(read \o tty)

\* A report ends in BEL or in ST (ESC \).
ReportWrites ==
  {Header \o Body(NextId, 0) \o end : end \in {<<Byte("bel")>>, <<Esc, Byte("\\")>>}}

-----------------------------------------------------------------------------
(* AgentStatusStream.                                                      *)

NewStream == [seq |-> <<>>, capturing |-> FALSE, expectSt |-> FALSE,
              payload |-> <<>>, truncated |-> FALSE]

\* One pass of `process`: the stream, the clean bytes and the reports so far.
Pass(s, out, reports) == [s |-> s, out |-> out, reports |-> reports]

\* parse_agent_status_payload: only a whole payload is a report; its stamp is
\* the local time less the age it carries.
Parsed(payload, time) ==
  IF Len(payload) = 2 /\ payload[1].kind = "part" /\ payload[2].kind = "rest"
  THEN <<[id |-> payload[2].id, at |-> time - payload[2].age]>>
  ELSE <<>>

FinishPayload(p, time) ==
  Pass([p.s EXCEPT !.capturing = FALSE, !.truncated = FALSE, !.payload = <<>>],
       p.out,
       p.reports \o (IF p.s.truncated THEN <<>> ELSE Parsed(p.s.payload, time)))

PayloadByte(p, byte, time) ==
  CASE byte.kind = "bel" -> FinishPayload(p, time)
    [] byte.kind = "esc" ->
         LET f == FinishPayload(p, time)
         IN  [f EXCEPT !.s.expectSt = TRUE]
    [] OTHER ->
         IF Len(p.s.payload) < MAX_PAYLOAD
         THEN [p EXCEPT !.s.payload = Append(@, byte)]
         ELSE [p EXCEPT !.s.truncated = TRUE]

Flushed(p) == [p EXCEPT !.out = @ \o p.s.seq, !.s.seq = <<>>]

\* The sequence is not an OSC: all of it goes on, except that a final ESC may
\* start another one.
FlushedToEsc(p) ==
  IF Last(p.s.seq).kind = "esc"
  THEN [p EXCEPT !.out = @ \o Front(p.s.seq), !.s.seq = <<Esc>>]
  ELSE Flushed(p)

ClassifyOsc(p) ==
  LET body == SubSeq(p.s.seq, 3, Len(p.s.seq))
      last == Last(body)
  IN  CASE body = <<>> -> p
        [] body # <<>> /\ last.kind = ";" ->
             IF Front(body) = <<Byte("9")>>
             THEN [p EXCEPT !.s.seq = <<>>, !.s.capturing = TRUE,
                            !.s.payload = <<>>, !.s.truncated = FALSE]
             ELSE Flushed(p)
        [] body # <<>> /\ last.kind \notin {";", "9"} -> Flushed(p)
        [] OTHER -> IF Len(body) > MAX_CODE_DIGITS THEN Flushed(p) ELSE p

ClassifySeq(p) ==
  CASE Len(p.s.seq) = 1 -> p
    [] Len(p.s.seq) > 1 /\ p.s.seq[2].kind # "]" -> FlushedToEsc(p)
    [] OTHER -> ClassifyOsc(p)

Sequenced(p, bytes) == ClassifySeq([p EXCEPT !.s.seq = @ \o bytes])

\* The byte is dropped with the ESC before it.
AfterEscDropping(p, byte) == [p EXCEPT !.s.expectSt = FALSE]

\* The byte after an ESC that ended a payload: the rest of ST, or the second
\* byte of a new sequence.
AfterEsc(p, byte) ==
  LET q == [p EXCEPT !.s.expectSt = FALSE]
  IN  IF byte.kind = "\\" THEN q ELSE Sequenced(q, <<Esc, byte>>)

ProcessByte(p, byte, time) ==
  CASE p.s.expectSt -> AfterEsc(p, byte)
    [] ~p.s.expectSt /\ p.s.capturing -> PayloadByte(p, byte, time)
    [] ~p.s.expectSt /\ ~p.s.capturing /\ p.s.seq # <<>> -> Sequenced(p, <<byte>>)
    [] OTHER -> IF byte.kind = "esc" THEN [p EXCEPT !.s.seq = <<byte>>]
                ELSE [p EXCEPT !.out = Append(@, byte)]

\* Evaluate w once (TLC would evaluate an argument at each of its uses).
Then(w, F(_)) == CHOOSE v \in {F(x) : x \in {w}} : TRUE

Process(s, chunk, time) ==
  IF /\ s.seq = <<>> /\ ~s.capturing /\ ~s.expectSt
     /\ \A i \in DOMAIN chunk : chunk[i].kind # "esc"
  THEN Pass(s, chunk, <<>>)
  ELSE FoldLeft(LAMBDA p, b : Then(p, LAMBDA x : ProcessByte(x, b, time)),
                Pass(s, <<>>, <<>>), chunk)

\* The last report of a pass replaces the one stored.
Latest(stored, reports) == IF reports = <<>> THEN stored ELSE <<Last(reports)>>

-----------------------------------------------------------------------------
(* Metadata on the wire.                                                   *)

Metadata == <<title, report>>

\* metadata_osc: the title goes on to the client's terminal, the report is
\* written with its age - known only when a client attaches.
MetadataOsc(attaching) ==
  <<Esc, Byte("]"), Byte("2"), Byte(";"), Byte("bel")>>
  \o (IF report = <<>> THEN <<>>
      ELSE Header
           \o Body(report[1].id, IF attaching THEN now - report[1].at ELSE 0)
           \o <<Byte("bel")>>)

-----------------------------------------------------------------------------
Init ==
  /\ tty = <<>> /\ read = <<>> /\ raw = <<>> /\ clean = <<>>
  /\ stream = NewStream /\ cstream = NewStream
  /\ parsed = <<>> /\ report = <<>> /\ creport = <<>>
  /\ title = 0 /\ lastMeta = <<0, <<>>>>
  /\ wire = <<>> /\ now = 0 /\ writes = 0 /\ attaches = 0

\* The agent writes a loose byte, a header, too long a payload or a whole report.
Write ==
  /\ tty = <<>>
  /\ writes < MaxWrites
  /\ \/ \E bytes \in Loose \cup {Header, Overlong} : tty' = bytes
     \/ /\ NextId <= MaxReports
        /\ \E bytes \in ReportWrites : tty' = bytes
  /\ writes' = writes + 1
  /\ UNCHANGED <<read, stream, clean, parsed, report, raw, title, lastMeta, wire,
                 cstream, creport, now, attaches>>

\* One read of the PTY: the raw bytes are retained for the log and parsed
\* under the terminal's lock; the reports are published afterwards.
ReadChunk ==
  /\ tty # <<>> /\ parsed = <<>>
  /\ \E n \in 1 .. Len(tty) :
       \E p \in {Process(stream, SubSeq(tty, 1, n), now)} :
         /\ stream' = p.s
         /\ clean' = clean \o p.out
         /\ parsed' = <<p.reports>>
         /\ read' = read \o SubSeq(tty, 1, n)
         /\ raw' = raw \o SubSeq(tty, 1, n)
         /\ tty' = SubSeq(tty, n + 1, Len(tty))
  /\ UNCHANGED <<report, title, lastMeta, wire, cstream, creport, now, writes, attaches>>

\* The reader stores the last report of the read.
Publish ==
  /\ parsed # <<>>
  /\ report' = Latest(report, parsed[1])
  /\ parsed' = <<>>
  /\ UNCHANGED <<tty, read, stream, clean, raw, title, lastMeta, wire, cstream,
                 creport, now, writes, attaches>>

\* The terminal handles a title sequence of the program.
SetTitle ==
  /\ title < MaxTitles
  /\ title' = title + 1
  /\ UNCHANGED <<tty, read, stream, clean, parsed, report, raw, lastMeta, wire,
                 cstream, creport, now, writes, attaches>>

\* The report is left out of the comparison.
MetadataChangedTitle == Metadata[1] # lastMeta[1]

\* Metadata is forwarded only when it differs from what was forwarded last.
MetadataChanged == Metadata # lastMeta

\* pump_output_at: what was read, then the metadata if it changed.
Pump ==
  /\ wire = <<>>                    \* bound: one pump on its way at a time
  /\ raw # <<>> \/ MetadataChanged
  /\ wire' = wire \o (IF raw = <<>> THEN <<>> ELSE <<raw>>)
                  \o (IF MetadataChanged THEN <<MetadataOsc(FALSE)>> ELSE <<>>)
  /\ raw' = <<>>
  /\ lastMeta' = IF MetadataChanged THEN Metadata ELSE lastMeta
  /\ UNCHANGED <<tty, read, stream, clean, parsed, report, title, cstream,
                 creport, now, writes, attaches>>

\* The client's reader takes the next message.
Receive ==
  /\ wire # <<>>
  /\ \E p \in {Process(cstream, Head(wire), now)} :
       /\ cstream' = p.s
       /\ creport' = Latest(creport, p.reports)
  /\ wire' = Tail(wire)
  /\ UNCHANGED <<tty, read, stream, clean, parsed, report, raw, title, lastMeta,
                 now, writes, attaches>>

\* A client attaches: a fresh handle replays the snapshot, which begins with
\* the metadata and its age and stands for everything read.
Attach ==
  /\ attaches < MaxAttaches
  /\ \E p \in {Process(NewStream, MetadataOsc(TRUE), now)} :
       /\ cstream' = p.s
       /\ creport' = Latest(<<>>, p.reports)
  /\ raw' = <<>>
  /\ wire' = <<>>
  /\ attaches' = attaches + 1
  /\ UNCHANGED <<tty, read, stream, clean, parsed, report, title, lastMeta, now, writes>>

\* What was read is delivered well within a tick, a large part of the TTL.
Tick ==
  /\ now < MaxTime
  /\ wire = <<>> /\ raw = <<>> /\ parsed = <<>> /\ ~MetadataChanged
  /\ now' = now + 1
  /\ UNCHANGED <<tty, read, stream, clean, parsed, report, raw, title, lastMeta, wire,
                 cstream, creport, writes, attaches>>

Next == Write \/ ReadChunk \/ Publish \/ SetTitle \/ Pump \/ Receive \/ Attach \/ Tick

Spec == Init /\ [][Next]_vars

-----------------------------------------------------------------------------
(* Reference: which bytes of the whole input belong to captured sequences. *)

DigitsFrom(s, i, j) == \A k \in i .. j : s[k].kind = "9"

\* Whether the ESC at i starts a sequence: it does unless it cuts the header of
\* an OSC that started before it (that header is let through with the ESC).
Starts(s) ==
  LET st[i \in 0 .. Len(s)] ==
        /\ i > 0
        /\ s[i].kind = "esc"
        /\ \A k \in 1 .. i - 2 :
             ~(st[k] /\ s[k + 1].kind = "]" /\ DigitsFrom(s, k + 2, i - 1)
               /\ i - k - 2 <= MAX_CODE_DIGITS)
  IN  {i \in 1 .. Len(s) : st[i]}

IsHeader(s, i) == i + 3 <= Len(s) /\ SubSeq(s, i, i + 3) = Header

\* The last byte of the sequence captured from i on: BEL, ST, or the byte
\* before an ESC that starts something else.
EndOf(s, i) ==
  LET stops == {j \in i + 4 .. Len(s) : s[j].kind \in {"bel", "esc"}}
  IN  IF stops = {} THEN Len(s)
      ELSE LET j == CHOOSE j \in stops : \A k \in stops : j <= k
           IN  CASE s[j].kind = "bel" -> j
                 [] s[j].kind = "esc" /\ j = Len(s) -> j
                 [] OTHER -> IF s[j + 1].kind = "\\" THEN j + 1 ELSE j - 1

CapturedBytes(s) ==
  UNION {i .. EndOf(s, i) : i \in {h \in Starts(s) : IsHeader(s, h)}}

VisibleBytes(s) ==
  LET captured == CapturedBytes(s)
      keep[i \in 0 .. Len(s)] ==
        IF i = 0 THEN <<>>
        ELSE IF i \in captured THEN keep[i - 1] ELSE Append(keep[i - 1], s[i])
  IN  keep[Len(s)]

\* A whole report of the input the reader did not skip.
WholeReports(s) ==
  {s[i + 5].id : i \in {h \in Starts(s) :
                          /\ IsHeader(s, h) /\ h + 6 <= Len(s)
                          /\ s[h + 4].kind = "part" /\ s[h + 5].kind = "rest"
                          /\ s[h + 6].kind \in {"bel", "esc"}}}

-----------------------------------------------------------------------------
(* Properties.                                                             *)

IdOf(r) == IF r = <<>> THEN 0 ELSE r[1].id

\* However the output is cut into reads, the terminal gets exactly the bytes
\* outside captured sequences, in order (what is not yet classified is still
\* held), and the report stored is the last whole one.
CaptureIsExact ==
  /\ clean \o stream.seq = VisibleBytes(read)
  /\ parsed = <<>> =>
       IdOf(report) = (IF WholeReports(read) = {} THEN 0
                       ELSE CHOOSE m \in WholeReports(read) :
                              \A k \in WholeReports(read) : k <= m)

\* When the daemon has nothing more to send and the client has taken it all,
\* the client knows the daemon's last report, wherever reads, pumps and
\* attaches cut the sequences that carried it.
ClientKnowsTheReport ==
  (raw = <<>> /\ wire = <<>> /\ ~MetadataChanged /\ parsed = <<>> /\ ~stream.capturing) =>
    IdOf(creport) >= IdOf(report)

\* The status channel is sound.
StatusIsFaithful == CaptureIsExact /\ ClientKnowsTheReport

Fresh(r, time) == r # <<>> /\ time - r[1].at <= TTL

\* A report that is no longer fresh for the client stays so: forwarding it
\* again does not make it new.
StaleStaysStale ==
  [][(creport # <<>> /\ ~Fresh(creport, now) /\ IdOf(creport') = IdOf(creport))
       => ~Fresh(creport', now')]_vars
=============================================================================
