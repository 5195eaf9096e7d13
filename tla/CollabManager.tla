--------------------------- MODULE CollabManager ---------------------------
(* The application's side of a shared session (collab/manager.rs with its   *)
(* HTTP worker and the glue in app/collab_ui.rs): one program that hosts or *)
(* joins a session.  The broker and the other participants are external:    *)
(* their messages arrive as events of the transport.  Events carry no       *)
(* session, so one left over from a closed session may arrive in the next.  *)
(* Payload contents, sequence numbers and size limits are left out.         *)
EXTENDS Naturals, Sequences, FiniteSets, SequencesExt

CONSTANTS
    CGuests,   \* guest ids
    CTerms,    \* panels of the shared workspace
    MaxStops,  \* bound on the sessions opened
    MaxRekeys, \* bound on the rotations asked for in one session
    MaxJobs    \* bound on the HTTP jobs under way

VARIABLES
    cm,     \* [mode, state, gen, joining, submitting]
    hv,     \* HostSessionContext, or NoHost
    gv,     \* GuestSessionContext: [on, approved, gen]
    jobs,   \* jobs of the HTTP worker, in order
    outs,   \* outcomes the UI has not applied
    truth,  \* external: the states of the guests at the broker
    shared  \* panels that are alive and whose scope allows control

vars == <<cm, hv, gv, jobs, outs, truth, shared>>

Unset == "none"
Gone == "Absent"
GStates == {Gone, "Pending", "Approved", "Connected", "Denied", "Disconnected"}
Admitted == {"Approved", "Connected"}

\* Controls: has is the domain of terminal_controls, ctl and queue its values.
NoHost ==
    [on |-> FALSE, guests |-> [g \in CGuests |-> Gone], pending |-> {}, requests |-> {},
     has |-> {}, ctl |-> [t \in CTerms |-> Unset], queue |-> [t \in CTerms |-> << >>],
     snap |-> {}, key |-> 0, prev |-> FALSE, secret |-> 0, code |-> <<0, 0>>, asked |-> 0]
NoGuest == [on |-> FALSE, approved |-> FALSE, gen |-> 0]

Init ==
    /\ cm = [mode |-> "Inactive", state |-> "NotSharing", gen |-> 0,
             joining |-> FALSE, submitting |-> FALSE]
    /\ hv = NoHost
    /\ gv = NoGuest
    /\ jobs = << >>
    /\ outs = << >>
    /\ truth = [g \in CGuests |-> Gone]
    /\ shared \in SUBSET CTerms

-----------------------------------------------------------------------------
(* Opening and closing.                                                    *)

\* stop_session: the record of the program after it.
Stopped == [cm EXCEPT !.mode = "Inactive", !.state = "NotSharing", !.gen = @ + 1,
                      !.joining = FALSE]

StopSession ==
    /\ cm.gen < MaxStops
    /\ cm.mode # "Inactive" \/ cm.joining
    /\ cm' = Stopped
    /\ hv' = NoHost
    /\ gv' = NoGuest
    /\ UNCHANGED <<jobs, outs, truth, shared>>

\* start_host_session: the address, the certificate, the server, the session
\* and the connect command may each fail, and leave the state Starting.
StartHostSession(ok) ==
    /\ cm.gen < MaxStops
    /\ cm' = [Stopped EXCEPT !.state = "Starting", !.mode = IF ok THEN "Host" ELSE "Inactive"]
    /\ hv' = IF ok THEN [NoHost EXCEPT !.on = TRUE] ELSE NoHost
    /\ truth' = [g \in CGuests |-> Gone]
    /\ gv' = NoGuest
    /\ UNCHANGED <<jobs, outs, shared>>

\* submit_join_session: join_session stops the session first, also when the
\* invite turns out to be unusable.
JoinSession(ok) ==
    /\ cm.gen < MaxStops
    /\ ok => Len(jobs \o outs) < MaxJobs
    /\ cm' = IF ok THEN [Stopped EXCEPT !.state = "Starting", !.joining = TRUE, !.submitting = TRUE]
             ELSE Stopped
    /\ jobs' = IF ok THEN Append(jobs, [op |-> "join", gen |-> cm.gen + 1, g |-> Unset,
                                        removed |-> FALSE, n |-> 0])
               ELSE jobs
    /\ hv' = NoHost
    /\ gv' = NoGuest
    /\ UNCHANGED <<outs, truth, shared>>

\* poll_join_session_result closes the dialog.
PollJoin ==
    /\ cm.submitting
    /\ cm.mode = "Guest" \/ ~cm.joining
    /\ cm' = [cm EXCEPT !.submitting = FALSE]
    /\ UNCHANGED <<hv, gv, jobs, outs, truth, shared>>

-----------------------------------------------------------------------------
(* Requests of the host to the broker, and their outcomes.                 *)

\* send_join_decision takes the request off the list at once.
SendJoinDecision(g, approve) ==
    /\ hv.on
    /\ g \in hv.pending
    /\ Len(jobs \o outs) < MaxJobs
    /\ hv' = [hv EXCEPT !.pending = @ \ {g}]
    /\ jobs' = Append(jobs, [op |-> IF approve THEN "approve" ELSE "deny", gen |-> cm.gen,
                             g |-> g, removed |-> TRUE, n |-> 0])
    /\ UNCHANGED <<cm, gv, outs, truth, shared>>

\* rotate_invite: the new secret is used once the broker has confirmed it.
AskRotation ==
    /\ hv.on
    /\ hv.asked < MaxRekeys
    /\ Len(jobs \o outs) < MaxJobs
    /\ hv' = [hv EXCEPT !.asked = @ + 1]
    /\ jobs' = Append(jobs, [op |-> "rotate", gen |-> cm.gen, g |-> Unset,
                             removed |-> FALSE, n |-> hv.asked + 1])
    /\ UNCHANGED <<cm, gv, outs, truth, shared>>

\* The worker posts one job after the other; a request that fails may have
\* been carried out.  A decision for a session that was closed reaches nobody.
Post(ok, done) ==
    /\ jobs # << >>
    /\ ok => done
    /\ LET j == Head(jobs)
           live == done /\ hv.on /\ j.gen = cm.gen
       IN  /\ jobs' = Tail(jobs)
           /\ outs' = Append(outs, [job |-> j, ok |-> ok])
           /\ truth' = CASE live /\ j.op = "approve" /\ truth[j.g] \notin {Gone, "Left", "Denied"} ->
                               [truth EXCEPT ![j.g] = "Approved"]
                         [] live /\ j.op = "deny" /\ truth[j.g] \notin {Gone, "Left"} ->
                               [truth EXCEPT ![j.g] = "Denied"]
                         [] OTHER -> truth
    /\ UNCHANGED <<cm, hv, gv, shared>>

\* restore_pending_join: only a guest that is still pending comes back.
RestoredAlways(h, j) ==
    [h EXCEPT !.pending = IF j.removed THEN @ \cup {j.g} ELSE @]

Restored(h, j) ==
    [h EXCEPT !.pending = IF h.on /\ j.removed /\ h.guests[j.g] = "Pending"
                          THEN @ \cup {j.g} ELSE @]

\* The outcome of a rotation: the guests are told with the old key, and only
\* if that was queued does the key change; the invite code takes the key in use.
Rotated(h, j, sent) ==
    LET k == IF sent THEN j.n ELSE h.key IN
    [h EXCEPT !.key = k, !.prev = IF sent THEN TRUE ELSE @, !.secret = j.n,
              !.code = <<j.n, k>>]

\* apply_http_outcomes, for the next outcome.  sent: the transport had room.
ApplyOutcomeKeepsJoining(sent) ==
    /\ outs # << >>
    /\ outs' = Tail(outs)
    /\ cm' = [cm EXCEPT !.state = "NotSharing"]
    /\ UNCHANGED <<gv, hv, jobs, truth, shared>>

ApplyOutcome(sent) ==
    /\ outs # << >>
    /\ outs' = Tail(outs)
    /\ LET o == Head(outs)
           j == o.job
       IN  \/ /\ j.gen # cm.gen
              /\ UNCHANGED <<cm, hv, gv>>
           \/ /\ j.gen = cm.gen
              /\ j.op \in {"approve", "deny"}
              /\ hv' = IF o.ok THEN hv ELSE Restored(hv, j)
              /\ UNCHANGED <<cm, gv>>
           \/ /\ j.gen = cm.gen
              /\ j.op = "rotate"
              /\ hv' = IF o.ok /\ hv.on THEN Rotated(hv, j, sent) ELSE hv
              /\ UNCHANGED <<cm, gv>>
           \/ /\ j.gen = cm.gen
              /\ j.op = "join"
              /\ \E trusted \in BOOLEAN :
                    IF o.ok /\ sent
                    THEN /\ cm' = [cm EXCEPT !.joining = FALSE, !.mode = "Guest", !.state = "Starting"]
                         /\ gv' = [on |-> TRUE, approved |-> trusted, gen |-> j.gen]
                    ELSE /\ cm' = [cm EXCEPT !.joining = FALSE, !.state = "NotSharing"]
                         /\ UNCHANGED gv
              /\ UNCHANGED hv
    /\ UNCHANGED <<jobs, truth, shared>>

\* send_rekey_recovery_if_due at the end of the window.
RekeyWindowEnds ==
    /\ hv.on /\ hv.prev
    /\ hv' = [hv EXCEPT !.prev = FALSE]
    /\ UNCHANGED <<cm, gv, jobs, outs, truth, shared>>

-----------------------------------------------------------------------------
(* Control of the terminals, on the host.                                  *)

\* allows_control_target: an admitted guest, a panel of the last snapshot.
AllowsControl(t, g) == hv.guests[g] \in Admitted /\ t \in hv.snap

Dropped(h, T) ==
    [h EXCEPT !.has = @ \cap T,
              !.ctl = [t \in CTerms |-> IF t \in T THEN @[t] ELSE Unset],
              !.queue = [t \in CTerms |-> IF t \in T THEN @[t] ELSE << >>],
              !.requests = {r \in @ : r[1] \in T}]

\* publish_snapshot: controls and requests of panels that are gone or private
\* are dropped; last_snapshot changes if the transport took the frame.
PublishSnapshot(sent) ==
    /\ hv.on
    /\ hv' = [Dropped(hv, shared) EXCEPT !.snap = IF sent THEN shared ELSE @]
    /\ UNCHANGED <<cm, gv, jobs, outs, truth, shared>>

\* The frames a participant accepts (validate_inbound_payload); the broker
\* relays those of admitted guests only.
Accepts(sender, kind) ==
    \/ cm.mode = "Guest" /\ sender = "host" /\ kind \in {"snapshot", "grant", "revoke", "rekey"}
    \/ /\ cm.mode = "Host" /\ sender \in CGuests
       /\ kind \in {"revoke", "input"} \/ (kind = "request" /\ hv.guests[sender] # Gone)

\* note_control_request, from a frame of guest g.
NoteControlRequest(t, g) ==
    /\ truth[g] \in Admitted
    /\ Accepts(g, "request")
    /\ AllowsControl(t, g)
    /\ <<t, g>> \notin hv.requests
    /\ hv' = [hv EXCEPT !.requests = @ \cup {<<t, g>>}, !.has = @ \cup {t},
                        !.queue[t] = Append(@, g)]
    /\ UNCHANGED <<cm, gv, jobs, outs, truth, shared>>

GrantControl(t, g) ==
    /\ hv.on
    /\ AllowsControl(t, g)
    /\ <<t, g>> \in hv.requests
    /\ hv' = [hv EXCEPT !.has = @ \cup {t}, !.ctl[t] = g,
                        !.queue[t] = SelectSeq(@, LAMBDA q : q # g),
                        !.requests = @ \ {<<t, g>>}]
    /\ UNCHANGED <<cm, gv, jobs, outs, truth, shared>>

Revoked(h, t) == [h EXCEPT !.ctl[t] = Unset]

\* revoke_control by the host, or by the frame with which a guest releases the
\* control it has.
RevokeControl(t) ==
    /\ hv.on
    /\ hv.ctl[t] # Unset
    /\ hv' = Revoked(hv, t)
    /\ UNCHANGED <<cm, gv, jobs, outs, truth, shared>>

\* set_focused_panel_share_scope, or a panel that opens or ends.
SetShareScope(t) ==
    /\ shared' = IF t \in shared THEN shared \ {t} ELSE shared \cup {t}
    /\ hv' = IF hv.on /\ t \in shared THEN Revoked(hv, t) ELSE hv
    /\ UNCHANGED <<cm, gv, jobs, outs, truth>>

\* A frame with input from guest g: handle_collab_events applies it, after the
\* events that came with it, if the sender controls the panel by then; control
\* is revoked if the panel is not shared any more or the terminal is not the
\* one the guest saw.
HandleInput(t, g, same) ==
    /\ Accepts(g, "input")
    /\ hv.ctl[t] = g
    /\ t \notin shared \/ ~same
    /\ hv' = Revoked(hv, t)
    /\ UNCHANGED <<cm, gv, jobs, outs, truth, shared>>

-----------------------------------------------------------------------------
(* Events of the transport: handle_transport_events.                       *)

\* release_controls_for_guest, for every guest of G.
Released(h, G) ==
    LET q(t) == SelectSeq(h.queue[t], LAMBDA x : x \notin G)
        c(t) == IF h.ctl[t] \in G THEN Unset ELSE h.ctl[t]
        keep == {t \in h.has : G = {} \/ c(t) # Unset \/ q(t) # << >>}
    IN  [h EXCEPT !.requests = {r \in @ : r[2] \notin G}, !.has = keep,
                  !.ctl = [t \in CTerms |-> IF t \in keep THEN c(t) ELSE Unset],
                  !.queue = [t \in CTerms |-> IF t \in keep THEN q(t) ELSE << >>]]

\* The guests a presence message lists.
Listed == [g \in CGuests |-> IF truth[g] = "Left" THEN Gone ELSE truth[g]]

\* Presence replaces the guests, drops join requests that were decided, and
\* takes control away from guests that left.
Presence ==
    /\ hv.on
    /\ LET left == {g \in CGuests : \/ truth[g] \in {"Disconnected", "Denied"}
                                    \/ Listed[g] = Gone /\ hv.guests[g] # Gone}
       IN  hv' = Released([hv EXCEPT !.guests = Listed,
                                     !.pending = {g \in @ : truth[g] = "Pending"}], left)
    /\ UNCHANGED <<cm, gv, jobs, outs, truth, shared>>

\* The broker sends the presence before the request, on the same queue.
JoinRequested(g) ==
    /\ hv.on
    /\ hv.guests[g] = "Pending"
    /\ hv' = [hv EXCEPT !.pending = @ \cup {g}]
    /\ UNCHANGED <<cm, gv, jobs, outs, truth, shared>>

\* handle_connected: the host publishes everything again.
Connected ==
    /\ cm.mode # "Inactive" /\ cm.state # "Ended"
    /\ cm' = [cm EXCEPT !.state = IF cm.mode = "Host" THEN "Live" ELSE "Starting"]
    /\ hv' = [hv EXCEPT !.snap = {}]
    /\ UNCHANGED <<gv, jobs, outs, truth, shared>>

SetState(s) ==
    /\ cm' = [cm EXCEPT !.state = s]
    /\ UNCHANGED <<hv, jobs, outs, truth, shared>>

LinkLost == cm.state # "Ended" /\ SetState("Disconnected") /\ UNCHANGED gv

JoinApproved ==
    /\ gv.on /\ cm.state # "Ended"
    /\ gv' = [gv EXCEPT !.approved = TRUE]
    /\ SetState("Live")

JoinDenied ==
    /\ gv.on
    /\ gv' = [gv EXCEPT !.approved = FALSE]
    /\ SetState("Ended")

HostDisconnected ==
    cm.mode = "Guest" /\ cm.state # "Ended" /\ SetState("Disconnected") /\ UNCHANGED gv

HostReconnected ==
    /\ cm.mode = "Guest" /\ cm.state # "Ended"
    /\ SetState(IF gv.approved THEN "Live" ELSE "Starting")
    /\ UNCHANGED gv

SessionEnded == SetState("Ended") /\ UNCHANGED gv

-----------------------------------------------------------------------------
\* External: a guest joins, connects, disconnects or is removed at the broker;
\* an id is never used again.
BrokerMoves(g) ==
    /\ hv.on
    /\ \E s \in CASE truth[g] = Gone -> {"Pending", "Approved"}
                  [] truth[g] = "Pending" -> {"Left"}
                  [] truth[g] \in Admitted -> {"Connected", "Disconnected"}
                  [] truth[g] = "Disconnected" -> {"Connected", "Left"}
                  [] truth[g] = "Denied" -> {"Left"}
                  [] OTHER -> {} :
          truth' = [truth EXCEPT ![g] = s]
    /\ UNCHANGED <<cm, hv, gv, jobs, outs, shared>>

Next ==
    \/ StopSession \/ PollJoin \/ AskRotation \/ RekeyWindowEnds
    \/ \E ok \in BOOLEAN : StartHostSession(ok) \/ JoinSession(ok)
    \/ \E ok, done \in BOOLEAN : Post(ok, done)
    \/ \E sent \in BOOLEAN : ApplyOutcome(sent) \/ PublishSnapshot(sent)
    \/ \E g \in CGuests :
          \/ \E a \in BOOLEAN : SendJoinDecision(g, a)
          \/ JoinRequested(g)
          \/ BrokerMoves(g)
          \/ \E t \in CTerms : NoteControlRequest(t, g) \/ GrantControl(t, g)
                              \/ \E same \in BOOLEAN : HandleInput(t, g, same)
    \/ \E t \in CTerms : RevokeControl(t) \/ SetShareScope(t)
    \/ Presence \/ Connected \/ LinkLost \/ JoinApproved \/ JoinDenied
    \/ HostDisconnected \/ HostReconnected \/ SessionEnded

\* The HTTP worker runs on its own thread with a time limit per request, and
\* the UI polls the outcomes and the join dialog in every frame.
Fairness ==
    /\ WF_vars(\E ok, done \in BOOLEAN : Post(ok, done))
    /\ WF_vars(\E sent \in BOOLEAN : ApplyOutcome(sent))
    /\ WF_vars(PollJoin)

Spec == Init /\ [][Next]_vars /\ Fairness

TypeOK ==
    /\ cm \in [mode : {"Inactive", "Host", "Guest"},
               state : {"NotSharing", "Starting", "Live", "Disconnected", "Ended"},
               gen : 0..MaxStops, joining : BOOLEAN, submitting : BOOLEAN]
    /\ hv.on <=> cm.mode = "Host"
    /\ gv.on <=> cm.mode = "Guest"
    /\ hv.guests \in [CGuests -> GStates]
    /\ truth \in [CGuests -> GStates \cup {"Left"}]
    /\ Len(jobs \o outs) <= MaxJobs

-----------------------------------------------------------------------------
\* A guest in control of a terminal, or waiting for it, is one the host
\* believes to be admitted; the queue of a terminal and the list of pending
\* requests name the same guests, each once.
ControlIsConsistent ==
    \A t \in CTerms :
        /\ hv.ctl[t] # Unset => t \in hv.has /\ hv.guests[hv.ctl[t]] \in Admitted
        /\ ToSet(hv.queue[t]) = {g \in CGuests : <<t, g>> \in hv.requests}
        /\ IsInjective(hv.queue[t])
        /\ \A g \in ToSet(hv.queue[t]) : hv.guests[g] \in Admitted

\* Only guests that wait for a decision are offered for one: the failure of an
\* earlier decision, arriving late, does not bring back a guest that left.
PendingIsPending == \A g \in hv.pending : hv.guests[g] = "Pending"

\* The invite code on display carries the key in use and the secret the broker
\* confirmed last, also when the notice of the new key could not be queued.
InviteCarriesKey == hv.on => hv.code = <<hv.secret, hv.key>>

\* A session is joined only by the outcome of the request made for it.
JoinedByOwnRequest == gv.on => gv.gen = cm.gen

\* A guest's session is live only while the host admits it.
LiveNeedsApproval == cm.mode = "Guest" /\ cm.state = "Live" => gv.approved

SessionsAgree ==
    /\ ControlIsConsistent
    /\ PendingIsPending
    /\ InviteCarriesKey
    /\ JoinedByOwnRequest
    /\ LiveNeedsApproval

\* The dialog of a join that was submitted is released in the end.
JoinWaits == cm.submitting
JoinDialogEnds == JoinWaits ~> ~JoinWaits
=============================================================================
