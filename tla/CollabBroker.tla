---------------------------- MODULE CollabBroker ----------------------------
(* The broker of a shared workspace (collab/broker.rs): one share session,  *)
(* the join requests that verify a password outside the registry's lock,    *)
(* the decisions of the host, the web sockets of host and guests, and the   *)
(* clean-up task.  Every action is one critical section of the registry     *)
(* mutex.  Clocks are not modelled: a deadline may pass at any time.        *)
EXTENDS Naturals, FiniteSets, FiniteSetsExt

CONSTANTS
    BrokerGuests,     \* ids of join attempts; a finished one names a guest
    MaxConns,         \* bound on the web sockets opened in a behaviour
    MaxGuests,        \* seats of a session (3 in validate_join_access)
    MaxVerifications, \* MAX_PASSWORD_VERIFICATIONS
    MaxRotations      \* bound on the rotations of the invite

VARIABLES
    share,    \* the session's record: phase, invite, hash, locked
    hostLink, \* host_connection_id and host_disconnected_at
    seats,    \* guest id -> its GuestRecord, or Absent
    joins,    \* join attempt -> where its HTTP request is
    permits,  \* free slots of verification_slots
    upgrading, \* participants with an upgrade under way (at most one in all)
    socks,    \* connection -> its handle_socket task
    verdict   \* history: the last decision on a guest

vars == <<share, hostLink, seats, joins, permits, upgrading, socks, verdict>>

NoConn == 0
Conns == 1..MaxConns
HostId == "host"
Absent == [approved |-> FALSE, st |-> "Absent", conn |-> 0]
States == {"Pending", "Approved", "Connected", "Denied", "Disconnected"}
\* Invite secrets are numbered 0, 2, 4...; an odd number says that the secret
\* before it has expired.
Secrets == 0..(2 * MaxRotations + 1)

\* A fresh GuestRecord: trusted devices are approved at once.
NewGuest(trusted) ==
    [approved |-> trusted, st |-> IF trusted THEN "Approved" ELSE "Pending",
     conn |-> NoConn]

Present == {g \in BrokerGuests : seats[g] # Absent}

MayRelay(g) ==
    /\ g \in Present
    /\ seats[g].approved
    /\ seats[g].st \in {"Approved", "Connected"}

Connected(r, c) ==
    [r EXCEPT !.conn = c, !.st = IF r.approved THEN "Connected" ELSE "Pending"]

Disconnected(r) ==
    [r EXCEPT !.conn = NoConn,
              !.st = CASE r.st = "Denied" -> "Denied"
                       [] r.st # "Denied" /\ r.approved -> "Disconnected"
                       [] OTHER -> "Pending"]

Idle == [pc |-> "idle", invite |-> 0, good |-> FALSE]

ActiveGuestCount == Cardinality({g \in Present : seats[g].st # "Denied"})

Init ==
    /\ share = [phase |-> "none", invite |-> 0,
                hash |-> FALSE, locked |-> FALSE]
    /\ hostLink = [conn |-> NoConn, gone |-> TRUE]
    /\ seats = [g \in BrokerGuests |-> Absent]
    /\ joins = [g \in BrokerGuests |-> Idle]
    /\ permits = MaxVerifications
    /\ upgrading = {}
    /\ socks = [c \in Conns |-> [pc |-> "free", who |-> HostId, reaped |-> FALSE]]
    /\ verdict = [g \in BrokerGuests |-> "none"]

Open == share.phase = "open"

\* The host opens the session, with or without a password.
CreateShareSession(hash) ==
    /\ share.phase = "none"
    /\ share' = [share EXCEPT !.phase = "open", !.hash = hash]
    /\ UNCHANGED <<hostLink, seats, joins, permits, upgrading, socks, verdict>>

\* Expiry of the invite, the current secret, and a free seat.
ValidateJoinAccess(secret) ==
    /\ share.invite % 2 = 0
    /\ secret = share.invite
    /\ ActiveGuestCount < MaxGuests

Throttled == [share EXCEPT !.locked = TRUE]

\* prepare_join_verification: a request with a password takes a permit and
\* reserves the attempt; one without it, where it is required, is a failed
\* attempt; one to a session without a password goes on to finish_join.
PrepareJoin(g, secret, pass) ==
    /\ Open
    /\ joins[g].pc = "idle"
    /\ ~share.locked
    /\ ValidateJoinAccess(secret)
    /\ \/ /\ ~share.hash
          /\ joins' = [joins EXCEPT ![g] = [pc |-> "finish", invite |-> secret, good |-> TRUE]]
          /\ UNCHANGED <<share, permits>>
       \/ /\ share.hash
          /\ pass = "none"
          /\ share' = Throttled
          /\ UNCHANGED <<joins, permits>>
       \/ /\ share.hash
          /\ pass # "none"
          /\ permits > 0
          /\ permits' = permits - 1
          /\ share' = Throttled
          /\ joins' = [joins EXCEPT ![g] =
                         [pc |-> "hashing", invite |-> secret, good |-> (pass = "good")]]
    /\ UNCHANGED <<hostLink, seats, upgrading, socks, verdict>>

\* The client gives up while the password is hashed: the blocking job goes on
\* and keeps its permit.
CancelJoin(g) ==
    /\ joins[g].pc = "hashing"
    /\ joins' = [joins EXCEPT ![g].pc = "orphan"]
    /\ UNCHANGED <<share, hostLink, seats, permits, upgrading, socks, verdict>>

VerificationEnds(g) ==
    /\ joins[g].pc \in {"hashing", "orphan"}
    /\ joins' = [joins EXCEPT ![g] =
                     IF @.pc = "hashing" THEN [@ EXCEPT !.pc = "finish"] ELSE Idle]
    /\ permits' = IF permits < MaxVerifications THEN permits + 1 ELSE permits
    /\ UNCHANGED <<share, hostLink, seats, upgrading, socks, verdict>>

\* finish_join: everything read before the hash is checked again.
FinishJoinUnchecked(g, trusted) ==
    /\ joins[g].pc = "finish"
    /\ Open
    /\ joins[g].good
    /\ share' = [share EXCEPT !.locked = FALSE]
    /\ seats' = [seats EXCEPT ![g] = NewGuest(trusted)]
    /\ verdict' = [verdict EXCEPT ![g] = IF trusted THEN "yes" ELSE @]
    /\ joins' = [joins EXCEPT ![g] = [Idle EXCEPT !.pc = "in"]]
    /\ UNCHANGED <<hostLink, permits, upgrading, socks>>

FinishJoin(g, trusted) ==
    /\ joins[g].pc = "finish"
    /\ LET valid == Open /\ ValidateJoinAccess(joins[g].invite) IN
       \/ /\ ~valid
          /\ joins' = [joins EXCEPT ![g] = Idle]
          /\ UNCHANGED <<share, seats, verdict>>
       \/ /\ valid
          /\ ~joins[g].good
          /\ share' = Throttled
          /\ joins' = [joins EXCEPT ![g] = Idle]
          /\ UNCHANGED <<seats, verdict>>
       \/ /\ valid
          /\ joins[g].good
          /\ share' = [share EXCEPT !.locked = FALSE]
          /\ seats' = [seats EXCEPT ![g] = NewGuest(trusted)]
          /\ verdict' = [verdict EXCEPT ![g] = IF trusted THEN "yes" ELSE @]
          /\ joins' = [joins EXCEPT ![g] = [Idle EXCEPT !.pc = "in"]]
    /\ UNCHANGED <<hostLink, permits, upgrading, socks>>

RotateInvite ==
    /\ Open
    /\ share.invite < 2 * MaxRotations
    /\ share' = [share EXCEPT !.invite = 2 * (@ \div 2) + 2, !.locked = FALSE]
    /\ UNCHANGED <<hostLink, seats, joins, permits, upgrading, socks, verdict>>

\* A denied guest cannot be approved any more.
ApproveJoin(g) ==
    /\ Open
    /\ g \in Present
    /\ seats[g].st # "Denied"
    /\ seats' = [seats EXCEPT ![g].approved = TRUE, ![g].st = "Approved"]
    /\ verdict' = [verdict EXCEPT ![g] = "yes"]
    /\ UNCHANGED <<share, hostLink, joins, permits, upgrading, socks>>

\* The record of a denied guest keeps its socket.
DenyJoin(g) ==
    /\ Open
    /\ g \in Present
    /\ seats' = [seats EXCEPT ![g].approved = FALSE, ![g].st = "Denied"]
    /\ verdict' = [verdict EXCEPT ![g] = "no"]
    /\ UNCHANGED <<share, hostLink, joins, permits, upgrading, socks>>

Ended ==
    /\ share' = [share EXCEPT !.phase = "ended", !.invite = 0, !.hash = FALSE, !.locked = FALSE]
    /\ hostLink' = [conn |-> NoConn, gone |-> TRUE]
    /\ seats' = [g \in BrokerGuests |-> Absent]

EndShareSession ==
    /\ Open
    /\ Ended
    /\ UNCHANGED <<joins, permits, upgrading, socks, verdict>>

\* stream_session checks the token, and the guest's state, before the upgrade.
StreamSession(who) ==
    /\ Open
    /\ who # HostId => who \in Present /\ seats[who].st # "Denied"
    /\ upgrading' = upgrading \cup {who}
    /\ upgrading = {}
    /\ UNCHANGED <<share, hostLink, seats, joins, permits, socks, verdict>>

\* handle_socket registers the connection, the first free number; a guest
\* denied or removed since the upgrade is refused.
NextConn == Min({c \in Conns : socks[c].pc = "free"})

RegisterSocket(who) ==
    LET refused == ~Open \/ (who # HostId /\ (who \notin Present \/ seats[who].st = "Denied"))
    IN
    /\ who \in upgrading
    /\ upgrading' = upgrading \ {who}
    /\ \/ /\ refused
          /\ UNCHANGED <<hostLink, seats, socks>>
       \/ /\ ~refused
          /\ \E c \in Conns : socks[c].pc = "free"
          /\ socks' = [socks EXCEPT ![NextConn] = [pc |-> "open", who |-> who, reaped |-> FALSE]]
          /\ hostLink' = IF who = HostId THEN [conn |-> NextConn, gone |-> FALSE] ELSE hostLink
          /\ seats' = [g \in BrokerGuests |->
                         IF g = who THEN Connected(seats[g], NextConn) ELSE seats[g]]
    /\ UNCHANGED <<share, joins, permits, verdict>>

\* The read loop ends: closed, failed, idle for 75 s, or a frame that is not
\* an envelope of this session and sender.
LoopEnds(c) ==
    /\ socks[c].pc = "open"
    /\ socks' = [socks EXCEPT ![c].pc = "closing"]
    /\ UNCHANGED <<share, hostLink, seats, joins, permits, upgrading, verdict>>

\* handle_disconnect: only the connection that is registered clears anything.
HandleDisconnect(c) ==
    LET who == socks[c].who IN
    /\ socks[c].pc = "closing"
    /\ socks' = [socks EXCEPT ![c].pc = "closed"]
    /\ hostLink' = IF who = HostId /\ hostLink.conn = c
                   THEN [conn |-> NoConn, gone |-> TRUE] ELSE hostLink
    /\ seats' = [g \in BrokerGuests |->
                   IF g = who /\ g \in Present /\ seats[g].conn = c
                   THEN Disconnected(seats[g]) ELSE seats[g]]
    /\ UNCHANGED <<share, joins, permits, upgrading, verdict>>

\* One pass of cleanup_expired_sessions.  hs: the host missed its heartbeat;
\* S: guests that did; X: guests whose time to live has passed; over: the
\* grace of a host that had gone before this pass.  A guest disconnected by
\* this pass starts its time to live now, unless it is still pending.
Cleanup(hs, S, X, over) ==
    LET tried(g) == IF g \in S THEN Disconnected(seats[g]) ELSE seats[g]
        drops(g) ==
            LET r == tried(g) IN
            /\ g \in X
            /\ \/ r.st = "Denied" /\ g \notin S
               \/ r.st = "Pending" /\ r.conn = NoConn
               \/ r.st = "Disconnected" /\ r.conn = NoConn /\ g \notin S
    IN
    /\ Open
    /\ hs => hostLink.conn # NoConn
    /\ S \subseteq {g \in Present : seats[g].conn # NoConn}
    /\ X \subseteq Present
    /\ socks' = [c \in Conns |->
                   IF (hs /\ hostLink.conn = c) \/ \E g \in S : seats[g].conn = c
                   THEN [socks[c] EXCEPT !.reaped = TRUE] ELSE socks[c]]
    /\ \/ /\ over
          /\ hostLink.gone
          /\ Ended
       \/ /\ ~over
          /\ hostLink' = IF hs THEN [conn |-> NoConn, gone |-> TRUE] ELSE hostLink
          /\ seats' = [g \in BrokerGuests |->
                         IF g \in Present
                         THEN IF drops(g) THEN Absent ELSE tried(g)
                         ELSE Absent]
          /\ UNCHANGED share
    /\ UNCHANGED <<joins, permits, upgrading, verdict>>

\* The clock: the invite expires, the lock after a failed attempt ends.
InviteExpires ==
    /\ Open /\ share.invite % 2 = 0
    /\ share' = [share EXCEPT !.invite = @ + 1]
    /\ UNCHANGED <<hostLink, seats, joins, permits, upgrading, socks, verdict>>

LockEnds ==
    /\ Open /\ share.locked
    /\ share' = [share EXCEPT !.locked = FALSE]
    /\ UNCHANGED <<hostLink, seats, joins, permits, upgrading, socks, verdict>>

Next ==
    \/ \E hash \in BOOLEAN : CreateShareSession(hash)
    \/ \E g \in BrokerGuests :
          \/ \E pass \in {"none", "good", "bad"} : PrepareJoin(g, share.invite, pass)
          \/ CancelJoin(g)
          \/ VerificationEnds(g)
          \/ \E trusted \in BOOLEAN : FinishJoin(g, trusted)
          \/ ApproveJoin(g)
          \/ DenyJoin(g)
    \/ RotateInvite
    \/ EndShareSession
    \/ \E who \in BrokerGuests \cup {HostId} : StreamSession(who) \/ RegisterSocket(who)
    \/ \E c \in Conns : LoopEnds(c) \/ HandleDisconnect(c)
    \/ \E hs, over \in BOOLEAN, S, X \in SUBSET BrokerGuests : Cleanup(hs, S, X, over)
    \/ InviteExpires
    \/ LockEnds

Spec == Init /\ [][Next]_vars

TypeOK ==
    /\ share \in [phase : {"none", "open", "ended"}, invite : Secrets,
                  hash : BOOLEAN, locked : BOOLEAN]
    /\ hostLink \in [conn : {NoConn} \cup Conns, gone : BOOLEAN]
    /\ seats \in [BrokerGuests ->
                    [approved : BOOLEAN, st : States, conn : {NoConn} \cup Conns] \cup {Absent}]
    /\ upgrading \subseteq BrokerGuests \cup {HostId}
    /\ joins \in [BrokerGuests -> [pc : {"idle", "hashing", "orphan", "finish", "in"},
                                   invite : Secrets, good : BOOLEAN]]
    /\ permits \in 0..MaxVerifications
    /\ socks \in [Conns -> [pc : {"free", "open", "closing", "closed"},
                            who : BrokerGuests \cup {HostId}, reaped : BOOLEAN]]
    /\ verdict \in [BrokerGuests -> {"none", "yes", "no"}]

\* The participants a frame read from connection c is passed on to
\* (relay_payload).
Receivers(c) ==
    CASE ~Open -> {}
      [] Open /\ socks[c].who = HostId ->
            {g \in Present : MayRelay(g) /\ seats[g].conn # NoConn}
      [] OTHER -> IF MayRelay(socks[c].who) /\ hostLink.conn # NoConn THEN {HostId} ELSE {}

-----------------------------------------------------------------------------
\* Concurrent joins never fill more seats than a session has, although each
\* checked for a free seat before its password was hashed.
SeatsAreBounded == ActiveGuestCount <= MaxGuests

\* The jobs that hash a password never exceed the permits, although clients
\* may hang up in the middle of one.
VerificationsAreBounded ==
    Cardinality({g \in BrokerGuests : joins[g].pc \in {"hashing", "orphan"}}) <= MaxVerifications

\* A frame is passed to a guest or taken from it only while the last decision
\* on that guest (the host's, or its device being trusted) was to admit it,
\* whatever connections it opened, lost or kept since.
RelayNeedsApproval ==
    /\ \A g \in BrokerGuests : MayRelay(g) => verdict[g] = "yes"
    /\ \A c \in Conns : socks[c].pc = "open" =>
          \A g \in Receivers(c) \cup {socks[c].who} :
              g # HostId /\ Receivers(c) # {} => verdict[g] = "yes"

\* The newest connection of a participant stays registered until it ends or
\* misses its heartbeat: the late end of an older one does not remove it.
NewestStaysRegistered ==
    \A who \in BrokerGuests \cup {HostId} :
        LET mine == {c \in Conns : socks[c].who = who /\ socks[c].pc \in {"open", "closing", "closed"}}
        IN  /\ Open
            /\ who = HostId \/ who \in Present
            /\ mine # {}
            /\ socks[Max(mine)].pc = "open"
            /\ ~socks[Max(mine)].reaped
            => (IF who = HostId THEN hostLink.conn ELSE seats[who].conn) = Max(mine)

Admission ==
    SeatsAreBounded /\ VerificationsAreBounded /\ RelayNeedsApproval /\ NewestStaysRegistered
=============================================================================
