--------------------------- MODULE DaemonRegistry ---------------------------
(***************************************************************************)
(* The daemon's registry of sessions and the requests of its clients       *)
(* (src/src/daemon/server.rs handle_request_for_client, serve_connection,  *)
(* serve; the client side in daemon/sessions.rs and daemon/client.rs).     *)
(*                                                                         *)
(* Every request is handled under the registry's mutex and is one action.  *)
(* A client sends a request on a connection of its own; the request may be *)
(* handled late, its answer may be lost, and the client may send it again. *)
(* A birth with a workspace, a panel and a leaf is managed: the ledger     *)
(* (HookLedger, here reduced to one row per identity) must have authorised *)
(* it, and only a birth the ledger has fenced may be closed.               *)
(*                                                                         *)
(* The retirement of a session (DaemonPersistence) is represented by when  *)
(* it completes: `drained' says that the final output is durable.          *)
(***************************************************************************)
EXTENDS Naturals, FiniteSets, TLAPS

CONSTANTS
    Ids,          \* session UUIDs
    Clients,      \* authenticated app instances
    Managed,      \* identities whose spec names a leaf
    None,
    Capacity,     \* MAX_BIRTH_IDENTITIES
    MaxConns,     \* bound: open connections per client
    MaxWire,      \* bound: requests in flight
    MaxGens       \* bound: births authorised per identity

VARIABLES
    sessions, tombstones, claimants, conns, idle_since, asked,
    ledger,       \* per identity: generation, owner, phase and spawn_consumed
    wire,         \* requests sent and not handled
    shows,        \* per client: the runtime ids of its panels
    attached,     \* per client: the sessions whose snapshot it got
    confirmed,    \* closes of retiring births the clients know confirmed
    child,        \* history: the process of each identity
    killed        \* history: identities this daemon has answered Killed for

registry == <<sessions, tombstones, claimants>>
lifecycle == <<conns, idle_since, asked>>
panels == <<shows, attached>>
history == <<child, killed>>
vars == <<registry, lifecycle, ledger, wire, panels, confirmed, history>>

Session == [birth_client: Clients, adopters: SUBSET Clients, retiring: BOOLEAN,
            generation: 0..MaxGens]
Row == [generation: 0..MaxGens, owner: Clients \cup {None}, consumed: BOOLEAN,
        phase: {"none", "birth", "active", "retiring", "retired"}]
Request ==
    [kind: {"spawn"}, client: Clients, id: Ids, generation: 0..MaxGens] \cup
    [kind: {"attach", "kill", "close_birth"}, client: Clients, id: Ids] \cup
    [kind: {"reconcile_live"}, client: Clients, ids: SUBSET Ids] \cup
    [kind: {"shutdown_if_idle"}, client: Clients]

ASSUME RegistryAssumption == MaxGens \in Nat /\ None \notin Clients \cup Session

TypeOK ==
    /\ sessions \in [Ids -> Session \cup {None}]
    /\ tombstones \in [Ids -> Clients \cup {None}]
    /\ claimants \in [Ids -> SUBSET Clients]
    /\ conns \in [Clients -> 0..MaxConns]
    /\ idle_since \in BOOLEAN /\ asked \in BOOLEAN
    /\ ledger \in [Ids -> Row]
    /\ wire \subseteq Request
    /\ shows \in [Clients -> SUBSET Ids]
    /\ \A c \in Clients : attached[c] \subseteq shows[c]
    /\ confirmed \subseteq Managed
    /\ child \in [Ids -> {"none", "alive", "orphan", "ended"}]
    /\ killed \subseteq Ids

Init ==
    /\ sessions = [i \in Ids |-> None]
    /\ tombstones = [i \in Ids |-> None]
    /\ claimants = [i \in Ids |-> {}]
    /\ conns = [c \in Clients |-> 0]
    /\ idle_since = TRUE /\ asked = FALSE
    /\ ledger = [i \in Ids |-> [generation |-> 0, owner |-> None, consumed |-> FALSE,
                                phase |-> "none"]]
    /\ wire = {}
    /\ shows = [c \in Clients |-> {}]
    /\ attached = [c \in Clients |-> {}]
    /\ confirmed = {}
    /\ child = [i \in Ids |-> "none"]
    /\ killed = {}

-----------------------------------------------------------------------------
(* Connections.                                                            *)

\* Each request in flight occupies a connection of its client.
FreeConnections(c) == conns[c] - Cardinality({m \in wire : m.client = c})

\* client_connected, after the handshake.
ClientConnected(c) ==
    /\ conns[c] < MaxConns
    /\ conns' = [conns EXCEPT ![c] = @ + 1]
    /\ idle_since' = FALSE
    /\ UNCHANGED <<registry, asked, ledger, wire, panels, confirmed, history>>

\* client_disconnected: the last connection of a client ends its claims'
\* protection; the last of all starts the adoption timeout.
ClientDisconnected(c) ==
    /\ FreeConnections(c) > 0
    /\ conns' = [conns EXCEPT ![c] = @ - 1]
    /\ idle_since' = \A d \in Clients : conns'[d] = 0
    /\ UNCHANGED <<registry, asked, ledger, wire, panels, confirmed, history>>

Send(m) ==
    /\ FreeConnections(m.client) > 0
    /\ Cardinality(wire) < MaxWire
    /\ wire' = wire \cup {m}
    /\ UNCHANGED <<registry, lifecycle, ledger, panels, confirmed, history>>

Receive(m) == m \in wire /\ wire' = wire \ {m}

-----------------------------------------------------------------------------
(* The ledger, by the transitions the clients and the daemon ask for.      *)

\* authorize_birth: a new nonce on a fresh or retired row.
AuthorizeBirth(c, i) ==
    /\ i \in Managed
    /\ ledger[i].phase \in {"none", "retired"} /\ ledger[i].generation < MaxGens
    /\ ledger' = [ledger EXCEPT ![i] = [generation |-> @.generation + 1, owner |-> c,
                                        consumed |-> FALSE, phase |-> "birth"]]
    /\ UNCHANGED <<registry, lifecycle, wire, panels, confirmed, history>>

\* Install or Adopt, on the evidence an Attached response carries.
TakeAuthority(c, i) ==
    /\ i \in Managed \cap attached[c]
    /\ sessions[i] # None /\ sessions[i].generation = ledger[i].generation
    /\ ledger[i].phase \in {"birth", "active"}
    /\ ledger' = [ledger EXCEPT ![i] = [@ EXCEPT !.owner = c, !.phase = "active"]]
    /\ UNCHANGED <<registry, lifecycle, wire, panels, confirmed, history>>

\* prepare_physical_close.
FenceRetire(c, i) ==
    /\ i \in Managed
    /\ ledger[i].owner = c /\ ledger[i].phase \in {"birth", "active"}
    /\ ledger' = [ledger EXCEPT ![i] = [@ EXCEPT !.phase = "retiring"]]
    /\ UNCHANGED <<registry, lifecycle, wire, panels, confirmed, history>>

\* physical_close_confirmed and finish, after the daemon's Killed.
FinishRetire(i) ==
    /\ ledger[i].phase = "retiring" /\ i \in confirmed
    /\ ledger' = [ledger EXCEPT ![i] = [@ EXCEPT !.phase = "retired"]]
    /\ confirmed' = confirmed \ {i}
    /\ UNCHANGED <<registry, lifecycle, wire, panels, history>>

\* hook_close_claim for this session: the row is being retired, by this
\* owner if one is named (None: by anyone).
HostCloseFenced(i, owner) ==
    \/ i \notin Managed
    \/ /\ ledger[i].phase = "retiring"
       /\ owner # None => ledger[i].owner = owner
       /\ ledger[i].generation = sessions[i].generation

-----------------------------------------------------------------------------
(* DaemonState.                                                            *)

Identities == Cardinality({i \in Ids : sessions[i] # None})
              + Cardinality({i \in Ids : tombstones[i] # None})

ClientMayClose(i, c) == sessions[i].birth_client = c \/ c \in sessions[i].adopters

\* The end of kill: the session is gone, its identity stays fenced.
Remove(i) ==
    /\ sessions' = [sessions EXCEPT ![i] = None]
    /\ tombstones' = [tombstones EXCEPT ![i] = sessions[i].birth_client]
    /\ claimants' = [claimants EXCEPT ![i] = {}]
    /\ child' = [child EXCEPT ![i] = "ended"]

\* kill: a retirement is requested; it may have been completed already.
Kill(i, drained) ==
    IF drained
    THEN Remove(i)
    ELSE /\ sessions' = [sessions EXCEPT ![i] = [@ EXCEPT !.retiring = TRUE]]
         /\ UNCHANGED <<tombstones, claimants, child>>

-----------------------------------------------------------------------------
(* handle_request_for_client.                                              *)

\* A refused request changes nothing; a request may also be lost with its
\* connection.
RefusedOrLost(m) ==
    /\ Receive(m)
    /\ UNCHANGED <<registry, lifecycle, ledger, panels, confirmed, history>>

\* Faulty variant: a tombstone does not stop a Spawn.
SpawnAdmittedLate(m) ==
    /\ sessions[m.id] = None
    /\ Identities < Capacity
    /\ m.id \in Managed => /\ ledger[m.id].phase = "birth" /\ ~ledger[m.id].consumed
                           /\ ledger[m.id].owner = m.client
                           /\ ledger[m.id].generation = m.generation

\* Request::Spawn for an identity without session, and the nonce that
\* spawn_with_history consumes.
SpawnAdmitted(m) ==
    /\ tombstones[m.id] = None
    /\ sessions[m.id] = None
    /\ Identities < Capacity
    /\ m.id \in Managed => /\ ledger[m.id].phase = "birth" /\ ~ledger[m.id].consumed
                           /\ ledger[m.id].owner = m.client
                           /\ ledger[m.id].generation = m.generation

\* DaemonSession::new, and the creator that Spawn records.
NewSession(m) ==
    [birth_client |-> m.client, adopters |-> {}, retiring |-> FALSE, generation |-> m.generation]

\* The factory runs, or fails after the nonce was consumed.
HandleSpawn(m, starts) ==
    /\ m.kind = "spawn" /\ Receive(m)
    /\ SpawnAdmitted(m)
    /\ sessions' = IF starts
                   THEN [sessions EXCEPT ![m.id] = NewSession(m)] ELSE sessions
    /\ claimants' = IF starts THEN [claimants EXCEPT ![m.id] = @ \cup {m.client}] ELSE claimants
    /\ ledger' = IF m.id \in Managed
                 THEN [ledger EXCEPT ![m.id] = [@ EXCEPT !.consumed = TRUE]] ELSE ledger
    /\ child' = IF starts THEN [child EXCEPT ![m.id] = "alive"] ELSE child
    /\ UNCHANGED <<tombstones, lifecycle, panels, confirmed, killed>>

\* The same birth again after a lost answer: no second shell.
HandleSpawnAgain(m) ==
    /\ m.kind = "spawn" /\ Receive(m)
    /\ sessions[m.id] # None
    /\ sessions[m.id].birth_client = m.client /\ ~sessions[m.id].retiring
    /\ sessions[m.id].generation = m.generation
    /\ UNCHANGED <<registry, lifecycle, ledger, panels, confirmed, history>>

\* Request::Attach: adoption, whether or not the snapshot can be taken; only
\* a client that got it is a claimant.
HandleAttach(m, snapshot) ==
    /\ m.kind = "attach" /\ Receive(m)
    /\ sessions[m.id] # None /\ ~sessions[m.id].retiring
    /\ sessions' = [sessions EXCEPT ![m.id] =
                       [sessions[m.id] EXCEPT !.adopters = @ \cup {m.client}]]
    /\ claimants' = IF snapshot THEN [claimants EXCEPT ![m.id] = @ \cup {m.client}]
                    ELSE claimants
    /\ attached' = IF snapshot /\ m.id \in shows[m.client]
                   THEN [attached EXCEPT ![m.client] = @ \cup {m.id}] ELSE attached
    /\ UNCHANGED <<tombstones, lifecycle, ledger, shows, confirmed, history>>

\* The answer of a kill: Killed, or still pending.  Killed confirms the
\* close of a birth that was fenced before the request was made.
Answer(i, drained) ==
    /\ killed' = IF drained THEN killed \cup {i} ELSE killed
    /\ confirmed' = IF drained /\ ledger[i].phase = "retiring" THEN confirmed \cup {i}
                    ELSE confirmed

\* Request::Kill.
HandleKill(m, drained) ==
    /\ m.kind = "kill" /\ Receive(m)
    /\ sessions[m.id] # None
    /\ HostCloseFenced(m.id, m.client)
    /\ ClientMayClose(m.id, m.client)
    /\ Kill(m.id, drained) /\ Answer(m.id, drained)
    /\ UNCHANGED <<lifecycle, ledger, panels>>

\* Request::CloseBirth on a session.
HandleCloseBirth(m, drained) ==
    /\ m.kind = "close_birth" /\ Receive(m)
    /\ sessions[m.id] # None
    /\ IF m.id \in Managed THEN HostCloseFenced(m.id, m.client)
       ELSE sessions[m.id].birth_client = m.client
    /\ Kill(m.id, drained) /\ Answer(m.id, drained)
    /\ UNCHANGED <<lifecycle, ledger, panels>>

\* host_unknown_close_fence.
UnknownCloseFence(i, c) == i \in Managed /\ ledger[i].phase = "retiring" /\ ledger[i].owner = c

\* Request::CloseBirth on a tombstone: it was killed before.
HandleCloseTombstone(m) ==
    /\ m.kind = "close_birth" /\ Receive(m)
    /\ sessions[m.id] = None /\ tombstones[m.id] # None
    /\ tombstones[m.id] = m.client \/ UnknownCloseFence(m.id, m.client)
    /\ Answer(m.id, TRUE)
    /\ UNCHANGED <<registry, lifecycle, ledger, panels, child>>

\* Faulty variant: an absent session is taken for a closed one.
NoFactoryRanGuess(m) == UnknownCloseFence(m.id, m.client)

\* Only an unconsumed, fenced nonce proves that no factory ran.
NoFactoryRan(m) == UnknownCloseFence(m.id, m.client) /\ ~ledger[m.id].consumed

\* Request::CloseBirth on an unknown identity.
HandleCloseUnknown(m) ==
    /\ m.kind = "close_birth" /\ Receive(m)
    /\ sessions[m.id] = None /\ tombstones[m.id] = None
    /\ Identities < Capacity
    /\ NoFactoryRan(m)
    /\ tombstones' = [tombstones EXCEPT ![m.id] = m.client]
    /\ Answer(m.id, TRUE)
    /\ UNCHANGED <<sessions, claimants, lifecycle, ledger, panels, child>>

\* reconcile_live: the claims after the client's list was taken over.
ReconciledClaims(c, live) ==
    [i \in Ids |->
        IF i \notin live THEN claimants[i] \ {c}
        ELSE IF sessions[i] # None /\ ClientMayClose(i, c) THEN claimants[i] \cup {c}
        ELSE claimants[i]]

\* Faulty variant: claims count only for the client that reconciles.
OrphansOfClient(c, live, claimed) ==
    {i \in Ids \ live : sessions[i] # None /\ ClientMayClose(i, c)}

\* ... and the sessions nobody connected claims any more.
Orphans(c, live, claimed) ==
    {i \in Ids \ live : /\ sessions[i] # None
                        /\ ClientMayClose(i, c)
                        /\ \A d \in claimed[i] : conns[d] = 0}

\* Request::ReconcileLive: every orphan that may be killed is.
HandleReconcile(m, drained) ==
    LET claimed == ReconciledClaims(m.client, m.ids)
        doomed == {i \in Orphans(m.client, m.ids, claimed) : HostCloseFenced(i, None)}
        gone == doomed \cap drained
    IN  /\ m.kind = "reconcile_live" /\ Receive(m)
        /\ sessions' = [i \in Ids |-> IF i \in gone THEN None
                                      ELSE IF i \in doomed
                                      THEN [sessions[i] EXCEPT !.retiring = TRUE]
                                      ELSE sessions[i]]
        /\ tombstones' = [i \in Ids |-> IF i \in gone THEN sessions[i].birth_client
                                        ELSE tombstones[i]]
        /\ claimants' = [i \in Ids |-> IF i \in gone THEN {} ELSE claimed[i]]
        /\ child' = [i \in Ids |-> IF i \in gone THEN "ended" ELSE child[i]]
        /\ killed' = killed \cup gone
        /\ UNCHANGED <<lifecycle, ledger, panels, confirmed>>

\* Request::ShutdownIfIdle: if no session exists the request is remembered
\* and the connection ends.
HandleShutdown(m) ==
    LET idle == \A i \in Ids : sessions[i] = None
    IN  /\ m.kind = "shutdown_if_idle" /\ Receive(m)
        /\ asked' = (asked \/ idle)
        /\ conns' = IF idle THEN [conns EXCEPT ![m.client] = @ - 1] ELSE conns
        /\ idle_since' = \A c \in Clients : conns'[c] = 0
        /\ UNCHANGED <<registry, ledger, panels, confirmed, history>>

-----------------------------------------------------------------------------
(* The daemon's own threads, and its end.                                  *)

\* finish_acknowledged_retirements.
FinishRetirement(i) ==
    /\ sessions[i] # None /\ sessions[i].retiring
    /\ HostCloseFenced(i, None)
    /\ Remove(i)
    /\ UNCHANGED <<lifecycle, ledger, wire, panels, confirmed, killed>>

\* The registry is memory: what is left is the ledger, and children that may
\* outlive their daemon.
Restart(processes) ==
    /\ sessions' = [i \in Ids |-> None]
    /\ tombstones' = [i \in Ids |-> None]
    /\ claimants' = [i \in Ids |-> {}]
    /\ conns' = [c \in Clients |-> 0]
    /\ idle_since' = TRUE /\ asked' = FALSE
    /\ wire' = {} /\ killed' = {}
    /\ attached' = [c \in Clients |-> {}]
    /\ child' = processes
    /\ UNCHANGED <<ledger, shows, confirmed>>

\* The watcher: nobody connected for the adoption timeout, or asked to stop;
\* never with a session.
IdleShutdown ==
    /\ \A i \in Ids : sessions[i] = None
    /\ asked \/ (idle_since /\ \A c \in Clients : conns[c] = 0)
    /\ Restart(child)

Crash ==
    /\ \E i \in Ids : sessions[i] # None
    /\ Restart([i \in Ids |-> IF child[i] = "alive" THEN "orphan" ELSE child[i]])

-----------------------------------------------------------------------------
Handle(m) ==
    \/ \E starts \in BOOLEAN : HandleSpawn(m, starts)
    \/ HandleSpawnAgain(m)
    \/ \E snapshot \in BOOLEAN : HandleAttach(m, snapshot)
    \/ \E drained \in BOOLEAN : HandleKill(m, drained) \/ HandleCloseBirth(m, drained)
    \/ HandleCloseTombstone(m) \/ HandleCloseUnknown(m)
    \/ \E drained \in SUBSET Ids : HandleReconcile(m, drained)
    \/ HandleShutdown(m)
    \/ RefusedOrLost(m)

\* A panel with this runtime id appears: its spawn or its attachment is sent
\* from then on.  ReconcileLive blocks the thread that adds panels.
ShowPanel(c, i) ==
    /\ i \notin shows[c]
    /\ \A m \in wire : ~(m.client = c /\ m.kind = "reconcile_live")
    /\ shows' = [shows EXCEPT ![c] = @ \cup {i}]
    /\ UNCHANGED <<registry, lifecycle, ledger, wire, attached, confirmed, history>>

\* The panel is gone, its session perhaps not.
ForgetPanel(c, i) ==
    /\ i \in shows[c]
    /\ shows' = [shows EXCEPT ![c] = @ \ {i}]
    /\ attached' = [attached EXCEPT ![c] = @ \ {i}]
    /\ UNCHANGED <<registry, lifecycle, ledger, wire, confirmed, history>>

\* What a client sends: births, attachments and closes, and the list of the
\* sessions it shows.
Sendable(c) ==
    {[kind |-> "spawn", client |-> c, id |-> i, generation |-> ledger[i].generation] :
        i \in {j \in shows[c] : j \in Managed => ledger[j].owner = c
                                                  /\ ledger[j].phase = "birth"}} \cup
    {[kind |-> "attach", client |-> c, id |-> i] : i \in shows[c]} \cup
    {[kind |-> k, client |-> c, id |-> i] : k \in {"kill", "close_birth"}, i \in Ids} \cup
    {[kind |-> "reconcile_live", client |-> c, ids |-> shows[c]],
     [kind |-> "shutdown_if_idle", client |-> c]}

Next ==
    \/ \E c \in Clients : ClientConnected(c) \/ ClientDisconnected(c)
    \/ \E c \in Clients : \E m \in Sendable(c) : Send(m)
    \/ \E c \in Clients, i \in Ids : ShowPanel(c, i) \/ ForgetPanel(c, i)
    \/ \E c \in Clients, i \in Ids :
          AuthorizeBirth(c, i) \/ TakeAuthority(c, i) \/ FenceRetire(c, i)
    \/ \E i \in Ids : FinishRetire(i) \/ FinishRetirement(i)
    \/ \E m \in wire : Handle(m)
    \/ IdleShutdown \/ Crash

Spec == Init /\ [][Next]_vars

-----------------------------------------------------------------------------
(* Properties.                                                             *)

\* A daemon that answered Killed has no session under that identity again,
\* however late a Spawn of the same birth arrives.
KilledIsFinal == \A i \in killed : sessions[i] = None

\* Killed means that the process is gone: an identity missing from the
\* registry (a daemon restarted since) is not taken for one that ended.
KilledMeansEnded == \A i \in killed : child[i] \notin {"alive", "orphan"}

KilledForGood == KilledIsFinal /\ KilledMeansEnded

\* The list of live sessions one client sends never ends a session that
\* another client is attached to while that client is connected.
OthersAreSpared ==
    \A m \in wire : m.kind = "reconcile_live" /\ m \notin wire' /\ conns' = conns =>
       \A c \in Clients \ {m.client} : \A i \in attached[c] :
           conns[c] > 0 /\ sessions[i] # None =>
               sessions'[i] # None /\ sessions'[i].retiring = sessions[i].retiring
ReconcileSparesOthers == [][OthersAreSpared]_vars

\* daemon/server.rs and daemon/sessions.rs: a killed session is killed for
\* good, and reconciling one client spares the sessions of another.
RegistryIsJust == []KilledForGood /\ ReconcileSparesOthers

-----------------------------------------------------------------------------
(* The registry is just, for any number of clients, connections, requests  *)
(* in flight and births of an identity.                                    *)

Living(i) == child[i] \in {"alive", "orphan"}

\* The types of what the proof reads.
Typed ==
    /\ sessions \in [Ids -> Session \cup {None}]
    /\ tombstones \in [Ids -> Clients \cup {None}]
    /\ claimants \in [Ids -> SUBSET Clients]
    /\ ledger \in [Ids -> Row]
    /\ wire \subseteq Request
    /\ shows \in [Clients -> SUBSET Ids] /\ attached \in [Clients -> SUBSET Ids]
    /\ confirmed \subseteq Ids /\ killed \subseteq Ids
    /\ child \in [Ids -> {"none", "alive", "orphan", "ended"}]

\* An identity with a tombstone has neither a session nor a process, and one
\* that was killed has a tombstone.
Buried ==
    /\ \A i \in Ids : tombstones[i] # None => sessions[i] = None /\ ~Living(i)
    /\ \A i \in killed : tombstones[i] # None

\* Why a tombstone may be written for an identity the registry does not know:
\* the ledger knows of every process of a managed identity that its nonce was
\* consumed, through a crash of the daemon, and a close is confirmed only of a
\* process that has ended.
LedgerKnows ==
    \A i \in Ids :
       /\ i \in Managed /\ Living(i) =>
             ledger[i].consumed /\ ledger[i].phase \notin {"none", "retired"}
       /\ ledger[i].phase = "retiring" => i \in Managed
       /\ i \in confirmed => ledger[i].phase = "retiring" /\ ~Living(i)

\* Who is attached claims the session as long as it is there, and the list that
\* is sent to reconcile names every panel its client still shows.
ClaimsHold ==
    /\ \A c \in Clients :
          /\ attached[c] \subseteq shows[c]
          /\ \A i \in attached[c] :
                \/ sessions[i] # None /\ c \in claimants[i]
                \/ sessions[i] = None /\ tombstones[i] # None
    /\ \A m \in wire : m.kind = "reconcile_live" => shows[m.client] \subseteq m.ids

IInv == Typed /\ Buried /\ LedgerKnows /\ ClaimsHold

(* A request names clients and identities there are.                       *)
LEMMA RequestFields ==
    ASSUME NEW m \in Request
    PROVE  /\ m.client \in Clients
           /\ m.kind \in {"spawn", "attach", "kill", "close_birth"} => m.id \in Ids
           /\ m.kind = "spawn" => m.generation \in 0..MaxGens
           /\ m.kind = "reconcile_live" => m.ids \subseteq Ids
BY DEF Request

(* What a client sends is a request, and its list is complete when it is   *)
(* sent.                                                                   *)
LEMMA SendableFields ==
    ASSUME Typed, NEW c \in Clients, NEW m \in Sendable(c)
    PROVE  m \in Request /\ (m.kind = "reconcile_live" => m.client = c /\ m.ids = shows[c])
<1>1. shows[c] \subseteq Ids /\ \A i \in Ids : ledger[i].generation \in 0..MaxGens
  BY DEF Typed, Row
<1>2. CASE \E i \in shows[c] :
              m = [kind |-> "spawn", client |-> c, id |-> i, generation |-> ledger[i].generation]
  BY <1>1, <1>2 DEF Request
<1>3. CASE \E i \in shows[c] : m = [kind |-> "attach", client |-> c, id |-> i]
  BY <1>1, <1>3 DEF Request
<1>4. CASE \E k \in {"kill", "close_birth"}, i \in Ids : m = [kind |-> k, client |-> c, id |-> i]
  BY <1>4 DEF Request
<1>5. CASE m = [kind |-> "reconcile_live", client |-> c, ids |-> shows[c]]
  BY <1>1, <1>5 DEF Request
<1>6. CASE m = [kind |-> "shutdown_if_idle", client |-> c]
  BY <1>6 DEF Request
<1> QED
  BY <1>2, <1>3, <1>4, <1>5, <1>6 DEF Sendable

(* A session that is marked keeps its type.                                *)
LEMMA SessionChanged ==
    ASSUME NEW s \in Session
    PROVE  /\ [s EXCEPT !.retiring = TRUE] \in Session
           /\ \A c \in Clients : [s EXCEPT !.adopters = @ \cup {c}] \in Session
BY DEF Session

(* The end of a session keeps the invariant, whoever is told that it was   *)
(* killed.                                                                 *)
LEMMA RemoveKeeps ==
    ASSUME IInv, NEW i \in Ids, sessions[i] # None, Remove(i),
           killed' \in {killed, killed \cup {i}},
           confirmed' \in {confirmed, confirmed \cup {i}},
           confirmed' # confirmed => ledger[i].phase = "retiring",
           wire' \subseteq wire, UNCHANGED <<ledger, panels>>
    PROVE  IInv'
<1> USE DEF IInv
<1>1. sessions[i] \in Session /\ sessions[i].birth_client \in Clients
  BY DEF Typed, Session
<1>2. /\ sessions' = [sessions EXCEPT ![i] = None]
      /\ tombstones' = [tombstones EXCEPT ![i] = sessions[i].birth_client]
      /\ claimants' = [claimants EXCEPT ![i] = {}]
      /\ child' = [child EXCEPT ![i] = "ended"]
  BY DEF Remove
<1>3. Typed'
  BY <1>1, <1>2 DEF Typed, panels
<1>4. Buried'
  BY <1>1, <1>2, RegistryAssumption DEF Typed, Buried, Living
<1>5. LedgerKnows'
  BY <1>2 DEF Typed, LedgerKnows, Living
<1>6. ClaimsHold'
  BY <1>1, <1>2, RegistryAssumption DEF Typed, ClaimsHold, panels
<1> QED
  BY <1>3, <1>4, <1>5, <1>6

(* So does the request to retire one.                                      *)
LEMMA RetireKeeps ==
    ASSUME IInv, NEW i \in Ids, sessions[i] # None,
           sessions' = [sessions EXCEPT ![i] = [@ EXCEPT !.retiring = TRUE]],
           wire' \subseteq wire,
           UNCHANGED <<tombstones, claimants, child, killed, confirmed, ledger, panels>>
    PROVE  IInv'
<1> USE DEF IInv
<1> DEFINE s == [sessions[i] EXCEPT !.retiring = TRUE]
<1>1. s \in Session
  <2>1. sessions[i] \in Session
    BY DEF Typed
  <2> QED
    BY <2>1, SessionChanged
<1>2. s # None /\ sessions' = [sessions EXCEPT ![i] = s]
  BY <1>1, RegistryAssumption
<1> HIDE DEF s
<1>3. Typed'
  BY <1>1, <1>2 DEF Typed, panels
<1>4. Buried' /\ LedgerKnows'
  BY <1>2 DEF Typed, Buried, LedgerKnows, Living
<1>5. ClaimsHold'
  BY <1>2 DEF Typed, ClaimsHold, panels
<1> QED
  BY <1>3, <1>4, <1>5

(* Both together: a kill and its answer.                                   *)
LEMMA KillKeeps ==
    ASSUME IInv, NEW i \in Ids, sessions[i] # None, NEW drained \in BOOLEAN,
           Kill(i, drained), Answer(i, drained), wire' \subseteq wire,
           UNCHANGED <<ledger, panels>>
    PROVE  IInv'
<1>1. CASE drained
  BY <1>1, RemoveKeeps DEF Kill, Answer
<1>2. CASE ~drained
  BY <1>2, RetireKeeps DEF Kill, Answer
<1> QED
  BY <1>1, <1>2

(* Steps of connections, and requests that change nothing.                 *)
LEMMA QuietKeeps ==
    ASSUME IInv, UNCHANGED <<registry, ledger, panels, confirmed, history>>,
           \A m \in wire' : m \in wire \/ \E c \in Clients : m \in Sendable(c)
    PROVE  IInv'
<1>1. \A m \in wire' : m \in Request
                       /\ (m.kind = "reconcile_live" => shows[m.client] \subseteq m.ids)
  BY SendableFields DEF IInv, Typed, ClaimsHold
<1> QED
  BY <1>1 DEF IInv, Typed, Buried, LedgerKnows, ClaimsHold, Living, registry, panels, history

(* The panels of the clients.                                              *)
LEMMA PanelsKeep ==
    ASSUME IInv, NEW c \in Clients, NEW i \in Ids, ShowPanel(c, i) \/ ForgetPanel(c, i)
    PROVE  IInv'
<1> USE DEF IInv
<1>1. /\ wire' = wire /\ UNCHANGED <<registry, ledger, confirmed, history>>
      /\ attached' \in [Clients -> SUBSET Ids] /\ shows' \in [Clients -> SUBSET Ids]
      /\ \A d \in Clients : attached'[d] \subseteq attached[d] /\ attached'[d] \subseteq shows'[d]
      /\ \A d \in Clients :
            \/ shows'[d] \subseteq shows[d]
            \/ d = c /\ \A m \in wire : ~(m.client = c /\ m.kind = "reconcile_live")
  BY DEF ShowPanel, ForgetPanel, Typed, ClaimsHold
<1>2. Typed' /\ Buried' /\ LedgerKnows'
  BY <1>1 DEF Typed, Buried, LedgerKnows, Living, registry, history
<1>3. ClaimsHold'
  BY <1>1, RequestFields DEF Typed, ClaimsHold, registry
<1> QED
  BY <1>2, <1>3

(* A row of the ledger changes: a new birth follows a confirmed close.     *)
LEMMA RowKeeps ==
    ASSUME IInv, NEW i \in Ids, NEW row \in Row,
           ledger' = [ledger EXCEPT ![i] = row],
           \/ /\ i \in Managed /\ ledger[i].phase \in {"none", "retired"} /\ row.phase = "birth"
              /\ confirmed' = confirmed
           \/ /\ i \in Managed /\ ledger[i].phase \in {"birth", "active"}
              /\ row.phase \in {"active", "retiring"} /\ row.consumed = ledger[i].consumed
              /\ confirmed' = confirmed
           \/ /\ i \in confirmed /\ row.phase = "retired"
              /\ confirmed' = confirmed \ {i},
           UNCHANGED <<registry, wire, panels, history>>
    PROVE  IInv'
<1> USE DEF IInv
<1>1. Typed'
  BY DEF Typed, registry, panels, history
<1>2. Buried' /\ ClaimsHold'
  BY DEF Buried, ClaimsHold, Living, registry, panels, history
<1>3. LedgerKnows'
  BY DEF Typed, LedgerKnows, Living, history
<1> QED
  BY <1>1, <1>2, <1>3

(* The transactions a client asks for.                                     *)
LEMMA AuthorityKeeps ==
    ASSUME IInv, NEW c \in Clients, NEW i \in Ids,
           AuthorizeBirth(c, i) \/ TakeAuthority(c, i) \/ FenceRetire(c, i)
    PROVE  IInv'
<1>1. ledger[i] \in Row /\ ledger[i].generation \in 0..MaxGens
  BY DEF IInv, Typed, Row
<1>2. CASE AuthorizeBirth(c, i)
  <2> DEFINE row == [generation |-> ledger[i].generation + 1, owner |-> c,
                     consumed |-> FALSE, phase |-> "birth"]
  <2>1. ledger[i].generation + 1 \in 0..MaxGens
    BY <1>1, <1>2, RegistryAssumption DEF AuthorizeBirth
  <2>2. row \in Row
    BY <2>1 DEF Row
  <2>3. /\ ledger' = [ledger EXCEPT ![i] = row] /\ row.phase = "birth"
        /\ i \in Managed /\ ledger[i].phase \in {"none", "retired"} /\ confirmed' = confirmed
        /\ UNCHANGED <<registry, wire, panels, history>>
    BY <1>2 DEF AuthorizeBirth
  <2> HIDE DEF row
  <2> QED
    BY <2>2, <2>3, RowKeeps
<1>3. CASE TakeAuthority(c, i)
  <2> DEFINE row == [ledger[i] EXCEPT !.owner = c, !.phase = "active"]
  <2>1. row \in Row /\ row.phase = "active" /\ row.consumed = ledger[i].consumed
    BY <1>1 DEF Row
  <2>2. /\ ledger' = [ledger EXCEPT ![i] = row]
        /\ i \in Managed /\ ledger[i].phase \in {"birth", "active"} /\ confirmed' = confirmed
        /\ UNCHANGED <<registry, wire, panels, history>>
    BY <1>3 DEF TakeAuthority
  <2> HIDE DEF row
  <2> QED
    BY <2>1, <2>2, RowKeeps
<1>4. CASE FenceRetire(c, i)
  <2> DEFINE row == [ledger[i] EXCEPT !.phase = "retiring"]
  <2>1. row \in Row /\ row.phase = "retiring" /\ row.consumed = ledger[i].consumed
    BY <1>1 DEF Row
  <2>2. /\ ledger' = [ledger EXCEPT ![i] = row]
        /\ i \in Managed /\ ledger[i].phase \in {"birth", "active"} /\ confirmed' = confirmed
        /\ UNCHANGED <<registry, wire, panels, history>>
    BY <1>4 DEF FenceRetire
  <2> HIDE DEF row
  <2> QED
    BY <2>1, <2>2, RowKeeps
<1> QED
  BY <1>2, <1>3, <1>4

(* The end of a close that the daemon confirmed.                           *)
LEMMA FinishKeeps ==
    ASSUME IInv, NEW i \in Ids, FinishRetire(i)
    PROVE  IInv'
<1> DEFINE row == [ledger[i] EXCEPT !.phase = "retired"]
<1>1. row \in Row /\ row.phase = "retired"
  BY DEF IInv, Typed, Row
<1>2. /\ ledger' = [ledger EXCEPT ![i] = row]
      /\ i \in confirmed /\ confirmed' = confirmed \ {i}
      /\ UNCHANGED <<registry, wire, panels, history>>
  BY DEF FinishRetire
<1> HIDE DEF row
<1> QED
  BY <1>1, <1>2, RowKeeps

(* A birth: only where no tombstone is, of a nonce that was not consumed.  *)
LEMMA SpawnKeeps ==
    ASSUME IInv, NEW m \in wire, NEW starts \in BOOLEAN, HandleSpawn(m, starts)
    PROVE  IInv'
<1> USE DEF IInv
<1> DEFINE i == m.id
           row == [ledger[i] EXCEPT !.consumed = TRUE]
<1>1. /\ i \in Ids /\ m.client \in Clients /\ m.generation \in 0..MaxGens
      /\ wire' \subseteq wire
  BY RequestFields DEF HandleSpawn, Receive, Typed
<1>2. /\ tombstones[i] = None /\ sessions[i] = None
      /\ i \in Managed => ledger[i].phase = "birth"
  BY DEF HandleSpawn, SpawnAdmitted
<1>3. NewSession(m) \in Session
  BY <1>1 DEF NewSession, Session
<1>4. row \in Row /\ row.consumed = TRUE /\ row.phase = ledger[i].phase
  <2>1. ledger[i] \in Row
    BY <1>1 DEF Typed
  <2> QED
    BY <2>1 DEF Row
<1>5. /\ sessions' = IF starts THEN [sessions EXCEPT ![i] = NewSession(m)] ELSE sessions
      /\ claimants' = IF starts THEN [claimants EXCEPT ![i] = @ \cup {m.client}] ELSE claimants
      /\ ledger' = IF i \in Managed THEN [ledger EXCEPT ![i] = row] ELSE ledger
      /\ child' = IF starts THEN [child EXCEPT ![i] = "alive"] ELSE child
      /\ UNCHANGED <<tombstones, panels, confirmed, killed>>
  BY DEF HandleSpawn
<1> HIDE DEF i, row
<1>6. Typed'
  BY <1>1, <1>3, <1>4, <1>5 DEF Typed, panels
<1>7. Buried'
  BY <1>1, <1>2, <1>5 DEF Typed, Buried, Living
<1>8. LedgerKnows'
  BY <1>1, <1>2, <1>4, <1>5 DEF Typed, LedgerKnows, Living
<1>9. ClaimsHold'
  BY <1>1, <1>2, <1>5 DEF Typed, ClaimsHold, panels
<1> QED
  BY <1>6, <1>7, <1>8, <1>9

(* An attachment: who gets the snapshot is a claimant.                     *)
LEMMA AttachKeeps ==
    ASSUME IInv, NEW m \in wire, NEW snapshot \in BOOLEAN, HandleAttach(m, snapshot)
    PROVE  IInv'
<1> USE DEF IInv
<1> DEFINE i == m.id
           s == [sessions[i] EXCEPT !.adopters = @ \cup {m.client}]
<1>1. i \in Ids /\ m.client \in Clients /\ wire' \subseteq wire
  BY RequestFields DEF HandleAttach, Receive, Typed
<1>2. sessions[i] # None /\ sessions[i] \in Session
  BY <1>1 DEF HandleAttach, Typed
<1>3. s \in Session /\ s # None
  BY <1>1, <1>2, SessionChanged, RegistryAssumption
<1>4. /\ sessions' = [sessions EXCEPT ![i] = s]
      /\ claimants' = IF snapshot THEN [claimants EXCEPT ![i] = @ \cup {m.client}] ELSE claimants
      /\ attached' = IF snapshot /\ i \in shows[m.client]
                     THEN [attached EXCEPT ![m.client] = @ \cup {i}] ELSE attached
      /\ UNCHANGED <<tombstones, ledger, shows, confirmed, history>>
  BY DEF HandleAttach
<1> HIDE DEF i, s
<1>5. Typed'
  BY <1>1, <1>3, <1>4 DEF Typed, history
<1>6. Buried' /\ LedgerKnows'
  BY <1>1, <1>2, <1>4 DEF Typed, Buried, LedgerKnows, Living, history
<1>7. ClaimsHold'
  BY <1>1, <1>2, <1>3, <1>4 DEF Typed, ClaimsHold
<1> QED
  BY <1>5, <1>6, <1>7

(* A close that finds no session: it was killed before, or its nonce was   *)
(* never consumed.                                                         *)
LEMMA CloseKeeps ==
    ASSUME IInv, NEW m \in wire, HandleCloseTombstone(m) \/ HandleCloseUnknown(m)
    PROVE  IInv'
<1> USE DEF IInv
<1> DEFINE i == m.id
<1>0. wire \subseteq Request
  BY DEF Typed
<1>1. i \in Ids /\ m.client \in Clients /\ m.client # None
  <2>1. m.client \in Clients /\ m.kind \in {"close_birth", "kill"}
    BY <1>0, RequestFields DEF HandleCloseTombstone, HandleCloseUnknown, Receive
  <2>2. m.id \in Ids
    BY <1>0, <2>1, RequestFields
  <2> QED
    BY <2>1, <2>2, RegistryAssumption
<1>2. /\ sessions[i] = None /\ ~Living(i)
      /\ \/ tombstones' = tombstones /\ tombstones[i] # None
         \/ tombstones' = [tombstones EXCEPT ![i] = m.client]
  <2>1. CASE HandleCloseTombstone(m)
    BY <1>1, <2>1 DEF HandleCloseTombstone, Buried, registry
  <2>2. CASE HandleCloseUnknown(m)
    <3>1. i \in Managed /\ ~ledger[i].consumed
      BY <2>2 DEF HandleCloseUnknown, NoFactoryRan, UnknownCloseFence
    <3>2. ~Living(i)
      BY <1>1, <3>1 DEF LedgerKnows
    <3> QED
      BY <2>2, <3>2 DEF HandleCloseUnknown
  <2> QED
    BY <2>1, <2>2
<1>3. /\ wire' \subseteq wire /\ killed' = killed \cup {i}
      /\ confirmed' = confirmed \/ (confirmed' = confirmed \cup {i} /\ ledger[i].phase = "retiring")
      /\ UNCHANGED <<sessions, claimants, ledger, panels, child>>
  BY DEF HandleCloseTombstone, HandleCloseUnknown, Receive, Answer, registry
<1> HIDE DEF i
<1>4. Typed'
  BY <1>1, <1>2, <1>3 DEF Typed, panels
<1>5. Buried' /\ LedgerKnows'
  BY <1>1, <1>2, <1>3 DEF Typed, Buried, LedgerKnows, Living
<1>6. ClaimsHold'
  BY <1>1, <1>2, <1>3 DEF Typed, ClaimsHold, panels
<1> QED
  BY <1>4, <1>5, <1>6

(* The list of one client ends sessions that nobody claims.                *)
LEMMA ReconcileKeeps ==
    ASSUME IInv, NEW m \in wire, NEW drained \in SUBSET Ids, HandleReconcile(m, drained)
    PROVE  IInv'
<1> USE DEF IInv
<1> DEFINE c == m.client
           claimed == ReconciledClaims(c, m.ids)
           doomed == {i \in Orphans(c, m.ids, claimed) : HostCloseFenced(i, None)}
           gone == doomed \cap drained
<1>1. c \in Clients /\ m.ids \subseteq Ids /\ shows[c] \subseteq m.ids /\ wire' \subseteq wire
  BY RequestFields DEF HandleReconcile, Receive, Typed, ClaimsHold
<1>2. /\ claimed \in [Ids -> SUBSET Clients]
      /\ \A d \in Clients : \A i \in attached[d] : d \in claimants[i] => d \in claimed[i]
  BY <1>1 DEF ReconciledClaims, Typed, ClaimsHold
<1>3. doomed \subseteq Ids /\ \A i \in doomed : sessions[i] # None
  BY DEF Orphans
<1>4. \A i \in Ids : sessions[i] # None =>
         /\ sessions[i] \in Session /\ sessions[i].birth_client \in Clients
         /\ [sessions[i] EXCEPT !.retiring = TRUE] \in Session
  BY DEF Typed, Session
<1>5. /\ sessions' = [i \in Ids |-> IF i \in gone THEN None
                                    ELSE IF i \in doomed
                                    THEN [sessions[i] EXCEPT !.retiring = TRUE]
                                    ELSE sessions[i]]
      /\ tombstones' = [i \in Ids |-> IF i \in gone THEN sessions[i].birth_client
                                      ELSE tombstones[i]]
      /\ claimants' = [i \in Ids |-> IF i \in gone THEN {} ELSE claimed[i]]
      /\ child' = [i \in Ids |-> IF i \in gone THEN "ended" ELSE child[i]]
      /\ killed' = killed \cup gone
      /\ UNCHANGED <<ledger, panels, confirmed>>
  BY DEF HandleReconcile
<1>6. gone \subseteq doomed
  OBVIOUS
<1> HIDE DEF c, claimed, doomed, gone
<1>7. /\ sessions' \in [Ids -> Session \cup {None}] /\ tombstones' \in [Ids -> Clients \cup {None}]
      /\ claimants' \in [Ids -> SUBSET Clients]
      /\ child' \in [Ids -> {"none", "alive", "orphan", "ended"}]
      /\ killed' \subseteq Ids
  <2>1. sessions' \in [Ids -> Session \cup {None}]
    BY <1>3, <1>4, <1>5, <1>6 DEF Typed
  <2>2. tombstones' \in [Ids -> Clients \cup {None}]
    BY <1>3, <1>4, <1>5, <1>6 DEF Typed
  <2>3. claimants' \in [Ids -> SUBSET Clients]
    BY <1>2, <1>5
  <2>4. child' \in [Ids -> {"none", "alive", "orphan", "ended"}] /\ killed' \subseteq Ids
    BY <1>3, <1>5, <1>6 DEF Typed
  <2> QED
    BY <2>1, <2>2, <2>3, <2>4
<1>8. \A i \in Ids :
         \/ /\ i \in gone /\ sessions[i] # None /\ sessions'[i] = None /\ tombstones'[i] # None
            /\ child'[i] = "ended"
         \/ /\ i \notin gone /\ (sessions'[i] # None <=> sessions[i] # None)
            /\ tombstones'[i] = tombstones[i] /\ claimants'[i] = claimed[i]
            /\ child'[i] = child[i]
  <2> TAKE i \in Ids
  <2>1. CASE i \in gone
    BY <1>3, <1>4, <1>5, <1>6, <2>1, RegistryAssumption
  <2>2. CASE i \notin gone
    <3>1. i \in doomed => sessions[i] # None /\ [sessions[i] EXCEPT !.retiring = TRUE] # None
      BY <1>3, <1>4, RegistryAssumption
    <3> QED
      BY <1>5, <2>2, <3>1
  <2> QED
    BY <2>1, <2>2
<1>9. Typed'
  BY <1>1, <1>5, <1>7 DEF Typed, panels
<1>10. Buried'
  <2>1. \A i \in Ids : tombstones'[i] # None => sessions'[i] = None /\ ~Living(i)'
    BY <1>8 DEF Buried, Living
  <2>2. \A i \in killed' : tombstones'[i] # None
    BY <1>3, <1>5, <1>6, <1>8 DEF Typed, Buried
  <2> QED
    BY <2>1, <2>2 DEF Buried
<1>11. LedgerKnows'
  BY <1>5, <1>8 DEF Typed, LedgerKnows, Living
<1>12. ClaimsHold'
  <2>1. \A d \in Clients : attached'[d] \subseteq shows'[d] /\ attached'[d] \subseteq Ids
    BY <1>5 DEF Typed, ClaimsHold, panels
  <2>2. ASSUME NEW d \in Clients, NEW i \in attached'[d]
        PROVE  \/ sessions'[i] # None /\ d \in claimants'[i]
               \/ sessions'[i] = None /\ tombstones'[i] # None
    BY <1>2, <1>5, <1>8, <2>1, <2>2 DEF ClaimsHold, panels
  <2> QED
    BY <1>1, <1>5, <2>1, <2>2 DEF ClaimsHold, panels
<1> QED
  BY <1>9, <1>10, <1>11, <1>12

(* A daemon that starts knows nothing; what it cannot know the ledger does. *)
LEMMA RestartKeeps ==
    ASSUME IInv, IdleShutdown \/ Crash
    PROVE  IInv'
<1>1. PICK processes : Restart(processes)
               /\ processes \in [Ids -> {"none", "alive", "orphan", "ended"}]
               /\ \A i \in Ids : processes[i] \in {"alive", "orphan"} => Living(i)
  BY DEF IdleShutdown, Crash, IInv, Typed, Living
<1>2. Typed'
  BY <1>1 DEF Restart, IInv, Typed
<1>3. Buried' /\ LedgerKnows' /\ ClaimsHold'
  BY <1>1 DEF Restart, IInv, Typed, Buried, LedgerKnows, ClaimsHold, Living
<1> QED
  BY <1>2, <1>3 DEF IInv

(* Every request that is handled.                                          *)
LEMMA HandleKeeps ==
    ASSUME IInv, NEW m \in wire, Handle(m)
    PROVE  IInv'
<1>1. m \in Request
  BY DEF IInv, Typed
<1>2. ASSUME NEW starts \in BOOLEAN, HandleSpawn(m, starts) PROVE IInv'
  BY <1>2, SpawnKeeps
<1>3. ASSUME NEW snapshot \in BOOLEAN, HandleAttach(m, snapshot) PROVE IInv'
  BY <1>3, AttachKeeps
<1>4. ASSUME NEW drained \in BOOLEAN, HandleKill(m, drained) \/ HandleCloseBirth(m, drained)
      PROVE  IInv'
  <2>1. m.id \in Ids /\ wire' \subseteq wire /\ sessions[m.id] # None
    BY <1>1, <1>4, RequestFields DEF HandleKill, HandleCloseBirth, Receive
  <2>2. Kill(m.id, drained) /\ Answer(m.id, drained) /\ UNCHANGED <<ledger, panels>>
    BY <1>4 DEF HandleKill, HandleCloseBirth
  <2> QED
    BY <2>1, <2>2, KillKeeps
<1>5. CASE HandleCloseTombstone(m) \/ HandleCloseUnknown(m)
  BY <1>5, CloseKeeps
<1>6. ASSUME NEW drained \in SUBSET Ids, HandleReconcile(m, drained) PROVE IInv'
  BY <1>6, ReconcileKeeps
<1>7. CASE HandleSpawnAgain(m) \/ HandleShutdown(m) \/ RefusedOrLost(m)
  <2>1. UNCHANGED <<registry, ledger, panels, confirmed, history>> /\ wire' \subseteq wire
    BY <1>7 DEF HandleSpawnAgain, HandleShutdown, RefusedOrLost, Receive
  <2> QED
    BY <2>1, QuietKeeps
<1> QED
  BY <1>2, <1>3, <1>4, <1>5, <1>6, <1>7 DEF Handle

LEMMA RegistryStep == IInv /\ [Next]_vars => IInv'
<1> SUFFICES ASSUME IInv, [Next]_vars
             PROVE  IInv'
  OBVIOUS
<1>1. ASSUME NEW c \in Clients, ClientConnected(c) \/ ClientDisconnected(c) PROVE IInv'
  BY <1>1, QuietKeeps DEF ClientConnected, ClientDisconnected
<1>2. ASSUME NEW c \in Clients, NEW m \in Sendable(c), Send(m) PROVE IInv'
  BY <1>2, QuietKeeps DEF Send
<1>3. ASSUME NEW c \in Clients, NEW i \in Ids, ShowPanel(c, i) \/ ForgetPanel(c, i) PROVE IInv'
  BY <1>3, PanelsKeep
<1>4. ASSUME NEW c \in Clients, NEW i \in Ids,
             AuthorizeBirth(c, i) \/ TakeAuthority(c, i) \/ FenceRetire(c, i)
      PROVE  IInv'
  BY <1>4, AuthorityKeeps
<1>5. ASSUME NEW i \in Ids, FinishRetire(i) PROVE IInv'
  BY <1>5, FinishKeeps
<1>6. ASSUME NEW i \in Ids, FinishRetirement(i) PROVE IInv'
  BY <1>6, RemoveKeeps DEF FinishRetirement
<1>7. ASSUME NEW m \in wire, Handle(m) PROVE IInv'
  BY <1>7, HandleKeeps
<1>8. CASE IdleShutdown \/ Crash
  BY <1>8, RestartKeeps
<1>9. CASE UNCHANGED vars
  BY <1>9, QuietKeeps DEF vars
<1> QED
  BY <1>1, <1>2, <1>3, <1>4, <1>5, <1>6, <1>7, <1>8, <1>9 DEF Next

(* A list that is handled spares what another connected client claims.     *)
LEMMA ReconcileSpares ==
    ASSUME IInv, NEW m \in wire, NEW drained \in SUBSET Ids, HandleReconcile(m, drained),
           NEW c \in Clients \ {m.client}, NEW i \in attached[c], conns[c] > 0, sessions[i] # None
    PROVE  sessions'[i] = sessions[i]
<1> DEFINE claimed == ReconciledClaims(m.client, m.ids)
<1>1. i \in Ids /\ c \in claimants[i]
  BY DEF IInv, Typed, ClaimsHold
<1>2. c \in claimed[i]
  BY <1>1 DEF ReconciledClaims
<1>3. i \notin Orphans(m.client, m.ids, claimed)
  BY <1>2 DEF Orphans
<1> QED
  BY <1>1, <1>3 DEF HandleReconcile

(* Only the handler of a request, or the end of the daemon, takes it from  *)
(* the wire.                                                               *)
LEMMA WhoReceives ==
    ASSUME Next, NEW m \in wire, m \notin wire'
    PROVE  Handle(m) \/ IdleShutdown \/ Crash
<1>1. ASSUME NEW n \in wire, Handle(n) PROVE n = m
  <2>1. wire' = wire \ {n}
    BY <1>1 DEF Handle, HandleSpawn, HandleSpawnAgain, HandleAttach, HandleKill, HandleCloseBirth,
       HandleCloseTombstone, HandleCloseUnknown, HandleReconcile, HandleShutdown, RefusedOrLost,
       Receive
  <2> QED
    BY <2>1
<1>2. ASSUME NEW c \in Clients, ClientConnected(c) \/ ClientDisconnected(c) PROVE FALSE
  BY <1>2 DEF ClientConnected, ClientDisconnected
<1>3. ASSUME NEW n, Send(n) PROVE FALSE
  BY <1>3 DEF Send
<1>4. ASSUME NEW c \in Clients, NEW i \in Ids, ShowPanel(c, i) \/ ForgetPanel(c, i) PROVE FALSE
  BY <1>4 DEF ShowPanel, ForgetPanel
<1>5. ASSUME NEW c \in Clients, NEW i \in Ids,
             AuthorizeBirth(c, i) \/ TakeAuthority(c, i) \/ FenceRetire(c, i)
      PROVE  FALSE
  BY <1>5 DEF AuthorizeBirth, TakeAuthority, FenceRetire
<1>6. ASSUME NEW i \in Ids, FinishRetire(i) \/ FinishRetirement(i) PROVE FALSE
  BY <1>6 DEF FinishRetire, FinishRetirement
<1> QED
  BY <1>1, <1>2, <1>3, <1>4, <1>5, <1>6 DEF Next

LEMMA StepSpares == IInv /\ [Next]_vars => [OthersAreSpared]_vars
<1> SUFFICES ASSUME IInv, Next,
                    NEW m \in wire, m.kind = "reconcile_live", m \notin wire', conns' = conns,
                    NEW c \in Clients \ {m.client}, NEW i \in attached[c],
                    conns[c] > 0, sessions[i] # None
             PROVE  sessions'[i] = sessions[i]
  BY DEF OthersAreSpared
<1>1. CASE IdleShutdown \/ Crash
  <2>1. conns'[c] = 0
    BY <1>1 DEF IdleShutdown, Crash, Restart
  <2> QED
    BY <2>1
<1>2. CASE Handle(m)
  <2>1. CASE RefusedOrLost(m)
    BY <2>1 DEF RefusedOrLost, registry
  <2>2. ASSUME NEW drained \in SUBSET Ids, HandleReconcile(m, drained)
        PROVE  sessions'[i] = sessions[i]
    BY <2>2, ReconcileSpares
  <2> QED
    BY <1>2, <2>1, <2>2 DEF Handle, HandleSpawn, HandleSpawnAgain, HandleAttach, HandleKill,
       HandleCloseBirth, HandleCloseTombstone, HandleCloseUnknown, HandleShutdown
<1> QED
  BY <1>1, <1>2, WhoReceives

(* A session that was killed is killed for good, however late a request    *)
(* for it arrives and however often the daemon restarts, and the list of   *)
(* one client never ends what another is attached to (RegistryIsJust; the  *)
(* handlers of daemon/server.rs).                                          *)
THEOREM RegistryHolds == Spec => RegistryIsJust
<1>1. Init => IInv
  <2>1. [generation |-> 0, owner |-> None, consumed |-> FALSE, phase |-> "none"] \in Row
    BY RegistryAssumption DEF Row
  <2>2. Init => Typed
    BY <2>1 DEF Init, Typed
  <2>3. Init => Buried /\ LedgerKnows /\ ClaimsHold
    BY DEF Init, Buried, LedgerKnows, ClaimsHold, Living
  <2> QED
    BY <2>2, <2>3 DEF IInv
<1>2. IInv => KilledForGood
  BY DEF IInv, Typed, Buried, Living, KilledForGood, KilledIsFinal, KilledMeansEnded
<1> QED
  BY <1>1, <1>2, RegistryStep, StepSpares, PTL DEF Spec, RegistryIsJust, ReconcileSparesOthers

=============================================================================
