---------------------------- MODULE HookRuntime -----------------------------
(***************************************************************************)
(* One endpoint's runtime of managed births (src/src/hook_runtime.rs with  *)
(* the admission gates of src/src/hook_authority.rs) on top of the durable *)
(* ledger of HookLedger, whose transitions are its transactions.           *)
(*                                                                         *)
(* Threads of the endpoint Me: the recovery worker that gives birth and    *)
(* attaches (`birth'), the hook server's blocking jobs (`job'), the        *)
(* publication worker and the UI that consume its envelope (`env'), the    *)
(* hook-ledger worker (retirements, finalisation, refresh), the remote     *)
(* closer, and the UI, which closes panels and shuts the app down.  Other  *)
(* endpoints follow the same protocol and are represented by their ledger  *)
(* transactions.  A step here is one critical section or one transaction.  *)
(*                                                                         *)
(* A gate is replaced only when it is closed and drained (install), so a   *)
(* ticket, permit or fence of a replaced gate behaves as one of a closed,  *)
(* drained gate, and one gate per leaf is enough.                          *)
(***************************************************************************)
EXTENDS HookLedger

CONSTANTS
    Me,          \* this endpoint
    Local,       \* the runtimes this process hosts itself; others: the daemon
    AdoptBound   \* other endpoints adopt and release below this epoch

ASSUME RuntimeAssumption ==
    /\ Me \in Owners
    /\ Local \subseteq Runtimes
    /\ AdoptBound \in Nat

VARIABLES
    gate,        \* HookAuthority::registry
    claims,      \* contexts registered and not closing
    closing,     \* births being closed, by runtime
    cancelled,   \* runtimes cancelled for good
    finishing,   \* runtimes the worker was asked to finish (Work::Finish)
    birth,       \* recovery worker
    refresh,     \* worker: a claim it found superseded in the ledger
    closer,      \* remote closer: runtime and progress
    job,         \* hook server job: the state of the context in inflight[Me]
    env,         \* the envelope in the UI channel
    admission,   \* birth_admission_closed
    pending,     \* local_factories_pending, by generation
    observed,    \* observed_local
    queued,      \* local_queued: None, FALSE or TRUE per generation
    local,       \* the worker's LocalRetirement list: generation -> progress
    spawned,     \* Spawn requests on the wire to the daemon
    dead,        \* history: generations whose child has ended
    shutdown     \* drain_local_for_shutdown: its five samples

registries == <<gate, claims, closing, cancelled, finishing>>
workers == <<refresh, closer>>
hooks == <<job, env>>
locals == <<pending, observed, queued, local>>
hosts == <<spawned, dead>>
exit == <<admission, shutdown>>
all_vars == <<vars, registries, birth, workers, hooks, locals, hosts, exit>>

GateState == [claim: Claim, open: BOOLEAN, in_flight: 0..1, installed: BOOLEAN]
Closing == [claim: Claim, fence: Claim, permanent: BOOLEAN, confirmed: BOOLEAN]
BirthPc == {"idle", "checked", "reserved", "gated", "registered", "granted", "consumed",
            "admitted", "refused", "built", "nochild", "nochild_fenced",
            "attached", "attach_gated", "handoff", "orphan"}
Birth == [pc: BirthPc, claim: Claim \cup {None}, key: Keys \cup {None},
          runtime: Runtimes \cup {None}, fresh: BOOLEAN]
Closer == [pc: {"idle", "closing", "fenced", "recorded", "killed"},
           runtime: Runtimes \cup {None}, claim: Claim \cup {None}]
Envelope == [state: {"offered", "claimed", "abandoned"}, claim: Claim]
ShutdownPc == {"running", "frozen", "no_factories", "no_births", "no_handles", "no_queued",
               "clean"}

\* Option::None is no entry of a registry and no envelope.
ASSUME RegistryAssumption == None \notin GateState \cup Closing \cup Envelope

\* The types of the runtime's state, beside the ledger's.
RuntimeTypeOK ==
    /\ TypeOK
    /\ gate \in [Keys -> GateState \cup {None}]
    /\ claims \in [Keys -> Claim \cup {None}]
    /\ closing \in [Runtimes -> Closing \cup {None}]
    /\ cancelled \subseteq Runtimes /\ finishing \subseteq Runtimes
    /\ birth \in Birth /\ refresh \in Claim \cup {None} /\ closer \in Closer
    /\ job \in {"idle", "admitted", "running", "effected", "queued"}
    /\ env \in Envelope \cup {None}
    /\ admission \in BOOLEAN
    /\ pending \subseteq Generations /\ observed \subseteq Generations
    /\ queued \in [Generations -> BOOLEAN \cup {None}]
    /\ local \in [Generations -> {"none", "new", "fenced", "draining"}]
    /\ spawned \subseteq Claim
    /\ dead \subseteq Generations
    /\ shutdown \in ShutdownPc

IdleBirth == [pc |-> "idle", claim |-> None, key |-> None, runtime |-> None, fresh |-> FALSE]
IdleCloser == [pc |-> "idle", runtime |-> None, claim |-> None]

RuntimeInit ==
    /\ Init
    /\ gate = [k \in Keys |-> None]
    /\ claims = [k \in Keys |-> None]
    /\ closing = [r \in Runtimes |-> None]
    /\ cancelled = {} /\ finishing = {}
    /\ birth = IdleBirth /\ refresh = None /\ closer = IdleCloser
    /\ job = "idle" /\ env = None
    /\ admission = FALSE /\ shutdown = "running"
    /\ pending = {} /\ observed = {} /\ spawned = {} /\ dead = {}
    /\ queued = [g \in Generations |-> None]
    /\ local = [g \in Generations |-> "none"]

-----------------------------------------------------------------------------
(* The world the endpoint acts on.                                         *)

\* A factory ran for g and its process has not ended.
Alive(g) == factories[g] > 0 /\ g \notin dead

\* PtyHandle::hook_host_evidence of the child of g.
EvidenceOf(g) == [runtime |-> gens[g].runtime, generation |-> g, key |-> gens[g].key]

\* with_hook_publication holds the SQLite writer while its envelope is offered
\* or claimed: no other transaction commits.
WriterFree == env # None => env.state = "abandoned"

\* Leave the ledger alone.
NoTransaction == UNCHANGED vars

-----------------------------------------------------------------------------
(* HookAuthority.                                                          *)

\* The gate a claim was issued under is the current one.
GateOf(c) == gate[c.key] # None /\ SameAuthority(gate[c.key].claim, c)

\* RetireFence::locally_drained.
LocallyDrained(c) ==
    GateOf(c) => ~gate[c.key].open /\ gate[c.key].in_flight = 0

\* install, when it succeeds.
CanInstall(c) ==
    /\ c.owner # None /\ LiveClaim(c)
    /\ c.generation # None \/ ~c.require_binding
    /\ gate[c.key] # None =>
           /\ ~gate[c.key].open /\ gate[c.key].in_flight = 0
           /\ gate[c.key].claim.epoch < c.epoch

\* Faulty variant: the gate of a birth that is not installed yet stays open.
ClosedIfInstalled(c) ==
    IF GateOf(c) /\ gate[c.key].installed
    THEN [gate EXCEPT ![c.key] = [@ EXCEPT !.open = FALSE]] ELSE gate

\* begin_retire closes the gate of exactly this claim; invalidate ignores
\* its outcome.
Closed(c) ==
    IF GateOf(c) THEN [gate EXCEPT ![c.key] = [@ EXCEPT !.open = FALSE]] ELSE gate

-----------------------------------------------------------------------------
(* Closing admission.                                                      *)

RegisteredUnder(r) == {k \in Keys : claims[k] # None /\ claims[k].runtime = r}
\* The claim that is found first.
FoundUnder(r) == CHOOSE k \in RegisteredUnder(r) : TRUE

\* The effect of begin_close on the registries; `confirmed' adds what
\* physical_close_confirmed does next.
BeginClose(r, permanent, confirmed) ==
    LET found == RegisteredUnder(r) # {}
        c == claims[FoundUnder(r)]
        entry == IF found /\ GateOf(c)
                 THEN [claim |-> c, fence |-> c, permanent |-> permanent, confirmed |-> FALSE]
                 ELSE closing[r]
    IN  /\ cancelled' = cancelled \cup {r}
        /\ claims' = IF found THEN [claims EXCEPT ![FoundUnder(r)] = None] ELSE claims
        /\ gate' = IF found THEN Closed(c) ELSE gate
        /\ closing' = [closing EXCEPT ![r] =
              IF confirmed /\ entry # None THEN [entry EXCEPT !.confirmed = TRUE] ELSE entry]
        /\ finishing' = IF confirmed THEN finishing \cup {r} ELSE finishing

\* begin_close_bound: the exact birth, owned here, or already closing.
OwnedClaim(host, c) == c # None /\ Proves(host, c) /\ c.owner = Me

BoundHere(host) ==
    IF OwnedClaim(host, claims[host.key])
    THEN closing[host.runtime] = None /\ GateOf(claims[host.key])
    ELSE /\ closing[host.runtime] # None
         /\ OwnedClaim(host, closing[host.runtime].claim)

BeginCloseBound(host) ==
    LET c == claims[host.key]
        mine == OwnedClaim(host, c)
    IN  /\ BoundHere(host)
        /\ cancelled' = cancelled \cup {host.runtime}
        /\ claims' = IF mine THEN [claims EXCEPT ![host.key] = None] ELSE claims
        /\ gate' = IF mine THEN Closed(c) ELSE gate
        /\ closing' = IF mine
                      THEN [closing EXCEPT ![host.runtime] =
                               [claim |-> c, fence |-> c, permanent |-> TRUE,
                                confirmed |-> FALSE]]
                      ELSE closing

\* Faulty variant: the fence does not wait for the effects in flight.
MayFenceUndrained(r) ==
    /\ closing[r] # None
    /\ closing[r].claim.phase # "retiring"
    /\ leaf[closing[r].claim.key] # None
    /\ SameAuthority(closing[r].claim, leaf[closing[r].claim.key])

\* prepare_physical_close up to its transaction: effects drained and the
\* ledger still names this authority, which the transaction then fences.
MayFence(r) ==
    /\ closing[r] # None
    /\ LocallyDrained(closing[r].fence)
    /\ closing[r].claim.phase # "retiring"
    /\ leaf[closing[r].claim.key] # None
    /\ SameAuthority(closing[r].claim, leaf[closing[r].claim.key])

\* ... or a fence from an earlier attempt still stands.
FenceStands(r) ==
    /\ closing[r] # None
    /\ closing[r].claim.phase = "retiring"
    /\ leaf[closing[r].claim.key] = closing[r].claim

\* The claim a FenceRetire of c commits.
Fence(c) == Successor(c, c.epoch + 1, c.owner, "retiring", TRUE)

-----------------------------------------------------------------------------
(* authorize_birth, on the recovery worker, under the admission lock.      *)

AdmissionLocked == birth.pc \in {"checked", "reserved", "gated", "registered"}

\* A runtime is the session id drawn for one leaf (PtyManager::spawn), so no
\* other leaf ever asks for a birth under it.
SessionOf(k, r) == \A g \in Generations : gens[g] # None /\ gens[g].runtime = r => gens[g].key = k

Authorize(k, r) ==
    /\ birth.pc = "idle"
    /\ SessionOf(k, r)
    /\ ~admission
    /\ r \notin cancelled
    /\ \A q \in Runtimes : closing[q] # None => closing[q].claim.key # k
    /\ birth' = [pc |-> "checked", claim |-> None, key |-> k, runtime |-> r, fresh |-> TRUE]
    /\ NoTransaction
    /\ UNCHANGED <<registries, workers, hooks, locals, hosts, exit>>

\* The same endpoint asks again for a birth it reserved before.
RetryReserved ==
    LET c == leaf[birth.key]
    IN  /\ birth.pc = "checked"
        /\ c # None
        /\ c.owner = Me /\ c.runtime = birth.runtime
        /\ c.phase = "authorized_birth" /\ c.generation # None
        /\ birth' = [birth EXCEPT !.pc = "reserved", !.claim = c, !.fresh = FALSE]
        /\ NoTransaction
        /\ UNCHANGED <<registries, workers, hooks, locals, hosts, exit>>

ReserveFresh(g) ==
    /\ birth.pc = "checked"
    /\ WriterFree
    /\ Reserve(Me, leaf[birth.key], birth.key, birth.runtime, g)
    /\ birth' = [birth EXCEPT !.pc = "reserved", !.claim = leaf'[birth.key]]
    /\ UNCHANGED <<registries, workers, hooks, locals, hosts, exit>>

\* Prior birth not retired, or the transaction is refused.
AuthorizeRefused ==
    /\ birth.pc = "checked"
    /\ birth' = IdleBirth
    /\ NoTransaction
    /\ UNCHANGED <<registries, workers, hooks, locals, hosts, exit>>

\* register, first half: the gate is installed, or the one of the same birth
\* is marked installed; a refusal ends the operation.
RegisterGate(from, to, refused) ==
    LET c == birth.claim
        known == claims[c.key] # None /\ SameAuthority(claims[c.key], c)
        markable == c.phase # "active" \/ (GateOf(c) /\ gate[c.key].open)
        ok == IF known THEN markable ELSE CanInstall(c)
    IN  /\ birth.pc = from
        /\ gate' = IF ~ok THEN gate
                   ELSE IF ~known
                   THEN [gate EXCEPT ![c.key] = [claim |-> c, open |-> TRUE, in_flight |-> 0,
                                                 installed |-> c.phase = "active"]]
                   ELSE IF c.phase = "active"
                   THEN [gate EXCEPT ![c.key] = [@ EXCEPT !.installed = TRUE]]
                   ELSE gate
        /\ birth' = IF ok THEN [birth EXCEPT !.pc = to] ELSE refused
        /\ NoTransaction
        /\ UNCHANGED <<claims, closing, cancelled, finishing, workers, hooks, locals, hosts, exit>>

\* register, second half.
RegisterClaim(from, done) ==
    /\ birth.pc = from
    /\ claims' = [claims EXCEPT ![birth.claim.key] = birth.claim]
    /\ birth' = done
    /\ NoTransaction
    /\ UNCHANGED <<gate, closing, cancelled, finishing, workers, hooks, locals, hosts, exit>>

\* The panel was closed while the birth was being reserved.  A fresh
\* reservation is cancelled for good: nobody has the nonce.  A retry may have
\* been sent before and is only fenced.
GrantCancelled ==
    /\ birth.pc = "registered"
    /\ birth.runtime \in cancelled
    /\ BeginClose(birth.runtime, TRUE, birth.fresh)
    /\ birth' = IdleBirth
    /\ NoTransaction
    /\ UNCHANGED <<workers, hooks, locals, hosts, exit>>

Grant ==
    /\ birth.pc = "registered"
    /\ birth.runtime \notin cancelled
    /\ birth' = [birth EXCEPT !.pc = "granted"]
    /\ NoTransaction
    /\ UNCHANGED <<registries, workers, hooks, locals, hosts, exit>>

-----------------------------------------------------------------------------
(* The factory: in this process for a local birth, in the daemon otherwise. *)

\* PtyHandle::spawn_with_history consumes the nonce it was granted.
Consume ==
    /\ birth.pc = "granted" /\ birth.runtime \in Local
    /\ WriterFree
    /\ ConsumeBirthOnce(birth.claim)
    /\ birth' = [birth EXCEPT !.pc = "consumed"]
    /\ UNCHANGED <<registries, workers, hooks, locals, hosts, exit>>

\* "birth already consumed", or the claim is no longer the one granted.
ConsumeRefused ==
    /\ birth.pc = "granted" /\ birth.runtime \in Local
    /\ ~RequireExact(birth.claim) \/ gens[birth.claim.generation].spawn_consumed
    /\ birth' = IdleBirth
    /\ NoTransaction
    /\ UNCHANGED <<registries, workers, hooks, locals, hosts, exit>>

\* Faulty variant: a shutdown in progress does not stop the factory.
BeginLocalFactoryAlways ==
    /\ birth.pc = "consumed"
    /\ birth' = [birth EXCEPT !.pc = "admitted"]
    /\ pending' = pending \cup {birth.claim.generation}
    /\ NoTransaction
    /\ UNCHANGED <<registries, workers, hooks, observed, queued, local, hosts, exit>>

\* begin_local_factory: an app that is closing refuses, and the permit is
\* then used up without a child.
BeginLocalFactory ==
    /\ birth.pc = "consumed"
    /\ birth' = [birth EXCEPT !.pc = IF admission THEN "refused" ELSE "admitted"]
    /\ pending' = IF admission THEN pending ELSE pending \cup {birth.claim.generation}
    /\ NoTransaction
    /\ UNCHANGED <<registries, workers, hooks, observed, queued, local, hosts, exit>>

\* run_guarded with a factory that starts the child.
RunFactory ==
    /\ birth.pc = "admitted"
    /\ WriterFree
    /\ RunGuarded(birth.claim)
    /\ birth' = IF ValidateSpawn(birth.claim) THEN [birth EXCEPT !.pc = "built"] ELSE IdleBirth
    /\ UNCHANGED <<registries, workers, hooks, locals, hosts, exit>>

\* run_guarded whose factory is refused admission, or fails: before the
\* physical spawn, which proves there is no child, or in it, which does not.
FactoryFails ==
    /\ birth.pc \in {"admitted", "refused"}
    /\ WriterFree
    /\ ValidateSpawn(birth.claim)
    /\ LosePermit(birth.claim)
    /\ birth' \in {[birth EXCEPT !.pc = "nochild"]} \cup
                 (IF birth.pc = "admitted" THEN {IdleBirth} ELSE {})
    /\ UNCHANGED <<registries, workers, hooks, locals, hosts, exit>>

\* confirm_no_child_birth: fence, then confirm; its error is ignored.
NoChildBegin ==
    /\ birth.pc = "nochild"
    /\ LET host == EvidenceOf(birth.claim.generation)
       IN  \/ /\ BeginCloseBound(host)
              /\ birth' = [birth EXCEPT !.pc = "nochild_fenced"]
           \/ /\ ~BoundHere(host)
              /\ birth' = IdleBirth
              /\ UNCHANGED <<gate, claims, closing, cancelled>>
    /\ NoTransaction
    /\ UNCHANGED <<finishing, workers, hooks, locals, hosts, exit>>

NoChildConfirm ==
    LET r == birth.runtime
        current == leaf[closing[r].claim.key]
    IN  /\ birth.pc = "nochild_fenced"
        /\ WriterFree
        /\ MayFence(r)
        /\ FenceRetire(Me, current)
        /\ closing' = [closing EXCEPT ![r] =
              [@ EXCEPT !.claim = Fence(current), !.confirmed = TRUE]]
        /\ finishing' = finishing \cup {r}
        /\ pending' = pending \ {birth.claim.generation}
        /\ birth' = IdleBirth
        /\ UNCHANGED <<gate, claims, cancelled, workers, hooks, observed, queued, local,
                       hosts, exit>>

\* The effects did not end within ten seconds, or the authority is gone.
NoChildGivesUp ==
    /\ birth.pc = "nochild_fenced"
    /\ birth' = IdleBirth
    /\ NoTransaction
    /\ UNCHANGED <<registries, workers, hooks, locals, hosts, exit>>

\* recover_remote sends Spawn with the nonce; the daemon takes it from here.
SendSpawn ==
    /\ birth.pc = "granted" /\ birth.runtime \notin Local
    /\ spawned' = spawned \cup {birth.claim}
    /\ birth' = IdleBirth
    /\ NoTransaction
    /\ UNCHANGED <<registries, workers, hooks, locals, dead, exit>>

\* The daemon handles a Spawn: consume and run under the same registry lock.
\* It may arrive late, and more than once.
HostConsume(c) ==
    /\ c \in spawned
    /\ WriterFree
    /\ ConsumeBirthOnce(c)
    /\ UNCHANGED <<registries, birth, workers, hooks, locals, hosts, exit>>

HostFactory(c) ==
    /\ c \in spawned
    /\ WriterFree
    /\ RunGuarded(c)
    /\ UNCHANGED <<registries, birth, workers, hooks, locals, hosts, exit>>

\* A child ends by itself.
ChildExits(g) ==
    /\ Alive(g)
    /\ dead' = dead \cup {g}
    /\ NoTransaction
    /\ UNCHANGED <<registries, birth, workers, hooks, locals, spawned, exit>>

-----------------------------------------------------------------------------
(* attach: the evidence of a child turns into authority.                   *)

AttachTransaction(g) ==
    LET host == EvidenceOf(g)
        expected == leaf[host.key]
        again == Proves(host, expected) /\ expected.owner = Me /\ expected.phase = "active"
    IN  /\ gens[g] # None
        /\ expected # None
        /\ host.runtime \notin cancelled
        /\ \/ /\ expected.owner = Me /\ expected.phase = "authorized_birth"
              /\ WriterFree
              /\ Install(Me, expected, host)
           \/ /\ again
              /\ NoTransaction
           \/ /\ ~again /\ ~(expected.owner = Me /\ expected.phase = "authorized_birth")
              /\ WriterFree
              /\ expected.epoch < AdoptBound
              /\ Adopt(Me, expected, host)
        /\ birth' = [pc |-> "attached", claim |-> leaf'[host.key], key |-> host.key,
                     runtime |-> host.runtime, fresh |-> host.runtime \in Local]
        /\ UNCHANGED <<registries, workers, hooks, locals, hosts, exit>>

\* The local factory attaches its own child; the recovery worker attaches to
\* a child the daemon reports.
AttachLocal == birth.pc = "built" /\ AttachTransaction(birth.claim.generation)
AttachRemote(g) ==
    /\ birth.pc = "idle"
    /\ Alive(g) /\ gens[g].runtime \notin Local
    /\ AttachTransaction(g)

\* The attachment of a local child is refused: the factory keeps the child
\* for the closer.
AttachLocalRefused ==
    /\ birth.pc = "built"
    /\ birth' = [birth EXCEPT !.pc = "orphan"]
    /\ NoTransaction
    /\ UNCHANGED <<registries, workers, hooks, locals, hosts, exit>>

AttachRefused ==
    IF birth.claim.runtime \in Local THEN [birth EXCEPT !.pc = "orphan"] ELSE IdleBirth
AttachDone ==
    IF birth.claim.runtime \in Local THEN [birth EXCEPT !.pc = "handoff"] ELSE IdleBirth

\* observe_local: the manager publishes the handle.
ObserveLocal ==
    LET g == birth.claim.generation
    IN  /\ birth.pc = "handoff"
        /\ observed' = observed \cup {g}
        /\ pending' = pending \ {g}
        /\ birth' = IdleBirth
        /\ NoTransaction
        /\ UNCHANGED <<registries, workers, hooks, queued, local, hosts, exit>>

-----------------------------------------------------------------------------
(* request_local_close and LocalRetirement::advance.                       *)

\* The bounded work queue may refuse after the close was admitted.
RequestLocalClose(g, accepted) ==
    /\ queued[g] = None
    /\ BeginCloseBound(EvidenceOf(g))
    /\ queued' = IF accepted THEN [queued EXCEPT ![g] = FALSE] ELSE queued
    /\ local' = IF accepted THEN [local EXCEPT ![g] = "new"] ELSE local
    /\ NoTransaction
    /\ UNCHANGED <<finishing, workers, hooks, pending, observed, hosts, exit>>

\* The factory hands over a child it may not publish (the panel was closed,
\* the attachment refused, the startup command not written).
FactoryCloses(accepted) ==
    /\ birth.pc \in {"handoff", "orphan"}
    /\ RequestLocalClose(birth.claim.generation, accepted)
    /\ birth' = IF accepted THEN IdleBirth ELSE birth

\* The worker, or the exiting app, closes an observed child.
CloseObserved(g, accepted) ==
    /\ g \in observed
    /\ ~Alive(g) \/ shutdown # "running" \/ gens[g].runtime \in cancelled
    /\ RequestLocalClose(g, accepted)
    /\ UNCHANGED birth

\* Faulty variant: the receipt of the fence is not kept.
RetireFenceLocalForgets(g) ==
    LET r == gens[g].runtime
        current == leaf[closing[r].claim.key]
    IN  /\ local[g] = "new"
        /\ BoundHere(EvidenceOf(g))
        /\ Proves(EvidenceOf(g), closing[r].claim)
        /\ \/ /\ MayFence(r)
              /\ WriterFree
              /\ FenceRetire(Me, current)
              /\ UNCHANGED closing
           \/ /\ FenceStands(r) /\ LocallyDrained(closing[r].fence)
              /\ NoTransaction
              /\ UNCHANGED closing
        /\ local' = [local EXCEPT ![g] = "fenced"]
        /\ UNCHANGED <<gate, claims, cancelled, finishing, birth, workers, hooks, pending,
                       observed, queued, hosts, exit>>

\* prepare_physical_close_bound on the worker.
RetireFenceLocal(g) ==
    LET r == gens[g].runtime
        current == leaf[closing[r].claim.key]
    IN  /\ local[g] = "new"
        /\ BoundHere(EvidenceOf(g))
        /\ Proves(EvidenceOf(g), closing[r].claim)
        /\ \/ /\ MayFence(r)
              /\ WriterFree
              /\ FenceRetire(Me, current)
              /\ closing' = [closing EXCEPT ![r] =
                                [@ EXCEPT !.claim = Fence(current)]]
           \/ /\ FenceStands(r) /\ LocallyDrained(closing[r].fence)
              /\ NoTransaction
              /\ UNCHANGED closing
        /\ local' = [local EXCEPT ![g] = "fenced"]
        /\ UNCHANGED <<gate, claims, cancelled, finishing, birth, workers, hooks, pending,
                       observed, queued, hosts, exit>>

\* take_retirement_prefix, its append, begin_retirement_drain: only now may
\* the child be terminated.
RetireDrainLocal(g) ==
    /\ local[g] = "fenced"
    /\ local' = [local EXCEPT ![g] = "draining"]
    /\ dead' = dead \cup {g}
    /\ NoTransaction
    /\ UNCHANGED <<registries, birth, workers, hooks, pending, observed, queued, spawned, exit>>

\* Physical end and durable tail: the close is confirmed.
RetireCompleteLocal(g) ==
    /\ local[g] = "draining"
    /\ ~Alive(g)
    /\ BeginClose(gens[g].runtime, TRUE, TRUE)
    /\ local' = [local EXCEPT ![g] = "none"]
    /\ queued' = [queued EXCEPT ![g] = TRUE]
    /\ pending' = pending \ {g}
    /\ observed' = observed \ {g}
    /\ NoTransaction
    /\ UNCHANGED <<birth, workers, hooks, hosts, exit>>

-----------------------------------------------------------------------------
(* The user closes a panel; close_remote runs on the closer thread.        *)

\* PtyManager::close and close_and_kill_remote; release_endpoint for a
\* terminal that lives on in the daemon.
UiClose(r, permanent) ==
    /\ r \notin cancelled
    /\ r \in Local => permanent
    /\ BeginClose(r, permanent, FALSE)
    /\ NoTransaction
    /\ UNCHANGED <<birth, workers, hooks, locals, hosts, exit>>

\* prepare_physical_close begins by closing admission again.
CloserStart(r) ==
    /\ closer.pc = "idle"
    /\ r \in cancelled \ Local
    /\ BeginClose(r, TRUE, FALSE)
    /\ closing'[r] # None
    /\ closer' = [pc |-> "closing", runtime |-> r, claim |-> closing'[r].claim]
    /\ NoTransaction
    /\ UNCHANGED <<birth, refresh, hooks, locals, hosts, exit>>

CloserFence ==
    LET r == closer.runtime
    IN  /\ closer.pc = "closing"
        /\ WriterFree
        /\ MayFence(r)
        /\ FenceRetire(Me, leaf[closing[r].claim.key])
        /\ closer' = [closer EXCEPT !.pc = "fenced", !.claim = leaf'[closing[r].claim.key]]
        /\ UNCHANGED <<registries, birth, refresh, hooks, locals, hosts, exit>>

\* The receipt replaces the claim of the closing entry, if it is still there.
CloserRecord ==
    LET r == closer.runtime
    IN  /\ closer.pc = "fenced"
        /\ IF closing[r] # None /\ LiveClaim(closing[r].claim)
           THEN /\ closing' = [closing EXCEPT ![r] = [@ EXCEPT !.claim = closer.claim]]
                /\ closer' = [closer EXCEPT !.pc = "recorded"]
           ELSE closing' = closing /\ closer' = IdleCloser
        /\ NoTransaction
        /\ UNCHANGED <<gate, claims, cancelled, finishing, birth, refresh, hooks, locals,
                       hosts, exit>>

\* An earlier attempt fenced and lost its answer.
CloserResumes ==
    LET r == closer.runtime
    IN  /\ closer.pc = "closing"
        /\ FenceStands(r) /\ LocallyDrained(closing[r].fence)
        /\ closer' = [closer EXCEPT !.pc = "recorded", !.claim = closing[r].claim]
        /\ NoTransaction
        /\ UNCHANGED <<registries, birth, refresh, hooks, locals, hosts, exit>>

\* The daemon on CloseBirth: the fence is in the ledger and names this
\* endpoint.  It ends the child, or knows that none was ever started; a
\* consumed nonce without a child stays uncertain.
HostCloses ==
    LET g == closer.claim.generation
    IN  /\ closer.pc = "recorded"
        /\ leaf[closer.claim.key] = closer.claim
        /\ closer.claim.phase = "retiring"
        /\ ~\E c \in permits : c.generation = g
        /\ factories[g] > 0 \/ ~gens[g].spawn_consumed
        /\ dead' = IF factories[g] > 0 THEN dead \cup {g} ELSE dead
        /\ closer' = [closer EXCEPT !.pc = "killed"]
        /\ NoTransaction
        /\ UNCHANGED <<registries, birth, refresh, hooks, locals, spawned, exit>>

CloserConfirms ==
    /\ closer.pc = "killed"
    /\ BeginClose(closer.runtime, TRUE, TRUE)
    /\ closer' = IdleCloser
    /\ NoTransaction
    /\ UNCHANGED <<birth, refresh, hooks, locals, hosts, exit>>

\* Lost connection, lost answer, timeout, or no authority: try again later.
CloserGivesUp ==
    /\ closer.pc # "idle"
    /\ closer' = IdleCloser
    /\ NoTransaction
    /\ UNCHANGED <<registries, birth, refresh, hooks, locals, hosts, exit>>

-----------------------------------------------------------------------------
(* The hook-ledger worker.                                                 *)

\* Faulty variant: a permanent close is finished without its confirmation.
MayFinishUnconfirmed(r) == closing[r] # None /\ LocallyDrained(closing[r].fence)

MayFinish(r) ==
    /\ closing[r] # None
    /\ LocallyDrained(closing[r].fence)
    /\ closing[r].permanent => closing[r].confirmed

\* finish: retire the birth, or release it to whoever attaches next.
Finish(r) ==
    /\ MayFinish(r)
    /\ WriterFree
    /\ LET c == closing[r].claim
           current == leaf[c.key]
       IN  /\ current # None
           /\ c = current \/ SameAuthority(c, current)
           /\ \/ ~closing[r].permanent /\ Release(Me, current)
              \/ (closing[r].permanent \/ r \in finishing) /\ Retire(Me, current)
    /\ closing' = [closing EXCEPT ![r] = None]
    /\ finishing' = finishing \ {r}
    /\ UNCHANGED <<gate, claims, cancelled, birth, workers, hooks, locals, hosts, exit>>

\* refresh_claim: a snapshot of a registered claim that the ledger no longer
\* confirms ...
RefreshReads(k) ==
    /\ refresh = None
    /\ claims[k] # None
    /\ leaf[k] # None => ~SameAuthority(leaf[k], claims[k])
    /\ refresh' = claims[k]
    /\ NoTransaction
    /\ UNCHANGED <<registries, birth, closer, hooks, locals, hosts, exit>>

\* Faulty variant: whatever is registered by then is dropped.
RefreshDropsAny ==
    /\ refresh # None
    /\ gate' = Closed(refresh)
    /\ claims' = [claims EXCEPT ![refresh.key] = None]
    /\ refresh' = None
    /\ NoTransaction
    /\ UNCHANGED <<closing, cancelled, finishing, birth, closer, hooks, locals, hosts, exit>>

\* ... is invalidated, and dropped if it is still the registered one.
RefreshDrops ==
    /\ refresh # None
    /\ gate' = Closed(refresh)
    /\ claims' = IF claims[refresh.key] # None /\ SameAuthority(claims[refresh.key], refresh)
                 THEN [claims EXCEPT ![refresh.key] = None] ELSE claims
    /\ refresh' = None
    /\ NoTransaction
    /\ UNCHANGED <<closing, cancelled, finishing, birth, closer, hooks, locals, hosts, exit>>

-----------------------------------------------------------------------------
(* Hooks: admitted under a gate, effects while it is open, and one event   *)
(* published to the UI under the ledger's write lock.                      *)

Ticket == inflight[Me].claim

\* admit: hook_resolve, then HookAuthority::ticket.
Admit(k, r, g) ==
    /\ job = "idle"
    /\ WriterFree
    /\ ResolveBound(Me, k, r, g)
    /\ GateOf(leaf[k]) /\ gate[k].open
    /\ job' = "admitted"
    /\ UNCHANGED <<registries, birth, workers, env, locals, hosts, exit>>

\* begin_effects.
BeginEffects ==
    /\ job = "admitted"
    /\ IF GateOf(Ticket) /\ gate[Ticket.key].open
       THEN /\ job' = "running"
            /\ gate' = [gate EXCEPT ![Ticket.key].in_flight = @ + 1]
            /\ NoTransaction
       ELSE /\ job' = "idle"
            /\ inflight' = [inflight EXCEPT ![Me] = None]
            /\ UNCHANGED <<gate, leaf, gens, policy, held, permits, factories, effects>>
    /\ UNCHANGED <<claims, closing, cancelled, finishing, birth, workers, env, locals, hosts,
                   exit>>

\* respond_to_hook_owned: the owned write, validated in its transaction; the
\* ticket survives it.
MemoryEffect ==
    /\ job = "running"
    /\ WriterFree
    /\ effects' = IF ValidateOwned(inflight[Me])
                  THEN [effects EXCEPT ![Ticket.key] =
                           [epoch |-> Ticket.epoch, owner |-> Ticket.owner]]
                  ELSE effects
    /\ job' = "effected"
    /\ UNCHANGED <<leaf, gens, policy, held, permits, inflight, factories, registries, birth,
                   workers, env, locals, hosts, exit>>

\* The permit is dropped and the event queued for publication (the queue may
\* be full).
EndEffects(accepted) ==
    /\ job = "effected"
    /\ gate' = IF GateOf(Ticket)
               THEN [gate EXCEPT ![Ticket.key].in_flight = IF @ = 0 THEN 0 ELSE @ - 1]
               ELSE gate
    /\ job' = IF accepted THEN "queued" ELSE "idle"
    /\ inflight' = IF accepted THEN inflight ELSE [inflight EXCEPT ![Me] = None]
    /\ UNCHANGED <<leaf, gens, policy, held, permits, factories, effects, claims, closing,
                   cancelled, finishing, birth, workers, env, locals, hosts, exit>>

\* HookAuthority::validate_ui.
ValidUi(c) == GateOf(c) /\ gate[c.key].open /\ gate[c.key].installed

\* The job leaves the publication ring.
DropJob ==
    /\ job' = "idle"
    /\ inflight' = [inflight EXCEPT ![Me] = None]
    /\ UNCHANGED <<leaf, gens, policy, held, permits, factories, effects>>

\* publication_attempt on a ticket its gate no longer admits.
PublicationDenied ==
    /\ job = "queued" /\ WriterFree
    /\ GateOf(Ticket) => ~gate[Ticket.key].open
    /\ DropJob
    /\ UNCHANGED <<registries, birth, workers, env, locals, hosts, exit>>

\* publication_attempt that takes the writer and offers the envelope; a full
\* channel leaves the job in the ring.
PublicationOffers ==
    /\ job = "queued" /\ env = None
    /\ ValidUi(Ticket)
    /\ ValidateOwned(inflight[Me]) /\ leaf[Ticket.key].phase = "active"
    /\ env' = [state |-> "offered", claim |-> Ticket]
    /\ NoTransaction
    /\ UNCHANGED <<registries, birth, workers, job, locals, hosts, exit>>

\* with_hook_publication refuses: the authority was lost; close the gate.
PublicationRefused ==
    /\ job = "queued" /\ WriterFree
    /\ ValidUi(Ticket)
    /\ ~(ValidateOwned(inflight[Me]) /\ leaf[Ticket.key].phase = "active")
    /\ gate' = Closed(Ticket)
    /\ DropJob
    /\ UNCHANGED <<claims, closing, cancelled, finishing, birth, workers, env, locals, hosts,
                   exit>>

\* Faulty variant: an abandoned envelope is still accepted by the UI.
UiClaimsAny ==
    /\ env # None /\ env.state # "claimed"
    /\ ValidUi(env.claim)
    /\ env' = [env EXCEPT !.state = "claimed"]
    /\ NoTransaction
    /\ UNCHANGED <<registries, birth, workers, job, locals, hosts, exit>>

\* begin_publication: the UI takes an envelope still on offer.
UiClaims ==
    /\ env # None /\ env.state = "offered"
    /\ ValidUi(env.claim)
    /\ env' = [env EXCEPT !.state = "claimed"]
    /\ NoTransaction
    /\ UNCHANGED <<registries, birth, workers, job, locals, hosts, exit>>

\* The UI refuses an envelope that is stale or abandoned and drops it; a
\* claimed one is dropped after its setters ran.  Dropping wakes the worker,
\* unless it had given up and put the job back.
UiDrops ==
    /\ env # None
    /\ env.state = "offered" => ~ValidUi(env.claim)
    /\ env' = None
    /\ IF env.state = "abandoned" THEN NoTransaction /\ UNCHANGED job ELSE DropJob
    /\ UNCHANGED <<registries, birth, workers, locals, hosts, exit>>

\* The worker waits 100 ms for the UI, then releases the ledger.
PublicationTimeout ==
    /\ env # None /\ env.state = "offered"
    /\ env' = [env EXCEPT !.state = "abandoned"]
    /\ NoTransaction
    /\ UNCHANGED <<registries, birth, workers, job, locals, hosts, exit>>

-----------------------------------------------------------------------------
(* drain_local_for_shutdown: freeze births, then sample five registries    *)
(* one after the other until a round finds all of them empty.              *)

Freeze ==
    /\ shutdown = "running"
    /\ ~AdmissionLocked
    /\ admission' = TRUE
    /\ shutdown' = "frozen"
    /\ NoTransaction
    /\ UNCHANGED <<registries, birth, workers, hooks, locals, hosts>>

SampleIsEmpty(sample) ==
    CASE sample = "frozen" -> pending = {}
      [] sample = "no_factories" ->
            \A k \in Keys : claims[k] # None => claims[k].phase # "authorized_birth"
      [] sample = "no_births" -> observed = {}
      [] sample = "no_handles" -> \A g \in Generations : queued[g] # FALSE
      [] sample = "no_queued" -> \A r \in Runtimes : closing[r] # None => ~closing[r].permanent

AfterSample ==
    [frozen |-> "no_factories", no_factories |-> "no_births", no_births |-> "no_handles",
     no_handles |-> "no_queued", no_queued |-> "clean"]

Sample ==
    /\ shutdown \in DOMAIN AfterSample
    /\ shutdown' = IF SampleIsEmpty(shutdown) THEN AfterSample[shutdown] ELSE "frozen"
    /\ NoTransaction
    /\ UNCHANGED <<registries, birth, workers, hooks, locals, hosts, admission>>

-----------------------------------------------------------------------------
(* Another endpoint, which follows the same protocol.                      *)

OtherStep(o, k) ==
    LET c == leaf[k]
    IN  /\ c # None /\ c.generation # None /\ c.runtime \notin Local
        /\ WriterFree
        /\ \/ /\ Alive(c.generation) /\ c.epoch < AdoptBound
              /\ Adopt(o, c, EvidenceOf(c.generation)) /\ UNCHANGED dead
           \/ c.epoch < AdoptBound /\ Release(o, c) /\ UNCHANGED dead
           \/ FenceRetire(o, c) /\ UNCHANGED dead
           \/ /\ c.owner = o /\ c.phase = "retiring"
              /\ dead' = dead \cup {c.generation}
              /\ NoTransaction
           \/ /\ c.owner = o /\ c.phase = "retiring"
              /\ ~Alive(c.generation)
              /\ Retire(o, c) /\ UNCHANGED dead
        /\ UNCHANGED <<registries, birth, workers, hooks, locals, spawned, exit>>

-----------------------------------------------------------------------------
RecoveryWorker ==
    \/ \E k \in Keys, r \in Runtimes : Authorize(k, r)
    \/ RetryReserved
    \/ \E g \in Generations : ReserveFresh(g)
    \/ AuthorizeRefused
    \/ RegisterGate("reserved", "gated", IdleBirth)
    \/ RegisterClaim("gated", [birth EXCEPT !.pc = "registered"])
    \/ GrantCancelled \/ Grant
    \/ Consume \/ ConsumeRefused \/ BeginLocalFactory \/ RunFactory \/ FactoryFails
    \/ NoChildBegin \/ NoChildConfirm \/ NoChildGivesUp
    \/ SendSpawn
    \/ AttachLocal \/ AttachLocalRefused \/ \E g \in Generations : AttachRemote(g)
    \/ RegisterGate("attached", "attach_gated", AttachRefused)
    \/ RegisterClaim("attach_gated", AttachDone)
    \/ ObserveLocal
    \/ \E accepted \in BOOLEAN : FactoryCloses(accepted)

LedgerWorker ==
    \/ \E g \in Generations :
          \/ \E accepted \in BOOLEAN : CloseObserved(g, accepted)
          \/ RetireFenceLocal(g) \/ RetireDrainLocal(g) \/ RetireCompleteLocal(g)
    \/ \E r \in Runtimes : Finish(r)
    \/ \E k \in Keys : RefreshReads(k)
    \/ RefreshDrops

RemoteCloser ==
    \/ \E r \in Runtimes : CloserStart(r)
    \/ CloserFence \/ CloserRecord \/ CloserResumes \/ HostCloses \/ CloserConfirms
    \/ CloserGivesUp

HookJobs ==
    \/ \E k \in Keys, r \in Runtimes, g \in Generations : Admit(k, r, g)
    \/ BeginEffects \/ MemoryEffect \/ \E accepted \in BOOLEAN : EndEffects(accepted)
    \/ PublicationDenied \/ PublicationOffers \/ PublicationRefused \/ PublicationTimeout

Ui ==
    \/ \E r \in Runtimes, permanent \in BOOLEAN : UiClose(r, permanent)
    \/ UiClaims \/ UiDrops \/ Freeze \/ Sample

Environment ==
    \/ \E c \in spawned : HostConsume(c) \/ HostFactory(c)
    \/ \E g \in Generations : ChildExits(g)
    \/ \E o \in Owners \ {Me}, k \in Keys : OtherStep(o, k)

RuntimeNext == RecoveryWorker \/ LedgerWorker \/ RemoteCloser \/ HookJobs \/ Ui \/ Environment

RuntimeSpec == RuntimeInit /\ [][RuntimeNext]_all_vars

\* The worker loops for ever, a hook job is a bounded database write, the
\* publication worker gives up after 100 ms, and the UI drains its channel
\* on every frame.
RuntimeFairness ==
    /\ \A r \in Runtimes : WF_all_vars(Finish(r))
    /\ WF_all_vars(BeginEffects \/ MemoryEffect \/ \E accepted \in BOOLEAN : EndEffects(accepted))
    /\ WF_all_vars(PublicationTimeout)
    /\ WF_all_vars(UiClaims \/ UiDrops)

FairRuntimeSpec == RuntimeSpec /\ RuntimeFairness

-----------------------------------------------------------------------------
(* Properties.                                                             *)

\* A birth the ledger calls retired has no live child: the leaf may be given
\* to the next birth without two shells running on it.
RetiredIsDead ==
    \A g \in Generations : gens[g] # None /\ gens[g].phase = "retired" => ~Alive(g)

\* The endpoint never gives up a leaf (fence, retire or release it) while a
\* hook it admitted is still having effects under that very claim.
DrainedFirst ==
    \A k \in Keys :
        /\ leaf[k] # None /\ leaf[k].owner = Me /\ LiveClaim(leaf[k])
        /\ leaf'[k] # leaf[k] /\ ~LiveClaim(leaf'[k])
        => ~(job \in {"running", "effected"} /\ SameAuthority(Ticket, leaf[k]))
EffectsDrainedFirst == [][DrainedFirst]_all_vars

\* While the UI sets what a hook event says, the ledger still names this
\* endpoint and this birth: an event that waited in the channel while the
\* terminal moved to another endpoint is never shown.
PublishedWhileOwned ==
    env # None /\ env.state = "claimed" =>
        /\ leaf[env.claim.key] # None
        /\ SameAuthority(leaf[env.claim.key], env.claim)
        /\ leaf[env.claim.key].phase = "active"

\* An open gate belongs to a registered claim, so a close can always find it
\* (but for the instant between the two halves of register).
OpenGateIsRegistered ==
    \A k \in Keys : gate[k] # None /\ gate[k].open =>
        \/ claims[k] # None /\ SameAuthority(claims[k], gate[k].claim)
        \/ /\ birth.pc \in {"gated", "attach_gated"}
           /\ SameAuthority(birth.claim, gate[k].claim)

\* Hook events reach the UI only through gates this endpoint has the right to
\* keep open and can still close.
GatesAreOwned == PublishedWhileOwned /\ OpenGateIsRegistered

\* ... and the leaf is not given up before what its gate admitted is over.
GatesAreKept == []GatesAreOwned /\ EffectsDrainedFirst

\* Once the shutdown barrier reports success, no child of this process is
\* left running and none can start any more.
ShutdownIsClean ==
    shutdown = "clean" =>
        \A g \in Generations : gens[g] # None /\ gens[g].runtime \in Local =>
            ~Alive(g)

\* The ledger frees a leaf, and the app ends, only once the children are gone.
RuntimeIsClean == RetiredIsDead /\ ShutdownIsClean

IsClosing(r) == closing[r] # None
ConfirmedClose(r) == IsClosing(r) /\ closing[r].confirmed

\* A close whose physical end is confirmed is written to the ledger.
ConfirmedCloseIsRecorded ==
    \A r \in Runtimes : ConfirmedClose(r) ~> ~IsClosing(r)
=============================================================================
