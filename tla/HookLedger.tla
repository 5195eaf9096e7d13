----------------------------- MODULE HookLedger -----------------------------
(***************************************************************************)
(* The durable ledger of managed terminal births                           *)
(* (src/src/memory/hook_ledger.rs, reached through memory/store.rs).       *)
(*                                                                         *)
(* A terminal leaf is owned by one endpoint (an app process) at a time.    *)
(* Three SQLite tables record it: one authority row per leaf, one row per  *)
(* generation (the birth nonce, never deleted), one legacy-alias policy    *)
(* per panel.  Every operation runs inside one BEGIN IMMEDIATE transaction *)
(* and is therefore one action; an `ensure!' that fails rolls the          *)
(* transaction back, so a refused operation is a step that changes         *)
(* nothing and is not written down.  Callers hand the claim they believe   *)
(* current (`expected'); a stale claim is refused.                         *)
(*                                                                         *)
(* Volatile state of the processes around the ledger:                      *)
(*   held      per endpoint, the claim it believes current                 *)
(*   permits   SpawnPermits handed out and not used yet                    *)
(*   inflight  per endpoint, the context resolved for work in progress     *)
(* History:                                                                *)
(*   factories how many times the PTY factory of a generation has run (for *)
(*             a birth first observed on a host: it ran before)            *)
(*   effects   per leaf, who last committed an owned effect, at what epoch *)
(***************************************************************************)
EXTENDS Integers, FiniteSets

CONSTANTS
    Keys,            \* leaf keys (workspace, panel, leaf)
    Panels,          \* (workspace, panel) pairs
    PanelOf,         \* the panel of each leaf
    Runtimes,        \* runtime UUIDs (one per terminal process)
    Generations,     \* birth nonces
    Owners,          \* endpoint UUIDs
    None,            \* SQL NULL / Rust Option::None
    MaxEpoch,        \* i64::MAX: next_epoch refuses to pass it
    MaxGenerations   \* MAX_GENERATIONS

\* The instance TLC checks: all leaves belong to one panel.
OnePanel == [k \in Keys |-> CHOOSE p \in Panels : TRUE]

ASSUME LedgerAssumption ==
    /\ PanelOf \in [Keys -> Panels]
    /\ None \notin Keys \cup Panels \cup Runtimes \cup Generations \cup Owners
    /\ MaxEpoch \in Nat \ {0}
    /\ MaxGenerations \in Nat

VARIABLES leaf, gens, policy, held, permits, inflight, factories, effects

vars == <<leaf, gens, policy, held, permits, inflight, factories, effects>>
volatile == <<permits, inflight, factories, effects>>

ClaimPhase == {"authorized_birth", "active", "detached", "retiring", "retired"}

Claim == [key: Keys, runtime: Runtimes, generation: Generations \cup {None},
          epoch: 1..MaxEpoch, owner: Owners \cup {None},
          phase: ClaimPhase, require_binding: BOOLEAN]

Generation == [key: Keys, runtime: Runtimes, birth_owner: Owners,
               born_epoch: 1..MaxEpoch, spawn_consumed: BOOLEAN,
               phase: {"authorized_birth", "active", "retired"}]

Policy == [root: Keys, alias_epoch: 1..MaxEpoch, closed: BOOLEAN]

\* OwnedHookContext: a claim and, for a legacy query that omitted the leaf,
\* the alias epoch it was resolved under.
Context == [claim: Claim, alias_epoch: (1..MaxEpoch) \cup {None}]

\* HostEvidence names a runtime, a generation and a target leaf.
Evidence == [runtime: Runtimes, generation: Generations \cup {None}, key: Keys]

Effect == [epoch: 1..MaxEpoch, owner: Owners]

\* NULL is no row and no integer.
ASSUME NullAssumption ==
    /\ None \notin Int
    /\ None \notin Claim \cup Generation
    /\ None \notin Policy \cup Context
    /\ None \notin Effect

\* The one type invariant: SQL column types and CHECK constraints.
TypeOK ==
    /\ leaf \in [Keys -> Claim \cup {None}]
    /\ gens \in [Generations -> Generation \cup {None}]
    /\ policy \in [Panels -> Policy \cup {None}]
    /\ held \in [Owners -> Claim \cup {None}]
    /\ permits \in SUBSET Claim
    /\ inflight \in [Owners -> Context \cup {None}]
    /\ factories \in [Generations -> Nat]
    /\ effects \in [Keys -> Effect \cup {None}]

Init ==
    /\ leaf = [k \in Keys |-> None]
    /\ gens = [g \in Generations |-> None]
    /\ policy = [p \in Panels |-> None]
    /\ held = [o \in Owners |-> None]
    /\ permits = {}
    /\ inflight = [o \in Owners |-> None]
    /\ factories = [g \in Generations |-> 0]
    /\ effects = [k \in Keys |-> None]

-----------------------------------------------------------------------------
(* Predicates shared by the transitions.                                   *)

LiveClaim(c) == c.phase \in {"authorized_birth", "active"}

\* same_authority with the epoch left out of the comparison.
SameAuthorityNoEpoch(a, b) ==
    /\ a.key = b.key
    /\ a.runtime = b.runtime
    /\ a.generation = b.generation
    /\ a.owner = b.owner
    /\ a.require_binding = b.require_binding
    /\ LiveClaim(a)
    /\ LiveClaim(b)

\* same_authority: equal but for the step from authorized_birth to active.
SameAuthority(a, b) ==
    /\ a.key = b.key
    /\ a.runtime = b.runtime
    /\ a.generation = b.generation
    /\ a.epoch = b.epoch
    /\ a.owner = b.owner
    /\ a.require_binding = b.require_binding
    /\ LiveClaim(a)
    /\ LiveClaim(b)

\* HostEvidence::proves.
Proves(host, c) ==
    /\ c.generation # None
    /\ host.runtime = c.runtime
    /\ host.generation = c.generation
    /\ host.key = c.key

\* Faulty variant: only the phase and the birth are compared.
RequireSameBirth(expected) ==
    /\ leaf[expected.key] # None
    /\ leaf[expected.key].generation = expected.generation
    /\ leaf[expected.key].phase = expected.phase

\* require_exact: the claim in the database is the one the caller believes in.
RequireExact(expected) == leaf[expected.key] = expected

\* generation_live: the nonce is registered for this birth and not retired.
GenerationLive(c, require_consumed) ==
    /\ c.generation # None
    /\ gens[c.generation] # None
    /\ gens[c.generation].key = c.key
    /\ gens[c.generation].runtime = c.runtime
    /\ gens[c.generation].phase # "retired"
    /\ require_consumed => gens[c.generation].spawn_consumed

\* Faulty variant: the addition is not checked.
HasNextEpochUnchecked(c) == TRUE

\* next_epoch: checked_add fails at the largest i64.
HasNextEpoch(c) == c.epoch < MaxEpoch

\* insert_claim, update_claim: write the authority row; the receipt hands the
\* new claim to the endpoint that acted.
SetLeaf(o, c) ==
    /\ leaf' = [leaf EXCEPT ![c.key] = c]
    /\ held' = [held EXCEPT ![o] = c]

CanInsertGeneration(g) ==
    /\ gens[g] = None                       \* PRIMARY KEY
    /\ Cardinality({h \in Generations : gens[h] # None}) < MaxGenerations

NewGeneration(c, consumed, phase) ==
    [key |-> c.key, runtime |-> c.runtime, birth_owner |-> c.owner,
     born_epoch |-> c.epoch, spawn_consumed |-> consumed, phase |-> phase]

\* Claim { epoch, owner, phase, require_binding, ..expected }.
Successor(expected, epoch, owner, phase, require_binding) ==
    [key |-> expected.key, runtime |-> expected.runtime,
     generation |-> expected.generation, epoch |-> epoch, owner |-> owner,
     phase |-> phase, require_binding |-> require_binding]

\* UPDATE tc_hook_generations: everything but the two columns is immutable.
UpdateGeneration(g, consumed, phase) ==
    gens' = [gens EXCEPT ![g] =
                [key |-> gens[g].key, runtime |-> gens[g].runtime,
                 birth_owner |-> gens[g].birth_owner, born_epoch |-> gens[g].born_epoch,
                 spawn_consumed |-> consumed, phase |-> phase]]

\* UPDATE ... SET phase=...: no row matches a legacy claim.
SetGenerationPhase(c, phase) ==
    IF c.generation = None THEN UNCHANGED gens
    ELSE UpdateGeneration(c.generation, gens[c.generation].spawn_consumed, phase)

-----------------------------------------------------------------------------
(* transition(): one action per LedgerIntent, with apply_intent's check    *)
(* that the acting endpoint is the one the intent speaks for.              *)

\* Faulty variant: a leaf whose previous birth is only fenced is reused.
ReserveOverRetiring(owner, expected, key, runtime, generation) ==
    LET c == [key |-> key, runtime |-> runtime, generation |-> generation,
              epoch |-> IF expected = None THEN 1 ELSE expected.epoch + 1, owner |-> owner,
              phase |-> "authorized_birth", require_binding |-> TRUE]
    IN  /\ leaf[key] = expected
        /\ expected # None =>
               expected.phase \in {"retiring", "retired"} /\ HasNextEpoch(expected)
        /\ CanInsertGeneration(generation)
        /\ gens' = [gens EXCEPT ![generation] = NewGeneration(c, FALSE, "authorized_birth")]
        /\ SetLeaf(owner, c)
        /\ UNCHANGED <<policy, volatile>>

\* LedgerIntent::Reserve: a new birth on a fresh or a retired leaf.
Reserve(owner, expected, key, runtime, generation) ==
    LET c == [key |-> key, runtime |-> runtime, generation |-> generation,
              epoch |-> IF expected = None THEN 1 ELSE expected.epoch + 1, owner |-> owner,
              phase |-> "authorized_birth", require_binding |-> TRUE]
    IN  /\ leaf[key] = expected
        /\ expected # None => expected.phase = "retired" /\ HasNextEpoch(expected)
        /\ CanInsertGeneration(generation)
        /\ gens' = [gens EXCEPT ![generation] = NewGeneration(c, FALSE, "authorized_birth")]
        /\ SetLeaf(owner, c)
        /\ UNCHANGED <<policy, volatile>>

\* LedgerIntent::Install: the host's evidence activates the birth in place.
Install(owner, expected, host) ==
    /\ expected.owner = owner
    /\ RequireExact(expected)
    /\ expected.phase = "authorized_birth"
    /\ Proves(host, expected)
    /\ GenerationLive(expected, TRUE)
    /\ SetLeaf(owner, Successor(expected, expected.epoch, owner, "active",
                                expected.require_binding))
    /\ SetGenerationPhase(expected, "active")
    /\ UNCHANGED <<policy, volatile>>

\* LedgerIntent::FenceRetire: blocks adoption and replacement before a
\* physical close starts.
FenceRetire(owner, expected) ==
    /\ expected.owner = owner
    /\ RequireExact(expected)
    /\ LiveClaim(expected)
    /\ HasNextEpoch(expected)
    /\ SetLeaf(owner, Successor(expected, expected.epoch + 1, owner, "retiring", TRUE))
    /\ UNCHANGED <<gens, policy, volatile>>

\* LedgerIntent::Retire: the tombstone, for the leaf and for its nonce.
Retire(owner, expected) ==
    /\ expected.owner = owner
    /\ RequireExact(expected)
    /\ expected.phase # "retired"
    /\ HasNextEpoch(expected)
    /\ SetLeaf(owner, Successor(expected, expected.epoch + 1, owner, "retired", TRUE))
    /\ expected.generation # None =>
           gens[expected.generation] # None /\ gens[expected.generation].phase # "retired"
    /\ SetGenerationPhase(expected, "retired")
    /\ UNCHANGED <<policy, volatile>>

\* LedgerIntent::Release: the endpoint goes away, the terminal lives on.
Release(owner, expected) ==
    /\ expected.owner = owner
    /\ RequireExact(expected)
    /\ expected.phase = "active"
    /\ HasNextEpoch(expected)
    /\ SetLeaf(owner, Successor(expected, expected.epoch + 1, None, "detached",
                                expected.require_binding))
    /\ UNCHANGED <<gens, policy, volatile>>

\* LedgerIntent::Adopt: another endpoint takes over, on the host's evidence.
Adopt(new_owner, expected, host) ==
    /\ RequireExact(expected)
    /\ expected.phase \in {"active", "detached", "authorized_birth"}
    /\ Proves(host, expected)
    /\ GenerationLive(expected, TRUE)
    /\ HasNextEpoch(expected)
    /\ SetLeaf(new_owner, Successor(expected, expected.epoch + 1, new_owner, "active",
                                    expected.require_binding))
    /\ SetGenerationPhase(expected, "active")
    /\ UNCHANGED <<policy, volatile>>

\* LedgerIntent::AdoptLegacy: the same for a terminal born before nonces.
AdoptLegacy(new_owner, expected) ==
    /\ RequireExact(expected)
    /\ expected.generation = None
    /\ ~expected.require_binding
    /\ expected.phase \in {"active", "detached"}
    /\ HasNextEpoch(expected)
    /\ SetLeaf(new_owner, Successor(expected, expected.epoch + 1, new_owner, "active",
                                    expected.require_binding))
    /\ UNCHANGED <<gens, policy, volatile>>

\* LedgerIntent::ObserveExisting: a host reports a nonce the ledger has
\* never seen, on a leaf without history.
ObserveExisting(new_owner, host) ==
    LET c == [key |-> host.key, runtime |-> host.runtime, generation |-> host.generation,
              epoch |-> 1, owner |-> new_owner, phase |-> "active", require_binding |-> TRUE]
    IN  /\ leaf[host.key] = None
        /\ Proves(host, c)
        /\ CanInsertGeneration(host.generation)
        /\ gens' = [gens EXCEPT ![host.generation] = NewGeneration(c, TRUE, "active")]
        /\ SetLeaf(new_owner, c)
        /\ factories' = [factories EXCEPT ![host.generation] = 1]
        /\ UNCHANGED <<policy, permits, inflight, effects>>

\* Faulty variant: the panel's policy is not consulted.
ImportLegacyAnyPanel(owner, key, runtime, single_original_root) ==
    LET p == PanelOf[key]
        c == [key |-> key, runtime |-> runtime, generation |-> None, epoch |-> 1,
              owner |-> owner, phase |-> "active", require_binding |-> FALSE]
    IN  /\ leaf[key] = None
        /\ SetLeaf(owner, c)
        /\ policy' = IF single_original_root /\ policy[p] = None
                     THEN [policy EXCEPT ![p] =
                              [root |-> key, alias_epoch |-> 1, closed |-> FALSE]]
                     ELSE policy
        /\ UNCHANGED <<gens, volatile>>

\* LedgerIntent::ImportLegacy: a terminal without nonce, unless its panel's
\* legacy alias was closed.
ImportLegacy(owner, key, runtime, single_original_root) ==
    LET p == PanelOf[key]
        c == [key |-> key, runtime |-> runtime, generation |-> None, epoch |-> 1,
              owner |-> owner, phase |-> "active", require_binding |-> FALSE]
    IN  /\ leaf[key] = None
        /\ policy[p] # None => ~policy[p].closed
        /\ SetLeaf(owner, c)
        /\ policy' = IF single_original_root /\ policy[p] = None
                     THEN [policy EXCEPT ![p] =
                              [root |-> key, alias_epoch |-> 1, closed |-> FALSE]]
                     ELSE policy
        /\ UNCHANGED <<gens, volatile>>

\* LedgerIntent::CloseLegacyAlias: the caller names the alias epoch and the
\* root it read, or that it found no policy.
CloseLegacyAlias(panel, expected_epoch, root) ==
    LET old == policy[panel]
    IN  /\ IF expected_epoch = None
           THEN old = None
           ELSE /\ old # None
                /\ old.alias_epoch = expected_epoch
                /\ old.root = root
                /\ ~old.closed
                /\ expected_epoch < MaxEpoch
        /\ policy' = [policy EXCEPT ![panel] =
                         [root |-> root, closed |-> TRUE,
                          alias_epoch |-> IF expected_epoch = None THEN 1
                                          ELSE expected_epoch + 1]]
        /\ UNCHANGED <<leaf, gens, held, volatile>>

-----------------------------------------------------------------------------
(* The one-shot birth: consume the nonce in one transaction, run the PTY   *)
(* factory under the write lock of another.                                *)

\* Faulty variant: the nonce is consumed whether or not it already was.
ConsumeBirthAgain(expected) ==
    /\ RequireExact(expected)
    /\ expected.phase = "authorized_birth" /\ expected.owner # None
    /\ GenerationLive(expected, FALSE)
    /\ LET g == gens[expected.generation]
       IN  /\ g.phase = "authorized_birth"
           /\ g.birth_owner = expected.owner /\ g.born_epoch = expected.epoch
    /\ UpdateGeneration(expected.generation, TRUE, "authorized_birth")
    /\ permits' = permits \cup {expected}
    /\ UNCHANGED <<leaf, policy, held, inflight, factories, effects>>

\* consume_birth_once, when the UPDATE matches the row.
ConsumeBirthOnce(expected) ==
    /\ RequireExact(expected)
    /\ expected.phase = "authorized_birth" /\ expected.owner # None
    /\ GenerationLive(expected, FALSE)
    /\ LET g == gens[expected.generation]
       IN  /\ g.phase = "authorized_birth" /\ ~g.spawn_consumed
           /\ g.birth_owner = expected.owner /\ g.born_epoch = expected.epoch
    /\ UpdateGeneration(expected.generation, TRUE, "authorized_birth")
    /\ permits' = permits \cup {expected}
    /\ UNCHANGED <<leaf, policy, held, inflight, factories, effects>>

\* Faulty variant: the factory trusts the nonce consumed earlier.
ValidateSpawnTrustingPermit(expected) == TRUE

\* validate_spawn.
ValidateSpawn(expected) ==
    /\ RequireExact(expected)
    /\ expected.phase = "authorized_birth"
    /\ GenerationLive(expected, TRUE)

\* SpawnPermit::run_guarded: the permit is used up whether or not the birth
\* is still authorized; only then does the factory run.
RunGuarded(permit) ==
    /\ permit \in permits
    /\ permits' = permits \ {permit}
    /\ factories' = IF ValidateSpawn(permit)
                    THEN [factories EXCEPT ![permit.generation] = factories[permit.generation] + 1]
                    ELSE factories
    /\ UNCHANGED <<leaf, gens, policy, held, inflight, effects>>

\* The host dies between the two transactions: the nonce stays consumed.
LosePermit(permit) ==
    /\ permit \in permits
    /\ permits' = permits \ {permit}
    /\ UNCHANGED <<leaf, gens, policy, held, inflight, factories, effects>>

-----------------------------------------------------------------------------
(* Owned effects: resolve a query to a context, validate it again inside   *)
(* the transaction that has the effect.                                    *)

\* validate_owned.
ValidateOwned(context) ==
    LET c == context.claim
    IN  /\ leaf[c.key] # None
        /\ SameAuthority(leaf[c.key], c)
        /\ c.owner # None
        /\ IF c.generation # None
           THEN context.alias_epoch = None /\ GenerationLive(c, TRUE)
           ELSE /\ ~c.require_binding /\ c.phase = "active"
                /\ context.alias_epoch # None =>
                       policy[PanelOf[c.key]] =
                           [root |-> c.key, alias_epoch |-> context.alias_epoch,
                            closed |-> FALSE]

\* resolve_context for QueryIdentity::Bound.
ResolveBound(owner, key, runtime, generation) ==
    LET context == [claim |-> leaf[key], alias_epoch |-> None]
    IN  /\ leaf[key] # None
        /\ leaf[key].runtime = runtime
        /\ leaf[key].generation = generation
        /\ leaf[key].owner = owner
        /\ ValidateOwned(context)
        /\ inflight' = [inflight EXCEPT ![owner] = context]
        /\ UNCHANGED <<leaf, gens, policy, held, permits, factories, effects>>

\* The leaves a legacy query of this endpoint may mean.
LegacyLeaves(owner, panel) ==
    {k \in Keys : /\ PanelOf[k] = panel
                  /\ leaf[k] # None
                  /\ leaf[k].owner = owner
                  /\ leaf[k].phase = "active"
                  /\ leaf[k].generation = None
                  /\ ~leaf[k].require_binding}

\* resolve_context for QueryIdentity::LegacyTarget naming its leaf.
ResolveLegacyLeaf(owner, key) ==
    LET context == [claim |-> leaf[key], alias_epoch |-> None]
    IN  /\ key \in LegacyLeaves(owner, PanelOf[key])
        /\ ValidateOwned(context)
        /\ inflight' = [inflight EXCEPT ![owner] = context]
        /\ UNCHANGED <<leaf, gens, policy, held, permits, factories, effects>>

\* resolve_context for QueryIdentity::LegacyTarget without a leaf: only the
\* root of an open alias can be meant.
ResolveLegacyRoot(owner, panel) ==
    LET alias == policy[panel]
        context == [claim |-> leaf[alias.root], alias_epoch |-> alias.alias_epoch]
    IN  /\ alias # None
        /\ ~alias.closed
        /\ alias.root \in LegacyLeaves(owner, panel)
        /\ ValidateOwned(context)
        /\ inflight' = [inflight EXCEPT ![owner] = context]
        /\ UNCHANGED <<leaf, gens, policy, held, permits, factories, effects>>

\* Every store operation that carries an OwnedHookContext validates it first
\* in its own transaction; the effect commits or the work is refused.
OwnedEffect(owner) ==
    LET context == inflight[owner]
        c == context.claim
    IN  /\ context # None
        /\ inflight' = [inflight EXCEPT ![owner] = None]
        /\ effects' = IF ValidateOwned(context)
                      THEN [effects EXCEPT ![c.key] = [epoch |-> c.epoch, owner |-> c.owner]]
                      ELSE effects
        /\ UNCHANGED <<leaf, gens, policy, held, permits, factories>>

-----------------------------------------------------------------------------
\* MemoryStore::hook_claim: an endpoint reads the current claim of a leaf.
HookClaim(owner, key) ==
    /\ held' = [held EXCEPT ![owner] = leaf[key]]
    /\ UNCHANGED <<leaf, gens, policy, permits, inflight, factories, effects>>

\* The endpoint's process dies: what it remembered is gone, its claims stay.
EndpointCrash(owner) ==
    /\ held[owner] # None \/ inflight[owner] # None
    /\ held' = [held EXCEPT ![owner] = None]
    /\ inflight' = [inflight EXCEPT ![owner] = None]
    /\ UNCHANGED <<leaf, gens, policy, permits, factories, effects>>

\* What a host can testify to: a birth whose factory ran, with the identity
\* the factory was given.
HostReports(host) ==
    /\ host.generation # None
    /\ factories[host.generation] > 0
    /\ gens[host.generation] # None
    /\ host.key = gens[host.generation].key
    /\ host.runtime = gens[host.generation].runtime

\* Actions of an endpoint on the claim it holds.
ClaimStep(o) ==
    /\ held[o] # None
    /\ \/ \E host \in Evidence : HostReports(host) /\ Install(o, held[o], host)
       \/ FenceRetire(o, held[o])
       \/ Retire(o, held[o])
       \/ Release(o, held[o])
       \/ \E host \in Evidence : HostReports(host) /\ Adopt(o, held[o], host)
       \/ AdoptLegacy(o, held[o])
       \/ ConsumeBirthOnce(held[o])

Next ==
    \/ \E o \in Owners :
          \/ ClaimStep(o)
          \/ \E k \in Keys, r \in Runtimes, g \in Generations :
                Reserve(o, None, k, r, g) \/ Reserve(o, held[o], k, r, g)
          \/ \E host \in Evidence : ObserveExisting(o, host)
          \/ \E k \in Keys, r \in Runtimes, single \in BOOLEAN :
                ImportLegacy(o, k, r, single)
          \/ \E k \in Keys, r \in Runtimes, g \in Generations : ResolveBound(o, k, r, g)
          \/ \E k \in Keys : ResolveLegacyLeaf(o, k)
          \/ \E p \in Panels : ResolveLegacyRoot(o, p)
          \/ OwnedEffect(o)
          \/ \E k \in Keys : HookClaim(o, k)
          \/ EndpointCrash(o)
    \/ \E p \in Panels, root \in Keys, e \in (1..MaxEpoch) \cup {None} :
          PanelOf[root] = p /\ CloseLegacyAlias(p, e, root)
    \/ \E permit \in permits : RunGuarded(permit) \/ LosePermit(permit)

Spec == Init /\ [][Next]_vars

-----------------------------------------------------------------------------
(* Properties.                                                             *)

\* The two tables agree: the claim of a leaf names a generation registered
\* for exactly that leaf and runtime, retired when the leaf is; a generation
\* no claim names any more is retired, so a leaf has at most one live birth
\* and a replaced child can never prove itself again.
OneLiveBirth ==
    /\ \A k \in Keys : leaf[k] # None /\ leaf[k].generation # None =>
          LET g == gens[leaf[k].generation]
          IN  /\ g # None
              /\ g.key = k /\ g.runtime = leaf[k].runtime
              /\ (g.phase = "retired") <=> (leaf[k].phase = "retired")
    /\ \A g \in Generations : gens[g] # None /\ gens[g].phase # "retired" =>
          leaf[gens[g].key] # None /\ leaf[gens[g].key].generation = g

\* The factory of a nonce runs at most once, and only after the nonce was
\* consumed, whatever crashes, retries or takeovers surround it.
SingleFactory ==
    \A g \in Generations :
        /\ factories[g] <= 1
        /\ factories[g] = 1 => gens[g] # None /\ gens[g].spawn_consumed
        /\ (\E c \in permits : c.generation = g) => factories[g] = 0

Fenced(g) ==
    /\ gens[g] # None
    /\ \/ gens[g].phase = "retired"
       \/ LET c == leaf[gens[g].key]
          IN  c # None /\ c.generation = g /\ c.phase \in {"retiring", "retired"}

\* A close that finds the leaf fenced and the nonce unconsumed may report the
\* terminal killed: from then on no step consumes the nonce or runs its
\* factory, even with a permit or a spawn request still on its way.  A fenced
\* nonce that was consumed starts no child any more either.
NoLateChild ==
    [][\A g \in Generations : Fenced(g) =>
          /\ factories'[g] = factories[g]
          /\ gens'[g].spawn_consumed = gens[g].spawn_consumed
          /\ gens'[g] # None /\ Fenced(g)']_vars

\* An endpoint that lost a leaf (fenced, released, adopted by another, even
\* if it adopted the leaf back since) has no effect on it with what it
\* resolved before: an effect is committed for the live claim of the moment,
\* under an epoch no other endpoint had an effect under, and never after an
\* effect of a later epoch.
EffectsByOwnerOnly ==
    [][\A k \in Keys : effects'[k] # effects[k] =>
          /\ leaf[k] # None /\ LiveClaim(leaf[k])
          /\ effects'[k] = [epoch |-> leaf[k].epoch, owner |-> leaf[k].owner]
          /\ effects[k] # None => effects[k].epoch < leaf[k].epoch]_vars

\* Splitting a panel closes its legacy alias: from then on no leaf of the
\* panel enters the ledger unbound, and no work resolved through the alias
\* before the close commits after it.
AliasClosedForGood ==
    [][\A p \in Panels : policy[p] # None /\ policy[p].closed =>
          /\ \A k \in Keys : PanelOf[k] = p /\ leaf[k] = None /\ leaf'[k] # None =>
                leaf'[k].require_binding
          /\ \A o \in Owners :
                /\ inflight[o] # None
                /\ inflight[o].alias_epoch # None
                /\ PanelOf[inflight[o].claim.key] = p
                /\ inflight'[o] = None
                => effects' = effects]_vars

\* No transition asks for an update one of the sticky triggers of migrate_v3
\* would abort: a retired nonce is never touched again, a birth is immutable,
\* epochs and binding requirements only grow, a closed alias stays closed
\* and keeps its root, and no row disappears.
TriggersNeverFire ==
    [][/\ \A g \in Generations : gens[g] # None =>
             /\ gens'[g] # None
             /\ gens[g].phase = "retired" => gens'[g] = gens[g]
             /\ gens[g].spawn_consumed => gens'[g].spawn_consumed
             /\ gens'[g].key = gens[g].key /\ gens'[g].runtime = gens[g].runtime
             /\ gens'[g].birth_owner = gens[g].birth_owner
             /\ gens'[g].born_epoch = gens[g].born_epoch
       /\ \A k \in Keys : leaf[k] # None =>
             /\ leaf'[k] # None
             /\ leaf'[k].epoch >= leaf[k].epoch
             /\ leaf[k].require_binding => leaf'[k].require_binding
       /\ \A p \in Panels : policy[p] # None =>
             /\ policy'[p] # None
             /\ policy[p].closed => policy'[p].closed
             /\ policy'[p].alias_epoch >= policy[p].alias_epoch
             /\ policy'[p].root = policy[p].root]_vars

\* What the ledger has closed stays closed, for rows and for aliases.
ClosedForGood == AliasClosedForGood /\ TriggersNeverFire
=============================================================================
