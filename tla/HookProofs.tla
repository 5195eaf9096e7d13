----------------------------- MODULE HookProofs -----------------------------
(***************************************************************************)
(* Proofs about HookLedger, and about HookRuntime on top of it, for every  *)
(* set of leaves, births, runtimes and endpoints.                          *)
(*                                                                         *)
(* The first part is about the transactions alone: whatever order they     *)
(* commit in, the two tables agree, a factory runs once, effects are the   *)
(* owner's.  The second part shows that every step of the runtime is one   *)
(* of those transactions or leaves the ledger's rows alone, so that the    *)
(* ledger's invariants carry over, and proves what the runtime adds: who   *)
(* holds an open gate, and that effects end before a leaf is given up.     *)
(* The last part is the end of a birth: one that is retired or cancelled   *)
(* has no child, and the app ends only once its own children are gone.     *)
(***************************************************************************)
EXTENDS HookRuntime, TLAPS

USE LedgerAssumption, NullAssumption

-----------------------------------------------------------------------------
(* The steps of the ledger, once for all the proofs below.                 *)

\* A transaction on the claim c, by the endpoint o.
Transaction(o, c) ==
    \/ \E host \in Evidence : Install(o, c, host)
    \/ FenceRetire(o, c)
    \/ Retire(o, c)
    \/ Release(o, c)
    \/ \E host \in Evidence : Adopt(o, c, host)
    \/ AdoptLegacy(o, c)
    \/ ConsumeBirthOnce(c)

\* A step that leaves both tables of claims alone and runs no factory.
Quiet == UNCHANGED <<leaf, gens, permits, factories, effects>>

\* An effect is validated and committed.
Commits(o) ==
    LET context == inflight[o]
        c == context.claim
    IN  /\ context # None
        /\ effects' = IF ValidateOwned(context)
                      THEN [effects EXCEPT ![c.key] = [epoch |-> c.epoch, owner |-> c.owner]]
                      ELSE effects
        /\ UNCHANGED <<leaf, gens, permits, factories>>

LedgerStep ==
    \/ Quiet
    \/ \E o \in Owners, c \in Claim : Transaction(o, c)
    \/ \E o \in Owners, e \in Claim \cup {None}, k \in Keys, r \in Runtimes,
          g \in Generations : Reserve(o, e, k, r, g)
    \/ \E o \in Owners, host \in Evidence : ObserveExisting(o, host)
    \/ \E o \in Owners, k \in Keys, r \in Runtimes, single \in BOOLEAN :
          ImportLegacy(o, k, r, single)
    \/ \E o \in Owners : Commits(o)
    \/ \E permit \in permits : RunGuarded(permit) \/ LosePermit(permit)

(* A transaction writes rows of the right type: the epoch guard of         *)
(* next_epoch keeps every written epoch within MaxEpoch.                   *)
LEMMA TransactionType ==
    ASSUME TypeOK, NEW o \in Owners, NEW c \in Claim, Transaction(o, c)
    PROVE  TypeOK'
<1> USE DEF TypeOK
<1>1. ASSUME NEW host \in Evidence, Install(o, c, host) PROVE TypeOK'
  BY <1>1 DEF Install, SetLeaf, Successor, SetGenerationPhase, UpdateGeneration, GenerationLive, Claim,
     Generation, volatile, ClaimPhase
<1>2. CASE FenceRetire(o, c)
  BY <1>2 DEF FenceRetire, SetLeaf, Successor, HasNextEpoch, Claim, ClaimPhase, volatile
<1>3. CASE Retire(o, c)
  BY <1>3 DEF Retire, SetLeaf, Successor, SetGenerationPhase, UpdateGeneration, HasNextEpoch, Claim,
     Generation, ClaimPhase, volatile
<1>4. CASE Release(o, c)
  BY <1>4 DEF Release, SetLeaf, Successor, HasNextEpoch, Claim, ClaimPhase, volatile
<1>5. ASSUME NEW host \in Evidence, Adopt(o, c, host) PROVE TypeOK'
  BY <1>5 DEF Adopt, SetLeaf, Successor, SetGenerationPhase, UpdateGeneration, GenerationLive,
     HasNextEpoch, Claim, Generation, ClaimPhase, volatile
<1>6. CASE AdoptLegacy(o, c)
  BY <1>6 DEF AdoptLegacy, SetLeaf, Successor, HasNextEpoch, Claim, ClaimPhase, volatile
<1>7. CASE ConsumeBirthOnce(c)
  BY <1>7, SMTT(40), ZenonT(40) DEF ConsumeBirthOnce, UpdateGeneration, GenerationLive, Generation
<1> QED
  BY <1>1, <1>2, <1>3, <1>4, <1>5, <1>6, <1>7 DEF Transaction

(* So does a reservation.                                                  *)
LEMMA ReserveType ==
    ASSUME TypeOK, NEW o \in Owners, NEW e \in Claim \cup {None}, NEW k \in Keys,
           NEW r \in Runtimes, NEW g \in Generations, Reserve(o, e, k, r, g)
    PROVE  TypeOK'
<1> USE DEF TypeOK
<1> DEFINE c == [key |-> k, runtime |-> r, generation |-> g,
                 epoch |-> IF e = None THEN 1 ELSE e.epoch + 1, owner |-> o,
                 phase |-> "authorized_birth", require_binding |-> TRUE]
<1>1. c \in Claim
  BY DEF Reserve, HasNextEpoch, Claim, ClaimPhase
<1>2. NewGeneration(c, FALSE, "authorized_birth") \in Generation
  BY <1>1 DEF NewGeneration, Generation, Claim
<1> QED
  BY <1>1, <1>2 DEF Reserve, SetLeaf, Successor, volatile

(* And a query resolved to a context.                                      *)
LEMMA ResolveType ==
    ASSUME TypeOK, NEW o \in Owners, NEW k \in Keys, NEW r \in Runtimes,
           NEW g \in Generations, ResolveBound(o, k, r, g)
    PROVE  TypeOK'
BY DEF ResolveBound, Context, TypeOK

(* And an effect.                                                          *)
LEMMA CommitType ==
    ASSUME TypeOK, NEW o \in Owners, Commits(o)
    PROVE  effects' \in [Keys -> Effect \cup {None}]
<1> DEFINE c == inflight[o].claim
<1>1. c \in Claim
  BY DEF Commits, Context, TypeOK
<1>2. ValidateOwned(inflight[o]) => [epoch |-> c.epoch, owner |-> c.owner] \in Effect
  BY <1>1 DEF ValidateOwned, Claim, Effect
<1>3. c.key \in Keys
  BY <1>1 DEF Claim
<1> QED
  BY <1>2, <1>3 DEF Commits, TypeOK

(* And a permit that is used up.                                           *)
LEMMA PermitType ==
    ASSUME TypeOK, NEW permit \in permits, RunGuarded(permit) \/ LosePermit(permit)
    PROVE  TypeOK'
BY DEF RunGuarded, LosePermit, ValidateSpawn, GenerationLive, Claim, TypeOK

(* Each step of the ledger writes rows of the right type.                  *)
LEMMA TypeStep == TypeOK /\ [Next]_vars => TypeOK'
<1> SUFFICES ASSUME TypeOK, [Next]_vars PROVE TypeOK'
  OBVIOUS
<1> USE DEF TypeOK
<1>1. ASSUME NEW o \in Owners, ClaimStep(o) PROVE TypeOK'
  BY <1>1, TransactionType DEF ClaimStep, Transaction
<1>2. ASSUME NEW o \in Owners, NEW k \in Keys, NEW r \in Runtimes, NEW g \in Generations,
             Reserve(o, None, k, r, g) \/ Reserve(o, held[o], k, r, g)
      PROVE TypeOK'
  BY <1>2, ReserveType
<1>3. ASSUME NEW o \in Owners, NEW host \in Evidence, ObserveExisting(o, host) PROVE TypeOK'
  <2> DEFINE c == [key |-> host.key, runtime |-> host.runtime, generation |-> host.generation,
                   epoch |-> 1, owner |-> o, phase |-> "active", require_binding |-> TRUE]
  <2>1. c \in Claim /\ host.generation \in Generations
    BY <1>3 DEF ObserveExisting, Proves, Evidence, Claim, ClaimPhase
  <2>2. NewGeneration(c, TRUE, "active") \in Generation
    BY <2>1 DEF NewGeneration, Generation, Claim
  <2> QED
    BY <1>3, <2>1, <2>2 DEF ObserveExisting, SetLeaf
<1>4. ASSUME NEW o \in Owners, NEW k \in Keys, NEW r \in Runtimes, NEW single \in BOOLEAN,
             ImportLegacy(o, k, r, single)
      PROVE TypeOK'
  BY <1>4 DEF ImportLegacy, SetLeaf, Successor, Claim, ClaimPhase, Policy, volatile
<1>5. ASSUME NEW o \in Owners, NEW k \in Keys, NEW r \in Runtimes, NEW g \in Generations,
             ResolveBound(o, k, r, g)
      PROVE TypeOK'
  BY <1>5, ResolveType
<1>6. ASSUME NEW o \in Owners, NEW k \in Keys, ResolveLegacyLeaf(o, k) PROVE TypeOK'
  BY <1>6 DEF ResolveLegacyLeaf, LegacyLeaves, Context
<1>7. ASSUME NEW o \in Owners, NEW p \in Panels, ResolveLegacyRoot(o, p) PROVE TypeOK'
  <2>1. /\ policy[p] \in Policy
        /\ policy[p].root \in Keys /\ leaf[policy[p].root] # None
    BY <1>7 DEF ResolveLegacyRoot, LegacyLeaves
  <2>2. [claim |-> leaf[policy[p].root], alias_epoch |-> policy[p].alias_epoch] \in Context
    BY <2>1 DEF Policy, Context
  <2> QED
    BY <1>7, <2>2 DEF ResolveLegacyRoot
<1>8. ASSUME NEW o \in Owners, OwnedEffect(o) PROVE TypeOK'
  <2>1. Commits(o)
    BY <1>8 DEF OwnedEffect, Commits
  <2>2. effects' \in [Keys -> Effect \cup {None}]
    BY <2>1, CommitType
  <2> QED
    BY <1>8, <2>2 DEF OwnedEffect
<1>9. ASSUME NEW o \in Owners, NEW k \in Keys, HookClaim(o, k) PROVE TypeOK'
  BY <1>9 DEF HookClaim
<1>10. ASSUME NEW o \in Owners, EndpointCrash(o) PROVE TypeOK'
  BY <1>10 DEF EndpointCrash
<1>11. ASSUME NEW p \in Panels, NEW root \in Keys, NEW e \in (1..MaxEpoch) \cup {None},
              CloseLegacyAlias(p, e, root)
       PROVE TypeOK'
  BY <1>11 DEF CloseLegacyAlias, Policy, volatile
<1>12. ASSUME NEW permit \in permits, RunGuarded(permit) \/ LosePermit(permit) PROVE TypeOK'
  BY <1>12, PermitType
<1>13. CASE UNCHANGED vars
  BY <1>13 DEF vars
<1> QED
  BY <1>1, <1>2, <1>3, <1>4, <1>5, <1>6, <1>7, <1>8, <1>9, <1>10, <1>11, <1>12, <1>13
  DEF Next

(* Every column keeps its type in every reachable state.                   *)
THEOREM TypeCorrect == Spec => []TypeOK
<1>1. Init => TypeOK
  BY DEF Init, TypeOK
<1> QED
  BY <1>1, TypeStep, PTL DEF Spec

(* Every step of the ledger's specification is one of LedgerStep.          *)
LEMMA StepCases == TypeOK /\ [Next]_vars => LedgerStep
<1> SUFFICES ASSUME TypeOK, [Next]_vars PROVE LedgerStep
  OBVIOUS
<1>1. ASSUME NEW o \in Owners, ClaimStep(o)
      PROVE  \E c \in Claim : Transaction(o, c)
  <2>1. held[o] \in Claim
    BY <1>1 DEF ClaimStep, TypeOK
  <2> QED
    BY <1>1, <2>1 DEF ClaimStep, Transaction
<1>2. ASSUME NEW o \in Owners, NEW k \in Keys, NEW r \in Runtimes, NEW g \in Generations,
             Reserve(o, None, k, r, g) \/ Reserve(o, held[o], k, r, g)
      PROVE  \E e \in Claim \cup {None} : Reserve(o, e, k, r, g)
  BY <1>2 DEF TypeOK
<1>3. ASSUME NEW o \in Owners,
             \/ \E k \in Keys, r \in Runtimes, g \in Generations : ResolveBound(o, k, r, g)
             \/ \E k \in Keys : ResolveLegacyLeaf(o, k)
             \/ \E p \in Panels : ResolveLegacyRoot(o, p)
             \/ \E k \in Keys : HookClaim(o, k)
             \/ EndpointCrash(o)
      PROVE  Quiet
  BY <1>3 DEF ResolveBound, ResolveLegacyLeaf, ResolveLegacyRoot, HookClaim, EndpointCrash, Quiet
<1>4. ASSUME NEW p \in Panels, NEW root \in Keys, NEW e \in (1..MaxEpoch) \cup {None},
             CloseLegacyAlias(p, e, root)
      PROVE  Quiet
  BY <1>4 DEF CloseLegacyAlias, Quiet, volatile
<1>5. ASSUME UNCHANGED vars PROVE Quiet
  BY <1>5 DEF vars, Quiet
<1>6. ASSUME NEW o \in Owners, OwnedEffect(o) PROVE Commits(o)
  BY <1>6 DEF OwnedEffect, Commits
<1> QED
  BY <1>1, <1>2, <1>3, <1>4, <1>5, <1>6, Zenon DEF Next, LedgerStep

-----------------------------------------------------------------------------
(* What an UPDATE of a generation's row leaves in the table.               *)
LEMMA UpdatedRow ==
    ASSUME TypeOK, NEW g \in Generations, gens[g] # None, NEW consumed \in BOOLEAN,
           NEW phase \in {"authorized_birth", "active", "retired"},
           UpdateGeneration(g, consumed, phase)
    PROVE  /\ gens'[g] # None
           /\ gens'[g].key = gens[g].key
           /\ gens'[g].runtime = gens[g].runtime
           /\ gens'[g].birth_owner = gens[g].birth_owner
           /\ gens'[g].born_epoch = gens[g].born_epoch
           /\ gens'[g].spawn_consumed = consumed
           /\ gens'[g].phase = phase
           /\ \A h \in Generations : h # g => gens'[h] = gens[h]
<1> DEFINE row == [key |-> gens[g].key, runtime |-> gens[g].runtime,
                   birth_owner |-> gens[g].birth_owner, born_epoch |-> gens[g].born_epoch,
                   spawn_consumed |-> consumed, phase |-> phase]
<1>1. row \in Generation
  BY DEF TypeOK, Generation
<1>2. row # None
  BY <1>1
<1>3. gens' = [gens EXCEPT ![g] = row]
  BY DEF UpdateGeneration
<1>4. gens'[g] = row /\ \A h \in Generations : h # g => gens'[h] = gens[h]
  <2> HIDE DEF row
  <2> QED
    BY <1>3 DEF TypeOK
<1> QED
  BY <1>2, <1>4

(* What a transition that writes a successor of c leaves in the table.     *)
LEMMA WrittenClaim ==
    ASSUME TypeOK, NEW o \in Owners, NEW c \in Claim, NEW e \in 1..MaxEpoch,
           NEW w \in Owners \cup {None}, NEW ph \in ClaimPhase, NEW rb \in BOOLEAN,
           SetLeaf(o, Successor(c, e, w, ph, rb))
    PROVE  /\ c.key \in Keys
           /\ leaf'[c.key] # None
           /\ leaf'[c.key].generation = c.generation
           /\ leaf'[c.key].runtime = c.runtime
           /\ leaf'[c.key].epoch = e
           /\ leaf'[c.key].owner = w
           /\ leaf'[c.key].phase = ph
           /\ leaf'[c.key].require_binding = rb
           /\ \A j \in Keys : j # c.key => leaf'[j] = leaf[j]
<1> DEFINE d == Successor(c, e, w, ph, rb)
<1>1. d \in Claim
  BY DEF Successor, Claim
<1>2. d # None
  BY <1>1
<1>3. /\ d.key = c.key /\ d.generation = c.generation /\ d.runtime = c.runtime
      /\ d.epoch = e /\ d.owner = w /\ d.phase = ph /\ d.require_binding = rb
  BY DEF Successor
<1>4. c.key \in Keys
  BY DEF Claim
<1>5. leaf' = [leaf EXCEPT ![c.key] = d]
  BY <1>3 DEF SetLeaf
<1> HIDE DEF d
<1>6. leaf'[c.key] = d /\ \A j \in Keys : j # c.key => leaf'[j] = leaf[j]
  BY <1>4, <1>5 DEF TypeOK
<1> QED
  BY <1>2, <1>3, <1>4, <1>6

(* The claim of a leaf and its generation move together: a step that       *)
(* writes leaf k and the generation of its birth, and nothing else.        *)
LEMMA BirthMoves ==
    ASSUME TypeOK, OneLiveBirth,
           NEW k \in Keys,
           leaf[k] # None,
           leaf'[k] # None,
           leaf'[k].generation = leaf[k].generation,
           leaf'[k].runtime = leaf[k].runtime,
           \A j \in Keys : j # k => leaf'[j] = leaf[j],
           \A h \in Generations : h # leaf[k].generation => gens'[h] = gens[h],
           leaf[k].generation # None =>
               /\ gens'[leaf[k].generation] # None
               /\ gens'[leaf[k].generation].key = gens[leaf[k].generation].key
               /\ gens'[leaf[k].generation].runtime = gens[leaf[k].generation].runtime
               /\ (gens'[leaf[k].generation].phase = "retired") <=> (leaf'[k].phase = "retired")
    PROVE  OneLiveBirth'
<1> DEFINE c == leaf'[k]
<1>1. leaf[k].generation \in Generations \cup {None}
  BY DEF TypeOK, Claim
<1>2. ASSUME NEW j \in Keys, leaf'[j] # None, leaf'[j].generation # None
      PROVE  LET g == gens'[leaf'[j].generation]
             IN  /\ g # None
                 /\ g.key = j /\ g.runtime = leaf'[j].runtime
                 /\ (g.phase = "retired") <=> (leaf'[j].phase = "retired")
  <2>1. CASE j = k
    BY <1>1, <1>2, <2>1 DEF OneLiveBirth
  <2>2. CASE j # k
    <3>1. leaf'[j] = leaf[j] /\ leaf[j].generation \in Generations
      BY <1>1, <1>2, <2>2 DEF TypeOK, Claim
    <3>2. leaf[j].generation # c.generation
      BY <1>2, <3>1, <2>2 DEF OneLiveBirth
    <3> QED
      BY <1>2, <3>1, <3>2 DEF OneLiveBirth
  <2> QED
    BY <2>1, <2>2
<1>3. ASSUME NEW g \in Generations, gens'[g] # None, gens'[g].phase # "retired"
      PROVE  leaf'[gens'[g].key] # None /\ leaf'[gens'[g].key].generation = g
  <2>1. CASE g = c.generation
    BY <1>1, <1>3, <2>1 DEF OneLiveBirth
  <2>2. CASE g # c.generation
    <3>1. gens'[g] = gens[g] /\ gens[g].key \in Keys
      BY <1>3, <2>2 DEF TypeOK, Generation
    <3>2. gens[g].key # k
      BY <1>3, <3>1, <2>2 DEF OneLiveBirth
    <3> QED
      BY <1>1, <1>3, <3>1, <3>2 DEF OneLiveBirth
  <2> QED
    BY <2>1, <2>2
<1> QED
  BY <1>2, <1>3 DEF OneLiveBirth

(* The same for a step that puts a new birth on a fresh or a retired leaf. *)
LEMMA BirthRegisters ==
    ASSUME TypeOK, OneLiveBirth,
           NEW k \in Keys, NEW g \in Generations, NEW c, c # None, NEW new, new # None,
           leaf' = [leaf EXCEPT ![k] = c],
           gens' = [gens EXCEPT ![g] = new],
           leaf[k] # None => leaf[k].phase = "retired",
           gens[g] = None,
           c.generation = g,
           c.phase # "retired",
           new.key = k, new.runtime = c.runtime, new.phase # "retired"
    PROVE  OneLiveBirth'
<1>1. /\ leaf'[k] = c
      /\ \A j \in Keys : j # k => leaf'[j] = leaf[j]
      /\ gens'[g] = new
      /\ \A h \in Generations : h # g => gens'[h] = gens[h]
  BY DEF TypeOK
<1>2. ASSUME NEW j \in Keys, leaf'[j] # None, leaf'[j].generation # None
      PROVE  LET h == gens'[leaf'[j].generation]
             IN  /\ h # None
                 /\ h.key = j /\ h.runtime = leaf'[j].runtime
                 /\ (h.phase = "retired") <=> (leaf'[j].phase = "retired")
  <2>1. CASE j = k
    BY <1>1, <2>1
  <2>2. CASE j # k
    <3>1. leaf'[j] = leaf[j] /\ leaf[j].generation \in Generations
      BY <1>1, <1>2, <2>2 DEF TypeOK, Claim
    <3>2. leaf[j].generation # g
      BY <1>2, <3>1 DEF OneLiveBirth
    <3> QED
      BY <1>1, <1>2, <3>1, <3>2 DEF OneLiveBirth
  <2> QED
    BY <2>1, <2>2
<1>3. ASSUME NEW h \in Generations, gens'[h] # None, gens'[h].phase # "retired"
      PROVE  leaf'[gens'[h].key] # None /\ leaf'[gens'[h].key].generation = h
  <2>1. CASE h = g
    BY <1>1, <2>1
  <2>2. CASE h # g
    <3>1. gens'[h] = gens[h] /\ gens[h].key \in Keys
      BY <1>1, <1>3, <2>2 DEF TypeOK, Generation
    <3>2. gens[h].key # k
      BY <1>3, <3>1 DEF OneLiveBirth
    <3> QED
      BY <1>1, <1>3, <3>1, <3>2 DEF OneLiveBirth
  <2> QED
    BY <2>1, <2>2
<1> QED
  BY <1>2, <1>3 DEF OneLiveBirth

(* Each transition keeps the two tables in agreement.                      *)
LEMMA OneLiveBirthStep == TypeOK /\ OneLiveBirth /\ LedgerStep => OneLiveBirth'
<1> SUFFICES ASSUME TypeOK, OneLiveBirth, LedgerStep PROVE OneLiveBirth'
  OBVIOUS
<1>1. CASE Quiet
  BY <1>1 DEF Quiet, OneLiveBirth
<1>2. ASSUME NEW o \in Owners, NEW c \in Claim, NEW host \in Evidence,
             Install(o, c, host) \/ Adopt(o, c, host)
      PROVE OneLiveBirth'
  <2>1. /\ leaf[c.key] = c
        /\ c.generation \in Generations /\ gens[c.generation] # None
        /\ UpdateGeneration(c.generation, gens[c.generation].spawn_consumed, "active")
    BY <1>2 DEF Install, Adopt, RequireExact, GenerationLive, SetGenerationPhase, Claim
  <2>2. gens[c.generation].spawn_consumed \in BOOLEAN /\ c.require_binding \in BOOLEAN
    BY <2>1 DEF TypeOK, Generation, Claim
  <2>3. PICK e \in 1..MaxEpoch : SetLeaf(o, Successor(c, e, o, "active", c.require_binding))
    <3>1. c.epoch \in 1..MaxEpoch /\ (HasNextEpoch(c) => c.epoch + 1 \in 1..MaxEpoch)
      BY DEF Claim, HasNextEpoch
    <3> QED
      BY <1>2, <3>1 DEF Install, Adopt
  <2>4. /\ c.key \in Keys
        /\ leaf'[c.key] # None
        /\ leaf'[c.key].generation = c.generation
        /\ leaf'[c.key].runtime = c.runtime
        /\ leaf'[c.key].phase = "active"
        /\ \A j \in Keys : j # c.key => leaf'[j] = leaf[j]
    BY <2>2, <2>3, WrittenClaim DEF ClaimPhase
  <2>5. /\ gens'[c.generation] # None
        /\ gens'[c.generation].key = gens[c.generation].key
        /\ gens'[c.generation].runtime = gens[c.generation].runtime
        /\ gens'[c.generation].phase = "active"
        /\ \A h \in Generations : h # c.generation => gens'[h] = gens[h]
    BY <2>1, <2>2, UpdatedRow
  <2> QED
    BY <2>1, <2>4, <2>5, BirthMoves
<1>3. ASSUME NEW o \in Owners, NEW c \in Claim,
             FenceRetire(o, c) \/ Release(o, c) \/ AdoptLegacy(o, c)
      PROVE OneLiveBirth'
  <2>1. /\ leaf[c.key] = c /\ c.phase # "retired"
        /\ gens' = gens
        /\ HasNextEpoch(c)
    BY <1>3 DEF FenceRetire, Release, AdoptLegacy, RequireExact, LiveClaim
  <2>2. c.epoch + 1 \in 1..MaxEpoch /\ c.require_binding \in BOOLEAN
    BY <2>1 DEF HasNextEpoch, Claim
  <2>3. PICK w \in Owners \cup {None}, ph \in ClaimPhase \ {"retired"}, rb \in BOOLEAN :
            SetLeaf(o, Successor(c, c.epoch + 1, w, ph, rb))
    <3>1. {"retiring", "detached", "active"} \subseteq ClaimPhase \ {"retired"}
      BY DEF ClaimPhase
    <3>2. \/ SetLeaf(o, Successor(c, c.epoch + 1, o, "retiring", TRUE))
          \/ SetLeaf(o, Successor(c, c.epoch + 1, None, "detached", c.require_binding))
          \/ SetLeaf(o, Successor(c, c.epoch + 1, o, "active", c.require_binding))
      BY <1>3 DEF FenceRetire, Release, AdoptLegacy
    <3> QED
      BY <2>2, <3>1, <3>2, Zenon
  <2>4. /\ c.key \in Keys
        /\ leaf'[c.key] # None
        /\ leaf'[c.key].generation = c.generation
        /\ leaf'[c.key].runtime = c.runtime
        /\ leaf'[c.key].phase # "retired"
        /\ \A j \in Keys : j # c.key => leaf'[j] = leaf[j]
    BY <2>2, <2>3, WrittenClaim
  <2>5. c.generation # None =>
            /\ gens[c.generation] # None
            /\ gens[c.generation].phase # "retired"
    BY <2>1, <2>4 DEF OneLiveBirth
  <2> QED
    BY <2>1, <2>4, <2>5, BirthMoves
<1>4. ASSUME NEW o \in Owners, NEW c \in Claim, Retire(o, c) PROVE OneLiveBirth'
  <2>1. /\ leaf[c.key] = c
        /\ SetGenerationPhase(c, "retired")
        /\ c.generation # None => gens[c.generation] # None
        /\ SetLeaf(o, Successor(c, c.epoch + 1, o, "retired", TRUE))
    BY <1>4 DEF Retire, RequireExact
  <2>2. c.epoch + 1 \in 1..MaxEpoch /\ c.generation \in Generations \cup {None}
    BY <1>4 DEF Retire, HasNextEpoch, Claim
  <2>3. /\ c.key \in Keys
        /\ leaf'[c.key] # None
        /\ leaf'[c.key].generation = c.generation
        /\ leaf'[c.key].runtime = c.runtime
        /\ leaf'[c.key].phase = "retired"
        /\ \A j \in Keys : j # c.key => leaf'[j] = leaf[j]
    <3>1. "retired" \in ClaimPhase /\ TRUE \in BOOLEAN /\ o \in Owners \cup {None}
      BY DEF ClaimPhase
    <3> QED
      BY <2>1, <2>2, <3>1, WrittenClaim, ZenonT(40)
  <2>4. CASE c.generation = None
    <3>1. gens' = gens
      BY <2>1, <2>4 DEF SetGenerationPhase
    <3> QED
      BY <2>1, <2>3, <2>4, <3>1, BirthMoves
  <2>5. CASE c.generation # None
    <3>1. /\ UpdateGeneration(c.generation, gens[c.generation].spawn_consumed, "retired")
          /\ gens[c.generation].spawn_consumed \in BOOLEAN
      BY <2>1, <2>2, <2>5 DEF SetGenerationPhase, TypeOK, Generation
    <3>2. /\ gens'[c.generation] # None
          /\ gens'[c.generation].key = gens[c.generation].key
          /\ gens'[c.generation].runtime = gens[c.generation].runtime
          /\ gens'[c.generation].phase = "retired"
          /\ \A h \in Generations : h # c.generation => gens'[h] = gens[h]
      BY <2>1, <2>2, <2>5, <3>1, UpdatedRow
    <3> QED
      BY <2>1, <2>3, <2>5, <3>2, BirthMoves
  <2> QED
    BY <2>4, <2>5
<1>5. ASSUME NEW c \in Claim, ConsumeBirthOnce(c) PROVE OneLiveBirth'
  <2>1. /\ c.generation \in Generations /\ gens[c.generation] # None
        /\ gens[c.generation].phase = "authorized_birth"
        /\ UpdateGeneration(c.generation, TRUE, "authorized_birth")
        /\ leaf' = leaf
    BY <1>5 DEF ConsumeBirthOnce, GenerationLive, Claim
  <2>2. /\ gens'[c.generation] # None
        /\ gens'[c.generation].key = gens[c.generation].key
        /\ gens'[c.generation].runtime = gens[c.generation].runtime
        /\ gens'[c.generation].phase = "authorized_birth"
        /\ \A h \in Generations : h # c.generation => gens'[h] = gens[h]
    BY <2>1, UpdatedRow
  <2>3. \A k \in Keys : leaf[k] # None => leaf[k].generation \in Generations \cup {None}
    BY DEF TypeOK, Claim
  <2> QED
    BY <2>1, <2>2, <2>3 DEF OneLiveBirth
<1>6. ASSUME NEW o \in Owners, NEW e \in Claim \cup {None}, NEW k \in Keys, NEW r \in Runtimes,
             NEW g \in Generations, Reserve(o, e, k, r, g)
      PROVE OneLiveBirth'
  <2> DEFINE c == [key |-> k, runtime |-> r, generation |-> g,
                   epoch |-> IF e = None THEN 1 ELSE e.epoch + 1, owner |-> o,
                   phase |-> "authorized_birth", require_binding |-> TRUE]
             new == NewGeneration(c, FALSE, "authorized_birth")
  <2>1. c \in Claim
    BY <1>6 DEF Reserve, HasNextEpoch, Claim, ClaimPhase
  <2>2. new \in Generation
    BY <2>1 DEF NewGeneration, Generation, Claim
  <2>3. /\ leaf' = [leaf EXCEPT ![k] = c] /\ gens' = [gens EXCEPT ![g] = new]
        /\ leaf[k] # None => leaf[k].phase = "retired"
        /\ gens[g] = None
    BY <1>6 DEF Reserve, SetLeaf, CanInsertGeneration
  <2>4. /\ c # None /\ new # None
        /\ c.generation = g /\ c.phase # "retired"
        /\ new.key = k /\ new.runtime = c.runtime /\ new.phase # "retired"
    BY <2>1, <2>2 DEF NewGeneration
  <2> HIDE DEF c, new
  <2> QED
    BY <2>3, <2>4, BirthRegisters
<1>7. ASSUME NEW o \in Owners, NEW host \in Evidence, ObserveExisting(o, host)
      PROVE OneLiveBirth'
  <2> DEFINE k == host.key
             g == host.generation
             c == [key |-> k, runtime |-> host.runtime, generation |-> g,
                   epoch |-> 1, owner |-> o, phase |-> "active", require_binding |-> TRUE]
             new == NewGeneration(c, TRUE, "active")
  <2>1. k \in Keys /\ g \in Generations /\ c \in Claim
    BY <1>7 DEF ObserveExisting, Proves, Evidence, Claim, ClaimPhase
  <2>2. new \in Generation
    BY <2>1 DEF NewGeneration, Generation, Claim
  <2>3. /\ leaf' = [leaf EXCEPT ![k] = c] /\ gens' = [gens EXCEPT ![g] = new]
        /\ leaf[k] = None
        /\ gens[g] = None
    BY <1>7 DEF ObserveExisting, SetLeaf, CanInsertGeneration
  <2>4. /\ c # None /\ new # None
        /\ c.generation = g /\ c.phase # "retired"
        /\ new.key = k /\ new.runtime = c.runtime /\ new.phase # "retired"
    BY <2>1, <2>2 DEF NewGeneration
  <2> HIDE DEF k, g, c, new
  <2> QED
    BY <2>1, <2>3, <2>4, BirthRegisters
<1>8. ASSUME NEW o \in Owners, NEW k \in Keys, NEW r \in Runtimes, NEW single \in BOOLEAN,
             ImportLegacy(o, k, r, single)
      PROVE OneLiveBirth'
  <2> DEFINE c == [key |-> k, runtime |-> r, generation |-> None, epoch |-> 1,
                   owner |-> o, phase |-> "active", require_binding |-> FALSE]
  <2>1. /\ leaf' = [leaf EXCEPT ![k] = c] /\ gens' = gens /\ leaf[k] = None
        /\ c.generation = None
    BY <1>8 DEF ImportLegacy, SetLeaf
  <2> HIDE DEF c
  <2>2. \A g \in Generations : gens[g] # None => gens[g].key \in Keys
    BY DEF TypeOK, Generation
  <2> QED
    BY <2>1, <2>2 DEF OneLiveBirth, TypeOK
<1>9. ASSUME NEW o \in Owners, Commits(o) PROVE OneLiveBirth'
  BY <1>9 DEF Commits, OneLiveBirth
<1>10. ASSUME NEW permit \in permits, RunGuarded(permit) \/ LosePermit(permit)
       PROVE OneLiveBirth'
  BY <1>10 DEF RunGuarded, LosePermit, OneLiveBirth
<1> QED
  BY <1>1, <1>2, <1>3, <1>4, <1>5, <1>6, <1>7, <1>8, <1>9, <1>10 DEF LedgerStep, Transaction

-----------------------------------------------------------------------------
(* A permit is the only way to the factory, and a nonce yields one permit. *)
OnePermit ==
    /\ \A c \in permits :
          /\ c.generation \in Generations
          /\ gens[c.generation] # None
          /\ gens[c.generation].spawn_consumed
          /\ factories[c.generation] = 0
    /\ \A c, d \in permits : c.generation = d.generation => c = d
    /\ \A g \in Generations :
          /\ factories[g] <= 1
          /\ factories[g] # 0 => gens[g] # None /\ gens[g].spawn_consumed

(* A step that only moves phases keeps every row and every consumed mark.  *)
LEMMA KeepsConsumed ==
    ASSUME TypeOK, OnePermit, permits' \subseteq permits, factories' = factories,
           \A g \in Generations : gens[g] # None =>
               gens'[g] # None /\ (gens[g].spawn_consumed => gens'[g].spawn_consumed)
    PROVE  OnePermit'
  BY DEF OnePermit, TypeOK

(* Each transition keeps the count of factory runs bounded by the permits. *)
LEMMA OnePermitStep == TypeOK /\ OnePermit /\ LedgerStep => OnePermit'
<1> SUFFICES ASSUME TypeOK, OnePermit, LedgerStep PROVE OnePermit'
  OBVIOUS
<1>1. CASE Quiet
  BY <1>1, KeepsConsumed DEF Quiet
<1>2. ASSUME NEW o \in Owners, NEW c \in Claim, NEW host \in Evidence,
             Install(o, c, host) \/ Adopt(o, c, host)
      PROVE OnePermit'
  <2>1. /\ c.generation \in Generations /\ gens[c.generation] # None
        /\ UpdateGeneration(c.generation, gens[c.generation].spawn_consumed, "active")
        /\ permits' = permits /\ factories' = factories
    BY <1>2 DEF Install, Adopt, GenerationLive, SetGenerationPhase, Claim, volatile
  <2>2. gens[c.generation].spawn_consumed \in BOOLEAN
    BY <2>1 DEF TypeOK, Generation
  <2> QED
    BY <2>1, <2>2, UpdatedRow, KeepsConsumed
<1>3. ASSUME NEW o \in Owners, NEW c \in Claim,
             FenceRetire(o, c) \/ Release(o, c) \/ AdoptLegacy(o, c)
      PROVE OnePermit'
  BY <1>3, KeepsConsumed DEF FenceRetire, Release, AdoptLegacy, volatile
<1>4. ASSUME NEW o \in Owners, NEW c \in Claim, Retire(o, c) PROVE OnePermit'
  <2>1. /\ c.generation \in Generations \cup {None}
        /\ c.generation # None => gens[c.generation] # None
        /\ SetGenerationPhase(c, "retired")
        /\ permits' = permits /\ factories' = factories
    BY <1>4 DEF Retire, Claim, volatile
  <2>2. CASE c.generation = None
    BY <2>1, <2>2, KeepsConsumed DEF SetGenerationPhase
  <2>3. CASE c.generation # None
    <3>1. /\ UpdateGeneration(c.generation, gens[c.generation].spawn_consumed, "retired")
          /\ gens[c.generation].spawn_consumed \in BOOLEAN
      BY <2>1, <2>3 DEF SetGenerationPhase, TypeOK, Generation
    <3> QED
      BY <2>1, <2>3, <3>1, UpdatedRow, KeepsConsumed
  <2> QED
    BY <2>2, <2>3
<1>5. ASSUME NEW c \in Claim, ConsumeBirthOnce(c) PROVE OnePermit'
  <2>1. /\ c.generation \in Generations /\ gens[c.generation] # None
        /\ ~gens[c.generation].spawn_consumed
        /\ UpdateGeneration(c.generation, TRUE, "authorized_birth")
        /\ permits' = permits \cup {c} /\ factories' = factories
    BY <1>5 DEF ConsumeBirthOnce, GenerationLive, Claim
  <2>2. /\ gens'[c.generation] # None /\ gens'[c.generation].spawn_consumed
        /\ \A h \in Generations : h # c.generation => gens'[h] = gens[h]
    BY <2>1, UpdatedRow
  <2>3. factories[c.generation] = 0 /\ \A d \in permits : d.generation # c.generation
    BY <2>1 DEF OnePermit
  <2> QED
    BY <2>1, <2>2, <2>3 DEF OnePermit
<1>6. ASSUME NEW o \in Owners, NEW e \in Claim \cup {None}, NEW k \in Keys, NEW r \in Runtimes,
             NEW g \in Generations, Reserve(o, e, k, r, g)
      PROVE OnePermit'
  <2>1. PICK new : gens' = [gens EXCEPT ![g] = new]
    BY <1>6 DEF Reserve
  <2>2. gens[g] = None /\ permits' = permits /\ factories' = factories
    BY <1>6 DEF Reserve, CanInsertGeneration, volatile
  <2>3. \A h \in Generations : h # g => gens'[h] = gens[h]
    BY <2>1 DEF TypeOK
  <2> QED
    BY <2>2, <2>3, KeepsConsumed
<1>7. ASSUME NEW o \in Owners, NEW host \in Evidence, ObserveExisting(o, host)
      PROVE OnePermit'
  <2> DEFINE g == host.generation
             c == [key |-> host.key, runtime |-> host.runtime, generation |-> g,
                   epoch |-> 1, owner |-> o, phase |-> "active", require_binding |-> TRUE]
             new == NewGeneration(c, TRUE, "active")
  <2>1. g \in Generations /\ c \in Claim /\ gens[g] = None
    BY <1>7 DEF ObserveExisting, Proves, CanInsertGeneration, Evidence, Claim, ClaimPhase
  <2>2. new \in Generation
    BY <2>1 DEF NewGeneration, Generation, Claim
  <2>3. new # None /\ new.spawn_consumed
    BY <2>2 DEF NewGeneration
  <2>4. /\ gens' = [gens EXCEPT ![g] = new] /\ permits' = permits
        /\ factories' = [factories EXCEPT ![g] = 1]
    BY <1>7 DEF ObserveExisting
  <2> HIDE DEF g, c, new
  <2>5. \A d \in permits : d.generation # g
    BY <2>1 DEF OnePermit
  <2> QED
    BY <2>1, <2>3, <2>4, <2>5 DEF OnePermit, TypeOK
<1>8. ASSUME NEW o \in Owners, NEW k \in Keys, NEW r \in Runtimes, NEW single \in BOOLEAN,
             ImportLegacy(o, k, r, single)
      PROVE OnePermit'
  BY <1>8, KeepsConsumed DEF ImportLegacy, volatile
<1>9. ASSUME NEW o \in Owners, Commits(o) PROVE OnePermit'
  BY <1>9, KeepsConsumed DEF Commits
<1>10. ASSUME NEW permit \in permits, RunGuarded(permit) PROVE OnePermit'
  <2>1. CASE ~ValidateSpawn(permit)
    BY <1>10, <2>1, KeepsConsumed DEF RunGuarded
  <2>2. CASE ValidateSpawn(permit)
    <3> DEFINE g == permit.generation
    <3>1. /\ g \in Generations /\ factories[g] = 0
          /\ gens[g] # None /\ gens[g].spawn_consumed
          /\ \A d \in permits \ {permit} : d.generation # g
      BY DEF OnePermit
    <3>2. /\ permits' = permits \ {permit} /\ gens' = gens
          /\ factories' = [factories EXCEPT ![g] = factories[g] + 1]
      BY <1>10, <2>2 DEF RunGuarded
    <3> HIDE DEF g
    <3> QED
      BY <3>1, <3>2 DEF OnePermit, TypeOK
  <2> QED
    BY <2>1, <2>2
<1>11. ASSUME NEW permit \in permits, LosePermit(permit) PROVE OnePermit'
  BY <1>11, KeepsConsumed DEF LosePermit
<1> QED
  BY <1>1, <1>2, <1>3, <1>4, <1>5, <1>6, <1>7, <1>8, <1>9, <1>10, <1>11 DEF LedgerStep, Transaction

-----------------------------------------------------------------------------
(* The last effect on a leaf against its claim: never a later epoch, never *)
(* the epoch of a claim that is not live, and at the claim's own epoch the *)
(* effect is the claim's owner's.                                          *)
EffectEpochs ==
    \A k \in Keys : effects[k] # None =>
        /\ leaf[k] # None
        /\ effects[k].epoch <= leaf[k].epoch
        /\ leaf[k].phase \notin {"authorized_birth", "active"} =>
               effects[k].epoch < leaf[k].epoch
        /\ effects[k].epoch = leaf[k].epoch => effects[k].owner = leaf[k].owner

(* A leaf whose epoch advances leaves the last effect behind.              *)
LEMMA AdvanceKeepsEffects ==
    ASSUME TypeOK, TypeOK', EffectEpochs, effects' = effects,
           NEW k \in Keys,
           \A j \in Keys : j # k => leaf'[j] = leaf[j],
           leaf'[k] # None,
           leaf[k] # None => leaf[k].epoch < leaf'[k].epoch
    PROVE  EffectEpochs'
<1> SUFFICES ASSUME NEW j \in Keys, effects[j] # None
             PROVE  /\ leaf'[j] # None
                    /\ effects[j].epoch <= leaf'[j].epoch
                    /\ leaf'[j].phase \notin {"authorized_birth", "active"} =>
                           effects[j].epoch < leaf'[j].epoch
                    /\ effects[j].epoch = leaf'[j].epoch => effects[j].owner = leaf'[j].owner
  BY DEF EffectEpochs
<1>1. CASE j # k
  BY <1>1 DEF EffectEpochs
<1>2. CASE j = k
  <2>1. leaf[k] # None /\ effects[k].epoch <= leaf[k].epoch
    BY <1>2 DEF EffectEpochs
  <2>2. leaf[k].epoch \in Int /\ leaf'[k].epoch \in Int /\ effects[k].epoch \in Int
    BY <1>2, <2>1 DEF TypeOK, Claim, Effect
  <2> QED
    BY <1>2, <2>1, <2>2
<1> QED
  BY <1>1, <1>2

(* Only the owner of the current claim has effects, at its own epoch.      *)
LEMMA EffectsStep == TypeOK /\ TypeOK' /\ EffectEpochs /\ LedgerStep => EffectEpochs'
<1> SUFFICES ASSUME TypeOK, TypeOK', EffectEpochs, LedgerStep PROVE EffectEpochs'
  OBVIOUS
<1>1. CASE Quiet
  BY <1>1 DEF Quiet, EffectEpochs
<1>2. ASSUME NEW o \in Owners, NEW c \in Claim, NEW host \in Evidence, Install(o, c, host)
      PROVE EffectEpochs'
  <2>1. /\ leaf[c.key] = c /\ c.owner = o /\ c.phase = "authorized_birth"
        /\ SetLeaf(o, Successor(c, c.epoch, o, "active", c.require_binding))
        /\ effects' = effects
    BY <1>2 DEF Install, RequireExact, volatile
  <2>2. c.epoch \in 1..MaxEpoch /\ c.require_binding \in BOOLEAN /\ "active" \in ClaimPhase
    BY DEF Claim, ClaimPhase
  <2>3. /\ c.key \in Keys
        /\ leaf'[c.key] # None
        /\ leaf'[c.key].epoch = leaf[c.key].epoch
        /\ leaf'[c.key].owner = leaf[c.key].owner
        /\ leaf'[c.key].phase = "active"
        /\ \A j \in Keys : j # c.key => leaf'[j] = leaf[j]
    BY <2>1, <2>2, WrittenClaim
  <2> QED
    BY <2>1, <2>3 DEF EffectEpochs
<1>3. ASSUME NEW o \in Owners, NEW c \in Claim,
             \/ FenceRetire(o, c)
             \/ Retire(o, c)
             \/ Release(o, c)
             \/ AdoptLegacy(o, c)
             \/ \E host \in Evidence : Adopt(o, c, host)
      PROVE EffectEpochs'
  <2>1. leaf[c.key] = c /\ HasNextEpoch(c) /\ effects' = effects
    BY <1>3 DEF FenceRetire, Retire, Release, AdoptLegacy, Adopt, RequireExact, volatile
  <2>2. /\ c.epoch \in 1..MaxEpoch /\ c.epoch + 1 \in 1..MaxEpoch
        /\ c.require_binding \in BOOLEAN
    BY <2>1 DEF HasNextEpoch, Claim
  <2>3. PICK w \in Owners \cup {None}, ph \in ClaimPhase, rb \in BOOLEAN :
            SetLeaf(o, Successor(c, c.epoch + 1, w, ph, rb))
    <3>1. {"retiring", "retired", "detached", "active"} \subseteq ClaimPhase
      BY DEF ClaimPhase
    <3>2. \/ SetLeaf(o, Successor(c, c.epoch + 1, o, "retiring", TRUE))
          \/ SetLeaf(o, Successor(c, c.epoch + 1, o, "retired", TRUE))
          \/ SetLeaf(o, Successor(c, c.epoch + 1, None, "detached", c.require_binding))
          \/ SetLeaf(o, Successor(c, c.epoch + 1, o, "active", c.require_binding))
      BY <1>3 DEF FenceRetire, Retire, Release, AdoptLegacy, Adopt
    <3> QED
      BY <2>2, <3>1, <3>2, Zenon
  <2>4. /\ c.key \in Keys
        /\ leaf'[c.key] # None
        /\ leaf'[c.key].epoch = c.epoch + 1
        /\ \A j \in Keys : j # c.key => leaf'[j] = leaf[j]
    BY <2>2, <2>3, WrittenClaim
  <2> QED
    BY <2>1, <2>2, <2>4, AdvanceKeepsEffects
<1>4. ASSUME NEW c \in Claim, ConsumeBirthOnce(c) PROVE EffectEpochs'
  BY <1>4 DEF ConsumeBirthOnce, EffectEpochs
<1>5. ASSUME NEW o \in Owners, NEW e \in Claim \cup {None}, NEW k \in Keys, NEW r \in Runtimes,
             NEW g \in Generations, Reserve(o, e, k, r, g)
      PROVE EffectEpochs'
  <2> DEFINE c == [key |-> k, runtime |-> r, generation |-> g,
                   epoch |-> IF e = None THEN 1 ELSE e.epoch + 1, owner |-> o,
                   phase |-> "authorized_birth", require_binding |-> TRUE]
  <2>1. c \in Claim
    BY <1>5 DEF Reserve, HasNextEpoch, Claim, ClaimPhase
  <2>2. leaf[k] = e /\ leaf' = [leaf EXCEPT ![k] = c] /\ effects' = effects
    BY <1>5 DEF Reserve, SetLeaf, volatile
  <2>3. e # None => e.epoch < c.epoch
    <3>1. ASSUME e # None PROVE e.epoch \in Int /\ c.epoch = e.epoch + 1
      BY <3>1 DEF Claim
    <3> QED
      BY <3>1
  <2>4. c # None
    BY <2>1
  <2> HIDE DEF c
  <2>5. leaf'[k] = c /\ \A j \in Keys : j # k => leaf'[j] = leaf[j]
    BY <2>2 DEF TypeOK
  <2> QED
    BY <2>2, <2>3, <2>4, <2>5, AdvanceKeepsEffects
<1>6. ASSUME NEW k \in Keys, NEW c \in Claim, leaf[k] = None, effects' = effects,
             leaf' = [leaf EXCEPT ![k] = c]
      PROVE EffectEpochs'
  BY <1>6, AdvanceKeepsEffects DEF TypeOK
<1>7. ASSUME NEW o \in Owners, NEW host \in Evidence, ObserveExisting(o, host)
      PROVE EffectEpochs'
  <2> DEFINE c == [key |-> host.key, runtime |-> host.runtime, generation |-> host.generation,
                   epoch |-> 1, owner |-> o, phase |-> "active", require_binding |-> TRUE]
  <2>1. host.key \in Keys /\ c \in Claim
    BY <1>7 DEF Evidence, Claim, ClaimPhase
  <2>2. leaf[host.key] = None /\ effects' = effects /\ leaf' = [leaf EXCEPT ![host.key] = c]
    BY <1>7 DEF ObserveExisting, SetLeaf
  <2> HIDE DEF c
  <2> QED
    BY <2>1, <2>2, <1>6
<1>8. ASSUME NEW o \in Owners, NEW k \in Keys, NEW r \in Runtimes, NEW single \in BOOLEAN,
             ImportLegacy(o, k, r, single)
      PROVE EffectEpochs'
  <2> DEFINE c == [key |-> k, runtime |-> r, generation |-> None, epoch |-> 1,
                   owner |-> o, phase |-> "active", require_binding |-> FALSE]
  <2>1. c \in Claim
    BY DEF Claim, ClaimPhase
  <2>2. leaf[k] = None /\ effects' = effects /\ leaf' = [leaf EXCEPT ![k] = c]
    BY <1>8 DEF ImportLegacy, SetLeaf, volatile
  <2> HIDE DEF c
  <2> QED
    BY <2>1, <2>2, <1>6
<1>9. ASSUME NEW o \in Owners, Commits(o) PROVE EffectEpochs'
  <2> DEFINE c == inflight[o].claim
             made == [epoch |-> c.epoch, owner |-> c.owner]
  <2>1. leaf' = leaf
    BY <1>9 DEF Commits
  <2>2. CASE ~ValidateOwned(inflight[o])
    BY <1>9, <2>1, <2>2 DEF Commits, EffectEpochs
  <2>3. CASE ValidateOwned(inflight[o])
    <3>1. c \in Claim
      BY <1>9 DEF Commits, TypeOK, Context
    <3>2. /\ c.key \in Keys /\ c.epoch \in Int /\ leaf[c.key] # None
          /\ leaf[c.key].epoch = c.epoch /\ leaf[c.key].owner = c.owner
          /\ leaf[c.key].phase \in {"authorized_birth", "active"}
      BY <2>3, <3>1 DEF ValidateOwned, SameAuthority, LiveClaim, Claim
    <3>3. effects' = [effects EXCEPT ![c.key] = made]
      BY <1>9, <2>3 DEF Commits
    <3>4. made.epoch = c.epoch /\ made.owner = c.owner
      OBVIOUS
    <3> HIDE DEF c, made
    <3>5. effects'[c.key] = made /\ \A j \in Keys : j # c.key => effects'[j] = effects[j]
      BY <3>2, <3>3 DEF TypeOK
    <3> QED
      BY <2>1, <3>2, <3>4, <3>5 DEF EffectEpochs
  <2> QED
    BY <2>2, <2>3
<1>10. ASSUME NEW permit \in permits, RunGuarded(permit) \/ LosePermit(permit)
       PROVE EffectEpochs'
  BY <1>10 DEF RunGuarded, LosePermit, EffectEpochs
<1> QED
  BY <1>1, <1>2, <1>3, <1>4, <1>5, <1>7, <1>8, <1>9, <1>10 DEF LedgerStep, Transaction

-----------------------------------------------------------------------------
(* The inductive invariant and what it implies.                            *)
IInv == TypeOK /\ OneLiveBirth /\ OnePermit /\ EffectEpochs

(* The empty ledger.                                                       *)
LEMMA LedgerStarts == Init => IInv
BY DEF Init, IInv, TypeOK, OneLiveBirth, OnePermit, EffectEpochs

(* The inductive invariant holds in every reachable state.                 *)
THEOREM Inductive == Spec => []IInv
<1>1. IInv /\ [Next]_vars => IInv'
  BY TypeStep, StepCases, OneLiveBirthStep, OnePermitStep, EffectsStep DEF IInv
<1> QED
  BY <1>1, LedgerStarts, PTL DEF Spec

(* A leaf never has two live births, and its claim always names the live   *)
(* one: the ledger's two tables agree in every reachable state.            *)
THEOREM LiveBirthUnique == Spec => []OneLiveBirth
<1>1. IInv => OneLiveBirth
  BY DEF IInv
<1> QED
  BY <1>1, Inductive, PTL

(* A permit that is still held stands for a factory that has not run.      *)
LEMMA PermitsAreSingle == IInv => SingleFactory
<1> SUFFICES ASSUME IInv, NEW g \in Generations
             PROVE  /\ factories[g] <= 1
                    /\ factories[g] = 1 => gens[g] # None /\ gens[g].spawn_consumed
                    /\ (\E c \in permits : c.generation = g) => factories[g] = 0
  BY DEF SingleFactory
<1> QED
  BY DEF IInv, OnePermit

(* The PTY factory runs at most once per nonce and never without having    *)
(* consumed it.                                                            *)
THEOREM FactoryRunsOnce == Spec => []SingleFactory
BY PermitsAreSingle, Inductive, PTL

(* Only Commits has an effect, for the claim its context validates.    *)
LEMMA EffectStep ==
    ASSUME IInv, LedgerStep, NEW k \in Keys, effects'[k] # effects[k]
    PROVE  /\ leaf[k] # None /\ LiveClaim(leaf[k])
           /\ effects'[k] = [epoch |-> leaf[k].epoch, owner |-> leaf[k].owner]
           /\ effects[k] # None => effects[k].epoch < leaf[k].epoch
<1>0. TypeOK /\ EffectEpochs
  BY DEF IInv
<1>1. PICK o \in Owners : Commits(o)
  <2>1. ASSUME NEW o \in Owners, NEW d \in Claim, Transaction(o, d)
        PROVE  effects' = effects
    BY <2>1 DEF Transaction, Install, FenceRetire, Retire, Release, Adopt, AdoptLegacy,
       ConsumeBirthOnce, volatile
  <2>2. ASSUME NEW o \in Owners, NEW e \in Claim \cup {None}, NEW j \in Keys,
               NEW r \in Runtimes, NEW g \in Generations, Reserve(o, e, j, r, g)
        PROVE  effects' = effects
    BY <2>2 DEF Reserve, volatile
  <2>3. ASSUME NEW o \in Owners, NEW host \in Evidence, ObserveExisting(o, host)
        PROVE  effects' = effects
    BY <2>3 DEF ObserveExisting
  <2>4. ASSUME NEW o \in Owners, NEW j \in Keys, NEW r \in Runtimes, NEW single \in BOOLEAN,
               ImportLegacy(o, j, r, single)
        PROVE  effects' = effects
    BY <2>4 DEF ImportLegacy, volatile
  <2>5. ASSUME NEW permit \in permits, RunGuarded(permit) \/ LosePermit(permit)
        PROVE  effects' = effects
    BY <2>5 DEF RunGuarded, LosePermit
  <2>6. Quiet => effects' = effects
    BY DEF Quiet
  <2> QED
    BY <2>1, <2>2, <2>3, <2>4, <2>5, <2>6 DEF LedgerStep
<1> DEFINE c == inflight[o].claim
           made == [epoch |-> c.epoch, owner |-> c.owner]
<1>2. /\ ValidateOwned(inflight[o])
      /\ effects' = [effects EXCEPT ![c.key] = made]
  BY <1>1 DEF Commits
<1>3. c \in Claim
  BY <1>0, <1>1 DEF Commits, TypeOK, Context
<1>4. /\ c.key \in Keys /\ leaf[c.key] # None /\ LiveClaim(leaf[c.key])
      /\ leaf[c.key].epoch = c.epoch /\ leaf[c.key].owner = c.owner /\ c.epoch \in Int
  BY <1>2, <1>3 DEF ValidateOwned, SameAuthority, Claim
<1>5. made = [epoch |-> leaf[c.key].epoch, owner |-> leaf[c.key].owner]
  BY <1>4
<1> HIDE DEF c, made
<1>6. k = c.key /\ effects'[k] = made
  BY <1>0, <1>2, <1>4 DEF TypeOK
<1>7. ASSUME effects[k] # None PROVE effects[k].epoch < leaf[k].epoch
  <2>1. /\ effects[k] \in Effect /\ effects[k].epoch \in Int
        /\ effects[k].epoch <= leaf[k].epoch
        /\ effects[k].epoch = leaf[k].epoch => effects[k].owner = leaf[k].owner
    BY <1>0, <1>7 DEF TypeOK, Effect, EffectEpochs
  <2>2. effects[k] = [epoch |-> effects[k].epoch, owner |-> effects[k].owner]
    BY <2>1 DEF Effect
  <2>3. effects[k].epoch # leaf[k].epoch
    BY <1>5, <1>6, <2>1, <2>2
  <2> QED
    BY <1>4, <1>6, <2>1, <2>3
<1> QED
  BY <1>4, <1>5, <1>6, <1>7

(* An endpoint that lost a leaf has no further effect on it, and effects   *)
(* follow the order of the epochs.                                         *)
THEOREM OwnedEffectsOnly == Spec => EffectsByOwnerOnly
<1>1. IInv /\ [Next]_vars =>
        [\A k \in Keys : effects'[k] # effects[k] =>
            /\ leaf[k] # None /\ LiveClaim(leaf[k])
            /\ effects'[k] = [epoch |-> leaf[k].epoch, owner |-> leaf[k].owner]
            /\ effects[k] # None => effects[k].epoch < leaf[k].epoch]_vars
  BY EffectStep, StepCases DEF IInv
<1> QED
  BY <1>1, Inductive, PTL DEF Spec, EffectsByOwnerOnly

-----------------------------------------------------------------------------
(* A fenced birth stays as it is.  The two ways of being fenced: the nonce *)
(* is retired, or the claim that names it is being retired.                *)
Unchanged(g) ==
    /\ factories'[g] = factories[g]
    /\ gens'[g].spawn_consumed = gens[g].spawn_consumed
    /\ gens'[g] # None /\ Fenced(g)'

(* A step that touches neither the row nor the leaf of a fenced birth.     *)
LEMMA FencedFrame ==
    ASSUME IInv, NEW g \in Generations, Fenced(g),
           gens'[g] = gens[g], factories'[g] = factories[g],
           gens[g].phase # "retired" => leaf'[gens[g].key] = leaf[gens[g].key]
    PROVE  Unchanged(g)
  BY DEF Fenced, Unchanged

(* Each transition leaves a fenced birth unconsumed, unborn and fenced.    *)
LEMMA NoLateChildStep ==
    ASSUME IInv, LedgerStep, NEW g \in Generations, Fenced(g)
    PROVE  Unchanged(g)
<1> USE DEF IInv
<1>0. /\ gens[g] # None /\ gens[g].key \in Keys
      /\ gens[g].phase # "retired" =>
            /\ leaf[gens[g].key] # None /\ leaf[gens[g].key].generation = g
            /\ leaf[gens[g].key].phase = "retiring"
  BY DEF Fenced, TypeOK, Generation, OneLiveBirth
<1>1. CASE Quiet
  BY <1>1, FencedFrame DEF Quiet
<1>2. ASSUME NEW o \in Owners, NEW c \in Claim, NEW host \in Evidence,
             Install(o, c, host) \/ Adopt(o, c, host)
      PROVE Unchanged(g)
  <2>1. /\ leaf[c.key] = c /\ c.phase # "retiring"
        /\ c.generation \in Generations
        /\ gens[c.generation] # None /\ gens[c.generation].phase # "retired"
        /\ UpdateGeneration(c.generation, gens[c.generation].spawn_consumed, "active")
        /\ factories' = factories
    BY <1>2 DEF Install, Adopt, RequireExact, GenerationLive, SetGenerationPhase, Claim, volatile
  <2>2. c.key \in Keys /\ gens[c.generation].spawn_consumed \in BOOLEAN
    BY <2>1 DEF Claim, TypeOK, Generation
  <2>3. g # c.generation /\ (gens[g].phase # "retired" => gens[g].key # c.key)
    BY <1>0, <2>1, <2>2 DEF OneLiveBirth
  <2>4. gens'[g] = gens[g]
    BY <2>1, <2>2, <2>3, UpdatedRow
  <2>5. \A j \in Keys : j # c.key => leaf'[j] = leaf[j]
    BY <1>2 DEF Install, Adopt, SetLeaf, Successor, TypeOK
  <2> QED
    BY <1>0, <2>1, <2>3, <2>4, <2>5, FencedFrame
<1>3. ASSUME NEW o \in Owners, NEW c \in Claim,
             FenceRetire(o, c) \/ Release(o, c) \/ AdoptLegacy(o, c)
      PROVE Unchanged(g)
  <2>1. /\ leaf[c.key] = c /\ c.phase # "retiring"
        /\ gens' = gens /\ factories' = factories
    BY <1>3 DEF FenceRetire, Release, AdoptLegacy, RequireExact, LiveClaim, volatile
  <2>2. \A j \in Keys : j # c.key => leaf'[j] = leaf[j]
    BY <1>3 DEF FenceRetire, Release, AdoptLegacy, SetLeaf, Successor, TypeOK
  <2> QED
    BY <1>0, <2>1, <2>2, FencedFrame
<1>4. ASSUME NEW o \in Owners, NEW c \in Claim, Retire(o, c) PROVE Unchanged(g)
  <2>1. /\ leaf[c.key] = c /\ c.key \in Keys
        /\ c.generation \in Generations \cup {None}
        /\ c.generation # None =>
              gens[c.generation] # None /\ gens[c.generation].phase # "retired"
        /\ SetGenerationPhase(c, "retired")
        /\ factories' = factories
    BY <1>4 DEF Retire, RequireExact, Claim, volatile
  <2>2. \A j \in Keys : j # c.key => leaf'[j] = leaf[j]
    BY <1>4 DEF Retire, SetLeaf, Successor, TypeOK
  <2>3. CASE g = c.generation
    <3>1. /\ UpdateGeneration(g, gens[g].spawn_consumed, "retired")
          /\ gens[g].spawn_consumed \in BOOLEAN
      BY <1>0, <2>1, <2>3 DEF SetGenerationPhase, TypeOK, Generation
    <3>2. /\ gens'[g] # None /\ gens'[g].phase = "retired"
          /\ gens'[g].spawn_consumed = gens[g].spawn_consumed
      BY <1>0, <3>1, UpdatedRow
    <3> QED
      BY <2>1, <3>2 DEF Unchanged, Fenced
  <2>4. CASE g # c.generation
    <3>1. gens'[g] = gens[g]
      <4>1. CASE c.generation = None
        BY <2>1, <4>1 DEF SetGenerationPhase
      <4>2. CASE c.generation # None
        <5>1. /\ UpdateGeneration(c.generation, gens[c.generation].spawn_consumed, "retired")
              /\ gens[c.generation].spawn_consumed \in BOOLEAN
          BY <2>1, <4>2 DEF SetGenerationPhase, TypeOK, Generation
        <5> QED
          BY <2>1, <2>4, <4>2, <5>1, UpdatedRow
      <4> QED
        BY <4>1, <4>2
    <3>2. gens[g].phase # "retired" => gens[g].key # c.key
      BY <1>0, <2>1, <2>4
    <3> QED
      BY <1>0, <2>1, <2>2, <3>1, <3>2, FencedFrame
  <2> QED
    BY <2>3, <2>4
<1>5. ASSUME NEW c \in Claim, ConsumeBirthOnce(c) PROVE Unchanged(g)
  <2>1. /\ leaf[c.key] = c /\ c.phase # "retiring" /\ c.key \in Keys
        /\ c.generation \in Generations /\ gens[c.generation] # None
        /\ gens[c.generation].phase # "retired"
        /\ UpdateGeneration(c.generation, TRUE, "authorized_birth")
        /\ leaf' = leaf /\ factories' = factories
    BY <1>5 DEF ConsumeBirthOnce, RequireExact, GenerationLive, Claim
  <2>2. g # c.generation
    BY <1>0, <2>1 DEF OneLiveBirth
  <2> QED
    BY <2>1, <2>2, UpdatedRow, FencedFrame
<1>6. ASSUME NEW o \in Owners, NEW e \in Claim \cup {None}, NEW k \in Keys, NEW r \in Runtimes,
             NEW h \in Generations, Reserve(o, e, k, r, h)
      PROVE Unchanged(g)
  <2>1. PICK new, c : gens' = [gens EXCEPT ![h] = new] /\ leaf' = [leaf EXCEPT ![k] = c]
    BY <1>6 DEF Reserve, SetLeaf
  <2>2. /\ gens[h] = None /\ factories' = factories
        /\ leaf[k] # None => leaf[k].phase = "retired"
    BY <1>6 DEF Reserve, CanInsertGeneration, volatile
  <2>3. gens'[g] = gens[g] /\ \A j \in Keys : j # k => leaf'[j] = leaf[j]
    BY <1>0, <2>1, <2>2 DEF TypeOK
  <2> QED
    BY <1>0, <2>2, <2>3, FencedFrame
<1>7. ASSUME NEW o \in Owners, NEW host \in Evidence, ObserveExisting(o, host)
      PROVE Unchanged(g)
  <2> DEFINE h == host.generation
  <2>1. h \in Generations /\ host.key \in Keys
    BY <1>7 DEF ObserveExisting, Proves, Evidence
  <2>2. PICK new, c : gens' = [gens EXCEPT ![h] = new] /\ leaf' = [leaf EXCEPT ![host.key] = c]
    BY <1>7 DEF ObserveExisting, SetLeaf
  <2>3. /\ gens[h] = None /\ leaf[host.key] = None
        /\ factories' = [factories EXCEPT ![h] = 1]
    BY <1>7 DEF ObserveExisting, CanInsertGeneration
  <2> HIDE DEF h
  <2>4. /\ gens'[g] = gens[g] /\ factories'[g] = factories[g]
        /\ \A j \in Keys : j # host.key => leaf'[j] = leaf[j]
    BY <1>0, <2>1, <2>2, <2>3 DEF TypeOK
  <2> QED
    BY <1>0, <2>3, <2>4, FencedFrame
<1>8. ASSUME NEW o \in Owners, NEW k \in Keys, NEW r \in Runtimes, NEW single \in BOOLEAN,
             ImportLegacy(o, k, r, single)
      PROVE Unchanged(g)
  <2>1. PICK c : leaf' = [leaf EXCEPT ![k] = c]
    BY <1>8 DEF ImportLegacy, SetLeaf
  <2>2. leaf[k] = None /\ gens' = gens /\ factories' = factories
    BY <1>8 DEF ImportLegacy, volatile
  <2>3. \A j \in Keys : j # k => leaf'[j] = leaf[j]
    BY <2>1 DEF TypeOK
  <2> QED
    BY <1>0, <2>2, <2>3, FencedFrame
<1>9. ASSUME NEW o \in Owners, Commits(o) PROVE Unchanged(g)
  BY <1>9, FencedFrame DEF Commits
<1>10. ASSUME NEW permit \in permits, RunGuarded(permit) PROVE Unchanged(g)
  <2>1. leaf' = leaf /\ gens' = gens
    BY <1>10 DEF RunGuarded
  <2>2. CASE ~ValidateSpawn(permit)
    BY <1>10, <2>1, <2>2, FencedFrame DEF RunGuarded
  <2>3. CASE ValidateSpawn(permit)
    <3>1. /\ permit.generation \in Generations /\ permit.key \in Keys
          /\ leaf[permit.key] = permit /\ permit.phase = "authorized_birth"
          /\ permit.generation # None /\ permit # None
          /\ gens[permit.generation].phase # "retired"
      BY <2>3 DEF ValidateSpawn, RequireExact, GenerationLive, TypeOK, Claim
    <3>2. g # permit.generation
      BY <1>0, <3>1 DEF OneLiveBirth
    <3>3. factories' = [factories EXCEPT ![permit.generation] =
                            factories[permit.generation] + 1]
      BY <1>10, <2>3 DEF RunGuarded
    <3>4. factories'[g] = factories[g]
      BY <3>1, <3>2, <3>3 DEF TypeOK
    <3> QED
      BY <2>1, <3>4, FencedFrame
  <2> QED
    BY <2>2, <2>3
<1>11. ASSUME NEW permit \in permits, LosePermit(permit) PROVE Unchanged(g)
  BY <1>11, FencedFrame DEF LosePermit
<1> QED
  BY <1>1, <1>2, <1>3, <1>4, <1>5, <1>6, <1>7, <1>8, <1>9, <1>10, <1>11 DEF LedgerStep, Transaction

(* Once the ledger shows a birth fenced, its factory never runs again: a   *)
(* close that finds the nonce unconsumed may report that no child exists.  *)
THEOREM FencedBirthIsFinal == Spec => NoLateChild
<1>1. IInv /\ [Next]_vars =>
        [\A g \in Generations : Fenced(g) =>
            /\ factories'[g] = factories[g]
            /\ gens'[g].spawn_consumed = gens[g].spawn_consumed
            /\ gens'[g] # None /\ Fenced(g)']_vars
  BY NoLateChildStep, StepCases DEF IInv, Unchanged
<1> QED
  BY <1>1, Inductive, PTL DEF Spec, NoLateChild
-----------------------------------------------------------------------------
(* What is closed stays closed.  The row of a nonce is never removed, a    *)
(* retired one is never touched again, and only the two columns change.    *)
NoncesKept ==
    \A g \in Generations : gens[g] # None =>
        /\ gens'[g] # None
        /\ gens[g].phase = "retired" => gens'[g] = gens[g]
        /\ gens[g].spawn_consumed => gens'[g].spawn_consumed
        /\ gens'[g].key = gens[g].key /\ gens'[g].runtime = gens[g].runtime
        /\ gens'[g].birth_owner = gens[g].birth_owner
        /\ gens'[g].born_epoch = gens[g].born_epoch

LEMMA LedgerKeepsNonces == ASSUME TypeOK, LedgerStep PROVE NoncesKept
<1>1. ASSUME NEW g \in Generations, gens[g] # None, gens[g].phase # "retired",
             NEW consumed \in BOOLEAN, gens[g].spawn_consumed => consumed,
             NEW phase \in {"authorized_birth", "active", "retired"},
             UpdateGeneration(g, consumed, phase)
      PROVE  NoncesKept
  <2>1. /\ gens'[g] # None
        /\ gens'[g].key = gens[g].key
        /\ gens'[g].runtime = gens[g].runtime
        /\ gens'[g].birth_owner = gens[g].birth_owner
        /\ gens'[g].born_epoch = gens[g].born_epoch
        /\ gens'[g].spawn_consumed = consumed
        /\ \A h \in Generations : h # g => gens'[h] = gens[h]
    BY <1>1, UpdatedRow
  <2> QED
    BY <1>1, <2>1 DEF NoncesKept
<1>2. ASSUME NEW o \in Owners, NEW c \in Claim, Transaction(o, c) PROVE NoncesKept
  <2>1. ASSUME c.generation # None, gens[c.generation] # None,
               gens[c.generation].phase # "retired",
               NEW phase \in {"active", "retired"}, SetGenerationPhase(c, phase)
        PROVE  NoncesKept
    <3>1. c.generation \in Generations /\ gens[c.generation].spawn_consumed \in BOOLEAN
      BY <2>1 DEF TypeOK, Claim, Generation
    <3>2. UpdateGeneration(c.generation, gens[c.generation].spawn_consumed, phase)
      BY <2>1 DEF SetGenerationPhase
    <3> QED
      BY <2>1, <3>1, <3>2, <1>1
  <2>2. ASSUME NEW host \in Evidence, Install(o, c, host) \/ Adopt(o, c, host) PROVE NoncesKept
    BY <2>1, <2>2 DEF Install, Adopt, GenerationLive
  <2>3. ASSUME Retire(o, c) PROVE NoncesKept
    <3>1. CASE c.generation = None
      BY <2>3, <3>1 DEF Retire, SetGenerationPhase, NoncesKept
    <3>2. CASE c.generation # None
      BY <2>1, <2>3, <3>2 DEF Retire
    <3> QED
      BY <3>1, <3>2
  <2>4. ASSUME FenceRetire(o, c) \/ Release(o, c) \/ AdoptLegacy(o, c) PROVE NoncesKept
    BY <2>4 DEF FenceRetire, Release, AdoptLegacy, NoncesKept
  <2>5. ASSUME ConsumeBirthOnce(c) PROVE NoncesKept
    <3>1. /\ c.generation \in Generations /\ gens[c.generation] # None
          /\ gens[c.generation].phase # "retired"
          /\ UpdateGeneration(c.generation, TRUE, "authorized_birth")
      BY <2>5 DEF ConsumeBirthOnce, GenerationLive, Claim
    <3> QED
      BY <3>1, <1>1
  <2> QED
    BY <1>2, <2>2, <2>3, <2>4, <2>5 DEF Transaction
<1>3. ASSUME NEW g \in Generations, gens[g] = None, NEW row, gens' = [gens EXCEPT ![g] = row]
      PROVE  NoncesKept
  BY <1>3 DEF NoncesKept, TypeOK
<1>4. ASSUME NEW o \in Owners, NEW e \in Claim \cup {None}, NEW k \in Keys, NEW r \in Runtimes,
             NEW g \in Generations, Reserve(o, e, k, r, g)
      PROVE  NoncesKept
  BY <1>3, <1>4 DEF Reserve, CanInsertGeneration
<1>5. ASSUME NEW o \in Owners, NEW host \in Evidence, ObserveExisting(o, host) PROVE NoncesKept
  <2>1. host.generation \in Generations
    BY <1>5 DEF ObserveExisting, Proves, Evidence
  <2> QED
    BY <1>3, <1>5, <2>1 DEF ObserveExisting, CanInsertGeneration
<1>6. ASSUME gens' = gens PROVE NoncesKept
  BY <1>6 DEF NoncesKept
<1> QED
  BY <1>2, <1>4, <1>5, <1>6
  DEF LedgerStep, Quiet, ImportLegacy, Commits, RunGuarded, LosePermit

(* A leaf's row is never removed, its epoch never goes back, and a leaf    *)
(* that asks for a binding goes on asking for one.                         *)
LeavesKept ==
    \A k \in Keys : leaf[k] # None =>
        /\ leaf'[k] # None
        /\ leaf'[k].epoch >= leaf[k].epoch
        /\ leaf[k].require_binding => leaf'[k].require_binding

LEMMA LedgerKeepsLeaves == ASSUME TypeOK, LedgerStep PROVE LeavesKept
<1>1. ASSUME leaf' = leaf PROVE LeavesKept
  BY <1>1 DEF LeavesKept, TypeOK, Claim
<1>2. ASSUME NEW k \in Keys, leaf[k] = None, NEW c, leaf' = [leaf EXCEPT ![k] = c]
      PROVE  LeavesKept
  BY <1>2 DEF LeavesKept, TypeOK, Claim
<1>3. ASSUME NEW o \in Owners, NEW c \in Claim, NEW e \in 1..MaxEpoch, e >= c.epoch,
             NEW w \in Owners \cup {None}, NEW ph \in ClaimPhase, NEW rb \in BOOLEAN,
             c.require_binding => rb, leaf[c.key] = c,
             SetLeaf(o, Successor(c, e, w, ph, rb))
      PROVE  LeavesKept
  <2>1. /\ leaf'[c.key] # None /\ leaf'[c.key].epoch = e
        /\ leaf'[c.key].require_binding = rb
        /\ \A j \in Keys : j # c.key => leaf'[j] = leaf[j]
    BY <1>3, WrittenClaim
  <2> QED
    BY <1>3, <2>1 DEF LeavesKept, TypeOK, Claim
<1>4. ASSUME NEW o \in Owners, NEW c \in Claim, Transaction(o, c) PROVE LeavesKept
  <2>1. /\ c.epoch \in 1..MaxEpoch /\ c.require_binding \in BOOLEAN /\ MaxEpoch \in Nat
        /\ HasNextEpoch(c) => c.epoch + 1 \in 1..MaxEpoch
    BY DEF Claim, HasNextEpoch
  <2>2. ASSUME NEW host \in Evidence, Install(o, c, host) PROVE LeavesKept
    BY <1>3, <2>1, <2>2 DEF Install, RequireExact, ClaimPhase
  <2>3. ASSUME NEW host \in Evidence, Adopt(o, c, host) PROVE LeavesKept
    BY <1>3, <2>1, <2>3 DEF Adopt, RequireExact, ClaimPhase
  <2>4. ASSUME FenceRetire(o, c) PROVE LeavesKept
    <3>1. /\ SetLeaf(o, Successor(c, c.epoch + 1, o, "retiring", TRUE))
          /\ leaf[c.key] = c /\ HasNextEpoch(c)
      BY <2>4 DEF FenceRetire, RequireExact
    <3>2. /\ "retiring" \in ClaimPhase /\ TRUE \in BOOLEAN /\ o \in Owners \cup {None}
          /\ c.require_binding => TRUE
      BY DEF ClaimPhase
    <3>3. c.epoch + 1 \in 1..MaxEpoch /\ c.epoch + 1 >= c.epoch
      BY <2>1, <3>1
    <3> QED
      BY <1>3, <3>1, <3>2, <3>3, Zenon
  <2>5. ASSUME Retire(o, c) PROVE LeavesKept
    <3>1. /\ SetLeaf(o, Successor(c, c.epoch + 1, o, "retired", TRUE))
          /\ leaf[c.key] = c /\ HasNextEpoch(c)
      BY <2>5 DEF Retire, RequireExact
    <3>2. /\ "retired" \in ClaimPhase /\ TRUE \in BOOLEAN /\ o \in Owners \cup {None}
          /\ c.require_binding => TRUE
      BY DEF ClaimPhase
    <3>3. c.epoch + 1 \in 1..MaxEpoch /\ c.epoch + 1 >= c.epoch
      BY <2>1, <3>1
    <3> QED
      BY <1>3, <3>1, <3>2, <3>3, Zenon
  <2>6. ASSUME Release(o, c) PROVE LeavesKept
    BY <1>3, <2>1, <2>6 DEF Release, RequireExact, ClaimPhase
  <2>7. ASSUME AdoptLegacy(o, c) PROVE LeavesKept
    BY <1>3, <2>1, <2>7 DEF AdoptLegacy, RequireExact, ClaimPhase
  <2>8. ASSUME ConsumeBirthOnce(c) PROVE LeavesKept
    BY <1>1, <2>8 DEF ConsumeBirthOnce
  <2> QED
    BY <1>4, <2>2, <2>3, <2>4, <2>5, <2>6, <2>7, <2>8 DEF Transaction
<1>5. ASSUME NEW o \in Owners, NEW e \in Claim \cup {None}, NEW k \in Keys, NEW r \in Runtimes,
             NEW g \in Generations, Reserve(o, e, k, r, g)
      PROVE  LeavesKept
  <2> DEFINE c == [key |-> k, runtime |-> r, generation |-> g,
                   epoch |-> IF e = None THEN 1 ELSE e.epoch + 1, owner |-> o,
                   phase |-> "authorized_birth", require_binding |-> TRUE]
  <2>1. /\ leaf[k] = e /\ leaf' = [leaf EXCEPT ![k] = c]
        /\ e # None => HasNextEpoch(e)
    BY <1>5 DEF Reserve, SetLeaf
  <2>2. c \in Claim /\ c.require_binding
    BY <2>1 DEF Claim, HasNextEpoch, ClaimPhase
  <2>3. c # None
    BY <2>2
  <2>4. e # None => e.epoch \in Nat /\ c.epoch = e.epoch + 1
    BY DEF Claim
  <2> HIDE DEF c
  <2>5. leaf'[k] = c /\ \A j \in Keys : j # k => leaf'[j] = leaf[j]
    BY <2>1 DEF TypeOK
  <2>6. leaf[k] # None => c.epoch >= leaf[k].epoch
    BY <2>1, <2>4
  <2>7. \A j \in Keys : leaf[j] # None => leaf[j].epoch \in Nat
    BY DEF TypeOK, Claim
  <2> QED
    BY <2>2, <2>3, <2>5, <2>6, <2>7 DEF LeavesKept
<1>6. ASSUME NEW o \in Owners, NEW host \in Evidence, ObserveExisting(o, host) PROVE LeavesKept
  <2>1. host.key \in Keys
    BY DEF Evidence
  <2> QED
    BY <1>2, <1>6, <2>1 DEF ObserveExisting, SetLeaf
<1>7. ASSUME NEW o \in Owners, NEW k \in Keys, NEW r \in Runtimes, NEW single \in BOOLEAN,
             ImportLegacy(o, k, r, single)
      PROVE  LeavesKept
  BY <1>2, <1>7 DEF ImportLegacy, SetLeaf
<1>8. ASSUME \/ Quiet
             \/ \E o \in Owners : Commits(o)
             \/ \E permit \in permits : RunGuarded(permit) \/ LosePermit(permit)
      PROVE  leaf' = leaf
  BY <1>8 DEF Quiet, Commits, RunGuarded, LosePermit
<1> QED
  BY <1>1, <1>4, <1>5, <1>6, <1>7, <1>8 DEF LedgerStep

(* A policy is never removed; its alias closes once, and keeps its root.   *)
PoliciesKept ==
    \A p \in Panels : policy[p] # None =>
        /\ policy'[p] # None
        /\ policy[p].closed => policy'[p].closed
        /\ policy'[p].alias_epoch >= policy[p].alias_epoch
        /\ policy'[p].root = policy[p].root

\* The steps that write a policy.
WritesPolicy ==
    \/ \E o \in Owners, k \in Keys, r \in Runtimes, single \in BOOLEAN :
          ImportLegacy(o, k, r, single)
    \/ \E p \in Panels, root \in Keys, e \in (1..MaxEpoch) \cup {None} :
          CloseLegacyAlias(p, e, root)

LEMMA OthersKeepPolicies == ASSUME [Next]_vars, ~WritesPolicy PROVE policy' = policy
<1>1. ASSUME NEW o \in Owners, ClaimStep(o) PROVE policy' = policy
  BY <1>1 DEF ClaimStep, Install, FenceRetire, Retire, Release, Adopt, AdoptLegacy,
              ConsumeBirthOnce
<1>2. ASSUME NEW o \in Owners, NEW k \in Keys, NEW r \in Runtimes, NEW g \in Generations,
             \/ Reserve(o, None, k, r, g) \/ Reserve(o, held[o], k, r, g)
             \/ ResolveBound(o, k, r, g)
      PROVE  policy' = policy
  BY <1>2 DEF Reserve, ResolveBound
<1>3. ASSUME NEW o \in Owners, NEW k \in Keys, ResolveLegacyLeaf(o, k) \/ HookClaim(o, k)
      PROVE  policy' = policy
  BY <1>3 DEF ResolveLegacyLeaf, HookClaim
<1>4. ASSUME NEW o \in Owners,
             \/ \E host \in Evidence : ObserveExisting(o, host)
             \/ \E p \in Panels : ResolveLegacyRoot(o, p)
             \/ OwnedEffect(o) \/ EndpointCrash(o)
      PROVE  policy' = policy
  BY <1>4 DEF ObserveExisting, ResolveLegacyRoot, OwnedEffect, EndpointCrash
<1>5. ASSUME NEW permit \in permits, RunGuarded(permit) \/ LosePermit(permit)
      PROVE  policy' = policy
  BY <1>5 DEF RunGuarded, LosePermit
<1>6. CASE UNCHANGED vars
  BY <1>6 DEF vars
<1> QED
  BY <1>1, <1>2, <1>3, <1>4, <1>5, <1>6, Zenon DEF Next, WritesPolicy

LEMMA LedgerKeepsPolicies == ASSUME TypeOK, [Next]_vars PROVE PoliciesKept
<1>1. CASE ~WritesPolicy
  <2>1. policy' = policy
    BY <1>1, OthersKeepPolicies
  <2>2. \A p \in Panels : policy[p] # None => policy[p].alias_epoch \in Nat
    BY DEF TypeOK, Policy
  <2> QED
    BY <2>1, <2>2 DEF PoliciesKept
<1>2. ASSUME NEW p \in Panels, NEW root \in Keys, NEW e \in 1..MaxEpoch, NEW closed \in BOOLEAN,
             policy' = [policy EXCEPT ![p] = [root |-> root, alias_epoch |-> e, closed |-> closed]],
             policy[p] # None =>
                 /\ policy[p].root = root /\ policy[p].alias_epoch <= e
                 /\ policy[p].closed => closed
      PROVE  PoliciesKept
  <2> DEFINE row == [root |-> root, alias_epoch |-> e, closed |-> closed]
  <2>1. /\ row # None /\ row.root = root /\ row.alias_epoch = e /\ row.closed = closed
    <3>1. row \in Policy
      BY DEF Policy
    <3> QED
      BY <3>1
  <2>2. policy' = [policy EXCEPT ![p] = row]
    BY <1>2
  <2> HIDE DEF row
  <2>3. policy'[p] = row /\ \A q \in Panels : q # p => policy'[q] = policy[q]
    BY <2>2 DEF TypeOK
  <2>4. \A q \in Panels : policy[q] # None => policy[q].alias_epoch \in Nat
    BY DEF TypeOK, Policy
  <2> QED
    BY <1>2, <2>1, <2>3, <2>4 DEF PoliciesKept
<1>3. ASSUME NEW o \in Owners, NEW k \in Keys, NEW r \in Runtimes, NEW single \in BOOLEAN,
             ImportLegacy(o, k, r, single)
      PROVE  PoliciesKept
  <2>1. PanelOf[k] \in Panels /\ 1 \in 1..MaxEpoch
    OBVIOUS
  <2>2. CASE policy' = policy
    <3>1. \A p \in Panels : policy[p] # None => policy[p].alias_epoch \in Nat
      BY DEF TypeOK, Policy
    <3> QED
      BY <2>2, <3>1 DEF PoliciesKept
  <2>3. CASE policy' # policy
    <3>1. /\ policy[PanelOf[k]] = None
          /\ policy' = [policy EXCEPT ![PanelOf[k]] =
                           [root |-> k, alias_epoch |-> 1, closed |-> FALSE]]
      BY <1>3, <2>3 DEF ImportLegacy
    <3> QED
      BY <1>2, <2>1, <3>1
  <2> QED
    BY <2>2, <2>3
<1>4. ASSUME NEW p \in Panels, NEW root \in Keys, NEW e \in (1..MaxEpoch) \cup {None},
             CloseLegacyAlias(p, e, root)
      PROVE  PoliciesKept
  <2>1. CASE e = None
    <3>1. /\ policy[p] = None
          /\ policy' = [policy EXCEPT ![p] =
                           [root |-> root, alias_epoch |-> 1, closed |-> TRUE]]
      BY <1>4, <2>1 DEF CloseLegacyAlias
    <3>2. 1 \in 1..MaxEpoch /\ TRUE \in BOOLEAN
      OBVIOUS
    <3> QED
      BY <1>2, <3>1, <3>2
  <2>2. CASE e # None
    <3>1. /\ policy[p] # None /\ policy[p].alias_epoch = e /\ policy[p].root = root
          /\ e \in 1..MaxEpoch /\ e < MaxEpoch
          /\ policy' = [policy EXCEPT ![p] =
                           [root |-> root, alias_epoch |-> e + 1, closed |-> TRUE]]
      BY <1>4, <2>2 DEF CloseLegacyAlias
    <3>2. e + 1 \in 1..MaxEpoch
      BY <3>1
    <3>3. policy[p].alias_epoch <= e + 1
      BY <3>1
    <3> QED
      BY <1>2, <3>1, <3>2, <3>3
  <2> QED
    BY <2>1, <2>2
<1> QED
  BY <1>1, <1>3, <1>4 DEF WritesPolicy

(* A closed alias lets no unbound leaf in ...                              *)
LEMMA ClosedAdmitsBound ==
    ASSUME TypeOK, LedgerStep, NEW k \in Keys, policy[PanelOf[k]] # None,
           policy[PanelOf[k]].closed, leaf[k] = None, leaf'[k] # None
    PROVE  leaf'[k].require_binding
<1>1. ASSUME NEW o \in Owners, NEW c \in Claim, Transaction(o, c) PROVE FALSE
  <2>1. leaf[c.key] = c /\ c # None /\ c.key \in Keys
    BY <1>1 DEF Transaction, Install, FenceRetire, Retire, Release, Adopt, AdoptLegacy,
                ConsumeBirthOnce, RequireExact, Claim
  <2>2. leaf' = leaf \/ \E d : leaf' = [leaf EXCEPT ![c.key] = d]
    BY <1>1 DEF Transaction, Install, FenceRetire, Retire, Release, Adopt, AdoptLegacy,
                ConsumeBirthOnce, SetLeaf, Successor
  <2> QED
    BY <2>1, <2>2 DEF TypeOK
<1>2. ASSUME NEW j \in Keys, NEW c, leaf' = [leaf EXCEPT ![j] = c], c.require_binding
      PROVE  leaf'[k].require_binding
  BY <1>2 DEF TypeOK
<1>3. ASSUME NEW o \in Owners, NEW e \in Claim \cup {None}, NEW j \in Keys, NEW r \in Runtimes,
             NEW g \in Generations, Reserve(o, e, j, r, g)
      PROVE  leaf'[k].require_binding
  <2> DEFINE c == [key |-> j, runtime |-> r, generation |-> g,
                   epoch |-> IF e = None THEN 1 ELSE e.epoch + 1, owner |-> o,
                   phase |-> "authorized_birth", require_binding |-> TRUE]
  <2>1. leaf' = [leaf EXCEPT ![j] = c]
    BY <1>3 DEF Reserve, SetLeaf
  <2>2. c.require_binding
    OBVIOUS
  <2> HIDE DEF c
  <2> QED
    BY <1>2, <2>1, <2>2
<1>4. ASSUME NEW o \in Owners, NEW host \in Evidence, ObserveExisting(o, host)
      PROVE  leaf'[k].require_binding
  <2> DEFINE c == [key |-> host.key, runtime |-> host.runtime, generation |-> host.generation,
                   epoch |-> 1, owner |-> o, phase |-> "active", require_binding |-> TRUE]
  <2>1. leaf' = [leaf EXCEPT ![host.key] = c]
    BY <1>4 DEF ObserveExisting, SetLeaf
  <2>2. c.require_binding /\ host.key \in Keys
    BY DEF Evidence
  <2> HIDE DEF c
  <2> QED
    BY <1>2, <2>1, <2>2
<1>5. ASSUME NEW o \in Owners, NEW j \in Keys, NEW r \in Runtimes, NEW single \in BOOLEAN,
             ImportLegacy(o, j, r, single)
      PROVE  leaf'[k].require_binding
  <2>1. PanelOf[j] # PanelOf[k] /\ \E c : leaf' = [leaf EXCEPT ![j] = c]
    BY <1>5 DEF ImportLegacy, SetLeaf
  <2>2. leaf'[k] = leaf[k]
    BY <2>1 DEF TypeOK
  <2> QED
    BY <2>2
<1>6. ASSUME \/ Quiet
             \/ \E o \in Owners : Commits(o)
             \/ \E permit \in permits : RunGuarded(permit) \/ LosePermit(permit)
      PROVE  FALSE
  BY <1>6 DEF Quiet, Commits, RunGuarded, LosePermit
<1> QED
  BY <1>1, <1>3, <1>4, <1>5, <1>6 DEF LedgerStep

(* ... and no work resolved through it has an effect any more.             *)
LEMMA ClosedHasNoEffect ==
    ASSUME TypeOK, [Next]_vars, NEW o \in Owners, inflight[o] # None,
           inflight[o].alias_epoch # None,
           policy[PanelOf[inflight[o].claim.key]].closed,
           inflight'[o] = None
    PROVE  effects' = effects
<1>1. ASSUME NEW e \in Owners, OwnedEffect(e) PROVE effects' = effects
  <2>1. e = o
    BY <1>1 DEF OwnedEffect, TypeOK
  <2>2. ASSUME ValidateOwned(inflight[o]) PROVE FALSE
    <3> DEFINE k == inflight[o].claim.key
               row == [root |-> k, alias_epoch |-> inflight[o].alias_epoch, closed |-> FALSE]
    <3>1. policy[PanelOf[k]] = row
      BY <2>2 DEF ValidateOwned
    <3>2. ~row.closed
      OBVIOUS
    <3> QED
      BY <3>1, <3>2
  <2> QED
    BY <1>1, <2>1, <2>2 DEF OwnedEffect
<1>2. ASSUME NEW e \in Owners, ClaimStep(e) PROVE effects' = effects
  BY <1>2 DEF ClaimStep, Install, FenceRetire, Retire, Release, Adopt, AdoptLegacy,
              ConsumeBirthOnce, volatile
<1>3. ASSUME NEW e \in Owners, NEW k \in Keys, NEW r \in Runtimes, NEW g \in Generations,
             \/ Reserve(e, None, k, r, g) \/ Reserve(e, held[e], k, r, g)
             \/ ResolveBound(e, k, r, g)
      PROVE  effects' = effects
  BY <1>3 DEF Reserve, ResolveBound, volatile
<1>4. ASSUME NEW e \in Owners, NEW k \in Keys, ResolveLegacyLeaf(e, k) \/ HookClaim(e, k)
      PROVE  effects' = effects
  BY <1>4 DEF ResolveLegacyLeaf, HookClaim
<1>5. ASSUME NEW e \in Owners,
             \/ \E host \in Evidence : ObserveExisting(e, host)
             \/ \E p \in Panels : ResolveLegacyRoot(e, p)
             \/ EndpointCrash(e)
      PROVE  effects' = effects
  BY <1>5 DEF ObserveExisting, ResolveLegacyRoot, EndpointCrash
<1>6. ASSUME NEW permit \in permits, RunGuarded(permit) \/ LosePermit(permit)
      PROVE  effects' = effects
  BY <1>6 DEF RunGuarded, LosePermit
<1>7. CASE UNCHANGED vars
  BY <1>7 DEF vars
<1>8. ASSUME WritesPolicy PROVE effects' = effects
  BY <1>8 DEF WritesPolicy, ImportLegacy, CloseLegacyAlias, volatile
<1> QED
  BY <1>1, <1>2, <1>3, <1>4, <1>5, <1>6, <1>7, <1>8, Zenon DEF Next, WritesPolicy

(* ClosedForGood: splitting a panel closes its legacy alias for good, and  *)
(* no transition asks for an update that a sticky trigger of migrate_v3    *)
(* would abort.                                                            *)
THEOREM ClosedStaysClosed == Spec => ClosedForGood
<1>1. IInv /\ [Next]_vars =>
        [/\ \A g \in Generations : gens[g] # None =>
               /\ gens'[g] # None
               /\ gens[g].phase = "retired" => gens'[g] = gens[g]
               /\ gens[g].spawn_consumed => gens'[g].spawn_consumed
               /\ gens'[g].key = gens[g].key /\ gens'[g].runtime = gens[g].runtime
               /\ gens'[g].birth_owner = gens[g].birth_owner
               /\ gens'[g].born_epoch = gens[g].born_epoch
         /\ \A k \in Keys : leaf[k] # None =>
               /\ leaf'[k] # None
               /\ leaf'[k].epoch >= leaf[k].epoch
               /\ leaf[k].require_binding => leaf'[k].require_binding
         /\ \A p \in Panels : policy[p] # None =>
               /\ policy'[p] # None
               /\ policy[p].closed => policy'[p].closed
               /\ policy'[p].alias_epoch >= policy[p].alias_epoch
               /\ policy'[p].root = policy[p].root]_vars
  BY StepCases, LedgerKeepsNonces, LedgerKeepsLeaves, LedgerKeepsPolicies
  DEF IInv, NoncesKept, LeavesKept, PoliciesKept
<1>2. IInv /\ [Next]_vars =>
        [\A p \in Panels : policy[p] # None /\ policy[p].closed =>
            /\ \A k \in Keys : PanelOf[k] = p /\ leaf[k] = None /\ leaf'[k] # None =>
                  leaf'[k].require_binding
            /\ \A o \in Owners :
                  /\ inflight[o] # None
                  /\ inflight[o].alias_epoch # None
                  /\ PanelOf[inflight[o].claim.key] = p
                  /\ inflight'[o] = None
                  => effects' = effects]_vars
  BY StepCases, ClosedAdmitsBound, ClosedHasNoEffect DEF IInv
<1>3. Spec => TriggersNeverFire
  BY <1>1, Inductive, PTL DEF Spec, TriggersNeverFire
<1>4. Spec => AliasClosedForGood
  BY <1>2, Inductive, PTL DEF Spec, AliasClosedForGood
<1> QED
  BY <1>3, <1>4 DEF ClosedForGood


-----------------------------------------------------------------------------
(* The runtime's steps are the ledger's.                                   *)

\* A claim of a birth that is in the generations table.
Born(c) == c \in Claim /\ c.generation # None /\ gens[c.generation] # None

RegistriesHold ==
    /\ gate \in [Keys -> GateState \cup {None}]
    /\ claims \in [Keys -> Claim \cup {None}]
    /\ closing \in [Runtimes -> Closing \cup {None}]
    /\ cancelled \subseteq Runtimes /\ finishing \subseteq Runtimes
    /\ \A k \in Keys : gate[k] # None => gate[k].claim.key = k
    /\ \A k \in Keys : claims[k] # None => claims[k].key = k /\ Born(claims[k])
    /\ \A r \in Runtimes : closing[r] # None => Born(closing[r].claim)

BirthHolds ==
    /\ birth \in Birth
    /\ birth.pc # "idle" => birth.key # None /\ birth.runtime # None
    /\ birth.pc \notin {"idle", "checked"} => Born(birth.claim)

WorkersHold ==
    /\ refresh \in Claim \cup {None}
    /\ closer \in Closer
    /\ closer.pc # "idle" => closer.runtime # None /\ Born(closer.claim)

\* A job holds the context it was admitted with, an envelope on offer belongs
\* to the job in the ring, and effects in flight are the job's.
HooksHold ==
    /\ job \in {"idle", "admitted", "running", "effected", "queued"}
    /\ env \in Envelope \cup {None}
    /\ job # "idle" => inflight[Me] # None
    /\ env # None /\ env.state # "abandoned" => job = "queued"
    /\ \A k \in Keys : gate[k] # None /\ gate[k].in_flight # 0 =>
          job \in {"running", "effected"} /\ SameAuthority(gate[k].claim, Ticket)

LocalsHold ==
    /\ pending \subseteq Generations /\ observed \subseteq Generations
    /\ queued \in [Generations -> BOOLEAN \cup {None}]
    /\ local \in [Generations -> {"none", "new", "fenced", "draining"}]
    /\ \A g \in Generations : g \in observed \/ local[g] # "none" => gens[g] # None

HostsHold == spawned \subseteq Claim /\ dead \subseteq Generations

ExitHolds == admission \in BOOLEAN /\ shutdown \in ShutdownPc

\* Between the two halves of register the gate that is open is the birth's.
GatesHold ==
    /\ OpenGateIsRegistered
    /\ birth.pc \in {"gated", "attach_gated"} =>
          LET g == gate[birth.claim.key]
          IN  g # None /\ g.open => SameAuthority(birth.claim, g.claim)

\* While an envelope may still be claimed the ledger is locked.
OfferedWhileOwned ==
    env # None /\ env.state # "abandoned" =>
        /\ leaf[env.claim.key] # None
        /\ SameAuthority(leaf[env.claim.key], env.claim)
        /\ leaf[env.claim.key].phase = "active"

RuntimeIInv ==
    /\ IInv
    /\ RegistriesHold /\ BirthHolds /\ WorkersHold /\ HooksHold
    /\ LocalsHold /\ HostsHold /\ ExitHolds
    /\ GatesHold /\ OfferedWhileOwned

(* What a child testifies to is evidence.                                  *)
LEMMA EvidenceType ==
    ASSUME TypeOK, NEW g \in Generations, gens[g] # None
    PROVE  EvidenceOf(g) \in Evidence
BY DEF TypeOK, Generation, Evidence, EvidenceOf

RowsStay == \A g \in Generations : gens[g] # None => gens'[g] # None

(* No transaction removes a generation.                                    *)
LEMMA LedgerKeepsRows == ASSUME TypeOK, LedgerStep PROVE RowsStay
BY LedgerKeepsNonces DEF NoncesKept, RowsStay

(* A step of the ledger keeps its invariant.                               *)
LEMMA LedgerInductive == ASSUME IInv, LedgerStep, TypeOK' PROVE IInv' /\ RowsStay
BY OneLiveBirthStep, OnePermitStep, EffectsStep, LedgerKeepsRows DEF IInv

(* The ledger is left alone, or another endpoint cannot tell.              *)
LEMMA QuietStep ==
    ASSUME TypeOK
    PROVE  /\ NoTransaction => LedgerStep /\ TypeOK' /\ leaf' = leaf /\ inflight' = inflight
           /\ DropJob => LedgerStep /\ TypeOK' /\ leaf' = leaf
<1>1. NoTransaction => LedgerStep /\ TypeOK' /\ leaf' = leaf /\ inflight' = inflight
  BY DEF NoTransaction, vars, LedgerStep, Quiet, TypeOK
<1>2. DropJob => LedgerStep /\ TypeOK' /\ leaf' = leaf
  BY RuntimeAssumption DEF DropJob, LedgerStep, Quiet, TypeOK
<1> QED
  BY <1>1, <1>2

(* A transaction of the runtime is one of the ledger.                      *)
LEMMA TransactionStep ==
    ASSUME TypeOK, NEW o \in Owners, NEW c \in Claim, Transaction(o, c)
    PROVE  LedgerStep /\ TypeOK' /\ inflight' = inflight
<1>1. inflight' = inflight
  BY DEF Transaction, Install, FenceRetire, Retire, Release, Adopt, AdoptLegacy, ConsumeBirthOnce,
     volatile
<1> QED
  BY <1>1, TransactionType DEF LedgerStep

(* A reservation hands out the claim of the birth it registers.            *)
LEMMA ReservedClaim ==
    ASSUME TypeOK, NEW o \in Owners, NEW e \in Claim \cup {None}, NEW k \in Keys,
           NEW r \in Runtimes, NEW g \in Generations, Reserve(o, e, k, r, g)
    PROVE  leaf'[k] \in Claim /\ leaf'[k].generation = g /\ gens'[g] # None
<1> DEFINE c == [key |-> k, runtime |-> r, generation |-> g,
                 epoch |-> IF e = None THEN 1 ELSE e.epoch + 1, owner |-> o,
                 phase |-> "authorized_birth", require_binding |-> TRUE]
           new == NewGeneration(c, FALSE, "authorized_birth")
<1>1. c \in Claim /\ c.generation = g
  BY DEF Reserve, HasNextEpoch, Claim, ClaimPhase
<1>2. new \in Generation
  BY <1>1 DEF NewGeneration, Generation, Claim
<1>3. leaf' = [leaf EXCEPT ![k] = c] /\ gens' = [gens EXCEPT ![g] = new]
  BY DEF Reserve, SetLeaf
<1> HIDE DEF c, new
<1> QED
  BY <1>1, <1>2, <1>3 DEF TypeOK

(* The evidence of a child names the birth whose claim it proves.          *)
LEMMA ProvenClaim ==
    ASSUME TypeOK, TypeOK', NEW o \in Owners, NEW c \in Claim, NEW host \in Evidence,
           c = leaf[host.key], Install(o, c, host) \/ Adopt(o, c, host)
    PROVE  leaf'[host.key] \in Claim /\ leaf'[host.key].generation = host.generation
<1>1. c.key = host.key /\ c.generation = host.generation /\ host.key \in Keys
  BY DEF Install, Adopt, Proves, Evidence
<1>2. PICK e \in 1..MaxEpoch : SetLeaf(o, Successor(c, e, o, "active", c.require_binding))
  <2>1. c.epoch \in 1..MaxEpoch /\ (HasNextEpoch(c) => c.epoch + 1 \in 1..MaxEpoch)
    BY DEF Claim, HasNextEpoch
  <2> QED
    BY <2>1 DEF Install, Adopt
<1>3. c.require_binding \in BOOLEAN /\ "active" \in ClaimPhase
  BY DEF Claim, ClaimPhase
<1>4. leaf'[c.key] # None /\ leaf'[c.key].generation = c.generation
  BY <1>2, <1>3, WrittenClaim
<1> QED
  BY <1>1, <1>4 DEF TypeOK

(* Every step of the recovery worker is a step of the ledger.              *)
LEMMA RecoveryWorkerLedger ==
    ASSUME RuntimeIInv, RecoveryWorker
    PROVE  LedgerStep /\ TypeOK' /\ inflight' = inflight /\ (leaf' = leaf \/ WriterFree)
<1> DEFINE Ledger == LedgerStep /\ TypeOK' /\ inflight' = inflight /\ (leaf' = leaf \/ WriterFree)
<1> SUFFICES Ledger
  OBVIOUS
<1>0. /\ TypeOK /\ Me \in Owners
      /\ birth \in Birth
      /\ birth.pc # "idle" => birth.key \in Keys /\ birth.runtime \in Runtimes
      /\ birth.pc \notin {"idle", "checked"} => Born(birth.claim)
  BY RuntimeAssumption DEF IInv, RuntimeIInv, BirthHolds, Birth
<1>1. CASE NoTransaction
  BY <1>0, <1>1, QuietStep
<1>2. ASSUME NEW g \in Generations, ReserveFresh(g) PROVE Ledger
  <2>1. leaf[birth.key] \in Claim \cup {None} /\ birth.key \in Keys /\ birth.runtime \in Runtimes
    BY <1>0, <1>2 DEF ReserveFresh, TypeOK
  <2>2. LedgerStep
    BY <1>0, <1>2, <2>1 DEF ReserveFresh, LedgerStep
  <2>3. TypeOK'
    BY <1>0, <1>2, <2>1, ReserveType DEF ReserveFresh
  <2> QED
    BY <1>2, <2>2, <2>3 DEF ReserveFresh, Reserve, volatile
<1>3. CASE Consume
  <2>1. birth.claim \in Claim /\ Transaction(Me, birth.claim) /\ WriterFree
    BY <1>0, <1>3 DEF Consume, Transaction, Born
  <2> QED
    BY <1>0, <2>1, TransactionStep
<1>4. CASE RunFactory \/ FactoryFails
  <2>1. /\ birth.claim \in permits /\ WriterFree
        /\ RunGuarded(birth.claim) \/ LosePermit(birth.claim)
    BY <1>4 DEF RunFactory, FactoryFails, RunGuarded, LosePermit
  <2>2. TypeOK'
    BY <1>0, <2>1, PermitType
  <2> QED
    BY <2>1, <2>2 DEF LedgerStep, RunGuarded, LosePermit
<1>5. CASE NoChildConfirm
  <2> DEFINE c == leaf[closing[birth.runtime].claim.key]
  <2>1. c # None /\ FenceRetire(Me, c) /\ WriterFree
    BY <1>5 DEF NoChildConfirm, MayFence
  <2>2. closing[birth.runtime] \in Closing
    BY <1>0, <1>5 DEF NoChildConfirm, MayFence, RuntimeIInv, RegistriesHold
  <2>3. c \in Claim
    BY <1>0, <2>1, <2>2 DEF TypeOK, Closing, Claim
  <2> QED
    BY <1>0, <2>1, <2>3, TransactionStep DEF Transaction
<1>6. ASSUME NEW g \in Generations, AttachTransaction(g) PROVE Ledger
  <2> DEFINE host == EvidenceOf(g)
             expected == leaf[host.key]
  <2>1. host \in Evidence /\ expected # None
    BY <1>0, <1>6, EvidenceType DEF AttachTransaction
  <2>2. expected \in Claim
    BY <1>0, <2>1 DEF TypeOK, Evidence
  <2>3. \/ NoTransaction
        \/ WriterFree /\ Install(Me, expected, host)
        \/ WriterFree /\ Adopt(Me, expected, host)
    BY <1>6 DEF AttachTransaction
  <2> HIDE DEF host, expected
  <2>4. NoTransaction \/ (WriterFree /\ Transaction(Me, expected))
    BY <2>1, <2>3 DEF Transaction
  <2> QED
    BY <1>0, <1>1, <2>2, <2>4, TransactionStep
<1>7. CASE AttachLocal
  <2>1. birth.claim.generation \in Generations
    BY <1>0, <1>7 DEF AttachLocal, Born, Claim
  <2> QED
    BY <1>6, <1>7, <2>1 DEF AttachLocal
<1>8. ASSUME NEW g \in Generations, AttachRemote(g) PROVE Ledger
  BY <1>6, <1>8 DEF AttachRemote
<1>9. ASSUME NEW accepted \in BOOLEAN, FactoryCloses(accepted) PROVE NoTransaction
  BY <1>9 DEF FactoryCloses, RequestLocalClose
<1>10. ASSUME \/ \E k \in Keys, r \in Runtimes : Authorize(k, r)
              \/ RetryReserved \/ AuthorizeRefused
              \/ RegisterGate("reserved", "gated", IdleBirth)
              \/ RegisterClaim("gated", [birth EXCEPT !.pc = "registered"])
              \/ GrantCancelled \/ Grant \/ ConsumeRefused \/ BeginLocalFactory
              \/ NoChildBegin \/ NoChildGivesUp \/ SendSpawn \/ AttachLocalRefused
              \/ RegisterGate("attached", "attach_gated", AttachRefused)
              \/ RegisterClaim("attach_gated", AttachDone)
              \/ ObserveLocal
       PROVE  NoTransaction
  BY <1>10, Zenon DEF Authorize, RetryReserved, AuthorizeRefused, RegisterGate, RegisterClaim, GrantCancelled,
     Grant, ConsumeRefused, BeginLocalFactory, NoChildBegin, NoChildGivesUp, SendSpawn,
     AttachLocalRefused, ObserveLocal
<1> QED
  BY <1>1, <1>2, <1>3, <1>4, <1>5, <1>7, <1>8, <1>9, <1>10, Zenon DEF RecoveryWorker

(* So is every step of the hook-ledger worker ...                          *)
LEMMA LedgerWorkerLedger ==
    ASSUME RuntimeIInv, LedgerWorker
    PROVE  LedgerStep /\ TypeOK' /\ inflight' = inflight /\ (leaf' = leaf \/ WriterFree)
<1> DEFINE Ledger == LedgerStep /\ TypeOK' /\ inflight' = inflight /\ (leaf' = leaf \/ WriterFree)
<1> SUFFICES Ledger
  OBVIOUS
<1>0. /\ TypeOK /\ Me \in Owners
      /\ \A r \in Runtimes : closing[r] # None => closing[r].claim \in Claim
      /\ \A g \in Generations : local[g] # "none" => gens[g] # None
  BY RuntimeAssumption DEF IInv, RuntimeIInv, RegistriesHold, LocalsHold, Closing
<1>1. CASE NoTransaction
  BY <1>0, <1>1, QuietStep
<1>2. ASSUME NEW g \in Generations, RetireFenceLocal(g) PROVE Ledger
  <2> DEFINE r == gens[g].runtime
             c == leaf[closing[r].claim.key]
  <2>1. r \in Runtimes
    BY <1>0, <1>2 DEF RetireFenceLocal, TypeOK, Generation
  <2>2. ASSUME MayFence(r), WriterFree, FenceRetire(Me, c) PROVE Ledger
    <3>1. c # None /\ closing[r] # None
      BY <2>2 DEF MayFence
    <3>2. c \in Claim
      BY <1>0, <2>1, <3>1 DEF TypeOK, Claim
    <3> QED
      BY <1>0, <2>2, <3>2, TransactionStep, SMTT(40), ZenonT(40) DEF Transaction
  <2> QED
    BY <1>1, <1>2, <2>2 DEF RetireFenceLocal
<1>3. ASSUME NEW r \in Runtimes, Finish(r) PROVE Ledger
  <2> DEFINE c == leaf[closing[r].claim.key]
  <2>1. /\ c # None /\ closing[r] # None /\ WriterFree
        /\ Release(Me, c) \/ Retire(Me, c)
    BY <1>3 DEF Finish, MayFinish
  <2>2. c \in Claim
    BY <1>0, <2>1 DEF TypeOK, Claim
  <2> QED
    BY <1>0, <2>1, <2>2, TransactionStep DEF Transaction
<1>4. ASSUME NEW g \in Generations,
             \/ \E accepted \in BOOLEAN : CloseObserved(g, accepted)
             \/ RetireDrainLocal(g) \/ RetireCompleteLocal(g)
      PROVE  NoTransaction
  BY <1>4 DEF CloseObserved, RequestLocalClose, RetireDrainLocal, RetireCompleteLocal
<1>5. ASSUME (\E k \in Keys : RefreshReads(k)) \/ RefreshDrops PROVE NoTransaction
  BY <1>5 DEF RefreshReads, RefreshDrops
<1> QED
  BY <1>1, <1>2, <1>3, <1>4, <1>5, Zenon DEF LedgerWorker

(* ... of the remote closer ...                                            *)
LEMMA RemoteCloserLedger ==
    ASSUME RuntimeIInv, RemoteCloser
    PROVE  LedgerStep /\ TypeOK' /\ inflight' = inflight /\ (leaf' = leaf \/ WriterFree)
<1>0. /\ TypeOK /\ Me \in Owners
      /\ \A r \in Runtimes : closing[r] # None => closing[r].claim \in Claim
      /\ closer.pc # "idle" => closer.runtime \in Runtimes
  BY RuntimeAssumption DEF IInv, RuntimeIInv, RegistriesHold, WorkersHold, Closing, Closer
<1>1. CASE NoTransaction
  BY <1>0, <1>1, QuietStep
<1>2. CASE CloserFence
  <2> DEFINE r == closer.runtime
             c == leaf[closing[r].claim.key]
  <2>1. /\ r \in Runtimes /\ c # None /\ closing[r] # None /\ WriterFree
        /\ FenceRetire(Me, c)
    BY <1>0, <1>2 DEF CloserFence, MayFence
  <2>2. c \in Claim
    BY <1>0, <2>1 DEF TypeOK, Claim
  <2> QED
    BY <1>0, <2>1, <2>2, TransactionStep DEF Transaction
<1>3. ASSUME \/ \E r \in Runtimes : CloserStart(r)
             \/ CloserRecord \/ CloserResumes \/ HostCloses \/ CloserConfirms \/ CloserGivesUp
      PROVE  NoTransaction
  BY <1>3, Zenon DEF CloserStart, CloserRecord, CloserResumes, HostCloses, CloserConfirms,
     CloserGivesUp
<1> QED
  BY <1>1, <1>2, <1>3, Zenon DEF RemoteCloser

(* ... of the hook server's jobs and of the publication worker, whose      *)
(* owned write is the ledger's effect ...                                  *)
LEMMA HookJobsLedger ==
    ASSUME RuntimeIInv, HookJobs
    PROVE  LedgerStep /\ TypeOK' /\ leaf' = leaf
<1>0. TypeOK /\ Me \in Owners /\ (job # "idle" => inflight[Me] # None)
  BY RuntimeAssumption DEF IInv, RuntimeIInv, HooksHold
<1>1. CASE NoTransaction
  BY <1>0, <1>1, QuietStep
<1>2. CASE DropJob
  BY <1>0, <1>2, QuietStep
<1>3. ASSUME NEW k \in Keys, NEW r \in Runtimes, NEW g \in Generations, Admit(k, r, g)
      PROVE  LedgerStep /\ TypeOK' /\ leaf' = leaf
  <2>1. ResolveBound(Me, k, r, g)
    BY <1>3 DEF Admit
  <2>2. TypeOK'
    BY <1>0, <2>1, ResolveType
  <2> QED
    BY <2>1, <2>2 DEF ResolveBound, LedgerStep, Quiet
<1>4. CASE BeginEffects
  <2>1. NoTransaction \/ DropJob
    BY <1>4 DEF BeginEffects, DropJob
  <2> QED
    BY <1>1, <1>2, <2>1
<1>5. CASE MemoryEffect
  <2>1. Commits(Me)
    BY <1>0, <1>5 DEF MemoryEffect, Commits, Ticket
  <2>2. effects' \in [Keys -> Effect \cup {None}]
    BY <1>0, <2>1, CommitType
  <2>3. TypeOK'
    BY <1>0, <1>5, <2>2 DEF MemoryEffect, TypeOK
  <2> QED
    BY <1>0, <1>5, <2>1, <2>3 DEF MemoryEffect, LedgerStep
<1>6. ASSUME NEW accepted \in BOOLEAN, EndEffects(accepted)
      PROVE  LedgerStep /\ TypeOK' /\ leaf' = leaf
  BY <1>0, <1>6 DEF EndEffects, LedgerStep, Quiet, TypeOK
<1>7. ASSUME PublicationDenied \/ PublicationRefused PROVE DropJob
  BY <1>7 DEF PublicationDenied, PublicationRefused
<1>8. ASSUME PublicationOffers \/ PublicationTimeout PROVE NoTransaction
  BY <1>8 DEF PublicationOffers, PublicationTimeout
<1> QED
  BY <1>1, <1>2, <1>3, <1>4, <1>5, <1>6, <1>7, <1>8, Zenon DEF HookJobs

(* ... of the UI ...                                                       *)
LEMMA UiLedger == ASSUME RuntimeIInv, Ui PROVE LedgerStep /\ TypeOK' /\ leaf' = leaf
<1>1. ASSUME \/ \E r \in Runtimes, permanent \in BOOLEAN : UiClose(r, permanent)
             \/ UiClaims \/ Freeze \/ Sample
      PROVE  NoTransaction
  BY <1>1 DEF UiClose, UiClaims, Freeze, Sample
<1>2. ASSUME UiDrops PROVE NoTransaction \/ DropJob
  BY <1>2 DEF UiDrops
<1> QED
  BY <1>1, <1>2, QuietStep, Zenon DEF Ui, IInv, RuntimeIInv

(* ... and of the daemon, the children and the other endpoints.            *)
LEMMA EnvironmentLedger ==
    ASSUME RuntimeIInv, Environment
    PROVE  LedgerStep /\ TypeOK' /\ inflight' = inflight /\ (leaf' = leaf \/ WriterFree)
<1> DEFINE Ledger == LedgerStep /\ TypeOK' /\ inflight' = inflight /\ (leaf' = leaf \/ WriterFree)
<1>0. TypeOK /\ Me \in Owners /\ spawned \subseteq Claim
  BY RuntimeAssumption DEF IInv, RuntimeIInv, HostsHold
<1>1. CASE NoTransaction
  BY <1>0, <1>1, QuietStep
<1>2. ASSUME NEW c \in spawned, HostConsume(c) PROVE Ledger
  <2>1. Transaction(Me, c) /\ WriterFree /\ c \in Claim
    BY <1>0, <1>2 DEF HostConsume, Transaction
  <2> QED
    BY <1>0, <2>1, TransactionStep
<1>3. ASSUME NEW c \in spawned, HostFactory(c) PROVE Ledger
  <2>1. c \in permits /\ RunGuarded(c) /\ WriterFree
    BY <1>3 DEF HostFactory, RunGuarded
  <2>2. TypeOK'
    BY <1>0, <2>1, PermitType
  <2> QED
    BY <2>1, <2>2 DEF LedgerStep, RunGuarded, LosePermit
<1>4. ASSUME NEW o \in Owners \ {Me}, NEW k \in Keys, OtherStep(o, k) PROVE Ledger
  <2> DEFINE c == leaf[k]
  <2>1. c \in Claim /\ WriterFree
    BY <1>0, <1>4 DEF OtherStep, TypeOK
  <2>2. ASSUME Adopt(o, c, EvidenceOf(c.generation)) PROVE Transaction(o, c)
    <3>1. c.generation \in Generations /\ gens[c.generation] # None
      BY <2>1, <2>2 DEF Adopt, GenerationLive, Claim
    <3> QED
      BY <1>0, <2>2, <3>1, EvidenceType DEF Transaction
  <2>3. NoTransaction \/ Transaction(o, c)
    BY <1>4, <2>2 DEF OtherStep, Transaction
  <2> QED
    BY <1>0, <1>1, <2>1, <2>3, TransactionStep
<1>5. ASSUME NEW g \in Generations, ChildExits(g) PROVE NoTransaction
  BY <1>5 DEF ChildExits
<1> QED
  BY <1>1, <1>2, <1>3, <1>4, <1>5, Zenon DEF Environment

(* The runtime does nothing to the ledger but the ledger's transactions,   *)
(* and no row of a leaf changes while an envelope is on offer.             *)
LEMMA RuntimeLedgerStep ==
    ASSUME RuntimeIInv, [RuntimeNext]_all_vars
    PROVE  /\ LedgerStep /\ TypeOK' /\ RowsStay
           /\ leaf' = leaf \/ WriterFree
<1>1. CASE RuntimeNext
  BY <1>1, RecoveryWorkerLedger, LedgerWorkerLedger, RemoteCloserLedger, HookJobsLedger, UiLedger,
     EnvironmentLedger, LedgerKeepsRows DEF RuntimeNext, IInv, RuntimeIInv
<1>2. CASE UNCHANGED all_vars
  BY <1>2, QuietStep, LedgerKeepsRows DEF all_vars, NoTransaction, IInv, RuntimeIInv
<1> QED
  BY <1>1, <1>2

-----------------------------------------------------------------------------
(* Gates.                                                                  *)

(* same_authority compares fields, so it is symmetric and transitive.      *)
LEMMA SameAuthorityIsEquality ==
    ASSUME NEW a, NEW b, SameAuthority(a, b)
    PROVE  /\ SameAuthority(b, a)
           /\ a.key = b.key
           /\ \A c : SameAuthority(b, c) => SameAuthority(a, c)
BY DEF SameAuthority

\* A step that may close gates and does nothing else to them.
OnlyCloses ==
    /\ gate' \in [Keys -> GateState \cup {None}]
    /\ \A k \in Keys :
          /\ gate'[k] # None <=> gate[k] # None
          /\ gate'[k] # None =>
                /\ gate'[k].claim = gate[k].claim
                /\ gate'[k].in_flight = gate[k].in_flight
                /\ gate'[k].open => gate[k].open

(* begin_retire closes the gate issued for the claim, if it is the current *)
(* one, and touches no other gate.                                         *)
LEMMA ClosedGate ==
    ASSUME RegistriesHold, NEW c, gate' = Closed(c)
    PROVE  /\ OnlyCloses
           /\ \A k \in Keys : gate'[k] # None /\ SameAuthority(gate'[k].claim, c) =>
                 ~gate'[k].open
<1> DEFINE shut(k) == [gate[k] EXCEPT !.open = FALSE]
<1>1. \A k \in Keys : gate[k] # None =>
          /\ shut(k) \in GateState /\ shut(k) # None
          /\ shut(k).claim = gate[k].claim /\ shut(k).in_flight = gate[k].in_flight
          /\ shut(k).open = FALSE /\ gate[k].claim.key = k
  <2> SUFFICES ASSUME NEW k \in Keys, gate[k] # None
               PROVE  /\ shut(k) \in GateState /\ shut(k) # None
                      /\ shut(k).claim = gate[k].claim /\ shut(k).in_flight = gate[k].in_flight
                      /\ shut(k).open = FALSE /\ gate[k].claim.key = k
    OBVIOUS
  <2>1. gate[k] \in GateState /\ gate[k].claim.key = k
    BY DEF RegistriesHold
  <2>2. shut(k) \in GateState
    BY <2>1, Zenon DEF GateState
  <2>3. /\ shut(k).claim = gate[k].claim /\ shut(k).in_flight = gate[k].in_flight
        /\ shut(k).open = FALSE
    BY <2>1 DEF GateState
  <2> QED
    BY <2>1, <2>2, <2>3, RegistryAssumption
<1>2. gate \in [Keys -> GateState \cup {None}]
  BY DEF RegistriesHold
<1>3. CASE GateOf(c) /\ c.key \in Keys
  <2>1. gate' = [gate EXCEPT ![c.key] = shut(c.key)]
    BY <1>3 DEF Closed
  <2> HIDE DEF shut
  <2>2. /\ gate'[c.key] = shut(c.key)
        /\ \A k \in Keys : k # c.key => gate'[k] = gate[k]
        /\ gate' \in [Keys -> GateState \cup {None}]
    BY <1>1, <1>2, <1>3, <2>1 DEF GateOf
  <2>3. OnlyCloses
    BY <1>1, <1>3, <2>2 DEF OnlyCloses, GateOf
  <2> QED
    BY <1>1, <1>3, <2>2, <2>3 DEF SameAuthority, GateOf
<1>4. CASE ~(GateOf(c) /\ c.key \in Keys)
  <2>1. gate' = gate
    BY <1>2, <1>4 DEF Closed
  <2>2. ASSUME NEW k \in Keys, gate[k] # None, SameAuthority(gate[k].claim, c) PROVE FALSE
    <3>1. c.key = k
      BY <1>1, <2>2 DEF SameAuthority
    <3> QED
      BY <1>4, <2>2, <3>1 DEF GateOf
  <2> QED
    BY <1>2, <2>1, <2>2 DEF OnlyCloses
<1> QED
  BY <1>3, <1>4

(* Closing gates keeps every open gate registered, as long as the claims   *)
(* that go leave no gate open behind them.                                 *)
LEMMA ClosingKeepsGates ==
    ASSUME RuntimeIInv, OnlyCloses,
           \A k \in Keys : \/ claims'[k] = claims[k]
                           \/ gate'[k] # None /\ gate'[k].open =>
                                 ~SameAuthority(claims[k], gate'[k].claim),
           \/ birth' = birth
           \/ /\ birth.pc \notin {"gated", "attach_gated"}
              /\ birth'.pc \notin {"gated", "attach_gated"}
    PROVE  GatesHold'
<1> USE DEF RuntimeIInv, GatesHold, OpenGateIsRegistered, OnlyCloses
<1>1. OpenGateIsRegistered'
  <2> SUFFICES ASSUME NEW k \in Keys, gate'[k] # None, gate'[k].open
               PROVE  \/ claims'[k] # None /\ SameAuthority(claims'[k], gate'[k].claim)
                      \/ /\ birth'.pc \in {"gated", "attach_gated"}
                         /\ SameAuthority(birth'.claim, gate'[k].claim)
    OBVIOUS
  <2>1. gate[k] # None /\ gate[k].open /\ gate'[k].claim = gate[k].claim
    OBVIOUS
  <2> QED
    BY <2>1
<1>2. ASSUME birth'.pc \in {"gated", "attach_gated"},
             gate'[birth'.claim.key] # None, gate'[birth'.claim.key].open
      PROVE  SameAuthority(birth'.claim, gate'[birth'.claim.key].claim)
  <2>1. birth' = birth /\ birth.claim.key \in Keys
    BY <1>2 DEF BirthHolds, Born, Claim
  <2> QED
    BY <1>2, <2>1
<1> QED
  BY <1>1, <1>2

(* And keeps the effects in flight the job's.                              *)
LEMMA ClosingKeepsHooks ==
    ASSUME HooksHold, OnlyCloses, UNCHANGED <<hooks, inflight>>
    PROVE  HooksHold'
BY DEF HooksHold, OnlyCloses, hooks, Ticket

(* Registries whose gates only close, and that gain no claim.              *)
LEMMA ClosingKeepsRegistries ==
    ASSUME RegistriesHold, RowsStay, OnlyCloses,
           claims' \in [Keys -> Claim \cup {None}],
           \A k \in Keys : claims'[k] \in {claims[k], None},
           closing' \in [Runtimes -> Closing \cup {None}],
           \A r \in Runtimes : closing'[r] # None => Born(closing'[r].claim),
           cancelled' \subseteq Runtimes, finishing' \subseteq Runtimes
    PROVE  RegistriesHold'
<1> USE DEF RegistriesHold, OnlyCloses
<1>1. \A k \in Keys : gate'[k] # None => gate'[k].claim.key = k
  OBVIOUS
<1>2. ASSUME NEW c, Born(c)
      PROVE  c \in Claim /\ c.generation # None /\ gens'[c.generation] # None
  BY <1>2 DEF Born, RowsStay, Claim
<1>3. ASSUME NEW k \in Keys, claims'[k] # None PROVE claims'[k].key = k /\ Born(claims[k])'
  <2>1. claims'[k] = claims[k] /\ claims[k] # None
    BY <1>3
  <2> QED
    BY <1>2, <2>1 DEF Born
<1>4. ASSUME NEW r \in Runtimes, closing'[r] # None PROVE Born(closing[r].claim)'
  BY <1>2, <1>4 DEF Born
<1> QED
  BY <1>1, <1>3, <1>4

\* A claim goes only with its gate closed.
ClaimsGoClosed ==
    \A k \in Keys : \/ claims'[k] = claims[k]
                    \/ gate'[k] # None /\ gate'[k].open =>
                          ~SameAuthority(claims[k], gate'[k].claim)

(* An entry of the closing registry keeps its claim when it is confirmed.  *)
LEMMA ConfirmedEntry ==
    ASSUME NEW e \in Closing
    PROVE  /\ [e EXCEPT !.confirmed = TRUE] \in Closing
           /\ [e EXCEPT !.confirmed = TRUE] # None
           /\ [e EXCEPT !.confirmed = TRUE].claim = e.claim
<1>1. [e EXCEPT !.confirmed = TRUE] \in Closing
  BY Zenon DEF Closing
<1>2. [e EXCEPT !.confirmed = TRUE].claim = e.claim
  BY DEF Closing
<1> QED
  BY <1>1, <1>2, RegistryAssumption

(* And one whose claim a fence replaces is an entry still.                 *)
LEMMA ReplacedClaim ==
    ASSUME NEW e \in Closing, NEW c \in Claim
    PROVE  /\ [e EXCEPT !.claim = c] \in Closing
           /\ [e EXCEPT !.claim = c] # None
           /\ [e EXCEPT !.claim = c].claim = c
           /\ [e EXCEPT !.claim = c, !.confirmed = TRUE] \in Closing
           /\ [e EXCEPT !.claim = c, !.confirmed = TRUE] # None
           /\ [e EXCEPT !.claim = c, !.confirmed = TRUE].claim = c
<1>1. [e EXCEPT !.claim = c] \in Closing /\ [e EXCEPT !.claim = c].claim = c
  BY Zenon DEF Closing
<1>2. /\ [e EXCEPT !.claim = c, !.confirmed = TRUE] \in Closing
      /\ [e EXCEPT !.claim = c, !.confirmed = TRUE].claim = c
  <2>1. [e EXCEPT !.claim = c, !.confirmed = TRUE].claim = c
    BY DEF Closing
  <2> QED
    BY <2>1, Zenon DEF Closing
<1> QED
  BY <1>1, <1>2, RegistryAssumption

(* A claim that enters the closing registry.                               *)
LEMMA FreshEntry ==
    ASSUME NEW c \in Claim, NEW permanent \in BOOLEAN
    PROVE  LET e == [claim |-> c, fence |-> c, permanent |-> permanent, confirmed |-> FALSE]
           IN  e \in Closing /\ e # None /\ e.claim = c
<1> DEFINE e == [claim |-> c, fence |-> c, permanent |-> permanent, confirmed |-> FALSE]
<1>1. e \in Closing
  BY Zenon DEF Closing
<1> QED
  BY <1>1, RegistryAssumption

(* begin_close closes the gate of the claim it takes out.                  *)
LEMMA BeginCloseStep ==
    ASSUME RuntimeIInv, RowsStay, NEW r \in Runtimes, NEW permanent \in BOOLEAN,
           NEW confirmed \in BOOLEAN, BeginClose(r, permanent, confirmed)
    PROVE  RegistriesHold' /\ OnlyCloses /\ ClaimsGoClosed
<1> DEFINE found == RegisteredUnder(r) # {}
           f == FoundUnder(r)
           c == claims[f]
           fresh == [claim |-> c, fence |-> c, permanent |-> permanent, confirmed |-> FALSE]
           entry == IF found /\ GateOf(c) THEN fresh ELSE closing[r]
<1>0. RegistriesHold
  BY DEF RuntimeIInv
<1>1. found => f \in Keys /\ c \in Claim /\ c # None /\ c.key = f /\ Born(c)
  <2>1. found => f \in RegisteredUnder(r)
    BY DEF FoundUnder
  <2> QED
    BY <1>0, <2>1 DEF RegisteredUnder, RegistriesHold
<1>2. /\ claims' = IF found THEN [claims EXCEPT ![f] = None] ELSE claims
      /\ gate' = IF found THEN Closed(c) ELSE gate
      /\ closing' = [closing EXCEPT ![r] =
             IF confirmed /\ entry # None THEN [entry EXCEPT !.confirmed = TRUE] ELSE entry]
      /\ cancelled' = cancelled \cup {r}
      /\ finishing' = IF confirmed THEN finishing \cup {r} ELSE finishing
  BY DEF BeginClose
<1>3. entry \in Closing \cup {None} /\ (entry # None => Born(entry.claim))
  <2>1. CASE found /\ GateOf(c)
    <3>1. entry = fresh
      BY <2>1
    <3>2. fresh \in Closing /\ fresh.claim = c
      BY <1>1, <2>1, FreshEntry
    <3> QED
      BY <1>1, <2>1, <3>1, <3>2
  <2>2. CASE ~(found /\ GateOf(c))
    BY <1>0, <2>2 DEF RegistriesHold
  <2> QED
    BY <2>1, <2>2
<1> HIDE DEF entry
<1>4. /\ closing' \in [Runtimes -> Closing \cup {None}]
      /\ \A q \in Runtimes : closing'[q] # None => Born(closing'[q].claim)
  <2> DEFINE new == IF confirmed /\ entry # None THEN [entry EXCEPT !.confirmed = TRUE] ELSE entry
  <2>1. new \in Closing \cup {None} /\ (new # None => Born(new.claim))
    <3>1. CASE confirmed /\ entry # None
      BY <1>3, <3>1, ConfirmedEntry
    <3>2. CASE ~(confirmed /\ entry # None)
      BY <1>3, <3>2
    <3> QED
      BY <3>1, <3>2
  <2>2. closing' = [closing EXCEPT ![r] = new]
    BY <1>2
  <2> HIDE DEF new
  <2> QED
    BY <1>0, <2>1, <2>2 DEF RegistriesHold
<1>5. /\ cancelled' \subseteq Runtimes /\ finishing' \subseteq Runtimes
      /\ claims' \in [Keys -> Claim \cup {None}]
      /\ \A k \in Keys : claims'[k] \in {claims[k], None}
  BY <1>0, <1>2 DEF RegistriesHold
<1>6. OnlyCloses /\ ClaimsGoClosed
  <2>1. CASE found
    <3>1. /\ OnlyCloses
          /\ \A k \in Keys : gate'[k] # None /\ SameAuthority(gate'[k].claim, c) =>
                ~gate'[k].open
      BY <1>0, <1>2, <2>1, ClosedGate
    <3>2. \A k \in Keys : k # f => claims'[k] = claims[k]
      BY <1>0, <1>2, <2>1 DEF RegistriesHold
    <3>3. gate'[f] # None /\ gate'[f].open => ~SameAuthority(claims[f], gate'[f].claim)
      BY <1>1, <2>1, <3>1, SameAuthorityIsEquality
    <3> QED
      BY <3>1, <3>2, <3>3 DEF ClaimsGoClosed
  <2>2. CASE ~found
    BY <1>0, <1>2, <2>2 DEF OnlyCloses, ClaimsGoClosed, RegistriesHold
  <2> QED
    BY <2>1, <2>2
<1> QED
  BY <1>0, <1>4, <1>5, <1>6, ClosingKeepsRegistries

(* begin_close_bound closes the gate of the birth it takes out.            *)
LEMMA BeginCloseBoundStep ==
    ASSUME RuntimeIInv, RowsStay, NEW host \in Evidence, BeginCloseBound(host),
           finishing' = finishing
    PROVE  RegistriesHold' /\ OnlyCloses /\ ClaimsGoClosed
<1> DEFINE c == claims[host.key]
           mine == OwnedClaim(host, c)
           fresh == [claim |-> c, fence |-> c, permanent |-> TRUE, confirmed |-> FALSE]
<1>0. RegistriesHold /\ host.key \in Keys /\ host.runtime \in Runtimes
  BY DEF RuntimeIInv, Evidence
<1>1. mine => c \in Claim /\ c # None /\ c.key = host.key /\ Born(c)
  BY <1>0 DEF RegistriesHold, OwnedClaim
<1>2. /\ claims' = IF mine THEN [claims EXCEPT ![host.key] = None] ELSE claims
      /\ gate' = IF mine THEN Closed(c) ELSE gate
      /\ closing' = IF mine THEN [closing EXCEPT ![host.runtime] = fresh] ELSE closing
      /\ cancelled' = cancelled \cup {host.runtime}
  BY DEF BeginCloseBound
<1>3. mine => fresh \in Closing /\ fresh.claim = c
  BY <1>1, FreshEntry
<1> HIDE DEF fresh
<1>4. /\ closing' \in [Runtimes -> Closing \cup {None}]
      /\ \A q \in Runtimes : closing'[q] # None => Born(closing'[q].claim)
  <2> HIDE DEF mine, c
  <2> QED
    BY <1>0, <1>1, <1>2, <1>3 DEF RegistriesHold
<1>5. /\ cancelled' \subseteq Runtimes /\ finishing' \subseteq Runtimes
      /\ claims' \in [Keys -> Claim \cup {None}]
      /\ \A k \in Keys : claims'[k] \in {claims[k], None}
  BY <1>0, <1>2 DEF RegistriesHold
<1>6. OnlyCloses /\ ClaimsGoClosed
  <2>1. CASE mine
    <3>1. /\ OnlyCloses
          /\ \A k \in Keys : gate'[k] # None /\ SameAuthority(gate'[k].claim, c) =>
                ~gate'[k].open
      BY <1>0, <1>2, <2>1, ClosedGate
    <3>2. \A k \in Keys : k # host.key => claims'[k] = claims[k]
      BY <1>0, <1>2, <2>1 DEF RegistriesHold
    <3>3. gate'[host.key] # None /\ gate'[host.key].open =>
              ~SameAuthority(c, gate'[host.key].claim)
      BY <1>0, <1>1, <2>1, <3>1, SameAuthorityIsEquality
    <3> QED
      BY <3>1, <3>2, <3>3 DEF ClaimsGoClosed
  <2>2. CASE ~mine
    BY <1>0, <1>2, <2>2 DEF OnlyCloses, ClaimsGoClosed, RegistriesHold
  <2> QED
    BY <2>1, <2>2
<1> QED
  BY <1>0, <1>4, <1>5, <1>6, ClosingKeepsRegistries

-----------------------------------------------------------------------------
(* What a step leaves alone stays as it was.                               *)

Gated == {"gated", "attach_gated"}

(* Conjunct by conjunct.                                                   *)
LEMMA Frames ==
    ASSUME RuntimeIInv, RowsStay
    PROVE  /\ UNCHANGED registries => RegistriesHold'
           /\ UNCHANGED birth => BirthHolds'
           /\ UNCHANGED workers => WorkersHold'
           /\ UNCHANGED <<gate, hooks, inflight>> => HooksHold'
           /\ UNCHANGED locals => LocalsHold'
           /\ UNCHANGED hosts => HostsHold'
           /\ UNCHANGED exit => ExitHolds'
           /\ UNCHANGED <<gate, claims, birth>> => GatesHold'
           /\ UNCHANGED <<gate, claims>> /\ birth.pc \notin Gated /\ birth'.pc \notin Gated =>
                 GatesHold'
           /\ (leaf' = leaf \/ WriterFree) /\ UNCHANGED env => OfferedWhileOwned'
<1> USE DEF RuntimeIInv
<1>0. ASSUME NEW c, Born(c)
      PROVE  c \in Claim /\ c.generation # None /\ gens'[c.generation] # None
  BY <1>0 DEF Born, RowsStay, Claim
<1>1. ASSUME UNCHANGED registries PROVE RegistriesHold'
  <2>1. ASSUME NEW k \in Keys, claims'[k] # None PROVE claims'[k].key = k /\ Born(claims[k])'
    BY <1>0, <1>1, <2>1 DEF registries, RegistriesHold, Born
  <2>2. ASSUME NEW r \in Runtimes, closing'[r] # None PROVE Born(closing[r].claim)'
    BY <1>0, <1>1, <2>2 DEF registries, RegistriesHold, Born
  <2> QED
    BY <1>1, <2>1, <2>2 DEF registries, RegistriesHold
<1>2. ASSUME UNCHANGED birth PROVE BirthHolds'
  BY <1>0, <1>2 DEF BirthHolds, Born
<1>3. ASSUME UNCHANGED workers PROVE WorkersHold'
  BY <1>0, <1>3 DEF workers, WorkersHold, Born
<1>4. ASSUME UNCHANGED <<gate, hooks, inflight>> PROVE HooksHold'
  BY <1>4 DEF hooks, HooksHold, Ticket
<1>5. ASSUME UNCHANGED locals PROVE LocalsHold'
  BY <1>5 DEF locals, LocalsHold, RowsStay
<1>6. ASSUME UNCHANGED hosts PROVE HostsHold'
  BY <1>6 DEF hosts, HostsHold
<1>7. ASSUME UNCHANGED exit PROVE ExitHolds'
  BY <1>7 DEF exit, ExitHolds
<1>8. ASSUME UNCHANGED <<gate, claims, birth>> PROVE GatesHold'
  BY <1>8 DEF GatesHold, OpenGateIsRegistered
<1>9. ASSUME UNCHANGED <<gate, claims>>, birth.pc \notin Gated, birth'.pc \notin Gated
      PROVE  GatesHold'
  BY <1>9 DEF GatesHold, OpenGateIsRegistered, Gated
<1>10. ASSUME leaf' = leaf \/ WriterFree, UNCHANGED env PROVE OfferedWhileOwned'
  BY <1>10 DEF WriterFree, OfferedWhileOwned
<1> QED
  BY <1>1, <1>2, <1>3, <1>4, <1>5, <1>6, <1>7, <1>8, <1>9, <1>10

(* The recovery worker moves on with the birth it has.                     *)
LEMMA BirthMovesOn ==
    ASSUME RuntimeIInv, RowsStay, NEW pc \in BirthPc,
           birth.pc \notin {"idle", "checked"}, birth' = [birth EXCEPT !.pc = pc]
    PROVE  BirthHolds' /\ birth'.pc = pc /\ birth'.claim = birth.claim
<1>1. /\ birth' \in Birth
      /\ birth'.pc = pc /\ birth'.claim = birth.claim
      /\ birth'.key = birth.key /\ birth'.runtime = birth.runtime
  <2>1. birth \in Birth
    BY DEF RuntimeIInv, BirthHolds
  <2>2. birth' \in Birth
    BY <2>1, Zenon DEF Birth
  <2> QED
    BY <2>1, <2>2 DEF Birth
<1>2. birth.key # None /\ birth.runtime # None /\ Born(birth.claim)
  BY DEF RuntimeIInv, BirthHolds
<1>3. birth.claim \in Claim /\ birth.claim.generation # None /\ gens'[birth.claim.generation] # None
  BY <1>2 DEF Born, RowsStay, Claim
<1> QED
  BY <1>1, <1>2, <1>3 DEF BirthHolds, Born

(* Or drops it.                                                            *)
LEMMA BirthEnds == ASSUME birth' = IdleBirth PROVE BirthHolds' /\ birth'.pc = "idle"
<1>1. IdleBirth \in Birth
  BY Zenon DEF IdleBirth, Birth, BirthPc
<1> QED
  BY <1>1 DEF IdleBirth, BirthHolds

(* A step of the recovery worker that does nothing to the registries and   *)
(* leaves the instant between the two halves of register to RegisterGate   *)
(* and RegisterClaim.                                                      *)
LEMMA BirthOnly ==
    ASSUME RuntimeIInv, IInv', RowsStay, inflight' = inflight, leaf' = leaf \/ WriterFree,
           UNCHANGED <<registries, workers, hooks, exit>>,
           birth.pc \notin Gated, birth'.pc \notin Gated,
           BirthHolds', LocalsHold', HostsHold'
    PROVE  RuntimeIInv'
<1>1. UNCHANGED <<gate, claims, hooks, inflight, env>>
  BY DEF registries, hooks
<1>2. UNCHANGED registries /\ UNCHANGED workers /\ UNCHANGED exit
  OBVIOUS
<1> QED
  BY <1>1, <1>2, Frames DEF RuntimeIInv

(* The gate of a leaf is written, the other registries are left alone.     *)
LEMMA GateWritten ==
    ASSUME RuntimeIInv, RowsStay, NEW k \in Keys, NEW new \in GateState, new.claim.key = k,
           gate' = [gate EXCEPT ![k] = new],
           UNCHANGED <<claims, closing, cancelled, finishing>>
    PROVE  /\ RegistriesHold'
           /\ gate'[k] = new /\ new # None
           /\ \A j \in Keys : j # k => gate'[j] = gate[j]
<1> USE DEF RuntimeIInv
<1>1. /\ gate' \in [Keys -> GateState \cup {None}]
      /\ gate'[k] = new
      /\ \A j \in Keys : j # k => gate'[j] = gate[j]
  BY DEF RegistriesHold
<1>2. \A j \in Keys : gate'[j] # None => gate'[j].claim.key = j
  BY <1>1 DEF RegistriesHold
<1>3. ASSUME NEW c, Born(c)
      PROVE  c \in Claim /\ c.generation # None /\ gens'[c.generation] # None
  BY <1>3 DEF Born, RowsStay, Claim
<1>4. ASSUME NEW j \in Keys, claims'[j] # None PROVE claims'[j].key = j /\ Born(claims[j])'
  BY <1>3, <1>4 DEF RegistriesHold, Born
<1>5. ASSUME NEW r \in Runtimes, closing'[r] # None PROVE Born(closing[r].claim)'
  BY <1>3, <1>5 DEF RegistriesHold, Born
<1>6. new # None
  BY RegistryAssumption
<1>7. RegistriesHold'
  BY <1>1, <1>2, <1>4, <1>5 DEF RegistriesHold
<1> QED
  BY <1>1, <1>6, <1>7

(* The first half of register: a gate is opened only for the birth that    *)
(* the second half registers.                                              *)
LEMMA RegisterGateStep ==
    ASSUME RuntimeIInv, IInv', RowsStay, inflight' = inflight, leaf' = leaf,
           NEW from \in {"reserved", "attached"}, NEW to \in Gated,
           NEW refused \in {IdleBirth, [birth EXCEPT !.pc = "orphan"]},
           RegisterGate(from, to, refused)
    PROVE  RuntimeIInv'
<1> DEFINE c == birth.claim
           k == c.key
           known == claims[k] # None /\ SameAuthority(claims[k], c)
           markable == c.phase # "active" \/ (GateOf(c) /\ gate[k].open)
           ok == IF known THEN markable ELSE CanInstall(c)
           fresh == [claim |-> c, open |-> TRUE, in_flight |-> 0,
                     installed |-> c.phase = "active"]
           marked == [gate[k] EXCEPT !.installed = TRUE]
<1>0. /\ birth.pc = from /\ birth.pc \notin Gated
      /\ birth.pc \notin {"idle", "checked"}
      /\ "orphan" \in BirthPc \ Gated
      /\ to \in BirthPc
  BY DEF RegisterGate, Gated, BirthPc
<1>1. c \in Claim /\ k \in Keys /\ c.key = k
  BY <1>0 DEF RuntimeIInv, BirthHolds, Born, Claim
<1>2. /\ gate' = IF ~ok THEN gate
                 ELSE IF ~known THEN [gate EXCEPT ![k] = fresh]
                 ELSE IF c.phase = "active" THEN [gate EXCEPT ![k] = marked]
                 ELSE gate
      /\ birth' = IF ok THEN [birth EXCEPT !.pc = to] ELSE refused
      /\ UNCHANGED <<claims, closing, cancelled, finishing, workers, hooks, locals, hosts, exit>>
  BY DEF RegisterGate
<1> HIDE DEF ok, known, fresh, marked
<1>3. /\ WorkersHold' /\ LocalsHold' /\ HostsHold' /\ ExitHolds'
      /\ OfferedWhileOwned'
  BY <1>2, Frames DEF hooks
<1>4. CASE ~ok
  <2>1. BirthHolds' /\ birth'.pc \notin Gated
    BY <1>0, <1>2, <1>4, BirthMovesOn, BirthEnds DEF Gated
  <2>2. UNCHANGED registries
    BY <1>2, <1>4 DEF registries
  <2> QED
    BY <1>0, <1>2, <1>3, <2>1, <2>2, BirthOnly
<1>5. CASE ok
  <2>1. BirthHolds' /\ birth'.pc \in Gated /\ birth'.claim = c
    BY <1>0, <1>2, <1>5, BirthMovesOn
  <2>2. ASSUME NEW new \in GateState, new.claim.key = k,
               gate' = [gate EXCEPT ![k] = new],
               new.in_flight # 0 =>
                   gate[k] # None /\ new.in_flight = gate[k].in_flight /\ new.claim = gate[k].claim,
               SameAuthority(c, new.claim)
        PROVE  RuntimeIInv'
    <3>1. /\ RegistriesHold' /\ gate'[k] = new /\ new # None
          /\ \A j \in Keys : j # k => gate'[j] = gate[j]
      <4>1. UNCHANGED <<claims, closing, cancelled, finishing>>
        BY <1>2
      <4> HIDE DEF k
      <4> QED
        BY <1>1, <2>2, <4>1, GateWritten
    <3>2. HooksHold'
      BY <1>2, <2>2, <3>1 DEF RuntimeIInv, HooksHold, hooks, Ticket
    <3>3. GatesHold'
      BY <1>0, <1>1, <1>2, <2>1, <2>2, <3>1
      DEF RuntimeIInv, GatesHold, OpenGateIsRegistered, Gated
    <3> QED
      BY <1>3, <2>1, <3>1, <3>2, <3>3 DEF RuntimeIInv
  <2>3. CASE ~known
    <3>1. CanInstall(c)
      BY <1>5, <2>3 DEF ok
    <3>2. SameAuthority(c, c)
      BY <3>1 DEF CanInstall, SameAuthority
    <3>3. fresh \in GateState
      <4>1. 0 \in 0..1
        OBVIOUS
      <4>2. TRUE \in BOOLEAN /\ (c.phase = "active") \in BOOLEAN
        OBVIOUS
      <4> QED
        BY <1>1, <4>1, <4>2, Zenon DEF fresh, GateState
    <3>4. fresh.claim = c /\ fresh.in_flight = 0
      BY DEF fresh
    <3> QED
      BY <1>1, <1>2, <1>5, <2>2, <2>3, <3>2, <3>3, <3>4
  <2>4. CASE known /\ c.phase = "active"
    <3>1. gate[k] # None /\ SameAuthority(gate[k].claim, c)
      BY <1>1, <1>5, <2>4 DEF ok, GateOf
    <3>2. gate[k] \in GateState /\ gate[k].claim.key = k
      BY <1>1, <3>1 DEF RuntimeIInv, RegistriesHold
    <3>3. marked \in GateState
      BY <3>2, Zenon DEF marked, GateState
    <3>4. marked.claim = gate[k].claim /\ marked.in_flight = gate[k].in_flight
      BY <3>2 DEF marked, GateState
    <3> QED
      BY <1>1, <1>2, <1>5, <2>2, <2>4, <3>1, <3>2, <3>3, <3>4, SameAuthorityIsEquality
  <2>5. CASE known /\ c.phase # "active"
    <3>1. UNCHANGED registries /\ UNCHANGED <<gate, claims, hooks, inflight>>
      BY <1>2, <1>5, <2>5 DEF registries
    <3>2. gate[k] # None /\ gate[k].open => SameAuthority(c, gate[k].claim)
      <4>1. ASSUME gate[k] # None, gate[k].open PROVE SameAuthority(claims[k], gate[k].claim)
        BY <1>0, <1>1, <4>1 DEF RuntimeIInv, GatesHold, OpenGateIsRegistered, Gated
      <4>2. SameAuthority(c, claims[k])
        BY <2>5, SameAuthorityIsEquality DEF known
      <4> QED
        BY <4>1, <4>2, SameAuthorityIsEquality
    <3>3. GatesHold'
      BY <1>0, <1>1, <2>1, <3>1, <3>2
      DEF RuntimeIInv, GatesHold, OpenGateIsRegistered, Gated
    <3> QED
      BY <1>3, <2>1, <3>1, <3>3, Frames DEF RuntimeIInv
  <2> QED
    BY <2>3, <2>4, <2>5
<1> QED
  BY <1>4, <1>5

(* The second half: the claim that is registered is the open gate's.       *)
LEMMA RegisterClaimStep ==
    ASSUME RuntimeIInv, IInv', RowsStay, inflight' = inflight, leaf' = leaf,
           NEW from \in Gated,
           NEW done \in {IdleBirth, [birth EXCEPT !.pc = "registered"],
                         [birth EXCEPT !.pc = "handoff"]},
           RegisterClaim(from, done)
    PROVE  RuntimeIInv'
<1> DEFINE c == birth.claim
           k == c.key
<1>0. /\ birth.pc \in Gated
      /\ birth.pc \notin {"idle", "checked"}
      /\ "registered" \in BirthPc \ Gated /\ "handoff" \in BirthPc \ Gated
  BY DEF RegisterClaim, Gated, BirthPc
<1>1. c \in Claim /\ k \in Keys /\ Born(c)
  BY <1>0 DEF RuntimeIInv, BirthHolds, Born, Claim
<1>2. /\ claims' = [claims EXCEPT ![k] = c] /\ birth' = done
      /\ UNCHANGED <<gate, closing, cancelled, finishing, workers, hooks, locals, hosts, exit>>
  BY DEF RegisterClaim
<1>3. BirthHolds' /\ birth'.pc \notin Gated
  BY <1>0, <1>2, BirthMovesOn, BirthEnds DEF Gated
<1>4. /\ WorkersHold' /\ HooksHold' /\ LocalsHold' /\ HostsHold' /\ ExitHolds'
      /\ OfferedWhileOwned'
  BY <1>2, Frames DEF hooks
<1>5. ASSUME NEW d, Born(d)
      PROVE  d \in Claim /\ d.generation # None /\ gens'[d.generation] # None
  BY <1>5 DEF Born, RowsStay, Claim
<1> HIDE DEF c, k
<1>6. /\ claims' \in [Keys -> Claim \cup {None}]
      /\ claims'[k] = c
      /\ \A j \in Keys : j # k => claims'[j] = claims[j]
  BY <1>1, <1>2 DEF RuntimeIInv, RegistriesHold
<1>7. c.key = k /\ c # None
  BY <1>1 DEF k
<1>8. RegistriesHold'
  <2>1. ASSUME NEW j \in Keys, claims'[j] # None PROVE claims'[j].key = j /\ Born(claims[j])'
    <3>1. Born(claims'[j]) /\ claims'[j].key = j
      BY <1>1, <1>6, <1>7, <2>1 DEF RuntimeIInv, RegistriesHold
    <3> QED
      BY <1>5, <3>1 DEF Born
  <2>2. ASSUME NEW r \in Runtimes, closing'[r] # None PROVE Born(closing[r].claim)'
    BY <1>2, <1>5, <2>2 DEF RuntimeIInv, RegistriesHold, Born
  <2> QED
    BY <1>2, <1>6, <2>1, <2>2 DEF RuntimeIInv, RegistriesHold
<1>9. GatesHold'
  <2> SUFFICES ASSUME NEW j \in Keys, gate'[j] # None, gate'[j].open
               PROVE  claims'[j] # None /\ SameAuthority(claims'[j], gate'[j].claim)
    BY <1>3 DEF GatesHold, OpenGateIsRegistered, Gated
  <2>1. gate[j] # None /\ gate[j].open /\ gate'[j] = gate[j] /\ gate[j].claim.key = j
    BY <1>2 DEF RuntimeIInv, RegistriesHold
  <2>2. CASE j = k
    BY <1>0, <1>6, <1>7, <2>1, <2>2 DEF RuntimeIInv, GatesHold, Gated, c, k
  <2>3. CASE j # k
    <3>1. ~SameAuthority(birth.claim, gate[j].claim)
      BY <1>7, <2>1, <2>3 DEF SameAuthority, c
    <3> QED
      BY <1>6, <2>1, <2>3, <3>1 DEF RuntimeIInv, GatesHold, OpenGateIsRegistered
  <2> QED
    BY <2>2, <2>3
<1> QED
  BY <1>3, <1>4, <1>8, <1>9 DEF RuntimeIInv

(* A step that touches gates and claims only to close them.                *)
LEMMA ClosesOnly ==
    ASSUME RuntimeIInv, IInv', inflight' = inflight, leaf' = leaf \/ WriterFree, RowsStay,
           RegistriesHold', OnlyCloses, ClaimsGoClosed, UNCHANGED hooks,
           \/ birth' = birth
           \/ birth.pc \notin Gated /\ birth'.pc \notin Gated,
           BirthHolds', WorkersHold', LocalsHold', HostsHold', ExitHolds'
    PROVE  RuntimeIInv'
<1>1. GatesHold'
  BY ClosingKeepsGates DEF ClaimsGoClosed, Gated
<1>2. HooksHold'
  BY ClosingKeepsHooks DEF RuntimeIInv
<1>3. OfferedWhileOwned'
  BY Frames DEF hooks
<1> QED
  BY <1>1, <1>2, <1>3 DEF RuntimeIInv

(* A step that leaves both alone is such a step.                           *)
LEMMA NothingCloses ==
    ASSUME RegistriesHold, UNCHANGED <<gate, claims>>
    PROVE  OnlyCloses /\ ClaimsGoClosed
BY DEF OnlyCloses, ClaimsGoClosed, RegistriesHold

(* The claim of a fence is that of the birth it fences.                    *)
LEMMA FencedClaim ==
    ASSUME RuntimeIInv, RowsStay, NEW r \in Runtimes, MayFence(r),
           FenceRetire(Me, leaf[closing[r].claim.key])
    PROVE  LET c == Fence(leaf[closing[r].claim.key])
           IN  c \in Claim /\ Born(c) /\ leaf'[closing[r].claim.key] = c
<1> DEFINE old == leaf[closing[r].claim.key]
<1>1. /\ closing[r] # None /\ Born(closing[r].claim) /\ closing[r].claim \in Claim
      /\ old # None /\ SameAuthority(closing[r].claim, old)
  BY DEF MayFence, RuntimeIInv, RegistriesHold, Born
<1>2. leaf \in [Keys -> Claim \cup {None}] /\ closing[r].claim.key \in Keys
  BY <1>1 DEF RuntimeIInv, IInv, TypeOK, Claim
<1>3. old \in Claim /\ old.key = closing[r].claim.key /\ old.generation = closing[r].claim.generation
  BY <1>1, <1>2 DEF SameAuthority
<1>4. /\ old.owner = Me /\ HasNextEpoch(old)
      /\ SetLeaf(Me, Successor(old, old.epoch + 1, Me, "retiring", TRUE))
  BY DEF FenceRetire
<1> HIDE DEF old
<1>5. Fence(old) = Successor(old, old.epoch + 1, Me, "retiring", TRUE)
  BY <1>4 DEF Fence
<1>6. Fence(old).generation = old.generation /\ Fence(old).key = old.key
  BY DEF Fence, Successor
<1> DEFINE new == Fence(old)
<1>8. leaf' = [leaf EXCEPT ![new.key] = new]
  BY <1>4, <1>5 DEF SetLeaf
<1>9. leaf'[closing[r].claim.key] = new
  <2> HIDE DEF new
  <2> QED
    BY <1>2, <1>3, <1>6, <1>8 DEF new
<1>7. Fence(old) \in Claim
  <2>1. old.epoch + 1 \in 1..MaxEpoch
    BY <1>3, <1>4, LedgerAssumption DEF Claim, HasNextEpoch
  <2>2. /\ old.key \in Keys /\ old.runtime \in Runtimes
        /\ old.generation \in Generations \cup {None} /\ old.owner \in Owners \cup {None}
    BY <1>3 DEF Claim
  <2>3. "retiring" \in ClaimPhase /\ TRUE \in BOOLEAN
    BY DEF ClaimPhase
  <2> QED
    BY <2>1, <2>2, <2>3, Zenon DEF Fence, Successor, Claim
<1> QED
  BY <1>1, <1>3, <1>6, <1>7, <1>9 DEF Born, old

(* A closing entry is replaced by another one of a birth.                  *)
LEMMA ClosingWritten ==
    ASSUME RuntimeIInv, RowsStay, NEW r \in Runtimes, NEW e \in Closing, Born(e.claim),
           closing' = [closing EXCEPT ![r] = e],
           UNCHANGED <<gate, claims, cancelled>>, finishing' \subseteq Runtimes
    PROVE  RegistriesHold' /\ OnlyCloses /\ ClaimsGoClosed
<1>0. RegistriesHold
  BY DEF RuntimeIInv
<1>1. /\ closing' \in [Runtimes -> Closing \cup {None}]
      /\ \A q \in Runtimes : closing'[q] # None => Born(closing'[q].claim)
  BY <1>0 DEF RegistriesHold
<1>2. OnlyCloses /\ ClaimsGoClosed
  BY <1>0, NothingCloses
<1>3. /\ cancelled' \subseteq Runtimes /\ claims' \in [Keys -> Claim \cup {None}]
      /\ \A k \in Keys : claims'[k] \in {claims[k], None}
  BY <1>0 DEF RegistriesHold
<1> QED
  BY <1>0, <1>1, <1>2, <1>3, ClosingKeepsRegistries

(* request_local_close, whether its queue has room or not.                 *)
LEMMA RequestLocalCloseStep ==
    ASSUME RuntimeIInv, RowsStay, NEW g \in Generations, gens[g] # None,
           NEW accepted \in BOOLEAN, RequestLocalClose(g, accepted)
    PROVE  /\ RegistriesHold' /\ OnlyCloses /\ ClaimsGoClosed /\ LocalsHold'
           /\ UNCHANGED <<workers, hooks, hosts, exit>>
<1>1. EvidenceOf(g) \in Evidence
  BY EvidenceType DEF RuntimeIInv, IInv
<1>2. RegistriesHold' /\ OnlyCloses /\ ClaimsGoClosed
  BY <1>1, BeginCloseBoundStep DEF RequestLocalClose
<1>3. LocalsHold'
  <2>1. /\ queued' = IF accepted THEN [queued EXCEPT ![g] = FALSE] ELSE queued
        /\ local' = IF accepted THEN [local EXCEPT ![g] = "new"] ELSE local
        /\ UNCHANGED <<pending, observed>>
    BY DEF RequestLocalClose
  <2>2. LocalsHold
    BY DEF RuntimeIInv
  <2>3. queued' \in [Generations -> BOOLEAN \cup {None}]
    <3>1. FALSE \in BOOLEAN \cup {None}
      OBVIOUS
    <3> QED
      BY <2>1, <2>2, <3>1, Zenon DEF LocalsHold
  <2>4. /\ local' \in [Generations -> {"none", "new", "fenced", "draining"}]
        /\ \A h \in Generations : local'[h] # "none" => h = g \/ local[h] # "none"
    BY <2>1, <2>2 DEF LocalsHold
  <2> QED
    BY <2>1, <2>2, <2>3, <2>4 DEF LocalsHold, RowsStay
<1>4. UNCHANGED <<workers, hooks, hosts, exit>>
  BY DEF RequestLocalClose
<1> QED
  BY <1>2, <1>3, <1>4

(* The remote closer's claim is of a birth still, whatever refresh reads.  *)
LEMMA CloserHolds ==
    ASSUME RuntimeIInv, RowsStay, closer' = closer, refresh' \in Claim \cup {None}
    PROVE  WorkersHold'
<1>1. closer.pc # "idle" => /\ closer.claim \in Claim /\ closer.claim.generation # None
                            /\ gens'[closer.claim.generation] # None
  BY DEF RuntimeIInv, WorkersHold, Born, RowsStay, Claim
<1> QED
  BY <1>1 DEF RuntimeIInv, WorkersHold, Born

(* It moves on with a claim of a birth.                                    *)
LEMMA CloserMovesOn ==
    ASSUME RuntimeIInv, RowsStay, NEW pc \in {"fenced", "recorded", "killed"}, NEW c, Born(c),
           closer.pc # "idle", closer' = [closer EXCEPT !.pc = pc, !.claim = c],
           refresh' = refresh
    PROVE  WorkersHold'
<1>1. closer \in Closer /\ closer.runtime # None /\ refresh \in Claim \cup {None}
  BY DEF RuntimeIInv, WorkersHold
<1>2. c \in Claim /\ c.generation # None /\ gens'[c.generation] # None
  BY DEF Born, RowsStay, Claim
<1>3. closer' \in Closer
  BY <1>1, <1>2, Zenon DEF Closer
<1>4. closer'.runtime = closer.runtime /\ closer'.claim = c
  BY <1>1 DEF Closer
<1> QED
  BY <1>1, <1>2, <1>3, <1>4 DEF WorkersHold, Born

(* Or gives up.                                                            *)
LEMMA CloserIdles ==
    ASSUME closer' = IdleCloser, refresh' \in Claim \cup {None} PROVE WorkersHold'
<1>1. IdleCloser \in Closer
  BY Zenon DEF IdleCloser, Closer
<1> QED
  BY <1>1 DEF IdleCloser, WorkersHold

(* Gates whose claims stay and that open no more than they were.           *)
LEMMA SteadyGates ==
    ASSUME RuntimeIInv, UNCHANGED <<claims, birth>>, NEW k \in Keys,
           gate[k] # None, gate'[k] # None,
           gate'[k].claim = gate[k].claim, gate'[k].open = gate[k].open,
           \A j \in Keys : j # k => gate'[j] = gate[j]
    PROVE  GatesHold'
<1>1. OpenGateIsRegistered'
  BY DEF RuntimeIInv, GatesHold, OpenGateIsRegistered
<1>2. ASSUME birth.pc \in Gated
      PROVE  LET g == gate'[birth.claim.key] IN g # None /\ g.open => SameAuthority(birth.claim, g.claim)
  <2>1. birth.claim.key \in Keys
    BY <1>2 DEF Gated, RuntimeIInv, BirthHolds, Born, Claim
  <2> QED
    BY <1>2, <2>1 DEF Gated, RuntimeIInv, GatesHold
<1> QED
  BY <1>1, <1>2 DEF GatesHold, Gated

(* A resolved query has a context.                                         *)
LEMMA ResolvedContext ==
    ASSUME TypeOK, NEW o \in Owners, NEW k \in Keys, NEW r \in Runtimes, NEW g \in Generations,
           ResolveBound(o, k, r, g)
    PROVE  inflight'[o] # None
BY NullAssumption DEF ResolveBound, TypeOK, Context

-----------------------------------------------------------------------------
(* Every step keeps the invariant: the recovery worker ...                 *)
LEMMA RecoveryWorkerStep == ASSUME RuntimeIInv, RecoveryWorker PROVE RuntimeIInv'
<1>0. /\ LedgerStep /\ IInv' /\ RowsStay /\ inflight' = inflight
      /\ leaf' = leaf \/ WriterFree
  BY RecoveryWorkerLedger, LedgerInductive DEF RuntimeIInv
<1>1. /\ TypeOK /\ OneLiveBirth /\ Me \in Owners
      /\ birth \in Birth /\ birth.fresh \in BOOLEAN
      /\ birth.pc # "idle" => birth.key \in Keys /\ birth.runtime \in Runtimes
      /\ birth.pc \notin {"idle", "checked"} =>
            /\ Born(birth.claim) /\ birth.claim \in Claim
            /\ birth.claim.key \in Keys
            /\ birth.claim.generation \in Generations /\ gens[birth.claim.generation] # None
  BY RuntimeAssumption DEF IInv, RuntimeIInv, BirthHolds, Birth, Born, Claim
<1>2. ASSUME NEW pc \in BirthPc \ Gated, birth.pc \notin Gated \cup {"idle", "checked"},
             birth' = [birth EXCEPT !.pc = pc],
             UNCHANGED <<registries, workers, hooks, exit>>, LocalsHold', HostsHold'
      PROVE  RuntimeIInv'
  BY <1>0, <1>2, BirthMovesOn, BirthOnly DEF Gated
<1>3. ASSUME birth.pc \notin Gated, birth' = IdleBirth,
             UNCHANGED <<registries, workers, hooks, exit>>, LocalsHold', HostsHold'
      PROVE  RuntimeIInv'
  BY <1>0, <1>3, BirthEnds, BirthOnly DEF Gated
<1>4. /\ UNCHANGED locals => LocalsHold'
      /\ UNCHANGED hosts => HostsHold'
  BY <1>0, Frames
<1>5. ASSUME NEW k \in Keys, NEW r \in Runtimes, Authorize(k, r) PROVE RuntimeIInv'
  <2>1. birth' = [pc |-> "checked", claim |-> None, key |-> k, runtime |-> r, fresh |-> TRUE]
    BY <1>5 DEF Authorize
  <2>2. birth' \in Birth
    <3>1. "checked" \in BirthPc
      BY DEF BirthPc
    <3> QED
      BY <2>1, <3>1, Zenon DEF Birth
  <2>3. /\ birth'.pc = "checked" /\ birth'.key = k /\ birth'.runtime = r
        /\ k # None /\ r # None
    BY <2>1, LedgerAssumption
  <2>4. BirthHolds'
    BY <2>2, <2>3 DEF BirthHolds
  <2> QED
    BY <1>0, <1>4, <1>5, <2>3, <2>4, BirthOnly DEF Authorize, Gated
<1>6. ASSUME NEW c \in Claim, NEW fresh \in BOOLEAN, NEW k \in Keys, NEW r \in Runtimes,
             NEW pc \in {"reserved", "attached"},
             birth.pc \notin Gated, c.generation # None, gens'[c.generation] # None,
             birth' \in Birth, birth'.pc = pc, birth'.claim = c, birth'.key = k,
             birth'.runtime = r,
             UNCHANGED <<registries, workers, hooks, locals, hosts, exit>>
      PROVE  RuntimeIInv'
  <2>1. BirthHolds'
    <3>1. k # None /\ r # None
      BY LedgerAssumption
    <3> QED
      BY <1>6, <3>1 DEF BirthHolds, Born
  <2> QED
    BY <1>0, <1>4, <1>6, <2>1, BirthOnly DEF Gated
<1>7. CASE RetryReserved
  <2> DEFINE c == leaf[birth.key]
  <2>1. /\ birth.pc = "checked" /\ birth.key \in Keys /\ birth.runtime \in Runtimes
        /\ c \in Claim /\ c # None /\ c.generation # None
        /\ birth' = [birth EXCEPT !.pc = "reserved", !.claim = c, !.fresh = FALSE]
    BY <1>1, <1>7 DEF RetryReserved, TypeOK
  <2>2. c.generation \in Generations /\ gens[c.generation] # None
    BY <1>1, <2>1 DEF OneLiveBirth, Claim
  <2> HIDE DEF c
  <2>3. birth' \in Birth
    <3>1. "reserved" \in BirthPc
      BY DEF BirthPc
    <3> QED
      BY <1>1, <2>1, <3>1, Zenon DEF Birth
  <2>4. /\ birth'.pc = "reserved" /\ birth'.claim = c
        /\ birth'.key = birth.key /\ birth'.runtime = birth.runtime
    BY <1>1, <2>1 DEF Birth
  <2>5. /\ gens'[c.generation] # None
        /\ UNCHANGED <<registries, workers, hooks, locals, hosts, exit>>
    BY <1>0, <1>7, <2>2 DEF RowsStay, RetryReserved
  <2> QED
    BY <1>6, <2>1, <2>3, <2>4, <2>5 DEF Gated
<1>8. ASSUME NEW g \in Generations, ReserveFresh(g) PROVE RuntimeIInv'
  <2> DEFINE c == leaf'[birth.key]
  <2>1. /\ birth.pc = "checked" /\ birth.key \in Keys /\ birth.runtime \in Runtimes
        /\ leaf[birth.key] \in Claim \cup {None}
        /\ Reserve(Me, leaf[birth.key], birth.key, birth.runtime, g)
        /\ birth' = [birth EXCEPT !.pc = "reserved", !.claim = c]
        /\ UNCHANGED <<registries, workers, hooks, locals, hosts, exit>>
    BY <1>1, <1>8 DEF ReserveFresh, TypeOK
  <2>2. c \in Claim /\ c.generation = g /\ g # None /\ gens'[g] # None
    BY <1>1, <2>1, ReservedClaim, LedgerAssumption
  <2> HIDE DEF c
  <2>3. birth' \in Birth
    <3>1. "reserved" \in BirthPc
      BY DEF BirthPc
    <3> QED
      BY <1>1, <2>1, <2>2, <3>1, Zenon DEF Birth
  <2>4. /\ birth'.pc = "reserved" /\ birth'.claim = c
        /\ birth'.key = birth.key /\ birth'.runtime = birth.runtime
    BY <1>1, <2>1 DEF Birth
  <2> QED
    BY <1>6, <2>1, <2>2, <2>3, <2>4 DEF Gated
<1>9. ASSUME NEW g \in Generations, AttachTransaction(g), birth.pc \in {"built", "idle"}
      PROVE  RuntimeIInv'
  <2> DEFINE host == EvidenceOf(g)
             c == leaf'[host.key]
  <2>1. /\ host \in Evidence /\ host.key \in Keys /\ host.runtime \in Runtimes
        /\ leaf[host.key] \in Claim
    BY <1>1, <1>9, EvidenceType DEF AttachTransaction, TypeOK, Evidence
  <2>2. c \in Claim /\ c.generation = g /\ g # None /\ gens'[g] # None
    <3>1. host.generation = g /\ gens'[g] # None
      BY <1>0, <1>9 DEF AttachTransaction, EvidenceOf, RowsStay
    <3>2. ASSUME NoTransaction, Proves(host, leaf[host.key]) PROVE c \in Claim /\ c.generation = g
      BY <2>1, <3>1, <3>2 DEF NoTransaction, vars, Proves
    <3>3. ASSUME Install(Me, leaf[host.key], host) \/ Adopt(Me, leaf[host.key], host)
          PROVE  c \in Claim /\ c.generation = g
      <4>1. TypeOK /\ TypeOK' /\ Me \in Owners
        BY <1>0, <1>1 DEF IInv
      <4> HIDE DEF host
      <4> QED
        BY <2>1, <3>1, <3>3, <4>1, ProvenClaim
    <3> QED
      BY <1>9, <3>1, <3>2, <3>3, LedgerAssumption DEF AttachTransaction
  <2>3. birth' = [pc |-> "attached", claim |-> c, key |-> host.key,
                  runtime |-> host.runtime, fresh |-> host.runtime \in Local]
    BY <1>9 DEF AttachTransaction
  <2> HIDE DEF c, host
  <2>4. birth' \in Birth
    <3>1. "attached" \in BirthPc /\ (host.runtime \in Local) \in BOOLEAN
      BY DEF BirthPc
    <3> QED
      BY <2>1, <2>2, <2>3, <3>1, Zenon DEF Birth
  <2>5. /\ birth'.pc = "attached" /\ birth'.claim = c
        /\ birth'.key = host.key /\ birth'.runtime = host.runtime
    BY <2>3
  <2>6. UNCHANGED <<registries, workers, hooks, locals, hosts, exit>>
    BY <1>9 DEF AttachTransaction
  <2> QED
    BY <1>6, <1>9, <2>1, <2>2, <2>4, <2>5, <2>6 DEF Gated
<1>10. CASE AttachLocal
  BY <1>1, <1>9, <1>10 DEF AttachLocal
<1>11. ASSUME NEW g \in Generations, AttachRemote(g) PROVE RuntimeIInv'
  BY <1>9, <1>11 DEF AttachRemote
<1>12. ASSUME RegisterGate("reserved", "gated", IdleBirth) PROVE RuntimeIInv'
  <2>1. leaf' = leaf
    BY <1>12 DEF RegisterGate, NoTransaction, vars
  <2> QED
    BY <1>0, <1>12, <2>1, RegisterGateStep DEF Gated
<1>13. ASSUME RegisterGate("attached", "attach_gated", AttachRefused) PROVE RuntimeIInv'
  <2>1. leaf' = leaf
    BY <1>13 DEF RegisterGate, NoTransaction, vars
  <2> QED
    BY <1>0, <1>13, <2>1, RegisterGateStep DEF Gated, AttachRefused
<1>14. ASSUME \/ RegisterClaim("gated", [birth EXCEPT !.pc = "registered"])
              \/ RegisterClaim("attach_gated", AttachDone)
       PROVE  RuntimeIInv'
  <2>1. leaf' = leaf
    BY <1>14 DEF RegisterClaim, NoTransaction, vars
  <2> QED
    BY <1>0, <1>14, <2>1, RegisterClaimStep DEF Gated, AttachDone
<1>15. CASE AuthorizeRefused \/ ConsumeRefused \/ NoChildGivesUp
  <2>1. /\ birth.pc \notin Gated /\ birth' = IdleBirth
        /\ UNCHANGED <<registries, workers, hooks, locals, hosts, exit>>
    BY <1>15 DEF AuthorizeRefused, ConsumeRefused, NoChildGivesUp, Gated
  <2> QED
    BY <1>3, <1>4, <2>1
<1>16. CASE Grant \/ Consume \/ AttachLocalRefused
  <2>1. /\ birth.pc \notin Gated \cup {"idle", "checked"}
        /\ \/ birth' = [birth EXCEPT !.pc = "granted"]
           \/ birth' = [birth EXCEPT !.pc = "consumed"]
           \/ birth' = [birth EXCEPT !.pc = "orphan"]
        /\ UNCHANGED <<registries, workers, hooks, locals, hosts, exit>>
    BY <1>16 DEF Grant, Consume, AttachLocalRefused, Gated
  <2>2. {"granted", "consumed", "orphan"} \subseteq BirthPc \ Gated
    BY DEF BirthPc, Gated
  <2> QED
    BY <1>2, <1>4, <2>1, <2>2
<1>17. CASE BeginLocalFactory
  <2>1. /\ birth.pc \notin Gated \cup {"idle", "checked"}
        /\ \/ birth' = [birth EXCEPT !.pc = "refused"]
           \/ birth' = [birth EXCEPT !.pc = "admitted"]
        /\ pending' \subseteq Generations
        /\ UNCHANGED <<registries, workers, hooks, observed, queued, local, hosts, exit>>
    BY <1>1, <1>17 DEF BeginLocalFactory, Gated, RuntimeIInv, LocalsHold
  <2>2. {"refused", "admitted"} \subseteq BirthPc \ Gated
    BY DEF BirthPc, Gated
  <2>3. LocalsHold'
    BY <1>0, <2>1 DEF RuntimeIInv, LocalsHold, RowsStay
  <2> QED
    BY <1>2, <1>4, <2>1, <2>2, <2>3
<1>18. CASE RunFactory \/ FactoryFails
  <2>1. /\ birth.pc \notin Gated \cup {"idle", "checked"}
        /\ \/ birth' = [birth EXCEPT !.pc = "built"]
           \/ birth' = [birth EXCEPT !.pc = "nochild"]
           \/ birth' = IdleBirth
        /\ UNCHANGED <<registries, workers, hooks, locals, hosts, exit>>
    BY <1>18 DEF RunFactory, FactoryFails, Gated
  <2>2. {"built", "nochild"} \subseteq BirthPc \ Gated
    BY DEF BirthPc, Gated
  <2> QED
    BY <1>2, <1>3, <1>4, <2>1, <2>2
<1>19. CASE SendSpawn
  <2>1. /\ birth.pc \notin Gated /\ birth' = IdleBirth
        /\ spawned' \subseteq Claim /\ dead' = dead
        /\ UNCHANGED <<registries, workers, hooks, locals, exit>>
    BY <1>1, <1>19 DEF SendSpawn, Gated, RuntimeIInv, HostsHold
  <2>2. HostsHold'
    BY <2>1 DEF RuntimeIInv, HostsHold
  <2> QED
    BY <1>3, <1>4, <2>1, <2>2
<1>20. CASE ObserveLocal
  <2>1. /\ birth.pc \notin Gated /\ birth' = IdleBirth
        /\ observed' = observed \cup {birth.claim.generation}
        /\ pending' \subseteq pending
        /\ birth.claim.generation \in Generations /\ gens[birth.claim.generation] # None
        /\ UNCHANGED <<registries, workers, hooks, queued, local, hosts, exit>>
    BY <1>1, <1>20 DEF ObserveLocal, Gated
  <2>2. LocalsHold'
    BY <1>0, <2>1 DEF RuntimeIInv, LocalsHold, RowsStay
  <2> QED
    BY <1>3, <1>4, <2>1, <2>2
<1>21. UNCHANGED workers => WorkersHold'
  BY <1>0, Frames
<1>22. UNCHANGED exit => ExitHolds'
  BY <1>0, Frames
<1>23. ASSUME RegistriesHold', OnlyCloses, ClaimsGoClosed,
              birth.pc \notin Gated, birth'.pc \notin Gated, BirthHolds', LocalsHold',
              UNCHANGED <<workers, hooks, hosts, exit>>
       PROVE  RuntimeIInv'
  BY <1>0, <1>4, <1>21, <1>22, <1>23, ClosesOnly
<1>24. CASE GrantCancelled
  <2>1. /\ BeginClose(birth.runtime, TRUE, birth.fresh)
        /\ birth.pc = "registered" /\ birth' = IdleBirth
        /\ UNCHANGED <<workers, hooks, locals, hosts, exit>>
    BY <1>24 DEF GrantCancelled
  <2>2. RegistriesHold' /\ OnlyCloses /\ ClaimsGoClosed
    BY <1>0, <1>1, <2>1, BeginCloseStep
  <2> QED
    BY <1>4, <1>23, <2>1, <2>2, BirthEnds DEF Gated
<1>25. CASE NoChildBegin
  <2> DEFINE host == EvidenceOf(birth.claim.generation)
  <2>1. host \in Evidence
    BY <1>1, <1>25, EvidenceType DEF NoChildBegin
  <2> HIDE DEF host
  <2>2. /\ birth.pc = "nochild" /\ finishing' = finishing
        /\ UNCHANGED <<workers, hooks, locals, hosts, exit>>
        /\ \/ BeginCloseBound(host) /\ birth' = [birth EXCEPT !.pc = "nochild_fenced"]
           \/ birth' = IdleBirth /\ UNCHANGED <<gate, claims, closing, cancelled>>
    BY <1>25 DEF NoChildBegin, host
  <2>3. CASE BeginCloseBound(host) /\ birth' = [birth EXCEPT !.pc = "nochild_fenced"]
    <3>1. RegistriesHold' /\ OnlyCloses /\ ClaimsGoClosed
      BY <1>0, <2>1, <2>2, <2>3, BeginCloseBoundStep
    <3>2. "nochild_fenced" \in BirthPc
      BY DEF BirthPc
    <3>3. BirthHolds' /\ birth'.pc = "nochild_fenced"
      BY <1>0, <2>2, <2>3, <3>2, BirthMovesOn
    <3> QED
      BY <1>4, <1>23, <2>2, <3>1, <3>3 DEF Gated
  <2>4. CASE birth' = IdleBirth /\ UNCHANGED <<gate, claims, closing, cancelled>>
    <3>1. UNCHANGED registries
      BY <2>2, <2>4 DEF registries
    <3> QED
      BY <1>3, <1>4, <2>2, <2>4, <3>1 DEF Gated
  <2> QED
    BY <2>2, <2>3, <2>4
<1>26. CASE NoChildConfirm
  <2> DEFINE r == birth.runtime
             c == Fence(leaf[closing[r].claim.key])
             e == [closing[r] EXCEPT !.claim = c, !.confirmed = TRUE]
  <2>1. /\ birth.pc = "nochild_fenced" /\ r \in Runtimes /\ MayFence(r)
        /\ FenceRetire(Me, leaf[closing[r].claim.key])
        /\ closing' = [closing EXCEPT ![r] = e]
        /\ finishing' = finishing \cup {r}
        /\ birth' = IdleBirth /\ pending' \subseteq pending
        /\ UNCHANGED <<gate, claims, cancelled, workers, hooks, observed, queued, local, hosts,
                       exit>>
    BY <1>1, <1>26 DEF NoChildConfirm
  <2>2. c \in Claim /\ Born(c)
    BY <1>0, <2>1, FencedClaim
  <2>3. closing[r] \in Closing /\ finishing' \subseteq Runtimes
    BY <2>1 DEF RuntimeIInv, RegistriesHold, MayFence
  <2> HIDE DEF c
  <2>4. e \in Closing /\ e.claim = c
    BY <2>2, <2>3, ReplacedClaim
  <2> HIDE DEF e, r
  <2>5. RegistriesHold' /\ OnlyCloses /\ ClaimsGoClosed
    BY <1>0, <2>1, <2>2, <2>3, <2>4, ClosingWritten
  <2>6. LocalsHold'
    BY <1>0, <2>1 DEF RuntimeIInv, LocalsHold, RowsStay
  <2> QED
    BY <1>23, <2>1, <2>5, <2>6, BirthEnds DEF Gated
<1>27. ASSUME NEW accepted \in BOOLEAN, FactoryCloses(accepted) PROVE RuntimeIInv'
  <2> DEFINE g == birth.claim.generation
  <2>1. /\ birth.pc \in {"handoff", "orphan"} /\ RequestLocalClose(g, accepted)
        /\ birth' = IF accepted THEN IdleBirth ELSE birth
    BY <1>27 DEF FactoryCloses
  <2>2. g \in Generations /\ gens[g] # None
    BY <1>1, <2>1
  <2> HIDE DEF g
  <2>3. /\ RegistriesHold' /\ OnlyCloses /\ ClaimsGoClosed /\ LocalsHold'
        /\ UNCHANGED <<workers, hooks, hosts, exit>>
    BY <1>0, <2>1, <2>2, RequestLocalCloseStep
  <2>4. BirthHolds' /\ birth'.pc \notin Gated
    <3>1. CASE accepted
      BY <2>1, <3>1, BirthEnds DEF Gated
    <3>2. CASE ~accepted
      BY <1>0, <2>1, <3>2, Frames DEF Gated
    <3> QED
      BY <3>1, <3>2
  <2> QED
    BY <1>23, <2>1, <2>3, <2>4 DEF Gated
<1> QED
  BY <1>5, <1>7, <1>8, <1>10, <1>11, <1>12, <1>13, <1>14, <1>15, <1>16, <1>17, <1>18, <1>19,
     <1>20, <1>24, <1>25, <1>26, <1>27, Zenon DEF RecoveryWorker

(* ... the hook-ledger worker ...                                          *)
LEMMA LedgerWorkerStep == ASSUME RuntimeIInv, LedgerWorker PROVE RuntimeIInv'
<1>0. /\ LedgerStep /\ IInv' /\ RowsStay /\ inflight' = inflight
      /\ leaf' = leaf \/ WriterFree
  BY LedgerWorkerLedger, LedgerInductive DEF RuntimeIInv
<1>1. /\ RegistriesHold /\ LocalsHold /\ TypeOK
      /\ \A g \in Generations : gens[g] # None => gens[g].runtime \in Runtimes
  BY DEF RuntimeIInv, IInv, TypeOK, Generation
<1>2. /\ UNCHANGED registries => RegistriesHold'
      /\ UNCHANGED birth => BirthHolds'
      /\ UNCHANGED workers => WorkersHold'
      /\ UNCHANGED locals => LocalsHold'
      /\ UNCHANGED hosts => HostsHold'
      /\ UNCHANGED exit => ExitHolds'
  BY <1>0, Frames
<1>3. ASSUME RegistriesHold', OnlyCloses, ClaimsGoClosed, WorkersHold', LocalsHold', HostsHold',
             UNCHANGED <<birth, hooks, exit>>
      PROVE  RuntimeIInv'
  BY <1>0, <1>2, <1>3, ClosesOnly
<1>4. UNCHANGED registries => OnlyCloses /\ ClaimsGoClosed
  BY <1>1, NothingCloses DEF registries
<1>5. ASSUME NEW g \in Generations, NEW accepted \in BOOLEAN, CloseObserved(g, accepted)
      PROVE  RuntimeIInv'
  <2>1. RequestLocalClose(g, accepted) /\ birth' = birth /\ gens[g] # None
    BY <1>1, <1>5 DEF CloseObserved, LocalsHold
  <2>2. /\ RegistriesHold' /\ OnlyCloses /\ ClaimsGoClosed /\ LocalsHold'
        /\ UNCHANGED <<workers, hooks, hosts, exit>>
    BY <1>0, <2>1, RequestLocalCloseStep
  <2> QED
    BY <1>2, <1>3, <2>1, <2>2
<1>6. ASSUME NEW g \in Generations, RetireFenceLocal(g) PROVE RuntimeIInv'
  <2> DEFINE r == gens[g].runtime
             c == Fence(leaf[closing[r].claim.key])
             e == [closing[r] EXCEPT !.claim = c]
  <2>1. /\ gens[g] # None /\ r \in Runtimes
        /\ local' = [local EXCEPT ![g] = "fenced"]
        /\ UNCHANGED <<gate, claims, cancelled, finishing, birth, workers, hooks, pending,
                       observed, queued, hosts, exit>>
        /\ \/ /\ MayFence(r) /\ FenceRetire(Me, leaf[closing[r].claim.key])
              /\ closing' = [closing EXCEPT ![r] = e]
           \/ closing' = closing
    BY <1>1, <1>6 DEF RetireFenceLocal, LocalsHold
  <2>2. LocalsHold'
    BY <1>0, <1>1, <2>1 DEF LocalsHold, RowsStay
  <2>3. CASE MayFence(r) /\ FenceRetire(Me, leaf[closing[r].claim.key])
             /\ closing' = [closing EXCEPT ![r] = e]
    <3>1. c \in Claim /\ Born(c)
      BY <1>0, <2>1, <2>3, FencedClaim
    <3>2. closing[r] \in Closing
      <4>1. closing[r] # None
        BY <2>3 DEF MayFence
      <4> HIDE DEF r
      <4> QED
        BY <1>1, <2>1, <4>1, SMTT(40), ZenonT(40) DEF RegistriesHold
    <3> HIDE DEF c
    <3>3. e \in Closing /\ e.claim = c
      BY <3>1, <3>2, ReplacedClaim
    <3> HIDE DEF e, r
    <3>4. finishing' \subseteq Runtimes
      BY <1>1, <2>1 DEF RegistriesHold
    <3>5. RegistriesHold' /\ OnlyCloses /\ ClaimsGoClosed
      BY <1>0, <2>1, <2>3, <3>1, <3>3, <3>4, ClosingWritten
    <3> QED
      BY <1>2, <1>3, <2>1, <2>2, <3>5, SMTT(40), ZenonT(40)
  <2>4. CASE closing' = closing
    <3>1. UNCHANGED registries
      BY <2>1, <2>4 DEF registries
    <3> QED
      BY <1>2, <1>3, <1>4, <2>1, <2>2, <3>1
  <2> QED
    BY <2>1, <2>3, <2>4
<1>7. ASSUME NEW g \in Generations, RetireDrainLocal(g) PROVE RuntimeIInv'
  <2>1. /\ gens[g] # None
        /\ local' = [local EXCEPT ![g] = "draining"]
        /\ dead' = dead \cup {g}
        /\ UNCHANGED <<registries, birth, workers, hooks, pending, observed, queued, spawned, exit>>
    BY <1>1, <1>7 DEF RetireDrainLocal, LocalsHold
  <2>2. LocalsHold'
    BY <1>0, <1>1, <2>1 DEF LocalsHold, RowsStay
  <2>3. HostsHold'
    BY <2>1 DEF RuntimeIInv, HostsHold
  <2> QED
    BY <1>2, <1>3, <1>4, <2>1, <2>2, <2>3
<1>8. ASSUME NEW g \in Generations, RetireCompleteLocal(g) PROVE RuntimeIInv'
  <2>1. /\ gens[g] # None /\ gens[g].runtime \in Runtimes
        /\ BeginClose(gens[g].runtime, TRUE, TRUE)
        /\ local' = [local EXCEPT ![g] = "none"]
        /\ queued' = [queued EXCEPT ![g] = TRUE]
        /\ pending' = pending \ {g} /\ observed' = observed \ {g}
        /\ UNCHANGED <<birth, workers, hooks, hosts, exit>>
    BY <1>1, <1>8 DEF RetireCompleteLocal, LocalsHold
  <2>2. RegistriesHold' /\ OnlyCloses /\ ClaimsGoClosed
    BY <1>0, <2>1, BeginCloseStep
  <2>3. queued' \in [Generations -> BOOLEAN \cup {None}]
    <3>1. TRUE \in BOOLEAN \cup {None}
      OBVIOUS
    <3> QED
      BY <1>1, <2>1, <3>1, Zenon DEF LocalsHold
  <2>4. LocalsHold'
    BY <1>0, <1>1, <2>1, <2>3 DEF LocalsHold, RowsStay
  <2> QED
    BY <1>2, <1>3, <2>1, <2>2, <2>4
<1>9. ASSUME NEW r \in Runtimes, Finish(r) PROVE RuntimeIInv'
  <2>1. /\ closing' = [closing EXCEPT ![r] = None] /\ finishing' = finishing \ {r}
        /\ UNCHANGED <<gate, claims, cancelled, birth, workers, hooks, locals, hosts, exit>>
    BY <1>9 DEF Finish
  <2>2. /\ closing' \in [Runtimes -> Closing \cup {None}]
        /\ \A q \in Runtimes : closing'[q] # None => Born(closing'[q].claim)
        /\ cancelled' \subseteq Runtimes /\ finishing' \subseteq Runtimes
        /\ claims' \in [Keys -> Claim \cup {None}]
        /\ \A k \in Keys : claims'[k] \in {claims[k], None}
    BY <1>1, <2>1 DEF RegistriesHold
  <2>3. OnlyCloses /\ ClaimsGoClosed
    BY <1>1, <2>1, NothingCloses
  <2>4. RegistriesHold'
    BY <1>0, <1>1, <2>2, <2>3, ClosingKeepsRegistries
  <2> QED
    BY <1>2, <1>3, <2>1, <2>3, <2>4
<1>10. ASSUME NEW k \in Keys, RefreshReads(k) PROVE RuntimeIInv'
  <2>1. /\ refresh' = claims[k] /\ claims[k] \in Claim
        /\ UNCHANGED <<registries, birth, closer, hooks, locals, hosts, exit>>
    BY <1>1, <1>10 DEF RefreshReads, RegistriesHold
  <2>2. WorkersHold'
    BY <1>0, <2>1, CloserHolds
  <2> QED
    BY <1>2, <1>3, <1>4, <2>1, <2>2
<1>11. CASE RefreshDrops
  <2>1. /\ refresh \in Claim /\ refresh' = None
        /\ gate' = Closed(refresh)
        /\ claims' = IF claims[refresh.key] # None /\ SameAuthority(claims[refresh.key], refresh)
                     THEN [claims EXCEPT ![refresh.key] = None] ELSE claims
        /\ UNCHANGED <<closing, cancelled, finishing, birth, closer, hooks, locals, hosts, exit>>
    BY <1>11 DEF RefreshDrops, RuntimeIInv, WorkersHold
  <2>2. WorkersHold'
    BY <1>0, <2>1, CloserHolds
  <2>3. refresh.key \in Keys
    BY <2>1 DEF Claim
  <2>4. /\ OnlyCloses
        /\ \A k \in Keys : gate'[k] # None /\ SameAuthority(gate'[k].claim, refresh) =>
              ~gate'[k].open
    BY <1>1, <2>1, ClosedGate
  <2>5. ClaimsGoClosed
    <3>1. \A k \in Keys : claims'[k] # claims[k] =>
              k = refresh.key /\ SameAuthority(claims[k], refresh)
      BY <1>1, <2>1, <2>3 DEF RegistriesHold
    <3> SUFFICES ASSUME NEW k \in Keys, claims'[k] # claims[k], gate'[k] # None,
                        SameAuthority(claims[k], gate'[k].claim)
                 PROVE  ~gate'[k].open
      BY DEF ClaimsGoClosed
    <3>2. SameAuthority(gate'[k].claim, refresh)
      BY <3>1, SameAuthorityIsEquality DEF SameAuthority
    <3> QED
      BY <2>4, <3>2
  <2>6. /\ closing' \in [Runtimes -> Closing \cup {None}]
        /\ \A q \in Runtimes : closing'[q] # None => Born(closing'[q].claim)
        /\ cancelled' \subseteq Runtimes /\ finishing' \subseteq Runtimes
        /\ claims' \in [Keys -> Claim \cup {None}]
        /\ \A k \in Keys : claims'[k] \in {claims[k], None}
    BY <1>1, <2>1, <2>3 DEF RegistriesHold
  <2>7. RegistriesHold'
    BY <1>0, <1>1, <2>4, <2>6, ClosingKeepsRegistries
  <2> QED
    BY <1>2, <1>3, <2>1, <2>2, <2>4, <2>5, <2>7
<1> QED
  BY <1>5, <1>6, <1>7, <1>8, <1>9, <1>10, <1>11, Zenon DEF LedgerWorker

(* ... the remote closer ...                                               *)
LEMMA RemoteCloserStep == ASSUME RuntimeIInv, RemoteCloser PROVE RuntimeIInv'
<1>0. /\ LedgerStep /\ IInv' /\ RowsStay /\ inflight' = inflight
      /\ leaf' = leaf \/ WriterFree
  BY RemoteCloserLedger, LedgerInductive DEF RuntimeIInv
<1>1. /\ RegistriesHold /\ closer \in Closer /\ refresh \in Claim \cup {None}
      /\ closer.pc # "idle" => closer.runtime \in Runtimes /\ Born(closer.claim)
  BY DEF RuntimeIInv, WorkersHold, Closer
<1>2. /\ UNCHANGED registries => RegistriesHold' /\ OnlyCloses /\ ClaimsGoClosed
      /\ UNCHANGED birth => BirthHolds'
      /\ UNCHANGED locals => LocalsHold'
      /\ UNCHANGED hosts => HostsHold'
      /\ UNCHANGED exit => ExitHolds'
  BY <1>0, <1>1, Frames, NothingCloses DEF registries
<1>3. ASSUME RegistriesHold', OnlyCloses, ClaimsGoClosed, WorkersHold', HostsHold',
             UNCHANGED <<birth, hooks, locals, exit>>
      PROVE  RuntimeIInv'
  BY <1>0, <1>2, <1>3, ClosesOnly
<1>4. ASSUME NEW pc \in {"fenced", "recorded", "killed"}, NEW c, Born(c),
             closer.pc # "idle",
             closer' = [closer EXCEPT !.pc = pc, !.claim = c], refresh' = refresh
      PROVE  WorkersHold'
  BY <1>0, <1>1, <1>4, CloserMovesOn
<1>5. ASSUME closer' = IdleCloser, refresh' = refresh PROVE WorkersHold'
  BY <1>1, <1>5, CloserIdles
<1>6. ASSUME NEW r \in Runtimes, CloserStart(r) PROVE RuntimeIInv'
  <2>1. /\ BeginClose(r, TRUE, FALSE) /\ closing'[r] # None
        /\ closer' = [pc |-> "closing", runtime |-> r, claim |-> closing'[r].claim]
        /\ UNCHANGED <<birth, refresh, hooks, locals, hosts, exit>>
    BY <1>6 DEF CloserStart
  <2>2. RegistriesHold' /\ OnlyCloses /\ ClaimsGoClosed
    BY <1>0, <2>1, BeginCloseStep
  <2>3. Born(closing[r].claim)'
    BY <2>1, <2>2 DEF RegistriesHold
  <2>4. WorkersHold'
    <3> DEFINE c == closing'[r].claim
    <3>1. c \in Claim /\ r # None
      BY <2>3, LedgerAssumption DEF Born
    <3> HIDE DEF c
    <3>2. closer' \in Closer
      BY <2>1, <3>1, Zenon DEF Closer, c
    <3>3. closer'.runtime = r /\ closer'.claim = closing'[r].claim
      BY <2>1
    <3> QED
      BY <1>1, <2>1, <2>3, <3>1, <3>2, <3>3 DEF WorkersHold, Born
  <2> QED
    BY <1>2, <1>3, <2>1, <2>2, <2>4
<1>7. CASE CloserFence
  <2> DEFINE r == closer.runtime
             c == Fence(leaf[closing[r].claim.key])
  <2>1. /\ closer.pc = "closing" /\ MayFence(r)
        /\ FenceRetire(Me, leaf[closing[r].claim.key])
        /\ closer' = [closer EXCEPT !.pc = "fenced", !.claim = leaf'[closing[r].claim.key]]
        /\ UNCHANGED <<registries, birth, refresh, hooks, locals, hosts, exit>>
    BY <1>7 DEF CloserFence
  <2>2. Born(c) /\ leaf'[closing[r].claim.key] = c
    BY <1>0, <1>1, <2>1, FencedClaim
  <2> QED
    BY <1>2, <1>3, <1>4, <2>1, <2>2
<1>8. CASE CloserRecord
  <2> DEFINE r == closer.runtime
             e == [closing[r] EXCEPT !.claim = closer.claim]
  <2>1. /\ closer.pc = "fenced" /\ r \in Runtimes /\ Born(closer.claim)
        /\ UNCHANGED <<gate, claims, cancelled, finishing, birth, refresh, hooks, locals,
                       hosts, exit>>
        /\ \/ /\ closing[r] # None /\ closing' = [closing EXCEPT ![r] = e]
              /\ closer' = [closer EXCEPT !.pc = "recorded"]
           \/ closing' = closing /\ closer' = IdleCloser
    BY <1>1, <1>8 DEF CloserRecord
  <2>2. CASE /\ closing[r] # None /\ closing' = [closing EXCEPT ![r] = e]
             /\ closer' = [closer EXCEPT !.pc = "recorded"]
    <3>1. closing[r] \in Closing /\ closer.claim \in Claim /\ finishing' \subseteq Runtimes
      BY <1>1, <2>1, <2>2 DEF RegistriesHold, Born
    <3>2. e \in Closing /\ e.claim = closer.claim
      BY <3>1, ReplacedClaim
    <3>3. closer' = [closer EXCEPT !.pc = "recorded", !.claim = closer.claim]
      BY <1>1, <2>2 DEF Closer
    <3> HIDE DEF e, r
    <3>4. RegistriesHold' /\ OnlyCloses /\ ClaimsGoClosed
      BY <1>0, <2>1, <2>2, <3>1, <3>2, ClosingWritten
    <3>5. WorkersHold'
      BY <1>4, <2>1, <3>3
    <3> QED
      BY <1>2, <1>3, <2>1, <3>4, <3>5
  <2>3. CASE closing' = closing /\ closer' = IdleCloser
    <3>1. UNCHANGED registries
      BY <2>1, <2>3 DEF registries
    <3> QED
      BY <1>2, <1>3, <1>5, <2>1, <2>3, <3>1
  <2> QED
    BY <2>1, <2>2, <2>3
<1>9. CASE CloserResumes
  <2> DEFINE r == closer.runtime
  <2>1. /\ closer.pc = "closing" /\ closing[r] # None /\ r \in Runtimes
        /\ closer' = [closer EXCEPT !.pc = "recorded", !.claim = closing[r].claim]
        /\ UNCHANGED <<registries, birth, refresh, hooks, locals, hosts, exit>>
    BY <1>1, <1>9 DEF CloserResumes, FenceStands
  <2>2. Born(closing[r].claim)
    BY <1>1, <2>1 DEF RegistriesHold
  <2> QED
    BY <1>2, <1>3, <1>4, <2>1, <2>2
<1>10. CASE HostCloses
  <2> DEFINE g == closer.claim.generation
  <2>1. /\ closer.pc # "idle"
        /\ dead' = IF factories[g] > 0 THEN dead \cup {g} ELSE dead
        /\ closer' = [closer EXCEPT !.pc = "killed"]
        /\ UNCHANGED <<registries, birth, refresh, hooks, locals, spawned, exit>>
    BY <1>10 DEF HostCloses
  <2>2. Born(closer.claim) /\ g \in Generations
    BY <1>1, <2>1 DEF Born, Claim
  <2>3. HostsHold'
    BY <2>1, <2>2 DEF RuntimeIInv, HostsHold
  <2>4. closer' = [closer EXCEPT !.pc = "killed", !.claim = closer.claim]
    BY <1>1, <2>1 DEF Closer
  <2> QED
    BY <1>2, <1>3, <1>4, <2>1, <2>2, <2>3, <2>4
<1>11. CASE CloserConfirms
  <2>1. /\ BeginClose(closer.runtime, TRUE, TRUE) /\ closer.runtime \in Runtimes
        /\ closer' = IdleCloser
        /\ UNCHANGED <<birth, refresh, hooks, locals, hosts, exit>>
    BY <1>1, <1>11 DEF CloserConfirms
  <2>2. RegistriesHold' /\ OnlyCloses /\ ClaimsGoClosed
    BY <1>0, <2>1, BeginCloseStep
  <2> QED
    BY <1>2, <1>3, <1>5, <2>1, <2>2
<1>12. CASE CloserGivesUp
  <2>1. /\ closer' = IdleCloser
        /\ UNCHANGED <<registries, birth, refresh, hooks, locals, hosts, exit>>
    BY <1>12 DEF CloserGivesUp
  <2> QED
    BY <1>2, <1>3, <1>5, <2>1
<1> QED
  BY <1>6, <1>7, <1>8, <1>9, <1>10, <1>11, <1>12, Zenon DEF RemoteCloser

(* ... the hook server's jobs and the publication worker ...               *)
LEMMA HookJobsStep == ASSUME RuntimeIInv, HookJobs PROVE RuntimeIInv'
<1>0. LedgerStep /\ IInv' /\ RowsStay /\ leaf' = leaf
  BY HookJobsLedger, LedgerInductive DEF RuntimeIInv
<1>1. /\ RegistriesHold /\ HooksHold
      /\ inflight \in [Owners -> Context \cup {None}] /\ Me \in Owners
      /\ job # "idle" => Ticket \in Claim /\ Ticket.key \in Keys
  <2>1. inflight \in [Owners -> Context \cup {None}] /\ Me \in Owners
    BY RuntimeAssumption DEF RuntimeIInv, IInv, TypeOK
  <2>2. job # "idle" => inflight[Me] \in Context
    BY <2>1 DEF RuntimeIInv, HooksHold
  <2> QED
    BY <2>1, <2>2 DEF RuntimeIInv, Context, Ticket, Claim
<1>2. /\ UNCHANGED <<birth, workers, locals, hosts, exit>>
      /\ UNCHANGED <<claims, closing, cancelled, finishing>>
  BY DEF HookJobs, Admit, BeginEffects, MemoryEffect, EndEffects, PublicationDenied,
     PublicationOffers, PublicationRefused, PublicationTimeout, registries
<1>3. BirthHolds' /\ WorkersHold' /\ LocalsHold' /\ HostsHold' /\ ExitHolds'
  BY <1>0, <1>2, Frames
<1>4. /\ UNCHANGED gate => RegistriesHold' /\ GatesHold'
      /\ UNCHANGED env => OfferedWhileOwned'
  <2>1. UNCHANGED gate => UNCHANGED registries /\ UNCHANGED <<gate, claims, birth>>
    BY <1>2 DEF registries
  <2> QED
    BY <1>0, <2>1, Frames
<1>5. ASSUME RegistriesHold', HooksHold', GatesHold', OfferedWhileOwned' PROVE RuntimeIInv'
  BY <1>0, <1>3, <1>5 DEF RuntimeIInv
\* No effect is in flight but while a job has them.
<1>6. ASSUME job \notin {"running", "effected"}, NEW k \in Keys, gate[k] # None
      PROVE  gate[k].in_flight = 0
  BY <1>1, <1>6 DEF HooksHold
<1>7. ASSUME UNCHANGED <<gate, env>>, job \notin {"running", "effected"},
             job' \in {"idle", "admitted", "queued"},
             job' # "idle" => inflight'[Me] # None,
             env # None /\ env.state # "abandoned" => job' = "queued"
      PROVE  RuntimeIInv'
  <2>1. HooksHold'
    BY <1>1, <1>6, <1>7 DEF HooksHold
  <2> QED
    BY <1>4, <1>5, <1>7, <2>1
<1>8. ASSUME NEW k \in Keys, NEW r \in Runtimes, NEW g \in Generations, Admit(k, r, g)
      PROVE  RuntimeIInv'
  <2>1. /\ job = "idle" /\ job' = "admitted" /\ UNCHANGED <<gate, env>> /\ WriterFree
        /\ ResolveBound(Me, k, r, g)
    BY <1>8 DEF Admit, registries
  <2>2. inflight'[Me] # None
    BY <1>1, <2>1, ResolvedContext DEF RuntimeIInv, IInv
  <2> QED
    BY <1>1, <1>7, <2>1, <2>2 DEF HooksHold
<1>9. CASE BeginEffects
  <2>1. CASE GateOf(Ticket) /\ gate[Ticket.key].open
    <3> DEFINE k == Ticket.key
               new == [gate[k] EXCEPT !.in_flight = gate[k].in_flight + 1]
    <3>0. /\ job = "admitted" /\ job' = "running"
          /\ gate' = [gate EXCEPT ![k] = new]
          /\ UNCHANGED <<inflight, env>>
      <4>1. job = "admitted" /\ job' = "running" /\ UNCHANGED <<inflight, env>>
        BY <1>9, <2>1 DEF BeginEffects, NoTransaction, vars
      <4>2. gate' = [gate EXCEPT ![k] = new]
        BY <1>9, <2>1, Zenon DEF BeginEffects
      <4> QED
        BY <4>1, <4>2
    <3> HIDE DEF new
    <3>1. k \in Keys /\ gate[k] # None /\ SameAuthority(gate[k].claim, Ticket)
      BY <1>1, <2>1, <3>0 DEF GateOf
    <3>2. gate[k] \in GateState /\ gate[k].claim.key = k /\ gate[k].in_flight = 0
      BY <1>1, <1>6, <3>0, <3>1 DEF RegistriesHold
    <3>3. /\ new \in GateState /\ new.claim = gate[k].claim
          /\ new.open = gate[k].open /\ new.in_flight = 1
      <4>1. new.claim = gate[k].claim /\ new.open = gate[k].open /\ new.in_flight = 1
        BY <3>2 DEF GateState, new
      <4>2. gate[k].in_flight + 1 \in 0..1
        BY <3>2
      <4> QED
        BY <3>2, <4>1, <4>2, Zenon DEF GateState, new
    <3> HIDE DEF k
    <3>4. /\ RegistriesHold' /\ gate'[k] = new /\ new # None
          /\ \A j \in Keys : j # k => gate'[j] = gate[j]
      BY <1>0, <1>2, <3>0, <3>1, <3>2, <3>3, GateWritten, SMTT(40), ZenonT(40)
    <3>5. GatesHold'
      BY <1>2, <3>1, <3>3, <3>4, SteadyGates
    <3>6. HooksHold'
      <4>1. Ticket' = Ticket /\ job' = "running" /\ inflight[Me] # None
        BY <1>1, <3>0 DEF Ticket, HooksHold
      <4>2. ASSUME NEW j \in Keys, gate'[j] # None, gate'[j].in_flight # 0
            PROVE  SameAuthority(gate'[j].claim, Ticket)
        BY <1>6, <3>0, <3>1, <3>3, <3>4, <4>2
      <4>3. env # None => env.state = "abandoned"
        BY <1>1, <3>0 DEF HooksHold
      <4> QED
        BY <1>1, <3>0, <4>1, <4>2, <4>3 DEF HooksHold
    <3> QED
      BY <1>4, <1>5, <3>0, <3>4, <3>5, <3>6
  <2>2. CASE ~(GateOf(Ticket) /\ gate[Ticket.key].open)
    <3>1. job = "admitted" /\ job' = "idle" /\ UNCHANGED <<gate, env>>
      BY <1>9, <2>2 DEF BeginEffects
    <3> QED
      BY <1>1, <1>7, <3>1 DEF HooksHold
  <2> QED
    BY <2>1, <2>2
<1>10. CASE MemoryEffect
  <2>1. /\ job = "running" /\ job' = "effected" /\ UNCHANGED <<gate, env, inflight>>
    BY <1>10 DEF MemoryEffect, registries
  <2>2. HooksHold'
    BY <1>1, <2>1 DEF HooksHold, Ticket
  <2> QED
    BY <1>4, <1>5, <2>1, <2>2
<1>11. ASSUME NEW accepted \in BOOLEAN, EndEffects(accepted) PROVE RuntimeIInv'
  <2> DEFINE k == Ticket.key
             new == [gate[k] EXCEPT !.in_flight =
                          IF gate[k].in_flight = 0 THEN 0 ELSE gate[k].in_flight - 1]
  <2>0. gate' = IF GateOf(Ticket) THEN [gate EXCEPT ![k] = new] ELSE gate
    BY <1>11, Zenon DEF EndEffects
  <2> HIDE DEF new
  <2>1. /\ job = "effected" /\ k \in Keys /\ env' = env
        /\ job' = IF accepted THEN "queued" ELSE "idle"
        /\ inflight' = IF accepted THEN inflight ELSE [inflight EXCEPT ![Me] = None]
    BY <1>1, <1>11 DEF EndEffects
  <2>2. ASSUME NEW j \in Keys, gate[j] # None, gate[j].in_flight # 0
        PROVE  j = k /\ GateOf(Ticket)
    <3>1. SameAuthority(gate[j].claim, Ticket) /\ gate[j].claim.key = j
      BY <1>1, <2>2 DEF HooksHold, RegistriesHold
    <3>2. j = k
      BY <3>1 DEF SameAuthority
    <3> QED
      BY <2>2, <3>1, <3>2 DEF GateOf
  <2>3. ASSUME RegistriesHold', GatesHold',
               \A j \in Keys : gate'[j] # None => gate'[j].in_flight = 0
        PROVE  RuntimeIInv'
    <3>1. HooksHold'
      <4>1. /\ env # None => env.state = "abandoned"
            /\ job' # "idle" => inflight'[Me] # None
        BY <1>1, <2>1 DEF HooksHold
      <4> QED
        BY <1>1, <2>1, <2>3, <4>1 DEF HooksHold
    <3> QED
      BY <1>4, <1>5, <2>1, <2>3, <3>1
  <2>4. CASE GateOf(Ticket)
    <3>1. gate[k] # None /\ gate[k] \in GateState /\ gate[k].claim.key = k
      BY <1>1, <2>1, <2>4 DEF GateOf, RegistriesHold
    <3>2. /\ new \in GateState /\ new.claim = gate[k].claim
          /\ new.open = gate[k].open /\ new.in_flight = 0
      <4>1. new.claim = gate[k].claim /\ new.open = gate[k].open /\ new.in_flight = 0
        BY <3>1 DEF GateState, new
      <4>2. 0 \in 0..1 /\ (IF gate[k].in_flight = 0 THEN 0 ELSE gate[k].in_flight - 1) = 0
        BY <3>1 DEF GateState
      <4> QED
        BY <3>1, <4>1, <4>2, Zenon DEF GateState, new
    <3> HIDE DEF k
    <3>9. gate' = [gate EXCEPT ![k] = new] /\ k \in Keys
      BY <2>0, <2>1, <2>4
    <3>3. /\ RegistriesHold' /\ gate'[k] = new /\ new # None
          /\ \A j \in Keys : j # k => gate'[j] = gate[j]
      BY <1>0, <1>2, <3>1, <3>2, <3>9, GateWritten, SMTT(40), ZenonT(40)
    <3>4. GatesHold'
      BY <1>2, <2>1, <3>1, <3>2, <3>3, SteadyGates
    <3>5. \A j \in Keys : gate'[j] # None => gate'[j].in_flight = 0
      BY <2>2, <3>2, <3>3
    <3> QED
      BY <2>3, <3>3, <3>4, <3>5
  <2>5. CASE ~GateOf(Ticket)
    BY <1>4, <2>0, <2>2, <2>3, <2>5
  <2> QED
    BY <2>4, <2>5
<1>12. CASE PublicationDenied
  <2>1. job = "queued" /\ WriterFree /\ job' = "idle" /\ UNCHANGED <<gate, env>>
    BY <1>12 DEF PublicationDenied, DropJob, registries
  <2> QED
    BY <1>7, <2>1 DEF WriterFree
<1>13. CASE PublicationOffers
  <2>1. /\ job = "queued" /\ job' = job /\ inflight' = inflight /\ gate' = gate
        /\ env' = [state |-> "offered", claim |-> Ticket]
        /\ ValidateOwned(inflight[Me]) /\ leaf[Ticket.key].phase = "active"
    BY <1>13 DEF PublicationOffers, NoTransaction, vars, registries
  <2>2. env' \in Envelope /\ env'.claim = Ticket
    BY <1>1, <2>1, Zenon DEF Envelope
  <2>3. HooksHold'
    BY <1>1, <2>1, <2>2 DEF HooksHold, Ticket
  <2>4. OfferedWhileOwned'
    BY <1>0, <2>1, <2>2 DEF OfferedWhileOwned, ValidateOwned, Ticket
  <2> QED
    BY <1>4, <1>5, <2>1, <2>3, <2>4
<1>14. CASE PublicationRefused
  <2>1. /\ job = "queued" /\ WriterFree /\ job' = "idle" /\ env' = env
        /\ gate' = Closed(Ticket)
    BY <1>14 DEF PublicationRefused, DropJob
  <2>2. OnlyCloses
    BY <1>1, <2>1, ClosedGate
  <2>3. RegistriesHold'
    <3>1. /\ closing \in [Runtimes -> Closing \cup {None}]
          /\ \A r \in Runtimes : closing'[r] # None => Born(closing'[r].claim)
          /\ cancelled \subseteq Runtimes /\ finishing \subseteq Runtimes
          /\ claims \in [Keys -> Claim \cup {None}]
      BY <1>1, <1>2 DEF RegistriesHold
    <3> QED
      BY <1>0, <1>1, <1>2, <2>2, <3>1, ClosingKeepsRegistries
  <2>4. GatesHold'
    BY <1>2, <2>2, ClosingKeepsGates
  <2>5. HooksHold'
    BY <1>1, <1>6, <2>1, <2>2 DEF HooksHold, OnlyCloses, WriterFree
  <2> QED
    BY <1>4, <1>5, <2>1, <2>3, <2>4, <2>5
<1>15. CASE PublicationTimeout
  <2>1. /\ env # None /\ env.state = "offered" /\ env' = [env EXCEPT !.state = "abandoned"]
        /\ job' = job /\ inflight' = inflight /\ gate' = gate
    BY <1>15 DEF PublicationTimeout, NoTransaction, vars, registries
  <2>2. env' \in Envelope /\ env'.state = "abandoned"
    BY <1>1, <2>1 DEF HooksHold, Envelope
  <2>3. HooksHold' /\ OfferedWhileOwned'
    BY <1>1, <2>1, <2>2 DEF HooksHold, OfferedWhileOwned, Ticket
  <2> QED
    BY <1>4, <1>5, <2>1, <2>3
<1> QED
  BY <1>8, <1>9, <1>10, <1>11, <1>12, <1>13, <1>14, <1>15, Zenon DEF HookJobs

(* ... the UI ...                                                          *)
LEMMA UiStep == ASSUME RuntimeIInv, Ui PROVE RuntimeIInv'
<1>0. LedgerStep /\ IInv' /\ RowsStay /\ leaf' = leaf
  BY UiLedger, LedgerInductive DEF RuntimeIInv
<1>1. HooksHold /\ UNCHANGED <<birth, workers, locals, hosts>>
  BY DEF RuntimeIInv, Ui, UiClose, UiClaims, UiDrops, Freeze, Sample
<1>2. BirthHolds' /\ WorkersHold' /\ LocalsHold' /\ HostsHold'
  BY <1>0, <1>1, Frames
<1>3. ASSUME UNCHANGED registries, ExitHolds', HooksHold', OfferedWhileOwned' PROVE RuntimeIInv'
  <2>1. RegistriesHold' /\ GatesHold'
    BY <1>0, <1>1, <1>3, Frames DEF registries
  <2> QED
    BY <1>0, <1>2, <1>3, <2>1 DEF RuntimeIInv
<1>4. UNCHANGED exit => ExitHolds'
  BY <1>0, Frames
<1>5. ASSUME NEW r \in Runtimes, NEW permanent \in BOOLEAN, UiClose(r, permanent)
      PROVE  RuntimeIInv'
  <2>1. BeginClose(r, permanent, FALSE) /\ UNCHANGED <<hooks, exit, inflight>>
    BY <1>5 DEF UiClose, NoTransaction, vars
  <2>2. RegistriesHold' /\ OnlyCloses /\ ClaimsGoClosed
    BY <1>0, <2>1, BeginCloseStep
  <2> QED
    BY <1>0, <1>1, <1>2, <1>4, <2>1, <2>2, ClosesOnly
<1>6. CASE UiClaims
  <2>1. /\ env # None /\ env.state = "offered" /\ env' = [env EXCEPT !.state = "claimed"]
        /\ job' = job /\ UNCHANGED registries /\ UNCHANGED exit /\ inflight' = inflight
        /\ gate' = gate
    BY <1>6 DEF UiClaims, NoTransaction, vars, registries
  <2>2. env' \in Envelope /\ env'.state = "claimed" /\ env'.claim = env.claim
    BY <1>1, <2>1 DEF HooksHold, Envelope
  <2>3. HooksHold'
    BY <1>1, <2>1, <2>2 DEF HooksHold, Ticket
  <2>4. OfferedWhileOwned'
    BY <1>0, <2>1, <2>2 DEF RuntimeIInv, OfferedWhileOwned
  <2> QED
    BY <1>3, <1>4, <2>1, <2>3, <2>4
<1>7. CASE UiDrops
  <2>1. /\ env # None /\ env' = None /\ UNCHANGED registries /\ UNCHANGED exit /\ gate' = gate
        /\ \/ job' = job /\ inflight' = inflight
           \/ env.state # "abandoned" /\ job' = "idle"
    BY <1>7 DEF UiDrops, NoTransaction, DropJob, vars, registries
  <2>2. HooksHold'
    BY <1>1, <2>1 DEF HooksHold, Ticket
  <2>3. OfferedWhileOwned'
    BY <2>1 DEF OfferedWhileOwned
  <2> QED
    BY <1>3, <1>4, <2>1, <2>2, <2>3
<1>8. CASE Freeze \/ Sample
  <2>1. UNCHANGED registries /\ UNCHANGED <<hooks, gate, env, inflight>>
    BY <1>8 DEF Freeze, Sample, NoTransaction, vars, registries, hooks
  <2>2. ExitHolds'
    <3>1. admission' \in BOOLEAN
      BY <1>8 DEF Freeze, Sample, RuntimeIInv, ExitHolds
    <3>2. shutdown' \in ShutdownPc
      BY <1>8 DEF Freeze, Sample, AfterSample, ShutdownPc
    <3> QED
      BY <3>1, <3>2 DEF ExitHolds
  <2>3. HooksHold' /\ OfferedWhileOwned'
    BY <1>0, <2>1, Frames
  <2> QED
    BY <1>3, <2>1, <2>2, <2>3
<1> QED
  BY <1>5, <1>6, <1>7, <1>8, Zenon DEF Ui

(* ... the daemon, the children and the other endpoints.                   *)
LEMMA EnvironmentStep == ASSUME RuntimeIInv, Environment PROVE RuntimeIInv'
<1>0. /\ LedgerStep /\ IInv' /\ RowsStay /\ inflight' = inflight
      /\ leaf' = leaf \/ WriterFree
  BY EnvironmentLedger, LedgerInductive DEF RuntimeIInv
<1>1. /\ UNCHANGED <<registries, birth, workers, hooks, locals, exit, spawned>>
      /\ dead' \subseteq Generations
  <2>1. ASSUME NEW c \in spawned, HostConsume(c) \/ HostFactory(c)
        PROVE  UNCHANGED <<registries, birth, workers, hooks, locals, exit, spawned, dead>>
    BY <2>1 DEF HostConsume, HostFactory, hosts
  <2>2. ASSUME NEW g \in Generations, ChildExits(g)
        PROVE  /\ UNCHANGED <<registries, birth, workers, hooks, locals, exit, spawned>>
               /\ dead' = dead \cup {g}
    BY <2>2 DEF ChildExits
  <2>3. ASSUME NEW o \in Owners \ {Me}, NEW k \in Keys, OtherStep(o, k)
        PROVE  /\ UNCHANGED <<registries, birth, workers, hooks, locals, exit, spawned>>
               /\ dead' \subseteq dead \cup Generations
    <3>1. leaf[k].generation \in Generations
      BY <2>3 DEF OtherStep, RuntimeIInv, IInv, TypeOK, Claim
    <3> QED
      BY <2>3, <3>1 DEF OtherStep
  <2>4. dead \subseteq Generations
    BY DEF RuntimeIInv, HostsHold
  <2> QED
    BY <2>1, <2>2, <2>3, <2>4, Zenon DEF Environment
<1>2. HostsHold'
  BY <1>1 DEF RuntimeIInv, HostsHold
<1>3. UNCHANGED <<gate, claims, hooks, inflight, env>>
  BY <1>0, <1>1 DEF registries, hooks
<1> QED
  BY <1>0, <1>1, <1>2, <1>3, Frames DEF RuntimeIInv

-----------------------------------------------------------------------------
(* What holds of the runtime in every reachable state, for any number of   *)
(* endpoints, leaves, runtimes and generations.                            *)
LEMMA RuntimeStarts == RuntimeInit => RuntimeIInv
<1> SUFFICES ASSUME RuntimeInit PROVE RuntimeIInv
  OBVIOUS
<1>1. IInv
  BY LedgerStarts DEF RuntimeInit
<1>2. RegistriesHold /\ LocalsHold /\ HostsHold /\ ExitHolds
  BY DEF RuntimeInit, RegistriesHold, LocalsHold, HostsHold, ExitHolds, ShutdownPc
<1>3. BirthHolds
  <2>1. IdleBirth \in Birth
    BY Zenon DEF IdleBirth, Birth, BirthPc
  <2> QED
    BY <2>1 DEF RuntimeInit, BirthHolds, IdleBirth
<1>4. WorkersHold
  <2>1. IdleCloser \in Closer
    BY Zenon DEF IdleCloser, Closer
  <2> QED
    BY <2>1 DEF RuntimeInit, WorkersHold, IdleCloser
<1>5. HooksHold /\ GatesHold /\ OfferedWhileOwned
  BY DEF RuntimeInit, HooksHold, GatesHold, OpenGateIsRegistered, OfferedWhileOwned, IdleBirth
<1> QED
  BY <1>1, <1>2, <1>3, <1>4, <1>5 DEF RuntimeIInv

(* Every step of every thread keeps the invariant.                         *)
LEMMA RuntimeIInvStep == RuntimeIInv /\ [RuntimeNext]_all_vars => RuntimeIInv'
<1> SUFFICES ASSUME RuntimeIInv, [RuntimeNext]_all_vars PROVE RuntimeIInv'
  OBVIOUS
<1>1. CASE RuntimeNext
  BY <1>1, RecoveryWorkerStep, LedgerWorkerStep, RemoteCloserStep, HookJobsStep, UiStep,
     EnvironmentStep DEF RuntimeNext
<1>2. CASE UNCHANGED all_vars
  <2>1. LedgerStep /\ IInv' /\ RowsStay
    BY RuntimeLedgerStep, LedgerInductive DEF RuntimeIInv
  <2>2. /\ UNCHANGED registries /\ UNCHANGED birth /\ UNCHANGED workers
        /\ UNCHANGED <<gate, hooks, inflight>> /\ UNCHANGED locals /\ UNCHANGED hosts
        /\ UNCHANGED exit /\ UNCHANGED <<gate, claims, birth>> /\ UNCHANGED env /\ leaf' = leaf
    BY <1>2 DEF all_vars, vars, registries, hooks
  <2> QED
    BY <2>1, <2>2, Frames DEF RuntimeIInv
<1> QED
  BY <1>1, <1>2

(* The inductive invariant of the runtime.                                 *)
THEOREM RuntimeInductive == RuntimeSpec => []RuntimeIInv
BY RuntimeStarts, RuntimeIInvStep, PTL DEF RuntimeSpec

(* The runtime's state has its types.                                      *)
THEOREM RuntimeTypeCorrect == RuntimeSpec => []RuntimeTypeOK
<1>1. RuntimeIInv => RuntimeTypeOK
  BY DEF RuntimeIInv, IInv, RegistriesHold, BirthHolds, WorkersHold, HooksHold, LocalsHold,
     HostsHold, ExitHolds, RuntimeTypeOK
<1> QED
  BY <1>1, RuntimeInductive, PTL

(* GatesAreOwned: an open gate belongs to a registered claim, so that a    *)
(* close finds it, and what the UI shows of a hook it shows while the      *)
(* ledger names this endpoint (hook_runtime.rs register, begin_close,      *)
(* with_hook_publication).                                                 *)
THEOREM GatesOwned == RuntimeSpec => []GatesAreOwned
<1>1. RuntimeIInv => GatesAreOwned
  <2> SUFFICES ASSUME RuntimeIInv PROVE GatesAreOwned
    OBVIOUS
  <2>1. OpenGateIsRegistered
    BY DEF RuntimeIInv, GatesHold
  <2>2. PublishedWhileOwned
    BY DEF RuntimeIInv, OfferedWhileOwned, PublishedWhileOwned
  <2> QED
    BY <2>1, <2>2 DEF GatesAreOwned
<1> QED
  BY <1>1, RuntimeInductive, PTL

(* With the threads of an endpoint in the picture (registries, gates,      *)
(* closers, the shutdown) the ledger still keeps one live birth on a leaf  *)
(* and one child to a birth.                                               *)
THEOREM RuntimeKeepsBirths == RuntimeSpec => [](OneLiveBirth /\ SingleFactory)
<1>1. RuntimeIInv => OneLiveBirth /\ SingleFactory
  BY PermitsAreSingle DEF RuntimeIInv, IInv
<1> QED
  BY <1>1, RuntimeInductive, PTL

(* Nor does any thread of it have an effect on a leaf it lost, or start    *)
(* the child of a birth that was fenced.                                   *)
THEOREM RuntimeKeepsLedger == RuntimeSpec => EffectsByOwnerOnly /\ NoLateChild
<1>1. RuntimeIInv /\ [RuntimeNext]_all_vars => IInv /\ LedgerStep
  BY RuntimeLedgerStep DEF RuntimeIInv
<1>2. IInv /\ LedgerStep =>
        [\A k \in Keys : effects'[k] # effects[k] =>
            /\ leaf[k] # None /\ LiveClaim(leaf[k])
            /\ effects'[k] = [epoch |-> leaf[k].epoch, owner |-> leaf[k].owner]
            /\ effects[k] # None => effects[k].epoch < leaf[k].epoch]_vars
  BY EffectStep
<1>3. IInv /\ LedgerStep =>
        [\A g \in Generations : Fenced(g) =>
            /\ factories'[g] = factories[g]
            /\ gens'[g].spawn_consumed = gens[g].spawn_consumed
            /\ gens'[g] # None /\ Fenced(g)']_vars
  BY NoLateChildStep DEF Unchanged
<1>4. RuntimeIInv /\ [RuntimeNext]_all_vars =>
        [\A k \in Keys : effects'[k] # effects[k] =>
            /\ leaf[k] # None /\ LiveClaim(leaf[k])
            /\ effects'[k] = [epoch |-> leaf[k].epoch, owner |-> leaf[k].owner]
            /\ effects[k] # None => effects[k].epoch < leaf[k].epoch]_vars
  BY <1>1, <1>2
<1>5. RuntimeIInv /\ [RuntimeNext]_all_vars =>
        [\A g \in Generations : Fenced(g) =>
            /\ factories'[g] = factories[g]
            /\ gens'[g].spawn_consumed = gens[g].spawn_consumed
            /\ gens'[g] # None /\ Fenced(g)']_vars
  BY <1>1, <1>3
<1>6. RuntimeSpec => EffectsByOwnerOnly
  BY <1>4, RuntimeInductive, PTL DEF RuntimeSpec, EffectsByOwnerOnly
<1>7. RuntimeSpec => NoLateChild
  BY <1>5, RuntimeInductive, PTL DEF RuntimeSpec, NoLateChild
<1> QED
  BY <1>6, <1>7

-----------------------------------------------------------------------------
(* Effects are drained before the ledger gives a leaf up.                  *)

\* The fence of a close waits on the gate of the claim it closes.
FencesAgree ==
    \A r \in Runtimes : closing[r] # None /\ LiveClaim(closing[r].claim) =>
        SameAuthority(closing[r].claim, closing[r].fence)

\* A hook with effects holds its place in the gate it was admitted under.
EffectsHeld ==
    job \in {"running", "effected"} => GateOf(Ticket) /\ gate[Ticket.key].in_flight # 0

\* What the remote closer fenced is not a live claim any more.
FencedIsOver == closer.pc = "fenced" => ~LiveClaim(closer.claim)

DrainHolds == FencesAgree /\ EffectsHeld /\ FencedIsOver

DrainIInv == RuntimeIInv /\ DrainHolds

(* A gate that only closes keeps the effects in flight.                    *)
LEMMA ClosingKeepsEffects ==
    ASSUME RuntimeIInv, EffectsHeld, OnlyCloses, UNCHANGED <<job, inflight>>
    PROVE  EffectsHeld'
<1> SUFFICES ASSUME job \in {"running", "effected"}
             PROVE  GateOf(Ticket)' /\ gate'[Ticket.key].in_flight # 0
  BY DEF EffectsHeld, Ticket
<1>1. Ticket' = Ticket /\ GateOf(Ticket) /\ gate[Ticket.key].in_flight # 0
  BY DEF EffectsHeld, Ticket
<1>2. Ticket.key \in Keys
  <2>1. inflight[Me] \in Context
    BY RuntimeAssumption DEF RuntimeIInv, IInv, TypeOK, HooksHold
  <2> QED
    BY <2>1 DEF Context, Claim, Ticket
<1> QED
  BY <1>1, <1>2 DEF OnlyCloses, GateOf

(* begin_close enters a claim under its own fence.                         *)
LEMMA BeginCloseAgrees ==
    ASSUME RuntimeIInv, FencesAgree, NEW r \in Runtimes, NEW permanent \in BOOLEAN,
           NEW confirmed \in BOOLEAN, BeginClose(r, permanent, confirmed)
    PROVE  FencesAgree'
<1> DEFINE found == RegisteredUnder(r) # {}
           c == claims[FoundUnder(r)]
           fresh == [claim |-> c, fence |-> c, permanent |-> permanent, confirmed |-> FALSE]
           entry == IF found /\ GateOf(c) THEN fresh ELSE closing[r]
<1>1. closing' = [closing EXCEPT ![r] =
          IF confirmed /\ entry # None THEN [entry EXCEPT !.confirmed = TRUE] ELSE entry]
  BY DEF BeginClose
<1>2. /\ entry # None /\ LiveClaim(entry.claim) => SameAuthority(entry.claim, entry.fence)
      /\ entry # None => entry \in Closing
  <2>1. CASE found /\ GateOf(c)
    <3>1. c \in Claim
      <4>1. FoundUnder(r) \in RegisteredUnder(r)
        BY <2>1 DEF FoundUnder
      <4> QED
        BY <4>1 DEF RegisteredUnder, RuntimeIInv, RegistriesHold
    <3>2. fresh \in Closing /\ fresh.claim = c /\ fresh.fence = c
      BY <3>1, Zenon DEF Closing
    <3>3. LiveClaim(c) => SameAuthority(c, c)
      BY DEF SameAuthority
    <3>4. entry = fresh
      BY <2>1
    <3> QED
      BY <3>2, <3>3, <3>4
  <2>2. CASE ~(found /\ GateOf(c))
    BY <2>2 DEF RuntimeIInv, RegistriesHold, FencesAgree
  <2> QED
    BY <2>1, <2>2
<1> HIDE DEF entry
<1> DEFINE new == IF confirmed /\ entry # None THEN [entry EXCEPT !.confirmed = TRUE] ELSE entry
<1>3. new # None /\ LiveClaim(new.claim) => SameAuthority(new.claim, new.fence)
  <2>1. CASE confirmed /\ entry # None
    <3>1. new.claim = entry.claim /\ new.fence = entry.fence
      BY <1>2, <2>1 DEF Closing
    <3> QED
      BY <1>2, <2>1, <3>1
  <2>2. CASE ~(confirmed /\ entry # None)
    BY <1>2, <2>2
  <2> QED
    BY <2>1, <2>2
<1>4. closing' = [closing EXCEPT ![r] = new]
  BY <1>1
<1> HIDE DEF new
<1> QED
  BY <1>3, <1>4 DEF RuntimeIInv, RegistriesHold, FencesAgree

(* begin_close_bound does the same.                                        *)
LEMMA BeginCloseBoundAgrees ==
    ASSUME RuntimeIInv, FencesAgree, NEW host \in Evidence, BeginCloseBound(host)
    PROVE  FencesAgree'
<1> DEFINE c == claims[host.key]
           fresh == [claim |-> c, fence |-> c, permanent |-> TRUE, confirmed |-> FALSE]
<1>1. \/ closing' = closing
      \/ closing' = [closing EXCEPT ![host.runtime] = fresh]
  BY DEF BeginCloseBound
<1>2. fresh.claim = c /\ fresh.fence = c
  OBVIOUS
<1>3. LiveClaim(c) => SameAuthority(c, c)
  BY DEF SameAuthority
<1> HIDE DEF fresh
<1> QED
  BY <1>1, <1>2, <1>3 DEF RuntimeIInv, RegistriesHold, FencesAgree, Evidence

(* An entry whose claim is over has no fence to wait for.                  *)
LEMMA OverAgrees ==
    ASSUME RuntimeIInv, FencesAgree, NEW r \in Runtimes, NEW e,
           closing' = [closing EXCEPT ![r] = e], ~LiveClaim(e.claim)
    PROVE  FencesAgree'
BY DEF RuntimeIInv, RegistriesHold, FencesAgree

(* What a fence leaves in the ledger is not live.                          *)
LEMMA FenceIsOver == ASSUME NEW c PROVE ~LiveClaim(Fence(c))
BY DEF Fence, Successor, LiveClaim

(* Every step keeps the three.                                             *)
LEMMA DrainStep == DrainIInv /\ [RuntimeNext]_all_vars => DrainIInv'
<1> SUFFICES ASSUME DrainIInv, [RuntimeNext]_all_vars PROVE DrainHolds'
  BY RuntimeIInvStep DEF DrainIInv
<1>0. /\ RuntimeIInv /\ RuntimeIInv' /\ RowsStay
      /\ FencesAgree /\ EffectsHeld /\ FencedIsOver
  BY RuntimeIInvStep, RuntimeLedgerStep
  DEF DrainIInv, DrainHolds
<1>1. ASSUME FencesAgree', EffectsHeld', FencedIsOver' PROVE DrainHolds'
  BY <1>1 DEF DrainHolds
<1>2. /\ closing' = closing => FencesAgree'
      /\ UNCHANGED <<gate, job, inflight>> => EffectsHeld'
      /\ closer' = closer \/ closer'.pc # "fenced" => FencedIsOver'
      /\ job' \notin {"running", "effected"} => EffectsHeld'
  BY <1>0 DEF FencesAgree, EffectsHeld, FencedIsOver, GateOf, Ticket
<1>3. ASSUME NEW r \in Runtimes, NEW permanent \in BOOLEAN, NEW confirmed \in BOOLEAN,
             BeginClose(r, permanent, confirmed), UNCHANGED <<job, inflight>>
      PROVE  FencesAgree' /\ EffectsHeld'
  BY <1>0, <1>3, BeginCloseAgrees, BeginCloseStep, ClosingKeepsEffects
<1>4. ASSUME NEW g \in Generations, gens[g] # None, BeginCloseBound(EvidenceOf(g)),
             UNCHANGED <<finishing, job, inflight>>
      PROVE  FencesAgree' /\ EffectsHeld'
  <2>1. EvidenceOf(g) \in Evidence
    BY <1>0, <1>4, EvidenceType DEF RuntimeIInv, IInv
  <2> QED
    BY <1>0, <1>4, <2>1, BeginCloseBoundAgrees, BeginCloseBoundStep, ClosingKeepsEffects
<1>5. CASE RecoveryWorker
  <2>1. UNCHANGED <<job, inflight, closer>>
    BY <1>0, <1>5, RecoveryWorkerLedger, ZenonT(40)
    DEF RecoveryWorker, Authorize, RetryReserved, ReserveFresh, AuthorizeRefused, RegisterGate,
        RegisterClaim, GrantCancelled, Grant, Consume, ConsumeRefused, BeginLocalFactory,
        RunFactory, FactoryFails, NoChildBegin, NoChildConfirm, NoChildGivesUp, SendSpawn,
        AttachLocal, AttachLocalRefused, AttachRemote, AttachTransaction, ObserveLocal,
        FactoryCloses, RequestLocalClose, workers, hooks
  <2>2. ASSUME FencesAgree', EffectsHeld' PROVE DrainHolds'
    BY <1>1, <1>2, <2>1, <2>2
  <2>3. birth.pc \notin {"idle", "checked"} => birth.claim \in Claim
                                               /\ birth.claim.generation \in Generations
                                               /\ gens[birth.claim.generation] # None
                                               /\ birth.runtime \in Runtimes
                                               /\ birth.fresh \in BOOLEAN
    BY <1>0 DEF RuntimeIInv, BirthHolds, Birth, Born, Claim
  <2>4. CASE GrantCancelled
    BY <1>3, <2>1, <2>2, <2>3, <2>4 DEF GrantCancelled
  <2>5. CASE NoChildBegin
    <3>1. CASE BeginCloseBound(EvidenceOf(birth.claim.generation))
      BY <1>4, <2>1, <2>2, <2>3, <2>5, <3>1 DEF NoChildBegin
    <3>2. CASE UNCHANGED <<gate, closing>>
      BY <1>2, <2>1, <2>2, <3>2
    <3> QED
      BY <2>5, <3>1, <3>2 DEF NoChildBegin
  <2>6. CASE NoChildConfirm
    <3> DEFINE r == birth.runtime
               c == Fence(leaf[closing[r].claim.key])
               e == [closing[r] EXCEPT !.claim = c, !.confirmed = TRUE]
    <3>1. /\ r \in Runtimes /\ closing[r] # None /\ gate' = gate
          /\ MayFence(r) /\ FenceRetire(Me, leaf[closing[r].claim.key])
          /\ closing' = [closing EXCEPT ![r] = e]
      BY <2>3, <2>6 DEF NoChildConfirm, MayFence
    <3>2. closing[r] \in Closing /\ c \in Claim
      <4>1. closing[r] \in Closing
        <5>1. closing \in [Runtimes -> Closing \cup {None}]
          BY <1>0 DEF RuntimeIInv, RegistriesHold
        <5>2. r \in Runtimes /\ closing[r] # None
          BY <3>1
        <5> HIDE DEF r
        <5> QED
          BY <5>1, <5>2
      <4>2. c \in Claim
        BY <1>0, <3>1, FencedClaim
      <4> QED
        BY <4>1, <4>2
    <3>3. e.claim = c
      BY <3>2, ReplacedClaim
    <3>4. ~LiveClaim(c)
      BY FenceIsOver
    <3> HIDE DEF e, c
    <3>5. ~LiveClaim(e.claim)
      BY <3>3, <3>4
    <3> QED
      BY <1>0, <1>2, <2>1, <2>2, <3>1, <3>5, OverAgrees
  <2>7. ASSUME NEW accepted \in BOOLEAN, FactoryCloses(accepted) PROVE DrainHolds'
    BY <1>4, <2>1, <2>2, <2>3, <2>7 DEF FactoryCloses, RequestLocalClose
  <2>8. ASSUME NEW from \in {"reserved", "attached"}, NEW to, NEW refused,
               RegisterGate(from, to, refused)
        PROVE  DrainHolds'
    <3> DEFINE c == birth.claim
    <3>1. /\ c \in Claim /\ c.key \in Keys /\ closing' = closing
          /\ \/ gate' = gate
             \/ /\ CanInstall(c)
                /\ gate' = [gate EXCEPT ![c.key] =
                               [claim |-> c, open |-> TRUE, in_flight |-> 0,
                                installed |-> c.phase = "active"]]
             \/ /\ GateOf(c)
                /\ gate' = [gate EXCEPT ![c.key] = [@ EXCEPT !.installed = TRUE]]
      BY <2>3, <2>8 DEF RegisterGate, Claim
    <3>2. ASSUME job \in {"running", "effected"}
          PROVE  /\ Ticket.key \in Keys /\ gate[Ticket.key] # None
                 /\ gate[Ticket.key] \in GateState
                 /\ gate[Ticket.key].in_flight # 0
                 /\ SameAuthority(gate[Ticket.key].claim, Ticket)
      <4>1. inflight[Me] \in Context
        BY <1>0, <3>2, RuntimeAssumption DEF RuntimeIInv, IInv, TypeOK, HooksHold
      <4>2. Ticket.key \in Keys
        BY <4>1 DEF Context, Claim, Ticket
      <4> QED
        BY <1>0, <3>2, <4>2 DEF EffectsHeld, GateOf, RuntimeIInv, RegistriesHold
    <3>3. gate \in [Keys -> GateState \cup {None}]
      BY <1>0 DEF RuntimeIInv, RegistriesHold
    <3>4. Ticket' = Ticket /\ job' = job
      BY <2>1 DEF Ticket
    <3> HIDE DEF c
    <3>5. CASE gate' = gate
      BY <1>2, <2>1, <2>2, <3>1, <3>5
    <3>6. CASE /\ CanInstall(c)
               /\ gate' = [gate EXCEPT ![c.key] =
                              [claim |-> c, open |-> TRUE, in_flight |-> 0,
                               installed |-> c.phase = "active"]]
      <4>1. job \in {"running", "effected"} => c.key # Ticket.key
        BY <3>2, <3>6 DEF CanInstall
      <4>2. job \in {"running", "effected"} => gate'[Ticket.key] = gate[Ticket.key]
        BY <3>2, <3>3, <3>6, <4>1
      <4>3. EffectsHeld'
        BY <3>2, <3>4, <4>2 DEF EffectsHeld, GateOf
      <4> QED
        BY <1>2, <2>2, <3>1, <4>3
    <3>7. CASE /\ GateOf(c)
               /\ gate' = [gate EXCEPT ![c.key] = [@ EXCEPT !.installed = TRUE]]
      <4> DEFINE new == [gate[c.key] EXCEPT !.installed = TRUE]
      <4>1. gate' = [gate EXCEPT ![c.key] = new]
        BY <3>7
      <4>2. gate[c.key] \in GateState
        BY <3>1, <3>3, <3>7 DEF GateOf
      <4>3. new.in_flight = gate[c.key].in_flight /\ new.claim = gate[c.key].claim
        BY <4>2 DEF GateState
      <4>4. new # None
        <5>1. new \in GateState
          BY <4>2, Zenon DEF GateState
        <5> QED
          BY <5>1, RegistryAssumption
      <4> HIDE DEF new
      <4>5. job \in {"running", "effected"} =>
                /\ gate'[Ticket.key] # None /\ gate'[Ticket.key].in_flight # 0
                /\ SameAuthority(gate'[Ticket.key].claim, Ticket)
        BY <3>1, <3>2, <3>3, <4>1, <4>3, <4>4
      <4>6. EffectsHeld'
        BY <3>4, <4>5 DEF EffectsHeld, GateOf
      <4> QED
        BY <1>2, <2>2, <3>1, <4>6
    <3> QED
      BY <3>1, <3>5, <3>6, <3>7
  <2>9. CASE UNCHANGED <<gate, closing>>
    BY <1>2, <2>1, <2>2, <2>9
  <2> QED
    <3>1. ASSUME NEW from, NEW done, RegisterClaim(from, done) PROVE UNCHANGED <<gate, closing>>
      BY <3>1 DEF RegisterClaim
    <3>2. ASSUME NEW g, AttachTransaction(g) PROVE UNCHANGED <<gate, closing>>
      BY <3>2 DEF AttachTransaction, registries
    <3>3. ASSUME \/ \E k \in Keys, r \in Runtimes : Authorize(k, r)
                 \/ \E g \in Generations : ReserveFresh(g)
                 \/ \E g \in Generations : AttachRemote(g)
                 \/ RetryReserved \/ AuthorizeRefused \/ Grant \/ Consume \/ ConsumeRefused
                 \/ BeginLocalFactory \/ RunFactory \/ FactoryFails \/ NoChildGivesUp \/ SendSpawn
                 \/ AttachLocal \/ AttachLocalRefused \/ ObserveLocal
          PROVE  UNCHANGED <<gate, closing>>
      BY <3>2, <3>3, SMTT(40), ZenonT(40)
      DEF Authorize, RetryReserved, ReserveFresh, AuthorizeRefused, Grant, Consume,
          ConsumeRefused, BeginLocalFactory, RunFactory, FactoryFails, NoChildGivesUp, SendSpawn,
          AttachLocal, AttachLocalRefused, AttachRemote, ObserveLocal, registries
    <3> QED
      BY <1>5, <2>4, <2>5, <2>6, <2>7, <2>8, <2>9, <3>1, <3>3, Zenon DEF RecoveryWorker
<1>6. CASE LedgerWorker
  <2>1. UNCHANGED <<job, inflight, closer>>
    BY <1>0, <1>6, LedgerWorkerLedger, ZenonT(40)
    DEF LedgerWorker, CloseObserved, RetireFenceLocal, RetireDrainLocal, RetireCompleteLocal,
        Finish, RefreshReads, RefreshDrops, RequestLocalClose, workers, hooks
  <2>2. ASSUME FencesAgree', EffectsHeld' PROVE DrainHolds'
    BY <1>1, <1>2, <2>1, <2>2
  <2>3. /\ \A g \in Generations : gens[g] # None => gens[g].runtime \in Runtimes
        /\ \A g \in Generations : g \in observed \/ local[g] # "none" => gens[g] # None
    BY <1>0 DEF RuntimeIInv, IInv, TypeOK, Generation, LocalsHold
  <2>4. ASSUME NEW g \in Generations, NEW accepted \in BOOLEAN, CloseObserved(g, accepted)
        PROVE  DrainHolds'
    BY <1>4, <2>1, <2>2, <2>3, <2>4 DEF CloseObserved, RequestLocalClose
  <2>5. ASSUME NEW g \in Generations, RetireFenceLocal(g) PROVE DrainHolds'
    <3> DEFINE r == gens[g].runtime
               c == Fence(leaf[closing[r].claim.key])
               e == [closing[r] EXCEPT !.claim = c]
    <3>1. r \in Runtimes /\ gate' = gate
      BY <2>3, <2>5 DEF RetireFenceLocal
    <3>2. CASE closing' = closing
      BY <1>2, <2>1, <2>2, <3>1, <3>2
    <3>3. CASE /\ MayFence(r) /\ FenceRetire(Me, leaf[closing[r].claim.key])
               /\ closing' = [closing EXCEPT ![r] = e]
      <4>1. closing[r] # None
        BY <3>3 DEF MayFence
      <4>2. c \in Claim
        BY <1>0, <3>1, <3>3, FencedClaim
      <4> HIDE DEF c, r
      <4>3. closing[r] \in Closing
        BY <1>0, <3>1, <4>1 DEF RuntimeIInv, RegistriesHold
      <4>4. e.claim = c
        BY <4>2, <4>3, ReplacedClaim
      <4>5. ~LiveClaim(c)
        BY FenceIsOver DEF c
      <4> HIDE DEF e
      <4>6. ~LiveClaim(e.claim)
        BY <4>4, <4>5
      <4> QED
        BY <1>0, <1>2, <2>1, <2>2, <3>1, <3>3, <4>6, OverAgrees
    <3> QED
      BY <2>5, <3>2, <3>3 DEF RetireFenceLocal
  <2>6. ASSUME NEW g \in Generations, RetireDrainLocal(g) PROVE DrainHolds'
    BY <1>2, <2>1, <2>2, <2>6 DEF RetireDrainLocal, registries
  <2>7. ASSUME NEW g \in Generations, RetireCompleteLocal(g) PROVE DrainHolds'
    BY <1>3, <2>1, <2>2, <2>3, <2>7 DEF RetireCompleteLocal
  <2>8. ASSUME NEW r \in Runtimes, Finish(r) PROVE DrainHolds'
    <3>1. closing' = [closing EXCEPT ![r] = None] /\ gate' = gate
      BY <2>8 DEF Finish
    <3>2. FencesAgree'
      BY <1>0, <3>1 DEF RuntimeIInv, RegistriesHold, FencesAgree
    <3> QED
      BY <1>2, <2>1, <2>2, <3>1, <3>2
  <2>9. ASSUME NEW k \in Keys, RefreshReads(k) PROVE DrainHolds'
    BY <1>2, <2>1, <2>2, <2>9 DEF RefreshReads, registries
  <2>10. CASE RefreshDrops
    <3>1. gate' = Closed(refresh) /\ closing' = closing
      BY <2>10 DEF RefreshDrops
    <3>2. OnlyCloses
      BY <1>0, <3>1, ClosedGate DEF RuntimeIInv
    <3> QED
      BY <1>0, <1>2, <2>1, <2>2, <3>1, <3>2, ClosingKeepsEffects
  <2> QED
    BY <1>6, <2>4, <2>5, <2>6, <2>7, <2>8, <2>9, <2>10, ZenonT(40) DEF LedgerWorker
<1>7. CASE RemoteCloser
  <2>1. UNCHANGED <<job, inflight>>
    BY <1>0, <1>7, RemoteCloserLedger
    DEF RemoteCloser, CloserStart, CloserFence, CloserRecord, CloserResumes, HostCloses,
        CloserConfirms, CloserGivesUp, hooks
  <2>2. /\ closer \in Closer
        /\ closer.pc # "idle" => closer.runtime \in Runtimes
        /\ IdleCloser.pc = "idle"
    BY <1>0 DEF RuntimeIInv, WorkersHold, Closer, IdleCloser
  <2>3. ASSUME NEW r \in Runtimes, CloserStart(r) PROVE DrainHolds'
    <3>1. BeginClose(r, TRUE, FALSE) /\ closer'.pc = "closing"
      BY <2>3 DEF CloserStart
    <3> QED
      BY <1>1, <1>2, <1>3, <2>1, <3>1
  <2>4. CASE CloserFence
    <3> DEFINE r == closer.runtime
               c == Fence(leaf[closing[r].claim.key])
    <3>1. /\ r \in Runtimes /\ MayFence(r) /\ FenceRetire(Me, leaf[closing[r].claim.key])
          /\ closer' = [closer EXCEPT !.pc = "fenced", !.claim = leaf'[closing[r].claim.key]]
          /\ UNCHANGED <<gate, closing>>
      BY <2>2, <2>4 DEF CloserFence, registries
    <3>2. leaf'[closing[r].claim.key] = c
      BY <1>0, <3>1, FencedClaim
    <3>3. closer'.claim = c
      BY <2>2, <3>1, <3>2 DEF Closer
    <3>4. FencedIsOver'
      BY <3>3, FenceIsOver DEF FencedIsOver
    <3> QED
      BY <1>1, <1>2, <2>1, <3>1, <3>4
  <2>5. CASE CloserRecord
    <3> DEFINE r == closer.runtime
               e == [closing[r] EXCEPT !.claim = closer.claim]
    <3>1. /\ closer.pc = "fenced" /\ r \in Runtimes /\ gate' = gate
          /\ closer'.pc # "fenced"
          /\ \/ closing[r] # None /\ closing' = [closing EXCEPT ![r] = e]
             \/ closing' = closing
      BY <2>2, <2>5 DEF CloserRecord, Closer
    <3>2. CASE closing[r] # None /\ closing' = [closing EXCEPT ![r] = e]
      <4>1. closing[r] \in Closing
        BY <1>0, <3>1, <3>2 DEF RuntimeIInv, RegistriesHold
      <4>2. e.claim = closer.claim
        BY <4>1 DEF Closing
      <4>3. ~LiveClaim(e.claim)
        BY <1>0, <3>1, <4>2 DEF FencedIsOver
      <4> HIDE DEF e, r
      <4> QED
        BY <1>0, <1>1, <1>2, <2>1, <3>1, <3>2, <4>3, OverAgrees
    <3>3. CASE closing' = closing
      BY <1>1, <1>2, <2>1, <3>1, <3>3
    <3> QED
      BY <3>1, <3>2, <3>3
  <2>6. CASE CloserResumes \/ HostCloses \/ CloserGivesUp
    <3>1. UNCHANGED <<gate, closing>> /\ closer'.pc # "fenced"
      BY <2>2, <2>6 DEF CloserResumes, HostCloses, CloserGivesUp, registries, Closer
    <3> QED
      BY <1>1, <1>2, <2>1, <3>1
  <2>7. CASE CloserConfirms
    <3>1. /\ BeginClose(closer.runtime, TRUE, TRUE) /\ closer.runtime \in Runtimes
          /\ closer'.pc # "fenced"
      BY <2>2, <2>7 DEF CloserConfirms
    <3> QED
      BY <1>1, <1>2, <1>3, <2>1, <3>1
  <2> QED
    BY <1>7, <2>3, <2>4, <2>5, <2>6, <2>7, Zenon DEF RemoteCloser
<1>8. CASE HookJobs
  <2>1. UNCHANGED <<closing, closer>>
    BY <1>8 DEF HookJobs, Admit, BeginEffects, MemoryEffect, EndEffects, PublicationDenied,
       PublicationOffers, PublicationRefused, PublicationTimeout, registries, workers
  <2>2. ASSUME EffectsHeld' PROVE DrainHolds'
    BY <1>1, <1>2, <2>1, <2>2
  <2>3. CASE job' \notin {"running", "effected"}
    BY <1>2, <2>2, <2>3
  <2>4. CASE MemoryEffect
    <3>1. job = "running" /\ UNCHANGED <<gate, inflight>>
      BY <2>4 DEF MemoryEffect, registries
    <3>2. EffectsHeld'
      BY <1>0, <3>1 DEF EffectsHeld, GateOf, Ticket
    <3> QED
      BY <2>2, <3>2
  <2>5. CASE BeginEffects /\ job' = "running"
    <3> DEFINE k == Ticket.key
    <3>1. /\ job = "admitted" /\ GateOf(Ticket)
          /\ gate' = [gate EXCEPT ![k].in_flight = @ + 1]
          /\ inflight' = inflight
      BY <2>5 DEF BeginEffects, NoTransaction, vars
    <3>2. k \in Keys
      <4>1. inflight[Me] \in Context
        BY <1>0, <3>1, RuntimeAssumption DEF RuntimeIInv, IInv, TypeOK, HooksHold
      <4> QED
        BY <4>1 DEF Context, Claim, Ticket
    <3>3. gate[k] # None /\ gate[k] \in GateState /\ SameAuthority(gate[k].claim, Ticket)
      BY <1>0, <3>1, <3>2 DEF GateOf, RuntimeIInv, RegistriesHold
    <3> DEFINE new == [gate[k] EXCEPT !.in_flight = gate[k].in_flight + 1]
    <3>4. gate' = [gate EXCEPT ![k] = new]
      BY <3>1
    <3>5. new.claim = gate[k].claim /\ new.in_flight = gate[k].in_flight + 1
      BY <3>3 DEF GateState
    <3>6. gate[k].in_flight = 0
      BY <1>0, <3>1, <3>2, <3>3 DEF RuntimeIInv, HooksHold
    <3> HIDE DEF new, k
    <3>7. gate'[k] = new
      BY <1>0, <3>2, <3>4 DEF RuntimeIInv, RegistriesHold
    <3>8. gate'[k].in_flight = 1 /\ SameAuthority(gate'[k].claim, Ticket)
      BY <3>3, <3>5, <3>6, <3>7
    <3>9. gate'[k] # None
      <4>1. new \in GateState
        <5>1. gate[k].in_flight + 1 \in 0..1
          BY <3>6, SMTT(40), ZenonT(40)
        <5> QED
          BY <3>3, <5>1, Zenon DEF new, GateState
      <4> QED
        BY <3>7, <4>1, RegistryAssumption
    <3>10. EffectsHeld'
      BY <3>1, <3>8, <3>9, SMTT(40), ZenonT(40) DEF EffectsHeld, GateOf, Ticket, k
    <3> QED
      BY <2>2, <3>10
  <2>6. CASE PublicationOffers \/ PublicationTimeout
    <3>1. UNCHANGED <<gate, job, inflight>>
      BY <2>6 DEF PublicationOffers, PublicationTimeout, NoTransaction, vars, registries
    <3> QED
      BY <1>2, <2>2, <3>1
  <2> QED
    <3>1. ASSUME \/ \E k \in Keys, r \in Runtimes, g \in Generations : Admit(k, r, g)
                 \/ \E accepted \in BOOLEAN : EndEffects(accepted)
                 \/ PublicationDenied \/ PublicationRefused
          PROVE  job' \notin {"running", "effected"}
      BY <3>1 DEF Admit, EndEffects, PublicationDenied, PublicationRefused, DropJob
    <3>2. ASSUME BeginEffects PROVE job' = "running" \/ job' = "idle"
      BY <3>2 DEF BeginEffects
    <3> QED
      BY <1>8, <2>3, <2>4, <2>5, <2>6, <3>1, <3>2, Zenon DEF HookJobs
<1>9. CASE Ui
  <2>1. closer' = closer
    BY <1>9 DEF Ui, UiClose, UiClaims, UiDrops, Freeze, Sample, workers
  <2>2. ASSUME NEW r \in Runtimes, NEW permanent \in BOOLEAN, UiClose(r, permanent)
        PROVE  DrainHolds'
    <3>1. BeginClose(r, permanent, FALSE) /\ UNCHANGED <<job, inflight>>
      BY <2>2 DEF UiClose, NoTransaction, vars, hooks
    <3> QED
      BY <1>1, <1>2, <1>3, <2>1, <3>1
  <2>3. CASE UiClaims \/ UiDrops \/ Freeze \/ Sample
    <3>1. /\ UNCHANGED <<gate, closing>>
          /\ UNCHANGED <<job, inflight>> \/ job' = "idle"
      BY <2>3 DEF UiClaims, UiDrops, Freeze, Sample, NoTransaction, DropJob, vars, registries,
         hooks
    <3> QED
      BY <1>1, <1>2, <2>1, <3>1
  <2> QED
    BY <1>9, <2>2, <2>3, Zenon DEF Ui
<1>10. CASE Environment
  <2>1. UNCHANGED <<registries, hooks, workers>>
    BY <1>10 DEF Environment, HostConsume, HostFactory, ChildExits, OtherStep
  <2>2. inflight' = inflight
    BY <1>0, <1>10, EnvironmentLedger
  <2>3. UNCHANGED <<gate, closing, job, closer>>
    BY <2>1 DEF registries, hooks, workers
  <2> QED
    BY <1>1, <1>2, <2>2, <2>3
<1>11. CASE UNCHANGED all_vars
  <2>1. UNCHANGED <<gate, closing, job, closer, inflight>>
    BY <1>11 DEF all_vars, vars, registries, hooks, workers
  <2> QED
    BY <1>1, <1>2, <2>1
<1> QED
  BY <1>5, <1>6, <1>7, <1>8, <1>9, <1>10, <1>11 DEF RuntimeNext

(* An endpoint gives a live leaf up only at the end of a close whose       *)
(* effects are drained.                                                    *)
LEMMA GivenUpDrained ==
    ASSUME RuntimeIInv, [RuntimeNext]_all_vars, NEW k \in Keys,
           leaf[k] # None, leaf[k].owner = Me, LiveClaim(leaf[k]),
           leaf'[k] # leaf[k], ~LiveClaim(leaf'[k])
    PROVE  \E r \in Runtimes : /\ closing[r] # None
                               /\ LocallyDrained(closing[r].fence)
                               /\ LiveClaim(closing[r].claim)
                               /\ SameAuthority(closing[r].claim, leaf[k])
<1> DEFINE Drained(r) == /\ closing[r] # None
                         /\ LocallyDrained(closing[r].fence)
                         /\ LiveClaim(closing[r].claim)
                         /\ SameAuthority(closing[r].claim, leaf[k])
<1> SUFFICES \E r \in Runtimes : Drained(r)
  OBVIOUS
<1>0. /\ TypeOK /\ Me \in Owners
      /\ leaf[k] \in Claim /\ leaf[k].key \in Keys
  BY RuntimeAssumption DEF RuntimeIInv, IInv, TypeOK, Claim
\* The row a transaction of c writes is c's.
<1>1. ASSUME NEW o \in Owners, NEW c \in Claim, leaf[c.key] = c,
             NEW e \in 1..MaxEpoch, NEW w \in Owners \cup {None}, NEW ph \in ClaimPhase,
             NEW rb \in BOOLEAN, SetLeaf(o, Successor(c, e, w, ph, rb))
      PROVE  c = leaf[k] /\ c.owner = Me /\ LiveClaim(c) /\ leaf'[c.key].phase = ph
  BY <1>0, <1>1, WrittenClaim
<1>2. ASSUME NEW o \in Owners, NEW c \in Claim, FenceRetire(o, c) \/ Release(o, c) \/ Retire(o, c)
      PROVE  c = leaf[k] /\ o = Me
  <2>1. leaf[c.key] = c /\ c.epoch + 1 \in 1..MaxEpoch /\ c.require_binding \in BOOLEAN /\ c.owner = o
    <3>1. leaf[c.key] = c /\ HasNextEpoch(c) /\ c.owner = o
      BY <1>2 DEF FenceRetire, Release, Retire, RequireExact
    <3>2. c.epoch \in 1..MaxEpoch /\ c.require_binding \in BOOLEAN
      BY DEF Claim
    <3> QED
      BY <3>1, <3>2, LedgerAssumption DEF HasNextEpoch
  <2>2. {"retiring", "detached", "retired"} \subseteq ClaimPhase /\ None \in Owners \cup {None}
    BY DEF ClaimPhase
  <2>3. \/ SetLeaf(o, Successor(c, c.epoch + 1, o, "retiring", TRUE))
        \/ SetLeaf(o, Successor(c, c.epoch + 1, None, "detached", c.require_binding))
        \/ SetLeaf(o, Successor(c, c.epoch + 1, o, "retired", TRUE))
    BY <1>2 DEF FenceRetire, Release, Retire
  <2> QED
    BY <1>1, <2>1, <2>2, <2>3, SMTT(40), ZenonT(40)
<1>3. ASSUME NEW o \in Owners, NEW c \in Claim, NEW host,
             Install(o, c, host) \/ Adopt(o, c, host)
      PROVE  FALSE
  <2>1. leaf[c.key] = c /\ c.epoch \in 1..MaxEpoch /\ c.require_binding \in BOOLEAN
    BY <1>3 DEF Install, Adopt, RequireExact, Claim
  <2>2. PICK e \in 1..MaxEpoch : SetLeaf(o, Successor(c, e, o, "active", c.require_binding))
    <3>1. CASE Install(o, c, host)
      BY <2>1, <3>1 DEF Install
    <3>2. CASE Adopt(o, c, host)
      <4>1. c.epoch + 1 \in 1..MaxEpoch
        BY <2>1, <3>2, LedgerAssumption DEF Adopt, HasNextEpoch
      <4> QED
        BY <3>2, <4>1 DEF Adopt
    <3> QED
      BY <1>3, <3>1, <3>2
  <2>3. "active" \in ClaimPhase /\ o \in Owners \cup {None}
    BY DEF ClaimPhase
  <2>4. c = leaf[k] /\ leaf'[c.key].phase = "active" /\ leaf[k].key = k
    <3>1. c = leaf[k] /\ leaf'[c.key].phase = "active"
      BY <1>1, <2>1, <2>2, <2>3
    <3>2. \A j \in Keys : j # c.key => leaf'[j] = leaf[j]
      BY <1>0, <2>1, <2>2, <2>3, WrittenClaim
    <3> QED
      BY <3>1, <3>2
  <2> QED
    BY <2>4 DEF LiveClaim
\* The fence of a close.
<1>4. ASSUME NEW r \in Runtimes, MayFence(r), FenceRetire(Me, leaf[closing[r].claim.key])
      PROVE  Drained(r)
  <2>1. closing[r] # None /\ SameAuthority(closing[r].claim, leaf[closing[r].claim.key])
    BY <1>4 DEF MayFence
  <2>2. closing[r].claim \in Claim
    BY <2>1 DEF RuntimeIInv, RegistriesHold, Born
  <2>3. leaf[closing[r].claim.key] \in Claim
    BY <1>0, <1>4, <2>2 DEF MayFence, TypeOK, Claim
  <2>4. leaf[closing[r].claim.key] = leaf[k]
    BY <1>0, <1>2, <1>4, <2>3
  <2> QED
    BY <1>4, <2>1, <2>4 DEF MayFence, SameAuthority
<1>5. CASE RecoveryWorker
  <2>1. ASSUME NEW g \in Generations, ReserveFresh(g) PROVE FALSE
    <3>1. leaf[birth.key] # None => ~LiveClaim(leaf[birth.key])
      BY <2>1 DEF ReserveFresh, Reserve, LiveClaim
    <3>2. PICK c : leaf' = [leaf EXCEPT ![birth.key] = c]
      BY <2>1 DEF ReserveFresh, Reserve, SetLeaf
    <3> QED
      BY <1>0, <3>1, <3>2 DEF TypeOK
  <2>2. ASSUME NEW g \in Generations, AttachTransaction(g) PROVE FALSE
    <3>1. EvidenceOf(g) \in Evidence /\ leaf[EvidenceOf(g).key] # None
      BY <1>0, <2>2, EvidenceType DEF AttachTransaction
    <3>2. leaf[EvidenceOf(g).key] \in Claim
      BY <1>0, <3>1 DEF TypeOK, Evidence
    <3> QED
      BY <1>0, <1>3, <2>2, <3>2 DEF AttachTransaction, NoTransaction, vars
  <2>3. CASE NoChildConfirm
    <3>1. birth.runtime \in Runtimes
      BY <2>3 DEF NoChildConfirm, RuntimeIInv, BirthHolds, Birth
    <3> QED
      BY <1>4, <2>3, <3>1 DEF NoChildConfirm
  <2>4. CASE AttachLocal
    <3>1. birth.claim.generation \in Generations
      BY <2>4, SMTT(40), ZenonT(40) DEF AttachLocal, RuntimeIInv, BirthHolds, Born, Claim
    <3> QED
      BY <2>2, <2>4, <3>1 DEF AttachLocal
  <2>5. ASSUME \/ \E j \in Keys, r \in Runtimes : Authorize(j, r)
               \/ \E accepted \in BOOLEAN : FactoryCloses(accepted)
               \/ RegisterGate("reserved", "gated", IdleBirth)
               \/ RegisterGate("attached", "attach_gated", AttachRefused)
               \/ RegisterClaim("gated", [birth EXCEPT !.pc = "registered"])
               \/ RegisterClaim("attach_gated", AttachDone)
               \/ RetryReserved \/ AuthorizeRefused \/ GrantCancelled \/ Grant \/ Consume
               \/ ConsumeRefused \/ BeginLocalFactory \/ RunFactory \/ FactoryFails
               \/ NoChildBegin \/ NoChildGivesUp \/ SendSpawn \/ AttachLocalRefused
               \/ ObserveLocal
        PROVE  FALSE
    BY <2>5
    DEF Authorize, FactoryCloses, RequestLocalClose, RegisterGate, RegisterClaim, RetryReserved,
        AuthorizeRefused, GrantCancelled, Grant, Consume, ConsumeBirthOnce, ConsumeRefused,
        BeginLocalFactory, RunFactory, RunGuarded, FactoryFails, LosePermit, NoChildBegin,
        NoChildGivesUp, SendSpawn, AttachLocalRefused, ObserveLocal, NoTransaction, vars
  <2> QED
    BY <1>5, <2>1, <2>2, <2>3, <2>4, <2>5, Zenon DEF RecoveryWorker, AttachRemote
<1>6. CASE LedgerWorker
  <2>1. ASSUME NEW g \in Generations, RetireFenceLocal(g) PROVE \E r \in Runtimes : Drained(r)
    <3>1. gens[g].runtime \in Runtimes
      BY <1>0, <2>1 DEF RetireFenceLocal, RuntimeIInv, LocalsHold, TypeOK, Generation
    <3>2. NoTransaction => FALSE
      BY DEF NoTransaction, vars
    <3> QED
      BY <1>4, <2>1, <3>1, <3>2 DEF RetireFenceLocal
  <2>2. ASSUME NEW r \in Runtimes, Finish(r) PROVE Drained(r)
    <3> DEFINE c == closing[r].claim
               current == leaf[c.key]
    <3>1. /\ closing[r] # None /\ LocallyDrained(closing[r].fence)
          /\ current # None
          /\ c = current \/ SameAuthority(c, current)
          /\ Release(Me, current) \/ Retire(Me, current)
      BY <2>2 DEF Finish, MayFinish
    <3>2. current \in Claim
      BY <1>0, <3>1 DEF RuntimeIInv, RegistriesHold, Born, TypeOK, Claim
    <3>3. current = leaf[k]
      BY <1>0, <1>2, <3>1, <3>2
    <3> HIDE DEF current
    <3>4. LiveClaim(c) /\ SameAuthority(c, leaf[k])
      BY <3>1, <3>3 DEF SameAuthority
    <3> QED
      BY <3>1, <3>4
  <2>3. ASSUME \/ \E g \in Generations :
                     \/ \E accepted \in BOOLEAN : CloseObserved(g, accepted)
                     \/ RetireDrainLocal(g) \/ RetireCompleteLocal(g)
               \/ \E j \in Keys : RefreshReads(j)
               \/ RefreshDrops
        PROVE  FALSE
    BY <2>3 DEF CloseObserved, RequestLocalClose, RetireDrainLocal, RetireCompleteLocal,
       RefreshReads, RefreshDrops, NoTransaction, vars
  <2> QED
    BY <1>6, <2>1, <2>2, <2>3, Zenon DEF LedgerWorker
<1>7. CASE RemoteCloser
  <2>1. CASE CloserFence
    <3>1. closer.runtime \in Runtimes
      BY <2>1 DEF CloserFence, RuntimeIInv, WorkersHold, Closer
    <3> QED
      BY <1>4, <2>1, <3>1 DEF CloserFence
  <2>2. ASSUME \/ \E r \in Runtimes : CloserStart(r)
               \/ CloserRecord \/ CloserResumes \/ HostCloses \/ CloserConfirms \/ CloserGivesUp
        PROVE  FALSE
    BY <2>2 DEF CloserStart, CloserRecord, CloserResumes, HostCloses, CloserConfirms,
       CloserGivesUp, NoTransaction, vars
  <2> QED
    BY <1>7, <2>1, <2>2, Zenon DEF RemoteCloser
<1>8. CASE HookJobs \/ Ui
  BY <1>8, HookJobsLedger, UiLedger
<1>9. CASE Environment
  <2>1. ASSUME NEW o \in Owners \ {Me}, NEW j \in Keys, OtherStep(o, j) PROVE FALSE
    <3>1. leaf[j] \in Claim
      BY <1>0, <2>1 DEF OtherStep, TypeOK
    <3>2. NoTransaction => FALSE
      BY DEF NoTransaction, vars
    <3> QED
      BY <1>2, <1>3, <2>1, <3>1, <3>2 DEF OtherStep
  <2>2. ASSUME NEW c \in spawned, HostConsume(c) \/ HostFactory(c) PROVE FALSE
    BY <2>2 DEF HostConsume, HostFactory, ConsumeBirthOnce, RunGuarded
  <2>3. ASSUME NEW g \in Generations, ChildExits(g) PROVE FALSE
    BY <2>3 DEF ChildExits, NoTransaction, vars
  <2> QED
    BY <1>9, <2>1, <2>2, <2>3, Zenon DEF Environment
<1>10. CASE UNCHANGED all_vars
  BY <1>10 DEF all_vars, vars
<1> QED
  BY <1>5, <1>6, <1>7, <1>8, <1>9, <1>10 DEF RuntimeNext

(* EffectsDrainedFirst: this endpoint never fences, releases or retires a  *)
(* leaf while a hook it admitted has effects under that very claim         *)
(* (hook_authority.rs begin_effects, hook_runtime.rs locally_drained).     *)
THEOREM DrainedBeforeGivenUp == RuntimeSpec => EffectsDrainedFirst
<1>1. RuntimeInit => DrainIInv
  <2> SUFFICES ASSUME RuntimeInit PROVE DrainHolds
    BY RuntimeStarts DEF DrainIInv
  <2> QED
    BY DEF RuntimeInit, DrainHolds, FencesAgree, EffectsHeld, FencedIsOver, IdleCloser
<1>2. DrainIInv /\ [RuntimeNext]_all_vars => [DrainedFirst]_all_vars
  <2> SUFFICES ASSUME DrainIInv, [RuntimeNext]_all_vars, NEW k \in Keys,
                      leaf[k] # None, leaf[k].owner = Me, LiveClaim(leaf[k]),
                      leaf'[k] # leaf[k], ~LiveClaim(leaf'[k]),
                      job \in {"running", "effected"}, SameAuthority(Ticket, leaf[k])
               PROVE  FALSE
    BY DEF DrainedFirst
  <2>1. PICK r \in Runtimes : /\ closing[r] # None
                             /\ LocallyDrained(closing[r].fence)
                             /\ LiveClaim(closing[r].claim)
                             /\ SameAuthority(closing[r].claim, leaf[k])
    BY GivenUpDrained DEF DrainIInv
  <2>2. /\ SameAuthority(closing[r].claim, closing[r].fence)
        /\ gate[Ticket.key] # None /\ SameAuthority(gate[Ticket.key].claim, Ticket)
        /\ gate[Ticket.key].in_flight # 0
    BY <2>1, SMTT(40), ZenonT(40) DEF DrainIInv, DrainHolds, FencesAgree, EffectsHeld, GateOf
  <2>3. /\ closing[r].fence.key = Ticket.key
        /\ SameAuthority(gate[Ticket.key].claim, closing[r].fence)
    BY <2>1, <2>2, SMTT(40), ZenonT(40) DEF SameAuthority
  <2> QED
    BY <2>1, <2>2, <2>3 DEF LocallyDrained, GateOf
<1> QED
  BY <1>1, <1>2, DrainStep, PTL DEF RuntimeSpec, EffectsDrainedFirst

(* The gates of an endpoint, as the run of the agents checks them: open    *)
(* only for a claim that is registered and owned, and emptied before the   *)
(* leaf is given up.                                                       *)
THEOREM GatesKept == RuntimeSpec => GatesAreKept
  BY GatesOwned, DrainedBeforeGivenUp, PTL DEF GatesAreKept

-----------------------------------------------------------------------------
(* No child is left behind.                                                *)

\* The nonce can start no child any more: it is fenced, or it is used up, or
\* its runtime was cancelled before anybody was granted it.
Ungranted(g) ==
    /\ gens[g].runtime \in cancelled
    /\ \A c \in spawned : c.generation # g
    /\ birth.pc = "granted" => birth.claim.generation # g

Barred(g) ==
    \/ Fenced(g)
    \/ /\ \A c \in permits : c.generation # g
       /\ gens[g].spawn_consumed \/ Ungranted(g)

Over(g) == ~Alive(g) /\ Barred(g)

\* Nothing the ledger still names under a runtime is, or comes, alive.
Settled(r) ==
    \A k \in Keys : leaf[k] # None /\ leaf[k].runtime = r => Over(leaf[k].generation)

\* A runtime is of one leaf, and so is the birth in progress.
OneLeafEach ==
    /\ \A k \in Keys : leaf[k] # None => leaf[k].generation # None /\ leaf[k].key = k
    /\ \A g, h \in Generations :
          gens[g] # None /\ gens[h] # None /\ gens[g].runtime = gens[h].runtime =>
              gens[g].key = gens[h].key
    /\ birth.pc = "checked" => SessionOf(birth.key, birth.runtime)

BirthIsCurrent ==
    birth.pc \notin {"idle", "checked"} =>
        /\ leaf[birth.claim.key] # None
        /\ leaf[birth.claim.key].generation = birth.claim.generation
        /\ birth.claim.runtime = birth.runtime
        /\ gens[birth.claim.generation].runtime = birth.runtime

\* A fresh reservation is known to nobody.
FreshIsUnsent ==
    birth.pc \in {"reserved", "gated", "registered"} /\ birth.fresh =>
        /\ ~gens[birth.claim.generation].spawn_consumed
        /\ \A c \in spawned : c.generation # birth.claim.generation

\* What is in the hands of a local factory.
InFactory == birth.pc \in {"consumed", "refused", "admitted"}
NoChild == birth.pc \in {"nochild", "nochild_fenced"}
Built ==
    \/ birth.pc \in {"built", "handoff", "orphan"}
    \/ birth.pc \in {"attached", "attach_gated"} /\ birth.runtime \in Local

\* The factory has the permit, or it is used up without a child, or the child
\* is on no list yet but that of the factories at work.
FactoryHolds ==
    /\ InFactory \/ Built \/ NoChild => birth.runtime \in Local
    /\ InFactory => birth.claim \in permits
    /\ NoChild =>
          /\ gens[birth.claim.generation].spawn_consumed
          /\ \A c \in permits : c.generation # birth.claim.generation
          /\ factories[birth.claim.generation] = 0
    /\ birth.pc = "nochild_fenced" => birth.runtime \in cancelled
    /\ birth.pc = "admitted" \/ Built =>
          /\ birth.claim.generation \in pending
          /\ birth.claim.generation \notin observed
          /\ local[birth.claim.generation] = "none"
    /\ Built => factories[birth.claim.generation] # 0

SpawnsAreRemote == \A c \in spawned : Born(c) /\ c.runtime \notin Local

ClosingsAreCancelled ==
    \A r \in Runtimes : closing[r] # None =>
        /\ r \in cancelled
        /\ closing[r].claim.runtime = r
        /\ closing[r].confirmed => r \in finishing

FinishingIsSettled == \A r \in finishing : r \in cancelled /\ Settled(r)

KilledIsSettled ==
    closer.pc # "idle" =>
        /\ closer.runtime \in cancelled
        /\ closer.claim.runtime = closer.runtime
        /\ closer.pc = "killed" => Settled(closer.runtime)

LocalChildren ==
    \A g \in Generations :
        /\ g \in observed \/ local[g] # "none" =>
              factories[g] # 0 /\ gens[g].runtime \in Local
        /\ local[g] # "none" => gens[g].runtime \in cancelled

\* A local runtime is used again only after it was cancelled.
LocalNonces ==
    /\ \A g \in Generations :
          gens[g] # None /\ gens[g].phase = "retired" /\ gens[g].runtime \in Local =>
              gens[g].runtime \in cancelled
    /\ \A g, h \in Generations :
          /\ g # h /\ gens[g] # None /\ gens[h] # None
          /\ gens[g].runtime = gens[h].runtime /\ gens[g].runtime \in Local
          => Over(g)

RetiredIsOver ==
    \A g \in Generations : gens[g] # None /\ gens[g].phase = "retired" => Over(g)

LivingAreListed ==
    \A g \in Generations :
        gens[g] # None /\ gens[g].runtime \in Local /\ Alive(g) => g \in pending \cup observed

\* Each sample of the shutdown still holds once a later one was taken.
SampledIsEmpty ==
    /\ shutdown # "running" => admission
    /\ shutdown \notin {"running", "frozen"} => pending = {}
    /\ shutdown \in {"no_handles", "no_queued", "clean"} => observed = {}

NoncesHold ==
    /\ OneLeafEach /\ BirthIsCurrent /\ FreshIsUnsent /\ FactoryHolds /\ SpawnsAreRemote
    /\ LocalChildren /\ LocalNonces /\ RetiredIsOver

ClosesHold == ClosingsAreCancelled /\ FinishingIsSettled /\ KilledIsSettled

CleanHolds == NoncesHold /\ ClosesHold /\ LivingAreListed /\ SampledIsEmpty

CleanIInv == RuntimeIInv /\ CleanHolds

-----------------------------------------------------------------------------
(* What a step does to the rows of the ledger, to permits and factories.   *)

\* The rows go on naming what they named.
NamesStay ==
    /\ \A k \in Keys :
          /\ leaf'[k] = None <=> leaf[k] = None
          /\ leaf[k] # None =>
                /\ leaf'[k].key = leaf[k].key
                /\ leaf'[k].runtime = leaf[k].runtime
                /\ leaf'[k].generation = leaf[k].generation
    /\ \A g \in Generations :
          /\ gens'[g] = None <=> gens[g] = None
          /\ gens[g] # None =>
                gens'[g].key = gens[g].key /\ gens'[g].runtime = gens[g].runtime

\* No nonce is consumed, no factory runs; a permit may be lost.
Idles ==
    /\ NamesStay
    /\ permits' \subseteq permits /\ factories' = factories
    /\ \A g \in Generations : gens[g] # None =>
          gens'[g].spawn_consumed = gens[g].spawn_consumed

\* The one granted, or one on the wire, is consumed.
Consumes(c) ==
    /\ NamesStay
    /\ c \in spawned \/ (Consume /\ c = birth.claim)
    /\ c \in Claim /\ c.generation \in Generations /\ gens[c.generation] # None
    /\ ~gens[c.generation].spawn_consumed
    /\ permits' = permits \cup {c} /\ factories' = factories
    /\ \A g \in Generations : gens[g] # None =>
          gens'[g].spawn_consumed = (gens[g].spawn_consumed \/ g = c.generation)

\* A factory runs with its permit.
Builds(c) ==
    /\ UNCHANGED <<leaf, gens>>
    /\ c \in spawned \/ (RunFactory /\ c = birth.claim)
    /\ c \in permits /\ ValidateSpawn(c)
    /\ permits' = permits \ {c}
    /\ factories' = [factories EXCEPT ![c.generation] = factories[c.generation] + 1]

(* The rows are left alone.                                                *)
LEMMA NothingMoves ==
    ASSUME UNCHANGED <<leaf, gens, factories>>, permits' \subseteq permits
    PROVE  Idles
BY DEF Idles, NamesStay

(* A claim is followed by one of the same birth.                           *)
LEMMA SuccessorStays ==
    ASSUME TypeOK, NEW o \in Owners, NEW c \in Claim, RequireExact(c), NEW e \in 1..MaxEpoch,
           NEW w \in Owners \cup {None}, NEW ph \in ClaimPhase, NEW rb \in BOOLEAN,
           SetLeaf(o, Successor(c, e, w, ph, rb)),
           \/ UNCHANGED gens
           \/ \E p \in {"active", "retired"} :
                 SetGenerationPhase(c, p) /\ (c.generation # None => gens[c.generation] # None),
           UNCHANGED volatile
    PROVE  Idles
<1>1. /\ c.key \in Keys /\ leaf[c.key] = c /\ c # None
      /\ leaf'[c.key] # None /\ leaf'[c.key].key = c.key
      /\ leaf'[c.key].generation = c.generation /\ leaf'[c.key].runtime = c.runtime
      /\ \A j \in Keys : j # c.key => leaf'[j] = leaf[j]
  <2>1. leaf'[c.key] = Successor(c, e, w, ph, rb)
    <3>1. Successor(c, e, w, ph, rb).key = c.key /\ c.key \in Keys
      BY DEF Successor, Claim
    <3>2. leaf' = [leaf EXCEPT ![c.key] = Successor(c, e, w, ph, rb)]
      BY <3>1 DEF SetLeaf
    <3> QED
      BY <3>1, <3>2, Zenon DEF TypeOK
  <2> QED
    BY <2>1, WrittenClaim DEF RequireExact, Successor
<1>2. \A g \in Generations :
          /\ gens'[g] = None <=> gens[g] = None
          /\ gens[g] # None => /\ gens'[g].key = gens[g].key
                               /\ gens'[g].runtime = gens[g].runtime
                               /\ gens'[g].spawn_consumed = gens[g].spawn_consumed
  <2>1. ASSUME NEW p \in {"active", "retired"}, SetGenerationPhase(c, p), c.generation # None,
               gens[c.generation] # None
        PROVE  \A g \in Generations :
                  /\ gens'[g] = None <=> gens[g] = None
                  /\ gens[g] # None => /\ gens'[g].key = gens[g].key
                                       /\ gens'[g].runtime = gens[g].runtime
                                       /\ gens'[g].spawn_consumed = gens[g].spawn_consumed
    <3>1. c.generation \in Generations /\ gens[c.generation].spawn_consumed \in BOOLEAN
      BY <2>1 DEF Claim, TypeOK, Generation
    <3>2. UpdateGeneration(c.generation, gens[c.generation].spawn_consumed, p)
      BY <2>1 DEF SetGenerationPhase
    <3> QED
      BY <2>1, <3>1, <3>2, UpdatedRow
  <2>2. ASSUME UNCHANGED gens \/ \E p \in {"active", "retired"} : SetGenerationPhase(c, p) /\ c.generation = None
        PROVE  gens' = gens
    BY <2>2 DEF SetGenerationPhase
  <2> QED
    BY <2>1, <2>2
<1>3. permits' = permits /\ factories' = factories
  BY DEF volatile
<1> QED
  BY <1>1, <1>2, <1>3 DEF Idles, NamesStay

(* Every transaction but a consumption writes such a claim.                *)
LEMMA TransactionIdles ==
    ASSUME TypeOK, NEW o \in Owners, NEW c \in Claim,
           \/ \E host \in Evidence : Install(o, c, host) \/ Adopt(o, c, host)
           \/ FenceRetire(o, c) \/ Retire(o, c) \/ Release(o, c)
    PROVE  Idles
<1>0. /\ c.epoch \in 1..MaxEpoch /\ (HasNextEpoch(c) => c.epoch + 1 \in 1..MaxEpoch)
      /\ c.require_binding \in BOOLEAN /\ TRUE \in BOOLEAN
      /\ o \in Owners \cup {None} /\ None \in Owners \cup {None}
      /\ {"active", "retiring", "retired", "detached"} \subseteq ClaimPhase
  BY DEF Claim, HasNextEpoch, ClaimPhase
<1>1. ASSUME NEW host \in Evidence, Install(o, c, host) PROVE Idles
  <2>1. /\ RequireExact(c)
        /\ SetLeaf(o, Successor(c, c.epoch, o, "active", c.require_binding))
        /\ SetGenerationPhase(c, "active") /\ gens[c.generation] # None /\ UNCHANGED volatile
    BY <1>1 DEF Install, GenerationLive
  <2> QED
    BY <1>0, <2>1, SuccessorStays
<1>2. ASSUME NEW host \in Evidence, Adopt(o, c, host) PROVE Idles
  <2>1. /\ RequireExact(c) /\ HasNextEpoch(c)
        /\ SetLeaf(o, Successor(c, c.epoch + 1, o, "active", c.require_binding))
        /\ SetGenerationPhase(c, "active") /\ gens[c.generation] # None /\ UNCHANGED volatile
    BY <1>2 DEF Adopt, GenerationLive
  <2> QED
    BY <1>0, <2>1, SuccessorStays
<1>3. CASE FenceRetire(o, c)
  <2>1. /\ RequireExact(c) /\ HasNextEpoch(c)
        /\ SetLeaf(o, Successor(c, c.epoch + 1, o, "retiring", TRUE))
        /\ UNCHANGED gens /\ UNCHANGED volatile
    BY <1>3 DEF FenceRetire
  <2> QED
    BY <1>0, <2>1, SuccessorStays
<1>4. CASE Retire(o, c)
  <2>1. /\ RequireExact(c) /\ HasNextEpoch(c)
        /\ SetLeaf(o, Successor(c, c.epoch + 1, o, "retired", TRUE))
        /\ SetGenerationPhase(c, "retired") /\ (c.generation # None => gens[c.generation] # None)
        /\ UNCHANGED volatile
    BY <1>4 DEF Retire
  <2> QED
    BY <1>0, <2>1, SuccessorStays
<1>5. CASE Release(o, c)
  <2>1. /\ RequireExact(c) /\ HasNextEpoch(c)
        /\ SetLeaf(o, Successor(c, c.epoch + 1, None, "detached", c.require_binding))
        /\ UNCHANGED gens /\ UNCHANGED volatile
    BY <1>5 DEF Release
  <2> QED
    BY <1>0, <2>1, SuccessorStays
<1> QED
  BY <1>1, <1>2, <1>3, <1>4, <1>5

(* A consumption marks one nonce and hands out its permit.                 *)
LEMMA ConsumptionMarks ==
    ASSUME TypeOK, NEW c \in Claim, ConsumeBirthOnce(c),
           c \in spawned \/ (Consume /\ c = birth.claim)
    PROVE  Consumes(c)
<1>1. /\ c.generation \in Generations /\ gens[c.generation] # None
      /\ ~gens[c.generation].spawn_consumed
      /\ UpdateGeneration(c.generation, TRUE, "authorized_birth")
      /\ permits' = permits \cup {c} /\ factories' = factories /\ leaf' = leaf
  BY DEF ConsumeBirthOnce, GenerationLive, Claim
<1>2. /\ gens'[c.generation] # None
      /\ gens'[c.generation].key = gens[c.generation].key
      /\ gens'[c.generation].runtime = gens[c.generation].runtime
      /\ gens'[c.generation].spawn_consumed = TRUE
      /\ \A h \in Generations : h # c.generation => gens'[h] = gens[h]
  BY <1>1, UpdatedRow
<1>3. ASSUME NEW g \in Generations, gens[g] # None
      PROVE  gens'[g].spawn_consumed = (gens[g].spawn_consumed \/ g = c.generation)
  <2>1. gens[g].spawn_consumed \in BOOLEAN
    BY <1>3 DEF TypeOK, Generation
  <2>2. CASE g = c.generation
    BY <1>1, <1>2, <2>2
  <2>3. CASE g # c.generation
    BY <1>2, <2>1, <2>3
  <2> QED
    BY <2>2, <2>3
<1>4. NamesStay
  BY <1>1, <1>2 DEF NamesStay
<1> QED
  BY <1>1, <1>3, <1>4 DEF Consumes

\* What a step of the runtime may be to the ledger.
Moves ==
    \/ Idles
    \/ \E c : Consumes(c)
    \/ \E c : Builds(c)
    \/ \E g \in Generations : ReserveFresh(g)

(* A factory that is run, or refused by validate_spawn.                    *)
LEMMA GuardedMoves ==
    ASSUME NEW c, RunGuarded(c), c \in spawned \/ (RunFactory /\ c = birth.claim)
    PROVE  Moves
<1>1. /\ c \in permits /\ permits' = permits \ {c} /\ UNCHANGED <<leaf, gens>>
      /\ factories' = IF ValidateSpawn(c)
                      THEN [factories EXCEPT ![c.generation] = factories[c.generation] + 1]
                      ELSE factories
  BY DEF RunGuarded
<1>2. CASE ValidateSpawn(c)
  BY <1>1, <1>2 DEF Moves, Builds
<1>3. CASE ~ValidateSpawn(c)
  BY <1>1, <1>3, NothingMoves DEF Moves
<1> QED
  BY <1>2, <1>3

(* Who moves the rows: the recovery worker ...                             *)
LEMMA RecoveryWorkerMoves == ASSUME RuntimeIInv, RecoveryWorker PROVE Moves
<1>0. /\ TypeOK /\ Me \in Owners
      /\ birth \in Birth
      /\ birth.pc # "idle" => birth.key \in Keys /\ birth.runtime \in Runtimes
      /\ birth.pc \notin {"idle", "checked"} => Born(birth.claim)
  BY RuntimeAssumption DEF IInv, RuntimeIInv, BirthHolds, Birth
<1>1. CASE NoTransaction
  BY <1>1, NothingMoves DEF NoTransaction, vars, Moves
<1>2. CASE \E g \in Generations : ReserveFresh(g)
  BY <1>2 DEF Moves
<1>3. CASE Consume
  <2>1. birth.claim \in Claim /\ ConsumeBirthOnce(birth.claim)
    BY <1>0, <1>3 DEF Consume, Born
  <2> QED
    BY <1>0, <1>3, <2>1, ConsumptionMarks DEF Moves
<1>4. CASE RunFactory
  <2>1. RunGuarded(birth.claim)
    BY <1>4 DEF RunFactory
  <2> QED
    BY <1>4, <2>1, GuardedMoves
<1>5. CASE FactoryFails
  BY <1>5, NothingMoves DEF FactoryFails, LosePermit, Moves
<1>6. CASE NoChildConfirm
  <2> DEFINE c == leaf[closing[birth.runtime].claim.key]
  <2>1. c # None /\ FenceRetire(Me, c) /\ closing[birth.runtime] # None /\ birth.runtime \in Runtimes
    BY <1>0, <1>6 DEF NoChildConfirm, MayFence
  <2>2. c \in Claim
    BY <1>0, <2>1 DEF RuntimeIInv, RegistriesHold, Born, TypeOK, Claim
  <2> QED
    BY <1>0, <2>1, <2>2, TransactionIdles DEF Moves
<1>7. ASSUME NEW g \in Generations, AttachTransaction(g) PROVE Moves
  <2> DEFINE host == EvidenceOf(g)
             expected == leaf[host.key]
  <2>1. host \in Evidence /\ expected # None
    BY <1>0, <1>7, EvidenceType DEF AttachTransaction
  <2>2. expected \in Claim
    BY <1>0, <2>1 DEF TypeOK, Evidence
  <2>3. NoTransaction \/ Install(Me, expected, host) \/ Adopt(Me, expected, host)
    BY <1>7 DEF AttachTransaction
  <2> HIDE DEF host, expected
  <2>4. CASE Install(Me, expected, host) \/ Adopt(Me, expected, host)
    BY <1>0, <2>1, <2>2, <2>4, TransactionIdles DEF Moves
  <2> QED
    BY <1>1, <2>3, <2>4
<1>8. CASE AttachLocal
  <2>1. birth.claim.generation \in Generations
    BY <1>0, <1>8 DEF AttachLocal, Born, Claim
  <2> QED
    BY <1>7, <1>8, <2>1 DEF AttachLocal
<1>9. ASSUME NEW g \in Generations, AttachRemote(g) PROVE Moves
  BY <1>7, <1>9 DEF AttachRemote
<1>10. ASSUME \/ \E k \in Keys, r \in Runtimes : Authorize(k, r)
              \/ RetryReserved \/ AuthorizeRefused
              \/ RegisterGate("reserved", "gated", IdleBirth)
              \/ RegisterClaim("gated", [birth EXCEPT !.pc = "registered"])
              \/ GrantCancelled \/ Grant \/ ConsumeRefused \/ BeginLocalFactory
              \/ NoChildBegin \/ NoChildGivesUp \/ SendSpawn \/ AttachLocalRefused
              \/ RegisterGate("attached", "attach_gated", AttachRefused)
              \/ RegisterClaim("attach_gated", AttachDone)
              \/ ObserveLocal
              \/ \E accepted \in BOOLEAN : FactoryCloses(accepted)
       PROVE  NoTransaction
  BY <1>10, Zenon DEF Authorize, RetryReserved, AuthorizeRefused, RegisterGate, RegisterClaim,
     GrantCancelled, Grant, ConsumeRefused, BeginLocalFactory, NoChildBegin, NoChildGivesUp,
     SendSpawn, AttachLocalRefused, ObserveLocal, FactoryCloses, RequestLocalClose
<1> QED
  BY <1>1, <1>2, <1>3, <1>4, <1>5, <1>6, <1>8, <1>9, <1>10, Zenon DEF RecoveryWorker

(* ... the hook-ledger worker, the remote closer and the rest.             *)
LEMMA RuntimeMoves == ASSUME RuntimeIInv, [RuntimeNext]_all_vars PROVE Moves
<1>0. /\ TypeOK /\ Me \in Owners /\ spawned \subseteq Claim
      /\ \A r \in Runtimes : closing[r] # None => closing[r].claim.key \in Keys
      /\ \A g \in Generations : local[g] # "none" => gens[g].runtime \in Runtimes
      /\ closer.pc # "idle" => closer.runtime \in Runtimes
  BY RuntimeAssumption DEF IInv, RuntimeIInv, HostsHold, RegistriesHold, Born, Claim, LocalsHold,
     TypeOK, Generation, WorkersHold, Closer
<1>1. CASE NoTransaction \/ DropJob \/ UNCHANGED <<leaf, gens, permits, factories>>
  BY <1>1, NothingMoves DEF NoTransaction, DropJob, vars, Moves
<1>2. ASSUME NEW k \in Keys, NEW o \in Owners, leaf[k] # None,
             \/ \E host \in Evidence : Adopt(o, leaf[k], host)
             \/ FenceRetire(o, leaf[k]) \/ Retire(o, leaf[k]) \/ Release(o, leaf[k])
      PROVE  Moves
  <2>1. leaf[k] \in Claim
    BY <1>0, <1>2 DEF TypeOK
  <2> QED
    BY <1>0, <1>2, <2>1, TransactionIdles DEF Moves
<1>3. CASE LedgerWorker
  <2>1. ASSUME NEW g \in Generations, RetireFenceLocal(g) PROVE Moves
    <3> DEFINE k == closing[gens[g].runtime].claim.key
    <3>1. \/ NoTransaction
          \/ MayFence(gens[g].runtime) /\ FenceRetire(Me, leaf[k])
      BY <2>1 DEF RetireFenceLocal
    <3>2. gens[g].runtime \in Runtimes
      BY <1>0, <2>1 DEF RetireFenceLocal
    <3>3. ASSUME MayFence(gens[g].runtime), FenceRetire(Me, leaf[k]) PROVE Moves
      <4>1. k \in Keys /\ leaf[k] # None
        BY <1>0, <3>2, <3>3 DEF MayFence
      <4> HIDE DEF k
      <4> QED
        BY <1>0, <1>2, <3>3, <4>1, SMTT(40), ZenonT(40)
    <3> QED
      BY <1>1, <3>1, <3>3
  <2>2. ASSUME NEW r \in Runtimes, Finish(r) PROVE Moves
    <3> DEFINE k == closing[r].claim.key
    <3>1. /\ closing[r] # None /\ leaf[k] # None
          /\ Release(Me, leaf[k]) \/ Retire(Me, leaf[k])
      BY <2>2 DEF Finish, MayFinish
    <3>2. k \in Keys
      BY <1>0, <3>1
    <3> HIDE DEF k
    <3> QED
      BY <1>0, <1>2, <3>1, <3>2
  <2>3. ASSUME \/ \E g \in Generations : \/ \E accepted \in BOOLEAN : CloseObserved(g, accepted)
                                         \/ RetireDrainLocal(g) \/ RetireCompleteLocal(g)
               \/ \E k \in Keys : RefreshReads(k)
               \/ RefreshDrops
        PROVE  NoTransaction
    BY <2>3 DEF CloseObserved, RequestLocalClose, RetireDrainLocal, RetireCompleteLocal,
       RefreshReads, RefreshDrops
  <2> QED
    BY <1>1, <1>3, <2>1, <2>2, <2>3, Zenon DEF LedgerWorker
<1>4. CASE RemoteCloser
  <2>1. CASE CloserFence
    <3> DEFINE k == closing[closer.runtime].claim.key
    <3>1. /\ closer.runtime \in Runtimes /\ closing[closer.runtime] # None /\ leaf[k] # None
          /\ FenceRetire(Me, leaf[k])
      BY <1>0, <2>1 DEF CloserFence, MayFence
    <3>2. k \in Keys
      BY <1>0, <3>1
    <3> HIDE DEF k
    <3> QED
      BY <1>0, <1>2, <3>1, <3>2
  <2>2. ASSUME \/ \E r \in Runtimes : CloserStart(r)
               \/ CloserRecord \/ CloserResumes \/ HostCloses \/ CloserConfirms \/ CloserGivesUp
        PROVE  NoTransaction
    BY <2>2, Zenon DEF CloserStart, CloserRecord, CloserResumes, HostCloses, CloserConfirms,
       CloserGivesUp
  <2> QED
    BY <1>1, <1>4, <2>1, <2>2, Zenon DEF RemoteCloser
<1>5. CASE HookJobs
  <2>1. ASSUME \/ \E k \in Keys, r \in Runtimes, g \in Generations : Admit(k, r, g)
               \/ BeginEffects \/ MemoryEffect \/ \E accepted \in BOOLEAN : EndEffects(accepted)
               \/ PublicationDenied \/ PublicationOffers \/ PublicationRefused
               \/ PublicationTimeout
        PROVE  NoTransaction \/ DropJob \/ UNCHANGED <<leaf, gens, permits, factories>>
    BY <2>1 DEF Admit, ResolveBound, BeginEffects, MemoryEffect, EndEffects, PublicationDenied,
       PublicationOffers, PublicationRefused, PublicationTimeout, DropJob
  <2> QED
    BY <1>1, <1>5, <2>1 DEF HookJobs
<1>6. CASE Ui
  BY <1>1, <1>6 DEF Ui, UiClose, UiClaims, UiDrops, Freeze, Sample
<1>7. CASE Environment
  <2>1. ASSUME NEW c \in spawned, HostConsume(c) PROVE Moves
    BY <1>0, <2>1, ConsumptionMarks DEF HostConsume, Moves
  <2>2. ASSUME NEW c \in spawned, HostFactory(c) PROVE Moves
    BY <2>2, GuardedMoves DEF HostFactory
  <2>3. ASSUME NEW g \in Generations, ChildExits(g) PROVE Moves
    BY <1>1, <2>3 DEF ChildExits
  <2>4. ASSUME NEW o \in Owners \ {Me}, NEW k \in Keys, OtherStep(o, k) PROVE Moves
    <3>1. /\ leaf[k] # None
          /\ \/ Adopt(o, leaf[k], EvidenceOf(leaf[k].generation))
             \/ FenceRetire(o, leaf[k]) \/ Retire(o, leaf[k]) \/ Release(o, leaf[k])
             \/ NoTransaction
      BY <2>4 DEF OtherStep
    <3>2. ASSUME Adopt(o, leaf[k], EvidenceOf(leaf[k].generation)) PROVE Moves
      <4>1. /\ leaf[k] \in Claim /\ leaf[k].generation # None
            /\ gens[leaf[k].generation] # None
        BY <1>0, <3>1, <3>2 DEF Adopt, GenerationLive, TypeOK
      <4>2. EvidenceOf(leaf[k].generation) \in Evidence
        BY <1>0, <4>1, EvidenceType DEF Claim
      <4> QED
        BY <1>2, <3>1, <3>2, <4>2
    <3> QED
      BY <1>1, <1>2, <3>1, <3>2
  <2> QED
    BY <1>7, <2>1, <2>2, <2>3, <2>4 DEF Environment
<1>8. CASE UNCHANGED all_vars
  BY <1>1, <1>8 DEF all_vars, vars
<1> QED
  BY <1>3, <1>4, <1>5, <1>6, <1>7, <1>8, RecoveryWorkerMoves DEF RuntimeNext

(* The rows go on naming what they named, but for one that is reserved.    *)
LEMMA NamesMove ==
    ASSUME RuntimeIInv, [RuntimeNext]_all_vars
    PROVE  NamesStay \/ \E g \in Generations : ReserveFresh(g)
<1>1. ASSUME NEW c, Builds(c) PROVE NamesStay
  BY <1>1 DEF Builds, NamesStay
<1> QED
  BY <1>1, RuntimeMoves DEF Moves, Idles, Consumes

-----------------------------------------------------------------------------
(* Who writes what.                                                        *)

(* Nothing comes back to life, and nothing is uncancelled.                 *)
LEMMA DeadAndCancelledStay ==
    ASSUME [RuntimeNext]_all_vars PROVE dead \subseteq dead' /\ cancelled \subseteq cancelled'
<1>1. CASE RecoveryWorker
  BY <1>1, ZenonT(40) DEF RecoveryWorker, Authorize, RetryReserved, ReserveFresh, AuthorizeRefused,
     RegisterGate, RegisterClaim, GrantCancelled, Grant, Consume, ConsumeRefused,
     BeginLocalFactory, RunFactory, FactoryFails, NoChildBegin, NoChildConfirm, NoChildGivesUp,
     SendSpawn, AttachLocal, AttachLocalRefused, AttachRemote, AttachTransaction, ObserveLocal,
     FactoryCloses, RequestLocalClose, BeginClose, BeginCloseBound, registries, hosts
<1>2. CASE LedgerWorker
  BY <1>2, ZenonT(40)
  DEF LedgerWorker, CloseObserved, RequestLocalClose, RetireFenceLocal, RetireDrainLocal,
     RetireCompleteLocal, Finish, RefreshReads, RefreshDrops, BeginClose, BeginCloseBound,
     registries, hosts
<1>3. CASE RemoteCloser
  BY <1>3 DEF RemoteCloser, CloserStart, CloserFence, CloserRecord, CloserResumes, HostCloses,
     CloserConfirms, CloserGivesUp, BeginClose, registries, hosts
<1>4. CASE HookJobs
  BY <1>4 DEF HookJobs, Admit, BeginEffects, MemoryEffect, EndEffects, PublicationDenied,
     PublicationOffers, PublicationRefused, PublicationTimeout, registries, hosts
<1>5. CASE Ui \/ Environment
  BY <1>5 DEF Ui, UiClose, UiClaims, UiDrops, Freeze, Sample, BeginClose, Environment,
     HostConsume, HostFactory, ChildExits, OtherStep, registries, hosts
<1>6. CASE UNCHANGED all_vars
  BY <1>6 DEF all_vars, registries, hosts
<1> QED
  BY <1>1, <1>2, <1>3, <1>4, <1>5, <1>6, SMTT(40), ZenonT(40) DEF RuntimeNext

(* A Spawn is sent by the recovery worker, which alone moves the birth.    *)
LEMMA BirthAndSpawns ==
    ASSUME [RuntimeNext]_all_vars
    PROVE  /\ spawned' = spawned \/ SendSpawn
           /\ birth' = birth \/ RecoveryWorker
<1>1. CASE RecoveryWorker
  BY <1>1, ZenonT(40) DEF RecoveryWorker, Authorize, RetryReserved, ReserveFresh, AuthorizeRefused,
     RegisterGate, RegisterClaim, GrantCancelled, Grant, Consume, ConsumeRefused,
     BeginLocalFactory, RunFactory, FactoryFails, NoChildBegin, NoChildConfirm, NoChildGivesUp,
     AttachLocal, AttachLocalRefused, AttachRemote, AttachTransaction, ObserveLocal,
     FactoryCloses, RequestLocalClose, hosts
<1>2. CASE LedgerWorker
  BY <1>2 DEF LedgerWorker, CloseObserved, RequestLocalClose, RetireFenceLocal, RetireDrainLocal,
     RetireCompleteLocal, Finish, RefreshReads, RefreshDrops, hosts
<1>3. CASE RemoteCloser
  BY <1>3 DEF RemoteCloser, CloserStart, CloserFence, CloserRecord, CloserResumes, HostCloses,
     CloserConfirms, CloserGivesUp, hosts
<1>4. CASE HookJobs
  BY <1>4 DEF HookJobs, Admit, BeginEffects, MemoryEffect, EndEffects, PublicationDenied,
     PublicationOffers, PublicationRefused, PublicationTimeout, hosts
<1>5. CASE Ui \/ Environment
  BY <1>5 DEF Ui, UiClose, UiClaims, UiDrops, Freeze, Sample, Environment,
     HostConsume, HostFactory, ChildExits, OtherStep, hosts
<1>6. CASE UNCHANGED all_vars
  BY <1>6 DEF all_vars, hosts
<1> QED
  BY <1>1, <1>2, <1>3, <1>4, <1>5, <1>6, SMTT(40), ZenonT(40) DEF RuntimeNext

\* The recovery worker goes on with the birth it has.
Follows(from, to) ==
    /\ birth.pc = from
    /\ birth'.pc = to
    /\ birth'.claim = birth.claim /\ birth'.key = birth.key
    /\ birth'.runtime = birth.runtime /\ birth'.fresh = birth.fresh

Proceeds ==
    \/ Follows("reserved", "gated") /\ NoTransaction
    \/ Follows("gated", "registered") /\ NoTransaction
    \/ Grant /\ Follows("registered", "granted")
    \/ Consume /\ Follows("granted", "consumed")
    \/ BeginLocalFactory /\ Follows("consumed", "refused")
    \/ BeginLocalFactory /\ Follows("consumed", "admitted") /\ ~admission
    \/ RunFactory /\ ValidateSpawn(birth.claim) /\ Follows("admitted", "built")
    \/ FactoryFails /\ (Follows("admitted", "nochild") \/ Follows("refused", "nochild"))
    \/ NoChildBegin /\ Follows("nochild", "nochild_fenced")
    \/ AttachLocalRefused /\ Follows("built", "orphan")
    \/ Follows("attached", "attach_gated") /\ UNCHANGED locals
    \/ Follows("attached", "orphan") /\ UNCHANGED locals /\ birth.claim.runtime \in Local
    \/ Follows("attach_gated", "handoff") /\ UNCHANGED locals /\ birth.claim.runtime \in Local

Attaches(g) ==
    /\ AttachTransaction(g)
    /\ \/ birth.pc = "built" /\ g = birth.claim.generation
       \/ birth.pc = "idle" /\ g \in Generations /\ gens[g].runtime \notin Local

(* The steps of a birth.                                                   *)
LEMMA BirthNext ==
    ASSUME birth \in Birth, RecoveryWorker
    PROVE  \/ birth' = birth \/ birth'.pc = "idle"
           \/ \E k \in Keys, r \in Runtimes : Authorize(k, r)
           \/ RetryReserved
           \/ \E g \in Generations : ReserveFresh(g)
           \/ \E g : Attaches(g)
           \/ Proceeds
<1>1. ASSUME NEW from, NEW to, birth.pc = from, birth' = [birth EXCEPT !.pc = to]
      PROVE  Follows(from, to)
  BY <1>1 DEF Birth, Follows
<1>2. IdleBirth.pc = "idle"
  BY DEF IdleBirth
<1>3. ASSUME RegisterGate("reserved", "gated", IdleBirth) PROVE Proceeds \/ birth'.pc = "idle"
  <2>1. /\ birth.pc = "reserved" /\ NoTransaction
        /\ birth' = [birth EXCEPT !.pc = "gated"] \/ birth' = IdleBirth
    BY <1>3 DEF RegisterGate
  <2> QED
    BY <1>1, <1>2, <2>1 DEF Proceeds
<1>4. ASSUME RegisterGate("attached", "attach_gated", AttachRefused)
      PROVE  Proceeds \/ birth'.pc = "idle"
  <2>1. /\ birth.pc = "attached" /\ UNCHANGED locals
        /\ \/ birth' = [birth EXCEPT !.pc = "attach_gated"] \/ birth' = IdleBirth
           \/ birth' = [birth EXCEPT !.pc = "orphan"] /\ birth.claim.runtime \in Local
    BY <1>4 DEF RegisterGate, AttachRefused
  <2> QED
    BY <1>1, <1>2, <2>1 DEF Proceeds
<1>5. ASSUME RegisterClaim("gated", [birth EXCEPT !.pc = "registered"]) PROVE Proceeds
  BY <1>1, <1>5 DEF RegisterClaim, Proceeds
<1>6. ASSUME RegisterClaim("attach_gated", AttachDone) PROVE Proceeds \/ birth'.pc = "idle"
  <2>1. /\ birth.pc = "attach_gated" /\ UNCHANGED locals
        /\ \/ birth' = IdleBirth
           \/ birth' = [birth EXCEPT !.pc = "handoff"] /\ birth.claim.runtime \in Local
    BY <1>6 DEF RegisterClaim, AttachDone
  <2> QED
    BY <1>1, <1>2, <2>1 DEF Proceeds
<1>7. ASSUME Grant \/ Consume \/ BeginLocalFactory \/ RunFactory \/ FactoryFails \/ NoChildBegin
             \/ AttachLocalRefused
      PROVE  Proceeds \/ birth'.pc = "idle"
  <2>1. CASE Grant \/ Consume \/ AttachLocalRefused
    BY <1>1, <2>1 DEF Grant, Consume, AttachLocalRefused, Proceeds
  <2>2. CASE BeginLocalFactory
    BY <1>1, <2>2 DEF BeginLocalFactory, Proceeds
  <2>3. CASE RunFactory
    BY <1>1, <1>2, <2>3 DEF RunFactory, Proceeds
  <2>4. CASE FactoryFails
    BY <1>1, <1>2, <2>4 DEF FactoryFails, Proceeds
  <2>5. CASE NoChildBegin
    BY <1>1, <1>2, <2>5 DEF NoChildBegin, Proceeds
  <2> QED
    BY <1>7, <2>1, <2>2, <2>3, <2>4, <2>5
<1>8. ASSUME \/ AuthorizeRefused \/ GrantCancelled \/ ConsumeRefused \/ NoChildConfirm
             \/ NoChildGivesUp \/ SendSpawn \/ ObserveLocal
             \/ \E accepted \in BOOLEAN : FactoryCloses(accepted)
      PROVE  birth' = birth \/ birth'.pc = "idle"
  BY <1>2, <1>8 DEF AuthorizeRefused, GrantCancelled, ConsumeRefused, NoChildConfirm,
     NoChildGivesUp, SendSpawn, ObserveLocal, FactoryCloses
<1>9. ASSUME AttachLocal \/ \E g \in Generations : AttachRemote(g) PROVE \E g : Attaches(g)
  BY <1>9 DEF AttachLocal, AttachRemote, Attaches
<1> QED
  BY <1>3, <1>4, <1>5, <1>6, <1>7, <1>8, <1>9, Zenon DEF RecoveryWorker

(* A birth is granted only while its runtime is not cancelled.             *)
LEMMA GrantedByGrant ==
    ASSUME birth \in Birth, RecoveryWorker, birth'.pc = "granted", birth' # birth
    PROVE  Grant
<1>1. ASSUME NEW k, NEW r, Authorize(k, r) PROVE FALSE
  BY <1>1 DEF Authorize
<1>2. ~RetryReserved
  BY DEF RetryReserved, Birth
<1>3. ASSUME NEW g, ReserveFresh(g) PROVE FALSE
  BY <1>3 DEF ReserveFresh, Birth
<1>4. ASSUME NEW g, Attaches(g) PROVE FALSE
  BY <1>4 DEF Attaches, AttachTransaction
<1> QED
  BY <1>1, <1>2, <1>3, <1>4, BirthNext DEF Proceeds, Follows

-----------------------------------------------------------------------------
(* What is over stays over.                                                *)

(* The facts about nonces that the proofs below keep needing.              *)
LEMMA NonceFacts ==
    ASSUME CleanIInv
    PROVE  /\ TypeOK /\ IInv /\ OneLiveBirth /\ OnePermit /\ birth \in Birth
           /\ \A g \in Generations : gens[g] = None => factories[g] = 0
           /\ \A g \in Generations : gens[g] # None =>
                 /\ gens[g].key \in Keys /\ gens[g].runtime \in Runtimes
                 /\ gens[g].spawn_consumed \in BOOLEAN
           /\ \A c \in permits \cup spawned : c.generation \in Generations /\ gens[c.generation] # None
           /\ \A k \in Keys : leaf[k] # None =>
                 /\ leaf[k].generation \in Generations /\ gens[leaf[k].generation] # None
                 /\ gens[leaf[k].generation].key = k
                 /\ gens[leaf[k].generation].runtime = leaf[k].runtime
           /\ birth.pc \notin {"idle", "checked"} =>
                 /\ birth.claim \in Claim /\ birth.claim.key \in Keys
                 /\ birth.claim.generation \in Generations
                 /\ gens[birth.claim.generation] # None
           /\ birth.pc # "idle" => birth.key \in Keys /\ birth.runtime \in Runtimes
<1>1. TypeOK /\ IInv /\ OneLiveBirth /\ OnePermit /\ BirthHolds /\ birth \in Birth
  BY DEF CleanIInv, RuntimeIInv, IInv, BirthHolds
<1>2. \A g \in Generations : gens[g] # None =>
          /\ gens[g].key \in Keys /\ gens[g].runtime \in Runtimes
          /\ gens[g].spawn_consumed \in BOOLEAN
  BY <1>1 DEF TypeOK, Generation
<1>3. \A g \in Generations : gens[g] = None => factories[g] = 0
  BY <1>1 DEF OnePermit, TypeOK
<1>4. \A c \in permits \cup spawned : c.generation \in Generations /\ gens[c.generation] # None
  BY <1>1 DEF OnePermit, CleanIInv, CleanHolds, NoncesHold, SpawnsAreRemote, Born, Claim
<1>5. \A k \in Keys : leaf[k] # None => leaf[k] \in Claim /\ leaf[k].generation # None
  BY <1>1 DEF TypeOK, CleanIInv, CleanHolds, NoncesHold, OneLeafEach
<1>6. \A k \in Keys : leaf[k] # None =>
          /\ leaf[k].generation \in Generations /\ gens[leaf[k].generation] # None
          /\ gens[leaf[k].generation].key = k
          /\ gens[leaf[k].generation].runtime = leaf[k].runtime
  BY <1>1, <1>5 DEF OneLiveBirth, Claim
<1>7. birth.pc \notin {"idle", "checked"} =>
          /\ birth.claim \in Claim /\ birth.claim.key \in Keys
          /\ birth.claim.generation \in Generations
          /\ gens[birth.claim.generation] # None
  BY <1>1 DEF BirthHolds, Born, Claim
<1>8. birth.pc # "idle" => birth.key \in Keys /\ birth.runtime \in Runtimes
  BY <1>1 DEF BirthHolds, Birth
<1> QED
  BY <1>1, <1>2, <1>3, <1>4, <1>6, <1>7, <1>8

(* A nonce nobody was granted under a cancelled runtime is never granted.  *)
LEMMA UngrantedStays ==
    ASSUME CleanIInv, [RuntimeNext]_all_vars, NEW g \in Generations, gens[g] # None,
           gens'[g].runtime = gens[g].runtime, Ungranted(g)
    PROVE  Ungranted(g)'
<1>1. gens'[g].runtime \in cancelled'
  BY DeadAndCancelledStay DEF Ungranted
<1>2. ASSUME SendSpawn PROVE \A c \in spawned' : c.generation # g
  BY <1>2 DEF SendSpawn, Ungranted
<1>3. \A c \in spawned' : c.generation # g
  BY <1>2, BirthAndSpawns DEF Ungranted
<1>4. ASSUME birth' # birth, birth'.pc = "granted" PROVE birth'.claim.generation # g
  <2>1. Grant /\ birth \in Birth
    BY <1>4, NonceFacts, BirthAndSpawns, GrantedByGrant
  <2>2. birth.runtime \notin cancelled /\ gens[birth.claim.generation].runtime = birth.runtime
    BY <2>1 DEF Grant, CleanIInv, CleanHolds, NoncesHold, BirthIsCurrent
  <2>3. birth'.claim = birth.claim
    BY <2>1 DEF Grant, Birth
  <2> QED
    BY <2>2, <2>3 DEF Ungranted
<1>5. birth'.pc = "granted" => birth'.claim.generation # g
  BY <1>4 DEF Ungranted
<1> QED
  BY <1>1, <1>3, <1>5 DEF Ungranted

(* A nonce that is not fenced, and barred, gets neither permit nor child.  *)
LEMMA UnpermittedStays ==
    ASSUME CleanIInv, [RuntimeNext]_all_vars, NEW g \in Generations, gens[g] # None,
           \A c \in permits : c.generation # g, gens[g].spawn_consumed \/ Ungranted(g)
    PROVE  /\ factories'[g] = factories[g]
           /\ \A c \in permits' : c.generation # g
           /\ gens'[g].spawn_consumed \/ Ungranted(g)'
<1>0. RuntimeIInv /\ TypeOK /\ gens[g].spawn_consumed \in BOOLEAN
  BY NonceFacts DEF CleanIInv
<1>1. NoncesKept
  BY <1>0, RuntimeLedgerStep, LedgerKeepsNonces
<1>2. gens'[g].spawn_consumed \/ Ungranted(g)'
  BY <1>1, UngrantedStays DEF NoncesKept
<1>3. CASE Idles
  BY <1>2, <1>3 DEF Idles
<1>4. ASSUME NEW c, Consumes(c) PROVE c.generation # g /\ factories' = factories /\ permits' = permits \cup {c}
  BY <1>0, <1>4 DEF Consumes, Consume, Ungranted
<1>5. ASSUME NEW c, Builds(c) PROVE factories'[g] = factories[g] /\ permits' \subseteq permits
  BY <1>0, <1>5 DEF Builds, TypeOK
<1>6. ASSUME NEW h \in Generations, ReserveFresh(h)
      PROVE  factories' = factories /\ permits' = permits
  BY <1>6 DEF ReserveFresh, Reserve, volatile
<1> QED
  BY <1>0, <1>2, <1>3, <1>4, <1>5, <1>6, RuntimeMoves DEF Moves

LEMMA OverStays ==
    ASSUME CleanIInv, [RuntimeNext]_all_vars, NEW g \in Generations, gens[g] # None, Over(g)
    PROVE  Over(g)'
<1>0. RuntimeIInv /\ IInv /\ LedgerStep
  BY RuntimeLedgerStep DEF CleanIInv, RuntimeIInv
<1>1. CASE Fenced(g)
  <2>1. factories'[g] = factories[g] /\ Fenced(g)'
    BY <1>0, <1>1, NoLateChildStep DEF Unchanged
  <2> QED
    BY <2>1, DeadAndCancelledStay DEF Over, Alive, Barred
<1>2. CASE ~Fenced(g)
  BY <1>2, UnpermittedStays, DeadAndCancelledStay DEF Over, Alive, Barred
<1> QED
  BY <1>1, <1>2

(* A nonce reserved under a cancelled runtime is over from the start.      *)
LEMMA FreshIsOver ==
    ASSUME CleanIInv, [RuntimeNext]_all_vars, NEW g \in Generations, ReserveFresh(g),
           birth.runtime \in cancelled
    PROVE  Over(g)'
<1>1. /\ gens[g] = None /\ permits' = permits /\ factories' = factories
      /\ spawned' = spawned /\ cancelled' = cancelled
  BY DEF ReserveFresh, Reserve, CanInsertGeneration, volatile, hosts, registries
<1>2. factories[g] = 0 /\ \A c \in permits \cup spawned : c.generation # g
  BY <1>1, NonceFacts
<1>3. gens'[g].runtime = birth.runtime
  <2> DEFINE e == leaf[birth.key]
             c == [key |-> birth.key, runtime |-> birth.runtime, generation |-> g,
                   epoch |-> IF e = None THEN 1 ELSE e.epoch + 1, owner |-> Me,
                   phase |-> "authorized_birth", require_binding |-> TRUE]
             row == NewGeneration(c, FALSE, "authorized_birth")
  <2>1. gens' = [gens EXCEPT ![g] = row]
    BY DEF ReserveFresh, Reserve
  <2>2. row.runtime = birth.runtime
    BY DEF NewGeneration
  <2> HIDE DEF row
  <2>3. gens'[g] = row
    BY <2>1, NonceFacts DEF TypeOK
  <2> QED
    BY <2>2, <2>3
<1>4. birth'.pc # "granted"
  BY NonceFacts DEF ReserveFresh, Birth
<1> QED
  BY <1>1, <1>2, <1>3, <1>4 DEF Over, Alive, Barred, Ungranted

(* What the leaves say after a reservation.                                *)
LEMMA ReservedRows ==
    ASSUME CleanIInv, NEW g \in Generations, ReserveFresh(g)
    PROVE  /\ birth.key \in Keys
           /\ leaf[birth.key] # None => leaf[birth.key].phase = "retired"
           /\ leaf'[birth.key] # None /\ leaf'[birth.key].key = birth.key
           /\ leaf'[birth.key].generation = g /\ leaf'[birth.key].runtime = birth.runtime
           /\ \A k \in Keys : k # birth.key => leaf'[k] = leaf[k]
           /\ gens[g] = None /\ gens'[g] # None
           /\ gens'[g].key = birth.key /\ gens'[g].runtime = birth.runtime
           /\ gens'[g].phase = "authorized_birth" /\ ~gens'[g].spawn_consumed
           /\ \A h \in Generations : h # g => gens'[h] = gens[h]
<1> DEFINE e == leaf[birth.key]
           c == [key |-> birth.key, runtime |-> birth.runtime, generation |-> g,
                 epoch |-> IF e = None THEN 1 ELSE e.epoch + 1, owner |-> Me,
                 phase |-> "authorized_birth", require_binding |-> TRUE]
           row == NewGeneration(c, FALSE, "authorized_birth")
<1>1. TypeOK /\ Me \in Owners /\ birth.key \in Keys /\ birth.runtime \in Runtimes /\ birth.pc = "checked"
  BY NonceFacts, RuntimeAssumption DEF ReserveFresh
<1>2. /\ leaf' = [leaf EXCEPT ![birth.key] = c] /\ gens' = [gens EXCEPT ![g] = row]
      /\ gens[g] = None /\ (e # None => e.phase = "retired")
      /\ Reserve(Me, e, birth.key, birth.runtime, g)
  BY DEF ReserveFresh, Reserve, SetLeaf, CanInsertGeneration
<1>3. leaf'[birth.key] \in Claim /\ gens'[g] # None
  <2>1. e \in Claim \cup {None}
    BY <1>1 DEF TypeOK
  <2> HIDE DEF e, c, row
  <2> QED
    BY <1>1, <1>2, <2>1, ReservedClaim
<1>4. /\ c.key = birth.key /\ c.generation = g /\ c.runtime = birth.runtime
      /\ row.key = birth.key /\ row.runtime = birth.runtime
      /\ row.phase = "authorized_birth" /\ ~row.spawn_consumed
  BY DEF NewGeneration
<1> HIDE DEF c, row, e
<1>5. /\ leaf'[birth.key] = c /\ gens'[g] = row
      /\ \A k \in Keys : k # birth.key => leaf'[k] = leaf[k]
      /\ \A h \in Generations : h # g => gens'[h] = gens[h]
  BY <1>1, <1>2 DEF TypeOK
<1> QED
  BY <1>1, <1>2, <1>3, <1>4, <1>5 DEF e

(* Whether all a runtime's nonces are over after a step.                   *)
LEMMA SettledNext ==
    ASSUME NEW r,
           \A k \in Keys : leaf'[k] # None /\ leaf'[k].runtime = r =>
               \E g : leaf'[k].generation = g /\ Over(g)'
    PROVE  Settled(r)'
BY DEF Settled, Over, Alive, Barred, Fenced, Ungranted

LEMMA SettledStays ==
    ASSUME CleanIInv, [RuntimeNext]_all_vars, NEW r \in cancelled, Settled(r)
    PROVE  Settled(r)'
<1> USE NonceFacts
<1>1. ASSUME NEW k \in Keys, leaf[k] # None, leaf[k].runtime = r,
             leaf'[k].generation = leaf[k].generation
      PROVE  \E g : leaf'[k].generation = g /\ Over(g)'
  <2>1. PICK g \in Generations : g = leaf[k].generation
    BY <1>1
  <2>2. gens[g] # None /\ Over(g)
    BY <1>1, <2>1 DEF Settled
  <2>3. Over(g)'
    BY <2>2, OverStays
  <2> QED
    BY <1>1, <2>1, <2>3
<1>2. CASE NamesStay
  <2> SUFFICES ASSUME NEW k \in Keys, leaf'[k] # None, leaf'[k].runtime = r
               PROVE  \E g : leaf'[k].generation = g /\ Over(g)'
    BY SettledNext
  <2> QED
    BY <1>1, <1>2 DEF NamesStay
<1>3. ASSUME NEW g \in Generations, ReserveFresh(g) PROVE Settled(r)'
  <2> SUFFICES ASSUME NEW k \in Keys, leaf'[k] # None, leaf'[k].runtime = r
               PROVE  \E h : leaf'[k].generation = h /\ Over(h)'
    BY SettledNext
  <2> QED
    BY <1>1, <1>3, ReservedRows, FreshIsOver
<1> QED
  BY <1>2, <1>3, NamesMove DEF CleanIInv

-----------------------------------------------------------------------------
(* Nonces, and the birth in progress.                                      *)

(* A runtime stays with its leaf.                                          *)
LEMMA OneLeafStep == ASSUME CleanIInv, [RuntimeNext]_all_vars PROVE OneLeafEach'
<1>0. OneLeafEach /\ RuntimeIInv
  BY DEF CleanIInv, CleanHolds, NoncesHold
<1>1. CASE NamesStay
  <2>1. \A k \in Keys : leaf'[k] # None => leaf'[k].generation # None /\ leaf'[k].key = k
    BY <1>0, <1>1 DEF OneLeafEach, NamesStay
  <2>2. \A g, h \in Generations :
            gens'[g] # None /\ gens'[h] # None /\ gens'[g].runtime = gens'[h].runtime =>
                gens'[g].key = gens'[h].key
    BY <1>0, <1>1 DEF OneLeafEach, NamesStay
  <2>3. ASSUME NEW k, NEW r, SessionOf(k, r) PROVE SessionOf(k, r)'
    BY <1>1, <2>3 DEF NamesStay, SessionOf
  <2>4. ASSUME birth'.pc = "checked", birth' # birth
        PROVE  \E k, r : birth'.key = k /\ birth'.runtime = r /\ SessionOf(k, r)
    <3>1. RecoveryWorker /\ birth \in Birth
      BY <2>4, BirthAndSpawns, NonceFacts
    <3>2. ~RetryReserved /\ \A g : ~ReserveFresh(g)
      BY <2>4, <3>1 DEF RetryReserved, ReserveFresh, Birth
    <3>3. \A g : ~Attaches(g)
      BY <2>4 DEF Attaches, AttachTransaction
    <3>4. ~Proceeds
      BY <2>4 DEF Proceeds, Follows
    <3>5. PICK k \in Keys, r \in Runtimes : Authorize(k, r)
      BY <2>4, <3>1, <3>2, <3>3, <3>4, BirthNext
    <3> QED
      BY <3>5 DEF Authorize
  <2>5. birth'.pc = "checked" => \E k, r : birth'.key = k /\ birth'.runtime = r /\ SessionOf(k, r)'
    BY <1>0, <2>3, <2>4 DEF OneLeafEach
  <2>6. birth'.pc = "checked" => SessionOf(birth.key, birth.runtime)'
    BY <2>5 DEF SessionOf
  <2> QED
    BY <2>1, <2>2, <2>6 DEF OneLeafEach
<1>2. ASSUME NEW g \in Generations, ReserveFresh(g) PROVE OneLeafEach'
  <2>1. SessionOf(birth.key, birth.runtime) /\ birth'.pc # "checked"
    BY <1>0, <1>2, NonceFacts DEF OneLeafEach, ReserveFresh, Birth
  <2>2. \A k \in Keys : leaf'[k] # None => leaf'[k].generation # None /\ leaf'[k].key = k
    BY <1>0, <1>2, ReservedRows DEF OneLeafEach
  <2>3. \A h \in Generations :
            gens'[h] # None /\ gens'[h].runtime = birth.runtime => gens'[h].key = birth.key
    BY <1>2, <2>1, ReservedRows DEF SessionOf
  <2>4. \A h, j \in Generations :
            gens'[h] # None /\ gens'[j] # None /\ gens'[h].runtime = gens'[j].runtime =>
                gens'[h].key = gens'[j].key
    BY <1>0, <1>2, <2>3, ReservedRows DEF OneLeafEach
  <2> QED
    BY <2>1, <2>2, <2>4 DEF OneLeafEach
<1> QED
  BY <1>0, <1>1, <1>2, NamesMove

(* Only births of the daemon are sent to it.                               *)
LEMMA SpawnsStep == ASSUME CleanIInv, [RuntimeNext]_all_vars PROVE SpawnsAreRemote'
<1>1. \A c \in spawned : Born(c) /\ c.runtime \notin Local
  BY DEF CleanIInv, CleanHolds, NoncesHold, SpawnsAreRemote
<1>2. ASSUME NEW c, Born(c) PROVE Born(c)'
  <2>1. c.generation \in Generations
    BY <1>2 DEF Born, Claim
  <2> QED
    BY <1>2, <2>1, RuntimeLedgerStep DEF CleanIInv, Born, RowsStay
<1>3. ASSUME SendSpawn PROVE Born(birth.claim) /\ birth.claim.runtime \notin Local
  BY <1>3 DEF SendSpawn, CleanIInv, RuntimeIInv, BirthHolds, CleanHolds, NoncesHold,
     BirthIsCurrent
<1>4. ASSUME NEW c \in spawned' PROVE Born(c)' /\ c.runtime \notin Local
  <2>1. c \in spawned \/ (SendSpawn /\ c = birth.claim)
    BY <1>4, BirthAndSpawns DEF SendSpawn
  <2> QED
    BY <1>1, <1>2, <1>3, <2>1
<1> QED
  <2> SUFFICES ASSUME NEW c \in spawned' PROVE Born(c)' /\ c.runtime \notin Local
    BY DEF SpawnsAreRemote
  <2> QED
    BY <1>4

(* An attachment takes up the claim of the child's leaf.                   *)
LEMMA AttachedBirth ==
    ASSUME CleanIInv, NEW g, Attaches(g), NamesStay
    PROVE  /\ g \in Generations /\ gens[g] # None /\ gens[g].key \in Keys
           /\ birth'.pc = "attached" /\ birth'.claim = leaf'[gens[g].key]
           /\ birth'.runtime = gens[g].runtime /\ gens[g].runtime \notin cancelled
           /\ leaf'[gens[g].key] # None /\ leaf'[gens[g].key].key = gens[g].key
           /\ leaf'[gens[g].key].generation = g /\ leaf'[gens[g].key].runtime = gens[g].runtime
           /\ UNCHANGED locals
<1> USE NonceFacts
<1>1. gens[g] # None /\ AttachTransaction(g)
  BY DEF Attaches, AttachTransaction
<1>2. g \in Generations
  BY DEF Attaches
<1>3. /\ birth'.pc = "attached" /\ birth'.claim = leaf'[gens[g].key]
      /\ birth'.runtime = gens[g].runtime /\ gens[g].runtime \notin cancelled
      /\ leaf[gens[g].key] # None /\ UNCHANGED locals
  BY <1>1 DEF AttachTransaction, EvidenceOf
<1>4. Proves(EvidenceOf(g), leaf[gens[g].key])
  BY <1>1 DEF AttachTransaction, EvidenceOf, Install, Adopt
<1>5. leaf[gens[g].key].generation = g /\ leaf[gens[g].key].runtime = gens[g].runtime
      /\ leaf[gens[g].key].key = gens[g].key
  BY <1>4 DEF Proves, EvidenceOf
<1> QED
  BY <1>1, <1>2, <1>3, <1>5 DEF NamesStay

(* The birth in progress is the leaf's.                                    *)
LEMMA BirthIsCurrentStep == ASSUME CleanIInv, [RuntimeNext]_all_vars PROVE BirthIsCurrent'
<1>0. BirthIsCurrent /\ OneLeafEach /\ birth \in Birth /\ RuntimeIInv
  BY NonceFacts DEF CleanIInv, CleanHolds, NoncesHold
<1>1. CASE birth'.pc \in {"idle", "checked"}
  BY <1>1 DEF BirthIsCurrent
<1>2. ASSUME NamesStay, birth.pc \notin {"idle", "checked"},
             birth'.claim = birth.claim, birth'.runtime = birth.runtime
      PROVE  BirthIsCurrent'
  BY <1>0, <1>2, NonceFacts DEF BirthIsCurrent, NamesStay
<1>3. CASE Proceeds /\ NamesStay
  <2>1. /\ birth.pc \notin {"idle", "checked"}
        /\ birth'.claim = birth.claim /\ birth'.runtime = birth.runtime
    BY <1>3 DEF Proceeds, Follows
  <2> QED
    BY <1>2, <1>3, <2>1
<1>4. CASE RetryReserved
  <2> DEFINE c == leaf[birth.key]
  <2>1. /\ c # None /\ c.runtime = birth.runtime /\ birth.key \in Keys
        /\ birth' = [birth EXCEPT !.pc = "reserved", !.claim = c, !.fresh = FALSE]
        /\ UNCHANGED <<leaf, gens>>
    BY <1>4, NonceFacts DEF RetryReserved, NoTransaction, vars
  <2>2. birth'.claim = c /\ birth'.runtime = birth.runtime
    BY <1>0, <2>1 DEF Birth
  <2>3. c.key = birth.key /\ gens[c.generation].runtime = c.runtime
    BY <1>0, <2>1, NonceFacts DEF OneLeafEach
  <2> QED
    BY <2>1, <2>2, <2>3 DEF BirthIsCurrent
<1>5. ASSUME NEW g \in Generations, ReserveFresh(g) PROVE BirthIsCurrent'
  <2>1. birth'.claim = leaf'[birth.key] /\ birth'.runtime = birth.runtime
    BY <1>0, <1>5 DEF ReserveFresh, Birth
  <2> QED
    BY <1>5, <2>1, ReservedRows DEF BirthIsCurrent
<1>6. ASSUME NEW g, Attaches(g), NamesStay PROVE BirthIsCurrent'
  <2>1. gens'[g].runtime = gens[g].runtime
    BY <1>6, AttachedBirth DEF NamesStay
  <2> QED
    BY <1>6, <2>1, AttachedBirth DEF BirthIsCurrent
<1>7. ASSUME NEW k, NEW r, Authorize(k, r) PROVE birth'.pc = "checked"
  BY <1>7 DEF Authorize
<1> QED
  BY <1>0, <1>1, <1>2, <1>3, <1>4, <1>5, <1>6, <1>7, NamesMove, BirthAndSpawns, BirthNext

(* Nobody else knows the nonce of a fresh reservation.                     *)
LEMMA FreshStep == ASSUME CleanIInv, [RuntimeNext]_all_vars PROVE FreshIsUnsent'
<1> DEFINE Early == {"reserved", "gated", "registered"}
<1>0. FreshIsUnsent /\ birth \in Birth /\ RuntimeIInv
  BY NonceFacts DEF CleanIInv, CleanHolds, NoncesHold
<1>1. ASSUME birth'.pc \in Early, birth'.fresh
      PROVE  /\ ~gens'[birth'.claim.generation].spawn_consumed
             /\ \A c \in spawned' : c.generation # birth'.claim.generation
  <2>1. ~SendSpawn
    BY <1>1 DEF SendSpawn, IdleBirth
  <2>2. spawned' = spawned
    BY <2>1, BirthAndSpawns
  <2>3. ASSUME birth.pc \in Early, birth.fresh, birth'.claim = birth.claim
        PROVE  ~gens'[birth.claim.generation].spawn_consumed
    <3> DEFINE g == birth.claim.generation
    <3>1. /\ g \in Generations /\ gens[g] # None /\ ~gens[g].spawn_consumed
          /\ \A c \in spawned : c.generation # g
      BY <1>0, <2>3, NonceFacts DEF FreshIsUnsent
    <3>2. \A c : ~Builds(c) \/ UNCHANGED gens
      BY DEF Builds
    <3>3. ASSUME NEW c, Consumes(c) PROVE c.generation # g
      BY <2>3, <3>1, <3>3 DEF Consumes, Consume
    <3>4. ASSUME NEW h \in Generations, ReserveFresh(h) PROVE h # g
      BY <3>1, <3>4, ReservedRows
    <3> HIDE DEF g
    <3> QED
      BY <1>0, <3>1, <3>2, <3>3, <3>4, RuntimeMoves, ReservedRows DEF Moves, Idles, Consumes, g
  <2>4. CASE birth' = birth
    BY <1>0, <1>1, <2>2, <2>3, <2>4 DEF FreshIsUnsent
  <2>5. CASE Proceeds
    <3>1. /\ birth.pc \in Early /\ birth'.claim = birth.claim /\ birth'.fresh = birth.fresh
      BY <1>1, <2>5 DEF Proceeds, Follows
    <3> QED
      BY <1>0, <1>1, <2>2, <2>3, <3>1 DEF FreshIsUnsent
  <2>6. ASSUME NEW g \in Generations, ReserveFresh(g)
        PROVE  /\ ~gens'[birth'.claim.generation].spawn_consumed
               /\ \A c \in spawned' : c.generation # birth'.claim.generation
    <3>1. birth'.claim = leaf'[birth.key]
      BY <1>0, <2>6 DEF ReserveFresh, Birth
    <3>2. \A c \in spawned : gens[c.generation] # None
      BY NonceFacts
    <3> QED
      BY <2>2, <2>6, <3>1, <3>2, ReservedRows
  <2>7. ~RetryReserved
    BY <1>0, <1>1 DEF RetryReserved, Birth
  <2>8. (\A g : ~Attaches(g)) /\ (\A k, r : ~Authorize(k, r))
    BY <1>1 DEF Attaches, AttachTransaction, Authorize
  <2> QED
    BY <1>0, <1>1, <2>4, <2>5, <2>6, <2>7, <2>8, BirthAndSpawns, BirthNext
<1> QED
  BY <1>1 DEF FreshIsUnsent

-----------------------------------------------------------------------------
(* The factory.                                                            *)

(* A permit is used up by a factory, or lost with it.                      *)
LEMMA PermitsWritten ==
    ASSUME [RuntimeNext]_all_vars
    PROVE  \/ permits \subseteq permits'
           \/ RunFactory \/ FactoryFails \/ \E c \in spawned : HostFactory(c)
<1>1. CASE NoTransaction \/ DropJob \/ UNCHANGED permits
  BY <1>1 DEF NoTransaction, vars, DropJob
<1>2. ASSUME NEW o, NEW c, NEW host,
             \/ Install(o, c, host) \/ Adopt(o, c, host)
             \/ FenceRetire(o, c) \/ Retire(o, c) \/ Release(o, c)
      PROVE  permits' = permits
  BY <1>2, Zenon DEF Install, Adopt, FenceRetire, Retire, Release, volatile
<1>3. CASE RecoveryWorker
  <2>1. ASSUME NEW g, ReserveFresh(g) PROVE permits' = permits
    BY <2>1 DEF ReserveFresh, Reserve, volatile
  <2>2. CASE Consume
    BY <2>2 DEF Consume, ConsumeBirthOnce
  <2>3. CASE NoChildConfirm
    BY <1>2, <2>3, Zenon DEF NoChildConfirm
  <2>4. ASSUME NEW g, AttachTransaction(g) PROVE permits' = permits
    BY <1>2, <2>4, Zenon DEF AttachTransaction, NoTransaction, vars
  <2>5. CASE \/ \E k \in Keys, r \in Runtimes : Authorize(k, r)
             \/ RetryReserved \/ AuthorizeRefused
             \/ RegisterGate("reserved", "gated", IdleBirth)
             \/ RegisterClaim("gated", [birth EXCEPT !.pc = "registered"])
             \/ GrantCancelled \/ Grant \/ ConsumeRefused \/ BeginLocalFactory
             \/ NoChildBegin \/ NoChildGivesUp \/ SendSpawn \/ AttachLocalRefused
             \/ RegisterGate("attached", "attach_gated", AttachRefused)
             \/ RegisterClaim("attach_gated", AttachDone)
             \/ ObserveLocal
             \/ \E accepted \in BOOLEAN : FactoryCloses(accepted)
    BY <1>1, <2>5, Zenon DEF Authorize, RetryReserved, AuthorizeRefused, RegisterGate,
       RegisterClaim, GrantCancelled, Grant, ConsumeRefused, BeginLocalFactory, NoChildBegin,
       NoChildGivesUp, SendSpawn, AttachLocalRefused, ObserveLocal, FactoryCloses,
       RequestLocalClose
  <2> QED
    BY <1>3, <2>1, <2>2, <2>3, <2>4, <2>5 DEF RecoveryWorker, AttachLocal, AttachRemote
<1>4. CASE LedgerWorker
  BY <1>1, <1>2, <1>4, Zenon DEF LedgerWorker, CloseObserved, RequestLocalClose,
     RetireFenceLocal, RetireDrainLocal, RetireCompleteLocal, Finish, RefreshReads, RefreshDrops
<1>5. CASE RemoteCloser
  BY <1>1, <1>2, <1>5, Zenon DEF RemoteCloser, CloserStart, CloserFence, CloserRecord,
     CloserResumes, HostCloses, CloserConfirms, CloserGivesUp
<1>6. CASE HookJobs
  BY <1>1, <1>6 DEF HookJobs, Admit, ResolveBound, BeginEffects, MemoryEffect, EndEffects,
     PublicationDenied, PublicationOffers, PublicationRefused, PublicationTimeout
<1>7. CASE Ui
  BY <1>1, <1>7 DEF Ui, UiClose, UiClaims, UiDrops, Freeze, Sample
<1>8. CASE Environment
  <2>1. ASSUME NEW c, HostConsume(c) PROVE permits \subseteq permits'
    BY <2>1 DEF HostConsume, ConsumeBirthOnce
  <2>2. ASSUME NEW o, NEW k, OtherStep(o, k) PROVE permits' = permits
    BY <1>1, <1>2, <2>2, Zenon DEF OtherStep, NoTransaction, vars
  <2>3. ASSUME NEW g, ChildExits(g) PROVE permits' = permits
    BY <1>1, <2>3 DEF ChildExits, NoTransaction, vars
  <2> QED
    BY <1>8, <2>1, <2>2, <2>3 DEF Environment
<1>9. CASE UNCHANGED all_vars
  BY <1>9 DEF all_vars, vars
<1> QED
  BY <1>3, <1>4, <1>5, <1>6, <1>7, <1>8, <1>9 DEF RuntimeNext

(* Who writes the lists of local children.                                 *)
LEMMA LocalsWritten ==
    ASSUME [RuntimeNext]_all_vars
    PROVE  \/ UNCHANGED locals
           \/ BeginLocalFactory \/ NoChildConfirm \/ ObserveLocal
           \/ \E accepted \in BOOLEAN : FactoryCloses(accepted)
           \/ \E g \in Generations :
                 \/ \E accepted \in BOOLEAN : CloseObserved(g, accepted)
                 \/ RetireFenceLocal(g) \/ RetireDrainLocal(g) \/ RetireCompleteLocal(g)
<1>1. CASE RecoveryWorker
  <2>1. ASSUME NEW g, AttachTransaction(g) PROVE UNCHANGED locals
    BY <2>1 DEF AttachTransaction
  <2>2. ASSUME \/ \E k \in Keys, r \in Runtimes : Authorize(k, r)
               \/ RetryReserved \/ AuthorizeRefused \/ \E g \in Generations : ReserveFresh(g)
               \/ RegisterGate("reserved", "gated", IdleBirth)
               \/ RegisterClaim("gated", [birth EXCEPT !.pc = "registered"])
               \/ GrantCancelled \/ Grant \/ Consume \/ ConsumeRefused \/ RunFactory
               \/ FactoryFails \/ NoChildBegin \/ NoChildGivesUp \/ SendSpawn
               \/ AttachLocalRefused
               \/ RegisterGate("attached", "attach_gated", AttachRefused)
               \/ RegisterClaim("attach_gated", AttachDone)
        PROVE  UNCHANGED locals
    BY <2>2, Zenon DEF Authorize, RetryReserved, AuthorizeRefused, ReserveFresh, RegisterGate,
       RegisterClaim, GrantCancelled, Grant, Consume, ConsumeRefused, RunFactory, FactoryFails,
       NoChildBegin, NoChildGivesUp, SendSpawn, AttachLocalRefused
  <2> QED
    BY <1>1, <2>1, <2>2, Zenon DEF RecoveryWorker, AttachLocal, AttachRemote
<1>2. CASE LedgerWorker
  BY <1>2, Zenon DEF LedgerWorker, Finish, RefreshReads, RefreshDrops
<1>3. CASE RemoteCloser
  BY <1>3, Zenon DEF RemoteCloser, CloserStart, CloserFence, CloserRecord, CloserResumes,
     HostCloses, CloserConfirms, CloserGivesUp
<1>4. CASE HookJobs
  BY <1>4, Zenon DEF HookJobs, Admit, BeginEffects, MemoryEffect, EndEffects,
     PublicationDenied, PublicationOffers, PublicationRefused, PublicationTimeout
<1>5. CASE Ui \/ Environment
  BY <1>5, Zenon DEF Ui, UiClose, UiClaims, UiDrops, Freeze, Sample, Environment, HostConsume,
     HostFactory, ChildExits, OtherStep
<1>6. CASE UNCHANGED all_vars
  BY <1>6 DEF all_vars
<1> QED
  BY <1>1, <1>2, <1>3, <1>4, <1>5, <1>6 DEF RuntimeNext

(* No factory is undone.                                                   *)
LEMMA FactoriesGrow ==
    ASSUME RuntimeIInv, [RuntimeNext]_all_vars
    PROVE  \A g \in Generations : factories[g] # 0 => factories'[g] # 0
<1>1. factories \in [Generations -> Nat]
  BY DEF RuntimeIInv, IInv, TypeOK
<1>2. ASSUME NEW c, Builds(c)
      PROVE  \A g \in Generations : factories[g] # 0 => factories'[g] # 0
  BY <1>1, <1>2 DEF Builds
<1>3. ASSUME NEW g, ReserveFresh(g) PROVE factories' = factories
  BY <1>3 DEF ReserveFresh, Reserve, volatile
<1> QED
  BY <1>2, <1>3, RuntimeMoves DEF Moves, Idles, Consumes

(* The child of a factory that waits is on no other list.                  *)
LEMMA ChildStaysPending ==
    ASSUME CleanIInv, [RuntimeNext]_all_vars, NEW g \in Generations, g = birth.claim.generation,
           birth' = birth, birth.pc = "admitted" \/ Built
    PROVE  g \in pending' /\ g \notin observed' /\ local'[g] = "none"
<1>0. /\ g \in pending /\ g \notin observed /\ local[g] = "none"
      /\ local \in [Generations -> {"none", "new", "fenced", "draining"}]
      /\ birth.pc \notin {"idle", "consumed", "nochild_fenced"}
  BY DEF CleanIInv, RuntimeIInv, LocalsHold, CleanHolds, NoncesHold, FactoryHolds, Built
<1>1. ~BeginLocalFactory /\ ~NoChildConfirm /\ ~ObserveLocal
  BY <1>0 DEF BeginLocalFactory, NoChildConfirm, ObserveLocal, IdleBirth
<1>2. ASSUME NEW h, NEW accepted \in BOOLEAN, RequestLocalClose(h, accepted), accepted => h # g
      PROVE  g \in pending' /\ g \notin observed' /\ local'[g] = "none"
  BY <1>0, <1>2 DEF RequestLocalClose
<1>3. ASSUME NEW accepted \in BOOLEAN, FactoryCloses(accepted) PROVE ~accepted
  BY <1>0, <1>3 DEF FactoryCloses, IdleBirth
<1>4. ASSUME NEW h \in Generations, NEW accepted \in BOOLEAN, CloseObserved(h, accepted)
      PROVE  RequestLocalClose(h, accepted) /\ h # g
  BY <1>0, <1>4 DEF CloseObserved
<1>5. ASSUME NEW h \in Generations,
             RetireFenceLocal(h) \/ RetireDrainLocal(h) \/ RetireCompleteLocal(h)
      PROVE  g \in pending' /\ g \notin observed' /\ local'[g] = "none"
  <2>1. h # g
    BY <1>0, <1>5 DEF RetireFenceLocal, RetireDrainLocal, RetireCompleteLocal
  <2>2. /\ pending \ {h} \subseteq pending' /\ observed' \subseteq observed
        /\ \E p : local' = [local EXCEPT ![h] = p]
    BY <1>5, Zenon DEF RetireFenceLocal, RetireDrainLocal, RetireCompleteLocal
  <2> QED
    BY <1>0, <2>1, <2>2
<1>6. ASSUME NEW accepted \in BOOLEAN, FactoryCloses(accepted)
      PROVE  RequestLocalClose(birth.claim.generation, accepted)
  BY <1>6 DEF FactoryCloses
<1> QED
  BY <1>0, <1>1, <1>2, <1>3, <1>4, <1>5, <1>6, LocalsWritten DEF locals

(* A permit that no factory of its own takes stays.                        *)
LEMMA LocalPermitStays ==
    ASSUME CleanIInv, [RuntimeNext]_all_vars, NEW c \in permits, c.runtime \in Local,
           ~RunFactory, ~FactoryFails
    PROVE  c \in permits'
<1>1. ASSUME NEW d \in spawned, HostFactory(d) PROVE permits' = permits \ {d} /\ d # c
  BY <1>1 DEF HostFactory, RunGuarded, CleanIInv, CleanHolds, NoncesHold, SpawnsAreRemote
<1> QED
  BY <1>1, PermitsWritten

(* The factory keeps what it has while the worker does nothing with it.    *)
LEMMA FactoryWaits ==
    ASSUME CleanIInv, [RuntimeNext]_all_vars, birth' = birth
    PROVE  FactoryHolds'
<1>0. /\ FactoryHolds /\ BirthIsCurrent /\ birth \in Birth /\ TypeOK
      /\ RuntimeIInv /\ NoncesKept
  BY NonceFacts, RuntimeLedgerStep, LedgerKeepsNonces
     DEF CleanIInv, CleanHolds, NoncesHold
<1>1. ASSUME InFactory PROVE birth.claim \in permits'
  <2>1. birth.claim \in permits /\ birth.claim.runtime \in Local
    BY <1>0, <1>1 DEF FactoryHolds, BirthIsCurrent, InFactory
  <2>2. ~RunFactory /\ ~FactoryFails
    BY <1>0 DEF RunFactory, FactoryFails, IdleBirth, Birth
  <2> QED
    BY <2>1, <2>2, LocalPermitStays
<1>2. ASSUME NoChild
      PROVE  \E g : /\ g = birth.claim.generation /\ gens'[g].spawn_consumed
                    /\ \A c \in permits' : c.generation # g
                    /\ factories'[g] = 0
  <2>1. PICK g \in Generations : g = birth.claim.generation
    BY <1>2, NonceFacts DEF NoChild
  <2>2. /\ gens[g] # None /\ gens[g].spawn_consumed /\ factories[g] = 0
        /\ \A c \in permits : c.generation # g
    BY <1>0, <1>2, <2>1, NonceFacts DEF FactoryHolds, NoChild
  <2>3. gens'[g].spawn_consumed
    BY <1>0, <2>2 DEF NoncesKept
  <2> QED
    BY <2>1, <2>2, <2>3, UnpermittedStays
<1>3. ASSUME birth.pc = "admitted" \/ Built
      PROVE  \E g : /\ g = birth.claim.generation
                    /\ g \in pending' /\ g \notin observed' /\ local'[g] = "none"
                    /\ Built => factories'[g] # 0
  <2>1. PICK g \in Generations : g = birth.claim.generation
    BY <1>3, NonceFacts DEF Built
  <2>2. Built => factories[g] # 0
    BY <1>0, <2>1 DEF FactoryHolds
  <2> QED
    BY <1>0, <1>3, <2>1, <2>2, ChildStaysPending, FactoriesGrow
<1>4. cancelled \subseteq cancelled'
  BY DeadAndCancelledStay
<1> QED
  BY <1>0, <1>1, <1>2, <1>3, <1>4 DEF FactoryHolds, InFactory, NoChild, Built

(* The recovery worker takes the birth through the factory.                *)
LEMMA FactoryProceeds ==
    ASSUME CleanIInv, [RuntimeNext]_all_vars, Proceeds
    PROVE  FactoryHolds'
<1>0. /\ FactoryHolds /\ BirthIsCurrent /\ LocalChildren /\ OnePermit /\ TypeOK
      /\ RuntimeIInv /\ birth \in Birth /\ NoncesKept
  BY NonceFacts, RuntimeLedgerStep, LedgerKeepsNonces DEF CleanIInv, CleanHolds, NoncesHold
<1>1. PICK g \in Generations : g = birth.claim.generation
  BY NonceFacts DEF Proceeds, Follows
<1>2. /\ birth.claim.runtime = birth.runtime /\ gens[g].runtime = birth.runtime
      /\ gens[g] # None /\ birth.claim \in Claim
      /\ birth'.claim = birth.claim /\ birth'.runtime = birth.runtime
      /\ birth.claim.generation = g
  BY <1>0, <1>1, NonceFacts DEF BirthIsCurrent, Proceeds, Follows
<1>3. ASSUME birth'.pc \in {"reserved", "gated", "registered", "granted"} PROVE FactoryHolds'
  BY <1>3 DEF FactoryHolds, InFactory, Built, NoChild
<1>4. ASSUME Consume, Follows("granted", "consumed") PROVE FactoryHolds'
  <2>1. birth.runtime \in Local /\ birth.claim \in permits'
    BY <1>4 DEF Consume, ConsumeBirthOnce
  <2> QED
    BY <1>2, <1>4, <2>1 DEF FactoryHolds, InFactory, Built, NoChild, Follows
<1>5. ASSUME BeginLocalFactory,
             Follows("consumed", "refused") \/ (Follows("consumed", "admitted") /\ ~admission)
      PROVE  FactoryHolds'
  <2>1. /\ permits' = permits /\ observed' = observed /\ local' = local
        /\ pending' = IF admission THEN pending ELSE pending \cup {g}
    BY <1>2, <1>5 DEF BeginLocalFactory, NoTransaction, vars
  <2>2. birth.claim \in permits /\ birth.runtime \in Local
    BY <1>0, <1>5 DEF FactoryHolds, InFactory, Follows
  <2>3. g \notin observed /\ local[g] = "none"
    BY <1>0, <1>2, <2>2 DEF OnePermit, LocalChildren
  <2> QED
    BY <1>2, <1>5, <2>1, <2>2, <2>3 DEF FactoryHolds, InFactory, Built, NoChild, Follows
<1>6. ASSUME RunFactory, ValidateSpawn(birth.claim), Follows("admitted", "built")
      PROVE  FactoryHolds'
  <2>1. UNCHANGED locals /\ factories' = [factories EXCEPT ![g] = factories[g] + 1]
    BY <1>2, <1>6 DEF RunFactory, RunGuarded
  <2>2. factories'[g] # 0
    BY <1>0, <2>1 DEF TypeOK
  <2>3. birth.runtime \in Local /\ g \in pending /\ g \notin observed /\ local[g] = "none"
    BY <1>0, <1>2, <1>6 DEF FactoryHolds, InFactory, Follows
  <2> QED
    BY <1>2, <1>6, <2>1, <2>2, <2>3 DEF FactoryHolds, InFactory, Built, NoChild, Follows, locals
<1>7. ASSUME FactoryFails, Follows("admitted", "nochild") \/ Follows("refused", "nochild")
      PROVE  FactoryHolds'
  <2>1. /\ permits' = permits \ {birth.claim} /\ birth.claim \in permits
        /\ UNCHANGED <<gens, factories>>
    BY <1>7 DEF FactoryFails, LosePermit
  <2>2. birth.runtime \in Local
    BY <1>0, <1>7 DEF FactoryHolds, InFactory, Follows
  <2>3. /\ gens[g].spawn_consumed /\ factories[g] = 0
        /\ \A c \in permits' : c.generation # g
    BY <1>0, <1>2, <2>1 DEF OnePermit
  <2> QED
    BY <1>2, <1>7, <2>1, <2>2, <2>3 DEF FactoryHolds, InFactory, Built, NoChild, Follows
<1>8. ASSUME NoChildBegin, Follows("nochild", "nochild_fenced") PROVE FactoryHolds'
  <2>1. BeginCloseBound(EvidenceOf(g)) /\ UNCHANGED <<gens, permits, factories>>
    BY <1>2, <1>8 DEF NoChildBegin, Follows, IdleBirth, NoTransaction, vars
  <2>2. birth.runtime \in cancelled'
    BY <1>2, <2>1 DEF BeginCloseBound, EvidenceOf
  <2>3. /\ birth.runtime \in Local /\ gens[g].spawn_consumed /\ factories[g] = 0
        /\ \A c \in permits : c.generation # g
    BY <1>0, <1>2, <1>8 DEF FactoryHolds, NoChild, Follows
  <2> QED
    BY <1>2, <1>8, <2>1, <2>2, <2>3 DEF FactoryHolds, InFactory, Built, NoChild, Follows
<1>9. ASSUME UNCHANGED locals, Built, birth'.pc \in {"attach_gated", "handoff", "orphan"}
      PROVE  FactoryHolds'
  <2>1. /\ g \in pending /\ g \notin observed /\ local[g] = "none"
        /\ birth.runtime \in Local /\ factories[g] # 0
    BY <1>0, <1>2, <1>9 DEF FactoryHolds
  <2>2. factories'[g] # 0
    BY <1>0, <2>1, FactoriesGrow
  <2> QED
    BY <1>2, <1>9, <2>1, <2>2 DEF FactoryHolds, InFactory, Built, NoChild, locals
<1>10. CASE AttachLocalRefused /\ Follows("built", "orphan")
  BY <1>9, <1>10 DEF AttachLocalRefused, Built, Follows
<1>11. CASE Follows("attached", "attach_gated") /\ UNCHANGED locals
  <2>1. CASE birth.runtime \in Local
    BY <1>9, <1>11, <2>1 DEF Built, Follows
  <2>2. CASE birth.runtime \notin Local
    BY <1>2, <1>11, <2>2 DEF FactoryHolds, InFactory, Built, NoChild, Follows
  <2> QED
    BY <2>1, <2>2
<1>12. CASE /\ Follows("attached", "orphan") \/ Follows("attach_gated", "handoff")
            /\ UNCHANGED locals /\ birth.claim.runtime \in Local
  BY <1>2, <1>9, <1>12 DEF Built, Follows
<1> QED
  BY <1>3, <1>4, <1>5, <1>6, <1>7, <1>8, <1>10, <1>11, <1>12 DEF Proceeds, Follows

LEMMA FactoryHoldsStep == ASSUME CleanIInv, [RuntimeNext]_all_vars PROVE FactoryHolds'
<1>0. FactoryHolds /\ BirthIsCurrent /\ birth \in Birth /\ RuntimeIInv
  BY NonceFacts DEF CleanIInv, CleanHolds, NoncesHold
<1>1. ASSUME birth'.pc \in {"idle", "checked", "reserved"} PROVE FactoryHolds'
  BY <1>1 DEF FactoryHolds, InFactory, Built, NoChild
<1>2. ASSUME NEW g, ReserveFresh(g) PROVE birth'.pc = "reserved"
  BY <1>0, <1>2 DEF ReserveFresh, Birth
<1>3. RetryReserved => birth'.pc = "reserved"
  BY <1>0 DEF RetryReserved, Birth
<1>4. ASSUME NEW k, NEW r, Authorize(k, r) PROVE birth'.pc = "checked"
  BY <1>4 DEF Authorize
<1>5. ASSUME NEW g, Attaches(g) PROVE FactoryHolds'
  <2>1. birth'.pc = "attached"
    BY <1>5 DEF Attaches, AttachTransaction
  <2>2. NamesStay
    <3>1. \A h : ~ReserveFresh(h)
      BY <1>2, <2>1
    <3> QED
      BY <1>0, <3>1, NamesMove
  <2>3. /\ g \in Generations /\ birth'.claim.generation = g
        /\ birth'.runtime = gens[g].runtime /\ UNCHANGED locals
    BY <1>5, <2>2, AttachedBirth
  <2>4. CASE birth.pc = "built" /\ g = birth.claim.generation
    <3>1. /\ g \in pending /\ g \notin observed /\ local[g] = "none"
          /\ birth.runtime \in Local /\ factories[g] # 0 /\ gens[g].runtime = birth.runtime
      BY <1>0, <2>4 DEF FactoryHolds, Built, BirthIsCurrent
    <3>2. factories'[g] # 0
      BY <1>0, <2>3, <3>1, FactoriesGrow
    <3> QED
      BY <2>1, <2>3, <3>1, <3>2 DEF FactoryHolds, InFactory, Built, NoChild, locals
  <2>5. CASE gens[g].runtime \notin Local
    BY <2>1, <2>3, <2>5 DEF FactoryHolds, InFactory, Built, NoChild
  <2> QED
    BY <1>5, <2>4, <2>5 DEF Attaches
<1> QED
  BY <1>0, <1>1, <1>2, <1>3, <1>4, <1>5, FactoryWaits, FactoryProceeds, BirthAndSpawns, BirthNext

-----------------------------------------------------------------------------
(* Closing.                                                                *)

\* Who confirms that the runtime's child has ended.
Confirms(r) ==
    \/ GrantCancelled /\ birth.fresh /\ r = birth.runtime
    \/ NoChildConfirm /\ r = birth.runtime
    \/ \E g \in Generations : RetireCompleteLocal(g) /\ r = gens[g].runtime
    \/ CloserConfirms /\ r = closer.runtime

(* Who writes the closing entries.                                         *)
LEMMA ClosesWritten ==
    ASSUME RuntimeIInv, [RuntimeNext]_all_vars
    PROVE  \/ UNCHANGED <<closing, finishing>>
           \/ \E r \in Runtimes, permanent \in BOOLEAN, confirmed \in BOOLEAN :
                 BeginClose(r, permanent, confirmed) /\ (confirmed => Confirms(r))
           \/ \E g \in Generations :
                 gens[g] # None /\ BeginCloseBound(EvidenceOf(g)) /\ finishing' = finishing
           \/ NoChildConfirm \/ CloserRecord
           \/ \E g \in Generations : RetireFenceLocal(g)
           \/ \E r \in Runtimes : Finish(r)
<1>0. /\ birth \in Birth /\ (birth.pc # "idle" => birth.runtime \in Runtimes)
      /\ birth.pc \notin {"idle", "checked"} =>
            birth.claim.generation \in Generations /\ gens[birth.claim.generation] # None
      /\ birth.fresh \in BOOLEAN
      /\ \A g \in Generations : g \in observed \/ local[g] # "none" =>
            gens[g] # None /\ gens[g].runtime \in Runtimes
      /\ closer.pc # "idle" => closer.runtime \in Runtimes
  BY DEF RuntimeIInv, IInv, BirthHolds, Birth, Born, Claim, LocalsHold, TypeOK, Generation,
     WorkersHold, Closer
<1>1. CASE RecoveryWorker
  <2>1. CASE GrantCancelled
    BY <1>0, <2>1 DEF GrantCancelled, Confirms
  <2>2. CASE NoChildBegin
    BY <1>0, <2>2 DEF NoChildBegin
  <2>3. ASSUME NEW accepted \in BOOLEAN, FactoryCloses(accepted)
        PROVE  /\ gens[birth.claim.generation] # None
               /\ birth.claim.generation \in Generations
               /\ BeginCloseBound(EvidenceOf(birth.claim.generation)) /\ finishing' = finishing
    BY <1>0, <2>3 DEF FactoryCloses, RequestLocalClose
  <2>4. ASSUME NEW g, AttachTransaction(g) PROVE UNCHANGED registries
    BY <2>4 DEF AttachTransaction
  <2>5. ASSUME \/ \E k \in Keys, r \in Runtimes : Authorize(k, r)
               \/ RetryReserved \/ AuthorizeRefused \/ \E g \in Generations : ReserveFresh(g)
               \/ RegisterGate("reserved", "gated", IdleBirth)
               \/ RegisterClaim("gated", [birth EXCEPT !.pc = "registered"])
               \/ Grant \/ Consume \/ ConsumeRefused \/ BeginLocalFactory \/ RunFactory
               \/ FactoryFails \/ NoChildGivesUp \/ SendSpawn \/ AttachLocalRefused
               \/ RegisterGate("attached", "attach_gated", AttachRefused)
               \/ RegisterClaim("attach_gated", AttachDone)
               \/ ObserveLocal
        PROVE  UNCHANGED <<closing, finishing>>
    BY <2>5, Zenon DEF Authorize, RetryReserved, AuthorizeRefused, ReserveFresh, RegisterGate,
       RegisterClaim, Grant, Consume, ConsumeRefused, BeginLocalFactory, RunFactory,
       FactoryFails, NoChildGivesUp, SendSpawn, AttachLocalRefused, ObserveLocal, registries
  <2> QED
    BY <1>1, <2>1, <2>2, <2>3, <2>4, <2>5, Zenon DEF RecoveryWorker, AttachLocal, AttachRemote,
       registries
<1>2. CASE LedgerWorker
  <2>1. ASSUME NEW g \in Generations, NEW accepted \in BOOLEAN, CloseObserved(g, accepted)
        PROVE  gens[g] # None /\ BeginCloseBound(EvidenceOf(g)) /\ finishing' = finishing
    BY <1>0, <2>1 DEF CloseObserved, RequestLocalClose
  <2>2. ASSUME NEW g \in Generations, RetireCompleteLocal(g)
        PROVE  \E r \in Runtimes : BeginClose(r, TRUE, TRUE) /\ Confirms(r)
    BY <1>0, <2>2 DEF RetireCompleteLocal, Confirms
  <2>3. ASSUME \/ \E g \in Generations : RetireDrainLocal(g)
               \/ \E k \in Keys : RefreshReads(k)
               \/ RefreshDrops
        PROVE  UNCHANGED <<closing, finishing>>
    BY <2>3 DEF RetireDrainLocal, RefreshReads, RefreshDrops, registries
  <2> QED
    BY <1>2, <2>1, <2>2, <2>3 DEF LedgerWorker
<1>3. CASE RemoteCloser
  <2>1. ASSUME NEW r \in Runtimes, CloserStart(r) PROVE BeginClose(r, TRUE, FALSE)
    BY <2>1 DEF CloserStart
  <2>2. CASE CloserConfirms
    BY <1>0, <2>2 DEF CloserConfirms, Confirms
  <2>3. CASE CloserFence \/ CloserResumes \/ HostCloses \/ CloserGivesUp
    BY <2>3 DEF CloserFence, CloserResumes, HostCloses, CloserGivesUp, registries
  <2> QED
    BY <1>3, <2>1, <2>2, <2>3 DEF RemoteCloser
<1>4. CASE HookJobs
  BY <1>4 DEF HookJobs, Admit, BeginEffects, MemoryEffect, EndEffects,
     PublicationDenied, PublicationOffers, PublicationRefused, PublicationTimeout, registries
<1>5. CASE Ui
  <2>1. ASSUME NEW r \in Runtimes, NEW permanent \in BOOLEAN, UiClose(r, permanent)
        PROVE  BeginClose(r, permanent, FALSE)
    BY <2>1 DEF UiClose
  <2> QED
    BY <1>5, <2>1 DEF Ui, UiClaims, UiDrops, Freeze, Sample, registries
<1>6. CASE Environment
  BY <1>6 DEF Environment, HostConsume, HostFactory, ChildExits, OtherStep, registries
<1>7. CASE UNCHANGED all_vars
  BY <1>7 DEF all_vars, registries
<1> QED
  BY <1>1, <1>2, <1>3, <1>4, <1>5, <1>6, <1>7 DEF RuntimeNext

(* An entry that is written is of its runtime.                             *)
LEMMA EntryWritten ==
    ASSUME RuntimeIInv, ClosingsAreCancelled, [RuntimeNext]_all_vars,
           NEW r \in Runtimes, NEW e,
           closing' = [closing EXCEPT ![r] = e], finishing \ {r} \subseteq finishing',
           e # None => /\ r \in cancelled' /\ e.claim.runtime = r
                       /\ e.confirmed => r \in finishing'
    PROVE  ClosingsAreCancelled'
<1>1. closing \in [Runtimes -> Closing \cup {None}] /\ cancelled \subseteq cancelled'
  BY DeadAndCancelledStay DEF RuntimeIInv, RegistriesHold
<1> QED
  BY <1>1 DEF ClosingsAreCancelled

(* A claim that is fenced is of the runtime it is closed for.              *)
LEMMA FencedRuntime ==
    ASSUME ClosingsAreCancelled, NEW r \in Runtimes, MayFence(r)
    PROVE  Fence(leaf[closing[r].claim.key]).runtime = r
BY DEF ClosingsAreCancelled, MayFence, SameAuthority, Fence, Successor

LEMMA BeginCloseCancels ==
    ASSUME RuntimeIInv, ClosingsAreCancelled, [RuntimeNext]_all_vars, NEW r \in Runtimes,
           NEW permanent \in BOOLEAN, NEW confirmed \in BOOLEAN,
           BeginClose(r, permanent, confirmed)
    PROVE  ClosingsAreCancelled'
<1> DEFINE found == RegisteredUnder(r) # {}
           c == claims[FoundUnder(r)]
           fresh == [claim |-> c, fence |-> c, permanent |-> permanent, confirmed |-> FALSE]
           entry == IF found /\ GateOf(c) THEN fresh ELSE closing[r]
           new == IF confirmed /\ entry # None THEN [entry EXCEPT !.confirmed = TRUE] ELSE entry
<1>1. /\ closing' = [closing EXCEPT ![r] = new]
      /\ r \in cancelled' /\ finishing \subseteq finishing'
      /\ confirmed => r \in finishing'
  BY DEF BeginClose
<1>2. entry # None => /\ entry.claim.runtime = r
                      /\ entry.confirmed => r \in finishing
                      /\ confirmed => entry \in Closing
  <2>1. CASE found /\ GateOf(c)
    <3>1. FoundUnder(r) \in RegisteredUnder(r)
      BY <2>1 DEF FoundUnder
    <3>2. c.runtime = r /\ c \in Claim
      BY <3>1 DEF RegisteredUnder, RuntimeIInv, RegistriesHold
    <3>3. fresh.claim = c /\ ~fresh.confirmed
      OBVIOUS
    <3>4. fresh \in Closing
      BY <3>2, FreshEntry
    <3> QED
      BY <2>1, <3>2, <3>3, <3>4
  <2>2. CASE ~(found /\ GateOf(c))
    BY <2>2 DEF ClosingsAreCancelled, RuntimeIInv, RegistriesHold
  <2> QED
    BY <2>1, <2>2
<1> HIDE DEF entry
<1>3. new # None => new.claim.runtime = r /\ (new.confirmed => r \in finishing')
  <2>1. CASE confirmed /\ entry # None
    BY <1>1, <1>2, <2>1, ConfirmedEntry
  <2>2. CASE ~(confirmed /\ entry # None)
    BY <1>1, <1>2, <2>2
  <2> QED
    BY <2>1, <2>2
<1> HIDE DEF new
<1> QED
  BY <1>1, <1>3, EntryWritten

LEMMA BeginCloseBoundCancels ==
    ASSUME RuntimeIInv, ClosingsAreCancelled, [RuntimeNext]_all_vars, NEW g \in Generations,
           gens[g] # None, BeginCloseBound(EvidenceOf(g)), finishing' = finishing
    PROVE  ClosingsAreCancelled'
<1> DEFINE r == gens[g].runtime
           c == claims[gens[g].key]
           fresh == [claim |-> c, fence |-> c, permanent |-> TRUE, confirmed |-> FALSE]
<1>1. r \in Runtimes /\ closing \in [Runtimes -> Closing \cup {None}]
  BY DEF RuntimeIInv, IInv, TypeOK, Generation, RegistriesHold
<1>2. /\ EvidenceOf(g).key = gens[g].key /\ EvidenceOf(g).runtime = r
  BY DEF EvidenceOf
<1>3. /\ r \in cancelled'
      /\ \/ OwnedClaim(EvidenceOf(g), c) /\ closing' = [closing EXCEPT ![r] = fresh]
         \/ closing' = closing
  BY <1>2 DEF BeginCloseBound
<1>4. CASE OwnedClaim(EvidenceOf(g), c) /\ closing' = [closing EXCEPT ![r] = fresh]
  <2>1. c.runtime = r
    BY <1>2, <1>4, ZenonT(40) DEF OwnedClaim, Proves
  <2>2. fresh.claim.runtime = r /\ ~fresh.confirmed
    BY <2>1
  <2> HIDE DEF fresh, r
  <2> QED
    BY <1>1, <1>3, <1>4, <2>2, EntryWritten, ZenonT(40)
<1>5. CASE closing' = closing
  BY <1>1, <1>5, DeadAndCancelledStay DEF ClosingsAreCancelled
<1> QED
  BY <1>3, <1>4, <1>5

LEMMA ClosingsStep == ASSUME CleanIInv, [RuntimeNext]_all_vars PROVE ClosingsAreCancelled'
<1>0. /\ RuntimeIInv /\ ClosingsAreCancelled /\ KilledIsSettled /\ RowsStay
      /\ closing \in [Runtimes -> Closing \cup {None}]
      /\ cancelled \subseteq cancelled'
  BY RuntimeLedgerStep, DeadAndCancelledStay
     DEF CleanIInv, CleanHolds, ClosesHold, RuntimeIInv, RegistriesHold
<1>1. CASE UNCHANGED <<closing, finishing>>
  BY <1>0, <1>1 DEF ClosingsAreCancelled
<1>2. ASSUME NEW r \in Runtimes, MayFence(r), FenceRetire(Me, leaf[closing[r].claim.key]),
             finishing \subseteq finishing',
             \/ closing' = [closing EXCEPT ![r] =
                    [closing[r] EXCEPT !.claim = Fence(leaf[closing[r].claim.key])]]
             \/ closing' = [closing EXCEPT ![r] =
                    [closing[r] EXCEPT !.claim = Fence(leaf[closing[r].claim.key]),
                                       !.confirmed = TRUE]] /\ r \in finishing'
      PROVE  ClosingsAreCancelled'
  <2> DEFINE c == Fence(leaf[closing[r].claim.key])
             e == [closing[r] EXCEPT !.claim = c]
             f == [closing[r] EXCEPT !.claim = c, !.confirmed = TRUE]
  <2>1. c \in Claim /\ c.runtime = r
    BY <1>0, <1>2, FencedClaim, FencedRuntime
  <2>2. closing[r] \in Closing /\ r \in cancelled /\ (closing[r].confirmed => r \in finishing)
    BY <1>0, <1>2 DEF MayFence, ClosingsAreCancelled
  <2> HIDE DEF c
  <2>3. /\ e.claim = c /\ e.confirmed = closing[r].confirmed
        /\ f.claim = c
    BY <2>2 DEF Closing
  <2>4. \/ closing' = [closing EXCEPT ![r] = e]
        \/ closing' = [closing EXCEPT ![r] = f] /\ r \in finishing'
    BY <1>2 DEF c
  <2> HIDE DEF e, f
  <2> QED
    BY <1>0, <1>2, <2>1, <2>2, <2>3, <2>4, EntryWritten
<1>3. CASE NoChildConfirm
  <2>1. birth.runtime \in Runtimes
    BY <1>3, NonceFacts DEF NoChildConfirm
  <2>2. /\ closing' = [closing EXCEPT ![birth.runtime] =
               [closing[birth.runtime] EXCEPT
                   !.claim = Fence(leaf[closing[birth.runtime].claim.key]),
                   !.confirmed = TRUE]]
        /\ finishing' = finishing \cup {birth.runtime}
        /\ MayFence(birth.runtime)
        /\ FenceRetire(Me, leaf[closing[birth.runtime].claim.key])
    BY <1>3, ZenonT(40) DEF NoChildConfirm
  <2> QED
    BY <1>2, <2>1, <2>2
<1>4. ASSUME NEW g \in Generations, RetireFenceLocal(g) PROVE ClosingsAreCancelled'
  <2>1. gens[g].runtime \in Runtimes
    BY <1>4, NonceFacts DEF RetireFenceLocal, CleanIInv, RuntimeIInv, LocalsHold
  <2>2. /\ finishing' = finishing
        /\ \/ closing' = closing
           \/ /\ closing' = [closing EXCEPT ![gens[g].runtime] =
                    [closing[gens[g].runtime] EXCEPT
                        !.claim = Fence(leaf[closing[gens[g].runtime].claim.key])]]
              /\ MayFence(gens[g].runtime)
              /\ FenceRetire(Me, leaf[closing[gens[g].runtime].claim.key])
    BY <1>4, Zenon DEF RetireFenceLocal
  <2> QED
    BY <1>1, <1>2, <2>1, <2>2, ZenonT(40)
<1>5. ASSUME NEW r \in Runtimes, Finish(r) PROVE ClosingsAreCancelled'
  BY <1>0, <1>5, EntryWritten DEF Finish
<1>6. CASE CloserRecord
  <2> DEFINE r == closer.runtime
             e == [closing[r] EXCEPT !.claim = closer.claim]
  <2>1. /\ r \in Runtimes /\ r \in cancelled /\ closer.claim.runtime = r
        /\ finishing' = finishing
        /\ closing' = closing \/ (closing' = [closing EXCEPT ![r] = e] /\ closing[r] # None)
    BY <1>0, <1>6 DEF CloserRecord, KilledIsSettled, RuntimeIInv, WorkersHold, Closer
  <2>2. closing[r] # None =>
            e.claim = closer.claim /\ e.confirmed = closing[r].confirmed
            /\ (closing[r].confirmed => r \in finishing)
    BY <1>0, <2>1 DEF Closing, ClosingsAreCancelled
  <2> HIDE DEF e, r
  <2> QED
    BY <1>0, <1>1, <2>1, <2>2, EntryWritten
<1> QED
  BY <1>0, <1>1, <1>3, <1>4, <1>5, <1>6, ClosesWritten, BeginCloseCancels, BeginCloseBoundCancels

(* A runtime all of whose nonces but that of its leaf are over.            *)
LEMMA SettledByLeaf ==
    ASSUME CleanIInv, NEW g \in Generations, gens[g] # None, Over(g),
           leaf[gens[g].key] # None, leaf[gens[g].key].generation = g
    PROVE  Settled(gens[g].runtime)
<1>1. ASSUME NEW k \in Keys, leaf[k] # None, leaf[k].runtime = gens[g].runtime
      PROVE  leaf[k].generation = g
  <2>1. PICK h \in Generations : h = leaf[k].generation
    BY <1>1, NonceFacts
  <2>2. gens[h] # None /\ gens[h].key = k /\ gens[h].runtime = gens[g].runtime
    BY <1>1, <2>1, NonceFacts
  <2>3. gens[g].key = k
    BY <2>2 DEF CleanIInv, CleanHolds, NoncesHold, OneLeafEach
  <2> QED
    BY <2>3
<1> QED
  BY <1>1 DEF Settled

(* Who confirms an end knows that there is, and will be, no child.         *)
LEMMA ConfirmsSettled ==
    ASSUME CleanIInv, NEW r, Confirms(r)
    PROVE  r \in cancelled /\ Settled(r)
<1>0. /\ OnePermit /\ TypeOK /\ BirthIsCurrent /\ OneLeafEach /\ FreshIsUnsent
      /\ FactoryHolds /\ LocalChildren /\ LocalNonces /\ KilledIsSettled
  BY NonceFacts DEF CleanIInv, CleanHolds, NoncesHold, ClosesHold
<1>1. ASSUME birth.pc \notin {"idle", "checked"}, Over(birth.claim.generation)
      PROVE  Settled(birth.runtime)
  <2>1. PICK g \in Generations : g = birth.claim.generation
    BY <1>1, NonceFacts
  <2>2. /\ leaf[birth.claim.key] # None /\ leaf[birth.claim.key].generation = g
        /\ gens[g].runtime = birth.runtime /\ birth.claim.key \in Keys
    BY <1>0, <1>1, <2>1, NonceFacts DEF BirthIsCurrent
  <2>3. gens[g] # None /\ gens[g].key = birth.claim.key
    BY <2>2, NonceFacts
  <2>4. Settled(gens[g].runtime)
    BY <1>1, <2>1, <2>2, <2>3, SettledByLeaf
  <2> QED
    BY <2>2, <2>4
<1>2. CASE GrantCancelled /\ birth.fresh /\ r = birth.runtime
  <2>1. PICK g \in Generations : g = birth.claim.generation
    BY <1>2, NonceFacts DEF GrantCancelled
  <2>2. /\ birth.pc = "registered" /\ r \in cancelled /\ gens[g].runtime = r
        /\ ~gens[g].spawn_consumed
        /\ \A c \in spawned : c.generation # g
    BY <1>0, <1>2, <2>1 DEF GrantCancelled, BirthIsCurrent, FreshIsUnsent
  <2>3. factories[g] = 0 /\ \A c \in permits : c.generation # g
    BY <1>0, <2>2 DEF OnePermit
  <2>4. Over(g)
    BY <2>2, <2>3 DEF Over, Alive, Barred, Ungranted
  <2> QED
    BY <1>1, <1>2, <2>1, <2>2, <2>4
<1>3. CASE NoChildConfirm /\ r = birth.runtime
  <2>1. PICK g \in Generations : g = birth.claim.generation
    BY <1>3, NonceFacts DEF NoChildConfirm
  <2>2. /\ r \in cancelled /\ gens[g].spawn_consumed /\ factories[g] = 0
        /\ \A c \in permits : c.generation # g
    BY <1>0, <1>3, <2>1 DEF NoChildConfirm, FactoryHolds, NoChild
  <2>3. Over(g) /\ birth.pc = "nochild_fenced"
    BY <1>3, <2>2 DEF Over, Alive, Barred, NoChildConfirm
  <2> QED
    BY <1>1, <1>3, <2>1, <2>2, <2>3
<1>4. ASSUME NEW g \in Generations, RetireCompleteLocal(g), r = gens[g].runtime
      PROVE  r \in cancelled /\ Settled(r)
  <2>1. factories[g] # 0 /\ r \in Local /\ r \in cancelled /\ ~Alive(g)
    BY <1>0, <1>4 DEF RetireCompleteLocal, LocalChildren
  <2>2. /\ gens[g] # None /\ gens[g].spawn_consumed
        /\ \A c \in permits : c.generation # g
    BY <1>0, <2>1 DEF OnePermit
  <2>3. Over(g)
    BY <2>1, <2>2 DEF Over, Barred
  <2>4. ASSUME NEW k \in Keys, leaf[k] # None, leaf[k].runtime = r
        PROVE  Over(leaf[k].generation)
    <3>1. PICK h \in Generations : h = leaf[k].generation
      BY <2>4, NonceFacts
    <3>2. gens[h] # None /\ gens[h].runtime = r
      BY <2>4, <3>1, NonceFacts
    <3>3. Over(h)
      BY <1>0, <1>4, <2>1, <2>2, <2>3, <3>2 DEF LocalNonces
    <3> QED
      BY <3>1, <3>3
  <2> QED
    BY <2>1, <2>4 DEF Settled
<1>5. CASE CloserConfirms /\ r = closer.runtime
  BY <1>0, <1>5 DEF CloserConfirms, KilledIsSettled
<1> QED
  BY <1>2, <1>3, <1>4, <1>5 DEF Confirms

LEMMA FinishingStep == ASSUME CleanIInv, [RuntimeNext]_all_vars PROVE FinishingIsSettled'
<1>0. /\ RuntimeIInv /\ cancelled \subseteq cancelled'
      /\ \A r \in finishing : r \in cancelled /\ Settled(r)
  BY DeadAndCancelledStay DEF CleanIInv, CleanHolds, ClosesHold, FinishingIsSettled
<1>1. ASSUME NEW r \in finishing' PROVE r \in finishing \/ Confirms(r)
  <2>1. ASSUME NEW q, NEW permanent, NEW confirmed, BeginClose(q, permanent, confirmed),
               confirmed => Confirms(q)
        PROVE  r \in finishing \/ Confirms(r)
    BY <1>1, <2>1 DEF BeginClose
  <2>2. CASE NoChildConfirm
    BY <1>1, <2>2, SMTT(40), ZenonT(40) DEF NoChildConfirm, Confirms
  <2>3. CASE CloserRecord \/ \E g \in Generations : RetireFenceLocal(g)
    BY <1>1, <2>3 DEF CloserRecord, RetireFenceLocal
  <2>4. ASSUME NEW q, Finish(q) PROVE r \in finishing
    BY <1>1, <2>4 DEF Finish
  <2> QED
    BY <1>0, <1>1, <2>1, <2>2, <2>3, <2>4, ClosesWritten
<1>2. ASSUME NEW r \in finishing' PROVE r \in cancelled' /\ Settled(r)'
  BY <1>0, <1>1, <1>2, ConfirmsSettled, SettledStays
<1> QED
  <2> SUFFICES ASSUME NEW r \in finishing' PROVE r \in cancelled' /\ Settled(r)'
    BY DEF FinishingIsSettled
  <2> QED
    BY <1>2

(* The daemon says killed once the child has ended or can never start.     *)
LEMMA HostSettles ==
    ASSUME CleanIInv, [RuntimeNext]_all_vars, HostCloses
    PROVE  Settled(closer.runtime)'
<1> DEFINE c == closer.claim
<1>. PICK r : r = closer.runtime
  OBVIOUS
<1>0. /\ c \in Claim /\ c # None /\ c.runtime = r /\ KilledIsSettled /\ TypeOK
  BY NonceFacts DEF HostCloses, CleanIInv, RuntimeIInv, WorkersHold, Born, CleanHolds,
     ClosesHold, KilledIsSettled, Claim
<1>1. PICK g \in Generations : g = c.generation
  BY NonceFacts DEF HostCloses, CleanIInv, RuntimeIInv, WorkersHold, Born, Claim
<1>2. /\ leaf[c.key] = c /\ c.phase = "retiring" /\ c.key \in Keys
      /\ UNCHANGED <<leaf, gens, permits, factories, spawned, birth, cancelled>>
      /\ dead' = IF factories[g] > 0 THEN dead \cup {g} ELSE dead
  BY <1>0, <1>1 DEF HostCloses, NoTransaction, vars, registries, Claim
<1>3. gens[g] # None /\ gens[g].key = c.key /\ gens[g].runtime = r
  BY <1>0, <1>1, <1>2, NonceFacts
<1>4. Fenced(g)
  BY <1>0, <1>1, <1>2, <1>3 DEF Fenced
<1>5. Over(g)'
  BY <1>2, <1>4 DEF Over, Alive, Barred, Fenced
<1>6. ASSUME NEW k \in Keys, leaf'[k] # None, leaf'[k].runtime = r
      PROVE  leaf'[k].generation = g
  <2>1. PICK h \in Generations : h = leaf[k].generation
    BY <1>2, <1>6, NonceFacts
  <2>2. gens[h].key = k /\ gens[h].runtime = r /\ gens[h] # None
    BY <1>2, <1>6, <2>1, NonceFacts
  <2>3. k = c.key
    BY <1>3, <2>2 DEF CleanIInv, CleanHolds, NoncesHold, OneLeafEach
  <2> QED
    BY <1>1, <1>2, <2>3
<1>7. Settled(r)'
  BY <1>5, <1>6, SettledNext
<1>8. closer'.runtime = r
  BY DEF HostCloses, CleanIInv, RuntimeIInv, WorkersHold, Closer
<1> QED
  BY <1>7, <1>8

LEMMA KilledStep == ASSUME CleanIInv, [RuntimeNext]_all_vars PROVE KilledIsSettled'
<1>0. /\ RuntimeIInv /\ KilledIsSettled /\ ClosingsAreCancelled /\ ClosingsAreCancelled'
      /\ closer \in Closer /\ RowsStay
      /\ closer.pc # "idle" => closer.runtime \in Runtimes
      /\ cancelled \subseteq cancelled'
  BY RuntimeLedgerStep, ClosingsStep, DeadAndCancelledStay
     DEF CleanIInv, CleanHolds, ClosesHold, RuntimeIInv, WorkersHold, Closer
<1>1. CASE closer' = closer
  <2>1. closer.pc = "killed" => Settled(closer.runtime)'
    <3>1. PICK r : r = closer.runtime
      OBVIOUS
    <3>2. closer.pc = "killed" => r \in cancelled /\ Settled(r)
      BY <1>0, <3>1 DEF KilledIsSettled
    <3>3. closer.pc = "killed" => Settled(r)'
      BY <3>2, SettledStays
    <3> QED
      BY <1>1, <3>1, <3>3
  <2> QED
    BY <1>0, <1>1, <2>1 DEF KilledIsSettled
<1>2. ASSUME closer'.pc \in {"closing", "fenced", "recorded"},
             closer'.runtime \in cancelled', closer'.claim.runtime = closer'.runtime
      PROVE  KilledIsSettled'
  BY <1>2 DEF KilledIsSettled
<1>3. CASE closer' = IdleCloser
  BY <1>3 DEF KilledIsSettled, IdleCloser
<1>4. ASSUME NEW r \in Runtimes, CloserStart(r) PROVE KilledIsSettled'
  <2>1. /\ closer'.pc = "closing" /\ closer'.runtime = r /\ closer'.claim = closing'[r].claim
        /\ closing'[r] # None
    BY <1>4 DEF CloserStart
  <2> QED
    BY <1>0, <1>2, <2>1 DEF ClosingsAreCancelled
<1>5. CASE CloserFence
  <2> DEFINE r == closer.runtime
             k == closing[r].claim.key
  <2>1. r \in Runtimes /\ MayFence(r) /\ FenceRetire(Me, leaf[k]) /\ r \in cancelled
    BY <1>0, <1>5 DEF CloserFence, KilledIsSettled
  <2>2. leaf'[k].runtime = r
    BY <1>0, <2>1, FencedClaim, FencedRuntime
  <2>3. closer'.pc = "fenced" /\ closer'.runtime = r /\ closer'.claim = leaf'[k]
    BY <1>0, <1>5 DEF CloserFence, Closer
  <2> QED
    BY <1>0, <1>2, <2>1, <2>2, <2>3
<1>6. CASE CloserRecord
  <2>1. CASE closer' = [closer EXCEPT !.pc = "recorded"]
    <3>1. /\ closer'.pc = "recorded" /\ closer'.runtime = closer.runtime
          /\ closer'.claim = closer.claim
      BY <1>0, <2>1 DEF Closer
    <3> QED
      BY <1>0, <1>2, <1>6, <3>1 DEF CloserRecord, KilledIsSettled
  <2> QED
    BY <1>3, <1>6, <2>1 DEF CloserRecord
<1>7. CASE CloserResumes
  <2>1. /\ closer'.pc = "recorded" /\ closer'.runtime = closer.runtime
        /\ closer'.claim = closing[closer.runtime].claim
        /\ closing[closer.runtime] # None /\ closer.pc # "idle"
    BY <1>0, <1>7 DEF CloserResumes, FenceStands, Closer
  <2> QED
    BY <1>0, <1>2, <2>1 DEF ClosingsAreCancelled
<1>8. CASE HostCloses
  <2>1. PICK r : r = closer.runtime
    OBVIOUS
  <2>2. /\ closer'.runtime = r /\ closer'.claim = closer.claim /\ closer.pc = "recorded"
    BY <1>0, <1>8, <2>1 DEF HostCloses, Closer
  <2>3. Settled(closer.runtime)'
    BY <1>8, HostSettles
  <2> QED
    BY <1>0, <2>1, <2>2, <2>3 DEF KilledIsSettled
<1>9. CASE RemoteCloser
  BY <1>3, <1>4, <1>5, <1>6, <1>7, <1>8, <1>9, ZenonT(40)
  DEF RemoteCloser, CloserConfirms, CloserGivesUp
<1>10. CASE RecoveryWorker
  BY <1>1, <1>10, ZenonT(40)
  DEF RecoveryWorker, Authorize, RetryReserved, ReserveFresh, AuthorizeRefused,
     RegisterGate, RegisterClaim, GrantCancelled, Grant, Consume, ConsumeRefused,
     BeginLocalFactory, RunFactory, FactoryFails, NoChildBegin, NoChildConfirm, NoChildGivesUp,
     SendSpawn, AttachLocal, AttachLocalRefused, AttachRemote, AttachTransaction, ObserveLocal,
     FactoryCloses, RequestLocalClose, workers
<1>11. CASE LedgerWorker
  BY <1>1, <1>11, ZenonT(40) DEF LedgerWorker, CloseObserved, RequestLocalClose, RetireFenceLocal,
     RetireDrainLocal, RetireCompleteLocal, Finish, RefreshReads, RefreshDrops, workers
<1>12. CASE HookJobs
  BY <1>1, <1>12 DEF HookJobs, Admit, BeginEffects, MemoryEffect, EndEffects, PublicationDenied,
     PublicationOffers, PublicationRefused, PublicationTimeout, workers
<1>13. CASE Ui \/ Environment \/ UNCHANGED all_vars
  BY <1>1, <1>13 DEF Ui, UiClose, UiClaims, UiDrops, Freeze, Sample, Environment, HostConsume,
     HostFactory, ChildExits, OtherStep, workers, all_vars
<1> QED
  BY <1>9, <1>10, <1>11, <1>12, <1>13 DEF RuntimeNext

-----------------------------------------------------------------------------
(* Local children, and who retires a nonce.                                *)

LEMMA LocalChildrenStep == ASSUME CleanIInv, [RuntimeNext]_all_vars PROVE LocalChildren'
<1>0. /\ RuntimeIInv /\ LocalChildren /\ FactoryHolds /\ BirthIsCurrent /\ NoncesKept
      /\ cancelled \subseteq cancelled'
      /\ local \in [Generations -> {"none", "new", "fenced", "draining"}]
  BY NonceFacts, RuntimeLedgerStep, LedgerKeepsNonces, DeadAndCancelledStay
     DEF CleanIInv, CleanHolds, NoncesHold, RuntimeIInv, LocalsHold
<1>1. \A g \in Generations : factories[g] # 0 => factories'[g] # 0 /\ gens'[g].runtime = gens[g].runtime
  BY <1>0, FactoriesGrow, NonceFacts DEF NoncesKept
<1>2. ASSUME \A g \in Generations :
                 \/ /\ g \in observed' => g \in observed \/ local[g] # "none"
                    /\ local'[g] # "none" => local[g] # "none"
                 \/ /\ factories[g] # 0 /\ gens[g].runtime \in Local
                    /\ local'[g] # "none" => gens[g].runtime \in cancelled'
      PROVE  LocalChildren'
  BY <1>0, <1>1, <1>2 DEF LocalChildren
<1>3. ASSUME Built
      PROVE  \E g \in Generations : /\ g = birth.claim.generation
                                    /\ factories[g] # 0 /\ gens[g].runtime \in Local
  <2>1. birth.claim.generation \in Generations /\ birth.pc \notin {"idle", "checked"}
    BY <1>3, NonceFacts DEF Built
  <2> QED
    BY <1>0, <1>3, <2>1 DEF FactoryHolds, BirthIsCurrent
<1>4. ASSUME NEW g \in Generations, NEW accepted \in BOOLEAN, RequestLocalClose(g, accepted),
             factories[g] # 0, gens[g].runtime \in Local
      PROVE  LocalChildren'
  <2>1. /\ observed' = observed /\ gens[g].runtime \in cancelled'
        /\ local' = IF accepted THEN [local EXCEPT ![g] = "new"] ELSE local
    BY <1>4 DEF RequestLocalClose, BeginCloseBound, EvidenceOf
  <2>2. \A h \in Generations : h # g => local'[h] = local[h]
    BY <1>0, <2>1
  <2> QED
    BY <1>2, <1>4, <2>1, <2>2
<1>5. CASE UNCHANGED <<observed, local>>
  BY <1>2, <1>5
<1>6. CASE BeginLocalFactory \/ NoChildConfirm
  BY <1>5, <1>6 DEF BeginLocalFactory, NoChildConfirm
<1>7. CASE ObserveLocal
  <2>1. /\ observed' = observed \cup {birth.claim.generation} /\ local' = local
        /\ birth.pc = "handoff"
    BY <1>7 DEF ObserveLocal
  <2>2. PICK g \in Generations : /\ g = birth.claim.generation
                                 /\ factories[g] # 0 /\ gens[g].runtime \in Local
    BY <1>3, <2>1 DEF Built
  <2>3. local[g] # "none" => gens[g].runtime \in cancelled'
    BY <1>0 DEF LocalChildren
  <2> QED
    BY <1>2, <2>1, <2>2, <2>3
<1>8. ASSUME NEW accepted \in BOOLEAN, FactoryCloses(accepted) PROVE LocalChildren'
  <2>1. birth.pc \in {"handoff", "orphan"} /\ RequestLocalClose(birth.claim.generation, accepted)
    BY <1>8 DEF FactoryCloses
  <2> QED
    BY <1>3, <1>4, <2>1 DEF Built
<1>9. ASSUME NEW g \in Generations, NEW accepted \in BOOLEAN, CloseObserved(g, accepted)
      PROVE  LocalChildren'
  <2>1. g \in observed /\ RequestLocalClose(g, accepted)
    BY <1>9 DEF CloseObserved
  <2> QED
    BY <1>0, <1>4, <2>1 DEF LocalChildren
<1>10. ASSUME NEW g \in Generations,
              RetireFenceLocal(g) \/ RetireDrainLocal(g) \/ RetireCompleteLocal(g)
       PROVE  LocalChildren'
  <2>1. /\ observed' \subseteq observed /\ local[g] # "none"
        /\ \E p : local' = [local EXCEPT ![g] = p]
    BY <1>10, Zenon DEF RetireFenceLocal, RetireDrainLocal, RetireCompleteLocal
  <2>2. \A h \in Generations : h # g => local'[h] = local[h]
    BY <1>0, <2>1
  <2> QED
    BY <1>2, <2>1, <2>2
<1> QED
  BY <1>5, <1>6, <1>7, <1>8, <1>9, <1>10, LocalsWritten DEF locals

\* No nonce is retired in this step.
NoneRetired ==
    \A g \in Generations : gens'[g] # None /\ gens'[g].phase = "retired" =>
        gens[g] # None /\ gens[g].phase = "retired"

(* What retires no nonce.                                                  *)
LEMMA TransactionsRetireNone ==
    ASSUME TypeOK, NEW o, NEW c, NEW host, Install(o, c, host) \/ Adopt(o, c, host),
           c.generation \in Generations
    PROVE  NoneRetired
<1>1. /\ gens[c.generation] # None
      /\ UpdateGeneration(c.generation, gens[c.generation].spawn_consumed, "active")
  BY DEF Install, Adopt, GenerationLive, SetGenerationPhase
<1>2. gens[c.generation].spawn_consumed \in BOOLEAN
  BY <1>1 DEF TypeOK, Generation
<1> QED
  BY <1>1, <1>2, UpdatedRow DEF NoneRetired

(* Retire is the one transaction that does, for the nonce of its leaf.     *)
LEMMA RetireRetires ==
    ASSUME TypeOK, NEW o, NEW c, Retire(o, c), c.generation \in Generations,
           NEW g \in Generations, gens'[g] # None, gens'[g].phase = "retired",
           gens[g] = None \/ gens[g].phase # "retired"
    PROVE  g = c.generation
<1>1. /\ gens[c.generation] # None
      /\ UpdateGeneration(c.generation, gens[c.generation].spawn_consumed, "retired")
  BY DEF Retire, SetGenerationPhase
<1>2. gens[c.generation].spawn_consumed \in BOOLEAN
  BY <1>1 DEF TypeOK, Generation
<1> QED
  BY <1>1, <1>2, UpdatedRow

\* This endpoint finishes a close, or another one retires its leaf.
Retires(g) ==
    \/ \E r \in Runtimes :
          /\ closing[r] # None /\ (closing[r].permanent => closing[r].confirmed)
          /\ closing[r].permanent \/ r \in finishing
          /\ LET current == leaf[closing[r].claim.key]
             IN  /\ current # None /\ current.generation = g
                 /\ closing[r].claim = current \/ SameAuthority(closing[r].claim, current)
    \/ \E k \in Keys :
          /\ leaf[k] # None /\ leaf[k].generation = g /\ leaf[k].phase = "retiring"
          /\ leaf[k].runtime \notin Local /\ ~Alive(g)

LEMMA WhoRetires ==
    ASSUME CleanIInv, [RuntimeNext]_all_vars,
           NEW g \in Generations, gens'[g] # None, gens'[g].phase = "retired",
           gens[g] = None \/ gens[g].phase # "retired"
    PROVE  Retires(g)
<1>0. RuntimeIInv /\ TypeOK
  BY NonceFacts DEF CleanIInv
<1>1. ~NoneRetired
  BY DEF NoneRetired
<1>2. gens' # gens
  BY <1>1 DEF NoneRetired
<1>3. CASE RecoveryWorker
  <2>1. ASSUME NEW h \in Generations, ReserveFresh(h) PROVE NoneRetired
    BY <1>0, <2>1, ReservedRows DEF NoneRetired
  <2>2. ASSUME NEW h, AttachTransaction(h) PROVE NoneRetired
    <3> DEFINE host == EvidenceOf(h)
               expected == leaf[host.key]
    <3>1. Install(Me, expected, host) \/ Adopt(Me, expected, host)
      BY <1>2, <2>2 DEF AttachTransaction, NoTransaction, vars
    <3>2. expected.generation = h /\ expected.generation # None /\ expected # None
      BY <2>2, <3>1 DEF Install, Adopt, Proves, AttachTransaction, EvidenceOf
    <3>3. expected.key = host.key /\ RequireExact(expected)
      BY <3>1 DEF Install, Adopt, Proves
    <3> HIDE DEF host, expected
    <3>4. CASE expected.generation \in Generations
      BY <1>0, <3>1, <3>4, TransactionsRetireNone
    <3>5. CASE expected.generation \notin Generations
      <4>1. SetGenerationPhase(expected, "active")
        BY <3>1 DEF Install, Adopt
      <4>2. \A j \in Generations : gens'[j] = gens[j]
        BY <1>0, <3>2, <3>5, <4>1 DEF SetGenerationPhase, UpdateGeneration, TypeOK
      <4> QED
        BY <4>2 DEF NoneRetired
    <3> QED
      BY <3>4, <3>5
  <2>3. CASE Consume
    <3>1. UpdateGeneration(birth.claim.generation, TRUE, "authorized_birth")
          /\ gens[birth.claim.generation] # None
      BY <2>3 DEF Consume, ConsumeBirthOnce, GenerationLive
    <3>2. birth.claim.generation \in Generations
      BY <2>3, NonceFacts DEF Consume
    <3> QED
      BY <1>0, <1>1, <3>1, <3>2, UpdatedRow, SMTT(40), ZenonT(40) DEF NoneRetired
  <2>4. CASE RunFactory \/ FactoryFails
    BY <1>2, <2>4, SMTT(40), ZenonT(40) DEF RunFactory, RunGuarded, FactoryFails, LosePermit
  <2>5. CASE NoChildConfirm
    BY <1>2, <2>5, ZenonT(40) DEF NoChildConfirm, FenceRetire
  <2>6. ASSUME \/ \E k \in Keys, r \in Runtimes : Authorize(k, r)
               \/ RetryReserved \/ AuthorizeRefused
               \/ RegisterGate("reserved", "gated", IdleBirth)
               \/ RegisterClaim("gated", [birth EXCEPT !.pc = "registered"])
               \/ GrantCancelled \/ Grant \/ ConsumeRefused \/ BeginLocalFactory
               \/ NoChildBegin \/ NoChildGivesUp \/ SendSpawn \/ AttachLocalRefused
               \/ RegisterGate("attached", "attach_gated", AttachRefused)
               \/ RegisterClaim("attach_gated", AttachDone)
               \/ ObserveLocal
               \/ \E accepted \in BOOLEAN : FactoryCloses(accepted)
        PROVE  NoTransaction
    BY <2>6, Zenon DEF Authorize, RetryReserved, AuthorizeRefused, RegisterGate, RegisterClaim,
       GrantCancelled, Grant, ConsumeRefused, BeginLocalFactory, NoChildBegin, NoChildGivesUp,
       SendSpawn, AttachLocalRefused, ObserveLocal, FactoryCloses, RequestLocalClose
  <2>7. ~NoTransaction
    BY <1>2 DEF NoTransaction, vars
  <2> QED
    BY <1>1, <1>3, <2>1, <2>2, <2>3, <2>4, <2>5, <2>6, <2>7, Zenon
       DEF RecoveryWorker, AttachLocal, AttachRemote
<1>4. CASE LedgerWorker
  <2>1. ASSUME NEW r \in Runtimes, Finish(r) PROVE Retires(g)
    <3> DEFINE k == closing[r].claim.key
    <3>1. /\ closing[r] # None /\ (closing[r].permanent => closing[r].confirmed)
          /\ leaf[k] # None
          /\ closing[r].claim = leaf[k] \/ SameAuthority(closing[r].claim, leaf[k])
          /\ \/ Release(Me, leaf[k])
             \/ (closing[r].permanent \/ r \in finishing) /\ Retire(Me, leaf[k])
      BY <2>1 DEF Finish, MayFinish
    <3>2. ~Release(Me, leaf[k])
      BY <1>2 DEF Release
    <3>3. leaf[k].generation \in Generations
      <4>1. k \in Keys
        BY <1>0, <3>1 DEF RuntimeIInv, RegistriesHold, Born, Claim
      <4> QED
        BY <3>1, <4>1, NonceFacts
    <3>4. leaf[k].generation = g
      BY <1>0, <3>1, <3>2, <3>3, RetireRetires
    <3> QED
      BY <3>1, <3>2, <3>4 DEF Retires
  <2>2. ASSUME NEW h, RetireFenceLocal(h) PROVE gens' = gens
    BY <2>2, Zenon DEF RetireFenceLocal, FenceRetire, NoTransaction, vars
  <2>3. ASSUME \/ \E h \in Generations : \/ \E accepted \in BOOLEAN : CloseObserved(h, accepted)
                                         \/ RetireDrainLocal(h) \/ RetireCompleteLocal(h)
               \/ \E k \in Keys : RefreshReads(k)
               \/ RefreshDrops
        PROVE  gens' = gens
    BY <2>3 DEF CloseObserved, RequestLocalClose, RetireDrainLocal, RetireCompleteLocal,
       RefreshReads, RefreshDrops, NoTransaction, vars
  <2> QED
    BY <1>2, <1>4, <2>1, <2>2, <2>3 DEF LedgerWorker
<1>5. CASE RemoteCloser
  <2>1. gens' = gens
    BY <1>5, Zenon DEF RemoteCloser, CloserStart, CloserFence, CloserRecord, CloserResumes,
       HostCloses, CloserConfirms, CloserGivesUp, FenceRetire, NoTransaction, vars
  <2> QED
    BY <1>2, <2>1
<1>6. CASE HookJobs
  <2>1. gens' = gens
    BY <1>6 DEF HookJobs, Admit, ResolveBound, BeginEffects, MemoryEffect, EndEffects,
       PublicationDenied, PublicationOffers, PublicationRefused, PublicationTimeout, DropJob,
       NoTransaction, vars
  <2> QED
    BY <1>2, <2>1
<1>7. CASE Ui
  <2>1. gens' = gens
    BY <1>7 DEF Ui, UiClose, UiClaims, UiDrops, Freeze, Sample, DropJob, NoTransaction, vars
  <2> QED
    BY <1>2, <2>1
<1>8. CASE Environment
  <2>1. ASSUME NEW c \in spawned, HostConsume(c) PROVE NoneRetired
    <3>1. UpdateGeneration(c.generation, TRUE, "authorized_birth") /\ gens[c.generation] # None
      BY <2>1 DEF HostConsume, ConsumeBirthOnce, GenerationLive
    <3>2. c.generation \in Generations
      BY NonceFacts
    <3> QED
      BY <1>0, <3>1, <3>2, UpdatedRow, SMTT(40), ZenonT(40) DEF NoneRetired
  <2>2. ASSUME NEW c, HostFactory(c) PROVE gens' = gens
    BY <2>2 DEF HostFactory, RunGuarded
  <2>3. ASSUME NEW h, ChildExits(h) PROVE gens' = gens
    BY <2>3 DEF ChildExits, NoTransaction, vars
  <2>4. ASSUME NEW o \in Owners \ {Me}, NEW k \in Keys, OtherStep(o, k) PROVE Retires(g)
    <3>1. /\ leaf[k] # None /\ leaf[k].generation # None /\ leaf[k].runtime \notin Local
          /\ \/ Adopt(o, leaf[k], EvidenceOf(leaf[k].generation))
             \/ Release(o, leaf[k]) \/ FenceRetire(o, leaf[k]) \/ NoTransaction
             \/ /\ leaf[k].phase = "retiring" /\ ~Alive(leaf[k].generation)
                /\ Retire(o, leaf[k])
      BY <2>4 DEF OtherStep
    <3>2. leaf[k].generation \in Generations
      BY <3>1, NonceFacts
    <3>3. ~Adopt(o, leaf[k], EvidenceOf(leaf[k].generation))
      BY <1>0, <1>1, <3>2, TransactionsRetireNone
    <3>4. ~Release(o, leaf[k]) /\ ~FenceRetire(o, leaf[k]) /\ ~NoTransaction
      BY <1>2 DEF Release, FenceRetire, NoTransaction, vars
    <3>5. leaf[k].generation = g
      BY <1>0, <3>1, <3>2, <3>3, <3>4, RetireRetires
    <3> QED
      BY <3>1, <3>3, <3>4, <3>5 DEF Retires
  <2> QED
    BY <1>1, <1>2, <1>8, <2>1, <2>2, <2>3, <2>4 DEF Environment
<1>9. CASE UNCHANGED all_vars
  BY <1>2, <1>9 DEF all_vars, vars
<1> QED
  BY <1>3, <1>4, <1>5, <1>6, <1>7, <1>8, <1>9 DEF RuntimeNext

(* Who retires a nonce knows that it is over; a local one was cancelled.   *)
LEMMA RetiredOver ==
    ASSUME CleanIInv, NEW g \in Generations, gens[g] # None, Retires(g)
    PROVE  Over(g) /\ (gens[g].runtime \in Local => gens[g].runtime \in cancelled)
<1>0. RuntimeIInv /\ ClosingsAreCancelled /\ FinishingIsSettled
  BY DEF CleanIInv, CleanHolds, ClosesHold
<1>1. ASSUME NEW r \in Runtimes, closing[r] # None,
             closing[r].permanent => closing[r].confirmed,
             closing[r].permanent \/ r \in finishing,
             NEW c, c = leaf[closing[r].claim.key], c # None, c.generation = g,
             closing[r].claim = c \/ SameAuthority(closing[r].claim, c)
      PROVE  Over(g) /\ gens[g].runtime \in cancelled
  <2>1. closing[r].claim.key \in Keys
    BY <1>0, <1>1 DEF RuntimeIInv, RegistriesHold, Born, Claim
  <2>2. c.runtime = r /\ r \in finishing /\ r \in cancelled
    BY <1>0, <1>1 DEF ClosingsAreCancelled, SameAuthority
  <2>3. Settled(r)
    BY <1>0, <2>2 DEF FinishingIsSettled
  <2>4. Over(g) /\ gens[g].runtime = r
    BY <1>1, <2>1, <2>2, <2>3, NonceFacts DEF Settled
  <2> QED
    BY <2>2, <2>4
<1>2. ASSUME NEW k \in Keys, leaf[k] # None, leaf[k].generation = g,
             leaf[k].phase = "retiring", leaf[k].runtime \notin Local, ~Alive(g)
      PROVE  Over(g) /\ gens[g].runtime \notin Local
  <2>1. gens[g].key = k /\ gens[g].runtime = leaf[k].runtime
    BY <1>2, NonceFacts
  <2>2. Fenced(g)
    BY <1>2, <2>1 DEF Fenced
  <2> QED
    BY <1>2, <2>1, <2>2 DEF Over, Barred
<1> QED
  BY <1>1, <1>2 DEF Retires

LEMMA RetiredStep ==
    ASSUME CleanIInv, [RuntimeNext]_all_vars,
           NEW g \in Generations, gens'[g] # None, gens'[g].phase = "retired"
    PROVE  Over(g)' /\ (gens'[g].runtime \in Local => gens'[g].runtime \in cancelled')
<1>0. RetiredIsOver /\ LocalNonces /\ NoncesKept /\ cancelled \subseteq cancelled'
  BY NonceFacts, RuntimeLedgerStep, LedgerKeepsNonces, DeadAndCancelledStay
     DEF CleanIInv, CleanHolds, NoncesHold
<1>1. CASE gens[g] # None
  <2>1. Over(g) /\ (gens[g].runtime \in Local => gens[g].runtime \in cancelled)
    BY <1>0, <1>1, WhoRetires, RetiredOver DEF RetiredIsOver, LocalNonces
  <2>2. gens'[g].runtime = gens[g].runtime
    BY <1>0, <1>1 DEF NoncesKept
  <2> QED
    BY <1>0, <1>1, <2>1, <2>2, OverStays
<1>2. CASE gens[g] = None
  <2>1. ~NamesStay
    BY <1>2 DEF NamesStay
  <2>2. PICK h \in Generations : ReserveFresh(h)
    BY <2>1, NamesMove DEF CleanIInv
  <2> QED
    BY <1>2, <2>2, ReservedRows
<1> QED
  BY <1>1, <1>2

LEMMA RetiredIsOverStep == ASSUME CleanIInv, [RuntimeNext]_all_vars PROVE RetiredIsOver'
<1> SUFFICES ASSUME NEW g \in Generations, gens'[g] # None, gens'[g].phase = "retired"
             PROVE  Over(g)'
  BY DEF RetiredIsOver
<1> QED
  BY RetiredStep

LEMMA LocalNoncesStep == ASSUME CleanIInv, [RuntimeNext]_all_vars PROVE LocalNonces'
<1>0. /\ RuntimeIInv /\ LocalNonces /\ RetiredIsOver /\ OneLiveBirth /\ TypeOK /\ NoncesKept
  BY NonceFacts, RuntimeLedgerStep, LedgerKeepsNonces DEF CleanIInv, CleanHolds, NoncesHold
<1>1. \A g \in Generations :
          gens'[g] # None /\ gens'[g].phase = "retired" /\ gens'[g].runtime \in Local =>
              gens'[g].runtime \in cancelled'
  BY RetiredStep
<1>2. ASSUME NEW g \in Generations, NEW h \in Generations, g # h,
             gens'[g] # None, gens'[h] # None,
             gens'[g].runtime = gens'[h].runtime, gens'[g].runtime \in Local
      PROVE  Over(g)'
  <2>1. CASE gens[g] # None /\ gens[h] # None
    <3>1. Over(g)
      BY <1>0, <1>2, <2>1 DEF NoncesKept, LocalNonces
    <3> QED
      BY <2>1, <3>1, OverStays
  <2>2. CASE gens[g] = None \/ gens[h] = None
    <3>1. ~NamesStay
      BY <1>2, <2>2 DEF NamesStay
    <3>2. PICK n \in Generations : ReserveFresh(n)
      BY <1>0, <3>1, NamesMove
    <3>3. ASSUME NEW m \in Generations, m # n, gens'[m] # None, gens'[m].runtime = birth.runtime,
                 birth.runtime \in Local
          PROVE  gens[m] # None /\ Over(m) /\ birth.runtime \in cancelled
      <4>1. gens[m] # None /\ gens[m].runtime = birth.runtime
        BY <3>2, <3>3, ReservedRows
      <4>2. birth.pc = "checked"
        BY <3>2 DEF ReserveFresh
      <4>3. gens[m].key = birth.key
        BY <4>1, <4>2 DEF CleanIInv, CleanHolds, NoncesHold, OneLeafEach, SessionOf
      <4>4. leaf[birth.key] # None => /\ leaf[birth.key].phase = "retired"
                                      /\ leaf[birth.key].generation # None
        BY <3>2, ReservedRows DEF CleanIInv, CleanHolds, NoncesHold, OneLeafEach
      <4>5. gens[m].phase = "retired"
        BY <1>0, <3>2, <4>1, <4>3, <4>4, ReservedRows DEF OneLiveBirth
      <4> QED
        BY <1>0, <3>3, <4>1, <4>5 DEF RetiredIsOver, LocalNonces
    <3>4. gens[n] = None /\ gens'[n].runtime = birth.runtime
      BY <3>2, ReservedRows
    <3>5. CASE g = n
      BY <1>2, <3>2, <3>3, <3>4, <3>5, FreshIsOver
    <3>6. CASE h = n
      BY <1>2, <3>2, <3>3, <3>4, <3>6, OverStays
    <3>7. CASE g # n /\ h # n
      BY <1>2, <2>2, <3>2, <3>7, ReservedRows
    <3> QED
      BY <3>5, <3>6, <3>7
  <2> QED
    BY <2>1, <2>2
<1>3. \A g, h \in Generations :
          /\ g # h /\ gens'[g] # None /\ gens'[h] # None
          /\ gens'[g].runtime = gens'[h].runtime /\ gens'[g].runtime \in Local
          => Over(g)'
  BY <1>2
<1> QED
  BY <1>1, <1>3 DEF LocalNonces

-----------------------------------------------------------------------------
(* The lists that the shutdown samples.                                    *)

(* A local factory at work is on the list of the factories.                *)
LEMMA BornListed ==
    ASSUME CleanIInv, [RuntimeNext]_all_vars, NEW g \in Generations,
           factories[g] = 0, factories'[g] # 0, gens'[g].runtime \in Local
    PROVE  g \in pending /\ UNCHANGED locals
<1>0. RuntimeIInv /\ TypeOK /\ FactoryHolds /\ SpawnsAreRemote
  BY NonceFacts DEF CleanIInv, CleanHolds, NoncesHold
<1>1. PICK c : Builds(c)
  <2>1. factories' # factories
    OBVIOUS
  <2>2. \A h : ~ReserveFresh(h)
    BY <2>1 DEF ReserveFresh, Reserve, volatile
  <2> QED
    BY <1>0, <2>1, <2>2, RuntimeMoves DEF Moves, Idles, Consumes
<1>2. c.generation = g
  BY <1>0, <1>1 DEF Builds, TypeOK
<1>3. c \notin spawned
  <2>1. gens[g].runtime = c.runtime /\ gens' = gens
    BY <1>1, <1>2 DEF Builds, ValidateSpawn, GenerationLive
  <2> QED
    BY <1>0, <2>1 DEF SpawnsAreRemote
<1>4. RunFactory /\ c = birth.claim
  BY <1>1, <1>3 DEF Builds
<1> QED
  BY <1>0, <1>2, <1>4 DEF RunFactory, FactoryHolds

LEMMA LivingStep == ASSUME CleanIInv, [RuntimeNext]_all_vars PROVE LivingAreListed'
<1>0. /\ RuntimeIInv /\ LivingAreListed /\ FactoryHolds /\ NoncesKept /\ TypeOK
      /\ dead \subseteq dead'
  BY NonceFacts, RuntimeLedgerStep, LedgerKeepsNonces, DeadAndCancelledStay
     DEF CleanIInv, CleanHolds, NoncesHold
<1>1. ASSUME NEW g \in Generations, g \in pending \cup observed, Alive(g)
      PROVE  g \in pending' \cup observed'
  <2>1. CASE NoChildConfirm
    <3>1. pending' = pending \ {birth.claim.generation} /\ observed' = observed
      BY <2>1 DEF NoChildConfirm
    <3>2. factories[birth.claim.generation] = 0
      BY <1>0, <2>1 DEF FactoryHolds, NoChild, NoChildConfirm
    <3> QED
      BY <1>1, <3>1, <3>2 DEF Alive
  <2>2. CASE BeginLocalFactory \/ ObserveLocal
    BY <1>1, <2>2 DEF BeginLocalFactory, ObserveLocal
  <2>3. ASSUME \/ \E accepted \in BOOLEAN : FactoryCloses(accepted)
               \/ \E h \in Generations :
                     \/ \E accepted \in BOOLEAN : CloseObserved(h, accepted)
                     \/ RetireFenceLocal(h) \/ RetireDrainLocal(h)
        PROVE  UNCHANGED <<pending, observed>>
    BY <2>3, Zenon DEF FactoryCloses, CloseObserved, RequestLocalClose, RetireFenceLocal,
       RetireDrainLocal
  <2>4. ASSUME NEW h, RetireCompleteLocal(h)
        PROVE  pending' = pending \ {h} /\ observed' = observed \ {h} /\ ~Alive(h)
    BY <2>4 DEF RetireCompleteLocal
  <2> QED
    BY <1>1, <2>1, <2>2, <2>3, <2>4, LocalsWritten DEF locals
<1>2. ASSUME NEW g \in Generations, gens'[g] # None, gens'[g].runtime \in Local,
             factories'[g] > 0, g \notin dead'
      PROVE  g \in pending' \cup observed'
  <2>1. CASE factories[g] = 0
    BY <1>2, <2>1, BornListed DEF locals
  <2>2. CASE factories[g] # 0
    <3>1. gens[g] # None /\ Alive(g)
      BY <1>0, <1>2, <2>2, NonceFacts DEF Alive, TypeOK
    <3>2. gens[g].runtime \in Local
      BY <1>0, <1>2, <3>1 DEF NoncesKept
    <3> QED
      BY <1>0, <1>1, <3>1, <3>2 DEF LivingAreListed
  <2> QED
    BY <2>1, <2>2
<1> QED
  BY <1>2 DEF LivingAreListed, Alive

(* Only the shutdown itself freezes, and samples.                          *)
LEMMA ExitWritten ==
    ASSUME [RuntimeNext]_all_vars
    PROVE  UNCHANGED exit \/ (UNCHANGED locals /\ (Freeze \/ Sample))
<1>1. CASE RecoveryWorker
  BY <1>1, Zenon DEF RecoveryWorker, Authorize, RetryReserved, ReserveFresh, AuthorizeRefused,
     RegisterGate, RegisterClaim, GrantCancelled, Grant, Consume, ConsumeRefused,
     BeginLocalFactory, RunFactory, FactoryFails, NoChildBegin, NoChildConfirm, NoChildGivesUp,
     SendSpawn, AttachLocal, AttachLocalRefused, AttachRemote, AttachTransaction, ObserveLocal,
     FactoryCloses, RequestLocalClose
<1>2. CASE LedgerWorker
  BY <1>2, Zenon DEF LedgerWorker, CloseObserved, RequestLocalClose, RetireFenceLocal,
     RetireDrainLocal, RetireCompleteLocal, Finish, RefreshReads, RefreshDrops
<1>3. CASE RemoteCloser
  BY <1>3, Zenon DEF RemoteCloser, CloserStart, CloserFence, CloserRecord, CloserResumes,
     HostCloses, CloserConfirms, CloserGivesUp
<1>4. CASE HookJobs
  BY <1>4, Zenon DEF HookJobs, Admit, BeginEffects, MemoryEffect, EndEffects,
     PublicationDenied, PublicationOffers, PublicationRefused, PublicationTimeout
<1>5. CASE Ui
  BY <1>5, Zenon DEF Ui, UiClose, UiClaims, UiDrops, Freeze, Sample
<1>6. CASE Environment
  BY <1>6, Zenon DEF Environment, HostConsume, HostFactory, ChildExits, OtherStep
<1>7. CASE UNCHANGED all_vars
  BY <1>7 DEF all_vars
<1> QED
  BY <1>1, <1>2, <1>3, <1>4, <1>5, <1>6, <1>7 DEF RuntimeNext

LEMMA SampledStep == ASSUME CleanIInv, [RuntimeNext]_all_vars PROVE SampledIsEmpty'
<1>0. SampledIsEmpty /\ FactoryHolds /\ shutdown \in ShutdownPc
  BY DEF CleanIInv, CleanHolds, NoncesHold, RuntimeIInv, ExitHolds
<1>1. CASE UNCHANGED <<pending, observed, exit>>
  BY <1>0, <1>1 DEF SampledIsEmpty, exit
<1>2. CASE UNCHANGED exit
  <2>1. ASSUME pending' \subseteq pending, observed' \subseteq observed \cup pending
        PROVE  SampledIsEmpty'
    BY <1>0, <1>2, <2>1 DEF SampledIsEmpty, exit, ShutdownPc
  <2>2. CASE BeginLocalFactory
    BY <1>0, <1>2, <2>2 DEF BeginLocalFactory, SampledIsEmpty, exit
  <2>3. CASE NoChildConfirm
    BY <2>1, <2>3 DEF NoChildConfirm
  <2>4. CASE ObserveLocal
    <3>1. birth.claim.generation \in pending
      BY <1>0, <2>4 DEF ObserveLocal, FactoryHolds, Built
    <3> QED
      BY <2>1, <2>4, <3>1 DEF ObserveLocal
  <2>5. ASSUME \/ \E accepted \in BOOLEAN : FactoryCloses(accepted)
               \/ \E g \in Generations :
                     \/ \E accepted \in BOOLEAN : CloseObserved(g, accepted)
                     \/ RetireFenceLocal(g) \/ RetireDrainLocal(g) \/ RetireCompleteLocal(g)
        PROVE  pending' \subseteq pending /\ observed' \subseteq observed
    BY <2>5, Zenon DEF FactoryCloses, CloseObserved, RequestLocalClose, RetireFenceLocal,
       RetireDrainLocal, RetireCompleteLocal
  <2> QED
    BY <1>1, <1>2, <2>1, <2>2, <2>3, <2>4, <2>5, LocalsWritten DEF locals
<1>3. CASE UNCHANGED locals /\ Freeze
  BY <1>3 DEF Freeze, SampledIsEmpty
<1>4. CASE UNCHANGED locals /\ Sample
  <2>1. /\ pending' = pending /\ observed' = observed /\ admission' = admission
        /\ shutdown \in {"frozen", "no_factories", "no_births", "no_handles", "no_queued"}
        /\ shutdown' = IF SampleIsEmpty(shutdown) THEN AfterSample[shutdown] ELSE "frozen"
    BY <1>4 DEF Sample, locals, AfterSample
  <2>2. CASE ~SampleIsEmpty(shutdown)
    BY <1>0, <2>1, <2>2 DEF SampledIsEmpty
  <2>3. CASE shutdown = "frozen" /\ SampleIsEmpty(shutdown)
    <3>1. pending = {} /\ shutdown' = "no_factories"
      BY <2>1, <2>3 DEF SampleIsEmpty, AfterSample
    <3> QED
      BY <1>0, <2>1, <2>3, <3>1 DEF SampledIsEmpty
  <2>4. CASE shutdown = "no_factories" /\ SampleIsEmpty(shutdown)
    <3>1. shutdown' = "no_births"
      BY <2>1, <2>4 DEF AfterSample
    <3> QED
      BY <1>0, <2>1, <2>4, <3>1 DEF SampledIsEmpty
  <2>5. CASE shutdown = "no_births" /\ SampleIsEmpty(shutdown)
    <3>1. observed = {} /\ shutdown' = "no_handles"
      BY <2>1, <2>5 DEF SampleIsEmpty, AfterSample
    <3> QED
      BY <1>0, <2>1, <2>5, <3>1 DEF SampledIsEmpty
  <2>6. CASE shutdown \in {"no_handles", "no_queued"} /\ SampleIsEmpty(shutdown)
    <3>1. shutdown' \in {"no_queued", "clean"}
      BY <2>1, <2>6 DEF AfterSample
    <3> QED
      BY <1>0, <2>1, <2>6, <3>1 DEF SampledIsEmpty
  <2> QED
    BY <2>1, <2>2, <2>3, <2>4, <2>5, <2>6
<1> QED
  BY <1>2, <1>3, <1>4, ExitWritten

-----------------------------------------------------------------------------
LEMMA CleanStarts == ASSUME RuntimeInit PROVE CleanIInv
<1>1. RuntimeIInv
  BY RuntimeStarts
<1>2. /\ \A k \in Keys : leaf[k] = None
      /\ \A g \in Generations : gens[g] = None /\ factories[g] = 0 /\ local[g] = "none"
      /\ \A r \in Runtimes : closing[r] = None
      /\ birth.pc = "idle" /\ closer.pc = "idle" /\ spawned = {} /\ finishing = {}
      /\ observed = {} /\ shutdown = "running"
  BY DEF RuntimeInit, Init, IdleBirth, IdleCloser
<1>3. NoncesHold
  BY <1>2 DEF NoncesHold, OneLeafEach, BirthIsCurrent, FreshIsUnsent, FactoryHolds, InFactory,
     Built, NoChild, SpawnsAreRemote, LocalChildren, LocalNonces, RetiredIsOver
<1>4. ClosesHold
  BY <1>2 DEF ClosesHold, ClosingsAreCancelled, FinishingIsSettled, KilledIsSettled
<1>5. LivingAreListed /\ SampledIsEmpty
  BY <1>2 DEF LivingAreListed, SampledIsEmpty
<1> QED
  BY <1>1, <1>3, <1>4, <1>5 DEF CleanIInv, CleanHolds

LEMMA CleanStep == CleanIInv /\ [RuntimeNext]_all_vars => CleanIInv'
<1> SUFFICES ASSUME CleanIInv, [RuntimeNext]_all_vars PROVE CleanIInv'
  OBVIOUS
<1>1. RuntimeIInv'
  BY RuntimeIInvStep DEF CleanIInv
<1>2. NoncesHold'
  BY OneLeafStep, BirthIsCurrentStep, FreshStep, FactoryHoldsStep, SpawnsStep,
     LocalChildrenStep, LocalNoncesStep, RetiredIsOverStep DEF NoncesHold
<1>3. ClosesHold'
  BY ClosingsStep, FinishingStep, KilledStep DEF ClosesHold
<1> QED
  BY <1>1, <1>2, <1>3, LivingStep, SampledStep DEF CleanIInv, CleanHolds

(* A leaf is freed, and the app ends, only once the children are gone:     *)
(* the tombstone, the finalisation and the shutdown barrier of             *)
(* hook_runtime.rs, for every number of terminals, nonces and endpoints.   *)
THEOREM RuntimeClean == RuntimeSpec => []RuntimeIsClean
<1>1. ASSUME CleanIInv PROVE RuntimeIsClean
  <2>1. RetiredIsDead
    BY <1>1 DEF CleanIInv, CleanHolds, NoncesHold, RetiredIsOver, Over, RetiredIsDead
  <2>2. ShutdownIsClean
    BY <1>1 DEF CleanIInv, CleanHolds, LivingAreListed, SampledIsEmpty, ShutdownIsClean
  <2> QED
    BY <2>1, <2>2 DEF RuntimeIsClean
<1> QED
  BY <1>1, CleanStarts, CleanStep, PTL DEF RuntimeSpec
=============================================================================
