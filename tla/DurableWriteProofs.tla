------------------------- MODULE DurableWriteProofs -------------------------
(***************************************************************************)
(* DurableWrite implements AtomicFile, for every set of values and every   *)
(* size of the ring, until something else ruins the file; and from then on *)
(* the ring of backups still holds a good value.                           *)
(***************************************************************************)
EXTENDS DurableWrite, FiniteSetTheorems, WellFoundedInduction, TLAPS

Ring == 0..(Slots - 1)

\* A directory a reader is happy with: the file is complete and its data
\* durable, and there is no backup without a file.
Sane(d) ==
    /\ d.main # None => d.main.data \in Values /\ d.main.synced
    /\ d.main = None => \A s \in Ring : d.bak[s] = None

WriterType == writer \in [pc: Steps, value: Values \cup {None}, slot: Ring]

\* Why a reader never finds anything but a complete value: every directory that
\* may be revealed is sane, a rotation only runs beside a file, and the file
\* that is renamed holds the whole value and is synced.
IInv ==
    /\ dir \in Dir /\ possible \subseteq Dir /\ tmp \in File /\ WriterType
    /\ dir \in possible
    /\ \A d \in possible : Sane(d)
    /\ writer.pc # "idle" => writer.value \in Values
    /\ writer.pc \in {"shift", "copying"} => dir.main # None
    /\ writer.pc = "rename" => tmp = Durable(writer.value)
    /\ writer.pc \in {"syncdir", "report"} => dir.main # None /\ dir.main.data = writer.value

(* A file is there or it is not.                                           *)
LEMMA Files ==
    /\ None \in File
    /\ \A v \in Values \cup {Torn}, b \in BOOLEAN :
          /\ [data |-> v, synced |-> b] \in File
          /\ [data |-> v, synced |-> b] # None
BY DurableAssumption DEF File

(* A sane directory is read without its backups: load_first_valid returns  *)
(* the file's own content.                                                 *)
LEMMA SaneLoad ==
    ASSUME NEW d \in Dir, Sane(d)
    PROVE  Load(d) = IF d.main = None THEN None ELSE d.main.data
<1>1. CASE d.main = None
  <2>1. \A s \in Ring : ~Valid(d.bak[s])
    BY <1>1 DEF Sane, Valid
  <2>2. {s \in Ring : Valid(d.bak[s])} = {}
    BY <2>1
  <2> QED
    BY <1>1, <2>2 DEF Load, Valid, Ring
<1>2. CASE d.main # None
  BY <1>2 DEF Sane, Load, Valid
<1> QED
  BY <1>1, <1>2

(* The effect of a directory operation on what may be revealed.            *)
LEMMA ChangesInv ==
    ASSUME IInv, NEW d \in Dir, Sane(d), Changes(d)
    PROVE  /\ dir' = d /\ dir' \in possible' /\ possible' \subseteq Dir
           /\ \A e \in possible' : Sane(e)
BY DEF IInv, Changes

(* A new backup ring beside an untouched file is as sane as before.        *)
LEMMA RingInv ==
    ASSUME IInv, NEW b \in [Ring -> File], dir.main # None
    PROVE  WithRing(b) \in Dir /\ Sane(WithRing(b)) /\ WithRing(b).main = dir.main
BY DEF IInv, Dir, Sane, Ring, WithRing

-----------------------------------------------------------------------------
(* The invariant.                                                          *)

LEMMA InvInit == Init => IInv
<1> SUFFICES ASSUME Init PROVE IInv
  OBVIOUS
<1>1. 0 \in Ring
  BY DurableAssumption DEF Ring
<1>2. PICK m \in {None} \cup {Durable(v) : v \in Values},
           b \in {None} \cup {Durable(v) : v \in Values} :
        dir = [main |-> m, bak |-> [s \in Ring |-> IF s = 0 THEN b ELSE None]]
  BY DEF Init, Ring
<1>3. m \in File /\ b \in File
  <2>1. \A f \in {None} \cup {Durable(v) : v \in Values} : f \in File
    BY Files DEF Durable
  <2> QED
    BY <2>1
<1>4. dir \in Dir
  BY <1>2, <1>3 DEF Dir, Ring, File
<1>5. Sane(dir)
  BY <1>1, <1>2 DEF Init, Sane, Durable
<1> QED
  BY <1>1, <1>4, <1>5 DEF Init, IInv, Idle, File, Steps, WriterType

(* Each system call, crash and loss of power preserves it.                 *)
LEMMA InvStep ==
    ASSUME IInv, damage \in Nat, damage' = 0, [Next]_vars
    PROVE  IInv'
<1> USE DEF WriterType
<1>0. 0 \in Ring /\ Slots - 1 \in Ring
  BY DurableAssumption DEF Ring
<1>1. ASSUME NEW v \in Values, NEW ring \in BOOLEAN, Begin(v, ring) PROVE IInv'
  <2>1. writer' \in [pc: Steps, value: Values \cup {None}, slot: Ring]
    BY <1>0, <1>1 DEF Begin, Steps
  <2>2. writer'.pc \in {"report", "shift", "open"} /\ writer'.value = v
    BY <1>1 DEF Begin
  <2>3. writer'.pc = "report" => dir.main # None /\ dir.main.data = v
    BY <1>1 DEF Begin, Unchanged
  <2>4. writer'.pc = "shift" => dir.main # None
    BY <1>1 DEF Begin, Rotates
  <2>5. UNCHANGED <<dir, tmp, possible>>
    BY <1>1 DEF Begin
  <2> QED
    BY <2>1, <2>2, <2>3, <2>4, <2>5 DEF IInv, Sane
<1>2. ASSUME NEW ok \in BOOLEAN, Shift(ok) PROVE IInv'
  <2>1. writer' = [pc |-> "shift", value |-> writer.value, slot |-> writer.slot - 1] /\ writer.pc = "shift"
        /\ writer.slot \in Ring \ {0} /\ UNCHANGED tmp
    BY <1>2 DEF Shift, IInv, Ring
  <2>2. writer' \in [pc: Steps, value: Values \cup {None}, slot: Ring] /\ writer'.pc = "shift"
        /\ writer'.value = writer.value /\ dir.main # None
    BY <2>1, DurableAssumption DEF IInv, Ring
  <2>3. CASE UNCHANGED <<dir, possible>>
    BY <2>1, <2>2, <2>3 DEF IInv, Sane
  <2>4. CASE Changes(WithRing([dir.bak EXCEPT ![writer.slot] = dir.bak[writer.slot - 1],
                                              ![writer.slot - 1] = None]))
    <3> DEFINE b == [dir.bak EXCEPT ![writer.slot] = dir.bak[writer.slot - 1],
                                    ![writer.slot - 1] = None]
    <3>1. writer.slot - 1 \in Ring
      BY <2>1, DurableAssumption DEF Ring
    <3>2. b \in [Ring -> File]
      BY <2>1, <3>1 DEF IInv, Dir, Ring, File
    <3>4. Changes(WithRing(b))
      BY <2>4
    <3> HIDE DEF b
    <3>5. /\ dir' = WithRing(b) /\ dir' \in possible' /\ possible' \subseteq Dir
          /\ \A e \in possible' : Sane(e)
      BY <2>2, <3>2, <3>4, RingInv, ChangesInv
    <3>6. dir'.main = dir.main /\ dir' \in Dir
      BY <2>2, <3>2, <3>5, RingInv
    <3> QED
      BY <2>1, <2>2, <3>5, <3>6 DEF IInv, Sane
  <2> QED
    BY <1>2, <2>3, <2>4 DEF Shift
<1>3. ASSUME NEW ok \in BOOLEAN, CopyOpen(ok) \/ CopyFill(ok) PROVE IInv'
  <2>1. writer' \in [pc: Steps, value: Values \cup {None}, slot: Ring]
        /\ writer'.pc \in {"copying", "open"} /\ writer'.value = writer.value /\ UNCHANGED tmp
        /\ writer.pc \in {"shift", "copying"} /\ dir.main # None /\ writer.value \in Values
    BY <1>3 DEF CopyOpen, CopyFill, IInv, Go, Steps
  <2>2. CASE UNCHANGED <<dir, possible>>
    BY <2>1, <2>2 DEF IInv, Sane
  <2>3. ASSUME NEW f \in File, Changes(WithRing([dir.bak EXCEPT ![0] = f])) PROVE IInv'
    <3> DEFINE b == [dir.bak EXCEPT ![0] = f]
    <3>1. b \in [Ring -> File]
      BY <1>0, <2>3 DEF IInv, Dir, Ring
    <3>3. Changes(WithRing(b))
      BY <2>3
    <3> HIDE DEF b
    <3>4. /\ dir' = WithRing(b) /\ dir' \in possible' /\ possible' \subseteq Dir
          /\ \A e \in possible' : Sane(e)
      BY <2>1, <3>1, <3>3, RingInv, ChangesInv
    <3>5. dir'.main = dir.main /\ dir' \in Dir
      BY <2>1, <3>1, <3>4, RingInv
    <3> QED
      BY <2>1, <3>4, <3>5 DEF IInv, Sane
  <2>4. [data |-> Torn, synced |-> FALSE] \in File
    BY DEF File
  <2>5. [data |-> dir.main.data, synced |-> FALSE] \in File
    BY <2>1 DEF IInv, Sane, File
  <2> QED
    BY <1>3, <2>2, <2>3, <2>4, <2>5 DEF CopyOpen, CopyFill
<1>4. ASSUME NEW ok \in BOOLEAN, Open(ok) \/ Write(ok) \/ SyncData(ok) PROVE IInv'
  <2>1. UNCHANGED <<dir, possible>>
    BY <1>4 DEF Open, Write, SyncData, TmpStep
  <2>2. CASE writer' = Idle /\ tmp' = None
    BY <2>1, <2>2, <1>0 DEF IInv, Idle, Steps, File, Sane
  <2>3. CASE Go("write") /\ tmp' = [data |-> Torn, synced |-> FALSE] /\ writer.pc = "open"
    BY <2>1, <2>3 DEF IInv, Go, Steps, File, Sane
  <2>4. CASE Go("sync") /\ tmp' = [data |-> writer.value, synced |-> FALSE] /\ writer.pc = "write"
    BY <2>1, <2>4 DEF IInv, Go, Steps, File, Sane
  <2>5. CASE Go("rename") /\ tmp' = [data |-> writer.value, synced |-> TRUE] /\ writer.pc = "sync"
    BY <2>1, <2>5 DEF IInv, Go, Steps, File, Sane, Durable
  <2> QED
    BY <1>4, <2>2, <2>3, <2>4, <2>5 DEF Open, Write, SyncData, TmpStep
<1>5. ASSUME NEW ok \in BOOLEAN, Rename(ok) PROVE IInv'
  <2>1. CASE ok
    <3> DEFINE d == [main |-> tmp, bak |-> dir.bak]
    <3>1. tmp = [data |-> writer.value, synced |-> TRUE] /\ writer.value \in Values
          /\ tmp \in File /\ tmp # None
      BY <1>5, Files DEF Rename, IInv, Durable
    <3>2. d \in Dir /\ d.main = tmp
      BY <3>1 DEF IInv, Dir
    <3>3. Sane(d)
      BY <3>1, <3>2 DEF Sane
    <3>4. Changes(d) /\ Go("syncdir") /\ tmp' = None
      BY <1>5, <2>1 DEF Rename
    <3>5. dir' = d /\ dir' \in possible' /\ possible' \subseteq Dir /\ \A e \in possible' : Sane(e)
      BY <3>2, <3>3, <3>4, ChangesInv
    <3>6. writer' \in [pc: Steps, value: Values \cup {None}, slot: Ring]
          /\ writer'.pc = "syncdir" /\ writer'.value = writer.value
      BY <3>4 DEF Go, IInv, Steps
    <3> QED
      BY <3>1, <3>2, <3>4, <3>5, <3>6 DEF IInv, Sane, File
  <2>2. CASE ~ok
    BY <1>0, <1>5, <2>2 DEF Rename, IInv, Idle, Steps, File, Sane
  <2> QED
    BY <2>1, <2>2
<1>6. ASSUME NEW ok \in BOOLEAN, SyncDirectory(ok) PROVE IInv'
  BY <1>6 DEF SyncDirectory, IInv, Go, Steps, Sane
<1>7. CASE Finish \/ Crash
  BY <1>0, <1>7 DEF Finish, Crash, IInv, Idle, Steps, File, Sane
<1>8. ASSUME NEW d \in possible, NEW lost \in BOOLEAN, PowerLoss(d, lost) PROVE IInv'
  <2> DEFINE after == [main |-> After(d.main, lost), bak |-> [s \in Ring |-> After(d.bak[s], lost)]]
  <2>1. dir' = after /\ possible' = {after} /\ writer' = Idle /\ tmp' = None
    BY <1>8 DEF PowerLoss, Ring
  <2>2. d \in Dir /\ Sane(d)
    BY DEF IInv
  <2>3. \A f \in File : After(f, lost) \in File /\ (After(f, lost) = None <=> f = None)
    BY DurableAssumption, Files DEF After, File, Durable
  <2>4. d.main \in File /\ d.bak \in [Ring -> File]
    BY <2>2 DEF Dir, Ring
  <2>5. after \in Dir
    BY <2>3, <2>4 DEF Dir, Ring
  <2>6. Sane(after)
    BY <2>2, <2>3, <2>4 DEF Sane, After, Durable
  <2> HIDE DEF after
  <2> QED
    BY <1>0, <2>1, <2>5, <2>6 DEF IInv, Idle, Steps, File
<1>9. ASSUME NEW file \in {None, Durable(Torn)}, Damage(file) PROVE IInv'
  BY <1>9 DEF Damage
<1>10. CASE Age \/ UNCHANGED vars
  BY <1>10 DEF Age, vars, IInv, Sane
<1> QED
  BY <1>1, <1>2, <1>3, <1>4, <1>5, <1>6, <1>7, <1>8, <1>9, <1>10 DEF Next
-----------------------------------------------------------------------------
(* The refinement.                                                         *)

(* Damage is never undone.                                                 *)
LEMMA DamageStays ==
    ASSUME damage \in Nat, [Next]_vars
    PROVE  damage' \in Nat /\ (damage' = 0 => damage = 0)
BY DEF Next, vars, Begin, Shift, CopyOpen, CopyFill, Open, Write, SyncData, TmpStep, Rename,
       SyncDirectory, Finish, Age, Crash, PowerLoss, Damage

(* A call that leaves the file alone is invisible to a reader, now and     *)
(* after a loss of power.                                                  *)
LEMMA SameFile ==
    ASSUME IInv, IInv', NEW d, Changes(d), d.main = dir.main, UNCHANGED acked
    PROVE  UNCHANGED Atomic!contents
<1>1. d \in Dir /\ Sane(d) /\ dir' = d
  BY DEF IInv, Changes
<1>2. dir \in Dir /\ Sane(dir) /\ dir \in possible
  BY DEF IInv
<1>3. Load(d) = Load(dir)
  BY <1>1, <1>2, SaneLoad
<1>4. Stored' = Stored
  BY <1>1, <1>3 DEF Stored
<1> QED
  BY <1>2, <1>3, <1>4 DEF Changes, Safe, Atomic!contents

(* Every step of the implementation is a step of the atomic file or none.  *)
LEMMA RefineStep ==
    ASSUME IInv, IInv', damage \in Nat, damage' = 0, [Next]_vars
    PROVE  [Atomic!Serve]_(Atomic!contents)
<1>0. ASSUME UNCHANGED <<dir, possible, acked>> PROVE UNCHANGED Atomic!contents
  BY <1>0 DEF Stored, Safe, Atomic!contents
<1>1. ASSUME NEW v \in Values, NEW ring \in BOOLEAN, Begin(v, ring)
      PROVE UNCHANGED Atomic!contents
  BY <1>0, <1>1 DEF Begin
<1>2. ASSUME NEW ok \in BOOLEAN, Shift(ok)
      PROVE UNCHANGED Atomic!contents
  <2>1. ASSUME NEW b, Changes(WithRing(b)) PROVE UNCHANGED Atomic!contents
    BY <1>2, <2>1, SameFile DEF WithRing, Shift
  <2> QED
    BY <1>0, <1>2, <2>1 DEF Shift
<1>3. ASSUME NEW ok \in BOOLEAN, CopyOpen(ok) \/ CopyFill(ok)
      PROVE UNCHANGED Atomic!contents
  <2>1. ASSUME NEW b, Changes(WithRing(b)) PROVE UNCHANGED Atomic!contents
    BY <1>3, <2>1, SameFile DEF WithRing, CopyOpen, CopyFill
  <2> QED
    BY <1>0, <1>3, <2>1 DEF CopyOpen, CopyFill
<1>4. ASSUME NEW ok \in BOOLEAN, Open(ok) \/ Write(ok) \/ SyncData(ok)
      PROVE UNCHANGED Atomic!contents
  BY <1>0, <1>4 DEF Open, Write, SyncData, TmpStep
<1>5. ASSUME NEW ok \in BOOLEAN, Rename(ok)
      PROVE Atomic!Serve \/ UNCHANGED Atomic!contents
  <2>1. CASE ok
    <3>1. /\ writer.value \in Values /\ dir'.main = tmp
          /\ tmp = [data |-> writer.value, synced |-> TRUE] /\ UNCHANGED acked
          /\ Changes(dir')
      BY <1>5, <2>1 DEF Rename, IInv, Durable, Changes
    <3>2. dir' \in Dir /\ Sane(dir') /\ tmp # None
      BY <3>1, Files DEF IInv
    <3>3. Load(dir') = writer.value
      BY <3>1, <3>2, SaneLoad
    <3>4. Stored' = writer.value
      BY <3>3 DEF Stored
    <3>5. Safe' = Safe \cup {writer.value}
      BY <3>1, <3>3 DEF Safe, Changes
    <3>6. Atomic!Replace(writer.value)
      BY <3>1, <3>4, <3>5 DEF Atomic!Replace
    <3> QED
      BY <3>1, <3>6 DEF Atomic!Serve
  <2>2. CASE ~ok
    BY <1>0, <1>5, <2>2 DEF Rename
  <2> QED
    BY <2>1, <2>2
<1>6. ASSUME NEW ok \in BOOLEAN, SyncDirectory(ok)
      PROVE Atomic!Sync \/ UNCHANGED Atomic!contents
  <2>1. CASE ok
    BY <1>6, <2>1 DEF SyncDirectory, Atomic!Sync, Stored, Safe
  <2>2. CASE ~ok
    BY <1>0, <1>6, <2>2 DEF SyncDirectory
  <2> QED
    BY <2>1, <2>2
<1>7. CASE Finish
  <2>1. dir \in Dir /\ Sane(dir) /\ dir.main # None /\ dir.main.data = writer.value
        /\ writer.value \in Values
    BY <1>7 DEF IInv, Finish
  <2>2. Stored = writer.value
    BY <2>1, SaneLoad DEF Stored
  <2>3. UNCHANGED <<Stored, Safe>>
    BY <1>7 DEF Finish, Stored, Safe
  <2>4. Atomic!Report
    BY <1>7, <2>1, <2>2, <2>3 DEF Finish, Atomic!Report
  <2> QED
    BY <2>4 DEF Atomic!Serve
<1>8. ASSUME NEW d \in possible, NEW lost \in BOOLEAN, PowerLoss(d, lost)
      PROVE Atomic!LosePower
  <2>1. d \in Dir /\ Sane(d) /\ dir' \in Dir /\ Sane(dir')
    BY DEF IInv
  <2>2. dir'.main = After(d.main, lost) /\ possible' = {dir'} /\ acked' = None
    BY <1>8 DEF PowerLoss
  <2>3. d.main # None => After(d.main, lost) = [data |-> d.main.data, synced |-> TRUE]
                         /\ d.main.data \in Values
    BY <2>1 DEF Sane, After, Durable
  <2>4. d.main = None => After(d.main, lost) = None
    BY DEF After
  <2>5. Load(dir') = Load(d)
    <3>1. Load(d) = IF d.main = None THEN None ELSE d.main.data
      BY <2>1, SaneLoad
    <3>2. Load(dir') = IF dir'.main = None THEN None ELSE dir'.main.data
      BY <2>1, SaneLoad
    <3>3. CASE d.main = None
      BY <2>2, <2>4, <3>1, <3>2, <3>3
    <3>4. CASE d.main # None
      <4>1. d.main.data \in Values \cup {Torn}
        BY <2>3, <3>4
      <4>2. [data |-> d.main.data, synced |-> TRUE] # None
        BY <4>1, Files
      <4>3. dir'.main = [data |-> d.main.data, synced |-> TRUE]
        BY <2>2, <2>3, <3>4
      <4> QED
        BY <3>1, <3>2, <3>4, <4>2, <4>3
    <3> QED
      BY <3>3, <3>4
  <2>6. Stored' \in Safe /\ Safe' = {Stored'}
    BY <2>2, <2>5 DEF Stored, Safe
  <2> QED
    BY <2>2, <2>6 DEF Atomic!LosePower
<1>9. ASSUME NEW file \in {None, Durable(Torn)}, Damage(file) PROVE FALSE
  BY <1>9 DEF Damage
<1>10. CASE Age \/ Crash \/ UNCHANGED vars
  BY <1>0, <1>10 DEF Age, Crash, vars
<1> QED
  BY <1>1, <1>2, <1>3, <1>4, <1>5, <1>6, <1>7, <1>8, <1>9, <1>10 DEF Next, Atomic!Serve

(* write_durable and write_atomic give an atomic file: whatever system     *)
(* call a crash or a loss of power follows, a reader finds one complete    *)
(* value and none older than the last one that was synced.                 *)
THEOREM AtomicFileImplemented == Spec => IsAtomicFile
<1> DEFINE Guarded == damage \in Nat /\ (damage = 0 => IInv)
<1>1. Init => Guarded
  BY InvInit DEF Init
<1>2. Guarded /\ [Next]_vars => Guarded'
  BY InvStep, DamageStays
<1>3. Init => Atomic!FileInit
  <2> SUFFICES ASSUME Init PROVE Atomic!FileInit
    OBVIOUS
  <2>1. dir \in Dir /\ Sane(dir)
    BY InvInit DEF IInv
  <2>2. Stored \in Values \cup {None}
    BY <2>1, SaneLoad DEF Stored, Sane
  <2>3. Safe = {Stored}
    BY DEF Init, Safe, Stored
  <2> QED
    BY <2>2, <2>3 DEF Init, Atomic!FileInit
<1>4. Guarded /\ Guarded' /\ [Next]_vars => [Atomic!FileNext]_(Atomic!fileVars)
  <2> SUFFICES ASSUME Guarded, Guarded', [Next]_vars
               PROVE  [Atomic!FileNext]_(Atomic!fileVars)
    OBVIOUS
  <2>1. CASE damage' = 0
    <3>1. damage = 0
      BY <2>1, DamageStays
    <3>2. [Atomic!Serve]_(Atomic!contents)
      BY <2>1, <3>1, RefineStep
    <3>3. UNCHANGED (damage > 0)
      BY <2>1, <3>1
    <3> QED
      BY <3>2, <3>3 DEF Atomic!FileNext, Atomic!fileVars
  <2>2. CASE damage' # 0
    BY <2>2 DEF Atomic!FileNext
  <2> QED
    BY <2>1, <2>2
<1> QED
  BY <1>1, <1>2, <1>3, <1>4, PTL DEF Spec, IsAtomicFile, Atomic!FileSpec
-----------------------------------------------------------------------------
(* The backups of a ruined file.                                           *)

\* Where the newest good backup may be: not above the slot spoiled, and while
\* the ring is being moved either still below the slot that is next, with a
\* move to come, or already above it.
Kept(s) ==
    CASE writer.pc = "shift" -> (s < writer.slot /\ s < spoiled) \/ (s > writer.slot /\ s <= spoiled)
      [] writer.pc = "copying" -> 0 < s /\ s <= spoiled
      [] OTHER -> s <= spoiled

BackupIsKept ==
    damage > 0 /\ spoiled < Slots /\ ~Valid(dir.main) =>
        \E s \in Ring : Valid(dir.bak[s]) /\ Kept(s)

\* The file is only ever replaced by a complete one.
WriterIsWhole ==
    /\ writer.pc # "idle" => writer.value \in Values
    /\ writer.pc \in {"shift", "copying"} => dir.main # None
    /\ writer.pc = "rename" => tmp = Durable(writer.value)

RInv == TypeOK /\ WriterIsWhole /\ BackupIsKept

(* A set of slots that is not empty has a smallest one: the sets 0..s are  *)
(* well-founded by inclusion.                                              *)
LEMMA Smallest ==
    ASSUME NEW n \in Nat, NEW S \in SUBSET (0..n), S # {}
    PROVE  \E s \in S : \A t \in S : s <= t
<1> DEFINE Below == {0..s : s \in S}
<1>1. IsFiniteSet(0..n)
  BY FS_Interval
<1>2. IsWellFoundedOn(StrictSubsetOrdering(0..n), SUBSET (0..n))
  BY <1>1, FS_StrictSubsetOrderingWellFounded, FS_FiniteSubsetsOfFinite
<1>3. \A s \in S : 0..s \in SUBSET (0..n)
  OBVIOUS
<1>4. Below \subseteq SUBSET (0..n) /\ Below # {}
  BY <1>3
<1>5. PICK b \in Below : \A c \in Below : ~(<<c, b>> \in StrictSubsetOrdering(0..n))
  BY <1>2, <1>4, WFMin
<1>6. PICK s \in S : b = 0..s
  OBVIOUS
<1> QED
  <2> SUFFICES ASSUME NEW t \in S, t < s
               PROVE  FALSE
    BY <1>6
  <2>1. 0..t \subseteq 0..s /\ s \in 0..s /\ s \notin 0..t
    OBVIOUS
  <2>2. 0..t \in Below /\ 0..t # 0..s
    BY <2>1
  <2>3. <<0..t, 0..s>> \in (SUBSET (0..n)) \X (SUBSET (0..n))
    BY <1>3
  <2>4. <<0..t, b>> \in StrictSubsetOrdering(0..n)
    BY <1>6, <2>1, <2>2, <2>3 DEF StrictSubsetOrdering
  <2> QED
    BY <1>5, <2>2, <2>4

(* The newest good backup of a ring that has one.                          *)
LEMMA NewestGood ==
    ASSUME NEW d \in Dir, NEW r \in Ring, Valid(d.bak[r])
    PROVE  LET good == {s \in Ring : Valid(d.bak[s])}
               newest == CHOOSE s \in good : \A t \in good : s <= t
           IN  newest \in Ring /\ Valid(d.bak[newest])
<1> DEFINE good == {s \in Ring : Valid(d.bak[s])}
<1>1. good \in SUBSET (0..(Slots - 1)) /\ good # {} /\ Slots - 1 \in Nat
  BY DurableAssumption DEF Ring
<1>2. \E s \in good : \A t \in good : s <= t
  BY <1>1, Smallest
<1> QED
  BY <1>2

(* load_first_valid finds a value when the file or a backup has one.       *)
LEMMA GoodLoad ==
    ASSUME NEW d \in Dir, Valid(d.main) \/ \E s \in Ring : Valid(d.bak[s])
    PROVE  Load(d) \in Values
<1>1. CASE Valid(d.main)
  BY <1>1 DEF Load, Valid
<1>2. CASE ~Valid(d.main)
  <2>1. PICK r \in Ring : Valid(d.bak[r])
    BY <1>2
  <2>2. {s \in Ring : Valid(d.bak[s])} # {}
    BY <2>1
  <2> QED
    BY <1>2, <2>1, <2>2, NewestGood DEF Load, Valid, Ring
<1> QED
  BY <1>1, <1>2

(* A ring with one slot replaced is a ring.                                *)
LEMMA RingOfFiles ==
    ASSUME TypeOK, NEW b \in [Ring -> File]
    PROVE  WithRing(b) \in Dir
BY DEF TypeOK, Dir, WithRing, Ring

(* Every step keeps the types.                                             *)
LEMMA TypeStep ==
    ASSUME TypeOK, WriterIsWhole, [Next]_vars
    PROVE  TypeOK'
<1>0. /\ 0 \in Ring /\ Slots - 1 \in Ring /\ Slots \in Nat \ {0} /\ MaxDamage \in Nat
      /\ NoPromise \in 0..Slots
  BY DurableAssumption DEF Ring, NoPromise
<1>a. Idle \in [pc: Steps, value: Values \cup {None}, slot: 0..(Slots - 1)]
  BY <1>0 DEF Idle, Steps, Ring
<1>b. \A d \in Dir : d.main \in File /\ d.bak \in [Ring -> File]
  BY DEF Dir, Ring
<1>1. ASSUME NEW v \in Values, NEW ring \in BOOLEAN, Begin(v, ring) PROVE TypeOK'
  <2>1. writer' \in [pc: Steps, value: Values \cup {None}, slot: 0..(Slots - 1)]
    BY <1>0, <1>1 DEF Begin, Steps, Ring
  <2>2. spoiled' \in 0..Slots
    BY <1>0, <1>1 DEF Begin, TypeOK
  <2> QED
    BY <1>1, <2>1, <2>2 DEF Begin, TypeOK
<1>2. ASSUME NEW ok \in BOOLEAN, Shift(ok) PROVE TypeOK'
  <2>1. writer.slot \in Ring /\ writer.slot - 1 \in Ring /\ writer.slot # 0
    BY <1>0, <1>2 DEF Shift, TypeOK, Ring
  <2>2. writer' \in [pc: Steps, value: Values \cup {None}, slot: 0..(Slots - 1)]
    BY <1>2, <2>1 DEF Shift, TypeOK, Steps, Ring
  <2>3. dir' \in Dir /\ possible' \subseteq Dir
    <3>1. CASE UNCHANGED <<dir, possible>>
      BY <3>1 DEF TypeOK
    <3>2. CASE Changes(WithRing([dir.bak EXCEPT ![writer.slot] = dir.bak[writer.slot - 1],
                                                ![writer.slot - 1] = None]))
      <4>1. [dir.bak EXCEPT ![writer.slot] = dir.bak[writer.slot - 1],
                            ![writer.slot - 1] = None] \in [Ring -> File]
        BY <1>b, <2>1, Files DEF TypeOK
      <4> QED
        BY <3>2, <4>1, RingOfFiles DEF Changes, TypeOK
    <3> QED
      BY <1>2, <3>1, <3>2 DEF Shift
  <2> QED
    BY <1>0, <1>2, <2>2, <2>3 DEF Shift, TypeOK
<1>3. ASSUME NEW ok \in BOOLEAN, CopyOpen(ok) \/ CopyFill(ok) PROVE TypeOK'
  <2>1. writer' \in [pc: Steps, value: Values \cup {None}, slot: 0..(Slots - 1)]
    BY <1>3 DEF CopyOpen, CopyFill, Go, Steps, TypeOK
  <2>2. dir' \in Dir /\ possible' \subseteq Dir
    <3>1. ASSUME NEW f \in File, Changes(WithRing([dir.bak EXCEPT ![0] = f]))
          PROVE  dir' \in Dir /\ possible' \subseteq Dir
      <4>1. [dir.bak EXCEPT ![0] = f] \in [Ring -> File]
        BY <1>0, <1>b, <3>1 DEF TypeOK
      <4> QED
        BY <3>1, <4>1, RingOfFiles DEF Changes, TypeOK
    <3>2. [data |-> Torn, synced |-> FALSE] \in File
      BY Files
    <3>3. writer.pc = "copying" => [data |-> dir.main.data, synced |-> FALSE] \in File
      BY <1>b DEF TypeOK, WriterIsWhole, File
    <3> QED
      BY <1>3, <3>1, <3>2, <3>3 DEF CopyOpen, CopyFill, TypeOK
  <2> QED
    BY <1>3, <2>1, <2>2 DEF CopyOpen, CopyFill, TypeOK
<1>4. ASSUME NEW ok \in BOOLEAN, Open(ok) \/ Write(ok) \/ SyncData(ok) PROVE TypeOK'
  <2>1. writer.pc # "idle"
    BY <1>4 DEF Open, Write, SyncData, TmpStep
  <2>2. writer.value \in Values
    BY <2>1 DEF WriterIsWhole
  <2>3. tmp' \in File
    BY <1>4, <2>2, Files DEF Open, Write, SyncData, TmpStep
  <2>4. writer' \in [pc: Steps, value: Values \cup {None}, slot: 0..(Slots - 1)]
    BY <1>4, <1>a DEF Open, Write, SyncData, TmpStep, Go, Steps, TypeOK
  <2> QED
    BY <1>4, <2>3, <2>4 DEF Open, Write, SyncData, TmpStep, TypeOK
<1>5. ASSUME NEW ok \in BOOLEAN, Rename(ok) PROVE TypeOK'
  <2>1. [main |-> tmp, bak |-> dir.bak] \in Dir
    BY <1>b DEF TypeOK, Dir, Ring
  <2>2. writer' \in [pc: Steps, value: Values \cup {None}, slot: 0..(Slots - 1)]
    BY <1>5, <1>a DEF Rename, Go, Steps, TypeOK
  <2> QED
    BY <1>0, <1>5, <2>1, <2>2, Files DEF Rename, Changes, TypeOK
<1>6. ASSUME NEW ok \in BOOLEAN, SyncDirectory(ok) PROVE TypeOK'
  BY <1>6 DEF SyncDirectory, Go, Steps, TypeOK
<1>7. CASE Finish \/ Crash
  BY <1>7, <1>a, Files DEF Finish, Crash, TypeOK
<1>8. ASSUME NEW d \in possible, NEW lost \in BOOLEAN, PowerLoss(d, lost) PROVE TypeOK'
  <2> DEFINE after == [main |-> After(d.main, lost), bak |-> [s \in Ring |-> After(d.bak[s], lost)]]
  <2>1. \A f \in File : After(f, lost) \in File
    BY Files DEF After, File, Durable
  <2>2. d \in Dir
    BY DEF TypeOK
  <2>3. after \in Dir
    BY <1>b, <2>1, <2>2 DEF Dir, Ring
  <2>4. dir' = after /\ possible' = {after}
    BY <1>8 DEF PowerLoss, Ring
  <2> HIDE DEF after
  <2> QED
    BY <1>0, <1>8, <1>a, <2>3, <2>4, Files DEF PowerLoss, TypeOK
<1>9. ASSUME NEW file \in {None, Durable(Torn)}, Damage(file) PROVE TypeOK'
  <2>1. file \in File
    BY Files DEF Durable
  <2>2. [main |-> file, bak |-> dir.bak] \in Dir
    BY <1>b, <2>1 DEF TypeOK, Dir, Ring
  <2>3. damage' \in 0..MaxDamage
    BY <1>0, <1>9 DEF Damage, TypeOK
  <2>4. spoiled' \in 0..Slots
    <3>1. CASE {s \in 0..(Slots - 1) : Valid(dir.bak[s])} = {}
      BY <1>0, <1>9, <3>1 DEF Damage
    <3>2. CASE {s \in 0..(Slots - 1) : Valid(dir.bak[s])} # {}
      <4>1. PICK r \in Ring : Valid(dir.bak[r])
        BY <3>2 DEF Ring
      <4>2. spoiled' \in Ring
        BY <1>9, <3>2, <4>1, NewestGood DEF Damage, TypeOK, Ring
      <4> QED
        BY <1>0, <4>2 DEF Ring
    <3> QED
      BY <3>1, <3>2
  <2> QED
    BY <1>9, <2>2, <2>3, <2>4 DEF Damage, TypeOK
<1>10. CASE Age \/ UNCHANGED vars
  BY <1>10 DEF Age, vars, TypeOK
<1> QED
  BY <1>1, <1>2, <1>3, <1>4, <1>5, <1>6, <1>7, <1>8, <1>9, <1>10 DEF Next

(* Every step keeps what the write under way has in hand whole.            *)
LEMMA WholeStep ==
    ASSUME TypeOK, WriterIsWhole, [Next]_vars
    PROVE  WriterIsWhole'
<1> USE DEF WriterIsWhole
<1>1. ASSUME NEW v \in Values, NEW ring \in BOOLEAN, Begin(v, ring) PROVE WriterIsWhole'
  BY <1>1 DEF Begin, Rotates
<1>2. ASSUME NEW ok \in BOOLEAN, Shift(ok) PROVE WriterIsWhole'
  BY <1>2 DEF Shift, Changes, WithRing
<1>3. ASSUME NEW ok \in BOOLEAN, CopyOpen(ok) \/ CopyFill(ok) PROVE WriterIsWhole'
  BY <1>3 DEF CopyOpen, CopyFill, Changes, WithRing, Go
<1>4. ASSUME NEW ok \in BOOLEAN, Open(ok) \/ Write(ok) \/ SyncData(ok) PROVE WriterIsWhole'
  BY <1>4 DEF Open, Write, SyncData, TmpStep, Go, Idle, Durable
<1>5. ASSUME NEW ok \in BOOLEAN, Rename(ok) \/ SyncDirectory(ok) PROVE WriterIsWhole'
  BY <1>5 DEF Rename, SyncDirectory, Go, Idle
<1>6. CASE Finish \/ Crash \/ \E d \in possible, lost \in BOOLEAN : PowerLoss(d, lost)
  BY <1>6 DEF Finish, Crash, PowerLoss, Idle
<1>7. CASE \E file \in {None, Durable(Torn)} : Damage(file)
  BY <1>7 DEF Damage
<1>8. CASE Age \/ UNCHANGED vars
  BY <1>8 DEF Age, vars
<1> QED
  BY <1>1, <1>2, <1>3, <1>4, <1>5, <1>6, <1>7, <1>8 DEF Next

(* Every step keeps a good backup within the slots it may have moved to,   *)
(* or gives the promise up, or leaves a valid file.                        *)
LEMMA KeptStep ==
    ASSUME RInv, [Next]_vars
    PROVE  BackupIsKept'
<1> SUFFICES ASSUME damage' > 0, spoiled' < Slots, ~Valid(dir'.main)
             PROVE  \E s \in Ring : Valid(dir'.bak[s]) /\ Kept(s)'
  BY DEF BackupIsKept
<1> USE DEF RInv
<1>0. /\ Slots \in Nat \ {0} /\ Slots - 1 \in Ring /\ 0 \in Ring /\ Ring \subseteq Nat
      /\ spoiled \in Nat /\ damage \in Nat /\ writer.slot \in Ring
  BY DurableAssumption DEF Ring, TypeOK
<1>a. ASSUME damage > 0, spoiled < Slots, ~Valid(dir.main)
      PROVE  \E s \in Ring : Valid(dir.bak[s]) /\ Kept(s)
  BY <1>a DEF BackupIsKept
<1>b. \A s \in Ring : Kept(s) => s <= spoiled
  BY <1>0 DEF Kept
<1>c. ASSUME UNCHANGED <<dir, damage, spoiled>>, writer'.pc \notin {"shift", "copying"}
      PROVE  \E s \in Ring : Valid(dir'.bak[s]) /\ Kept(s)'
  BY <1>a, <1>b, <1>c DEF Kept
<1>1. ASSUME NEW v \in Values, NEW ring \in BOOLEAN, Begin(v, ring)
      PROVE  \E s \in Ring : Valid(dir'.bak[s]) /\ Kept(s)'
  <2>1. CASE writer'.pc = "shift"
    <3>1. spoiled' = spoiled + 1 /\ writer'.slot = Slots - 1 /\ UNCHANGED <<dir, damage>>
          /\ writer.pc = "idle"
      BY <1>0, <1>1, <2>1 DEF Begin
    <3>2. PICK s \in Ring : Valid(dir.bak[s]) /\ Kept(s)
      BY <1>0, <1>a, <3>1
    <3>3. s < Slots - 1 /\ s < spoiled'
      BY <1>0, <1>b, <3>1, <3>2
    <3> QED
      BY <2>1, <3>1, <3>2, <3>3 DEF Kept
  <2>2. CASE writer'.pc # "shift"
    BY <1>1, <1>c, <2>2 DEF Begin
  <2> QED
    BY <2>1, <2>2
<1>2. ASSUME NEW ok \in BOOLEAN, Shift(ok)
      PROVE  \E s \in Ring : Valid(dir'.bak[s]) /\ Kept(s)'
  <2> DEFINE k == writer.slot
  <2>1. ok /\ UNCHANGED <<damage, spoiled>> /\ dir'.main = dir.main
    BY <1>0, <1>2 DEF Shift, NoPromise, Changes, WithRing
  <2>2. k \in Nat \ {0} /\ k - 1 \in Ring /\ writer.pc = "shift"
        /\ writer'.pc = "shift" /\ writer'.slot = k - 1
    BY <1>0, <1>2 DEF Shift, Ring
  <2>3. PICK s \in Ring : Valid(dir.bak[s]) /\ Kept(s)
    BY <1>a, <2>1
  <2>4. (s < k /\ s < spoiled) \/ (s > k /\ s <= spoiled)
    BY <2>2, <2>3 DEF Kept
  <2>5. CASE dir.bak[k - 1] = None
    <3>1. s # k - 1 /\ dir' = dir
      BY <1>2, <2>3, <2>5 DEF Shift, Valid
    <3> QED
      BY <1>0, <2>1, <2>2, <2>3, <2>4, <3>1 DEF Kept
  <2>6. CASE dir.bak[k - 1] # None
    <3>1. dir'.bak = [dir.bak EXCEPT ![k] = dir.bak[k - 1], ![k - 1] = None]
      BY <1>2, <2>1, <2>6 DEF Shift, Changes, WithRing
    <3>2. dir.bak \in [Ring -> File]
      BY DEF TypeOK, Dir, Ring
    <3>3. dir'.bak[k] = dir.bak[k - 1]
      BY <1>0, <2>2, <3>1, <3>2
    <3>4. \A t \in Ring \ {k, k - 1} : dir'.bak[t] = dir.bak[t]
      BY <3>1, <3>2
    <3>5. CASE s = k - 1
      <4>1. Valid(dir'.bak[k])
        BY <2>3, <3>3, <3>5
      <4>2. k > k - 1 /\ k <= spoiled
        BY <1>0, <2>2, <2>4, <3>5
      <4> QED
        BY <1>0, <2>1, <2>2, <4>1, <4>2 DEF Kept
    <3>6. CASE s # k - 1
      <4>1. Valid(dir'.bak[s])
        BY <1>0, <2>2, <2>3, <2>4, <3>4, <3>6
      <4>2. (s < k - 1 /\ s < spoiled) \/ (s > k - 1 /\ s <= spoiled)
        BY <1>0, <2>2, <2>4, <3>6
      <4> QED
        BY <2>1, <2>2, <4>1, <4>2 DEF Kept
    <3> QED
      BY <3>5, <3>6
  <2> QED
    BY <2>5, <2>6
<1>3. ASSUME NEW ok \in BOOLEAN, CopyOpen(ok) \/ CopyFill(ok)
      PROVE  \E s \in Ring : Valid(dir'.bak[s]) /\ Kept(s)'
  <2>1. UNCHANGED <<damage, spoiled>> /\ dir'.main = dir.main
    BY <1>3 DEF CopyOpen, CopyFill, Changes, WithRing
  <2>2. PICK s \in Ring : Valid(dir.bak[s]) /\ Kept(s)
    BY <1>a, <2>1
  <2>3. 0 < s /\ s <= spoiled
    BY <1>0, <1>3, <2>2 DEF CopyOpen, CopyFill, Kept
  <2>4. dir'.bak[s] = dir.bak[s]
    <3>1. dir.bak \in [Ring -> File] /\ s # 0
      BY <1>0, <2>3 DEF TypeOK, Dir, Ring
    <3> QED
      BY <1>3, <3>1 DEF CopyOpen, CopyFill, Changes, WithRing
  <2>5. writer'.pc \in {"copying", "open"}
    BY <1>3 DEF CopyOpen, CopyFill, Go
  <2> QED
    BY <2>1, <2>2, <2>3, <2>4, <2>5 DEF Kept
<1>4. ASSUME NEW ok \in BOOLEAN, Open(ok) \/ Write(ok) \/ SyncData(ok)
      PROVE  \E s \in Ring : Valid(dir'.bak[s]) /\ Kept(s)'
  BY <1>4, <1>c DEF Open, Write, SyncData, TmpStep, Go, Idle
<1>5. ASSUME NEW ok \in BOOLEAN, Rename(ok)
      PROVE  \E s \in Ring : Valid(dir'.bak[s]) /\ Kept(s)'
  <2>1. CASE ok
    <3>1. dir'.main = Durable(writer.value) /\ writer.value \in Values
      BY <1>5, <2>1 DEF Rename, Changes, WriterIsWhole
    <3>2. \A v \in Values : Valid(Durable(v))
      BY Files DEF Valid, Durable
    <3>3. Valid(dir'.main)
      <4> DEFINE m == dir'.main
      <4>1. m = Durable(writer.value)
        BY <3>1
      <4> HIDE DEF m
      <4> QED
        BY <3>1, <3>2, <4>1 DEF m
    <3> QED
      BY <3>3
  <2>2. CASE ~ok
    BY <1>5, <1>c, <2>2 DEF Rename, Idle
  <2> QED
    BY <2>1, <2>2
<1>6. ASSUME NEW ok \in BOOLEAN, SyncDirectory(ok)
      PROVE  \E s \in Ring : Valid(dir'.bak[s]) /\ Kept(s)'
  BY <1>6, <1>c DEF SyncDirectory, Go
<1>7. CASE Finish \/ Crash
  BY <1>7, <1>c DEF Finish, Crash, Idle
<1>8. CASE \E d \in possible, lost \in BOOLEAN : PowerLoss(d, lost)
  BY <1>0, <1>8 DEF PowerLoss, NoPromise
<1>9. ASSUME NEW file \in {None, Durable(Torn)}, Damage(file)
      PROVE  \E s \in Ring : Valid(dir'.bak[s]) /\ Kept(s)'
  <2>1. {s \in 0..(Slots - 1) : Valid(dir.bak[s])} # {}
    BY <1>0, <1>9 DEF Damage
  <2>2. PICK r \in Ring : Valid(dir.bak[r])
    BY <2>1 DEF Ring
  <2>3. spoiled' \in Ring /\ Valid(dir.bak[spoiled'])
    BY <1>9, <2>1, <2>2, NewestGood DEF Damage, TypeOK, Ring
  <2>4. UNCHANGED writer /\ writer.pc = "idle" /\ dir'.bak = dir.bak
    BY <1>9 DEF Damage
  <2> QED
    BY <1>0, <2>3, <2>4 DEF Kept
<1>10. CASE Age \/ UNCHANGED vars
  <2>1. UNCHANGED <<dir, damage, spoiled, writer>>
    BY <1>10 DEF Age, vars
  <2> QED
    BY <1>a, <2>1 DEF Kept
<1> QED
  BY <1>1, <1>2, <1>3, <1>4, <1>5, <1>6, <1>7, <1>8, <1>9, <1>10 DEF Next

(* A new profile, or a file with one older backup.                         *)
LEMMA RInvInit == Init => RInv
<1> SUFFICES ASSUME Init PROVE RInv
  OBVIOUS
<1>1. IInv
  BY InvInit
<1>2. TypeOK
  BY <1>1, DurableAssumption DEF Init, IInv, WriterType, TypeOK, Ring
<1>3. WriterIsWhole /\ BackupIsKept
  BY DurableAssumption DEF Init, Idle, WriterIsWhole, BackupIsKept
<1> QED
  BY <1>2, <1>3 DEF RInv

(* A state file that something else ruined leaves its newest good backup   *)
(* to be found by load_first_valid, until so many writes have rotated the  *)
(* ruined content in and died that it left the last slot of the ring: for  *)
(* a ring of any size, any values and any number of damages and crashes.   *)
THEOREM BackupStays == Spec => []BackupSurvives
<1>1. RInv /\ [Next]_vars => RInv'
  BY TypeStep, WholeStep, KeptStep DEF RInv
<1>2. RInv => BackupSurvives
  <2> SUFFICES ASSUME RInv, damage > 0, spoiled < Slots
               PROVE  Load(dir) \in Values
    BY DEF BackupSurvives
  <2>1. dir \in Dir /\ (Valid(dir.main) \/ \E s \in Ring : Valid(dir.bak[s]))
    BY DEF RInv, TypeOK, BackupIsKept
  <2> QED
    BY <2>1, GoodLoad
<1> QED
  BY RInvInit, <1>1, <1>2, PTL DEF Spec
=============================================================================
