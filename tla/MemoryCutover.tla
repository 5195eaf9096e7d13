--------------------------- MODULE MemoryCutover ---------------------------
(* The upgrade of memory.db to schema 3 at the start of an application      *)
(* (memory/cutover.rs, MemoryStore::open_for_app): backup, verification,    *)
(* evidence and migration under one immediate SQLite transaction, while     *)
(* other applications start and older clients write, and with a crash at    *)
(* any point.  The database is the set of writes it holds.                  *)
EXTENDS Naturals, FiniteSets, FiniteSetTheorems, TLAPS

CONSTANTS
    Apps,       \* applications that start
    MaxWrites,  \* bound on the writes of older clients
    MaxCrashes  \* bound on crashes

VARIABLES
    version,    \* MAX(version) of schema_migrations
    data,       \* writes in the database
    writers,    \* the applications that hold the write lock
    pc,         \* where each application is
    snapshot,   \* what each application serialized
    backups,    \* backup files: their contents, and whether they are whole
    evidence,   \* backups with a .cutover.json
    upgraded,   \* contents of the database when schema 3 was committed
    crashes

vars == <<version, data, writers, pc, snapshot, backups, evidence, upgraded, crashes>>

Init ==
    /\ version \in {1, 2}
    /\ data = {} /\ writers = {}
    /\ pc = [a \in Apps |-> "start"]
    /\ snapshot = [a \in Apps |-> {}]
    /\ backups = {} /\ evidence = {} /\ upgraded = {} /\ crashes = 0

File(a, whole) == [by |-> a, holds |-> snapshot[a], whole |-> whole]
Moves(a, from, to) == pc[a] = from /\ pc' = [pc EXCEPT ![a] = to]

\* An older client, and one that finds schema 3, write under the lock; the
\* triggers of schema 3 stop the older ones.
LegacyWrite ==
    /\ version < 3 /\ writers = {}
    /\ Cardinality(data) < MaxWrites
    /\ data' = data \cup {Cardinality(data) + 1}
    /\ UNCHANGED <<version, writers, pc, snapshot, backups, evidence, upgraded, crashes>>

\* MemoryStore::open migrates nothing that is older than schema 3.
Open(a) ==
    /\ Moves(a, "start", IF version = 3 THEN "open" ELSE "cutover")
    /\ UNCHANGED <<version, data, writers, snapshot, backups, evidence, upgraded, crashes>>

\* Faulty variant: the copy is made before the lock is taken.
BeginLate(a) ==
    /\ Moves(a, "cutover", "locked")
    /\ UNCHANGED <<version, data, writers, snapshot, backups, evidence, upgraded, crashes>>

\* BEGIN IMMEDIATE; the schema is read again under the lock.  Too long a wait
\* for the lock is an error.
Begin(a) ==
    /\ \/ /\ writers = {} /\ version < 3
          /\ Moves(a, "cutover", "locked")
          /\ writers' = {a}
       \/ /\ writers # {} \/ version = 3
          /\ Moves(a, "cutover", "reopen")
          /\ UNCHANGED writers
    /\ UNCHANGED <<version, data, snapshot, backups, evidence, upgraded, crashes>>

\* serialize, then a new file, written and synced.
Serialize(a) ==
    /\ Moves(a, "locked", "writing")
    /\ snapshot' = [snapshot EXCEPT ![a] = data]
    /\ UNCHANGED <<version, data, writers, backups, evidence, upgraded, crashes>>

Fails(a) ==
    /\ pc' = [pc EXCEPT ![a] = "reopen"]
    /\ writers' = writers \ {a}

WriteBackup(a, ok) ==
    /\ pc[a] = "writing"
    /\ backups' = backups \cup {File(a, ok)}
    /\ IF ok THEN Moves(a, "writing", "written") /\ UNCHANGED writers ELSE Fails(a)
    /\ UNCHANGED <<version, data, snapshot, evidence, upgraded, crashes>>

\* integrity_check, foreign_key_check and the digest of the contents; then
\* the receipt, synced with its directory.
VerifyBackup(a, ok) ==
    /\ pc[a] = "written"
    /\ IF ok THEN Moves(a, "written", "verified") /\ UNCHANGED writers /\ evidence' = evidence \cup {File(a, TRUE)}
             ELSE Fails(a) /\ UNCHANGED evidence
    /\ UNCHANGED <<version, data, snapshot, backups, upgraded, crashes>>

\* migrate_locked and commit
Migrate(a) ==
    /\ Moves(a, "verified", "open")
    /\ version' = 3
    /\ upgraded' = data
    /\ writers' = writers \ {a}
    /\ UNCHANGED <<data, snapshot, backups, evidence, crashes>>

\* After an error another application may have done the upgrade.
Reopen(a) ==
    /\ Moves(a, "reopen", IF version = 3 THEN "open" ELSE "failed")
    /\ UNCHANGED <<version, data, writers, snapshot, backups, evidence, upgraded, crashes>>

\* SQLite rolls an open transaction back; a file that was being written stays
\* in part.  The application, or one that failed, starts again.
Crash(a) ==
    /\ crashes < MaxCrashes
    /\ crashes' = crashes + 1
    /\ backups' = IF pc[a] = "writing" THEN backups \cup {File(a, FALSE)} ELSE backups
    /\ writers' = writers \ {a}
    /\ pc' = [pc EXCEPT ![a] = "start"]
    /\ UNCHANGED <<version, data, snapshot, evidence, upgraded>>

Next ==
    \/ LegacyWrite
    \/ \E a \in Apps :
          \/ Open(a) \/ Begin(a) \/ Serialize(a) \/ Migrate(a) \/ Reopen(a) \/ Crash(a)
          \/ \E ok \in BOOLEAN : WriteBackup(a, ok) \/ VerifyBackup(a, ok)

Spec == Init /\ [][Next]_vars
-----------------------------------------------------------------------------
\* A database of schema 3 that was upgraded has a whole, verified backup of
\* exactly what it held then, also when its application crashed or an older
\* client wrote meanwhile; only one application upgrades it.
UpgradeHasExactBackup ==
    version = 3 => \E f \in backups : f.whole /\ f \in evidence /\ f.holds = upgraded

\* An application that opened the store finds schema 3 and keeps every write.
OpenMeansUpgraded ==
    /\ \A a \in Apps : pc[a] = "open" => version = 3
    /\ version = 3 => upgraded = data

CutoverIsSafe == UpgradeHasExactBackup /\ OpenMeansUpgraded

(***************************************************************************)
(* Proof that the cutover is safe, for any number of applications, of      *)
(* writes and of crashes.                                                  *)
(***************************************************************************)
\* The records File makes: whose backup, of what, and whether it is whole.
BackupFiles == [by : Apps, holds : SUBSET Nat, whole : BOOLEAN]

TypeOK ==
    /\ version \in {1, 2, 3}
    /\ data \subseteq Nat /\ IsFiniteSet(data)
    /\ writers \subseteq Apps
    /\ pc \in [Apps -> {"start", "cutover", "locked", "writing", "written", "verified",
                        "open", "reopen", "failed"}]
    /\ snapshot \in [Apps -> SUBSET Nat]
    /\ backups \subseteq BackupFiles /\ evidence \subseteq BackupFiles
    /\ upgraded \subseteq Nat

\* An application between BEGIN IMMEDIATE and its commit is the only one that
\* holds the lock, in a database that is still older than schema 3.
UnderTheLock == {"locked", "writing", "written", "verified"}
LockIsHeld ==
    \A a \in Apps : pc[a] \in UnderTheLock => writers = {a} /\ version < 3

\* Nothing wrote since it serialized the database, its backup is whole once it
\* was written, and has its evidence once it was verified.
SnapshotIsCurrent ==
    \A a \in Apps :
        /\ pc[a] \in {"writing", "written", "verified"} => snapshot[a] = data
        /\ pc[a] \in {"written", "verified"} => File(a, TRUE) \in backups
        /\ pc[a] = "verified" => File(a, TRUE) \in evidence

IInv == TypeOK /\ LockIsHeld /\ SnapshotIsCurrent /\ CutoverIsSafe

(* A database of schema 1 or 2, nobody at work.                            *)
LEMMA InitIsSafe == Init => IInv
BY FS_EmptySet DEF Init, IInv, TypeOK, LockIsHeld, SnapshotIsCurrent, UnderTheLock,
   CutoverIsSafe, UpgradeHasExactBackup, OpenMeansUpgraded

(* A backup file is of the database some application serialized.           *)
LEMMA FileIsABackup ==
    ASSUME TypeOK, NEW a \in Apps, NEW whole \in BOOLEAN
    PROVE  File(a, whole) \in BackupFiles
BY DEF TypeOK, File, BackupFiles

(* What one application does keeps the invariant.                          *)
LEMMA StepOfOneIsSafe ==
    ASSUME IInv, NEW a \in Apps,
           \/ Open(a) \/ Begin(a) \/ Serialize(a) \/ Migrate(a) \/ Reopen(a) \/ Crash(a)
           \/ \E ok \in BOOLEAN : WriteBackup(a, ok) \/ VerifyBackup(a, ok)
    PROVE  IInv'
<1> USE DEF IInv, TypeOK, LockIsHeld, SnapshotIsCurrent, UnderTheLock, CutoverIsSafe,
            UpgradeHasExactBackup, OpenMeansUpgraded, File
<1> USE DEF BackupFiles
<1>1. CASE Open(a)
  BY <1>1 DEF Open, Moves
<1>2. CASE Begin(a)
  BY <1>2 DEF Begin, Moves
<1>3. CASE Serialize(a)
  BY <1>3 DEF Serialize, Moves
<1>4. CASE Migrate(a)
  BY <1>4 DEF Migrate, Moves
<1>5. CASE Reopen(a)
  BY <1>5 DEF Reopen, Moves
<1>6. CASE Crash(a)
  <2>1. TypeOK'
    BY <1>6, FileIsABackup DEF Crash
  <2>2. LockIsHeld' /\ SnapshotIsCurrent'
    BY <1>6 DEF Crash
  <2>3. CutoverIsSafe'
    BY <1>6 DEF Crash
  <2> QED
    BY <2>1, <2>2, <2>3
<1>7. ASSUME NEW ok \in BOOLEAN, WriteBackup(a, ok)
      PROVE  IInv'
  <2>1. TypeOK'
    BY <1>7, FileIsABackup DEF WriteBackup, Moves, Fails
  <2>2. LockIsHeld'
    BY <1>7 DEF WriteBackup, Moves, Fails
  <2>3. SnapshotIsCurrent'
    BY <1>7 DEF WriteBackup, Moves, Fails
  <2>4. CutoverIsSafe'
    BY <1>7 DEF WriteBackup, Moves, Fails
  <2> QED
    BY <2>1, <2>2, <2>3, <2>4
<1>8. ASSUME NEW ok \in BOOLEAN, VerifyBackup(a, ok)
      PROVE  IInv'
  BY <1>8 DEF VerifyBackup, Moves, Fails
<1> QED
  BY <1>1, <1>2, <1>3, <1>4, <1>5, <1>6, <1>7, <1>8

(* Every step of the system keeps the invariant.                           *)
LEMMA StepIsSafe == IInv /\ [Next]_vars => IInv'
<1> SUFFICES ASSUME IInv, [Next]_vars
             PROVE  IInv'
  OBVIOUS
<1>1. CASE LegacyWrite
  <2> USE <1>1 DEF LegacyWrite
  <2>0. IsFiniteSet(data) /\ data \subseteq Nat
    BY DEF IInv, TypeOK
  <2>1a. Cardinality(data) + 1 \in Nat
    <3>1. Cardinality(data) \in Nat
      BY <2>0, FS_CardinalityType
    <3> QED
      BY <3>1
  <2>1b. data' = data \cup {Cardinality(data) + 1}
    OBVIOUS
  <2>1. IsFiniteSet(data')
    BY <2>0, <2>1b, FS_AddElement
  <2>2. data' \subseteq Nat
    BY <2>0, <2>1a, <2>1b
  <2>3. \A a \in Apps : pc[a] \notin UnderTheLock
    BY DEF IInv, LockIsHeld
  <2>4. LockIsHeld' /\ SnapshotIsCurrent'
    BY <2>3 DEF LockIsHeld, SnapshotIsCurrent, UnderTheLock
  <2>5. CutoverIsSafe'
    BY DEF IInv, TypeOK, CutoverIsSafe, UpgradeHasExactBackup, OpenMeansUpgraded
  <2> QED
    BY <2>1, <2>2, <2>4, <2>5 DEF IInv, TypeOK
<1>2. CASE UNCHANGED vars
  BY <1>2 DEF vars, IInv, TypeOK, LockIsHeld, SnapshotIsCurrent, CutoverIsSafe,
     UpgradeHasExactBackup, OpenMeansUpgraded, File
<1> QED
  BY <1>1, <1>2, StepOfOneIsSafe DEF Next

(* The upgrade to schema 3 leaves a whole, verified backup of exactly what *)
(* it upgraded and loses no write (open_for_app in memory/cutover.rs), for *)
(* any applications, any writes of older clients and any crashes.          *)
THEOREM CutoverHolds == Spec => []CutoverIsSafe
<1>1. IInv => CutoverIsSafe
  BY DEF IInv
<1> QED
  BY InitIsSafe, StepIsSafe, <1>1, PTL DEF Spec
=============================================================================
