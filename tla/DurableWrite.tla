---------------------------- MODULE DurableWrite ----------------------------
(***************************************************************************)
(* state/durable_write.rs: a state file, its temporary sibling and its     *)
(* ring of backups, with a crash of the program or a loss of power after   *)
(* every system call.                                                      *)
(*                                                                         *)
(* The file system (external): a directory operation is visible at once to *)
(* every program and durable once the directory is synced; until then a    *)
(* loss of power reveals the directory as it was after some earlier        *)
(* operation.  File data that was not synced may be lost with the power.   *)
(* Writers of one file are serialised by their callers.                    *)
(***************************************************************************)
EXTENDS Naturals, FiniteSets

CONSTANTS
    Values,
    Torn,           \* content that does not parse
    None,           \* no such file
    Slots,          \* BACKUP_SLOTS
    MaxUnsynced,    \* bound: directories a loss of power may reveal when a write begins
    MaxDamage       \* bound: how often something else ruins the file

ASSUME DurableAssumption ==
    /\ Torn \notin Values /\ None \notin Values \cup {Torn}
    /\ None \notin [data: Values \cup {Torn}, synced: BOOLEAN]
    /\ Slots \in Nat \ {0} /\ MaxUnsynced \in Nat /\ MaxDamage \in Nat

VARIABLES
    dir,        \* the directory every program sees: the file and its backups
    tmp,        \* the temporary file of the write under way
    possible,   \* the directories a loss of power may reveal
    recent,     \* is the newest backup younger than BACKUP_MIN_SPACING?
    writer,     \* the write under way
    acked,      \* the value of the last write reported as done
    damage,     \* how often the file was ruined
    spoiled     \* the slot the newest good backup may have moved to since

vars == <<dir, tmp, possible, recent, writer, acked, damage, spoiled>>

File == [data: Values \cup {Torn}, synced: BOOLEAN] \cup {None}
Dir == [main: File, bak: [0..(Slots - 1) -> File]]
Steps == {"idle", "shift", "copying", "open", "write", "sync", "rename", "syncdir",
          "report"}

TypeOK ==
    /\ dir \in Dir
    /\ tmp \in File
    /\ possible \subseteq Dir
    /\ recent \in BOOLEAN
    /\ writer \in [pc: Steps, value: Values \cup {None}, slot: 0..(Slots - 1)]
    /\ acked \in Values \cup {None}
    /\ damage \in 0..MaxDamage
    /\ spoiled \in 0..Slots

Idle == [pc |-> "idle", value |-> None, slot |-> 0]

Durable(v) == [data |-> v, synced |-> TRUE]

\* A new profile, or a file with one older backup.
Init ==
    /\ dir \in {[main |-> m, bak |-> [s \in 0..(Slots - 1) |-> IF s = 0 THEN b ELSE None]] :
                  m \in {None} \cup {Durable(v) : v \in Values},
                  b \in {None} \cup {Durable(v) : v \in Values}}
    /\ dir.main = None => dir.bak[0] = None
    /\ tmp = None
    /\ possible = {dir}
    /\ recent \in BOOLEAN
    /\ writer = Idle /\ acked = None /\ damage = 0 /\ spoiled = 0

-----------------------------------------------------------------------------
(* Reading.                                                                *)

Valid(file) == file # None /\ file.data \in Values

\* load_first_valid: the file, then the backups from the newest on.
Load(d) ==
    LET good == {s \in 0..(Slots - 1) : Valid(d.bak[s])}
    IN  IF Valid(d.main) THEN d.main.data
        ELSE IF good = {} THEN None
        ELSE d.bak[CHOOSE s \in good : \A t \in good : s <= t].data

-----------------------------------------------------------------------------
(* Writing.                                                                *)

Go(pc) == writer' = [pc |-> pc, value |-> writer.value, slot |-> writer.slot]

\* After a failed move or a loss of power a ruined file's backups, which are
\* never synced, may be anywhere.
NoPromise == IF damage = 0 THEN 0 ELSE Slots

\* The directory with another ring of backups.
WithRing(b) == [main |-> dir.main, bak |-> b]

\* A directory operation: visible now, durable later.
Changes(d) ==
    /\ dir' = d
    /\ possible' = possible \cup {d}

\* content_matches.
Unchanged(v) == dir.main # None /\ dir.main.data = v

\* rotate_backup_ring does nothing without a file or beside a recent backup.
Rotates == dir.main # None /\ ~(dir.bak[0] # None /\ recent)

\* write_durable, and write_atomic when there is no ring.
Begin(v, ring) ==
    /\ writer.pc = "idle" /\ Cardinality(possible) <= MaxUnsynced
    /\ IF Unchanged(v) THEN writer' = [pc |-> "report", value |-> v, slot |-> 0]
       ELSE IF ring /\ Rotates THEN writer' = [pc |-> "shift", value |-> v, slot |-> Slots - 1]
       ELSE writer' = [pc |-> "open", value |-> v, slot |-> 0]
    /\ spoiled' = IF writer'.pc = "shift" /\ ~Valid(dir.main) /\ spoiled < Slots
                  THEN spoiled + 1 ELSE spoiled
    /\ UNCHANGED <<dir, tmp, possible, recent, acked, damage>>

\* Faulty variant: the backups are moved from the newest on.
ShiftUpward(ok) ==
    LET to == Slots - writer.slot
    IN  /\ writer.pc = "shift" /\ writer.slot > 0
        /\ writer' = [pc |-> "shift", value |-> writer.value, slot |-> writer.slot - 1]
        /\ IF ok /\ dir.bak[to - 1] # None
           THEN Changes(WithRing([dir.bak EXCEPT ![to] = dir.bak[to - 1], ![to - 1] = None]))
           ELSE UNCHANGED <<dir, possible>>
        /\ spoiled' = IF ok THEN spoiled ELSE NoPromise
        /\ UNCHANGED <<tmp, recent, acked, damage>>

\* The backups move up, the oldest first; a failure is ignored.
Shift(ok) ==
    /\ writer.pc = "shift" /\ writer.slot > 0
    /\ writer' = [pc |-> "shift", value |-> writer.value, slot |-> writer.slot - 1]
    /\ IF ok /\ dir.bak[writer.slot - 1] # None
       THEN Changes(WithRing([dir.bak EXCEPT ![writer.slot] = dir.bak[writer.slot - 1],
                                             ![writer.slot - 1] = None]))
       ELSE UNCHANGED <<dir, possible>>
    /\ spoiled' = IF ok THEN spoiled ELSE NoPromise
    /\ UNCHANGED <<tmp, recent, acked, damage>>

\* The copy into the newest slot: created or emptied, then filled, never synced;
\* it may fail before or after.
CopyOpen(ok) ==
    /\ writer.pc = "shift" /\ writer.slot = 0
    /\ IF ok
       THEN /\ Changes(WithRing([dir.bak EXCEPT ![0] = [data |-> Torn, synced |-> FALSE]]))
            /\ recent' = TRUE
            /\ Go("copying")
       ELSE /\ Go("open")
            /\ UNCHANGED <<dir, possible, recent>>
    /\ UNCHANGED <<tmp, acked, damage, spoiled>>

CopyFill(ok) ==
    /\ writer.pc = "copying"
    /\ IF ok THEN Changes(WithRing([dir.bak EXCEPT ![0] = [data |-> dir.main.data,
                                                           synced |-> FALSE]]))
       ELSE UNCHANGED <<dir, possible>>
    /\ Go("open")
    /\ UNCHANGED <<tmp, recent, acked, damage, spoiled>>

\* A step of the write on its new private file tmp: the next step, or the error
\* that removes the file and is returned.
TmpStep(ok, from, to, file) ==
    /\ writer.pc = from
    /\ IF ok THEN tmp' = file /\ Go(to) ELSE tmp' = None /\ writer' = Idle
    /\ UNCHANGED <<dir, possible, recent, acked, damage, spoiled>>

\* write_atomic_changed.
Open(ok) == TmpStep(ok, "open", "write", [data |-> Torn, synced |-> FALSE])

Write(ok) == TmpStep(ok, "write", "sync", [data |-> writer.value, synced |-> FALSE])

\* Faulty variant: the data is left to the system.
SyncDataNever(ok) == TmpStep(ok, "sync", "rename", tmp)

SyncData(ok) == TmpStep(ok, "sync", "rename", [data |-> writer.value, synced |-> TRUE])

Rename(ok) ==
    /\ writer.pc = "rename"
    /\ tmp' = None
    /\ IF ok THEN Changes([main |-> tmp, bak |-> dir.bak]) /\ Go("syncdir") /\ spoiled' = 0
       ELSE writer' = Idle /\ UNCHANGED <<dir, possible, spoiled>>
    /\ UNCHANGED <<recent, acked, damage>>

\* sync_directory: best effort.
SyncDirectory(ok) ==
    /\ writer.pc = "syncdir"
    /\ possible' = IF ok THEN {dir} ELSE possible
    /\ Go("report")
    /\ UNCHANGED <<dir, tmp, recent, acked, damage, spoiled>>

Finish ==
    /\ writer.pc = "report"
    /\ acked' = writer.value
    /\ writer' = Idle
    /\ UNCHANGED <<dir, tmp, possible, recent, damage, spoiled>>

-----------------------------------------------------------------------------
(* The environment.                                                        *)

\* The newest backup reaches the minimal spacing.
Age ==
    /\ recent /\ recent' = FALSE
    /\ UNCHANGED <<dir, tmp, possible, writer, acked, damage, spoiled>>

\* The program is killed; the system and its caches live on.  A temporary file
\* left behind is never looked at again: the next one has a name of its own.
Crash ==
    /\ writer.pc # "idle"
    /\ writer' = Idle /\ tmp' = None
    /\ UNCHANGED <<dir, possible, recent, acked, damage, spoiled>>

\* A file after the power has gone: what was not synced may be lost.
After(file, torn) ==
    IF file = None THEN None
    ELSE IF torn /\ ~file.synced THEN Durable(Torn) ELSE Durable(file.data)

PowerLoss(d, lost) ==
    LET after == [main |-> After(d.main, lost),
                  bak |-> [s \in 0..(Slots - 1) |-> After(d.bak[s], lost)]]
    IN  /\ d \in possible
        /\ dir' = after /\ possible' = {after}
        /\ writer' = Idle /\ tmp' = None /\ acked' = None
        /\ spoiled' = NoPromise
        /\ UNCHANGED <<recent, damage>>

\* Something else ruins or removes the file while no write is under way.
Damage(file) ==
    /\ writer.pc = "idle" /\ damage < MaxDamage
    /\ Valid(dir.main) /\ file \in {None, Durable(Torn)}
    /\ dir' = [main |-> file, bak |-> dir.bak] /\ possible' = {dir'}
    /\ damage' = damage + 1
    /\ spoiled' = LET good == {s \in 0..(Slots - 1) : Valid(dir.bak[s])}
                  IN  IF good = {} THEN Slots ELSE CHOOSE s \in good : \A t \in good : s <= t
    /\ UNCHANGED <<tmp, recent, writer, acked>>

-----------------------------------------------------------------------------
Next ==
    \/ \E v \in Values, ring \in BOOLEAN : Begin(v, ring)
    \/ \E ok \in BOOLEAN :
          \/ Shift(ok) \/ CopyOpen(ok) \/ CopyFill(ok) \/ Open(ok) \/ Write(ok)
          \/ SyncData(ok) \/ Rename(ok) \/ SyncDirectory(ok)
    \/ Finish \/ Age \/ Crash
    \/ \E d \in possible, lost \in BOOLEAN : PowerLoss(d, lost)
    \/ \E file \in {None, Durable(Torn)} : Damage(file)

Spec == Init /\ [][Next]_vars

-----------------------------------------------------------------------------
(* Properties.                                                             *)

\* What a reader finds, now and after a loss of power.
Stored == Load(dir)
Safe == {Load(d) : d \in possible}

Atomic == INSTANCE AtomicFile WITH stored <- Stored, safe <- Safe, ruined <- damage > 0

\* Until something else ruins the file, it is an atomic file: whatever call a
\* crash or a loss of power comes after, a reader finds one complete value,
\* and none older than the last synced one.
IsAtomicFile == Atomic!FileSpec

\* A ruined file leaves the newest good backup to be found until so many writes
\* have rotated the ruined content in and died that it left the last slot (or
\* a move failed, or the power went).
BackupSurvives ==
    damage > 0 /\ spoiled < Slots => Load(dir) \in Values
=============================================================================
