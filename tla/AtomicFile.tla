----------------------------- MODULE AtomicFile -----------------------------
(***************************************************************************)
(* What the rest of the program takes for granted about a state file: a    *)
(* reader finds one complete value, a write replaces it at once or not at  *)
(* all, a crash of the program changes nothing, and a loss of power goes   *)
(* back at most to a value since the last time the directory was synced;   *)
(* until something other than these writes ruins the file.                 *)
(***************************************************************************)
CONSTANTS Values, None

VARIABLES
    stored,     \* what a reader finds
    safe,       \* what it may find after a loss of power
    acked,      \* the value of the last write reported as done
    ruined      \* something else has ruined the file

contents == <<stored, safe, acked>>
fileVars == <<contents, ruined>>

FileInit ==
    /\ stored \in Values \cup {None}
    /\ safe = {stored}
    /\ acked = None /\ ruined = FALSE

\* The file system may take its time to make the new value durable.
Replace(v) ==
    /\ stored' = v
    /\ safe' = safe \cup {v}
    /\ UNCHANGED acked

Sync ==
    /\ safe' = {stored}
    /\ UNCHANGED <<stored, acked>>

\* A write is reported only once a reader finds it.
Report ==
    /\ stored \in Values
    /\ acked' = stored
    /\ UNCHANGED <<stored, safe>>

LosePower ==
    /\ stored' \in safe
    /\ safe' = {stored'}
    /\ acked' = None

Serve == (\E v \in Values : Replace(v)) \/ Sync \/ Report \/ LosePower

\* Nothing is promised for a file something else has ruined.
FileNext == (Serve /\ UNCHANGED ruined) \/ ruined' = TRUE

FileSpec == FileInit /\ [][FileNext]_fileVars
=============================================================================
