-------------------------- MODULE ReaderRetirement --------------------------
(***************************************************************************)
(* The atomic state cell of a PTY reader thread                            *)
(* (src/src/terminal/reader_retirement.rs).                                *)
(*                                                                         *)
(* The reader admits one physical read at a time; whoever retires the      *)
(* terminal asks for a pause, and later resumes the reader in drain mode   *)
(* until the real end of file.  Each operation is one compare-and-swap on  *)
(* the cell, written here as a function of the state it finds.  A state    *)
(* the compare-and-swap does not accept is left alone.                     *)
(***************************************************************************)

ReaderState == {"IDLE", "READING", "PAUSE_REQUESTED", "PAUSED",
                "DRAINING", "DRAIN_READING", "EOF", "FAILED"}

\* begin_read admits a read only from these states.
MayBeginRead(s) == s \in {"IDLE", "DRAINING"}

BeginRead(s) == IF s = "IDLE" THEN "READING" ELSE "DRAIN_READING"

\* A read admitted by begin_read and not finished yet.
InRead(s) == s \in {"READING", "PAUSE_REQUESTED", "DRAIN_READING"}

\* Faulty variant, for mutation: a finished read does not acknowledge the
\* pause requested during it.
FinishReadIgnoringPause(s) ==
    CASE s = "READING"       -> "IDLE"
      [] s = "DRAIN_READING" -> "DRAINING"
      [] OTHER               -> s

FinishRead(s) ==
    CASE s = "READING"         -> "IDLE"
      [] s = "PAUSE_REQUESTED" -> "PAUSED"
      [] s = "DRAIN_READING"   -> "DRAINING"
      [] OTHER                 -> s

\* request: an idle reader is paused at once, one inside a read is asked to.
Request(s) ==
    CASE s = "IDLE"    -> "PAUSED"
      [] s = "READING" -> "PAUSE_REQUESTED"
      [] OTHER         -> s

Quiescent(s) == s \in {"PAUSED", "EOF"}

Draining(s) == s \in {"DRAINING", "DRAIN_READING"}

ResumeDrain(s) == IF s = "PAUSED" THEN "DRAINING" ELSE s
=============================================================================
