------------------------------ MODULE Updates ------------------------------
(***************************************************************************)
(* Updates of the program (update.rs, update_install.rs,                    *)
(* update_install/windows_command.rs, and the update parts of app.rs and    *)
(* sidebar/mod.rs).  The UI thread shows the state of the update and starts *)
(* one background thread at a time; the thread checks, downloads, installs  *)
(* (macOS) or prepares and launches an installer (Windows).  Verification   *)
(* is done by commands of the system, each with its helpers, its output     *)
(* limit and its deadline.  Files may be damaged on disk after they were    *)
(* verified and the program may be killed between any two steps.            *)
(*                                                                         *)
(* A release is sound when its package carries the publisher, version and   *)
(* architecture that the commands check.  A damaged package or a partial    *)
(* copy never passes them.                                                  *)
(***************************************************************************)
EXTENDS Integers, Sequences

CONSTANTS
    Systems,        \* among "macos", "windows" and "linux"
    MaxDownloads,   \* bound: downloads
    MaxCrashes      \* bound: times the program is killed

VARIABLES
    os,         \* the system this behaviour runs on
    st,         \* UpdateState
    cancel,     \* the AtomicBool cancellation
    job,        \* the background thread: what it does and where it is
    files,      \* staged downloads: "none", "part", "good" or "damaged"
    sound,      \* whether the published release is sound
    cmd,        \* the verification command: "none", "suspended" or "running", and its helpers
    apps,       \* the bundles in the folder of applications
    code,       \* version of the running program, "none" when it is not running
    live,       \* a terminal, a shared session or a pending launch exists
    unsaved,    \* accepted work is not on disk
    launched,   \* what was true when an installer was started
    downloads, crashes,
    since       \* downloads of earlier runs of the program

vars == <<os, st, cancel, job, files, sound, cmd, apps, code, live, unsaved, launched,
          downloads, crashes, since>>

Dirs == 1 .. MaxDownloads
NoState == [status |-> "Disabled", version |-> "none", url |-> FALSE, path |-> 0, hash |-> FALSE,
            cancelling |-> FALSE, available |-> FALSE]
NoJob == [kind |-> "none", pc |-> "none", dir |-> 0, ok |-> FALSE]
NoCmd == [run |-> "none", helpers |-> FALSE]
Job(kind, pc, dir) == [kind |-> kind, pc |-> pc, dir |-> dir, ok |-> FALSE]

Init ==
    /\ os \in Systems /\ sound \in BOOLEAN
    /\ st = [NoState EXCEPT !.status = "Checking"] /\ job = Job("check", "ask", 0)
    /\ cancel = FALSE /\ files = [d \in Dirs |-> "none"] /\ cmd = NoCmd
    /\ apps = [target |-> "old", staging |-> "none", backup |-> "none"] /\ code = "old"
    /\ live = FALSE /\ unsaved = FALSE /\ launched = <<>> /\ downloads = 0 /\ crashes = 0 /\ since = 0

Removed(d) == IF d = 0 THEN files ELSE [files EXCEPT ![d] = "none"]
\* update_installation_in_progress: on Windows neither the logic nor the UI runs.
Frozen == os = "windows" /\ st.status = "Installing"
Ui == code # "none" /\ ~Frozen

-----------------------------------------------------------------------------
(* UpdateChecker, called by the sidebar.                                    *)

CheckAgain ==
    /\ Ui /\ st.status \in {"UpToDate", "Error"}
    /\ st' = [st EXCEPT !.status = "Checking", !.path = 0]
    /\ files' = Removed(st.path) /\ job' = Job("check", "ask", 0)
    /\ UNCHANGED <<os, cancel, sound, cmd, apps, code, live, unsaved, launched, downloads, crashes, since>>
Download ==
    /\ Ui /\ st.status \in {"Available", "Error"} /\ st.url /\ st.version = "new" /\ code = "old"
    /\ downloads < MaxDownloads /\ downloads' = downloads + 1
    /\ st' = [st EXCEPT !.status = "Downloading", !.path = 0, !.hash = FALSE, !.cancelling = FALSE,
                        !.available = FALSE]
    /\ cancel' = FALSE /\ files' = Removed(st.path) /\ job' = Job("download", "checksum", downloads + 1)
    /\ UNCHANGED <<os, sound, cmd, apps, code, live, unsaved, launched, crashes, since>>
CancelDownload ==
    /\ Ui /\ st.status = "Downloading" /\ ~st.cancelling
    /\ st' = [st EXCEPT !.cancelling = TRUE] /\ cancel' = TRUE
    /\ UNCHANGED <<os, job, files, sound, cmd, apps, code, live, unsaved, launched, downloads, crashes, since>>
\* InstallUpdate: outside Windows everything is saved first.
Installs == st.available /\ st.status \in {"Ready", "Error"} /\ st.path # 0 /\ st.hash
Install ==
    /\ Ui /\ Installs /\ ~live /\ unsaved' = (unsaved /\ os = "windows")
    /\ st' = [st EXCEPT !.status = "Installing"] /\ job' = Job("install", "checksum", st.path)
    /\ UNCHANGED <<os, cancel, files, sound, cmd, apps, code, live, launched, downloads, crashes, since>>
\* A wrong launch: what was checked before the preparation is trusted.
LaunchesUnchecked(quiet) ==
    /\ Ui /\ st.status = "PreparedInstallation"
    /\ st' = [st EXCEPT !.status = "Installing"] /\ unsaved' = FALSE
    /\ job' = Job("launch", "lock", st.path)
\* finish_prepared_update, in every frame: refused, or everything is saved and
\* the launch begins.
Launches(quiet) ==
    /\ Ui /\ st.status = "PreparedInstallation"
    /\ IF live \/ ~quiet
       THEN /\ st' = [st EXCEPT !.status = "Error"] /\ UNCHANGED <<job, unsaved>>
       ELSE /\ st' = [st EXCEPT !.status = "Installing"] /\ unsaved' = FALSE
            /\ job' = Job("launch", "lock", st.path)
FinishPreparedUpdate(quiet) ==
    /\ Launches(quiet)
    /\ UNCHANGED <<os, cancel, files, sound, cmd, apps, code, live, launched, downloads, crashes, since>>

\* The user works meanwhile.
Works ==
    /\ Ui /\ live' \in BOOLEAN /\ unsaved' \in BOOLEAN /\ <<live, unsaved>>' # <<live, unsaved>>
    /\ UNCHANGED <<os, st, cancel, job, files, sound, cmd, apps, code, launched, downloads, crashes, since>>

-----------------------------------------------------------------------------
(* The background thread: checking and downloading.                         *)

\* The release offers at most one asset for this system with its checksum.
Offered(url) == [NoState EXCEPT !.status = "Available", !.version = "new", !.url = url]
\* check_latest_release, and its answer replaces the whole state.
CheckAnswers(found, url) ==
    /\ job.kind = "check" /\ job' = NoJob
    /\ st' = CASE found = "failed" -> [NoState EXCEPT !.status = "Error"]
               [] found = "newest" /\ code = "old" -> Offered(url)
               [] OTHER -> [NoState EXCEPT !.status = "UpToDate"]
    /\ UNCHANGED <<os, cancel, files, sound, cmd, apps, code, live, unsaved, launched, downloads, crashes, since>>

\* download_with_client: the checksum, the bytes in a private directory, the
\* comparison, the rename; any failure or a cancellation removes the directory.
DownloadGoesOn ==
    /\ job.kind = "download" /\ ~cancel
    /\ \/ /\ job.pc = "checksum" /\ job' = [job EXCEPT !.pc = "bytes"]
          /\ files' = [files EXCEPT ![job.dir] = "part"]
       \/ /\ job.pc = "bytes" /\ job' = [job EXCEPT !.pc = "done", !.ok = TRUE]
          /\ files' = [files EXCEPT ![job.dir] = "good"]
    /\ UNCHANGED <<os, st, cancel, sound, cmd, apps, code, live, unsaved, launched, downloads, crashes, since>>
DownloadFails ==
    /\ job.kind = "download" /\ job.pc \in {"checksum", "bytes"}
    /\ job' = [job EXCEPT !.pc = "done"] /\ files' = [files EXCEPT ![job.dir] = "none"]
    /\ UNCHANGED <<os, st, cancel, sound, cmd, apps, code, live, unsaved, launched, downloads, crashes, since>>
\* A wrong end: the cancelled download stays on disk.
PublishedLeaves(wanted) ==
    /\ st' = IF job.ok /\ wanted
             THEN [st EXCEPT !.status = "Ready", !.path = job.dir, !.hash = TRUE, !.cancelling = FALSE,
                             !.available = os \in {"macos", "windows"}]
             ELSE [st EXCEPT !.status = "Available", !.cancelling = FALSE]
    /\ files' = files
\* The end of download's thread, under the lock of the state: a request to
\* cancel that arrived meanwhile wins over a finished download.
Published(wanted) ==
    CASE job.ok /\ wanted ->
           /\ st' = [st EXCEPT !.status = "Ready", !.path = job.dir, !.hash = TRUE, !.cancelling = FALSE,
                               !.available = os \in {"macos", "windows"}]
           /\ files' = files
      [] job.ok /\ ~wanted ->
           st' = [st EXCEPT !.status = "Available", !.cancelling = FALSE] /\ files' = Removed(job.dir)
      [] ~job.ok -> /\ st' = [st EXCEPT !.status = IF wanted THEN "Error" ELSE "Available",
                                        !.cancelling = FALSE]
                    /\ files' = files
PublishDownload ==
    /\ job.kind = "download" /\ job.pc = "done" /\ Published(~cancel) /\ job' = NoJob
    /\ UNCHANGED <<os, cancel, sound, cmd, apps, code, live, unsaved, launched, downloads, crashes, since>>

-----------------------------------------------------------------------------
(* bounded_output: one verification command.                                *)

\* Where the thread waits for a command, and what passes it.
TrustedPublisher == os = "macos" => apps.target # "none"
PackageVerified == sound /\ files[job.dir] = "good"
StagedVerified == apps.staging = "new"
Passes(pc) == CASE pc \in {"mount", "copy"} -> TRUE
                [] pc = "publisher" -> TrustedPublisher
                [] pc = "package" -> PackageVerified
                [] pc = "staged" -> StagedVerified
                [] OTHER -> FALSE
Commanding == job.pc \in {"publisher", "mount", "package", "copy", "staged"}
CommandStarts ==
    /\ Commanding /\ cmd.run = "none"
    /\ cmd' = [NoCmd EXCEPT !.run = IF os = "windows" THEN "suspended" ELSE "running"]
    /\ UNCHANGED <<os, st, cancel, job, files, sound, apps, code, live, unsaved, launched, downloads, crashes, since>>
\* SuspendedProcess::resume, once the process is known to be in its job.
CommandResumes ==
    /\ cmd.run = "suspended" /\ cmd' = [cmd EXCEPT !.run = "running"]
    /\ UNCHANGED <<os, st, cancel, job, files, sound, apps, code, live, unsaved, launched, downloads, crashes, since>>
HelperStarts ==
    /\ cmd.run = "running" /\ ~cmd.helpers /\ cmd' = [cmd EXCEPT !.helpers = TRUE]
    /\ UNCHANGED <<os, st, cancel, job, files, sound, apps, code, live, unsaved, launched, downloads, crashes, since>>
\* A wrong end: only the command itself is ended.
TerminatedAlone == [cmd EXCEPT !.run = "none"]
\* terminate_descendants, and the guard on every other way out.
Terminated == NoCmd
\* The thread's next step after a command that passed.
AfterPass ==
    CASE job.pc = "publisher" -> IF job.kind = "install" /\ os = "macos" THEN "mount" ELSE "package"
      [] job.pc = "mount" -> "package"
      [] job.pc = "package" -> IF job.kind = "launch" THEN "start" ELSE IF os = "macos" THEN "stage" ELSE "done"
      [] job.pc = "copy" -> "staged"
      [] job.pc = "staged" -> "setAside"
\* swap_verified_bundle removes its staging directory when the copy fails.
Copied(ok) == IF job.pc = "copy" THEN [apps EXCEPT !.staging = IF ok /\ Passes("package") THEN "new" ELSE "partial"]
              ELSE apps
CommandPasses ==
    /\ cmd.run = "running" /\ Passes(job.pc)
    /\ job' = [job EXCEPT !.pc = AfterPass, !.ok = AfterPass = "done"]
    /\ apps' \in {Copied(TRUE), Copied(FALSE)} /\ cmd' = Terminated
    /\ UNCHANGED <<os, st, cancel, files, sound, code, live, unsaved, launched, downloads, crashes, since>>
\* A refusal, too much output, a missed deadline or a process that could not
\* be started all stop the installation.
CommandFails ==
    /\ Commanding /\ job' = [job EXCEPT !.pc = "done"] /\ cmd' = Terminated
    /\ apps' = [apps EXCEPT !.staging = "none"]
    /\ UNCHANGED <<os, st, cancel, files, sound, code, live, unsaved, launched, downloads, crashes, since>>

-----------------------------------------------------------------------------
(* The background thread: installing.                                       *)

\* verify_checksum of the staged file before anything else; Windows keeps the
\* file open against writers from here until the installer started.
VerifyChecksum ==
    /\ job.kind \in {"install", "launch"} /\ job.pc \in {"checksum", "lock"}
    /\ job' = [job EXCEPT !.pc = IF files[job.dir] = "good" THEN "publisher" ELSE "done"]
    /\ UNCHANGED <<os, st, cancel, files, sound, cmd, apps, code, live, unsaved, launched, downloads, crashes, since>>
\* A wrong launch: the file stays open to writers.
NeverLocked == FALSE
Locked == job.kind = "launch" /\ job.pc \notin {"lock", "done"}
Damage(d) ==
    /\ files[d] = "good" /\ ~(Locked /\ job.dir = d) /\ job.kind # "download"
    /\ files' = [files EXCEPT ![d] = "damaged"]
    /\ UNCHANGED <<os, st, cancel, job, sound, cmd, apps, code, live, unsaved, launched, downloads, crashes, since>>

\* swap_verified_bundle: a fresh sibling, the old bundle set aside, the new one
\* put in its place, or the old one put back.
Swap(pc, next, result) ==
    /\ job.pc = pc /\ job' = [job EXCEPT !.pc = next, !.ok = next = "done" /\ result.target = "new"]
    /\ apps' = result
    /\ UNCHANGED <<os, st, cancel, files, sound, cmd, code, live, unsaved, launched, downloads, crashes, since>>
CreateStaging == Swap("stage", "copy", [apps EXCEPT !.staging = "partial"])
\* A wrong order: the old bundle is removed before the new one is in place.
SetAsideWithoutCopy == Swap("setAside", "replace", [apps EXCEPT !.target = "none"])
SetAside == Swap("setAside", "replace", [apps EXCEPT !.target = "none", !.backup = apps.target])
CannotSetAside == Swap("setAside", "done", [apps EXCEPT !.staging = "none"])
Replace == Swap("replace", "done", [apps EXCEPT !.target = apps.staging, !.staging = "none"])
CannotReplace == Swap("replace", "restore", apps)
PutBack == Swap("restore", "done", [apps EXCEPT !.target = apps.backup, !.backup = "none", !.staging = "none"])
CannotPutBack == Swap("restore", "done", [apps EXCEPT !.staging = "none"])

PublishInstall ==
    /\ job.kind = "install" /\ job.pc = "done" /\ job' = NoJob
    /\ st' = [st EXCEPT !.status = CASE ~job.ok -> "Error"
                                     [] job.ok /\ os = "windows" -> "PreparedInstallation"
                                     [] OTHER -> "Installed"]
    /\ UNCHANGED <<os, cancel, files, sound, cmd, apps, code, live, unsaved, launched, downloads, crashes, since>>
\* launch_verified_windows_installer, and the window is told to close.
LaunchInstaller(started) ==
    /\ job.kind = "launch"
    /\ \/ /\ job.pc = "start" /\ started
          /\ launched' = <<[file |-> files[job.dir], live |-> live, unsaved |-> unsaved]>>
          /\ job' = NoJob /\ code' = "none" /\ st' = NoState
       \/ /\ job.pc = "done" \/ (job.pc = "start" /\ ~started)
          /\ job' = NoJob /\ st' = [st EXCEPT !.status = "Error"] /\ UNCHANGED <<launched, code>>
    /\ UNCHANGED <<os, cancel, files, sound, cmd, apps, live, unsaved, downloads, crashes, since>>

-----------------------------------------------------------------------------
(* The program ends, or is killed, and starts again.                        *)

QuitAfterUpdate ==
    /\ Ui /\ st.status = "Installed" /\ ~live /\ code' = "none" /\ st' = NoState /\ unsaved' = FALSE
    /\ UNCHANGED <<os, cancel, job, files, sound, cmd, apps, live, launched, downloads, crashes, since>>
Killed ==
    /\ code # "none" /\ crashes < MaxCrashes /\ crashes' = crashes + 1
    /\ code' = "none" /\ st' = NoState /\ job' = NoJob /\ cmd' = NoCmd /\ cancel' = FALSE
    /\ live' = FALSE /\ unsaved' = FALSE
    /\ UNCHANGED <<os, files, sound, apps, launched, downloads, since>>
Starts ==
    /\ code = "none" /\ launched = <<>> /\ apps.target # "none"
    /\ code' = apps.target /\ st' = [NoState EXCEPT !.status = "Checking"] /\ job' = Job("check", "ask", 0)
    /\ since' = downloads
    /\ UNCHANGED <<os, cancel, files, sound, cmd, apps, live, unsaved, launched, downloads, crashes>>

Thread ==
    \/ (\E found \in {"failed", "none", "newest"}, url \in BOOLEAN : CheckAnswers(found, url))
    \/ DownloadGoesOn \/ DownloadFails \/ PublishDownload
    \/ CommandStarts \/ CommandResumes \/ CommandPasses \/ CommandFails
    \/ VerifyChecksum \/ CreateStaging \/ SetAside \/ CannotSetAside \/ Replace \/ CannotReplace
    \/ PutBack \/ CannotPutBack \/ PublishInstall \/ (\E started \in BOOLEAN : LaunchInstaller(started))
Next ==
    \/ Thread \/ HelperStarts
    \/ CheckAgain \/ Download \/ CancelDownload \/ Install
    \/ (\E quiet \in BOOLEAN : FinishPreparedUpdate(quiet)) \/ Works
    \/ (\E d \in Dirs : Damage(d)) \/ QuitAfterUpdate \/ Killed \/ Starts

Spec == Init /\ [][Next]_vars

-----------------------------------------------------------------------------
\* Whatever step fails and whenever the program is killed, the application is
\* installed whole or the previous one is kept beside it, and the program only
\* reports an installation that happened.
AppIsKept ==
    /\ apps.target = "none" => apps.backup = "old"
    /\ apps.target \in {"none", "old", "new"}
    /\ st.status = "Installed" => apps.target = "new"
\* An installer is started from the bytes that were verified, with everything
\* saved and no terminal or shared session alive.
LaunchedIsVerified ==
    launched # <<>> => launched[1].file = "good" /\ sound /\ ~launched[1].live /\ ~launched[1].unsaved
\* Only the file the state names, or the one in progress, stays in the cache
\* of what this run of the program downloaded.
NoOrphanedDownload ==
    code # "none" => \A d \in Dirs : d > since /\ files[d] # "none" => d \in {st.path, job.dir}
\* No helper of a verification command outlives it.
NoStrayHelper == cmd.run = "none" => ~cmd.helpers
\* update.rs, update_install.rs: an update never leaves the user without the
\* program, never runs what was not verified and leaves nothing behind.
UpdatesAreSafe == AppIsKept /\ LaunchedIsVerified /\ NoOrphanedDownload /\ NoStrayHelper
=============================================================================
