---------------------------- MODULE AgentLaunch ----------------------------
(* The launch of an agent: the dialog and the issues that ask for one, the  *)
(* worker that loads the memory and writes the one-shot request file        *)
(* (app/orchestration_ui.rs, orchestration/agent_launcher.rs), the worker   *)
(* that makes the worktree (orchestration/git.rs), the pending launches of  *)
(* orchestration/manager.rs, the panel that is spawned, and the helper      *)
(* process in its shell that consumes the request.  A request names its     *)
(* session record and its file; prompts, paths and labels are left out.     *)
EXTENDS Naturals, Sequences, FiniteSets

CONSTANTS
    MaxAsks,    \* bound on the launches asked for
    MaxHelpers, \* bound on the runs of a helper command
    MaxRuns     \* bound on the runs of the application

VARIABLES
    draft,      \* LaunchAgentDraft: pending_memory and pending_session
    asks,       \* who asked for each launch
    memQ,       \* jobs of the memory worker
    memDone,    \* its completions, not yet polled
    wtQ,        \* jobs of the worktree worker
    wtDone,     \* its results, not yet polled
    pending,    \* Orchestrator::pending_launches
    links,      \* pending_issue_links
    files,      \* request files in agent-launches/
    lease,      \* what became of each request's lease
    panels,     \* panels spawned for each launch
    helpers,    \* helper processes between their read and their removal
    calls,      \* runs of each helper command so far
    ran,        \* agents started for each launch
    open,       \* the workspace is open
    called,     \* launches the user or a failure called off (history)
    runs        \* runs of the application

ui == <<draft, asks, pending, links, panels, open, called>>
workers == <<memQ, memDone, wtQ, wtDone>>
disk == <<files, lease, helpers, calls, ran, runs>>
vars == <<draft, asks, memQ, memDone, wtQ, wtDone, pending, links, files, lease, panels,
          helpers, calls, ran, open, called, runs>>

Asks == 1..MaxAsks
Unset == 0
NoDraft == [shown |-> FALSE, mem |-> Unset, ses |-> Unset]
Draft == [NoDraft EXCEPT !.shown = TRUE]

Init ==
    /\ draft = NoDraft /\ asks = <<>> /\ open = TRUE
    /\ memQ = <<>> /\ memDone = <<>> /\ wtQ = <<>> /\ wtDone = <<>>
    /\ pending = {} /\ links = {} /\ called = {} /\ runs = 1
    /\ files = {} /\ helpers = {}
    /\ lease = [n \in Asks |-> "none"]
    /\ panels = [n \in Asks |-> 0] /\ calls = [n \in Asks |-> 0] /\ ran = [n \in Asks |-> 0]

\* Faulty variant: nothing removes the file of a lease that is dropped.
DroppedOnly(l, gone) == l

\* Lease::drop leaves the removal to a thread, unless the file was handed off.
Dropped(l, gone) == [n \in Asks |-> IF n \in gone /\ l[n] = "held" THEN "dropped" ELSE l[n]]

-----------------------------------------------------------------------------
(* What asks for a launch.                                                 *)

\* The dialog, opened by the user or by a capture of the browser.
OpenDialog ==
    /\ ~draft.shown
    /\ draft' = Draft
    /\ UNCHANGED <<asks, pending, links, panels, open, called>> /\ UNCHANGED <<workers, disk>>

Ask(source) ==
    /\ Len(asks) < MaxAsks
    /\ asks' = Append(asks, source)
    /\ memQ' = Append(memQ, Len(asks) + 1)
    /\ UNCHANGED <<memDone, wtQ, wtDone, pending, links, panels, open, called, disk>>

\* Launch does nothing while an earlier submission is pending.
SubmitLaunchAgent ==
    /\ draft.shown /\ draft.mem = Unset /\ draft.ses = Unset
    /\ draft' = [draft EXCEPT !.mem = Len(asks) + 1]
    /\ Ask("manual")

StartWorkOnIssue ==
    /\ open
    /\ UNCHANGED draft
    /\ Ask("issue")

-----------------------------------------------------------------------------
(* The workers.                                                            *)

\* Requests of earlier runs are more than a day old when one is removed.
Stale == {n \in files : lease[n] = "lost"}

\* The memory worker: agent_launcher::prepare writes a request, or the
\* provider takes its prompt on the command line, or something fails.
PrepareRequest(how) ==
    /\ memQ # <<>>
    /\ LET n == Head(memQ) IN
       /\ memQ' = Tail(memQ)
       /\ memDone' = Append(memDone, [ask |-> n, ok |-> how # "error"])
       /\ \E old \in SUBSET Stale :
             files' = IF how = "file" THEN (files \ old) \cup {n} ELSE files
       /\ lease' = IF how = "file" THEN [lease EXCEPT ![n] = "held"] ELSE lease
    /\ UNCHANGED <<wtQ, wtDone, helpers, calls, ran, runs>> /\ UNCHANGED ui

\* Faulty variant: only a success is reported.
CreateWorktreeQuietly(ok) ==
    /\ wtQ # <<>>
    /\ wtQ' = Tail(wtQ)
    /\ wtDone' = IF ok THEN Append(wtDone, [ask |-> Head(wtQ), ok |-> ok]) ELSE wtDone
    /\ UNCHANGED <<memQ, memDone>> /\ UNCHANGED <<ui, disk>>

\* git worktree add, killed when it takes too long.
CreateWorktree(ok) ==
    /\ wtQ # <<>>
    /\ wtQ' = Tail(wtQ)
    /\ wtDone' = Append(wtDone, [ask |-> Head(wtQ), ok |-> ok])
    /\ UNCHANGED <<memQ, memDone>> /\ UNCHANGED <<ui, disk>>

\* The thread of Lease::drop; when it cannot be started the file waits for
\* the removal of stale requests.
RemoveRequest(n, started) ==
    /\ lease[n] = "dropped"
    /\ files' = IF started THEN files \ {n} ELSE files
    /\ lease' = [lease EXCEPT ![n] = IF started THEN "none" ELSE "lost"]
    /\ UNCHANGED <<helpers, calls, ran, runs>> /\ UNCHANGED <<ui, workers>>

-----------------------------------------------------------------------------
(* poll_pending_launches, one completion at a time.                        *)

\* spawn_agent_panel hands the request over to the shell of the new panel.
SpawnAgentPanel(n) ==
    /\ panels' = [panels EXCEPT ![n] = @ + 1]
    /\ lease' = [lease EXCEPT ![n] = IF @ = "held" THEN "handed" ELSE @]

\* Faulty variant: the completion of a cancelled dialog is used.
WantedByAnyone(n) == open

\* A completion is used if its workspace is there and, for the dialog, if the
\* draft still waits for it.
Wanted(n) == open /\ (asks[n] = "manual" => draft.mem = n)

PollMemoryLaunch(worktree, queued) ==
    /\ memDone # <<>>
    /\ LET done == Head(memDone)
           n == done.ask
           manual == asks[n] = "manual"
           kept == [draft EXCEPT !.mem = IF manual THEN Unset ELSE @]
           Fails == /\ lease' = Dropped(lease, {n})
                    /\ called' = called \cup {n}
                    /\ UNCHANGED <<wtQ, pending, links, panels>> IN
       /\ memDone' = Tail(memDone)
       /\ \/ /\ ~Wanted(n)
             /\ Fails /\ UNCHANGED draft
          \/ /\ Wanted(n) /\ (done.ok => worktree /\ ~queued)
             /\ Fails /\ draft' = kept
          \/ /\ Wanted(n) /\ done.ok /\ worktree /\ queued
             /\ pending' = pending \cup {n}
             /\ wtQ' = Append(wtQ, n)
             /\ links' = IF manual THEN links ELSE links \cup {n}
             /\ draft' = IF manual THEN [kept EXCEPT !.ses = n] ELSE draft
             /\ UNCHANGED <<lease, panels, called>>
          \/ /\ Wanted(n) /\ done.ok /\ ~worktree
             /\ SpawnAgentPanel(n)
             /\ draft' = IF manual THEN NoDraft ELSE draft
             /\ UNCHANGED <<wtQ, pending, links, called>>
    /\ UNCHANGED <<asks, memQ, wtDone, files, helpers, calls, ran, open, runs>>

\* Faulty variant: a result is used whether its launch is pending or not.
AcceptedAlways(n) == open

\* accept_worktree_results ignores what is no longer pending.
Accepted(n) == n \in pending

PollReadyLaunch ==
    /\ wtDone # <<>>
    /\ LET n == Head(wtDone).ask
           ok == Head(wtDone).ok IN
       /\ wtDone' = Tail(wtDone)
       /\ \/ /\ ~Accepted(n)
             /\ UNCHANGED <<draft, pending, links, lease, panels, called>>
          \/ /\ Accepted(n) /\ ok
             /\ SpawnAgentPanel(n)
             /\ pending' = pending \ {n}
             /\ links' = links \ {n}
             /\ draft' = IF draft.ses = n THEN NoDraft ELSE draft
             /\ UNCHANGED called
          \/ /\ Accepted(n) /\ ~ok
             /\ pending' = pending \ {n}
             /\ lease' = Dropped(lease, {n})
             /\ called' = called \cup {n}
             /\ draft' = IF draft.ses = n THEN [draft EXCEPT !.ses = Unset] ELSE draft
             /\ UNCHANGED <<links, panels>>
    /\ UNCHANGED <<asks, memQ, memDone, wtQ, files, helpers, calls, ran, open, runs>>

-----------------------------------------------------------------------------
(* What calls a launch off.                                                *)

CancelDialog ==
    /\ draft.shown
    /\ LET n == draft.ses IN
       /\ pending' = pending \ {n}
       /\ links' = links \ {n}
       /\ lease' = Dropped(lease, pending \cap {n})
    /\ called' = called \cup ({draft.mem, draft.ses} \ {Unset})
    /\ draft' = NoDraft
    /\ UNCHANGED <<asks, panels, open, files, helpers, calls, ran, runs>> /\ UNCHANGED workers

\* cancel_workspace_launches
CloseWorkspace ==
    /\ open
    /\ open' = FALSE
    /\ pending' = {}
    /\ lease' = Dropped(lease, pending)
    /\ called' = called \cup pending
    /\ UNCHANGED <<draft, asks, links, panels, files, helpers, calls, ran, runs>> /\ UNCHANGED workers

\* The process ends: its queues go, the request files stay.  The shells that
\* outlive it keep their helpers.
Restart ==
    /\ runs < MaxRuns
    /\ runs' = runs + 1
    /\ draft' = NoDraft /\ open' = TRUE /\ pending' = {} /\ links' = {}
    /\ memQ' = <<>> /\ memDone' = <<>> /\ wtQ' = <<>> /\ wtDone' = <<>>
    /\ lease' = [n \in Asks |-> IF lease[n] \in {"held", "dropped", "handed"} THEN "lost" ELSE lease[n]]
    /\ called' = called \cup {n \in DOMAIN asks : panels[n] = 0}
    /\ UNCHANGED <<asks, panels, files, helpers, calls, ran>>

-----------------------------------------------------------------------------
(* The helper, --run-agent in the shell of the panel.  The shell may run    *)
(* the line again, also while an earlier run is under way.                  *)

HelperReads(n) ==
    /\ panels[n] > 0 /\ n \in files
    /\ calls[n] < MaxHelpers
    /\ calls' = [calls EXCEPT ![n] = @ + 1]
    /\ helpers' = helpers \cup {<<n, calls[n]>>}
    /\ UNCHANGED <<files, lease, ran, runs>> /\ UNCHANGED <<ui, workers>>

\* Faulty variant: the agent starts whether or not the removal succeeded.
HelperStartsAnyway(h) ==
    /\ h \in helpers
    /\ helpers' = helpers \ {h}
    /\ files' = files \ {h[1]}
    /\ ran' = [ran EXCEPT ![h[1]] = @ + 1]
    /\ UNCHANGED <<lease, calls, runs>> /\ UNCHANGED <<ui, workers>>

\* remove_file fails for all but one of the readers, and they stop.
HelperStarts(h) ==
    /\ h \in helpers
    /\ helpers' = helpers \ {h}
    /\ files' = files \ {h[1]}
    /\ ran' = [ran EXCEPT ![h[1]] = IF h[1] \in files THEN @ + 1 ELSE @]
    /\ UNCHANGED <<lease, calls, runs>> /\ UNCHANGED <<ui, workers>>

-----------------------------------------------------------------------------
PollMemory == \E worktree, queued \in BOOLEAN : PollMemoryLaunch(worktree, queued)
Prepare == \E how \in {"file", "native", "error"} : PrepareRequest(how)

Next ==
    \/ OpenDialog \/ SubmitLaunchAgent \/ StartWorkOnIssue
    \/ Prepare
    \/ \E ok \in BOOLEAN : CreateWorktree(ok)
    \/ \E n \in Asks, started \in BOOLEAN : RemoveRequest(n, started)
    \/ PollMemory \/ PollReadyLaunch
    \/ CancelDialog \/ CloseWorkspace \/ Restart
    \/ \E n \in Asks : HelperReads(n)
    \/ \E h \in helpers : HelperStarts(h)

\* The two workers take their next job, the frame polls both, and the removal
\* thread runs.
Fairness ==
    /\ WF_vars(Prepare)
    /\ WF_vars(\E ok \in BOOLEAN : CreateWorktree(ok))
    /\ WF_vars(PollMemory) /\ WF_vars(PollReadyLaunch)
    /\ WF_vars(\E n \in Asks, started \in BOOLEAN : RemoveRequest(n, started))

Spec == Init /\ [][Next]_vars /\ Fairness
-----------------------------------------------------------------------------
\* `its late completion cannot launch a process': a launch that was called
\* off, failed or lost its workspace gets no panel, and no launch gets two.
CalledOffNeverStarts ==
    /\ \A n \in called : panels[n] = 0
    /\ \A n \in Asks : panels[n] <= 1

\* The request of a launch starts at most one agent, however often the helper
\* is run, and only for a launch with a panel; until it is consumed the
\* request is there for the shell it was handed to.
RequestIsOneShot ==
    \A n \in Asks :
        /\ ran[n] <= panels[n]
        /\ lease[n] = "handed" => n \in files \/ ran[n] = 1
        /\ lease[n] = "held" => n \in files

LaunchIsSafe == CalledOffNeverStarts /\ RequestIsOneShot

DialogWaits(n) == n \in {draft.mem, draft.ses}
DialogEnds(n) == n \notin {draft.mem, draft.ses} \/ ~open

\* The dialog does not wait for ever: a submission is answered by a panel or
\* an error unless its workspace is closed meanwhile.
DialogIsAnswered ==
    \A n \in Asks : DialogWaits(n) ~> DialogEnds(n)

PromptStays(n) == n \in called /\ n \in files
PromptIsGone(n) == n \notin files \/ lease[n] = "lost"

\* The prompt of a launch that was called off is removed from the disk, or
\* left to the removal of stale requests.
PromptIsRemoved ==
    \A n \in Asks : PromptStays(n) ~> PromptIsGone(n)
=============================================================================
