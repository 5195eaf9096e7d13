----------------------------- MODULE MCAnswers ------------------------------
(* Who waits for a thread of the app and is answered, for TLC: the closes  *)
(* of hosted births, processes that are dropped, launches of agents, the   *)
(* conversation worker, exports, tasks, the file viewer and a shared       *)
(* session. The parts have nothing in common: part, chosen at the start,   *)
(* names the one a behaviour is of, and v1, v2, ... hold its variables, in *)
(* the order of its module, so that a run explores each part completely    *)
(* and no product of two.                                                  *)
EXTENDS HookRuntime, ChildLifetime, Naturals, TLC

CONSTANTS
    MaxAsks, MaxHelpers, MaxRuns, Ops, Capacity, MaxJobs, MaxExports, Repos,
    MaxSwitches, MaxExpiries, Paths, MaxOpens, MaxEdits, MaxDeaths, MaxShares,
    MaxFrames, MaxLinks, MaxReads, CommandCap, OutboundCap, EventCap, CGuests, CTerms,
    MaxStops, MaxRekeys, k1, r1, r2, g1, g2, o1, p1, t1

VARIABLES
    part,
    v1, v2, v3, v4, v5, v6, v7, v8, v9, v10, v11, v12, v13, v14, v15, v16, v17

Launch == INSTANCE AgentLaunch WITH
    draft <- v1, asks <- v2, memQ <- v3, memDone <- v4, wtQ <- v5, wtDone <- v6,
    pending <- v7, links <- v8, files <- v9, lease <- v10, panels <- v11,
    helpers <- v12, calls <- v13, ran <- v14, open <- v15, called <- v16, runs <- v17
Hub == INSTANCE ConversationHub WITH
    jobs <- v1, events <- v2, enabled <- v3, state <- v4, worker <- v5, errors <- v6,
    receipts <- v7, window <- v8, ack <- v9, after <- v10, failure <- v11, asked <- v12
Exports == INSTANCE ExportJobs WITH
    thread <- v1, jobs <- v2, results <- v3, sender <- v4, unavailable <- v5,
    active <- v6, window <- v7, asked <- v8, accepted <- v9, written <- v10,
    reported <- v11
Tasks == INSTANCE TasksTab WITH
    active <- v1, tab <- v2, tasks <- v3, gh <- v4, asked <- v5, answers <- v6,
    linear <- v7, review <- v8, launched <- v9, switches <- v10, expiries <- v11
Viewer == INSTANCE FileViewer WITH
    disk <- v1, viewer <- v2, worker <- v3, pc <- v4, opens <- v5, edits <- v6,
    deaths <- v7
Transport == INSTANCE CollabTransport WITH
    ui <- v1, tGen <- v2, closeReq <- v3, cmdQ <- v4, evQ <- v5, overflow <- v6,
    tpc <- v7, held <- v8, want <- v9, link <- v10, outbound <- v11, links <- v12,
    seen <- v13, gap <- v14, foreign <- v15
Manager == INSTANCE CollabManager WITH
    cm <- v1, hv <- v2, gv <- v3, jobs <- v4, outs <- v5, truth <- v6, shared <- v7

runtimeVars == <<leaf, gens, policy, held, permits, inflight, factories, effects, gate, claims,
                closing, cancelled, finishing, birth, refresh, closer, job, env,
                admission, pending, observed, queued, local, spawned, dead,
                shutdown>>
processVars == <<factory, attempt, proof, worker, terminating, channel, child, owned, reaped,
                alive, errors>>
mcvars ==
    <<part, runtimeVars, processVars, v1, v2, v3, v4, v5, v6, v7, v8, v9, v10, v11, v12,
      v13, v14, v15, v16, v17>>

after0 == <<v1, v2, v3, v4, v5, v6, v7, v8, v9, v10, v11, v12, v13, v14, v15, v16, v17>>
after7 == <<v8, v9, v10, v11, v12, v13, v14, v15, v16, v17>>
after11 == <<v12, v13, v14, v15, v16, v17>>
after12 == <<v13, v14, v15, v16, v17>>
after15 == <<v16, v17>>

\* A step of one part.
OfRuntime(A) == part = "runtime" /\ A /\ UNCHANGED <<part, after0, processVars>>
OfProcess(A) == part = "process" /\ A /\ UNCHANGED <<part, after0, runtimeVars>>
OfLaunch(A) == part = "launch" /\ A /\ UNCHANGED <<part, runtimeVars, processVars>>
OfHub(A) == part = "hub" /\ A /\ UNCHANGED <<part, after12, runtimeVars, processVars>>
OfExports(A) == part = "exports" /\ A /\ UNCHANGED <<part, after11, runtimeVars, processVars>>
OfTasks(A) == part = "tasks" /\ A /\ UNCHANGED <<part, after11, runtimeVars, processVars>>
OfViewer(A) == part = "viewer" /\ A /\ UNCHANGED <<part, after7, runtimeVars, processVars>>
OfTransport(A) == part = "transport" /\ A /\ UNCHANGED <<part, after15, runtimeVars, processVars>>
OfManager(A) == part = "manager" /\ A /\ UNCHANGED <<part, after7, runtimeVars, processVars>>

\* The variables past the n-th are not used.
Unused(n) ==
    /\ n < 1 => v1 = 0
    /\ n < 2 => v2 = 0
    /\ n < 3 => v3 = 0
    /\ n < 4 => v4 = 0
    /\ n < 5 => v5 = 0
    /\ n < 6 => v6 = 0
    /\ n < 7 => v7 = 0
    /\ n < 8 => v8 = 0
    /\ n < 9 => v9 = 0
    /\ n < 10 => v10 = 0
    /\ n < 11 => v11 = 0
    /\ n < 12 => v12 = 0
    /\ n < 13 => v13 = 0
    /\ n < 14 => v14 = 0
    /\ n < 15 => v15 = 0
    /\ n < 16 => v16 = 0
    /\ n < 17 => v17 = 0

MCInit ==
    \/ part = "runtime" /\ RuntimeInit /\ Unused(0) /\ LifetimeInit
    \/ part = "process" /\ LifetimeInit /\ Unused(0) /\ RuntimeInit
    \/ part = "launch" /\ Launch!Init /\ RuntimeInit /\ LifetimeInit
    \/ part = "hub" /\ Hub!Init /\ Unused(12) /\ RuntimeInit /\ LifetimeInit
    \/ part = "exports" /\ Exports!Init /\ Unused(11) /\ RuntimeInit /\ LifetimeInit
    \/ part = "tasks" /\ Tasks!Init /\ Unused(11) /\ RuntimeInit /\ LifetimeInit
    \/ part = "viewer" /\ Viewer!Init /\ Unused(7) /\ RuntimeInit /\ LifetimeInit
    \/ part = "transport" /\ Transport!Init /\ Unused(15) /\ RuntimeInit /\ LifetimeInit
    \/ part = "manager" /\ Manager!Init /\ Unused(7) /\ RuntimeInit /\ LifetimeInit

MCNext ==
    \/ OfRuntime(RuntimeNext)
    \/ OfProcess(LifetimeNext)
    \/ OfLaunch(Launch!Next)
    \/ OfHub(Hub!Next)
    \/ OfExports(Exports!Next)
    \/ OfTasks(Tasks!Next)
    \/ OfViewer(Viewer!Next)
    \/ OfTransport(Transport!Next)
    \/ OfManager(Manager!Next)

\* The fairness of each part, as its own module states it.  A behaviour is of one
\* part, so one condition can speak of an action of each.
MCFairness ==
    /\ WF_mcvars(
          \/ OfRuntime(BeginEffects \/ MemoryEffect \/ \E ok \in BOOLEAN : EndEffects(ok))
          \/ OfProcess(WorkerSteps)
          \/ OfLaunch(Launch!Prepare)
          \/ OfHub(Hub!Worker)
          \/ OfExports(Exports!TakeJob)
          \/ OfTasks(Tasks!Frame)
          \/ OfViewer(Viewer!CheckReader)
          \/ OfTransport(Transport!Thread)
          \/ OfManager(\E ok, done \in BOOLEAN : Manager!Post(ok, done)))
    /\ WF_mcvars(
          \/ OfRuntime(PublicationTimeout)
          \/ OfLaunch(\E ok \in BOOLEAN : Launch!CreateWorktree(ok))
          \/ OfHub(Hub!Closing)
          \/ OfExports(Exports!FinishJob)
          \/ OfTasks(Tasks!PollGhClient)
          \/ OfViewer(Viewer!Poll)
          \/ OfTransport(Transport!DrainEvents)
          \/ OfManager(\E sent \in BOOLEAN : Manager!ApplyOutcome(sent)))
    /\ WF_mcvars(
          \/ OfRuntime(UiClaims \/ UiDrops)
          \/ OfLaunch(Launch!PollMemory)
          \/ OfExports(Exports!EndThread)
          \/ OfTasks(Tasks!PollLinear)
          \/ OfManager(Manager!PollJoin))
    /\ WF_mcvars(
          \/ OfLaunch(Launch!PollReadyLaunch)
          \/ OfExports(Exports!PollExports)
          \/ OfTasks(\E o \in Tasks!Outcomes : Tasks!FetchSnapshot(o)))
    /\ WF_mcvars(
          \/ OfLaunch(\E n \in Launch!Asks, started \in BOOLEAN : Launch!RemoveRequest(n, started))
          \/ OfExports(Exports!Drain)
          \/ OfTasks(\E o \in Tasks!LinearOutcomes : Tasks!FetchLinear(o)))
    /\ WF_mcvars(OfExports(Exports!DropWorker))
    /\ WF_mcvars(OfExports(Exports!Join))
    /\ \A r \in Runtimes : WF_mcvars(OfRuntime(Finish(r)))
    /\ \A w \in Viewer!Workers : WF_mcvars(OfViewer(Viewer!Works(w)))

MCSpec == MCInit /\ [][MCNext]_mcvars /\ MCFairness
-----------------------------------------------------------------------------
\* Who waits, and when the wait is over.  Each part numbers what it waits for.
\* hook_runtime.rs: a confirmed close is written to the ledger.
\* terminal/child_lifetime.rs: a dropped process is reaped.
\* orchestration/agent_launcher.rs: the dialog is answered, the prompt file goes.
\* conversation/worker.rs, export_worker.rs: closing the app returns.
\* sidebar/tasks.rs, file_viewer_ui.rs: a repository's tasks and a file arrive.
\* collab/manager.rs: the dialog of a submitted join is released.
\* collab/transport.rs: the connection of a closed session ends, for good.
Awaited(n) ==
    \/ part = "runtime" /\ n \in 1..2 /\ ConfirmedClose(<<r1, r2>>[n])
    \/ part = "process" /\ n = 1 /\ Dropped
    \/ part = "launch" /\ n \in 1..2 /\ Launch!DialogWaits(n)
    \/ part = "launch" /\ n \in 3..4 /\ Launch!PromptStays(n - 2)
    \/ part = "hub" /\ n = 1 /\ Hub!IsClosing
    \/ part = "exports" /\ n = 1 /\ Exports!Busy
    \/ part = "exports" /\ n = 2 /\ Exports!IsDraining
    \/ part = "tasks" /\ n \in 1..2 /\ Tasks!Awaits(n)
    \/ part = "viewer" /\ n = 1 /\ Viewer!Unsettled
    \/ part = "manager" /\ n = 1 /\ Manager!JoinWaits
Answered(n) ==
    \/ part = "runtime" /\ n \in 1..2 /\ ~IsClosing(<<r1, r2>>[n])
    \/ part = "process" /\ Ends
    \/ part = "launch" /\ n \in 1..2 /\ Launch!DialogEnds(n)
    \/ part = "launch" /\ n \in 3..4 /\ Launch!PromptIsGone(n - 2)
    \/ part = "hub" /\ ~Hub!IsClosing
    \/ part = "exports" /\ n = 1 /\ ~Exports!Busy
    \/ part = "exports" /\ n = 2 /\ Exports!IsGone
    \/ part = "tasks" /\ n \in 1..2 /\ Tasks!Arrived(n)
    \/ part = "viewer" /\ Viewer!Settled
    \/ part = "manager" /\ ~Manager!JoinWaits
AnswersArrive ==
    /\ \A n \in 1..4 : Awaited(n) ~> Answered(n)
    /\ [](part = "transport" /\ Transport!LastIsClosed
             => <>[](part = "transport" /\ Transport!Unlinked))
=============================================================================
