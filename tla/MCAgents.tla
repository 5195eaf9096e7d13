------------------------------ MODULE MCAgents ------------------------------
(* What the app does for its agents, for TLC: the gates of births hosted   *)
(* by the daemon, launches, the records of the sessions, the hook server   *)
(* and the prompts typed for them. The parts have nothing in common: part, *)
(* chosen at the start, names the one a behaviour is of, and v1, v2, ...   *)
(* hold its variables, in the order of its module, so that a run explores  *)
(* each part completely and no product of two.                             *)
EXTENDS HookRuntime, Naturals, TLC

CONSTANTS
    MaxAsks, MaxHelpers, MaxRuns, OPanels, HookStates, MaxBirths, MaxRecords, Apps,
    Ports, Kinds, MaxInputs, HOOK_EVENT_QUEUE_CAPACITY, DESIGN_CAPTURE_QUEUE_CAPACITY,
    promptsPanels, MaxTexts, MaxReplaced, MAX_INPUT_BYTES, k1, r1, g1, o1, o2, p1

VARIABLES
    part,
    v1, v2, v3, v4, v5, v6, v7, v8, v9, v10, v11, v12, v13, v14, v15, v16, v17

Launch == INSTANCE AgentLaunch WITH
    draft <- v1, asks <- v2, memQ <- v3, memDone <- v4, wtQ <- v5, wtDone <- v6,
    pending <- v7, links <- v8, files <- v9, lease <- v10, panels <- v11,
    helpers <- v12, calls <- v13, ran <- v14, open <- v15, called <- v16, runs <- v17
Records == INSTANCE AgentRecords WITH
    world <- v1, orc <- v2
Server == INSTANCE HookServer WITH
    phase <- v1, port <- v2, endpoint <- v3, settings <- v4, loaded <- v5, hooks <- v6,
    captures <- v7, files <- v8, queue <- v9, seen <- v10, designs <- v11, draft <- v12,
    staged <- v13, memory <- v14, others <- v15
Prompts == INSTANCE PromptDelivery WITH
    term <- v1, writer <- v2, typed <- v3, texts <- v4, channel <- v5, receipt <- v6,
    broadcast <- v7, Panels <- promptsPanels

runtimeVars == <<leaf, gens, policy, held, permits, inflight, factories, effects, gate, claims,
                closing, cancelled, finishing, birth, refresh, closer, job, env,
                admission, pending, observed, queued, local, spawned, dead,
                shutdown>>
mcvars == <<part, runtimeVars, v1, v2, v3, v4, v5, v6, v7, v8, v9, v10, v11, v12, v13, v14, v15, v16, v17>>

after0 == <<v1, v2, v3, v4, v5, v6, v7, v8, v9, v10, v11, v12, v13, v14, v15, v16, v17>>
after2 == <<v3, v4, v5, v6, v7, v8, v9, v10, v11, v12, v13, v14, v15, v16, v17>>
after7 == <<v8, v9, v10, v11, v12, v13, v14, v15, v16, v17>>
after15 == <<v16, v17>>

\* A step of one part.
OfRuntime(A) == part = "runtime" /\ A /\ UNCHANGED <<part, after0>>
OfLaunch(A) == part = "launch" /\ A /\ UNCHANGED <<part, runtimeVars>>
OfRecords(A) == part = "records" /\ A /\ UNCHANGED <<part, after2, runtimeVars>>
OfServer(A) == part = "server" /\ A /\ UNCHANGED <<part, after15, runtimeVars>>
OfPrompts(A) == part = "prompts" /\ A /\ UNCHANGED <<part, after7, runtimeVars>>

\* The variables past the n-th are not used.
Unused(n) ==
    /\ n < 1 => v1 = 0
    /\ n < 2 => v2 = 0
    /\ n < 3 => v3 = 0
    /\ n < 4 => v4 = 0
    /\ n < 5 => v5 = 0
    /\ n < 6 => v6 = 0
    /\ n < 7 => v7 = 0
    /\ n < 8 => v8 = 0
    /\ n < 9 => v9 = 0
    /\ n < 10 => v10 = 0
    /\ n < 11 => v11 = 0
    /\ n < 12 => v12 = 0
    /\ n < 13 => v13 = 0
    /\ n < 14 => v14 = 0
    /\ n < 15 => v15 = 0
    /\ n < 16 => v16 = 0
    /\ n < 17 => v17 = 0

MCInit ==
    \/ part = "runtime" /\ RuntimeInit /\ Unused(0)
    \/ part = "launch" /\ Launch!Init /\ RuntimeInit
    \/ part = "records" /\ Records!Init /\ Unused(2) /\ RuntimeInit
    \/ part = "server" /\ Server!Init /\ Unused(15) /\ RuntimeInit
    \/ part = "prompts" /\ Prompts!Init /\ Unused(7) /\ RuntimeInit

MCNext ==
    \/ OfRuntime(RuntimeNext)
    \/ OfLaunch(Launch!Next)
    \/ OfRecords(Records!Next)
    \/ OfServer(Server!Next)
    \/ OfPrompts(Prompts!Next)

MCSpec == MCInit /\ [][MCNext]_mcvars

\* Without what no action of the runtime reads: the policy, the shadow of the
\* lock and the last effect.
AgentsView ==
    <<part, leaf, gens, permits, inflight, factories, registries, birth, workers, hooks,
      locals, hosts, exit, after0>>
-----------------------------------------------------------------------------
\* orchestration/hook_server.rs and claude_hooks.rs: an event is of the app and
\* the session it names, and the hooks installed are those of the last app.
HookServerIsSound == part = "server" => Server!HookServerIsSound

\* orchestration/agent_launcher.rs, runtime/prompt_delivery.rs and
\* orchestration/manager.rs: what is started or typed for an agent is what was
\* asked for, where it was asked for, and the records agree with the terminals.
AgentsGetWhatWasAsked ==
    /\ part = "launch" => Launch!LaunchIsSafe
    /\ part = "prompts" => Prompts!PromptsAreSafe
    /\ part = "records" => Records!RecordsAreRight
=============================================================================
