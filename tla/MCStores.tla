------------------------------ MODULE MCStores ------------------------------
(* What several processes or actors change, for TLC: the profile two runs  *)
(* of the app use one after the other, the memory of the agents, the       *)
(* status they write into their terminal and the worker of the             *)
(* conversations. The parts have nothing in common: part, chosen at the    *)
(* start, names the one a behaviour is of, and v1, v2, ... hold its        *)
(* variables, in the order of its module, so that a run explores each part *)
(* completely and no product of two.                                       *)
EXTENDS ConversationHub, Naturals, TLC

CONSTANTS
    Insts, Panels, Old, None, MaxRev, MaxOut, Overlap, Projects, Actors, Texts, MaxReqs,
    MaxRows, memoryMaxRev, MaxHandoffs, LooseKinds, MaxWrites, MaxReports, MaxTitles,
    MaxTime, MaxAttaches, MAX_PAYLOAD, MAX_CODE_DIGITS, TTL, i1, i2, p1

VARIABLES
    part,
    v1, v2, v3, v4, v5, v6, v7, v8, v9, v10, v11, v12, v13, v14, v15

Profile == INSTANCE ProfileSaving WITH
    marker <- v1, lock <- v2, layout <- v3, disk <- v4, app <- v5, worker <- v6,
    closed <- v7
Memory == INSTANCE MemoryStore WITH
    rows <- v1, fts <- v2, revs <- v3, appended <- v4, link <- v5, tasks <- v6,
    handoffs <- v7, sent <- v8, receipts <- v9, applied <- v10, MaxRev <- memoryMaxRev
Status == INSTANCE AgentStatus WITH
    tty <- v1, read <- v2, stream <- v3, clean <- v4, parsed <- v5, report <- v6,
    raw <- v7, title <- v8, lastMeta <- v9, wire <- v10, cstream <- v11, creport <- v12,
    now <- v13, writes <- v14, attaches <- v15

hubVars == <<jobs, events, enabled, state, worker, errors, receipts, window, ack, after,
            failure, asked>>
mcvars == <<part, hubVars, v1, v2, v3, v4, v5, v6, v7, v8, v9, v10, v11, v12, v13, v14, v15>>

after0 == <<v1, v2, v3, v4, v5, v6, v7, v8, v9, v10, v11, v12, v13, v14, v15>>
after7 == <<v8, v9, v10, v11, v12, v13, v14, v15>>
after10 == <<v11, v12, v13, v14, v15>>

\* A step of one part.
OfTakeover(A) == part = "takeover" /\ A /\ UNCHANGED <<part, after7, hubVars>>
OfMemory(A) == part = "memory" /\ A /\ UNCHANGED <<part, after10, hubVars>>
OfStatus(A) == part = "status" /\ A /\ UNCHANGED <<part, hubVars>>
OfHub(A) == part = "hub" /\ A /\ UNCHANGED <<part, after0>>

\* The variables past the n-th are not used.
Unused(n) ==
    /\ n < 1 => v1 = 0
    /\ n < 2 => v2 = 0
    /\ n < 3 => v3 = 0
    /\ n < 4 => v4 = 0
    /\ n < 5 => v5 = 0
    /\ n < 6 => v6 = 0
    /\ n < 7 => v7 = 0
    /\ n < 8 => v8 = 0
    /\ n < 9 => v9 = 0
    /\ n < 10 => v10 = 0
    /\ n < 11 => v11 = 0
    /\ n < 12 => v12 = 0
    /\ n < 13 => v13 = 0
    /\ n < 14 => v14 = 0
    /\ n < 15 => v15 = 0

MCInit ==
    \/ part = "takeover" /\ Profile!Init /\ Unused(7) /\ Init
    \/ part = "memory" /\ Memory!Init /\ Unused(10) /\ Init
    \/ part = "status" /\ Status!Init /\ Init
    \/ part = "hub" /\ Init /\ Unused(0)

MCNext ==
    \/ OfTakeover(Profile!Next)
    \/ OfMemory(Memory!Next)
    \/ OfStatus(Status!Next)
    \/ OfHub(Next)

MCSpec == MCInit /\ [][MCNext]_mcvars

\* Runs of the app are interchangeable.
Interchangeable == Permutations(Insts)

\* With two runs of the app, either the layout is edited or one of them has
\* output.
HasOutput(i) == \E p \in Panels : v5[i].grid[p][i] # 0
EditsOrOutput ==
    part = "takeover" =>
        \/ \A i \in Insts : ~HasOutput(i)
        \/ /\ \A i \in Insts : v5[i].rev = 0
           /\ \A i, j \in Insts : HasOutput(i) /\ HasOutput(j) => i = j

\* The titles of a terminal have no part in what expires: time passes without one.
TitleOrTime == part = "status" => v8 = 0 \/ v13 = 0

Explored == EditsOrOutput /\ TitleOrTime
-----------------------------------------------------------------------------
\* memory/store.rs: what an agent writes into the memory stays a proposal.
AgentsOnlyPropose == [][part = "memory" => Memory!AgentsPropose]_mcvars


\* memory/store.rs: the tables of the memory agree with each other.
\* terminal/agent_status.rs: a report reaches the client of its own session, as
\* it was written.
RowsAndReportsAreFaithful ==
    /\ part = "memory" => Memory!MemoryIsCoherent
    /\ part = "status" => Status!StatusIsFaithful

\* state/persistence.rs and state/run_marker.rs: only the owner of the profile
\* writes it, never an older layout, and no project vanishes from it.
ProfileHasOneOwner ==
    [][part = "takeover" =>
          Profile!NewerLayoutWins /\ Profile!OwnerWrites /\ Profile!ProjectsStay]_mcvars
=============================================================================
