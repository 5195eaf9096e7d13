----------------------------- MODULE MCSessions -----------------------------
(* What several parties take part in, for TLC: the daemon's registry with  *)
(* its clients, the sessions an app recovers from it, conversations that   *)
(* delegate to each other, and the three parts of a shared session. The    *)
(* parts have nothing in common: part, chosen at the start, names the one  *)
(* a behaviour is of, and v1, v2, ... hold its variables, in the order of  *)
(* its module, so that a run explores each part completely and no product  *)
(* of two.                                                                 *)
EXTENDS DaemonRegistry, Naturals, TLC

CONSTANTS
    Chats, MaxOps, MaxChanges, MAX_PENDING_TRANSFERS, MAX_DELEGATION_DEPTH,
    MAX_ROOT_TRANSFERS, MaxShares, MaxFrames, MaxLinks, MaxReads, CommandCap,
    OutboundCap, EventCap, CGuests, CTerms, MaxStops, MaxRekeys, MaxJobs, BrokerGuests,
    brokerMaxConns, MaxGuests, MaxVerifications, MaxRotations, MaxLeases, MaxResizes,
    MaxLosses, QueueCapacity, s1, c1, c2, a, b, g1, g2, t1

VARIABLES
    part,
    v1, v2, v3, v4, v5, v6, v7, v8, v9, v10, v11, v12, v13, v14, v15

Chat == INSTANCE ConversationStore WITH
    run <- v1, seen <- v2, rows <- v3, reg <- v4, provider <- v5, links <- v6,
    cred <- v7, transfers <- v8, hand <- v9, receipts <- v10, typed <- v11,
    barred <- v12, changes <- v13
Transport == INSTANCE CollabTransport WITH
    ui <- v1, tGen <- v2, closeReq <- v3, cmdQ <- v4, evQ <- v5, overflow <- v6,
    tpc <- v7, held <- v8, want <- v9, link <- v10, outbound <- v11, links <- v12,
    seen <- v13, gap <- v14, foreign <- v15
Manager == INSTANCE CollabManager WITH
    cm <- v1, hv <- v2, gv <- v3, jobs <- v4, outs <- v5, truth <- v6, shared <- v7
Broker == INSTANCE CollabBroker WITH
    share <- v1, hostLink <- v2, seats <- v3, joins <- v4, permits <- v5,
    upgrading <- v6, socks <- v7, verdict <- v8, MaxConns <- brokerMaxConns
Recovery == INSTANCE RemoteRecovery WITH
    lease <- v1, queue <- v2, stopping <- v3, worker <- v4, prefer <- v5, session <- v6,
    ui <- v7, daemon <- v8, losses <- v9

registryVars == <<sessions, tombstones, claimants, conns, idle_since, asked, ledger, wire, shows,
                 attached, confirmed, child, killed>>
mcvars == <<part, registryVars, v1, v2, v3, v4, v5, v6, v7, v8, v9, v10, v11, v12, v13, v14, v15>>

after0 == <<v1, v2, v3, v4, v5, v6, v7, v8, v9, v10, v11, v12, v13, v14, v15>>
after7 == <<v8, v9, v10, v11, v12, v13, v14, v15>>
after8 == <<v9, v10, v11, v12, v13, v14, v15>>
after9 == <<v10, v11, v12, v13, v14, v15>>
after13 == <<v14, v15>>

\* A step of one part.
OfRegistry(A) == part = "registry" /\ A /\ UNCHANGED <<part, after0>>
OfChats(A) == part = "chats" /\ A /\ UNCHANGED <<part, after13, registryVars>>
OfTransport(A) == part = "transport" /\ A /\ UNCHANGED <<part, registryVars>>
OfManager(A) == part = "manager" /\ A /\ UNCHANGED <<part, after7, registryVars>>
OfBroker(A) == part = "broker" /\ A /\ UNCHANGED <<part, after8, registryVars>>
OfRecovery(A) == part = "recovery" /\ A /\ UNCHANGED <<part, after9, registryVars>>

\* The variables past the n-th are not used.
Unused(n) ==
    /\ n < 1 => v1 = 0
    /\ n < 2 => v2 = 0
    /\ n < 3 => v3 = 0
    /\ n < 4 => v4 = 0
    /\ n < 5 => v5 = 0
    /\ n < 6 => v6 = 0
    /\ n < 7 => v7 = 0
    /\ n < 8 => v8 = 0
    /\ n < 9 => v9 = 0
    /\ n < 10 => v10 = 0
    /\ n < 11 => v11 = 0
    /\ n < 12 => v12 = 0
    /\ n < 13 => v13 = 0
    /\ n < 14 => v14 = 0
    /\ n < 15 => v15 = 0

MCInit ==
    \/ part = "registry" /\ Init /\ Unused(0)
    \/ part = "chats" /\ Chat!Init /\ Unused(13) /\ Init
    \/ part = "transport" /\ Transport!Init /\ Init
    \/ part = "manager" /\ Manager!Init /\ Unused(7) /\ Init
    \/ part = "broker" /\ Broker!Init /\ Unused(8) /\ Init
    \/ part = "recovery" /\ Recovery!Init /\ Unused(9) /\ Init

MCNext ==
    \/ OfRegistry(Next)
    \/ OfChats(Chat!Next)
    \/ OfTransport(Transport!Next)
    \/ OfManager(Manager!Next)
    \/ OfBroker(Broker!Next)
    \/ OfRecovery(Recovery!Next)

MCSpec == MCInit /\ [][MCNext]_mcvars

ClientSymmetry == Permutations(Clients)
-----------------------------------------------------------------------------
\* conversation/store.rs: a transfer is delivered and answered at most once,
\* within its bounds.
TransfersAreSound == part = "chats" => Chat!TransfersAreSound

\* collab/transport.rs: no frame on another session's connection and no gap
\* within one.
\* collab/manager.rs: what the program shows of a session agrees with itself.
\* collab/broker.rs: seats, verification slots, approvals and connections.
SharingIsSound ==
    /\ part = "transport" => Transport!OwnFramesOnly /\ Transport!NoGap
    /\ part = "manager" => Manager!SessionsAgree
    /\ part = "broker" => Broker!Admission

\* runtime/pty_manager.rs: one identity has one process, and nothing is left of
\* a session that was closed.
RecoveryIsSafe == part = "recovery" => Recovery!RecoveryIsSafe
=============================================================================
