--------------------------- MODULE AgentRecords ---------------------------
(* Agent sessions: the records orchestration/manager.rs keeps of the        *)
(* terminals of a workspace, and the hooks, observations and git results    *)
(* that update them (with the glue in app/orchestration_ui.rs).  It all     *)
(* runs on the UI thread but for the git worker.  Births stand for runtime  *)
(* sessions and their hook claims; session records have ids of their own.   *)
(* How a launch comes to be ready is the subject of AgentLaunch.  Labels,   *)
(* summaries, dates and the text heuristics are left out; dependencies      *)
(* between tasks have no caller.                                            *)
EXTENDS Naturals, Sequences, FiniteSets, FiniteSetsExt, SequencesExt

CONSTANTS
    OPanels,    \* panel ids, in the order of creation
    HookStates, \* the statuses hooks of a live shell report
    MaxBirths,  \* bound on the shells started
    MaxRecords  \* bound on the session records made

VARIABLES
    world,  \* the panels, as the workspace shows them
    orc     \* the Orchestrator and agent_status_seen

vars == <<world, orc>>

\* Both kinds of id are fresh UUIDs: no record id is a runtime id.
Births == (MaxRecords + 1)..(MaxRecords + MaxBirths)
Records == 1..MaxRecords
Unset == 0
Absent == [panel |-> Unset, rt |-> Unset, status |-> "absent", from |-> Unset, files |-> Unset]
Exists(o, s) == o.ses[s] # Absent

Init ==
    /\ world = [open |-> TRUE, leaves |-> [p \in OPanels |-> {}], focus |-> [p \in OPanels |-> Unset],
                life |-> [b \in Births |-> "unborn"], claimed |-> {}]
    /\ orc = [ses |-> [s \in Records |-> Absent], hook |-> [s \in Records |-> Unset],
              birth |-> [s \in Records |-> Unset], hs |-> [b \in Births |-> "none"],
              inbox |-> {}, task |-> [s \in Records |-> "none"], seen |-> [s \in Records |-> "none"],
              asked |-> {}, launching |-> {}, alerts |-> {}, next |-> 1]

Shown(w) == {p \in OPanels : w.leaves[p] # {}}
LiveClaims(w) == UNION {w.leaves[p] : p \in OPanels} \cap w.claimed
PanelOfBirth(w, b) == CHOOSE p \in OPanels : b \in w.leaves[p]
Unborn(w) == {b \in Births : w.life[b] = "unborn"}

-----------------------------------------------------------------------------
(* Reconciliation of the records with the panels.                          *)

\* Status and summaries of another birth are no evidence about this one.
Forget(r) == [r EXCEPT !.status = "Idle", !.from = Unset, !.files = Unset]

RetainHookClaims(o, w) ==
    LET stale == {s \in Records : o.hook[s] # Unset /\ o.hook[s] \notin LiveClaims(w)} IN
    [o EXCEPT !.hs = [b \in Births |-> IF b \in LiveClaims(w) THEN @[b] ELSE "none"],
              !.hook = [s \in Records |-> IF s \in stale THEN Unset ELSE @[s]],
              !.ses = [s \in Records |-> IF s \in stale THEN Forget(@[s]) ELSE @[s]]]

BindPanelHookClaim(o, p, claim) ==
    LET bound == {s \in Records : o.ses[s].panel = p}
        Current(s) == IF o.ses[s].rt = claim THEN claim ELSE Unset IN
    [o EXCEPT !.hook = [s \in Records |-> IF s \in bound THEN Current(s) ELSE @[s]],
              !.ses = [s \in Records |-> IF s \in bound /\ o.hook[s] # Current(s)
                                         THEN Forget(@[s]) ELSE @[s]]]

\* Faulty variant: a record follows its panel to the next shell.
ReplacedKeepsRuntime(o, p, b, claim, known) ==
    {s \in Records : o.ses[s].panel = p /\ known # Unset /\ known # s}

\* The records that do not describe the shell in the focused leaf.
Replaced(o, p, b, claim, known) ==
    {s \in Records :
        /\ o.ses[s].panel = p
        /\ \/ known # Unset /\ known # s
           \/ o.ses[s].rt # b
           \/ claim # Unset /\ o.birth[s] # Unset /\ o.birth[s] # claim}

\* A record whose leaf is still live somewhere in a split is kept for it.
Unbind(o, out) ==
    [o EXCEPT !.ses = [s \in Records |->
                         IF s \notin out THEN @[s]
                         ELSE [@[s] EXCEPT !.panel = Unset,
                                           !.status = IF o.hook[s] = Unset THEN "Done" ELSE @]],
              !.birth = [s \in Records |-> IF s \in out /\ o.hook[s] = Unset THEN Unset ELSE @[s]]]

\* The record bound to the panel, or a new one.
EnsurePanelSession(o, p, b) ==
    LET bound == {s \in Records : o.ses[s].panel = p}
        s == IF bound # {} THEN Min(bound) ELSE o.next IN
    [id |-> s,
     o |-> [o EXCEPT !.ses[s] = IF bound # {} THEN [@ EXCEPT !.rt = b]
                                ELSE [panel |-> p, rt |-> b, status |-> "Idle", from |-> Unset,
                                      files |-> Unset],
                     !.next = IF bound # {} THEN @ ELSE @ + 1]]

EnsureClaimedPanelSession(o, w, p) ==
    LET b == w.focus[p]
        claim == IF b \in w.claimed THEN b ELSE Unset
        same == {s \in Records : claim # Unset /\ o.birth[s] = claim /\ o.hook[s] = claim}
        known == IF same = {} THEN Unset ELSE Min(same)
        unbound == Unbind(o, Replaced(o, p, b, claim, known))
        bound == IF known = Unset THEN unbound ELSE [unbound EXCEPT !.ses[known].panel = p]
        e == EnsurePanelSession(bound, p, b)
        o3 == IF claim = Unset THEN e.o ELSE [e.o EXCEPT !.birth[e.id] = claim] IN
    BindPanelHookClaim(o3, p, claim)

\* Faulty variant: the events of a removed record stay.
PruneMissingKeepsInbox(o, w) ==
    LET out == {s \in Records : o.ses[s].panel # Unset /\ o.ses[s].panel \notin Shown(w)} IN
    [o EXCEPT !.ses = [s \in Records |-> IF s \in out THEN Absent ELSE @[s]],
              !.hook = [s \in Records |-> IF s \in out THEN Unset ELSE @[s]],
              !.birth = [s \in Records |-> IF s \in out THEN Unset ELSE @[s]]]

PruneMissing(o, w) ==
    LET out == {s \in Records : o.ses[s].panel # Unset /\ o.ses[s].panel \notin Shown(w)}
        kept == {o.ses[s].panel : s \in Records \ out} IN
    [o EXCEPT !.ses = [s \in Records |-> IF s \in out THEN Absent ELSE @[s]],
              !.task = [s \in Records |-> IF s \in out /\ @[s] # "none" THEN "empty" ELSE @[s]],
              !.inbox = {e \in @ : e[2] \notin out},
              !.hook = [s \in Records |-> IF s \in out THEN Unset ELSE @[s]],
              !.birth = [s \in Records |-> IF s \in out THEN Unset ELSE @[s]],
              !.hs = [b \in Births |-> IF b \in LiveClaims(w) /\ PanelOfBirth(w, b) \in kept
                                       THEN @[b] ELSE "none"]]

\* prune_panel_keyed_state keeps what was seen of the live runtime sessions.
PruneSeen(o, w) ==
    [o EXCEPT !.seen = [s \in Records |-> IF \E p \in Shown(w) : s \in w.leaves[p] THEN @[s] ELSE "none"]]

ReconcileOrchestration(o, w) ==
    LET Step(acc, p) == IF p \in Shown(w) THEN EnsureClaimedPanelSession(acc, w, p) ELSE acc IN
    PruneSeen(PruneMissing(FoldLeft(Step, RetainHookClaims(o, w), SetToSortSeq(OPanels, <)), w), w)

-----------------------------------------------------------------------------
(* Refresh: one observation of every panel.                                *)

Attention == {"WaitingApproval"}
\* What OSC reports and the text heuristics make of a screen.
Apparent(alive) == IF alive THEN {"Idle", "WaitingApproval"} ELSE {"Done", "WaitingApproval"}
Observations(w) ==
    LET May(p) == IF p \in Shown(w) THEN Apparent(w.life[w.focus[p]] = "alive") ELSE {"Done"}
        looks == {f \in [OPanels -> {"Idle", "WaitingApproval", "Done"}] : \A p \in OPanels : f[p] \in May(p)} IN
    [look : looks, fresh : BOOLEAN, inspect : BOOLEAN, found : BOOLEAN]

\* A fresh hook of the record's own claim beats what the screen shows.
ObservedStatus(o, w, s, obs) ==
    LET p == o.ses[s].panel
        b == w.focus[p] IN
    IF obs.fresh /\ w.life[b] = "alive" /\ b \in w.claimed /\ o.hook[s] = b /\ o.hs[b] # "none"
    THEN o.hs[b]
    ELSE obs.look[p]

\* The inspections the worker has finished by now are merged by record id;
\* late ones find no record.
MergeGit(o, obs) ==
    LET found == IF obs.found THEN o.asked ELSE {}
        Result(s) == {r \in found : r[1] = s} IN
    [o EXCEPT !.ses = [s \in Records |->
                         IF Exists(o, s) /\ Result(s) # {}
                         THEN [@[s] EXCEPT !.files = (CHOOSE r \in Result(s) : TRUE)[2]] ELSE @[s]],
              !.asked = @ \ found]

Observe(o, w, obs) ==
    LET seen == {s \in Records : o.ses[s].panel \in Shown(w)}
        New(s) == [o.ses[s] EXCEPT !.rt = w.focus[o.ses[s].panel], !.status = ObservedStatus(o, w, s, obs),
                                   !.from = w.focus[o.ses[s].panel]]
        Ask(s) == <<s, w.focus[o.ses[s].panel]>> IN
    [o EXCEPT !.ses = [s \in Records |-> IF s \in seen THEN New(s) ELSE @[s]],
              !.asked = IF obs.inspect
                        THEN @ \cup {Ask(s) : s \in {t \in seen : ~\E r \in o.asked : r[1] = t}} ELSE @,
              !.task = [s \in Records |->
                          IF s \in seen /\ @[s] \notin {"none", "empty"} /\ New(s).status # "Idle"
                          THEN (IF New(s).status = "Done" THEN "Done" ELSE "Running") ELSE @[s]]]

\* Every record in a state that asks for attention has its event.
RefreshInbox(o) ==
    [o EXCEPT !.inbox = {<<o.ses[s].status, s>> : s \in {t \in Records : o.ses[t].status \in Attention \cup {"Done"}}}
                        \cup {e \in @ : e[1] = "ConflictRisk"}]

\* Two records with changes in the same files.
RefreshConflictRisk(o) ==
    LET touched == {s \in Records : o.ses[s].files # Unset}
        conflicts == IF Cardinality(touched) > 1 THEN touched ELSE {} IN
    [o EXCEPT !.inbox = {e \in @ : e[1] # "ConflictRisk"} \cup {<<"ConflictRisk", s>> : s \in conflicts}]

\* Transitions into attention, for the panel that has the session.
NotifyTransitions(o, w) ==
    LET moved == {s \in Records : o.ses[s].status \in Attention /\ o.seen[s] # o.ses[s].status}
        Found(s) == {p \in Shown(w) : s \in w.leaves[p]} IN
    [o EXCEPT !.seen = [s \in Records |-> IF Exists(o, s) THEN o.ses[s].status ELSE @[s]],
              !.alerts = @ \cup {s \in moved : \E p \in Found(s) : w.life[w.focus[p]] = "alive"}]

RefreshOrchestration(o, w, obs) ==
    NotifyTransitions(RefreshConflictRisk(RefreshInbox(Observe(MergeGit(o, obs), w, obs))), w)

\* maybe_refresh_orchestration: the records are reconciled before a refresh,
\* or alone while a hook mutation is pending.
Ticked(o, w, obs) == RefreshOrchestration(ReconcileOrchestration(o, w), w, obs)

\* The new panels fit the bound on the records.
Fits(o, w) == o.next + Cardinality(Shown(w)) <= MaxRecords + 1

Tick ==
    /\ Fits(orc, world)
    /\ \/ orc' = ReconcileOrchestration(orc, world)
       \/ \E obs \in Observations(world) :
             orc' = Ticked(orc, world, obs)
    /\ UNCHANGED world

\* apply_claimed_hook_event, inside the publication of a claim that is active;
\* of a dead shell only the last stop is taken.
ApplyClaimedHookEvent(b, status) ==
    /\ b \in LiveClaims(world)
    /\ status \in IF world.life[b] = "dead" THEN {"Done"} ELSE HookStates
    /\ orc' = [orc EXCEPT !.hs[b] = status,
                          !.ses = [s \in Records |->
                              IF orc.hook[s] = b /\ @[s].rt = b
                              THEN [@[s] EXCEPT !.status = status, !.from = b]
                              ELSE @[s]]]
    /\ UNCHANGED world

-----------------------------------------------------------------------------
(* The panels: external to these records.                                  *)

NewPanel(w, p, b) ==
    [w EXCEPT !.leaves[p] = {b}, !.focus[p] = b, !.life[b] = "alive"]

FreePanels(w) == {p \in OPanels : w.leaves[p] = {} /\ w.focus[p] = Unset}

OpenPanel ==
    /\ world.open /\ FreePanels(world) # {} /\ Unborn(world) # {}
    /\ world' = NewPanel(world, Min(FreePanels(world)), Min(Unborn(world)))
    /\ UNCHANGED orc

Split(p) ==
    /\ p \in Shown(world) /\ Unborn(world) # {}
    /\ LET b == Min(Unborn(world)) IN
       world' = [world EXCEPT !.leaves[p] = @ \cup {b}, !.focus[p] = b, !.life[b] = "alive"]
    /\ UNCHANGED orc

FocusLeaf(p, b) ==
    /\ b \in world.leaves[p] /\ world.focus[p] # b
    /\ world' = [world EXCEPT !.focus[p] = b]
    /\ UNCHANGED orc

\* A leaf gets a new shell in the place of the old one.
Restart(p, b) ==
    /\ b \in world.leaves[p] /\ Unborn(world) # {}
    /\ LET n == Min(Unborn(world)) IN
       world' = [world EXCEPT !.leaves[p] = (@ \ {b}) \cup {n}, !.life[b] = "gone", !.life[n] = "alive",
                              !.focus[p] = IF @ = b THEN n ELSE @]
    /\ UNCHANGED orc

Claimed(b) ==
    /\ \E p \in OPanels : b \in world.leaves[p]
    /\ b \notin world.claimed
    /\ world' = [world EXCEPT !.claimed = @ \cup {b}]
    /\ UNCHANGED orc

Exits(b) ==
    /\ world.life[b] = "alive"
    /\ world' = [world EXCEPT !.life[b] = "dead"]
    /\ UNCHANGED orc

Closed(w, p) == [w EXCEPT !.leaves[p] = {}, !.life = [b \in Births |-> IF b \in w.leaves[p] THEN "gone" ELSE @[b]]]

ClosePanel(p) ==
    /\ p \in Shown(world)
    /\ world' = Closed(world, p)
    /\ UNCHANGED orc

-----------------------------------------------------------------------------
(* Launches, from the record's side.                                       *)

\* prepare_launch_with_bootstrap makes the record and its task.
PrepareLaunch ==
    /\ world.open /\ orc.next <= MaxRecords
    /\ orc' = [orc EXCEPT !.ses[orc.next] = [Absent EXCEPT !.status = "Idle"],
                          !.task[orc.next] = "Queued", !.launching = @ \cup {orc.next}, !.next = @ + 1]
    /\ UNCHANGED world

Discarded(o, s) == [o EXCEPT !.ses[s] = Absent, !.task[s] = "Draft", !.launching = @ \ {s}]

DiscardFailedLaunch(s) ==
    /\ s \in orc.launching
    /\ orc' = Discarded(orc, s)
    /\ UNCHANGED world

\* spawn_agent_panel: the panel, the binding, a reconciliation and a refresh.
SpawnAgentPanel(s) ==
    /\ s \in orc.launching
    /\ FreePanels(world) # {} /\ Unborn(world) # {} /\ Fits(orc, world)
    /\ LET p == Min(FreePanels(world))
           b == Min(Unborn(world))
           w == NewPanel(world, p, b)
           bound == [orc EXCEPT !.ses[s] = [@ EXCEPT !.panel = p, !.rt = b, !.from = b],
                                !.launching = @ \ {s}] IN
       /\ world' = w
       /\ \E now \in {bound}, obs \in Observations(w) : orc' = Ticked(now, w, obs)

\* close_workspace_confirmed cancels the launches and reconciles.
CloseWorkspace ==
    /\ world.open
    /\ LET w == [world EXCEPT !.open = FALSE, !.leaves = [p \in OPanels |-> {}],
                              !.life = [b \in Births |-> IF @[b] = "unborn" THEN "unborn" ELSE "gone"]] IN
       /\ world' = w
       /\ \E now \in {FoldLeft(Discarded, orc, SetToSeq(orc.launching))}, obs \in Observations(w) :
             orc' = Ticked(now, w, obs)

-----------------------------------------------------------------------------
Next ==
    \/ Tick
    \/ \E b \in Births, status \in HookStates \cup {"Done"} : ApplyClaimedHookEvent(b, status)
    \/ OpenPanel
    \/ \E p \in OPanels : Split(p) \/ ClosePanel(p)
    \/ \E p \in OPanels, b \in Births : FocusLeaf(p, b) \/ Restart(p, b)
    \/ \E b \in Births : Claimed(b) \/ Exits(b)
    \/ PrepareLaunch
    \/ \E s \in Records : DiscardFailedLaunch(s) \/ SpawnAgentPanel(s)
    \/ CloseWorkspace

Spec == Init /\ [][Next]_vars

-----------------------------------------------------------------------------
\* A panel has at most one record, no two records follow one claim, and a
\* record follows only the claim of its own shell.
OneRecordPerShell ==
    /\ \A s, t \in Records : s # t /\ orc.ses[s].panel # Unset => orc.ses[s].panel # orc.ses[t].panel
    /\ \A s, t \in Records : s # t /\ orc.hook[s] # Unset => orc.hook[s] # orc.hook[t]
    /\ \A s \in Records : orc.hook[s] # Unset => orc.ses[s].rt = orc.hook[s]

\* `Summaries and status from a different leaf/birth are not evidence about
\* the session now occupying this panel': what a record shows was learnt from
\* the shell it names, also when a hook or an inspection comes late.
EvidenceIsOwn ==
    \A s \in Records :
        /\ orc.ses[s].from \in {Unset, orc.ses[s].rt}
        /\ orc.ses[s].files \in {Unset, orc.ses[s].rt}

\* Events and tasks name records that exist.
NothingDangles ==
    /\ \A e \in orc.inbox : Exists(orc, e[2])
    /\ \A s \in orc.launching : Exists(orc, s) /\ orc.ses[s].panel = Unset
    /\ \A s \in Records : orc.task[s] \in {"Queued", "Running"} => Exists(orc, s)

RecordsAreRight ==
    /\ OneRecordPerShell
    /\ EvidenceIsOwn
    /\ NothingDangles

\* A session of a live panel that comes to need attention is announced, by a
\* mark on its panel and a notification, when the refresh sees it.
AttentionIsAnnounced ==
    [][\A s \in Records :
          /\ orc.ses[s].status \notin Attention
          /\ orc'.ses[s].status \in Attention /\ orc'.seen[s] = orc'.ses[s].status
          /\ orc'.ses[s].panel \in Shown(world) /\ world.life[orc'.ses[s].rt] = "alive"
          => s \in orc'.alerts]_vars
=============================================================================
