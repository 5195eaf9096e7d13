------------------------------ MODULE Projects ------------------------------
(***************************************************************************)
(* The list of workspaces, one per open project (app.rs, app/desktop.rs,    *)
(* the dialogs and the sidebar, state/persistence.rs).  The application     *)
(* addresses the active one by its position in the list and everything else *)
(* by identity: the confirmation of a close, the launches that become ready *)
(* later, the shared workspace and the viewport that is kept in the         *)
(* workspace only while another one is active.  A workspace has its own     *)
(* session manager, which must know the daemon before its first terminal.   *)
(*                                                                         *)
(* Identities and runtimes are numbers in order of birth; a layout that was *)
(* copied or edited by hand may repeat them.  The windows of a workspace    *)
(* are module Desktop, its saving module ProfileSaving.                     *)
(***************************************************************************)
EXTENDS Integers, Sequences, FiniteSets, FiniteSetsExt, SequencesExt

CONSTANTS
    Folders,     \* folders the user opens
    MaxBirths,   \* bound: workspaces and panels created
    MaxViews     \* bound: movements of the viewport

VARIABLES
    list,      \* workspaces: identity, folder, kept view, daemon spawner, panels
    active,    \* active_ws
    view,      \* viewport
    closing,   \* closing_workspace, Unset or an identity
    launches,  \* workspaces of the launches that are under way
    sharing,   \* shared_workspace_id of the hosted session
    births, views

vars == <<list, active, view, closing, launches, sharing, births, views>>

Unset == 0
NewPanel(n, w) == [id |-> n, runtime |-> n, remote |-> w.hosted]
NewWorkspace(n, folder, hosted) ==
    [id |-> n, folder |-> folder, view |-> 0, hosted |-> hosted, panels |-> <<>>]
Spawned(w, n) == [w EXCEPT !.panels = Append(@, NewPanel(n, w))]
IndexById(l, id) == SelectInSeq(l, LAMBDA w : w.id = id)
IndexByFolder(l, f) == SelectInSeq(l, LAMBDA w : w.folder = f)
PanelsOf(l) == UNION {Range(w.panels) : w \in Range(l)}

-----------------------------------------------------------------------------
(* Opening and switching.                                                   *)

\* switch_workspace: the view goes back into the workspace that is left.
Stored(l) == [l EXCEPT ![active].view = view]
SwitchKeepsView(l, i) ==
    /\ list' = l /\ active' = i /\ UNCHANGED view
SwitchWorkspace(l, i) ==
    IF i = active THEN list' = l /\ UNCHANGED <<active, view>>
    ELSE /\ list' = Stored(l)
         /\ active' = i
         /\ view' = l[i].view

Switch ==
    /\ \E i \in DOMAIN list \ {active} : SwitchWorkspace(list, i)
    /\ UNCHANGED <<closing, launches, sharing, births, views>>

Upsert(f, n) ==
    IF IndexByFolder(list, f) # 0 THEN list ELSE Append(list, NewWorkspace(n, f, TRUE))
\* open_workspace_folder: the daemon's spawner is installed before the first
\* terminal of a new project is born.
OpenWorkspaceFolder(f) ==
    LET known == IndexByFolder(list, f)
        i == IF known # 0 THEN known ELSE Len(list) + 1
    IN /\ births + 2 <= MaxBirths
       /\ \E l \in {Upsert(f, births + 1)} :
            SwitchWorkspace(IF known = 0 \/ l[i].panels = <<>>
                            THEN [l EXCEPT ![i] = Spawned(@, births + 2)] ELSE l, i)
       /\ births' = births + 2
       /\ UNCHANGED <<closing, launches, sharing, views>>

\* The terminal button of any workspace in the sidebar.
SpawnTerminal ==
    /\ births < MaxBirths
    /\ births' = births + 1
    /\ \E i \in DOMAIN list : list' = [list EXCEPT ![i] = Spawned(@, births + 1)]
    /\ UNCHANGED <<active, view, closing, launches, sharing, views>>

Pan ==
    /\ views < MaxViews
    /\ views' = views + 1 /\ view' = views + 1
    /\ UNCHANGED <<list, active, closing, launches, sharing, births>>

\* Taskbar, sidebar and notifications jump to a panel wherever it is.
FocusPanelAcrossWorkspaces ==
    /\ \E i \in DOMAIN list \ {active} : list[i].panels # <<>> /\ SwitchWorkspace(list, i)
    /\ UNCHANGED <<closing, launches, sharing, births, views>>

-----------------------------------------------------------------------------
(* Launches and sharing.                                                    *)

StartLaunch ==
    /\ \E i \in DOMAIN list : list[i].id \notin launches /\ launches' = launches \cup {list[i].id}
    /\ UNCHANGED <<list, active, view, closing, sharing, births, views>>

\* spawn_agent_panel, when the plan of a launch is ready.
LaunchReady(id) ==
    LET i == IndexById(list, id)
    IN /\ launches' = launches \ {id}
       /\ IF i = 0 THEN UNCHANGED <<list, active, view, births>>
          ELSE /\ births < MaxBirths
               /\ births' = births + 1
               /\ SwitchWorkspace([list EXCEPT ![i] = Spawned(@, births + 1)], i)
       /\ UNCHANGED <<closing, sharing, views>>

Share ==
    /\ sharing = Unset /\ sharing' = list[active].id
    /\ UNCHANGED <<list, active, view, closing, launches, births, views>>
StopSharing ==
    /\ sharing # Unset /\ sharing' = Unset
    /\ UNCHANGED <<list, active, view, closing, launches, births, views>>

-----------------------------------------------------------------------------
(* Closing a project.                                                       *)

RequestClose ==
    /\ \E i \in DOMAIN list : closing' = list[i].id
    /\ UNCHANGED <<list, active, view, launches, sharing, births, views>>
CancelClose ==
    /\ closing # Unset /\ closing' = Unset
    /\ UNCHANGED <<list, active, view, launches, sharing, births, views>>

SameIndex(l, gone, id) == Min({active, Len(l)})
\* The one that takes the place of a closed active project, or the same project.
NextActive(l, gone, id) ==
    IF list[active].id = id THEN Min({gone, Len(l)}) ELSE IndexById(l, list[active].id)

StopsSharing(id) == sharing # Unset /\ (list[active].id = id \/ sharing = id)
\* close_workspace_confirmed with close_workspace_for_good.
CloseConfirmed ==
    /\ closing # Unset
    /\ closing' = Unset
    /\ launches' = launches \ {closing}
    /\ LET gone == IndexById(list, closing)
           rest == RemoveAt(Stored(list), gone)
       IN IF gone = 0 THEN UNCHANGED <<list, active, view, sharing, births>>
          ELSE /\ sharing' = IF StopsSharing(closing) THEN Unset ELSE sharing
               /\ IF rest = <<>>
                  THEN /\ births < MaxBirths
                       /\ births' = births + 1
                       /\ list' = <<NewWorkspace(births + 1, Unset, TRUE)>>
                       /\ active' = 1 /\ view' = 0
                  ELSE /\ UNCHANGED births
                       /\ list' = rest
                       /\ active' = NextActive(rest, gone, closing)
                       /\ view' = rest[active'].view
    /\ UNCHANGED views

-----------------------------------------------------------------------------
(* A restart reads the layout again, perhaps an edited copy.                *)

SavedLayout == Stored(list)
\* Two workspaces or two panels with one identity, two panels with one runtime,
\* or no workspace at all.
Edited(l) ==
    {<<>>, Append(l, l[1])}
        \cup {[l EXCEPT ![i].panels = Append(@, p)] : i \in DOMAIN l, p \in PanelsOf(l)}
        \cup {[l EXCEPT ![i].panels = Append(@, [p EXCEPT !.id = births + 1])] :
                i \in DOMAIN l, p \in PanelsOf(l)}

\* Positions <<workspace, panel>> in reading order.
Before(a, b) == a[1] < b[1] \/ (a[1] = b[1] /\ a[2] < b[2])
Places(l) == UNION {{<<i, j>> : j \in DOMAIN l[i].panels} : i \in DOMAIN l}
At(l, a) == l[a[1]].panels[a[2]]

FirstWorkspace(l, i) == \A k \in 1 .. i - 1 : l[k].id # l[i].id
FirstPanel(l, a) == \A b \in Places(l) : Before(b, a) => At(l, b).id # At(l, a).id
AnyRuntime(l, a) == At(l, a).runtime # Unset
\* The first valid holder of a runtime keeps it; a panel with a new identity
\* loses its own, and does not count as a holder.
KeepsRuntime(l, a) ==
    /\ FirstWorkspace(l, a[1]) /\ FirstPanel(l, a)
    /\ \A b \in Places(l) :
        Before(b, a) /\ FirstWorkspace(l, b[1]) /\ FirstPanel(l, b)
            => At(l, b).runtime # At(l, a).runtime

\* normalize_saved_state, and Workspace::from_saved: a panel without a runtime
\* gets a new one.  New numbers follow the order of the layout.
NormalizedPanel(l, a, n) ==
    [id |-> IF FirstPanel(l, a) THEN At(l, a).id ELSE n,
     runtime |-> IF KeepsRuntime(l, a) THEN At(l, a).runtime ELSE n,
     remote |-> TRUE]
Normalized(l) ==
    LET fresh(a) == births + 1 + Cardinality({b \in Places(l) : Before(b, a)})
        base == births + 1 + Cardinality(Places(l))
    IN IF l = <<>> THEN <<NewWorkspace(births + 1, Unset, TRUE)>>
       ELSE [i \in DOMAIN l |->
              [l[i] EXCEPT !.id = IF FirstWorkspace(l, i) THEN @ ELSE base + i,
                           !.hosted = TRUE,
                           !.panels = [j \in DOMAIN l[i].panels |->
                                         NormalizedPanel(l, <<i, j>>, fresh(<<i, j>>))]]]
Numbers(l) ==
    {w.id : w \in Range(l)} \cup {p.id : p \in PanelsOf(l)} \cup {p.runtime : p \in PanelsOf(l)}

RestartFrom(l) ==
    \E now \in {Normalized(l)} :
        /\ Max(Numbers(now)) <= MaxBirths
        /\ births' = Max({births} \cup Numbers(now))
        /\ list' = now
        /\ active' = Min({active, Len(now)})
        /\ view' = now[active'].view
        /\ closing' = Unset /\ launches' = {} /\ sharing' = Unset
        /\ UNCHANGED views
Restart == RestartFrom(SavedLayout)
RestartEdited == \E l \in Edited(SavedLayout) : RestartFrom(l)

-----------------------------------------------------------------------------
Init ==
    /\ list = <<Spawned(NewWorkspace(1, Unset, TRUE), 2)>>
    /\ active = 1 /\ view = 0 /\ closing = Unset /\ launches = {} /\ sharing = Unset
    /\ births = 2 /\ views = 0

Next ==
    \/ Switch \/ SpawnTerminal \/ Pan \/ FocusPanelAcrossWorkspaces
    \/ \E f \in Folders : OpenWorkspaceFolder(f)
    \/ StartLaunch \/ Share \/ StopSharing
    \/ \E id \in launches : LaunchReady(id)
    \/ RequestClose \/ CancelClose \/ CloseConfirmed
    \/ Restart \/ RestartEdited

Spec == Init /\ [][Next]_vars

-----------------------------------------------------------------------------
(* The list stays usable.  There is always an active workspace; no two      *)
(* workspaces, no two panels and no two sessions share an identity, also    *)
(* after an edited layout; a launch, a share or a confirmation never refers *)
(* to a project that was closed under it, and every terminal is hosted by   *)
(* the daemon.                                                              *)
ProjectsAreSound ==
    /\ active \in DOMAIN list
    /\ \A i, j \in DOMAIN list : list[i].id = list[j].id => i = j
    /\ \A a, b \in Places(list) :
        a # b => At(list, a).id # At(list, b).id /\ At(list, a).runtime # At(list, b).runtime
    /\ \A p \in PanelsOf(list) : p.remote
    /\ launches \cup ({sharing, closing} \ {Unset}) \subseteq {w.id : w \in Range(list)}

ViewOf(i) == IF i = active THEN view ELSE list[i].view
(* Projects keep their place.  Unless the user moves it, the view of every  *)
(* project stays its own however often others are opened, closed, switched  *)
(* to by a launch, or restarted; and closing a project that is not active   *)
(* leaves the user in the one they were in.                                 *)
PlaceIsKept ==
    /\ views' = views =>
         \A i \in DOMAIN list, j \in DOMAIN list' :
             list[i].id = list'[j].id => ViewOf(i) = ViewOf(j)'
    /\ CloseConfirmed /\ closing # list[active].id
         => list'[active'].id = list[active].id
ProjectsKeepTheirPlace == [][PlaceIsKept]_vars
=============================================================================
