------------------------------ MODULE Desktop ------------------------------
(***************************************************************************)
(* The windows of one workspace: its panels in creation order, which one   *)
(* has the focus, how they are stacked (a u32 z index that is compacted    *)
(* before it overflows), which are minimised, and the automatic tiling     *)
(* that every frame applies while the workspace is the one drawn.          *)
(* (state/workspace.rs, app/taskbar.rs, app/desktop.rs, app/windowing.rs   *)
(* and the window commands of app.rs)                                      *)
(*                                                                         *)
(* Several hands move the windows between two frames: the user's commands, *)
(* the launches of agents, the closes that a durable fence acknowledges    *)
(* late (also in a workspace that is not drawn), and a restart.  Workspaces*)
(* share no window state: the list of them is module Projects.             *)
(*                                                                         *)
(* Rectangles are abstracted to the slot they stand for: `place` is        *)
(* "floating", "maximized" or the snap slot.  Window drags and resizes by  *)
(* the border are disabled in the code, so no action moves a panel freely. *)
(***************************************************************************)
EXTENDS Naturals, Sequences, FiniteSets, SequencesExt

CONSTANTS
  MAX_VISIBLE_PANELS,  \* panels tiled at once (4 in the code)
  MAX_Z,               \* u32::MAX
  MaxBirths            \* bound: panels created

VARIABLES
  ws,      \* the workspace
  births   \* panels created so far: their identities

vars == <<ws, births>>

Then(v, F(_)) == CHOOSE r \in {F(x) : x \in {v}} : TRUE

Indices(w) == DOMAIN w.panels
Visible(w) == {i \in Indices(w) : ~w.panels[i].minimized}
Ids(w) == {w.panels[i].id : i \in Indices(w)}
IndexOf(w, id) == CHOOSE i \in Indices(w) : w.panels[i].id = id
Above(w, i, j) == w.panels[i].z > w.panels[j].z

NewWorkspace == [panels |-> <<>>, nextZ |-> 0, tiled |-> <<>>]

-----------------------------------------------------------------------------
(* Stacking. *)

CompactByCreation(w) ==
  [w EXCEPT !.panels = [i \in Indices(w) |-> [w.panels[i] EXCEPT !.z = i - 1]],
            !.nextZ = IF w.panels = <<>> THEN 0 ELSE Len(w.panels) - 1]

\* Ranks by (z, index): compaction keeps the order in which panels overlap.
CompactZIndices(w) ==
  [w EXCEPT
     !.panels = [i \in Indices(w) |->
                   [w.panels[i] EXCEPT !.z =
                      Cardinality({j \in Indices(w) :
                         \/ Above(w, i, j)
                         \/ w.panels[j].z = w.panels[i].z /\ j < i})]],
     !.nextZ = IF w.panels = <<>> THEN 0 ELSE Len(w.panels) - 1]

AdvanceZIndex(w) ==
  Then(IF w.nextZ = MAX_Z THEN CompactZIndices(w) ELSE w,
       LAMBDA v : [v EXCEPT !.nextZ = IF @ = MAX_Z THEN @ ELSE @ + 1])

ReconcileOrderCounters(w) ==
  LET zs == {w.panels[i].z : i \in Indices(w)} IN
  IF w.nextZ = MAX_Z \/ MAX_Z \in zs
  THEN CompactZIndices(w)
  ELSE [w EXCEPT !.nextZ = CHOOSE z \in zs \cup {w.nextZ} :
                              \A y \in zs \cup {w.nextZ} : y <= z]

-----------------------------------------------------------------------------
(* Focus. *)

FocusOnly(w, focus) ==
  [w EXCEPT !.panels = [i \in Indices(w) |->
                          [w.panels[i] EXCEPT !.focused = i \in focus]]]

UnfocusAll(w) == FocusOnly(w, {})

BringToFrontOnlyFocuses(w, id) ==
  FocusOnly(w, {i \in Indices(w) : w.panels[i].id = id /\ ~w.panels[i].minimized})

\* A minimised panel is not raised, but an unknown one unfocuses the others.
BringToFront(w, id) ==
  IF \E i \in Indices(w) : w.panels[i].id = id /\ w.panels[i].minimized
  THEN w
  ELSE Then(AdvanceZIndex(w),
            LAMBDA v :
              FocusOnly([v EXCEPT !.panels = [i \in Indices(v) |->
                           IF v.panels[i].id = id
                           THEN [v.panels[i] EXCEPT !.z = v.nextZ]
                           ELSE v.panels[i]]],
                        {i \in Indices(v) : v.panels[i].id = id}))

FocusTopmostPanel(w) ==
  FocusOnly(w, {i \in Indices(w) : \A j \in Indices(w) \ {i} : Above(w, i, j)})

FocusTopmostVisiblePanel(w) ==
  FocusOnly(w, {i \in Visible(w) : \A j \in Visible(w) \ {i} : Above(w, i, j)})

-----------------------------------------------------------------------------
(* The operations of a workspace. *)

SpawnTerminal(w, id) ==
  Then([w EXCEPT !.panels = Append(@, [id |-> id, z |-> w.nextZ,
                                       focused |-> FALSE, minimized |-> FALSE,
                                       place |-> "floating", back |-> "none"])],
       LAMBDA v : BringToFront(AdvanceZIndex(v), id))

ClosePanel(w, id) ==
  FocusTopmostVisiblePanel(
    [w EXCEPT !.panels = SelectSeq(@, LAMBDA p : p.id # id)])

SetPanel(w, id, f(_)) ==
  [w EXCEPT !.panels = [i \in Indices(w) |->
      IF w.panels[i].id = id THEN f(w.panels[i]) ELSE w.panels[i]]]

SetMinimized(p) == [p EXCEPT !.minimized = TRUE, !.focused = FALSE]

RestoreWindowPlacement(p) ==
  IF p.place = "maximized"
  THEN [p EXCEPT !.place = IF p.back = "none" THEN "floating" ELSE p.back,
                 !.back = "none"]
  ELSE p

Maximize(p) ==
  IF p.place = "maximized" THEN p
  ELSE [p EXCEPT !.place = "maximized", !.back = p.place]

\* Only a visible panel has a minimise button; restoring is the taskbar's.
ToggleMinimizePanel(w, id) ==
  Then(SetPanel(w, id, SetMinimized),
       LAMBDA v : IF w.panels[IndexOf(w, id)].focused
                  THEN FocusTopmostVisiblePanel(v) ELSE v)

MaximizePanel(w, id) ==
  BringToFront(
    SetPanel(w, id, LAMBDA p :
      [(IF p.place = "maximized" THEN RestoreWindowPlacement(p) ELSE Maximize(p))
         EXCEPT !.minimized = FALSE]), id)

RestorePanelWithDesktop(w, id) ==
  BringToFront(SetPanel(w, id, LAMBDA p :
                 RestoreWindowPlacement([p EXCEPT !.minimized = FALSE])), id)

-----------------------------------------------------------------------------
(* Automatic tiling. *)

AutoLayoutSlots(n) ==
  CASE n = 0 -> <<>>
    [] n = 1 -> <<"Maximized">>
    [] n = 2 -> <<"LeftHalf", "RightHalf">>
    [] n = 3 -> <<"LeftHalf", "TopRight", "BottomRight">>
    [] OTHER -> <<"TopLeft", "TopRight", "BottomLeft", "BottomRight">>

\* last_auto_tile_signature: the rectangle of the desktop and the ratios of the
\* sash are left out, a change of them empties `tiled`.
Signature(w) == Cardinality(Visible(w))

MinimizeOldest(w) ==
  LET older(i) == Cardinality({j \in Visible(w) : j > i})
      oldest == {i \in Visible(w) : older(i) >= MAX_VISIBLE_PANELS}
  IN [w EXCEPT !.panels = [i \in Indices(w) |->
        IF i \in oldest THEN SetMinimized(w.panels[i]) ELSE w.panels[i]]]

\* The lowest panels give up their place when too many are visible.
MinimizeLowest(w) ==
  LET higher(i) == Cardinality({j \in Visible(w) : Above(w, j, i)})
      lowest == {i \in Visible(w) : higher(i) >= MAX_VISIBLE_PANELS}
  IN [w EXCEPT !.panels = [i \in Indices(w) |->
        IF i \in lowest THEN SetMinimized(w.panels[i]) ELSE w.panels[i]]]

SlotsByStacking(w) ==
  LET order == SetToSortSeq(Visible(w), LAMBDA i, j : Above(w, j, i))
      slots == AutoLayoutSlots(Len(order))
  IN [i \in Visible(w) |-> slots[CHOOSE k \in DOMAIN order : order[k] = i]]

\* A panel keeps its slot when the new layout has it and no panel created
\* earlier claims it; the others take the free slots in creation order.
SlotsAssigned(w) ==
  LET visible == SetToSortSeq(Visible(w), <)
      slots == AutoLayoutSlots(Len(visible))
      keeps(i) == /\ w.panels[i].place \in Range(slots)
                  /\ \A j \in Visible(w) :
                       j < i => w.panels[j].place # w.panels[i].place
      kept == {w.panels[i].place : i \in {j \in Visible(w) : keeps(j)}}
      free == SelectSeq(slots, LAMBDA s : s \notin kept)
      pending == SelectSeq(visible, LAMBDA i : ~keeps(i))
  IN [i \in Visible(w) |->
        IF keeps(i) THEN w.panels[i].place
        ELSE free[CHOOSE k \in DOMAIN pending : pending[k] = i]]

AutoTileWorkspace(w) ==
  IF w.tiled = <<Signature(w)>> THEN w
  ELSE Then(MinimizeLowest(w), LAMBDA v :
         Then(SlotsAssigned(v), LAMBDA slot :
           [v EXCEPT !.panels = [i \in Indices(v) |->
                       IF i \in Visible(v)
                       THEN [v.panels[i] EXCEPT !.place = slot[i], !.back = "none"]
                       ELSE v.panels[i]],
                     !.tiled = <<Signature(w)>>]))

-----------------------------------------------------------------------------
(* What the user can reach with the pointer: the topmost panel there. *)

Covers(p, q) == p.z > q.z /\ p.place \in {"maximized", "Maximized", q.place}

TopPanelHit(w, id) ==
  LET i == IndexOf(w, id) IN
  /\ i \in Visible(w)
  /\ \A j \in Visible(w) : ~Covers(w.panels[j], w.panels[i])

-----------------------------------------------------------------------------
\* show_desktop_canvas tiles the workspace before it draws it.
Frame ==
  /\ ws' = AutoTileWorkspace(ws)
  /\ UNCHANGED births

\* NewTerminal, the sidebar's button, the first terminal of a project.
NewTerminal ==
  /\ births < MaxBirths
  /\ ws' = SpawnTerminal(ws, births + 1)
  /\ births' = births + 1

\* A launch that became ready: the panel, the switch to it and the focus.
SpawnAgentPanel ==
  /\ births < MaxBirths
  /\ ws' = BringToFront(SpawnTerminal(ws, births + 1), births + 1)
  /\ births' = births + 1

\* The close button or command; an acknowledged close of the last leaf.
ClosesPanel(id) ==
  /\ ws' = ClosePanel(ws, id)
  /\ UNCHANGED births

PressPanel(id) ==
  /\ TopPanelHit(ws, id)
  /\ ~ws.panels[IndexOf(ws, id)].focused
  /\ ws' = BringToFront(ws, id)
  /\ UNCHANGED births

\* A press where no panel is.
PressDesktop ==
  /\ \A i \in Visible(ws) : ws.panels[i].place \notin {"maximized", "Maximized"}
  /\ ws' = UnfocusAll(ws)
  /\ UNCHANGED births

ClickMinimize(id) ==
  /\ TopPanelHit(ws, id)
  /\ ws' = ToggleMinimizePanel(ws, id)
  /\ UNCHANGED births

ClickMaximize(id) ==
  /\ TopPanelHit(ws, id)
  /\ ws' = MaximizePanel(ws, id)
  /\ UNCHANGED births

\* The next or previous visible panel by z, from the focused one or the lowest.
FocusRelative(step) ==
  LET order == SetToSortSeq(Visible(ws), LAMBDA i, j : Above(ws, j, i))
      focused == {k \in DOMAIN order : ws.panels[order[k]].focused}
      current == IF focused = {} THEN 1 ELSE CHOOSE k \in focused : TRUE
      next == ((current - 1 + step + Len(order)) % Len(order)) + 1
  IN /\ Visible(ws) # {}
     /\ ws' = BringToFront(ws, ws.panels[order[next]].id)
     /\ UNCHANGED births

\* Taskbar, sidebar and notifications: restore if minimised, raise.
FocusPanelAcrossWorkspaces(id) ==
  /\ ws' = IF ws.panels[IndexOf(ws, id)].minimized
           THEN RestorePanelWithDesktop(ws, id)
           ELSE BringToFront(ws, id)
  /\ UNCHANGED births

\* Dragging the sash between tiled panels, or resizing the window.
UpdateGlobalSash ==
  /\ Cardinality(Visible(ws)) >= 2
  /\ ws' = [ws EXCEPT !.tiled = <<>>]
  /\ UNCHANGED births

FromSaved(w) ==
  Then(ReconcileOrderCounters([w EXCEPT !.tiled = <<>>]),
       LAMBDA v : IF Cardinality({i \in Visible(v) : v.panels[i].focused}) # 1
                  THEN FocusTopmostVisiblePanel(v) ELSE v)

\* The app builds from the layout it saved last: a state it was in before.
Restart ==
  /\ ws' = FromSaved(ws)
  /\ UNCHANGED births

Init ==
  /\ ws = SpawnTerminal(NewWorkspace, 1)
  /\ births = 1

PanelStep ==
  \E id \in Ids(ws) :
     \/ ClosesPanel(id) \/ FocusPanelAcrossWorkspaces(id)
     \/ PressPanel(id) \/ ClickMinimize(id) \/ ClickMaximize(id)

Next ==
  \/ Frame \/ PressDesktop \/ PanelStep \/ UpdateGlobalSash \/ Restart
  \/ NewTerminal \/ SpawnAgentPanel
  \/ \E step \in {1, -1} : FocusRelative(step)

Spec == Init /\ [][Next]_vars

-----------------------------------------------------------------------------
Panel == [id : 1 .. MaxBirths, z : 0 .. MAX_Z, focused : BOOLEAN,
          minimized : BOOLEAN, place : STRING, back : STRING]

(* One focus, and it is on top.  At most one panel is focused; it is        *)
(* visible and above every other visible panel, whatever overflow of the z  *)
(* index, late close, minimising by the tiling, agent launch or restart     *)
(* came in between: what is typed goes to the panel the user sees in front. *)
FocusIsOnTop ==
  /\ ws.panels \in Seq(Panel)
  /\ \A i \in Indices(ws) :
       ws.panels[i].focused =>
         /\ ~ws.panels[i].minimized
         /\ \A j \in Visible(ws) \ {i} : Above(ws, i, j) /\ ~ws.panels[j].focused
  /\ \A i, j \in Indices(ws) :
       i # j => /\ ws.panels[i].z # ws.panels[j].z
                /\ ws.panels[i].id # ws.panels[j].id

(* Panels stay where they are.  A panel only passes another one by getting  *)
(* the focus: otherwise the stacking order is kept (compacting the z index  *)
(* before it overflows, and restarting, included), and no tiling exchanges  *)
(* the slots of two panels that stay visible, or takes the focused one off  *)
(* the desktop to make room.                                                *)
Stays ==
    /\ ws'.tiled # ws.tiled /\ ws'.tiled # <<>> =>
        \A i \in Indices(ws) : ws.panels[i].focused => ws'.panels[i].focused
    /\ \A i, j \in Indices(ws) : Above(ws, i, j) =>
       \A k \in {n \in Indices(ws') : ws'.panels[n].id = ws.panels[i].id} :
       \A m \in {n \in Indices(ws') : ws'.panels[n].id = ws.panels[j].id} :
         LET p == ws.panels[i]   p2 == ws'.panels[k]
             q == ws.panels[j]   q2 == ws'.panels[m]
             seen == ~(p.minimized \/ q.minimized \/ p2.minimized \/ q2.minimized)
         IN /\ q2.focused \/ p2.z > q2.z
            /\ seen /\ p.place # q.place =>
                 ~(p2.place = q.place /\ q2.place = p.place)
PanelsStay == [][Stays]_vars

Settled(w) == w.tiled = <<Signature(w)>>

(* "las terminales viven solo en los slots fijos del auto-tile"             *)
(* (app/windowing.rs, begin_panel_gesture): where the next frame will not   *)
(* tile again, every visible panel is in a slot of its own or maximised.    *)
PanelsLiveInSlots ==
  Settled(ws) => /\ Cardinality(Visible(ws)) <= MAX_VISIBLE_PANELS
                 /\ \A i \in Visible(ws) : ws.panels[i].place # "floating"

=============================================================================
