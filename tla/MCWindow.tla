------------------------------ MODULE MCWindow ------------------------------
(* The window of the app, for TLC: the panels of a workspace, the panes of *)
(* a panel, the list of projects, the surfaces that take the keyboard, the *)
(* tasks tab and the file viewer. The parts have nothing in common: part,  *)
(* chosen at the start, names the one a behaviour is of, and v1, v2, ...   *)
(* hold its variables, in the order of its module, so that a run explores  *)
(* each part completely and no product of two.                             *)
EXTENDS TasksTab, Naturals, TLC

CONSTANTS
    MAX_VISIBLE_PANELS, MAX_Z, MaxBirths, MaxLeaves, MaxEdits, Offered, Folders,
    projectsMaxBirths, MaxViews, MaxKeys, MaxLength, FRAGMENT_BYTE_CAP, Paths, MaxOpens,
    MaxDeaths

VARIABLES
    part,
    v1, v2, v3, v4, v5, v6, v7, v8, v9

Desk == INSTANCE Desktop WITH
    ws <- v1, births <- v2
Split == INSTANCE SplitPanes WITH
    panel <- v1, pending <- v2, managed <- v3, claimed <- v4, late <- v5, strays <- v6,
    births <- v7, edits <- v8, talk <- v9
Project == INSTANCE Projects WITH
    list <- v1, active <- v2, view <- v3, closing <- v4, launches <- v5, sharing <- v6,
    births <- v7, views <- v8, MaxBirths <- projectsMaxBirths
Overlay == INSTANCE Overlays WITH
    open <- v1, active <- v2, guest <- v3, viewer <- v4, search <- v5, quick <- v6,
    walk <- v7, history <- v8, uses <- v9
Text == INSTANCE SourceText WITH
    doc <- v1, sel <- v2
Viewer == INSTANCE FileViewer WITH
    disk <- v1, viewer <- v2, worker <- v3, pc <- v4, opens <- v5, edits <- v6,
    deaths <- v7

tasksVars == <<active, tab, tasks, gh, asked, answers, linear, review, launched, switches,
              expiries>>
mcvars == <<part, tasksVars, v1, v2, v3, v4, v5, v6, v7, v8, v9>>

after0 == <<v1, v2, v3, v4, v5, v6, v7, v8, v9>>
after2 == <<v3, v4, v5, v6, v7, v8, v9>>
after7 == <<v8, v9>>
after8 == <<v9>>

\* A step of one part.
OfDesktop(A) == part = "desktop" /\ A /\ UNCHANGED <<part, after2, tasksVars>>
OfPanes(A) == part = "panes" /\ A /\ UNCHANGED <<part, tasksVars>>
OfProjects(A) == part = "projects" /\ A /\ UNCHANGED <<part, after8, tasksVars>>
OfOverlays(A) == part = "overlays" /\ A /\ UNCHANGED <<part, tasksVars>>
OfText(A) == part = "text" /\ A /\ UNCHANGED <<part, after2, tasksVars>>
OfViewer(A) == part = "viewer" /\ A /\ UNCHANGED <<part, after7, tasksVars>>
OfTasks(A) == part = "tasks" /\ A /\ UNCHANGED <<part, after0>>

\* The variables past the n-th are not used.
Unused(n) ==
    /\ n < 1 => v1 = 0
    /\ n < 2 => v2 = 0
    /\ n < 3 => v3 = 0
    /\ n < 4 => v4 = 0
    /\ n < 5 => v5 = 0
    /\ n < 6 => v6 = 0
    /\ n < 7 => v7 = 0
    /\ n < 8 => v8 = 0
    /\ n < 9 => v9 = 0

MCInit ==
    \/ part = "desktop" /\ Desk!Init /\ Unused(2) /\ Init /\ active = <<>>
    \/ part = "panes" /\ Split!Init /\ Init /\ active = <<>>
    \/ part = "projects" /\ Project!Init /\ Unused(8) /\ Init /\ active = <<>>
    \/ part = "overlays" /\ Overlay!Init /\ Init /\ active = <<>>
    \/ part = "text" /\ Text!Init /\ Unused(2) /\ Init /\ active = <<>>
    \/ part = "viewer" /\ Viewer!Init /\ Unused(7) /\ Init /\ active = <<>>
    \/ part = "tasks" /\ Init /\ Unused(0)

MCNext ==
    \/ OfDesktop(Desk!Next)
    \/ OfPanes(Split!Next)
    \/ OfProjects(Project!Next)
    \/ OfOverlays(Overlay!Next)
    \/ OfText(Text!Next)
    \/ OfViewer(Viewer!Next)
    \/ OfTasks(Next)

MCSpec == MCInit /\ [][MCNext]_mcvars
-----------------------------------------------------------------------------
\* app/desktop.rs, terminal/panel.rs and app.rs: the focused panel is on top, a
\* key has one owner, and the panes of a panel and the projects of the window
\* agree with the terminals they show.
LayoutIsSound ==
    /\ part = "desktop" => Desk!FocusIsOnTop
    /\ part = "overlays" => Overlay!KeysHaveOneOwner
    /\ part = "panes" => Split!PanesAreSound
    /\ part = "projects" => Project!ProjectsAreSound

\* A step of one panel, pane or project leaves the others where they are.
EditsAreLocal ==
    [][/\ part = "desktop" => Desk!Stays
       /\ part = "panes" => Split!TargetDies
       /\ part = "projects" => Project!PlaceIsKept]_mcvars

\* app/file_viewer_ui.rs and file_viewer_selection.rs: the viewer shows the
\* file it names, every character of a text is in its rows, and what is copied
\* is what is selected.
ViewIsExact ==
    /\ part = "viewer" => Viewer!ViewerShowsItsFile
    /\ part = "text" => Text!TextIsWhole
=============================================================================
