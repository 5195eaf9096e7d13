------------------------------ MODULE Overlays ------------------------------
(***************************************************************************)
(* Who gets the keys of a frame.  The window draws the terminals, a viewer *)
(* of files beside them and fourteen surfaces that take the keyboard: the  *)
(* command palette, dialogs, the search bar and the pickers.  A frame is   *)
(* one pass over them in a fixed order, and every one of them reads the    *)
(* same stream of events: a key is out of reach of those that come later   *)
(* only when the one that used it took it out of the stream.               *)
(*                                                                         *)
(* A frame carries a set of keys: a character, Enter, Escape, the shortcut *)
(* of the palette and the shortcut of a command.  Workspaces 1 and 2 have  *)
(* one terminal each, named after the workspace.  The walk that lists the  *)
(* files of a workspace and the reader that lists conversations are        *)
(* threads: their answers are taken at the start of a frame.               *)
(***************************************************************************)
EXTENDS Naturals, FiniteSets

CONSTANT MaxKeys    \* bound: the keys of one frame

Workspaces == {1, 2}

\* Surfaces that open with their command and close with Escape or a button.
Escapable == {"settings", "memory", "broadcast"}
\* Surfaces that close only with a button.
ButtonOnly == {"share", "join", "launch", "conversations"}
Modals == Escapable \union ButtonOnly
            \union {"palette", "review", "rename", "closing", "search", "quick", "resume"}
\* "note" is the editor of a note, inside the code review.

Keys == {"text", "enter", "escape", "palette", "shortcut"}
Commands == Escapable \union ButtonOnly
              \union {"review", "rename", "search", "quick", "resume", "latest", "other"}
Clicks == {"none", "switch", "rename", "closing", "viewer", "terminal", "note"}

VARIABLES
  open,       \* the surfaces that are open
  active,     \* the workspace shown; its terminal has the focus
  guest,      \* this window follows the session of another host
  viewer,     \* the file viewer: "closed", "open" or "focused"
  search,     \* the terminal the search bar searches; 0 for none
  quick,      \* Quick Open: the workspace it lists and the lists it got
  walk,       \* the thread that lists files: its workspace, and how it ended
  history,    \* the thread that lists conversations: "none", "reading", ...
  uses        \* ghost: who used which key in the last frame

vars == <<open, active, guest, viewer, search, quick, walk, history, uses>>

Nothing == [root |-> 0, files |-> {}, loading |-> FALSE]
NoWalk == [root |-> 0, ended |-> "no"]

\* A frame under way: the state of the window, the keys still in the stream,
\* the surfaces that held the keyboard when it began, and what was used.
Frame0(keys) ==
  [open |-> open, active |-> active, guest |-> guest, viewer |-> viewer,
   search |-> search, quick |-> quick, walk |-> walk, history |-> history,
   keys |-> keys, held |-> open, uses |-> {}]

Then(w, F(_)) == CHOOSE v \in {F(x) : x \in {w}} : TRUE

Uses(f, k, who) ==
  [f EXCEPT !.uses = @ \union {<<x, who>> : x \in f.keys \intersect k}]
Consumes(f, k, who) ==
  [Uses(f, k, who) EXCEPT !.keys = @ \ k]
Opens(f, m) ==
  [f EXCEPT !.open = @ \union {m},
            !.uses = (@ \ {<<"enter", m>>}) \union {<<"opens", m>>}]
Closes(f, m) == [f EXCEPT !.open = @ \ {m}]
\* A field takes the characters of a frame only when it had the focus before,
\* and the field of Rename asks for it when it opens.
HasFocus(f, m) == m \in f.held /\ (m = "rename" \/ "rename" \notin f.held)
Types(f, m) == IF HasFocus(f, m) THEN Uses(f, {"text"}, m) ELSE f

----------------------------------------------------------------------------
(* Opening the surfaces. *)

ModalInputIsActiveButSearch(f) == f.open \ {"search"} # {}
ModalInputIsActive(f) == f.open # {}

OpenRenameKeepsEnter(f) == Opens(f, "rename")
\* Enter is taken out: it may be the key that chose the command.
OpenRename(f) == [Opens(f, "rename") EXCEPT !.keys = @ \ {"enter"}]

OpenSearchBar(f) ==
  [Opens(f, "search") EXCEPT !.search = f.active]

CloseSearchBar(f) ==
  [f EXCEPT !.open = @ \ {"search"}, !.search = 0]

OpenQuickOpenOnOldWalk(f) ==
  [Opens(f, "quick") EXCEPT
            !.walk = IF f.walk = NoWalk
                       THEN [root |-> f.active, ended |-> "no"] ELSE f.walk,
            !.quick = [root |-> f.active, files |-> {}, loading |-> TRUE]]
OpenQuickOpen(f) ==
  [Opens(f, "quick") EXCEPT
            !.walk = [root |-> f.active, ended |-> "no"],
            !.quick = [root |-> f.active, files |-> {}, loading |-> TRUE]]

CloseQuickOpen(f) == [Closes(f, "quick") EXCEPT !.quick = Nothing]

\* Only Claude Code gets the picker; the terminal of another agent is
\* replaced at once ("latest"), and opens nothing.
OpenResumePicker(f) ==
  [Opens(f, "resume") EXCEPT !.history = "reading"]

CloseResumePicker(f) == [Closes(f, "resume") EXCEPT !.history = "none"]

\* A guest may only move its own view.
ExecuteCommand(f, c) ==
  CASE f.guest                             -> f
    [] ~f.guest /\ c = "rename"            -> OpenRename(f)
    [] ~f.guest /\ c = "search"            -> OpenSearchBar(f)
    [] ~f.guest /\ c = "quick"             -> OpenQuickOpen(f)
    [] ~f.guest /\ c = "resume"            -> OpenResumePicker(f)
    [] ~f.guest /\ c \in {"latest", "other"} -> f
    [] ~f.guest /\ c \in Modals \ {"resume", "rename", "search", "quick"} ->
         Opens(f, c)

----------------------------------------------------------------------------
(* The passes of a frame, in their order. *)

\* Shortcuts belong to the application while no surface has the keyboard.
HandleShortcutsOpenly(f, c) ==
  CASE ModalInputIsActive(f) -> f
    [] ~ModalInputIsActive(f) /\ "palette" \in f.keys ->
         [Uses(f, {"palette"}, "app")
            EXCEPT !.open = @ \union {"palette"},
                   !.viewer = IF @ = "focused" THEN "open" ELSE @]
    [] ~ModalInputIsActive(f) /\ "palette" \notin f.keys /\ "shortcut" \in f.keys ->
         ExecuteCommand(Uses(f, {"shortcut"}, "app"), c)
    [] OTHER -> f
HandleShortcuts(f, c) ==
  CASE ModalInputIsActive(f) -> f
    [] ~ModalInputIsActive(f) /\ "palette" \in f.keys ->
         [Consumes(f, {"palette"}, "app")
            EXCEPT !.open = @ \union {"palette"},
                   !.viewer = IF @ = "focused" THEN "open" ELSE @]
    [] ~ModalInputIsActive(f) /\ "palette" \notin f.keys /\ "shortcut" \in f.keys ->
         ExecuteCommand(Consumes(f, {"shortcut"}, "app"), c)
    [] OTHER -> f

\* The sidebar switches workspaces and asks to close one.
ShowSidebar(f, click) ==
  CASE click = "switch"  /\ ~f.guest -> [f EXCEPT !.active = 3 - @]
    [] click = "closing" /\ ~f.guest -> Opens(f, "closing")
    [] OTHER -> f

\* The viewer gives the keyboard up while a surface is open; otherwise it
\* takes the keys it uses out of the stream, and Escape closes it.
ShowFileViewer(f, click) ==
  LET focused == \/ f.viewer = "focused" /\ click # "terminal"
                 \/ f.viewer = "open" /\ click = "viewer"
  IN  CASE f.viewer = "closed" -> f
        [] f.viewer # "closed" /\ ModalInputIsActive(f) ->
             [f EXCEPT !.viewer = "open"]
        [] f.viewer = "focused" /\ ~ModalInputIsActive(f) /\ "escape" \in f.keys ->
             [Consumes(f, {"escape"}, "viewer") EXCEPT !.viewer = "closed"]
        [] OTHER ->
             IF focused
               THEN [Consumes(f, {"text", "enter"}, "viewer") EXCEPT !.viewer = "focused"]
               ELSE [f EXCEPT !.viewer = "open"]

TerminalSurfaceInputIsRoutable(f) ==
  ~ModalInputIsActive(f) /\ f.viewer # "focused"

\* What is left goes to the focused terminal, or from a guest to the host.
ForwardInputToFocusedPanel(f) ==
  IF TerminalSurfaceInputIsRoutable(f) /\ ~f.guest
    THEN Uses(f, f.keys, "pty") ELSE f

ShowGuestCanvas(f) ==
  IF TerminalSurfaceInputIsRoutable(f) /\ f.guest
    THEN Uses(f, f.keys, "host") ELSE f

ShowDesktopCanvas(f, click) ==
  IF click = "rename" /\ ~f.guest THEN OpenRename(f) ELSE f

\* Enter runs the selected command, if one matches what was typed.
ShowPalette(f, c) ==
  IF "palette" \notin f.open THEN f
  ELSE IF "enter" \in f.keys /\ c # "none"
    THEN ExecuteCommand(Closes(Uses(f, {"enter"}, "palette"), "palette"), c)
  ELSE IF "escape" \in f.keys
    THEN Closes(Uses(f, {"escape"}, "palette"), "palette")
  ELSE Types(f, "palette")

ShowRename(f) ==
  IF "rename" \notin f.open THEN f
  ELSE IF "escape" \in f.keys
    THEN Closes(Consumes(f, {"escape"}, "rename"), "rename")
  ELSE IF "enter" \in f.keys
    THEN Closes(Uses(Types(f, "rename"), {"enter"}, "rename"), "rename")
  ELSE Types(f, "rename")

ShowCloseWorkspace(f) ==
  IF "closing" \in f.open /\ "escape" \in f.keys
    THEN Closes(Uses(f, {"escape"}, "closing"), "closing") ELSE f

\* The bar belongs to the terminal that had the focus when it opened.
ShowSearchBar(f) ==
  IF "search" \notin f.open THEN f
  ELSE IF f.search # f.active THEN CloseSearchBar(f)
  ELSE IF "escape" \in f.keys
    THEN CloseSearchBar(Uses(f, {"escape"}, "search"))
  ELSE IF HasFocus(f, "search")
    THEN Uses(f, {"text", "enter"}, "search") ELSE f

\* Escape leaves the editor of a note first, and the review only then.
ShowCodeReview(f, click) ==
  IF "review" \notin f.open THEN f
  ELSE IF "escape" \in f.keys
    THEN Closes(Uses(f, {"escape"}, "review"),
                IF "note" \in f.open THEN "note" ELSE "review")
  ELSE IF click = "note" THEN Opens(Types(f, "review"), "note")
  ELSE Types(f, "review")

ShowEscapable(f, m) ==
  IF m \notin f.open THEN f
  ELSE IF "escape" \in f.keys THEN Closes(Uses(f, {"escape"}, m), m)
  ELSE Types(f, m)

ShowButtonOnly(f, m) == IF m \in f.open THEN Types(f, m) ELSE f

ShowSettings(f) == ShowEscapable(f, "settings")
ShowMemoryHub(f) == ShowEscapable(f, "memory")
ShowBroadcast(f) == ShowEscapable(f, "broadcast")
ShowShareWorkspace(f) == ShowButtonOnly(f, "share")
ShowJoinSession(f) == ShowButtonOnly(f, "join")
ShowLaunch(f) == ShowButtonOnly(f, "launch")
ShowConversations(f) == ShowButtonOnly(f, "conversations")

\* Enter takes the selected entry; with nothing typed yet the entries are the
\* terminals of the workspace, and a command may be chosen by its name.
ShowQuickOpen(f, c) ==
  IF "quick" \notin f.open THEN f
  ELSE IF "enter" \in f.keys /\ c # "none"
    THEN IF "quick" \in f.held /\ c # "other"
           THEN CloseQuickOpen(ExecuteCommand(Uses(f, {"enter"}, "quick"), c))
           ELSE CloseQuickOpen(Uses(f, {"enter"}, "quick"))
  ELSE IF "escape" \in f.keys
    THEN CloseQuickOpen(Uses(f, {"escape"}, "quick"))
  ELSE Types(f, "quick")

\* Enter takes the picker away whether or not there is a conversation to
\* resume in it.
ShowResumePicker(f) ==
  IF "resume" \notin f.open THEN f
  ELSE IF "escape" \in f.keys
    THEN CloseResumePicker(Uses(f, {"escape"}, "resume"))
  ELSE IF "enter" \in f.keys
    THEN CloseResumePicker(Uses(f, {"enter"}, "resume"))
  ELSE f

FinishUi(f, click, c, d) ==
  Then(ShowPalette(f, c), LAMBDA f0 :
  Then(ShowLaunch(ShowJoinSession(ShowShareWorkspace(f0))), LAMBDA f1 :
  Then(ShowCloseWorkspace(ShowRename(f1)), LAMBDA f2 :
  Then(ShowCodeReview(ShowSearchBar(f2), click), LAMBDA f3 :
  Then(ShowSettings(ShowQuickOpen(f3, d)), LAMBDA f4 :
  Then(ShowBroadcast(ShowMemoryHub(f4)), LAMBDA f5 :
  ShowResumePicker(ShowConversations(f5))))))))

UiImpl(keys, click, c, d) ==
  Then(HandleShortcuts(Frame0(keys), c), LAMBDA f0 :
  Then(ShowFileViewer(ShowSidebar(f0, click), click), LAMBDA f1 :
  Then(ForwardInputToFocusedPanel(f1), LAMBDA f2 :
  Then(IF f2.guest THEN ShowGuestCanvas(f2)
       ELSE ShowDesktopCanvas(f2, click), LAMBDA f3 :
  FinishUi(f3, click, c, d)))))

----------------------------------------------------------------------------
Init ==
  /\ open = {} /\ active = 1 /\ guest = FALSE /\ viewer = "closed"
  /\ search = 0 /\ quick = Nothing /\ walk = NoWalk /\ history = "none"
  /\ uses = {}

Frame ==
  \E keys \in {k \in SUBSET Keys : Cardinality(k) <= MaxKeys} :
  \* c and d are looked at only where a command or an entry is chosen
  \E c \in IF \/ "shortcut" \in keys /\ open = {}
              \/ "enter" \in keys /\ "palette" \in open \union keys
             THEN Commands ELSE {"other"},
     d \in IF "enter" \in keys THEN {"none", "other", "resume", "rename"} ELSE {"none"},
     click \in Clicks :
    /\ click = "note" => "review" \in open
    \* the second click on a title and a control key share no frame
    /\ click = "rename" => keys \subseteq {"text"}
    /\ d # "none" => "quick" \in open \/ c = "quick"
    /\ \E f \in {UiImpl(keys, click, c, d)} :
         /\ open' = f.open /\ active' = f.active /\ guest' = f.guest
         /\ viewer' = f.viewer /\ search' = f.search /\ quick' = f.quick
         /\ walk' = f.walk /\ history' = f.history /\ uses' = f.uses

\* A button of a surface closes it, whatever it does besides.
PressButton ==
  \E m \in open :
    /\ \E f \in {IF m = "search" THEN CloseSearchBar(Frame0({}))
                 ELSE IF m = "quick" THEN CloseQuickOpen(Frame0({}))
                 ELSE IF m = "resume" THEN CloseResumePicker(Frame0({}))
                 ELSE IF m = "review"
                   THEN Closes(Closes(Frame0({}), "note"), "review")
                 ELSE Closes(Frame0({}), m)} :
         /\ open' = f.open /\ search' = f.search /\ quick' = f.quick
         /\ history' = f.history
    /\ uses' = {}
    /\ UNCHANGED <<active, guest, viewer, walk>>

\* A file chosen in the tree, a drop or Quick Open shows in the viewer.
OpenFileViewer ==
  /\ viewer = "closed"
  /\ viewer' = "open" /\ uses' = {}
  /\ UNCHANGED <<open, active, guest, search, quick, walk, history>>

\* A launch that finishes in the background shows the workspace of its agent.
SpawnAgentPanel ==
  /\ ~guest
  /\ active' = 3 - active /\ uses' = {}
  /\ UNCHANGED <<open, guest, viewer, search, quick, walk, history>>

\* The window joins the session of another host, or leaves it.
JoinOrLeave ==
  /\ guest' = ~guest /\ uses' = {}
  /\ open' = open \ {"join"}
  /\ UNCHANGED <<active, viewer, search, quick, walk, history>>

\* The thread that lists files answers, or ends without an answer.
WalkEnds ==
  /\ walk.root # 0 /\ walk.ended = "no"
  /\ \E e \in {"listed", "lost"} : walk' = [walk EXCEPT !.ended = e]
  /\ UNCHANGED <<open, active, guest, viewer, search, quick, history, uses>>

PollQuickOpen ==
  /\ walk.ended # "no"
  /\ quick' = IF "quick" \notin open THEN quick
              ELSE [quick EXCEPT !.loading = FALSE,
                                 !.files = IF walk.ended = "listed"
                                             THEN {walk.root} ELSE @]
  /\ walk' = NoWalk
  /\ UNCHANGED <<open, active, guest, viewer, search, history, uses>>

PollResumePicker ==
  /\ history = "reading"
  /\ history' \in {"listed", "failed"}
  /\ UNCHANGED <<open, active, guest, viewer, search, quick, walk, uses>>

Next ==
  \/ Frame
  \/ PressButton
  \/ OpenFileViewer
  \/ SpawnAgentPanel
  \/ JoinOrLeave
  \/ WalkEnds
  \/ PollQuickOpen
  \/ PollResumePicker

Spec == Init /\ [][Next]_vars

----------------------------------------------------------------------------
UsersOf(k) == {u[2] : u \in {x \in uses : x[1] = k}}
AnsweredAtOnce == UsersOf("opens") \intersect UsersOf("enter")

\* A key that went to a terminal, here or at the host, was used by nothing
\* else; the frame that opens Rename does not also accept its title; Quick
\* Open lists the files of the workspace it was opened on and not those of an
\* earlier walk, and while it loads there is a walk to wait for; the search
\* bar is open exactly while it has a terminal (app.rs, the order of ui_impl
\* and finish_ui, terminal_input_is_routable; dialogs.rs, open_rename_dialog;
\* quick_open_ui.rs, open_quick_open).
KeysHaveOneOwner ==
  /\ \A k \in Keys : UsersOf(k) \intersect {"pty", "host"} # {}
       => Cardinality(UsersOf(k)) = 1
  /\ "rename" \notin AnsweredAtOnce
  /\ quick.files \subseteq {quick.root}
  /\ quick.loading => walk.root = quick.root
  /\ ("search" \in open) = (search # 0)

\* No surface is answered by the Enter that opened it: the Enter that chooses
\* a command in the palette or in Quick Open does not also answer the surface
\* the command opens (command_palette/mod.rs, show; resume_ui.rs,
\* show_resume_picker; quick_open_ui.rs, show_quick_open).
SurfacesOpenUntouched == AnsweredAtOnce = {}
=============================================================================
