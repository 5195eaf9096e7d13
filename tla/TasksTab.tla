------------------------------ MODULE TasksTab ------------------------------
(***************************************************************************)
(* The pull requests and issues of the active project: the workers that    *)
(* ask GitHub and Linear (src/src/orchestration/gh_client.rs,              *)
(* linear_client.rs), the Tasks tab that shows their answers               *)
(* (src/src/sidebar/tasks.rs, src/src/app/orchestration_ui.rs) and the     *)
(* review that names the pull request of its branch                        *)
(* (src/src/app/code_review_ui.rs).                                        *)
(*                                                                         *)
(* The tasks of a repository are the repository itself: what matters is    *)
(* whose tasks are shown.  An empty list and a list with entries differ.   *)
(***************************************************************************)
EXTENDS Naturals, Sequences, TLAPS

CONSTANTS
    Repos,          \* repositories of the open workspaces
    MaxSwitches,    \* changes of the active workspace or of the tab
    MaxExpiries     \* times a cached answer grows old

VARIABLES
    active,     \* repository of the active workspace, <<>> without a folder
    tab,        \* is the Tasks tab open?
    tasks,      \* TasksState: whose tasks, how GitHub answered, the list
    gh,         \* GhClient: the repository in flight, the last one fetched
    asked,      \* requests the gh worker has not answered
    answers,    \* its answers, not yet polled
    linear,     \* LinearClient and what it brought
    review,     \* <<>>, or the repository of the open code review
    launched,   \* history: issues work was started on, with the folder
    switches, expiries

vars == <<active, tab, tasks, gh, asked, answers, linear, review, launched, switches, expiries>>

NoTasks == [root |-> <<>>, state |-> "unknown", list |-> <<>>, loading |-> FALSE]

Init ==
    /\ active \in {<<>>} \cup {<<r>> : r \in Repos} /\ tab = FALSE
    /\ tasks = NoTasks /\ gh = [inFlight |-> <<>>, last |-> <<>>, fresh |-> FALSE]
    /\ asked = <<>> /\ answers = <<>>
    /\ linear = [token |-> TRUE, inFlight |-> FALSE, fresh |-> FALSE, answer |-> <<>>, state |-> "unknown"]
    /\ review = <<>> /\ launched = {} /\ switches = 0 /\ expiries = 0

(***************************************************************************)
(* The clients.                                                            *)
(***************************************************************************)
\* cache_expired: only the answer for this repository counts.
CacheExpired(root) == gh.last # root \/ ~gh.fresh

\* GhClient::request: one at a time.
Asks(root, force) == gh.inFlight = <<>> /\ (force \/ CacheExpired(root))

\* LinearClient::request, only with a token.
LinearAsks(force) == linear.token /\ ~linear.inFlight /\ (force \/ ~linear.fresh)

\* The tab's state once it belongs to the active workspace.
Rooted == IF tasks.root # active THEN [NoTasks EXCEPT !.root = active] ELSE tasks

\* refresh_github_tasks: its effect on the tab's state, the client and its queue.
Refresh(force) ==
    LET forced == force \/ tasks.root # active
        asks == active # <<>> /\ Asks(active, forced)
        flight == IF asks THEN active ELSE gh.inFlight
    IN  /\ gh' = [gh EXCEPT !.inFlight = flight]
        /\ asked' = IF asks THEN Append(asked, active) ELSE asked
        /\ tasks' = IF active = <<>> THEN NoTasks ELSE [Rooted EXCEPT !.loading = flight = active]
        /\ linear' = IF active # <<>> /\ LinearAsks(force) THEN [linear EXCEPT !.inFlight = TRUE] ELSE linear

\* fetch_snapshot, in the worker: the lists, none, or the reason it failed.
FetchSnapshot(outcome) ==
    /\ asked # <<>> /\ asked' = Tail(asked)
    /\ answers' = Append(answers, [repo |-> Head(asked), state |-> outcome])
    /\ UNCHANGED <<active, tab, tasks, gh, linear, review, launched, switches, expiries>>

\* Faulty variant, for mutation: an answer for another repository is shown.
IsShown(answer) == tasks.root # <<>>

\* The answer belongs to the repository the tab shows.
IsForTab(answer) == tasks.root = answer.repo

\* Faulty variant, for mutation: only an answer that is shown ends the request.
PolledWhenShown(answer) == IF IsForTab(answer) THEN [inFlight |-> <<>>, last |-> answer.repo, fresh |-> TRUE] ELSE gh

\* GhClient::poll: the request is over whoever it was for.
Polled(answer) == [inFlight |-> <<>>, last |-> answer.repo, fresh |-> TRUE]

\* poll_gh_client, GitHub's part.
PollGhClient ==
    /\ answers # <<>> /\ answers' = Tail(answers)
    /\ gh' = Polled(Head(answers))
    /\ tasks' = IF ~IsForTab(Head(answers)) THEN tasks
                ELSE [tasks EXCEPT !.loading = FALSE, !.state = Head(answers).state,
                         !.list = IF Head(answers).state = "ready" THEN Head(answers).repo ELSE <<>>]
    /\ UNCHANGED <<active, tab, asked, linear, review, launched, switches, expiries>>

\* The Linear worker answers; errors inside an answer are failures.
FetchLinear(outcome) ==
    /\ linear.inFlight /\ linear.answer = <<>> /\ linear' = [linear EXCEPT !.answer = <<outcome>>]
    /\ UNCHANGED <<active, tab, tasks, gh, asked, answers, review, launched, switches, expiries>>

\* poll_gh_client, Linear's part.
PollLinear ==
    /\ linear.answer # <<>>
    /\ linear' = [linear EXCEPT !.inFlight = FALSE, !.fresh = TRUE, !.answer = <<>>, !.state = linear.answer[1]]
    /\ UNCHANGED <<active, tab, tasks, gh, asked, answers, review, launched, switches, expiries>>

(***************************************************************************)
(* The window.                                                             *)
(***************************************************************************)
\* A frame with the tab open: show_sidebar refreshes before it draws.
Frame ==
    /\ tab /\ Refresh(FALSE)
    /\ UNCHANGED <<active, tab, answers, review, launched, switches, expiries>>

\* The Refresh button, after the frame's own refresh asked for nothing.
RefreshTasks ==
    /\ tab /\ review = <<>> /\ tasks.root = active /\ active # <<>> /\ Refresh(TRUE)
    /\ UNCHANGED <<active, tab, answers, review, launched, switches, expiries>>

\* "Start work" beside an issue the tab draws.
StartWorkOnIssue ==
    /\ tab /\ review = <<>> /\ Refresh(FALSE) /\ tasks'.state = "ready" /\ tasks'.list # <<>>
    /\ launched' = launched \cup {[issue |-> tasks'.list, cwd |-> active]}
    /\ UNCHANGED <<active, tab, answers, review, switches, expiries>>

\* draw_linear_section is only reached below GitHub's lists.
LinearIsDrawn == tab /\ tasks.state = "ready" /\ tasks.list # <<>> /\ linear.state # "unknown"

\* The review covers the window while it is open.
SwitchWorkspace(to) ==
    /\ review = <<>> /\ switches < MaxSwitches /\ switches' = switches + 1 /\ to # active /\ active' = to
    /\ UNCHANGED <<tab, tasks, gh, asked, answers, linear, review, launched, expiries>>

ChangeTab ==
    /\ review = <<>> /\ switches < MaxSwitches /\ switches' = switches + 1 /\ tab' = ~tab
    /\ UNCHANGED <<active, tasks, gh, asked, answers, linear, review, launched, expiries>>

\* open_code_review of the active workspace's folder.
OpenCodeReview ==
    /\ active # <<>> /\ review = <<>> /\ review' = active
    /\ UNCHANGED <<active, tab, tasks, gh, asked, answers, linear, launched, switches, expiries>>

CloseReview ==
    /\ review # <<>> /\ review' = <<>>
    /\ UNCHANGED <<active, tab, tasks, gh, asked, answers, linear, launched, switches, expiries>>

\* The review's header: a pull request of the tab's list whose branch has the
\* reviewed branch's name.
PullRequestOfReview == IF review # <<>> /\ tasks.list # <<>> THEN tasks.list ELSE <<>>

\* GH_CACHE_TTL and LINEAR_CACHE_TTL pass.
Expire ==
    /\ expiries < MaxExpiries /\ expiries' = expiries + 1
    /\ gh' = [gh EXCEPT !.fresh = FALSE] /\ linear' = [linear EXCEPT !.fresh = FALSE]
    /\ UNCHANGED <<active, tab, tasks, asked, answers, review, launched, switches>>

Outcomes == {"ready", "empty", "unavailable"}
LinearOutcomes == {"ready", "unavailable"}

Next ==
    \/ Frame \/ RefreshTasks \/ StartWorkOnIssue
    \/ \E o \in Outcomes : FetchSnapshot(o)
    \/ \E o \in LinearOutcomes : FetchLinear(o)
    \/ PollGhClient \/ PollLinear
    \/ \E to \in {<<>>} \cup {<<r>> : r \in Repos} : SwitchWorkspace(to)
    \/ ChangeTab \/ OpenCodeReview \/ CloseReview \/ Expire

\* Frames are drawn and workers polled in every one of them; a worker's command
\* ends or is killed by its timeout.
Fairness ==
    /\ WF_vars(Frame) /\ WF_vars(PollGhClient) /\ WF_vars(PollLinear)
    /\ WF_vars(\E o \in Outcomes : FetchSnapshot(o)) /\ WF_vars(\E o \in LinearOutcomes : FetchLinear(o))

Spec == Init /\ [][Next]_vars
FairSpec == Spec /\ Fairness

(***************************************************************************)
(* Properties.                                                             *)
(***************************************************************************)
\* The tab never shows the tasks of another repository than the one it names,
\* and work on an issue starts in the repository the issue is of, whatever
\* answers arrive after the workspace changed (poll_gh_client,
\* start_work_on_issue).
TasksAreOfTheRepo ==
    /\ tasks.list \in {<<>>, tasks.root}
    /\ \A l \in launched : l.issue = l.cwd

Awaits(r) == tab /\ active = <<r>>
Arrived(r) == ~tab \/ active # <<r>> \/ (tasks.root = <<r>> /\ tasks.state # "unknown")

\* While the tab stays on a repository GitHub's answer for it arrives, also when
\* the request of the repository before it was still under way (GhClient::request
\* and poll; show_sidebar asks again in every frame).
TasksArrive ==
    \A r \in Repos : Awaits(r) ~> Arrived(r)

\* The pull request the review names is one of the repository under review.  (With
\* the tab open the sidebar has refreshed its list earlier in the same frame.)
ReviewNamesItsPullRequest == ~tab => PullRequestOfReview \in {<<>>, review}

(***************************************************************************)
(* Proofs.  The tab's list is of the repository the tab names, for any     *)
(* repositories and any order of answers: an answer changes the list only  *)
(* when it is for that repository, and a tab that moves to another         *)
(* repository starts without a list.                                       *)
(***************************************************************************)
Roots == {<<>>} \cup {<<r>> : r \in Repos}
Answers == [repo: Roots, state: Outcomes]
TabState == [root: Roots, state: Outcomes \cup {"unknown"}, list: Roots, loading: BOOLEAN]

IInv ==
    /\ active \in Roots /\ gh.inFlight \in Roots
    /\ asked \in Seq(Roots) /\ answers \in Seq(Answers)
    /\ tasks \in TabState
    /\ TasksAreOfTheRepo

(* A refresh names the active repository, with its own list or none.       *)
LEMMA RefreshedTab ==
    ASSUME IInv, NEW force \in BOOLEAN, Refresh(force)
    PROVE  /\ tasks' \in TabState /\ tasks'.list \in {<<>>, tasks'.root}
           /\ tasks'.list # <<>> => tasks'.root = active
           /\ asked' \in Seq(Roots) /\ gh'.inFlight \in Roots
<1>1. /\ NoTasks \in TabState /\ NoTasks.list = <<>>
      /\ Rooted \in TabState /\ Rooted.root = active
      /\ Rooted.list \in {<<>>, active}
  BY DEF IInv, NoTasks, Rooted, TabState, Roots, TasksAreOfTheRepo
<1>2. \A loading \in BOOLEAN :
          LET t == [Rooted EXCEPT !.loading = loading]
          IN  t \in TabState /\ t.list = Rooted.list /\ t.root = Rooted.root
  BY <1>1 DEF TabState
<1>3. /\ tasks' \in TabState /\ tasks'.list \in {<<>>, tasks'.root}
      /\ tasks'.list # <<>> => tasks'.root = active
  <2>1. CASE active = <<>>
    BY <1>1, <2>1 DEF Refresh
  <2>2. CASE active # <<>>
    <3>1. \E loading \in BOOLEAN : tasks' = [Rooted EXCEPT !.loading = loading]
      BY <2>2 DEF Refresh
    <3> QED
      BY <1>1, <1>2, <3>1
  <2> QED
    BY <2>1, <2>2
<1>4. asked' \in Seq(Roots)
  BY DEF Refresh, IInv
<1>5. gh'.inFlight \in Roots
  BY DEF Refresh, IInv
<1> QED
  BY <1>3, <1>4, <1>5

LEMMA TabStep == ASSUME IInv, [Next]_vars PROVE IInv'
<1>1. ASSUME NEW force \in BOOLEAN, Refresh(force), UNCHANGED <<active, answers, launched>>
      PROVE  IInv'
  BY <1>1, RefreshedTab DEF IInv, TasksAreOfTheRepo
<1>2. CASE Frame \/ RefreshTasks
  BY <1>1, <1>2 DEF Frame, RefreshTasks
<1>3. CASE StartWorkOnIssue
  <2>1. /\ Refresh(FALSE) /\ tasks'.list # <<>> /\ UNCHANGED <<active, answers>>
        /\ launched' = launched \cup {[issue |-> tasks'.list, cwd |-> active]}
    BY <1>3 DEF StartWorkOnIssue
  <2>2. tasks'.list = active
    BY <2>1, RefreshedTab
  <2>3. TasksAreOfTheRepo'
    <3>1. tasks'.list \in {<<>>, tasks'.root}
      BY <2>1, RefreshedTab
    <3>2. \A l \in launched : l.issue = l.cwd
      BY DEF IInv, TasksAreOfTheRepo
    <3>3. \A l \in launched' : l.issue = l.cwd
      BY <2>1, <2>2, <3>2
    <3> QED
      BY <3>1, <3>3 DEF TasksAreOfTheRepo
  <2> QED
    BY <2>1, <2>3, RefreshedTab DEF IInv
<1>4. ASSUME NEW o \in Outcomes, FetchSnapshot(o) PROVE IInv'
  <2>1. /\ Head(asked) \in Roots /\ asked' \in Seq(Roots)
        /\ UNCHANGED <<active, gh, tasks, launched>>
        /\ answers' = Append(answers, [repo |-> Head(asked), state |-> o])
    BY <1>4 DEF FetchSnapshot, IInv
  <2>2. answers' \in Seq(Answers)
    BY <2>1 DEF IInv, Answers
  <2> QED
    BY <2>1, <2>2 DEF IInv, TasksAreOfTheRepo
<1>5. CASE PollGhClient
  <2> DEFINE answer == Head(answers)
  <2>1. /\ answer \in Answers /\ answers' \in Seq(Answers)
        /\ gh' = Polled(answer) /\ UNCHANGED <<active, asked, launched>>
    BY <1>5 DEF PollGhClient, IInv
  <2>2. gh'.inFlight \in Roots
    BY <2>1 DEF Polled, Roots
  <2>3. CASE ~IsForTab(answer)
    <3>1. tasks' = tasks
      BY <1>5, <2>3 DEF PollGhClient
    <3> QED
      BY <2>1, <2>2, <3>1 DEF IInv, TasksAreOfTheRepo
  <2>4. CASE IsForTab(answer)
    <3> DEFINE list == IF answer.state = "ready" THEN answer.repo ELSE <<>>
    <3>1. tasks' = [tasks EXCEPT !.loading = FALSE, !.state = answer.state, !.list = list]
      BY <1>5, <2>4 DEF PollGhClient
    <3>2. answer.state \in Outcomes /\ list \in Roots /\ list \in {<<>>, tasks.root}
      BY <2>1, <2>4 DEF Answers, Roots, IsForTab
    <3> HIDE DEF list
    <3>3. tasks' \in TabState /\ tasks'.list = list /\ tasks'.root = tasks.root
      BY <3>1, <3>2 DEF IInv, TabState
    <3> QED
      BY <2>1, <2>2, <3>2, <3>3 DEF IInv, TasksAreOfTheRepo
  <2> QED
    BY <2>3, <2>4
<1>6. ASSUME NEW to \in Roots, SwitchWorkspace(to) PROVE IInv'
  BY <1>6 DEF SwitchWorkspace, IInv, TasksAreOfTheRepo
<1>7. CASE Expire
  BY <1>7 DEF Expire, IInv, TasksAreOfTheRepo
<1>8. CASE \/ \E o \in LinearOutcomes : FetchLinear(o)
           \/ PollLinear \/ ChangeTab \/ OpenCodeReview \/ CloseReview
           \/ UNCHANGED vars
  BY <1>8 DEF FetchLinear, PollLinear, ChangeTab, OpenCodeReview, CloseReview, vars, IInv,
              TasksAreOfTheRepo
<1> QED
  BY <1>2, <1>3, <1>4, <1>5, <1>6, <1>7, <1>8 DEF Next, Roots

(* The tab shows the tasks of the repository it names and work on an issue *)
(* starts where the issue is (TasksAreOfTheRepo).                          *)
THEOREM TasksStayHome == Spec => []TasksAreOfTheRepo
<1>1. Init => IInv
  BY DEF Init, IInv, Roots, TabState, NoTasks, TasksAreOfTheRepo
<1>2. IInv => TasksAreOfTheRepo
  BY DEF IInv
<1> QED
  BY <1>1, <1>2, TabStep, PTL DEF Spec
=============================================================================
