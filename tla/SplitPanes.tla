----------------------------- MODULE SplitPanes -----------------------------
(***************************************************************************)
(* One terminal panel and its split panes (terminal/panel.rs,               *)
(* terminal/split_tree.rs, terminal/session_controller.rs).  The tree is    *)
(* kept as the sequence of its leaves in depth-first order, the order of    *)
(* focus; every leaf has a controller with the identity of its runtime      *)
(* session.  Splitting, closing and replacing a leaf are only intentions    *)
(* until the hook worker has durably closed the alias of the panel's root;  *)
(* meanwhile the focus moves, processes end, claims change and the panel is *)
(* closed.  Answers of other threads (a written log, a hook message, a      *)
(* prompt for a leaf) come back addressed to a leaf and a runtime.          *)
(*                                                                         *)
(* A new leaf and its first session share one number.  A process that       *)
(* resumes nothing starts the conversation of its own number.               *)
(***************************************************************************)
EXTENDS Integers, Sequences, FiniteSets, FiniteSetsExt, SequencesExt

CONSTANTS
    MaxBirths,  \* bound: leaves and sessions born
    MaxLeaves,  \* bound: leaves of the panel at a time
    MaxEdits,   \* bound: times the saved layout is edited by hand
    Offered     \* conversations the resume picker offers

VARIABLES
    panel,      \* TerminalPanel
    pending,    \* pending_hook_mutation, <<>> or <<m>>
    managed,    \* sessions of the PtyManager
    claimed,    \* runtimes with an active hook claim
    late,       \* an answer another thread still holds, <<>> or <<a>>
    strays,     \* answers that reached another session than theirs
    births, edits,
    talk        \* conversation every process holds

vars == <<panel, pending, managed, claimed, late, strays, births, edits, talk>>

Unset == 0
Runtimes == 1 .. MaxBirths

-----------------------------------------------------------------------------
(* The panel.                                                               *)

ActiveLeaves(p) == IF p.tree = <<>> THEN <<p.root>> ELSE p.tree
LeafSession(p, l) == IF l = p.root THEN p.session ELSE p.others[l]
LeafSet(p) == Range(ActiveLeaves(p))
AllRuntimes(p) ==
    IF p.open THEN {LeafSession(p, l) : l \in LeafSet(p)} \ {Unset} ELSE {}
With(f, l, v) == [x \in DOMAIN f \cup {l} |-> IF x = l THEN v ELSE f[x]]
Without(f, l) == [x \in DOMAIN f \ {l} |-> f[x]]
Lookup(f, l) == IF l \in DOMAIN f THEN f[l] ELSE Unset

HookClaim(p, l) == l \in LeafSet(p) /\ LeafSession(p, l) \in claimed
Snapshot(p) ==
    [root |-> p.root, rootRuntime |-> p.session,
     leaf |-> p.focus, runtime |-> LeafSession(p, p.focus),
     rootClaim |-> HookClaim(p, p.root), claim |-> HookClaim(p, p.focus)]

SyncLegacy(p) == [p EXCEPT !.legacy = Lookup(p.conv, p.root)]
SetConversation(p, l, c) ==
    IF l \notin LeafSet(p) THEN p
    ELSE SyncLegacy([p EXCEPT !.conv = IF c = Unset THEN Without(@, l) ELSE With(@, l, c)])

FreshPanel(r) ==
    [open |-> TRUE, tree |-> <<>>, root |-> 1, focus |-> 1, session |-> r,
     others |-> <<>>, conv |-> <<>>, legacy |-> Unset]

-----------------------------------------------------------------------------
(* What an acknowledged intention does.  r is the session of the controller *)
(* that is attached, Unset when it did not start.                            *)

InsertedAfter(t, l, new) ==
    LET i == SelectInSeq(t, LAMBDA x : x = l) IN InsertAt(t, i + 1, new)
SplitAfterAck(p, new, r) ==
    [p EXCEPT !.tree = InsertedAfter(ActiveLeaves(p), p.focus, new),
              !.others = With(@, new, r), !.focus = new]

CloseLeafAfterAckUnsynced(p) ==
    LET rest == Remove(p.tree, p.focus)
        next == Head(rest)
        root == IF p.focus = p.root THEN next ELSE p.root
    IN [p EXCEPT !.tree = IF Len(rest) <= 1 THEN <<>> ELSE rest,
                 !.root = root,
                 !.focus = IF Len(rest) <= 1 THEN root ELSE next,
                 !.session = IF p.focus = p.root THEN p.others[next] ELSE @,
                 !.others = Without(@, IF p.focus = p.root THEN next ELSE p.focus),
                 !.conv = Without(@, p.focus)]
CloseLeafAfterAck(p) ==
    LET rest == Remove(p.tree, p.focus)
        next == Head(rest)
        root == IF p.focus = p.root THEN next ELSE p.root
    IN SyncLegacy(
         [p EXCEPT !.tree = IF Len(rest) <= 1 THEN <<>> ELSE rest,
                   !.root = root,
                   !.focus = IF Len(rest) <= 1 THEN root ELSE next,
                   !.session = IF p.focus = p.root THEN p.others[next] ELSE @,
                   !.others = Without(@, IF p.focus = p.root THEN next ELSE p.focus),
                   !.conv = Without(@, p.focus)])

ReplaceAfterAck(p, r) ==
    SyncLegacy(
      [p EXCEPT !.session = IF p.focus = p.root THEN r ELSE @,
                !.others = IF p.focus = p.root THEN @ ELSE With(@, p.focus, r),
                !.conv = Without(@, p.focus)])
\* The exact conversation is remembered only once the replacement started.
PublishResume(p, r, resume) ==
    IF r # Unset /\ resume # <<>> THEN SetConversation(p, p.focus, resume[1]) ELSE p

Closed(p) == [p EXCEPT !.open = FALSE]

-----------------------------------------------------------------------------
(* The saved layout.                                                        *)

ToSaved(p) ==
    [tree |-> p.tree, root |-> p.root, focus |-> p.focus,
     runtimes |-> [l \in {x \in LeafSet(p) : LeafSession(p, x) # Unset} |-> LeafSession(p, l)],
     runtime |-> p.session,
     conv |-> [l \in DOMAIN p.conv \cap LeafSet(p) |-> p.conv[l]],
     legacy |-> p.legacy]
\* A copied or edited layout: a field is missing, or two leaves share a runtime.
Edited(s) ==
    {[s EXCEPT !.root = Unset], [s EXCEPT !.focus = Unset],
     [s EXCEPT !.tree = <<>>], [s EXCEPT !.tree = @ \o @], [s EXCEPT !.runtimes = <<>>],
     [s EXCEPT !.runtimes = [l \in DOMAIN s.runtimes |-> s.runtime]]}

ValidTree(t) == Len(t) = Cardinality(Range(t))
DuplicatesKept(s, active) ==
    [l \in DOMAIN s.runtimes \cap active |-> s.runtimes[l]]
\* The entries are read in key order; the first holder of a runtime keeps it.
ClaimedRuntimes(s, active) ==
    LET named == DOMAIN s.runtimes \cap active
    IN [l \in {x \in named : \A y \in named : s.runtimes[y] = s.runtimes[x] => x <= y}
            |-> s.runtimes[l]]
RestoredRuntimes(s, active, root) ==
    LET kept == ClaimedRuntimes(s, active)
    IN IF root \notin DOMAIN kept /\ s.runtime # Unset /\ s.runtime \notin Range(kept)
       THEN With(kept, root, s.runtime)
       ELSE kept

\* restored_leaf_state: a new number for a root that no valid identity names.
RestoredLeafState(s, fresh) ==
    LET leaves == IF ValidTree(s.tree) THEN s.tree ELSE <<>>
        root == CASE s.root # Unset /\ (leaves = <<>> \/ s.root \in Range(leaves)) -> s.root
                  [] leaves # <<>> -> Head(leaves)
                  [] OTHER -> fresh
        active == IF leaves = <<>> THEN {root} ELSE Range(leaves)
        conv == [l \in DOMAIN s.conv \cap active |-> s.conv[l]]
    IN [tree |-> IF Len(leaves) > 1 THEN leaves ELSE <<>>,
        root |-> root,
        focus |-> IF s.focus \in active THEN s.focus ELSE root,
        runtimes |-> RestoredRuntimes(s, active, root),
        conv |-> IF s.legacy # Unset /\ root \notin DOMAIN conv
                 THEN With(conv, root, s.legacy) ELSE conv]

\* restore_split_tree: every leaf gets a detached controller with its runtime,
\* or with a new one, numbered from born on.
MissingRuntimes(w) ==
    (IF w.tree = <<>> THEN {w.root} ELSE Range(w.tree)) \ DOMAIN w.runtimes
FromSaved(w, born) ==
    LET active == IF w.tree = <<>> THEN {w.root} ELSE Range(w.tree)
        new(l) == born + Cardinality({x \in MissingRuntimes(w) : x <= l})
        runtime(l) == IF l \in DOMAIN w.runtimes THEN w.runtimes[l] ELSE new(l)
    IN [open |-> TRUE, tree |-> w.tree, root |-> w.root, focus |-> w.focus,
        session |-> runtime(w.root),
        others |-> [l \in active \ {w.root} |-> runtime(l)],
        conv |-> w.conv, legacy |-> Lookup(w.conv, w.root)]

-----------------------------------------------------------------------------
Init ==
    /\ panel = FreshPanel(1)
    /\ pending = <<>> /\ managed = {1} /\ claimed = {}
    /\ late = <<>>
    /\ strays = {}
    /\ births = 1 /\ edits = 0
    /\ talk = [r \in Runtimes |-> r]

(* Intentions.                                                              *)

\* queue_hook_mutation: one at a time; a fence that already failed is not kept.
QueueHookMutation(kind, resume) ==
    /\ panel.open /\ pending = <<>>
    /\ \/ pending' = <<[snap |-> Snapshot(panel), fence |-> "pending",
                        kind |-> kind, resume |-> resume]>>
       \/ UNCHANGED pending
    /\ UNCHANGED <<panel, managed, claimed, late, strays, births, edits, talk>>
SplitFocused == Len(ActiveLeaves(panel)) < MaxLeaves /\ QueueHookMutation("split", <<>>)
CloseFocusedLeaf == QueueHookMutation("close", <<>>)
\* replace_focused_session, with the staged resume identity.
ReplaceFocused ==
    \E resume \in {<<>>} \cup {<<c>> : c \in Offered} :
        QueueHookMutation("replace", resume)

\* The worker settles the closure of the alias.
FenceSettles ==
    /\ pending # <<>> /\ pending[1].fence = "pending"
    /\ \E s \in {"acknowledged", "failed"} : pending' = <<[pending[1] EXCEPT !.fence = s]>>
    /\ UNCHANGED <<panel, managed, claimed, late, strays, births, edits, talk>>

SnapshotIgnored(m) == TRUE
SnapshotHolds(m) == Snapshot(panel) = m.snap

PollDiscards ==
    /\ pending # <<>>
    /\ ~SnapshotHolds(pending[1]) \/ pending[1].fence = "failed"
    /\ pending' = <<>>
    /\ UNCHANGED <<panel, managed, claimed, late, strays, births, edits, talk>>

Acknowledged(kind) ==
    /\ pending # <<>> /\ SnapshotHolds(pending[1])
    /\ pending[1].fence = "acknowledged" /\ pending[1].kind = kind
    /\ pending' = <<>>

Kill(rs) ==
    /\ managed' = managed \ rs
    /\ claimed' = claimed \ rs

PollSplits ==
    /\ Acknowledged("split")
    /\ births < MaxBirths
    /\ births' = births + 1
    /\ \E r \in {Unset, births + 1} :
        /\ panel' = SplitAfterAck(panel, births + 1, r)
        /\ managed' = managed \cup ({r} \ {Unset})
    /\ UNCHANGED <<claimed, late, strays, edits, talk>>

\* Without a tree the workspace closes the whole panel.
PollCloses ==
    /\ Acknowledged("close")
    /\ IF panel.tree = <<>>
       THEN /\ panel' = Closed(panel)
            /\ Kill(AllRuntimes(panel))
       ELSE /\ panel' = CloseLeafAfterAck(panel)
            /\ Kill({LeafSession(panel, panel.focus)} \ {Unset})
    /\ UNCHANGED <<late, strays, births, edits, talk>>

PollReplaces ==
    /\ Acknowledged("replace")
    /\ births < MaxBirths
    /\ births' = births + 1
    /\ \E r \in {Unset, births + 1} :
        LET resume == pending[1].resume
            old == {LeafSession(panel, panel.focus)} \ {Unset}
            new == {r} \ {Unset}
        IN /\ panel' = PublishResume(ReplaceAfterAck(panel, r), r, resume)
           /\ managed' = (managed \ old) \cup new
           /\ claimed' = claimed \ old
           /\ talk' = IF r # Unset /\ resume # <<>>
                      THEN [talk EXCEPT ![r] = resume[1]] ELSE talk
    /\ UNCHANGED <<late, strays, edits>>

(* Meanwhile.                                                               *)

FocusNextLeaf ==
    /\ panel.open /\ panel.tree # <<>>
    /\ LET i == SelectInSeq(panel.tree, LAMBDA x : x = panel.focus)
       IN panel' = [panel EXCEPT !.focus = panel.tree[(i % Len(panel.tree)) + 1]]
    /\ UNCHANGED <<pending, managed, claimed, late, strays, births, edits, talk>>
ClickLeaf ==
    /\ panel.open
    /\ \E l \in Range(panel.tree) \ {panel.focus} : panel' = [panel EXCEPT !.focus = l]
    /\ UNCHANGED <<pending, managed, claimed, late, strays, births, edits, talk>>

\* The panel is closed by the user.
CloseForGood ==
    /\ panel.open
    /\ panel' = Closed(panel)
    /\ pending' = <<>>
    /\ Kill(AllRuntimes(panel))
    /\ UNCHANGED <<late, strays, births, edits, talk>>

\* The hook runtime admits the claim of a session, and retires it.
ClaimChanges ==
    /\ \E r \in managed : claimed' = SymDiff(claimed, {r})
    /\ UNCHANGED <<panel, pending, managed, late, strays, births, edits, talk>>

(* Answers addressed to a leaf and a runtime.                               *)

\* A log taken to be written, a transfer for a conversation or a hook message
\* takes the address of a leaf as it is.
Capture ==
    /\ panel.open /\ late = <<>>
    /\ \E l \in LeafSet(panel) :
        /\ LeafSession(panel, l) # Unset
        /\ late' = <<[leaf |-> l, runtime |-> LeafSession(panel, l)]>>
    /\ UNCHANGED <<panel, pending, managed, claimed, strays, births, edits, talk>>

ToTheLeaf(a) == a.leaf \in LeafSet(panel) /\ LeafSession(panel, a.leaf) \in Runtimes
ToTheRuntime(a) == a.leaf \in LeafSet(panel) /\ LeafSession(panel, a.leaf) = a.runtime
\* acknowledge_leaf_log, submit_prompt_to_leaf and publish_hook_session_id.
Answer ==
    /\ late # <<>>
    /\ late' = <<>>
    /\ LET a == late[1]
           found == panel.open /\ ToTheRuntime(a)
           r == LeafSession(panel, a.leaf)
       IN /\ \/ UNCHANGED panel
             \/ /\ found /\ r \in claimed
                /\ panel' = SetConversation(panel, a.leaf, talk[a.runtime])
          /\ strays' = IF found /\ r # a.runtime THEN strays \cup {<<a.runtime, r>>} ELSE strays
    /\ UNCHANGED <<pending, managed, claimed, births, edits, talk>>

(* A restart, perhaps with a layout edited by hand.                         *)

\* The application ends, and the next one reads the layout it saved.  The
\* processes live in the daemon and survive; a session without one is created
\* and resumes its conversation.
RestartFrom(s) ==
    LET w == RestoredLeafState(s, births + 1)
        now == FromSaved(w, births)
        top == Max({births + Cardinality(MissingRuntimes(w)), w.root})
        resumed(r) == {l \in DOMAIN now.conv : LeafSession(now, l) = r}
    IN /\ panel.open /\ top <= MaxBirths
       /\ births' = Max({births, top})
       /\ panel' = now
       /\ managed' = AllRuntimes(now)
       /\ talk' = [r \in Runtimes |->
                     IF r <= births \/ resumed(r) = {} THEN talk[r]
                     ELSE now.conv[CHOOSE l \in resumed(r) : TRUE]]
       /\ pending' = <<>> /\ late' = <<>> /\ claimed' = {}
       /\ UNCHANGED strays
Restart == RestartFrom(ToSaved(panel)) /\ UNCHANGED edits
RestartEdited ==
    /\ edits < MaxEdits
    /\ edits' = edits + 1
    /\ \E s \in Edited(ToSaved(panel)) : RestartFrom(s)

Next ==
    \/ SplitFocused \/ CloseFocusedLeaf \/ ReplaceFocused
    \/ FenceSettles \/ PollDiscards \/ PollSplits \/ PollCloses \/ PollReplaces
    \/ FocusNextLeaf \/ ClickLeaf \/ CloseForGood
    \/ ClaimChanges \/ Capture \/ Answer
    \/ Restart \/ RestartEdited

Spec == Init /\ [][Next]_vars

-----------------------------------------------------------------------------
(* The controllers fit the tree.  Whatever the panel went through, and      *)
(* however its saved layout was edited, its leaves are distinct, the root   *)
(* and the focus are among them, a tree has two leaves at least, every leaf *)
(* but the root has its own controller and no two leaves share a session;   *)
(* the manager knows the sessions of the leaves and no other.               *)
ControllersFitTheTree ==
    panel.open =>
        /\ ValidTree(ActiveLeaves(panel)) /\ Len(panel.tree) # 1
        /\ {panel.root, panel.focus} \subseteq LeafSet(panel)
        /\ DOMAIN panel.others = LeafSet(panel) \ {panel.root}
        /\ \A l, m \in LeafSet(panel) :
            LeafSession(panel, l) = LeafSession(panel, m) /\ LeafSession(panel, l) # Unset => l = m
        /\ managed = AllRuntimes(panel)

(* A conversation stays with its process.  The conversation a leaf would    *)
(* resume is the one the process in that leaf holds, also after the root    *)
(* was closed and another leaf took its place, after a replacement that did *)
(* not start, and after a restart from an older layout.                     *)
ConversationStaysWithItsProcess ==
    edits = 0 /\ panel.open =>
        \A l \in DOMAIN panel.conv :
            l \in LeafSet(panel) /\ LeafSession(panel, l) # Unset
                => panel.conv[l] = talk[LeafSession(panel, l)]

(* An answer finds its session or nobody: a written log, a prompt or a hook *)
(* message never touches the replacement that lives in the same leaf.       *)
AnswersFindTheirSession == strays = {}

PanesAreSound ==
    ControllersFitTheTree /\ ConversationStaysWithItsProcess /\ AnswersFindTheirSession

(* Only what was asked for is closed.  A session leaves its panel because   *)
(* the panel is closed or read again from the layout, or because it was the *)
(* focused one when the user asked, and the closing of the alias is durable *)
(* by then; however the focus moved in between.                             *)
TargetDies ==
    \A r \in managed \ managed' :
       \/ ~panel'.open \/ Restart \/ RestartEdited
       \/ pending # <<>> /\ pending[1].snap.runtime = r /\ pending[1].fence = "acknowledged"
OnlyTheTargetDies == [][TargetDies]_vars
=============================================================================
