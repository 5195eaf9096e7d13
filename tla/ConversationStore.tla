------------------------- MODULE ConversationStore -------------------------
(* The journal of conversations (conversation/store.rs) with the processes *)
(* that use it: the journal worker of the app that owns the profile        *)
(* (conversation/worker.rs), the window that types prompts into terminals   *)
(* (app/conversation_ui.rs), and one MCP bridge per agent                   *)
(* (conversation/mcp.rs).  Every method of the store is one immediate       *)
(* SQLite transaction, hence one step here.                                 *)
(*                                                                          *)
(* A binding names one life of a chat's terminal.  It is a number: the      *)
(* number of the terminal's current runtime, 0 when it has none.  The app   *)
(* draws new bindings for the same runtimes when it restarts, which is a    *)
(* step to the next number for every chat.                                  *)
EXTENDS Integers, Sequences, FiniteSets

CONSTANTS Chats,                  \* conversations (one workspace)
          MaxOps,                 \* bound: transfers ever sent
          MaxChanges,             \* bound: permissions withdrawn or changed,
                                  \* terminals and apps started again
          MAX_PENDING_TRANSFERS,  \* conversation/model.rs:7 (128 there)
          MAX_DELEGATION_DEPTH,   \* conversation/model.rs:8 (8 there)
          MAX_ROOT_TRANSFERS      \* conversation/model.rs:9 (64 there)

VARIABLES
  run,        \* run[c]: the runtime that c's terminal really has
  seen,       \* seen[c]: the runtime the window bound at its last poll
  rows,       \* the worker's bindings: <<>> or <<function>>
  reg,        \* reg[c]: c's binding in the journal
  provider,   \* chats with a registered provider
  links,      \* links[<<s, t>>]: "none", "ask" or "auto"
  cred,       \* chats whose credential is enabled
  transfers,  \* rows of the table, in rowid order
  hand,       \* claimed transfers on their way to the window, with the binding
  receipts,   \* <<id, ok>>: what the window did, on its way to the worker
  typed,      \* typed[i]: the runtimes that transfer i was typed into
  barred,     \* requests whose permission was taken back while they waited
  changes     \* changes so far

vars == <<run, seen, rows, reg, provider, links, cred,
          transfers, hand, receipts, typed, barred, changes>>

Ops == DOMAIN transfers
InFlight == {"dispatching", "input_queued"}
Waiting  == {"pending", "awaiting_approval", "needs_review"}
Finished == {"failed", "completed", "cancelled"}
Pairs == {p \in Chats \X Chats : p[1] # p[2]}

\* The app has started on the journal of an earlier run, which left linked chats
\* and their credentials, and has observed its terminals once; what the start
\* itself can meet is what AppRestarts leads to.
Init ==
  /\ run = [c \in Chats |-> 1] /\ seen = run /\ rows = <<run>> /\ reg = run
  /\ provider \in {{}, Chats} /\ cred = Chats
  /\ \E mode \in {"ask", "auto"} : links = [p \in Pairs |-> mode]
  /\ transfers = <<>> /\ hand = {} /\ receipts = {}
  /\ typed = [i \in 1..MaxOps |-> <<>>] /\ barred = {} /\ changes = 0

journal == <<reg, provider, links, cred, transfers>>
window == <<run, seen, rows>>
traffic == <<hand, receipts, typed>>

(***************************************************************************)
(* Terminals, the window's poll and the worker's registration of what it    *)
(* observed.                                                                *)
(***************************************************************************)

\* The agent of a chat is started, or started again: another runtime.
TerminalChanges(c) ==
  /\ changes < MaxChanges /\ changes' = changes + 1
  /\ run' = [run EXCEPT ![c] = @ + 1]
  /\ UNCHANGED <<seen, rows, journal, traffic, barred>>

\* The window binds the runtimes it finds, once a second, and posts them.
Poll ==
  /\ seen # run /\ seen' = run
  /\ UNCHANGED <<run, rows, journal, traffic, barred, changes>>

\* The worker registers what was posted and keeps it as its rows.  A
\* registration keeps the provider that an earlier one named.
Observe ==
  /\ \A c \in Chats : seen[c] # 0
  /\ \E named \in {{}, Chats} : provider' = provider \union named
  /\ reg' = seen /\ rows' = <<seen>>
  /\ UNCHANGED <<run, seen, links, cred, transfers, traffic, barred, changes>>

(***************************************************************************)
(* Permissions: links between two chats, the credential of a chat, and the  *)
(* lease that its bridge holds while it is connected.                       *)
(***************************************************************************)

LinkPair(s, t, mode) ==
  /\ links[<<s, t>>] # mode
  /\ links' = [links EXCEPT ![<<s, t>>] = mode, ![<<t, s>>] = mode]
  /\ changes' = IF links[<<s, t>>] = "none" THEN changes ELSE changes + 1
  /\ changes' <= MaxChanges
  /\ UNCHANGED <<window, reg, provider, cred, transfers, traffic, barred>>

\* Withdrawing a permission without looking at the queue, for the claim to see.
KeepRequests(ids) == UNCHANGED transfers

\* What losing a permission does to an agent's requests that still wait.
CancelRequests(ids) ==
  transfers' = [i \in Ops |-> IF i \in ids
                              THEN [transfers[i] EXCEPT !.state = "cancelled"]
                              ELSE transfers[i]]

RequestsOver(s, T, states) ==
  {i \in Ops : /\ transfers[i].src = s /\ transfers[i].tgt \in T
               /\ transfers[i].agent /\ transfers[i].state \in states}

Unlink(s, t) ==
  /\ changes < MaxChanges /\ links[<<s, t>>] # "none"
  /\ links' = [links EXCEPT ![<<s, t>>] = "none"]
  /\ CancelRequests(RequestsOver(s, {t}, {"pending", "awaiting_approval"}))
  /\ barred' = barred \union RequestsOver(s, {t}, Waiting)
  /\ changes' = changes + 1
  /\ UNCHANGED <<window, reg, provider, cred, traffic>>

\* A new configuration replaces the credential.  For a chat whose credential is
\* enabled that only ends the lease of the old bridge.
IssueConfig(c) ==
  /\ c \notin cred
  /\ cred' = cred \union {c}
  /\ UNCHANGED <<window, reg, provider, links, transfers, traffic, barred, changes>>

Revoke(c) ==
  /\ changes < MaxChanges /\ c \in cred
  /\ cred' = cred \ {c}
  /\ CancelRequests(RequestsOver(c, Chats, Waiting))
  /\ barred' = barred \union RequestsOver(c, Chats, Waiting)
  /\ changes' = changes + 1
  /\ UNCHANGED <<window, reg, provider, links, traffic>>

\* The bridge of a chat holds a lease under the credential it was started with,
\* renews it every five seconds and loses it when it closes or stops: it may come
\* and go at any time, but only while that credential is the enabled one.
HasBridge(c) == c \in cred

\* What an authenticated agent may address: itself and the chats it is linked
\* to, while its credential is the enabled one and its bridge runs.
MayAddress(c, t) == /\ HasBridge(c)
                    /\ c # t => links[<<c, t>>] # "none"

(***************************************************************************)
(* Sending.                                                                 *)
(***************************************************************************)

Parent(c) == LET mine == {i \in Ops : /\ transfers[i].tgt = c
                                      /\ transfers[i].state \in InFlight}
             IN IF mine = {} THEN 0 ELSE CHOOSE i \in mine : \A j \in mine : i <= j

\* The transfers on the way from i to the root of its task, i included.
Chain[i \in 0..MaxOps] == IF i = 0 THEN {}
                          ELSE {i} \union Chain[transfers[i].parent]

Root(i) == CHOOSE r \in Chain[i] : transfers[r].parent = 0
Task(i) == {j \in Ops : Root(j) = Root(i)}

SmallEnough(parent) ==
  /\ Cardinality(Chain[parent]) + 1 <= MAX_DELEGATION_DEPTH
  /\ parent # 0 => Cardinality(Task(parent)) < MAX_ROOT_TRANSFERS

\* A check of the sender's own chat alone.
MayDelegateNear(parent, t) ==
  SmallEnough(parent) /\ (parent # 0 => transfers[parent].tgt # t)

\* A delegation may not return to a chat of its own chain, nor make the chain
\* or the task too large.
MayDelegate(parent, t) ==
  /\ SmallEnough(parent)
  /\ \A i \in Chain[parent] : transfers[i].src # t /\ transfers[i].tgt # t

HasRoom(t) == Cardinality({i \in Ops : /\ transfers[i].tgt = t
                                       /\ transfers[i].state \notin Finished})
                < MAX_PENDING_TRANSFERS

Enqueue(s, t, agent, parent, state) ==
  /\ Len(transfers) < MaxOps /\ HasRoom(t)
  /\ transfers' = Append(transfers,
       [src |-> s, tgt |-> t, agent |-> agent, parent |-> parent,
        state |-> state, binding |-> reg[t]])
  /\ UNCHANGED <<window, reg, provider, links, cred, traffic, barred, changes>>

\* An agent sends as its own chat; the root of the task is found through the
\* transfer that it is working on.
AgentSends(s, t) ==
  /\ s # t /\ MayAddress(s, t)
  /\ MayDelegate(Parent(s), t)
  /\ Enqueue(s, t, TRUE, Parent(s),
             IF links[<<s, t>>] = "auto" THEN "pending" ELSE "awaiting_approval")

\* The user's send goes through only while the chosen context and the session of
\* the target are the ones that the preview showed: it names both as they are.
UserSends(s, t) ==
  /\ s # t
  /\ Enqueue(s, t, FALSE, 0, "pending")

(***************************************************************************)
(* The life of a transfer.                                                  *)
(***************************************************************************)

Becomes(i, state) == transfers' = [transfers EXCEPT ![i].state = state]
OnlyTransfers == UNCHANGED <<window, reg, provider, links, cred,
                             changes>>

\* The user approves: the request goes to the session the chat has now.
Approve(i) ==
  /\ transfers[i].state \in {"awaiting_approval", "needs_review"}
  /\ reg[transfers[i].tgt] > 0
  /\ transfers' = [transfers EXCEPT ![i].state = "pending",
                                    ![i].binding = reg[transfers[i].tgt]]
  /\ barred' = barred \ {i}
  /\ OnlyTransfers /\ UNCHANGED traffic

Cancel(i) ==
  /\ transfers[i].state \in Waiting \union {"failed"}
  /\ Becomes(i, "cancelled")
  /\ OnlyTransfers /\ UNCHANGED <<traffic, barred>>

\* An agent may cancel what it sent or received, with its credential.
AgentCancels(c, i) ==
  /\ c \in {transfers[i].src, transfers[i].tgt} /\ MayAddress(c, c)
  /\ Cancel(i)

\* A target that counts as free once its prompt has been accepted.
BusyDispatching(i) == \E j \in Ops \ {i} : /\ transfers[j].tgt = transfers[i].tgt
                                           /\ transfers[j].state = "dispatching"

Busy(i) == \E j \in Ops \ {i} : /\ transfers[j].tgt = transfers[i].tgt
                                /\ transfers[j].state \in InFlight

Permitted(i) == transfers[i].agent =>
  /\ links[<<transfers[i].src, transfers[i].tgt>>] # "none"
  /\ transfers[i].src \in cred

\* The worker claims a pending transfer for the binding that its row names.
\* A claim that is not possible yet changes nothing.
Claim(i, binding) ==
  /\ transfers[i].state = "pending"
  /\ HasBridge(transfers[i].tgt)
  /\ ~Busy(i)
  /\ LET t == transfers[i].tgt
         fits == reg[t] = binding /\ transfers[i].binding = binding
         next == CASE ~Permitted(i)    -> "cancelled"
                   [] t \notin provider -> "needs_review"
                   [] ~fits            -> "needs_review"
                   [] OTHER            -> "dispatching"
     IN /\ Becomes(i, next)
        /\ hand' = IF next = "dispatching" THEN hand \union {<<i, binding>>} ELSE hand
  /\ OnlyTransfers /\ UNCHANGED <<receipts, typed, barred>>

\* The first pending transfer of a chat with nothing in flight.
NextPending(c) == {i \in Ops : /\ transfers[i].tgt = c /\ transfers[i].state = "pending"
                               /\ \A j \in Ops : transfers[j].tgt = c =>
                                    /\ transfers[j].state \notin InFlight
                                    /\ transfers[j].state = "pending" => i <= j}

\* The scan after each job picks a chat by the availability its bridge declared
\* or, without one, by whether its agent's record says it is idle: any chat at
\* any time, here.
AutoDeliver(c) ==
  /\ rows # <<>> /\ rows[1][c] > 0
  /\ \E i \in NextPending(c) : Claim(i, rows[1][c])

\* The user asks for the delivery of one transfer now.
DeliverNow(i) ==
  /\ rows # <<>> /\ rows[1][transfers[i].tgt] > 0
  /\ Claim(i, rows[1][transfers[i].tgt])

\* The window types the prompt when its binding, the claimed one and the
\* transfer's agree and the terminal still has that runtime.
TypePrompt(i, binding) ==
  LET t == transfers[i].tgt
      ok == /\ seen[t] = binding /\ transfers[i].binding = binding
            /\ run[t] = binding
  IN /\ <<i, binding>> \in hand
     /\ hand' = hand \ {<<i, binding>>}
     /\ \E accepted \in {ok, FALSE} :    \* the terminal may refuse the input
          /\ typed' = IF accepted THEN [typed EXCEPT ![i] = Append(@, run[t])] ELSE typed
          /\ receipts' = receipts \union {<<i, accepted>>}
     /\ UNCHANGED <<window, journal, barred, changes>>

\* A window that is closing answers a claimed transfer without typing it.
RefuseClosing(i, binding) ==
  /\ <<i, binding>> \in hand
  /\ hand' = hand \ {<<i, binding>>}
  /\ receipts' = receipts \union {<<i, FALSE>>}
  /\ UNCHANGED <<window, journal, typed, barred, changes>>

\* A result that puts an undelivered transfer back into the queue.
DeliveryRetried(i, delivered) ==
  IF transfers[i].state = "dispatching"
  THEN Becomes(i, IF delivered THEN "input_queued" ELSE "pending")
  ELSE UNCHANGED transfers

\* What a receipt, or the user's answer about an unconfirmed delivery, does.
DeliveryResult(i, delivered) ==
  IF transfers[i].state = "dispatching"
  THEN Becomes(i, IF delivered THEN "input_queued" ELSE "failed")
  ELSE UNCHANGED transfers

Delivered(r) ==
  /\ r \in receipts
  /\ receipts' = receipts \ {r}
  /\ DeliveryResult(r[1], r[2])
  /\ OnlyTransfers /\ UNCHANGED <<hand, typed, barred>>

Resolve(i, delivered) ==
  /\ transfers[i].state = "dispatching"
  /\ DeliveryResult(i, delivered)
  /\ OnlyTransfers /\ UNCHANGED <<traffic, barred>>

\* Children that have at least been delivered.
ChildrenSent(i) == {j \in Ops : transfers[j].parent = i /\ transfers[j].state \in InFlight}

OpenChildren(i) == {j \in Ops : transfers[j].parent = i /\ transfers[j].state \notin Finished}

\* The recipient, or the user, records the result; an operation with delegated
\* work still open cannot be answered.
Reply(i) ==
  /\ transfers[i].state \in InFlight /\ OpenChildren(i) = {}
  /\ Becomes(i, "completed")
  /\ OnlyTransfers /\ UNCHANGED <<traffic, barred>>

AgentReplies(c, i) ==
  /\ transfers[i].tgt = c /\ MayAddress(c, c)
  /\ Reply(i)

\* The app ends without finishing and starts again: what was on its way is
\* gone, and every terminal is bound anew.
AppRestarts ==
  /\ changes < MaxChanges /\ changes' = changes + 1
  /\ run' = [c \in Chats |-> run[c] + 1]
  /\ seen' = [c \in Chats |-> 0] /\ rows' = <<>>
  /\ hand' = {} /\ receipts' = {}
  /\ UNCHANGED <<journal, typed, barred>>

Next ==
  \/ \E c \in Chats : \/ TerminalChanges(c) \/ IssueConfig(c) \/ Revoke(c)
                      \/ AutoDeliver(c)
  \/ \E p \in Pairs : \/ \E mode \in {"ask", "auto"} : LinkPair(p[1], p[2], mode)
                      \/ Unlink(p[1], p[2]) \/ AgentSends(p[1], p[2])
                      \/ UserSends(p[1], p[2])
  \/ \E i \in Ops : \/ Approve(i) \/ Cancel(i) \/ DeliverNow(i) \/ Reply(i)
                    \/ \E d \in BOOLEAN : Resolve(i, d)
                    \/ \E c \in Chats : AgentCancels(c, i) \/ AgentReplies(c, i)
  \/ \E h \in hand : TypePrompt(h[1], h[2]) \/ RefuseClosing(h[1], h[2])
  \/ \E r \in receipts : Delivered(r)
  \/ Poll \/ Observe \/ AppRestarts

Spec == Init /\ [][Next]_vars

-----------------------------------------------------------------------------
\* A chat is asked one thing at a time, however many senders, crashes and
\* retries there are (claim, conversation/store.rs:636).
OneAtATime == \A c \in Chats :
  Cardinality({i \in Ops : transfers[i].tgt = c /\ transfers[i].state \in InFlight}) <= 1

\* A prompt is typed at most once and only into the session that the user
\* reviewed or the request was queued for; afterwards nothing can queue it
\* again, not even a crash before its receipt.
TypedOnceWhereReviewed == \A i \in Ops :
  /\ Len(typed[i]) <= 1
  /\ typed[i] # <<>> => /\ typed[i][1] = transfers[i].binding
                        /\ transfers[i].state \notin Waiting

\* Work delegated by a chat never comes back to a chat that waits for it.
NoChatWaitsForItself == \A i \in Ops : \A j \in Chain[transfers[i].parent] :
  transfers[i].tgt \notin {transfers[j].src, transfers[j].tgt}

\* An answer covers everything that was delegated for it.
AnswerIsWhole == \A i \in Ops : transfers[i].state = "completed" =>
  \A j \in Ops : transfers[j].parent = i => transfers[j].state \in Finished

\* A request that was waiting when its link or its sender's credential was
\* withdrawn is never delivered without a new approval by the user, even when
\* the permission comes back.
WithdrawnStaysOut == \A i \in barred : transfers[i].state \notin InFlight /\ typed[i] = <<>>

TransfersAreSound == /\ OneAtATime /\ TypedOnceWhereReviewed
                     /\ NoChatWaitsForItself /\ AnswerIsWhole /\ WithdrawnStaysOut
=============================================================================
