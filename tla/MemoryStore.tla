---------------------------- MODULE MemoryStore ----------------------------
(* The shared memory of agents (memory/store.rs): memories with their       *)
(* revisions and full-text index, idempotent requests of humans and agents, *)
(* review of candidates, links between projects, tasks and handoffs.  Each  *)
(* operation is one immediate SQLite transaction; clients are concurrent    *)
(* and may send a request again.  One stable key is modelled, in the        *)
(* project scope and in the scope of the one task a project and the         *)
(* orchestrator share.  Contents are model values.  Dates, redaction and    *)
(* limits on sizes are left out.                                            *)
EXTENDS Naturals, Sequences, FiniteSets

CONSTANTS
    Projects,   \* projects a directory may belong to
    Actors,     \* "human" and "agent"
    Texts,      \* contents, different ones not equivalent
    MaxReqs,    \* bound on the requests sent
    MaxRows,    \* bound on the memories
    MaxRev,     \* bound on revisions, for the u32 of the code
    MaxHandoffs \* bound on the handoffs

VARIABLES
    rows,       \* table memories, a row's id is its place
    fts,        \* ids in memories_fts
    revs,       \* table memory_revisions: <<memory, revision>>
    appended,   \* insertions into memory_revisions
    link,       \* linked_project_id of each project
    tasks,      \* project of each task, by the project it was made for
    handoffs,   \* tasks of the handoffs, in order
    sent,       \* requests the clients sent, with the row they had read
    receipts,   \* table mutation_receipts
    applied     \* times a request was carried out (history)

vars == <<rows, fts, revs, appended, link, tasks, handoffs, sent, receipts, applied>>

Reqs == 1..MaxReqs
Unset == "none"
Ids == DOMAIN rows
Active == {i \in Ids : rows[i].status = "active"}

Init ==
    /\ rows = <<>> /\ fts = {} /\ revs = {} /\ appended = 0
    /\ link = [p \in Projects |-> Unset]
    /\ tasks = [p \in Projects |-> Unset]
    /\ handoffs = <<>>
    /\ sent = <<>>
    /\ receipts = [r \in Reqs |-> Unset]
    /\ applied = [r \in Reqs |-> 0]

-----------------------------------------------------------------------------
(* Projects and tasks.                                                     *)

\* follow_links: at most as many hops as there are projects.
Canonical(p) ==
    LET hop[n \in 0..Cardinality(Projects)] ==
            IF n = 0 THEN p ELSE IF link[hop[n - 1]] = Unset THEN hop[n - 1] ELSE link[hop[n - 1]] IN
    hop[Cardinality(Projects)]

TasksIn(p) == {t \in Projects : tasks[t] = p}

\* upsert_task: the task of the canonical project, made when it is missing.
UpsertTask(p) == IF TasksIn(p) = {} THEN [tasks EXCEPT ![p] = p] ELSE tasks
TaskOf(p) == CHOOSE t \in Projects : UpsertTask(p)[t] = p

ScopeId(kind, p) == <<kind, IF kind = "project" THEN p ELSE TaskOf(p)>>
VisibleScopes(p) == {ScopeId("project", p), ScopeId("task", p)}

\* get, list, search and export for a directory of the project.
VisibleRows(p, status) == {i \in Ids : rows[i].scope \in VisibleScopes(Canonical(p)) /\ rows[i].status = status}

\* Reads make the task too.
Visit(p) ==
    /\ UpsertTask(Canonical(p)) # tasks
    /\ tasks' = UpsertTask(Canonical(p))
    /\ UNCHANGED <<rows, fts, revs, appended, link, handoffs, sent, receipts, applied>>

-----------------------------------------------------------------------------
(* Writing a memory.                                                       *)

\* find_latest_key: the active row, or a candidate.  updated_at has whole
\* seconds, so candidates of one second are in no order.
FindLatestKey(scope) ==
    LET of(status) == {i \in Ids : rows[i].scope = scope /\ rows[i].status = status} IN
    IF of("active") # {} THEN of("active") ELSE of("candidate")

Standing(actor) == IF actor = "human" THEN "active" ELSE "candidate"
NewRow(scope, text, status, rev) == [scope |-> scope, text |-> text, status |-> status, rev |-> rev]

\* persist_memory of a new row, with its revision and its index entry.
Insert(table, row) ==
    LET id == Len(rows) + 1 IN
    /\ rows' = Append(table, row)
    /\ revs' = revs \cup {<<id, row.rev>>}
    /\ appended' = appended + 1

InsertFresh(scope, q) ==
    /\ Insert(rows, NewRow(scope, q.text, Standing(q.actor), 1))
    /\ fts' = IF q.actor = "human" THEN fts \cup {Len(rows) + 1} ELSE fts

InsertConflictCandidate(scope, q) ==
    /\ Insert(rows, NewRow(scope, q.text, "candidate", 1))
    /\ UNCHANGED fts

Keep == UNCHANGED <<rows, fts, revs, appended>>

SupersedeRow(e, q) ==
    /\ rows[e].rev < MaxRev
    /\ Insert([rows EXCEPT ![e].status = "superseded"],
              NewRow(rows[e].scope, q.text, Standing(q.actor), rows[e].rev + 1))
    /\ fts' = (fts \ {e}) \cup (IF q.actor = "human" THEN {Len(rows) + 1} ELSE {})

\* Faulty variant: knowing the revision lets an agent replace an approved row.
RevisionOkForAnyone(e, q) == q.exp = rows[e].rev

\* The current revision avoids a lost update but gives an agent no authority
\* over a memory that was approved.
RevisionOk(e, q) ==
    /\ q.exp = rows[e].rev
    /\ ~(q.actor = "agent" /\ rows[e].status = "active")

\* remember_inner: the answer to a request and what it changes.
RememberInner(scope, q, answer) ==
    \/ /\ FindLatestKey(scope) = {}
       /\ answer = "committed"
       /\ InsertFresh(scope, q)
    \/ \E e \in FindLatestKey(scope) :
          LET same == rows[e].text = q.text
              dedup == same /\ rows[e].status \in {Standing(q.actor), "active"} IN
          \/ dedup /\ answer = "deduped" /\ Keep
          \/ ~dedup /\ RevisionOk(e, q) /\ answer = "committed" /\ SupersedeRow(e, q)
          \/ ~dedup /\ ~RevisionOk(e, q) /\ same /\ answer = "conflict" /\ Keep
          \/ ~dedup /\ ~RevisionOk(e, q) /\ ~same /\ answer = "conflict"
             /\ InsertConflictCandidate(scope, q)

\* A client writes from a directory, for the row in force that it has read or
\* for none.
Send(actor, p, kind, text) ==
    /\ Len(sent) < MaxReqs
    /\ \E saw \in {0} \cup FindLatestKey(ScopeId(kind, Canonical(p))) :
          sent' = Append(sent, [actor |-> actor, proj |-> p, kind |-> kind, text |-> text,
                                saw |-> saw, exp |-> IF saw = 0 THEN 0 ELSE rows[saw].rev])
    /\ UNCHANGED <<rows, fts, revs, appended, link, tasks, handoffs, receipts, applied>>

\* Faulty variant: the receipt is not looked up.
LoadNoReceipt(r) == FALSE

LoadReceipt(r) == receipts[r] # Unset

\* remember and propose.  A request that has a receipt gets the same answer;
\* the store does not change, so that is no step.
Remember(r) ==
    /\ r \in DOMAIN sent /\ ~LoadReceipt(r)
    /\ Len(rows) < MaxRows
    /\ LET q == sent[r]
           p == Canonical(q.proj) IN
       /\ tasks' = UpsertTask(p)
       /\ \E answer \in {"committed", "deduped", "conflict"} :
             /\ RememberInner(ScopeId(q.kind, p), q, answer)
             /\ receipts' = [receipts EXCEPT ![r] = answer]
    /\ applied' = [applied EXCEPT ![r] = @ + 1]
    /\ UNCHANGED <<link, handoffs, sent>>

-----------------------------------------------------------------------------
(* Review, by a human.                                                     *)

\* set_status and append_revision.
SetStatus(table, i, status, rev) == [table EXCEPT ![i].status = status, ![i].rev = rev]

\* Faulty variant: the row in force stays active beside the approved one.
SupersededByNone(i) == {}

SupersededBy(i) == {e \in Active : rows[e].scope = rows[i].scope /\ e # i}

Approve(i) ==
    /\ i \in Ids /\ rows[i].status = "candidate"
    /\ LET old == SupersededBy(i)
           was == IF old = {} THEN 0 ELSE rows[CHOOSE e \in old : TRUE].rev
           next == IF old = {} \/ rows[i].rev + 1 >= was + 2 THEN rows[i].rev + 1 ELSE was + 2
           retired == [k \in Ids |-> IF k \in old THEN [rows[k] EXCEPT !.status = "superseded", !.rev = was + 1]
                                     ELSE rows[k]] IN
       /\ next <= MaxRev
       /\ rows' = SetStatus(retired, i, "active", next)
       /\ revs' = revs \cup {<<i, next>>} \cup {<<e, was + 1>> : e \in old}
       /\ appended' = appended + 1 + Cardinality(old)
       /\ fts' = (fts \ old) \cup {i}
    /\ UNCHANGED <<link, tasks, handoffs, sent, receipts, applied>>

Retire(i, status) ==
    /\ rows[i].rev < MaxRev
    /\ rows' = SetStatus(rows, i, status, rows[i].rev + 1)
    /\ revs' = revs \cup {<<i, rows[i].rev + 1>>}
    /\ appended' = appended + 1
    /\ UNCHANGED <<link, tasks, handoffs, sent, receipts, applied>>

Reject(i) ==
    /\ i \in Ids /\ rows[i].status = "candidate"
    /\ Retire(i, "rejected")
    /\ UNCHANGED fts

Forget(i) ==
    /\ i \in Ids
    /\ Retire(i, "tombstoned")
    /\ fts' = fts \ {i}

-----------------------------------------------------------------------------
(* Handoffs and links.                                                     *)

CreateHandoff(p) ==
    /\ Len(handoffs) < MaxHandoffs
    /\ tasks' = UpsertTask(Canonical(p))
    /\ handoffs' = Append(handoffs, TaskOf(Canonical(p)))
    /\ UNCHANGED <<rows, fts, revs, appended, link, sent, receipts, applied>>

\* The handoff a directory of the project gets.
LatestHandoff(p) ==
    LET t == TaskOf(Canonical(p))
        own == {n \in DOMAIN handoffs : handoffs[n] = t} IN
    IF own = {} THEN 0 ELSE CHOOSE n \in own : \A m \in own : m <= n

\* Faulty variant: the tasks of the source are not moved.
MovedTasksOnlyMerged(from, into) == tasks

\* A task of the source joins the matching one of the target, or moves.
MovedTasks(from, into) ==
    [t \in Projects |-> IF tasks[t] # from THEN tasks[t]
                        ELSE IF TasksIn(into) # {} THEN Unset ELSE into]

\* merge_project_state: an active row does not displace one of the target, it
\* becomes a candidate.
Merge(from, into) ==
    LET TaskTo(t) == IF TasksIn(into) = {} THEN t ELSE CHOOSE u \in Projects : tasks[u] = into
        To(scope) == IF scope = <<"project", from>> THEN <<"project", into>>
                     ELSE IF scope[1] = "task" /\ tasks[scope[2]] = from THEN <<"task", TaskTo(scope[2])>>
                     ELSE scope
        moved == {i \in Ids : To(rows[i].scope) # rows[i].scope}
        clash == {i \in moved \cap Active : \E e \in Active : rows[e].scope = To(rows[i].scope)} IN
    /\ \A i \in moved : rows[i].rev < MaxRev
    /\ rows' = [i \in Ids |-> IF i \notin moved THEN rows[i]
                              ELSE [rows[i] EXCEPT !.scope = To(rows[i].scope), !.rev = @ + 1,
                                                   !.status = IF i \in clash THEN "candidate" ELSE @]]
    /\ revs' = revs \cup {<<i, rows[i].rev + 1>> : i \in moved}
    /\ appended' = appended + Cardinality(moved)
    /\ fts' = fts \ clash
    /\ tasks' = MovedTasks(from, into)
    /\ handoffs' = [n \in DOMAIN handoffs |-> IF tasks[handoffs[n]] = from THEN TaskTo(handoffs[n]) ELSE handoffs[n]]

LinkProjects(a, b) ==
    /\ Canonical(a) # Canonical(b)
    /\ Merge(Canonical(b), Canonical(a))
    /\ link' = [link EXCEPT ![Canonical(b)] = Canonical(a)]
    /\ UNCHANGED <<sent, receipts, applied>>

-----------------------------------------------------------------------------
Next ==
    \/ \E p \in Projects : Visit(p) \/ CreateHandoff(p)
    \/ \E actor \in Actors, p \in Projects, kind \in {"project", "task"}, text \in Texts :
          Send(actor, p, kind, text)
    \/ \E r \in Reqs : Remember(r)
    \/ \E i \in Ids : Approve(i) \/ Reject(i) \/ Forget(i)
    \/ \E a, b \in Projects : LinkProjects(a, b)

Spec == Init /\ [][Next]_vars
-----------------------------------------------------------------------------
\* The rules the schema states, met by what the operations do and not by a
\* failing insertion: one active memory per scope and key, one row for each
\* revision; and the index holds exactly what may be retrieved.
SchemaHolds ==
    /\ \A i, k \in Active : rows[i].scope = rows[k].scope => i = k
    /\ appended = Cardinality(revs)
    /\ fts = Active

\* Linking strands nothing: every memory and every handoff is still found
\* from the directories of some project.
NothingStranded ==
    /\ \A i \in Ids : \E p \in Projects : i \in VisibleRows(p, rows[i].status)
    /\ \A n \in DOMAIN handoffs : \E p \in Projects : handoffs[n] = TaskOf(Canonical(p))
    /\ handoffs # <<>> => \E p \in Projects : LatestHandoff(p) = Len(handoffs)
    /\ \A p \in Projects : Cardinality(TasksIn(p)) <= 1

\* A request that is sent again is not carried out again.
AppliedOnce == \A r \in Reqs : applied[r] <= 1

MemoryIsCoherent == SchemaHolds /\ NothingStranded /\ AppliedOnce

\* `no concede a un agente autoridad para retirar una memoria ya aprobada': a
\* request of an agent leaves the active memories as they are.
AgentsPropose ==
    \A r \in Reqs : receipts'[r] # receipts[r] /\ sent[r].actor = "agent" =>
       /\ \A i \in Active : rows'[i] = rows[i]
       /\ \A i \in DOMAIN rows' \ Ids : rows'[i].status # "active"
AgentsOnlyPropose == [][AgentsPropose]_vars

\* `Una actualizacion incluye expected_revision; un conflicto devuelve el
\* estado actual, no pisa a ciegas': a request replaces only the row its
\* author had read.
NoBlindWrite ==
    [][\A r \in Reqs : receipts'[r] # receipts[r] =>
          \A i \in Ids : rows'[i].status = "superseded" /\ rows[i].status # "superseded" => i = sent[r].saw]_vars
=============================================================================
