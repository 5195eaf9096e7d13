----------------------------- MODULE HookServer -----------------------------
(***************************************************************************)
(* The door through which coding agents and the browser extension reach    *)
(* the app: orchestration/hook_server.rs, with what it calls               *)
(* (orchestration/claude_hooks.rs, memory/inject.rs, the classification    *)
(* of hook_authority.rs) and the staging of captures                       *)
(* (app/orchestration_ui.rs).                                              *)
(*                                                                         *)
(* Each start of the app binds a free port of the loopback, draws a token  *)
(* and overwrites the one endpoint file of the user; then it rewrites the  *)
(* agent's settings so that its own hook group is in every managed event.  *)
(* A hook is a shell command: it reads the endpoint file and, some time    *)
(* later, posts to the port it read, where another app may be listening    *)
(* by then.  The handler checks the token, the body, the event and the     *)
(* identity; the work on the memory runs on a blocking thread that goes on *)
(* when the client gives up, and only a handler whose client is still      *)
(* there publishes the event to the window.                                *)
(*                                                                         *)
(* Admission of a birth (hook_runtime.rs) is external here: module         *)
(* HookRuntime models it.                                                  *)
(***************************************************************************)
EXTENDS Naturals, FiniteSets, SequencesExt

CONSTANTS Apps,            \* runs of the app; each has its own token
          Ports,           \* loopback ports the system hands out
          Kinds,           \* events a hook may report
          MaxInputs,       \* bound: hooks fired, captures posted, others
          HOOK_EVENT_QUEUE_CAPACITY,
          DESIGN_CAPTURE_QUEUE_CAPACITY

VARIABLES phase,     \* phase[a]: "off", "loading", "up", "gone"
          port,      \* port[a]: <<>> or <<the port it listens on>>
          endpoint,  \* <<>> or <<[port, token]>>: endpoint.sh
          settings,  \* settings.json of the agent
          loaded,    \* loaded[a]: <<>> or <<settings read by the installer>>
          hooks,     \* the hooks fired, in order
          captures,  \* the captures posted, in order
          files,     \* screenshots on disk (by capture)
          queue,     \* queue[a]: events for the window
          seen,      \* seen[a]: events the window has taken
          designs,   \* designs[a]: captures waiting for the window
          draft,     \* draft[a]: <<>> or <<the captures of the open draft>>
          staged,    \* ghost: captures some draft has shown
          memory,    \* handoffs recorded, in order
          others     \* number of foreign edits and of drafts the user opens

vars == <<phase, port, endpoint, settings, loaded, hooks, captures, files,
          queue, seen, designs, draft, staged, memory, others>>

Servers  == <<phase, port, endpoint>>
Settings == <<settings, loaded, others>>
Designs  == <<captures, files, designs, draft, staged>>
Hooks    == <<hooks, queue, seen, memory>>

MoreInputs == Len(hooks) + Len(captures) + others < MaxInputs

(***************************************************************************)
(* The settings of the agent.  Of a file, its form; of an object, the      *)
(* value under each event: absent, a list of groups or another value.  A   *)
(* group is the app's ("managed", with the command that is current or an   *)
(* old one) or the user's.                                                 *)
(***************************************************************************)
MANAGED_EVENTS == {"managed"}
Events == MANAGED_EVENTS \cup {"other"}

Absent == [form |-> "absent"]
Listed(groups) == [form |-> "list", groups |-> groups]
Object(hooksForm, events) == [form |-> "object", hooks |-> hooksForm, events |-> events]
Empty == Object("absent", [e \in Events |-> Absent])

(* What other programs leave in the file: nothing of the app, an old group *)
(* of it among the user's, values of other shapes, no JSON at all.         *)
Edits ==
    {[form |-> "corrupt"],
     Object("odd", [e \in Events |-> Absent]),
     Object("object", [managed |-> Listed(<<"user's", "ours, old", "user's, too">>),
                       other   |-> [form |-> "odd"]]),
     Object("object", [managed |-> [form |-> "odd"],
                       other   |-> Listed(<<"user's", "ours, old">>)])}

IsManaged(group) == group \in {"ours", "ours, old"}
IsUsers(group) == ~IsManaged(group)

\* Faulty variant, for mutation: the managed group of an earlier version is not taken out.
MergedTwice(entry) ==
    CASE entry.form = "odd"    -> entry
      [] entry.form = "absent" -> Listed(<<"ours">>)
      [] entry.form = "list"   -> Listed(Append(entry.groups, "ours"))

(* install_hooks for the groups of one event. *)
Merged(entry) ==
    CASE entry.form = "odd"    -> entry
      [] entry.form = "absent" -> Listed(<<"ours">>)
      [] entry.form = "list"   -> Listed(Append(SelectSeq(entry.groups, IsUsers), "ours"))

InstallHooks(s) ==
    IF s.hooks = "odd" THEN s
    ELSE Object("object", [e \in Events |-> IF e \in MANAGED_EVENTS THEN Merged(s.events[e])
                                                                     ELSE s.events[e]])

(* load_settings: a missing file is an empty object; a file that cannot be *)
(* read as an object is an error, and the installation ends there.         *)
Loadable(s) == s.form \in {"absent", "object"}
LoadSettings(s) == IF s.form = "absent" THEN Empty ELSE s

-----------------------------------------------------------------------------
(***************************************************************************)
(* Starting and ending.                                                    *)
(***************************************************************************)
Listening(p) == {a \in Apps : port[a] = <<p>>}

(* HookServer::start, and the reading half of install_to_disk.  A failed   *)
(* endpoint file is only logged; the old one stays.                        *)
Start(a) ==
    /\ phase[a] = "off"
    /\ \E p \in Ports, written \in BOOLEAN :
         /\ Listening(p) = {}
         /\ port' = [port EXCEPT ![a] = <<p>>]
         /\ endpoint' = IF written THEN <<[port |-> p, token |-> a]>> ELSE endpoint
    /\ IF Loadable(settings)
         THEN /\ phase' = [phase EXCEPT ![a] = "loading"]
              /\ loaded' = [loaded EXCEPT ![a] = <<LoadSettings(settings)>>]
         ELSE /\ phase' = [phase EXCEPT ![a] = "up"]
              /\ loaded' = loaded
    /\ UNCHANGED <<settings, others, Hooks, Designs>>

(* The socket cannot be bound: the app goes on without hooks. *)
StartFails(a) ==
    /\ phase[a] = "off"
    /\ phase' = [phase EXCEPT ![a] = "gone"]
    /\ UNCHANGED <<port, endpoint, Settings, Hooks, Designs>>

(* The writing half of install_to_disk: the whole file is replaced by what *)
(* was read, merged.  The write may fail, which leaves the file as it is.  *)
Install(a) ==
    /\ phase[a] = "loading"
    /\ phase' = [phase EXCEPT ![a] = "up"]
    /\ \E written \in BOOLEAN :
         settings' = IF written THEN InstallHooks(Head(loaded[a])) ELSE settings
    /\ loaded' = [loaded EXCEPT ![a] = <<>>]
    /\ UNCHANGED <<port, endpoint, others, Hooks, Designs>>

(* External: another program writes the settings. *)
ForeignEdit ==
    /\ MoreInputs
    /\ others' = others + 1
    /\ settings' \in Edits
    /\ settings' # settings
    /\ UNCHANGED <<Servers, loaded, Hooks, Designs>>

-----------------------------------------------------------------------------
(***************************************************************************)
(* Hooks.  What a hook says of itself is the environment of the terminal   *)
(* it runs in: all fields of a birth of app a ("bound"), those of a        *)
(* terminal from before births ("legacy"), none ("unscoped"), or fields    *)
(* that do not parse ("malformed").                                        *)
(***************************************************************************)
Ident(fields, birth) == [fields |-> fields, birth |-> birth]

Idents == {Ident("bound", <<a>>) : a \in Apps} \cup {Ident("legacy", <<a>>) : a \in Apps}
            \cup {Ident("unscoped", <<>>), Ident("malformed", <<>>)}

\* Faulty variant, for mutation: fields that do not parse are taken for missing ones.
ClassifyLoosely(ident) ==
    IF ident.fields = "malformed" THEN "unscoped" ELSE ident.fields

(* RawHookIdentity::classify: a field that is there and does not parse is  *)
(* a denial, never an absent field.                                        *)
Classify(ident) ==
    CASE ident.fields = "bound"     -> "bound"
      [] ident.fields = "legacy"    -> "legacy"
      [] ident.fields = "unscoped"  -> "unscoped"
      [] ident.fields = "malformed" -> "denied"

(* HookKind::from_event_name and PromptBoundary::from_event_name. *)
HookKind(kind) ==
    CASE kind \in {"Stop", "SessionEnd"} -> "Stop"
      [] kind \in {"SessionStart", "UserPromptSubmit", "PermissionRequest", "PreToolUse"} -> kind
      [] OTHER -> "none"
\* Faulty variant, for mutation: the end of a session is taken for the end of a turn.
RecordsHandoffAtEnd(kind) == kind \in {"Stop", "SessionEnd"}

RecordsHandoff(kind) == kind = "Stop"

(* What may arrive in a request: the event, the identity, and a body that  *)
(* is no JSON, has no summary or has one.                                  *)
Requests == [kind : Kinds, ident : Idents, body : {"garbage", "plain", "summary"}]

(* The shell command sources the endpoint file; without one it exits.  The *)
(* rest of the request is chosen when it is read.                          *)
Fire ==
    /\ MoreInputs
    /\ endpoint # <<>>
    /\ hooks' = Append(hooks, [to |-> Head(endpoint), req |-> <<>>, at |-> <<>>,
                               step |-> "sent", client |-> TRUE])
    /\ UNCHANGED <<Servers, Settings, Designs, queue, seen, memory>>

Hook(h) == hooks[h]
NoEndpoint == [port |-> 0, token |-> 0]
Spent == [to |-> NoEndpoint, req |-> <<>>, at |-> <<>>, step |-> "done", client |-> FALSE]

\* Faulty variant, for mutation: any token will do.
AnyTokenMatches(a, token) == TRUE

(* token_matches *)
TokenMatches(a, token) == token = a

(* External (hook_runtime.rs): a birth is admitted by the run it belongs   *)
(* to; a legacy target by the run that still has its panel.                *)
Admits(a, ident) == ident.birth = <<a>>

(* A request that has left no trace is forgotten; the status it is         *)
(* answered with is left out.                                              *)
Forgotten(h) == hooks' = [hooks EXCEPT ![h] = Spent]

(* Nobody listens on the port, or the client's time is over before the     *)
(* connection is made.                                                     *)
NotDelivered(h) ==
    /\ Hook(h).step = "sent"
    /\ Forgotten(h)
    /\ UNCHANGED <<Servers, Settings, Designs, queue, seen, memory>>

(* hook_handler up to the identity: a wrong token, no JSON, an event of no *)
(* interest and an identity that does not parse end the request.           *)
Accepts(a, h, req) ==
    /\ TokenMatches(a, Hook(h).to.token)
    /\ req.body # "garbage"
    /\ HookKind(req.kind) # "none"
    /\ Classify(req.ident) # "denied"

Arrives(a, h) == Hook(h).step = "sent" /\ port[a] = <<Hook(h).to.port>>

Refused(a, h) ==
    /\ Arrives(a, h)
    /\ \E req \in Requests : ~Accepts(a, h, req)
    /\ Forgotten(h)
    /\ UNCHANGED <<Servers, Settings, Designs, queue, seen, memory>>

(* respond_to_hook_scoped / _owned.  A stop with a summary is recorded as  *)
(* a handoff; the store may be missing or refuse, which is only logged.    *)
(* The boundaries that inject context only read; the text is left out.     *)
Handoffs(h, req, owner) ==
    IF RecordsHandoff(req.kind) /\ req.body = "summary"
      THEN {memory, Append(memory, [hook |-> h, owner |-> owner])}
      ELSE {memory}

(* A hook from outside the app: the memory, and nothing else. *)
AnswerUnscoped(a, h) ==
    /\ Arrives(a, h)
    /\ \E req \in Requests :
         /\ Accepts(a, h, req)
         /\ Classify(req.ident) = "unscoped"
         /\ memory' \in Handoffs(h, req, <<>>)
         /\ IF memory' = memory
              THEN Forgotten(h)
              ELSE hooks' = [hooks EXCEPT ![h].step = "done", ![h].req = <<req>>]
    /\ UNCHANGED <<Servers, Settings, Designs, queue, seen>>

(* A hook of a terminal: admission and effects, on a blocking thread. *)
Admit(a, h) ==
    /\ Arrives(a, h)
    /\ \E req \in Requests :
         /\ Accepts(a, h, req)
         /\ Classify(req.ident) \in {"bound", "legacy"}
         /\ IF Admits(a, req.ident)
              THEN hooks' = [hooks EXCEPT ![h].step = "effects", ![h].at = <<a>>, ![h].req = <<req>>]
              ELSE Forgotten(h)
    /\ UNCHANGED <<Servers, Settings, Designs, queue, seen, memory>>

Effects(a, h) ==
    /\ Hook(h).step = "effects"
    /\ Hook(h).at = <<a>>
    /\ memory' \in Handoffs(h, Head(Hook(h).req), <<a>>)
    /\ hooks' = [hooks EXCEPT ![h].step = "publish"]
    /\ UNCHANGED <<Servers, Settings, Designs, queue, seen>>

(* curl gives up: the future of the handler is dropped, the blocking job   *)
(* is not.                                                                 *)
GiveUp(h) ==
    /\ Hook(h).step \in {"effects", "publish"}
    /\ Hook(h).client
    /\ hooks' = [hooks EXCEPT ![h].client = FALSE]
    /\ UNCHANGED <<Servers, Settings, Designs, queue, seen, memory>>

(* The event goes to the window unless its queue is full or the handler is *)
(* gone.                                                                   *)
MayPublish(a, h) == Hook(h).client /\ Len(queue[a]) < HOOK_EVENT_QUEUE_CAPACITY

Publish(a, h) ==
    /\ Hook(h).step = "publish"
    /\ Hook(h).at = <<a>>
    /\ hooks' = [hooks EXCEPT ![h].step = "done"]
    /\ queue' = IF MayPublish(a, h) THEN [queue EXCEPT ![a] = Append(@, h)] ELSE queue
    /\ UNCHANGED <<Servers, Settings, Designs, seen, memory>>

(* poll *)
Poll(a) ==
    /\ phase[a] = "up"
    /\ queue[a] # <<>>
    /\ seen' = [seen EXCEPT ![a] = @ \o queue[a]]
    /\ queue' = [queue EXCEPT ![a] = <<>>]
    /\ UNCHANGED <<Servers, Settings, Designs, hooks, memory>>

-----------------------------------------------------------------------------
(***************************************************************************)
(* Captures of the browser extension.                                      *)
(***************************************************************************)
Capture(c) == captures[c]

RefusedCapture == [to |-> NoEndpoint, at |-> <<>>, step |-> "done", reply |-> "refused"]

Post ==
    /\ MoreInputs
    /\ endpoint # <<>>
    /\ captures' = Append(captures,
         [to |-> Head(endpoint), at |-> <<>>, step |-> "sent", reply |-> "none"])
    /\ UNCHANGED <<Servers, Settings, Hooks, files, designs, draft, staged>>

(* write_screenshot: a file of its own for a picture that decodes; a       *)
(* capture without one is still useful.                                    *)
WriteScreenshot(body, c) == IF body = "picture" THEN files \cup {c} ELSE files

(* The first half of design_handler, to the file of the screenshot; a      *)
(* picture that is no PNG or cannot be written leaves a capture of text.   *)
Receive(a, c) ==
    /\ Capture(c).step = "sent"
    /\ port[a] = <<Capture(c).to.port>>
    /\ \E body \in {"garbage", "text", "picture"} :
         IF TokenMatches(a, Capture(c).to.token) /\ body # "garbage"
           THEN /\ captures' = [captures EXCEPT ![c].step = "built", ![c].at = <<a>>]
                /\ files' = WriteScreenshot(body, c)
           ELSE /\ captures' = [captures EXCEPT ![c] = RefusedCapture]
                /\ files' = files
    /\ UNCHANGED <<Servers, Settings, Hooks, designs, draft, staged>>

\* Faulty variant, for mutation: a refused capture keeps its file.
KeepCaptureFile(c) == files

(* discard_capture_file *)
DiscardCaptureFile(c) == files \ {c}

(* The second half: the queue takes the capture or its file is removed. *)
Enqueue(a, c) ==
    /\ Capture(c).step = "built"
    /\ Capture(c).at = <<a>>
    /\ IF Len(designs[a]) < DESIGN_CAPTURE_QUEUE_CAPACITY
         THEN /\ designs' = [designs EXCEPT ![a] = Append(@, c)]
              /\ captures' = [captures EXCEPT ![c].step = "done", ![c].reply = "200"]
              /\ files' = files
         ELSE /\ designs' = designs
              /\ captures' = [captures EXCEPT ![c] = RefusedCapture]
              /\ files' = DiscardCaptureFile(c)
    /\ UNCHANGED <<Servers, Settings, Hooks, draft, staged>>

\* Faulty variant, for mutation: the queue is drained whatever is on the screen.
MayStageAlways(a) == TRUE

(* poll_design_captures: nothing is taken while a draft is open. *)
MayStage(a) == draft[a] = <<>>

(* ... and stage_design_captures: all that is waiting becomes one draft; a *)
(* draft that is open stays as it is.                                      *)
Stage(a) ==
    /\ phase[a] = "up"
    /\ MayStage(a)
    /\ designs[a] # <<>>
    /\ designs' = [designs EXCEPT ![a] = <<>>]
    /\ IF draft[a] = <<>>
         THEN /\ draft' = [draft EXCEPT ![a] = <<designs[a]>>]
              /\ staged' = staged \o designs[a]
         ELSE UNCHANGED <<draft, staged>>
    /\ UNCHANGED <<Servers, Settings, Hooks, captures, files>>

(* The draft is launched or dismissed. *)
CloseDraft(a) ==
    /\ draft[a] # <<>>
    /\ draft' = [draft EXCEPT ![a] = <<>>]
    /\ UNCHANGED <<Servers, Settings, Hooks, captures, files, designs, staged>>

(* External: the user opens the launch dialog for something else. *)
OpenDraft(a) ==
    /\ phase[a] = "up"
    /\ MoreInputs
    /\ draft[a] = <<>>
    /\ draft' = [draft EXCEPT ![a] = <<<<>>>>]
    /\ others' = others + 1
    /\ UNCHANGED <<Servers, settings, loaded, Hooks, captures, files, designs, staged>>

(* The process ends: its queues, drafts and handlers end with it, its      *)
(* files, its handoffs and its endpoint file stay.                         *)
Ends(a) ==
    /\ phase[a] = "up"
    /\ phase' = [phase EXCEPT ![a] = "gone"]
    /\ port' = [port EXCEPT ![a] = <<>>]
    /\ queue' = [queue EXCEPT ![a] = <<>>]
    /\ seen' = [seen EXCEPT ![a] = <<>>]
    /\ designs' = [designs EXCEPT ![a] = <<>>]
    /\ draft' = [draft EXCEPT ![a] = <<>>]
    /\ hooks' = [h \in DOMAIN hooks |->
                   CASE hooks[h].at # <<a>>                          -> hooks[h]
                     [] \E i \in DOMAIN memory : memory[i].hook = h -> [hooks[h] EXCEPT !.step = "done"]
                     [] OTHER                                        -> Spent]
    /\ captures' = [c \in DOMAIN captures |->
                      IF captures[c].at = <<a>> THEN [captures[c] EXCEPT !.step = "done"]
                                                ELSE captures[c]]
    /\ UNCHANGED <<endpoint, Settings, files, staged, memory>>

-----------------------------------------------------------------------------
Init ==
    /\ phase = [a \in Apps |-> "off"]
    /\ port = [a \in Apps |-> <<>>]
    /\ endpoint = <<>>
    /\ settings = Absent
    /\ loaded = [a \in Apps |-> <<>>]
    /\ hooks = <<>>
    /\ captures = <<>>
    /\ files = {}
    /\ queue = [a \in Apps |-> <<>>]
    /\ seen = [a \in Apps |-> <<>>]
    /\ designs = [a \in Apps |-> <<>>]
    /\ draft = [a \in Apps |-> <<>>]
    /\ staged = <<>>
    /\ memory = <<>>
    /\ others = 0

Next ==
    \/ \E a \in Apps : \/ Start(a) \/ StartFails(a) \/ Install(a) \/ Ends(a)
                       \/ Poll(a) \/ Stage(a) \/ CloseDraft(a) \/ OpenDraft(a)
    \/ ForeignEdit \/ Fire \/ Post
    \/ \E h \in DOMAIN hooks : \/ NotDelivered(h) \/ GiveUp(h)
    \/ \E a \in Apps, h \in DOMAIN hooks :
         \/ Refused(a, h) \/ AnswerUnscoped(a, h) \/ Admit(a, h)
         \/ Effects(a, h) \/ Publish(a, h)
    \/ \E a \in Apps, c \in DOMAIN captures : Receive(a, c) \/ Enqueue(a, c)

Spec == Init /\ [][Next]_vars

-----------------------------------------------------------------------------
(***************************************************************************)
(* Properties.                                                             *)
(***************************************************************************)
Occurrences(s, x) == Cardinality({i \in DOMAIN s : s[i] = x})

(* A hook acts only on the run whose token it read, however the ports are  *)
(* reused: the window of a run sees each event of its own terminals at     *)
(* most once, and nothing else; a handoff is recorded at most once, only   *)
(* for a stop that brought a summary, and under an owner exactly when the  *)
(* hook came from a terminal; a hook whose identity does not parse leaves  *)
(* no trace.                                                               *)
HooksActWhereTheyBelong ==
    /\ \A a \in Apps : LET events == seen[a] \o queue[a] IN
         \A i \in DOMAIN events :
           LET hook == hooks[events[i]] IN
           /\ Occurrences(events, events[i]) = 1
           /\ hook.to.token = a
           /\ Head(hook.req).ident.birth = <<a>>
           /\ hook.step = "done" /\ hook.client
    /\ \A i \in DOMAIN memory :
         LET hook == hooks[memory[i].hook]
             req  == Head(hook.req)
         IN  /\ \A j \in DOMAIN memory : memory[j].hook = memory[i].hook => i = j
             /\ req.kind = "Stop" /\ req.body = "summary"
             /\ req.ident.fields # "malformed"
             /\ memory[i].owner = (IF req.ident.fields = "unscoped" THEN <<>>
                                                                    ELSE <<hook.to.token>>)

(* A capture the extension was told is accepted is in one place of the run *)
(* that accepted it, the queue or a draft that was shown, while that run   *)
(* goes on; a screenshot on disk is that of a capture being handled or     *)
(* accepted; a capture that was refused leaves no file.                    *)
CapturesAreKept ==
    \A c \in DOMAIN captures :
      /\ captures[c].reply = "200" =>
           LET a == Head(captures[c].at) IN
           /\ captures[c].to.token = a
           /\ phase[a] # "gone" => Occurrences(designs[a] \o staged, c) = 1
      /\ captures[c].reply = "refused" => c \notin files
      /\ c \in files => captures[c].step # "sent"

(* What the installer writes has every group of the user that it read, in  *)
(* order, and one group of the app in each managed event it understands.   *)
InstallationKeepsTheUsers ==
    \A a \in Apps : loaded[a] # <<>> =>
      LET before == Head(loaded[a])
          after  == InstallHooks(before)
          Groups(s, e) == IF s.events[e].form = "list" THEN s.events[e].groups ELSE <<>>
      IN  /\ before.hooks = "odd" => after = before
          /\ before.hooks # "odd" => \A e \in Events :
               /\ SelectSeq(Groups(after, e), IsUsers) = SelectSeq(Groups(before, e), IsUsers)
               /\ before.events[e].form = "odd" => after.events[e] = before.events[e]
               /\ e \in MANAGED_EVENTS /\ before.events[e].form # "odd"
                    => Len(SelectSeq(Groups(after, e), IsManaged)) = 1
          /\ InstallHooks(after) = after

HookServerIsSound ==
    HooksActWhereTheyBelong /\ CapturesAreKept /\ InstallationKeepsTheUsers
=============================================================================
