----------------------------- MODULE Extensions -----------------------------
(***************************************************************************)
(* The extensions of a project: operators who edit the registry and the      *)
(* manifest (src/src/paperclaw/projects/extensions.py, manifest.py), the     *)
(* activation of what is enabled (extension_runtime.py), and the calls of    *)
(* connector tools by a running host (extension_execution.py).               *)
(*                                                                          *)
(* A descriptor is its id, a variant (what a replacement changes: version,   *)
(* trust source, permissions) and whether it is enabled.  Skills have no     *)
(* tools.  A runtime of a connector belongs to the host that made it.        *)
(***************************************************************************)
EXTENDS Integers, Sequences, FiniteSets

CONSTANTS
    Skills, Connectors,     \* extension ids
    Variants,               \* variants of a descriptor
    Asked,                  \* tools the permissions of a variant name
    Trusted,                \* variants whose trust source is allowed
    Ceiling,                \* permission_ceiling: tools the host allows
    Tools,                  \* tools every connector offers
    Operators, Calls,
    MaxChanges, MaxHosts      \* operations on the registry, hosts started

VARIABLES
    rows,       \* extensions.json: the descriptor of each id
    listed,     \* enabled_skills and enabled_connectors of the manifest, or none
    edit,       \* each operator: step, the rows it will write, what it has to audit
    trail,      \* extension_audit: how many rows
    host,       \* step of register_tools, descriptors still to activate, bindings, tools
    sessions,   \* _sessions: connectors whose runtime the activator owns
    live,       \* runtimes that are not closed
    call,       \* each invocation
    changes, hosts,
    torn        \* history: registry and manifest were written by two operators, or by half

exVars == <<rows, listed, edit, trail, host, sessions, live, call, changes, hosts, torn>>
registryVars == <<rows, listed, edit, trail, changes, torn>>
hostVars == <<host, sessions, live, hosts>>

CapabilityIds == Skills \cup Connectors
Unregistered == [variant |-> "none", on |-> FALSE]
Descriptor == [variant : Variants, on : BOOLEAN]
Calm == [pc |-> "idle", new |-> <<>>]
NotAsked == [pc |-> "none", ext |-> "none", tool |-> "none", ran |-> FALSE, under |-> Unregistered,
             worker |-> "none", status |-> <<>>]

\* snapshot and list(enabled=True).
EnabledIds(r) == {x \in CapabilityIds : r[x].on}

\* ExtensionPermissions.intersect with the ceiling, and what _public_tools lets through.
Effective(d) == Asked[d.variant] \cap Ceiling
PublicTools(d) == Tools \cap Effective(d)

-----------------------------------------------------------------------------
(* Operators: every change reads all rows, writes them all, then the manifest, then audits *)

\* Two operators at work, or one that is interrupted, may leave the manifest behind.
Beside(o) == \E p \in Operators \ {o} : edit[p].pc # "idle"
PlanRun(o, new) ==
    /\ edit[o].pc = "idle" /\ changes < MaxChanges
    /\ changes' = changes + 1
    /\ edit' = [edit EXCEPT ![o] = [pc |-> "save", new |-> new]]
    /\ torn' = (torn \/ Beside(o))
    /\ UNCHANGED <<rows, listed, trail, hostVars, call>>

\* register: the same descriptor is no change, another one needs replace_existing.
RegisterExtension(o, x, d, replace) ==
    /\ rows[x] # d
    /\ rows[x] # Unregistered => replace
    /\ PlanRun(o, [rows EXCEPT ![x] = d])

SetEnabled(o, x, on) ==
    /\ rows[x] # Unregistered
    /\ PlanRun(o, [rows EXCEPT ![x].on = on])

RemoveExtension(o, x) ==
    /\ rows[x] # Unregistered
    /\ PlanRun(o, [rows EXCEPT ![x] = Unregistered])

\* _save.
SaveRows(o) ==
    /\ edit[o].pc = "save"
    /\ rows' = edit[o].new
    /\ edit' = [edit EXCEPT ![o].pc = "sync"]
    /\ UNCHANGED <<listed, trail, changes, torn, hostVars, call>>

\* _sync_manifest, when the project has a manifest.  A change that had the registry for
\* itself leaves the two in agreement, also when they were not before.
SyncManifest(o) ==
    /\ edit[o].pc = "sync"
    /\ listed' = IF listed.exists THEN [listed EXCEPT !.ids = EnabledIds(edit[o].new)] ELSE listed
    /\ edit' = [edit EXCEPT ![o].pc = "audit"]
    /\ torn' = (Beside(o) \/ (torn /\ edit[o].new # rows))
    /\ UNCHANGED <<rows, trail, changes, hostVars, call>>

WriteTrail(o) ==
    /\ edit[o].pc = "audit"
    /\ trail' = trail + 1
    /\ edit' = [edit EXCEPT ![o] = Calm]
    /\ UNCHANGED <<rows, listed, changes, torn, hostVars, call>>

OperatorDies(o) ==
    /\ edit[o].pc # "idle"
    /\ edit' = [edit EXCEPT ![o] = Calm]
    /\ torn' = (torn \/ edit[o].pc = "sync")
    /\ UNCHANGED <<rows, listed, trail, changes, hostVars, call>>

\* ProjectManifestStore.initialize: a manifest that is there is replaced only with force,
\* and the new one lists nothing.
InitManifest(force) ==
    /\ changes < MaxChanges
    /\ listed.exists => force
    /\ listed' = [exists |-> TRUE, ids |-> {}]
    /\ changes' = changes + 1
    /\ torn' = (torn \/ EnabledIds(rows) # {} \/ \E o \in Operators : edit[o].pc # "idle")
    /\ UNCHANGED <<rows, edit, trail, hostVars, call>>

-----------------------------------------------------------------------------
(* Activation *)

NoBinding == [d |-> Unregistered, tools |-> {}]
Unbound == [x \in Connectors |-> NoBinding]
NoHost == [pc |-> "new", todo |-> {}, bound |-> Unbound, tools |-> {}, kept |-> Unbound]

\* activate takes the list of what is enabled.
BeginActivation ==
    /\ host.pc = "new"
    /\ host' = [host EXCEPT !.pc = "activate", !.todo = {[x |-> x, d |-> rows[x]] : x \in EnabledIds(rows)}]
    /\ UNCHANGED <<registryVars, sessions, live, hosts, call>>

\* close: the activation and its bindings are forgotten, every runtime is closed.
CloseSessions ==
    /\ host' = [host EXCEPT !.pc = "closed", !.todo = {}, !.bound = Unbound]
    /\ live' = live \ sessions
    /\ sessions' = {}
    /\ UNCHANGED <<registryVars, hosts, call>>

\* One descriptor cannot be activated: its source is not trusted, its file cannot be read,
\* the host has no such factory, or discovery fails behind a runtime that was made.
ActivationFails == host.pc = "activate" /\ host.todo # {} /\ CloseSessions

Next1(h) == host.pc = "activate" /\ h \in host.todo /\ h.d.variant \in Trusted

ActivateSkill(h) ==
    /\ Next1(h) /\ h.x \in Skills
    /\ host' = [host EXCEPT !.todo = @ \ {h}]
    /\ UNCHANGED <<registryVars, sessions, live, hosts, call>>

\* The runtime belongs to the activator before it is asked for its tools.
MakeRuntime(h) ==
    /\ Next1(h) /\ h.x \in Connectors \ sessions
    /\ \A x \in sessions : \A g \in host.todo : g.x # x
    /\ sessions' = sessions \cup {h.x}
    /\ live' = live \cup {h.x}
    /\ UNCHANGED <<registryVars, host, hosts, call>>

BindTools(h) ==
    /\ Next1(h) /\ h.x \in sessions
    /\ host' = [host EXCEPT !.todo = @ \ {h}, !.bound[h.x] = [d |-> h.d, tools |-> PublicTools(h.d)]]
    /\ UNCHANGED <<registryVars, sessions, live, hosts, call>>

\* The tools enter the registry of tools all together.
RegisterTools ==
    /\ host.pc = "activate" /\ host.todo = {}
    /\ host' = [host EXCEPT !.pc = "ready",
                    !.tools = {<<x, t>> \in Connectors \X Tools : t \in host.bound[x].tools},
                    !.kept = host.bound]
    /\ UNCHANGED <<registryVars, sessions, live, hosts, call>>

\* A runtime without call_tool or a name that is taken closes the executor instead, and so
\* does its owner at any time.  The tools stay in the registry they were put in.
CloseExecutor == host.pc \in {"activate", "ready"} /\ host.todo = {} /\ CloseSessions

\* The process ends with its runtimes and its calls, and another one starts.
NewHost ==
    /\ hosts < MaxHosts
    /\ hosts' = hosts + 1
    /\ host' = NoHost /\ sessions' = {} /\ live' = {}
    /\ call' = [c \in Calls |-> IF call[c].pc \in {"none", "over"} THEN [call[c] EXCEPT !.worker = "gone"]
                                ELSE [call[c] EXCEPT !.pc = "lost", !.worker = "gone"]]
    /\ UNCHANGED registryVars

-----------------------------------------------------------------------------
(* Calls of connector tools *)

Set(c, new) == call' = [call EXCEPT ![c] = new]
Binding(c) == host.kept[call[c].ext]

\* finish: the one record of the invocation.
FinishRun(c, status) == Set(c, [call[c] EXCEPT !.pc = "over", !.status = Append(@, status)])

\* The tool validates its arguments and calls invoke.
AskOp(c) ==
    /\ call[c].pc = "none" /\ call[c].worker = "none"
    /\ \E t \in host.tools : Set(c, [call[c] EXCEPT !.pc = "check", !.ext = t[1], !.tool = t[2]])
    /\ UNCHANGED <<registryVars, hostVars>>

\* Mutant of BindingHolds: the tool of an extension that has changed is called as it was.
BindingHoldsStill(c) == LET d == rows[call[c].ext] IN d.on /\ call[c].tool \in Effective(d)

\* _check_current_binding: the row is still there, enabled and the one that was activated,
\* its source is trusted and the ceiling allows the tool.
BindingHolds(c) ==
    LET d == rows[call[c].ext]
    IN  /\ d # Unregistered /\ d.on
        /\ d = Binding(c).d
        /\ d.variant \in Trusted
        /\ call[c].tool \in Effective(d)

CheckBinding(c) ==
    /\ call[c].pc = "check"
    /\ IF BindingHolds(c)
       THEN Set(c, [call[c] EXCEPT !.pc = "secret", !.under = rows[call[c].ext]])
       ELSE FinishRun(c, "denied")
    /\ UNCHANGED <<registryVars, hostVars>>

\* The secret the descriptor names is resolved, or not.
NoSecret(c) ==
    /\ call[c].pc = "secret"
    /\ FinishRun(c, "error")
    /\ UNCHANGED <<registryVars, hostVars>>

StartWorker(c) ==
    /\ call[c].pc = "secret"
    /\ Set(c, [call[c] EXCEPT !.pc = "wait", !.worker = "running"])
    /\ UNCHANGED <<registryVars, hostVars>>

\* run_call, in a thread of its own that nobody waits for after the call is over.  A closed
\* runtime raises.
WorkerRuns(c) ==
    /\ call[c].worker = "running"
    /\ \E out \in IF call[c].ext \in live THEN {"ok", "remote error", "refused", "raised", "invalid"} ELSE {"raised"} :
        Set(c, [call[c] EXCEPT !.worker = out, !.ran = call[c].ext \in live])
    /\ UNCHANGED <<registryVars, hostVars>>

\* The stop token, or the deadline: the runtime is closed, for the other calls as well.
GiveUp(c) ==
    /\ call[c].pc = "wait"
    /\ \E status \in {"cancelled", "timeout"} : FinishRun(c, status)
    /\ live' = live \ {call[c].ext}
    /\ UNCHANGED <<registryVars, host, sessions, hosts>>

\* The result or the exception comes out of the queue: an error the connector declares
\* keeps the runtime open, anything unforeseen closes it.
OpAnswered(c) ==
    /\ call[c].pc = "wait" /\ call[c].worker \notin {"running", "gone"}
    /\ FinishRun(c, IF call[c].worker = "ok" THEN "success" ELSE "error")
    /\ live' = IF call[c].worker \in {"raised", "invalid"} THEN live \ {call[c].ext} ELSE live
    /\ UNCHANGED <<registryVars, host, sessions, hosts>>

ExInit ==
    /\ rows = [x \in CapabilityIds |-> Unregistered]
    /\ listed \in [exists : BOOLEAN, ids : {{}}]
    /\ edit = [o \in Operators |-> Calm]
    /\ trail = 0
    /\ host = NoHost /\ sessions = {} /\ live = {}
    /\ call = [c \in Calls |-> NotAsked]
    /\ changes = 0 /\ hosts = 1
    /\ torn = FALSE

ExNext ==
    \/ \E o \in Operators :
        \/ \E x \in CapabilityIds : \/ \E d \in Descriptor, replace \in BOOLEAN : RegisterExtension(o, x, d, replace)
                          \/ \E on \in BOOLEAN : SetEnabled(o, x, on)
                          \/ RemoveExtension(o, x)
        \/ SaveRows(o) \/ SyncManifest(o) \/ WriteTrail(o) \/ OperatorDies(o)
    \/ \E force \in BOOLEAN : InitManifest(force)
    \/ BeginActivation \/ ActivationFails \/ RegisterTools \/ CloseExecutor \/ NewHost
    \/ \E h \in host.todo : ActivateSkill(h) \/ MakeRuntime(h) \/ BindTools(h)
    \/ \E c \in Calls : \/ AskOp(c) \/ CheckBinding(c) \/ NoSecret(c) \/ StartWorker(c)
                        \/ WorkerRuns(c) \/ GiveUp(c) \/ OpAnswered(c)

ExSpec == ExInit /\ [][ExNext]_exVars

-----------------------------------------------------------------------------
(* Properties *)

\* An activation is all or nothing: a host that is not active owns no runtime, and none is
\* open that nobody owns.
NothingLeftOpen ==
    /\ host.pc \in {"new", "closed"} => sessions = {}
    /\ live \subseteq sessions

\* A call reaches a connector only when its row was, at the check, the enabled and trusted
\* one that was activated; what operators did before the check counts, however late.
RunsAsActivated ==
    \A c \in Calls : call[c].worker \notin {"none", "gone"} =>
        /\ call[c].under = Binding(c).d /\ call[c].under.on
        /\ call[c].under.variant \in Trusted /\ call[c].tool \in Effective(call[c].under)

\* Every invocation that ended has one record, and the record does not deny what happened.
InvocationsRecorded ==
    \A c \in Calls :
        /\ call[c].pc = "over" => Len(call[c].status) = 1
        /\ call[c].ran => call[c].status # <<"denied">>
        /\ call[c].status = <<"success">> => call[c].ran

\* The manifest lists what is enabled, unless two operators were at work or one died
\* between the two files; the next change by one alone puts it right.
ManifestFollows ==
    (\A o \in Operators : edit[o].pc \notin {"sync"}) /\ ~torn /\ listed.exists =>
        listed.ids = EnabledIds(rows)

\* Editing, activating and calling leave the extensions of a project sound.
ExtensionsSound ==
    NothingLeftOpen /\ RunsAsActivated /\ InvocationsRecorded /\ ManifestFollows
=============================================================================
