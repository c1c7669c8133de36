------------------------------ MODULE MCState ------------------------------
(* Small instances of the components that keep what a run has done. *)
EXTENDS Sessions, Memory, FlowRuns, Contexts, Extensions, DocumentIndex, ProjectIndex, TraceReplay, DesktopRuns, RunEvents, ApplicationRuns

CONSTANTS sk, cn, o1, o2, c1, c2, d1, d2, i1, i2, b1, aHost, watcher

MfTexts == {{1}, {2, 3}}

T(kind, layer, scope, tokens, priority, until, replaces) ==
  [kind |-> kind, layer |-> layer, external |-> FALSE, scope |-> scope, tokens |-> tokens, priority |-> priority, until |-> until, replaces |-> replaces]
CbTexts == << T("constraint", "L4", {"shared"}, 2, 0, 0, 0), T("observation", "L4", {"coordinator"}, 3, 2, 0, 0), T("fact", "L4", {"shared"}, 3, 1, 0, 0),
   T("observation", "L4", {"shared"}, 2, 1, 5, 0), [T("constraint", "L0", {"shared"}, 1, 3, 0, 0) EXCEPT !.external = TRUE], T("constraint", "L4", {"worker", "coordinator"}, 1, 2, 0, 1), T("fact", "L4", {"coordinator"}, 1, 1, 0, 0)>>

Twice == {"t1","t2"}
AskedBy == [v \in {"v1","v2","bad"} |-> IF v = "v2" THEN {"t1","t2"} ELSE {"t1"}]

TwoTexts == {{"p"}, {"p","q"}}
ByKind == (d1 :> "markdown") @@ (d2 :> "plain_text")
BothSplit == (i1 :> "split") @@ (i2 :> "whole")

OneFileOneNote == <<"paper", "note">>

McRows == <<1, 0>>

McEngineEvents == <<4, 0>>
McCancels == <<1, 0>>

A(id, source, bucket, text, trust, pinned, tokens) ==
  [id |-> id, source |-> source, bucket |-> bucket, text |-> text, trust |-> trust, fact |-> FALSE, priority |-> 5, fresh |-> id,
   tokens |-> tokens, pinned |-> pinned, group |-> 0, sensitive |-> FALSE, started |-> TRUE]
CaPool == {
  A(1, "prompt", "protected", 1, 0, TRUE, 3),
  A(2, "message", "recent", 2, 2, FALSE, 2), A(3, "message", "recent", 3, 1, FALSE, 1), A(4, "message", "recent", 3, 2, FALSE, 1),
  A(5, "tool", "tool", 4, 3, FALSE, 1), [A(6, "tool", "tool", 5, 3, FALSE, 1) EXCEPT !.started = FALSE],
  [A(7, "item", "context", 6, 1, FALSE, 2) EXCEPT !.fact = TRUE, !.group = 1, !.priority = 8],
  [A(8, "item", "context", 7, 1, TRUE, 3) EXCEPT !.priority = 7],
  [A(9, "item", "context", 7, 1, FALSE, 3) EXCEPT !.fact = TRUE],
  [A(10, "item", "user", 8, 1, FALSE, 1) EXCEPT !.group = 1],
  [A(11, "item", "context", 9, 4, TRUE, 2) EXCEPT !.sensitive = TRUE],
  A(12, "task", "task", 10, 1, TRUE, 3),
  [A(13, "source", "user", 11, 2, FALSE, 6) EXCEPT !.priority = 9]}
CaQuota == [b \in {"recent", "context", "tool"} |-> IF b = "context" THEN 50 ELSE 25]

VARIABLE part  \* the component that runs, no other takes a step

\* The value of a variable of a component that does not run and that no property reads.
Unset == 0

AllVars == <<part, seVars, mfVars, miVars, frVars, cbVars, exVars, ixVars, pxVars, trVars, dkVars, evVars, apVars, caVars>>

SuiteInit ==
    /\ part \in {"session", "memory file", "memory items", "flow", "build", "extensions", "index", "knowledge", "trace", "desktop", "run events", "application", "prompt"}
    /\ SeInit /\ (part = "session" \/ (use = "rows" /\ db.version = 0))
    /\ MfInit
    /\ MiInit /\ (part = "memory items" \/ work = "decisions")
    /\ FrInit /\ (part = "flow" \/ (flow = (CHOOSE d \in Definitions : TRUE)))
    /\ IF part = "build" THEN CbInit
       ELSE table = Unset /\ seqno = Unset /\ builders = Unset /\ taken = Unset
    /\ IF part = "extensions" THEN ExInit
       ELSE rows = Unset /\ listed = Unset /\ edit = Unset /\ trail = Unset /\ host = Unset /\ sessions = Unset /\ live = Unset /\ call = Unset /\ changes = Unset /\ hosts = Unset /\ torn = Unset
    /\ IF part = "index" THEN IxInit
       ELSE store = Unset /\ ix = Unset /\ keeper = Unset /\ reader = Unset /\ harmed = Unset /\ tries = Unset
    /\ IF part = "knowledge" THEN PxInit
       ELSE files = Unset /\ database = Unset /\ metadata = Unset /\ actor = Unset /\ opened = Unset /\ watch = Unset /\ saves = Unset /\ visits = Unset /\ mixed = Unset
    /\ IF part = "trace" THEN TrInit
       ELSE recorder = Unset /\ recorded = Unset /\ stopping = Unset /\ faults = Unset /\ exporter = Unset /\ exported = Unset /\ plan = Unset
    /\ IF part = "desktop" THEN DkInit
       ELSE ctl = Unset /\ shown = Unset /\ worker = Unset /\ stops = Unset /\ queue = Unset /\ fan = Unset /\ starting = Unset /\ heard = Unset
    /\ IF part = "run events" THEN EvInit
       ELSE theRun = Unset /\ publicEvents = Unset /\ life = Unset /\ caller = Unset /\ follower = Unset
    /\ ApInit
    /\ IF part = "prompt" THEN CaInit
       ELSE offered = Unset /\ cands = Unset /\ picked = Unset /\ dropped = Unset /\ pcA = Unset

SuiteNext ==
    \/ part = "session" /\ SeNext /\ UNCHANGED <<part, mfVars, miVars, frVars, cbVars, exVars, ixVars, pxVars, trVars, dkVars, evVars, apVars, caVars>>
    \/ part = "memory file" /\ MfNext /\ UNCHANGED <<part, seVars, miVars, frVars, cbVars, exVars, ixVars, pxVars, trVars, dkVars, evVars, apVars, caVars>>
    \/ part = "memory items" /\ MiNext /\ UNCHANGED <<part, seVars, mfVars, frVars, cbVars, exVars, ixVars, pxVars, trVars, dkVars, evVars, apVars, caVars>>
    \/ part = "flow" /\ FrNext /\ UNCHANGED <<part, seVars, mfVars, miVars, cbVars, exVars, ixVars, pxVars, trVars, dkVars, evVars, apVars, caVars>>
    \/ part = "build" /\ CbNext /\ UNCHANGED <<part, seVars, mfVars, miVars, frVars, exVars, ixVars, pxVars, trVars, dkVars, evVars, apVars, caVars>>
    \/ part = "extensions" /\ ExNext /\ UNCHANGED <<part, seVars, mfVars, miVars, frVars, cbVars, ixVars, pxVars, trVars, dkVars, evVars, apVars, caVars>>
    \/ part = "index" /\ IxNext /\ UNCHANGED <<part, seVars, mfVars, miVars, frVars, cbVars, exVars, pxVars, trVars, dkVars, evVars, apVars, caVars>>
    \/ part = "knowledge" /\ PxNext /\ UNCHANGED <<part, seVars, mfVars, miVars, frVars, cbVars, exVars, ixVars, trVars, dkVars, evVars, apVars, caVars>>
    \/ part = "trace" /\ TrNext /\ UNCHANGED <<part, seVars, mfVars, miVars, frVars, cbVars, exVars, ixVars, pxVars, dkVars, evVars, apVars, caVars>>
    \/ part = "desktop" /\ DkNext /\ UNCHANGED <<part, seVars, mfVars, miVars, frVars, cbVars, exVars, ixVars, pxVars, trVars, evVars, apVars, caVars>>
    \/ part = "run events" /\ EvNext /\ UNCHANGED <<part, seVars, mfVars, miVars, frVars, cbVars, exVars, ixVars, pxVars, trVars, dkVars, apVars, caVars>>
    \/ part = "application" /\ ApNext /\ UNCHANGED <<part, seVars, mfVars, miVars, frVars, cbVars, exVars, ixVars, pxVars, trVars, dkVars, evVars, caVars>>
    \/ part = "prompt" /\ CaNext /\ UNCHANGED <<part, seVars, mfVars, miVars, frVars, cbVars, exVars, ixVars, pxVars, trVars, dkVars, evVars, apVars>>

SuiteSpec ==
    /\ SuiteInit /\ [][SuiteNext]_AllVars

(* The builder of role contexts alone. *)
BuildSuiteSpec == SuiteInit /\ part = "build" /\ [][SuiteNext]_AllVars

(* The context of a role and of a prompt is what it was built from, within its budget. *)
ContextSound ==
    /\ part = "build" => SnapshotsSound
    /\ part = "prompt" => PromptSound

(* What a project is told of its extensions, documents and index is what was stored of them. *)
ProjectSound ==
    /\ part = "extensions" => ExtensionsSound
    /\ part = "index" => IndexSound
    /\ part = "knowledge" => ProjectIndexSound

(* The rows of a run say what it did, and what is read of them later or shown meanwhile says the same. *)
RecordsSound ==
    /\ part = "trace" => TraceSound
    /\ part = "desktop" => DesktopSound
    /\ part = "run events" => RunEventsSound
=============================================================================
