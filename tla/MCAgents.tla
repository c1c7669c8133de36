------------------------------ MODULE MCAgents ------------------------------
(* Small instances of the components that run agents and carry their messages. *)
EXTENDS Coordinator, ScopedTools, AgentRuns, MessageBus, McpClient, LspClient, ToolSchema, PlanMode, SkillFiles, CapabilityChoice, TeamVerdicts, Delegation, ModelCalls, BusTeams, WorkerGateway, ArtifactStore

CONSTANTS f1, f2, t1, t2, c1, c2, k1, k2, a1, a2, u1, u2, p1, p2

Plans == {<<{}, {1}, {1, 2}>>, <<{}, {1}, {2}>>, <<{2}, {1}, {}>>, <<{}, {}, {1}>>}

Scopes == [t \in {t1,t2} |-> IF t = t1 THEN {f1,f2} ELSE {f1}]
Calls == [t \in {t1,t2} |-> IF t = t1 THEN 1 ELSE 2]
C(k, fs) == [kind |-> k, targets |-> fs, keyed |-> FALSE]
Keyed(k, fs) == [C(k, fs) EXCEPT !.keyed = TRUE]
Menus == [t \in {t1,t2} |-> IF t = t1
   THEN {C("dangerous", {}), C("shell", {f1,f2}), C("file_write", {f1})}
   ELSE {C("shell", {f2}), C("unknown", {}), C("file_edit", {f1}), Keyed("file_write", {f1})}]

TwoConsumers == {c1, c2}
TwoKeys == {k1, k2}

TwoPages == <<{"search"}, {"fetch"}>>

V(t, n) == [type |-> t, n |-> n, kids |-> <<>>]
ListOf(s) == [type |-> "array", n |-> 0, kids |-> s]
ObjectOf(f) == [type |-> "object", n |-> 0, kids |-> f]
Scalars == {V("null", 0), V("bool", 1), V("int", 1), V("int", 3), V("float", 1), V("string", 0), V("string", 2)}
Lists == {ListOf(<<>>), ListOf(<<V("int", 1)>>), ListOf(<<V("bool", 1)>>), ListOf(<<V("int", 1), V("float", 1)>>),
          ListOf(<<V("int", 1), V("bool", 1)>>), ListOf(<<V("string", 2), V("string", 2)>>)}
Objects(vs) == {ObjectOf([p \in {} |-> V("null", 0)])} \cup {ObjectOf([p \in {q} |-> v]) : q \in {"a", "b"}, v \in vs}
Inner == Scalars \cup Lists
SomeArguments == Objects(Inner \cup Objects({V("int", 1), V("bool", 1)}))
Free == [types |-> {}, union |-> FALSE, odd |-> FALSE, enum |-> <<>>, low |-> <<>>, high |-> <<>>, multiple |-> <<>>,
         unique |-> FALSE, items |-> <<>>, props |-> [p \in {} |-> 0], required |-> {}, additional |-> "yes", dialect |-> TRUE]
Typed(t) == [Free EXCEPT !.types = {t}]
Leaves == {Free, [Free EXCEPT !.odd = TRUE], Typed("bogus")} \cup {Typed(t) : t \in JsonTypes}
    \cup {[Free EXCEPT !.types = {"integer", "null"}, !.union = TRUE], [Free EXCEPT !.types = {"bogus"}, !.union = TRUE]}
    \cup {[Free EXCEPT !.enum = <<c>>] : c \in {{V("int", 1)}, {V("bool", 1)}, {ListOf(<<V("bool", 1)>>)}}}
    \cup {[Free EXCEPT !.low = <<n>>] : n \in {-1, 1, 2}} \cup {[Free EXCEPT !.high = <<n>>] : n \in {-1, 1}}
    \cup {[Free EXCEPT !.multiple = <<n>>] : n \in {0, 2, 3}}
    \cup {[Free EXCEPT !.unique = TRUE], [Free EXCEPT !.items = <<Typed("integer")>>], [Free EXCEPT !.items = <<Typed("bogus")>>]}
Object == Typed("object")
Only(p, s) == [Object EXCEPT !.props = [q \in {p} |-> s]]
SomeSchemas == {Only("a", l) : l \in Leaves}
    \cup {[Only("a", l) EXCEPT !.required = {"a"}, !.additional = "no"] : l \in Leaves}
    \cup {Only("a", Only("a", l)) : l \in {Free, Typed("integer"), [Free EXCEPT !.odd = TRUE]}}
    \cup {[Object EXCEPT !.required = {"b"}], [Object EXCEPT !.additional = "schema"], [Object EXCEPT !.dialect = FALSE],
          [Object EXCEPT !.union = TRUE], Typed("array"), Free, [Object EXCEPT !.low = <<1>>]}

Capable(q, r, tool, fields, about, scopes) ==
    [qualified |-> q, registry |-> r, tool |-> tool, title |-> {}, fields |-> fields, about |-> about, scopes |-> scopes]
SomeOffers ==
    <<<<Capable(1, "r1", {"search"}, {"query"}, {"papers"}, {"shared"}), Capable(2, "r2", {"fetch"}, {"url"}, {"papers", "search"}, {"*"})>>,
      <<Capable(3, "r3", {"search"}, {"query"}, {"papers"}, {"shared", "writer"})>>,
      <<Capable(4, "r4", {"send"}, {"query"}, {"search"}, {"shared"}), Capable(5, "r5", {"papers"}, {}, {}, {"reviewer"})>>,
      <<Capable(4, "r6", {"send"}, {}, {}, {"shared"})>>,
      <<Capable(6, "r7", {"search"}, {}, {"papers"}, {"shared"}), Capable(6, "r8", {"search"}, {}, {}, {"shared"})>>,
      <<Capable(7, "r9", {"search"}, {}, {}, {"shared"})>>>>
SomeBound == [r \in {"r1", "r2", "r3", "r4", "r5", "r6", "r9"} |->
    CASE r = "r1" -> 1 [] r = "r2" -> 2 [] r = "r3" -> 3 [] r \in {"r4", "r6"} -> 4 [] r = "r5" -> 5 [] OTHER -> 8]
SomeRequests == [words : {{"search"}, {"papers", "query"}, {"search", "url"}, {"other"}}, scopes : {{"shared"}, {"shared", "reviewer"}, {"other"}}, top : {1, 2, 4}]

TwoTasksOneFile == <<[deps |-> {}, file |-> "f"], [deps |-> {1}, file |-> "none"]>>
EachNamesBoth == <<{1, 2}, {1, 2}>>
SomeClaims == {{}, {[by |-> {1}, rule |-> "all_present", required |-> FALSE]}} \cup {{[by |-> {1, 2}, rule |-> "all_equal", required |-> q]} : q \in BOOLEAN}

ShortAndLong == {[steps |-> 1, tools |-> 1, extra |-> 0], [steps |-> 2, tools |-> 0, extra |-> 1]}

Candidate(name, rank, price, window, able, structured, enabled) ==
    [name |-> name, rank |-> rank, inputPrice |-> price, outputPrice |-> price, window |-> window,
     abilities |-> able, structured |-> structured, enabled |-> enabled]
McConfigured ==
    {{Candidate(1, 2, 1, 4, {}, TRUE, TRUE), Candidate(2, 1, 3, 4, {"vision"}, FALSE, TRUE), Candidate(3, 2, 1, 2, {"vision"}, TRUE, TRUE)},
     {Candidate(1, 1, 1, 4, {}, TRUE, FALSE), Candidate(2, 1, 2, 4, {"vision"}, TRUE, TRUE)}}
McRetryAfters == {-1, 5}
McProfiles ==
    {[needs |-> needs, input |-> input, output |-> 1, structured |-> structured, ceiling |-> ceiling, explicit |-> explicit,
      most |-> most, fallback |-> most > 1] :
        needs \in {{}, {"vision"}}, input \in {1, 2}, structured \in {FALSE, TRUE}, ceiling \in {-1, 4}, explicit \in {0, 3}, most \in {1, 3}}

RemoteRequest(e, digest, fault) == [id |-> e, digest |-> digest, fault |-> fault]
SomeRemoteRequests == {RemoteRequest(1, "a", "none"), RemoteRequest(1, "b", "verbose"), RemoteRequest(2, "a", "none"), RemoteRequest(2, "c", "outside")}

VARIABLE part  \* the component that runs, no other takes a step

\* The value of a variable of a component that does not run and that no property reads.
Unset == 0

AllVars == <<part, coVars, wsVars, arVars, busVars, mcVars, lspVars, tsVars, pmVars, skVars, chVars, tvVars, dgVars, mdVars, btVars, wgVars, atVars>>

SuiteInit ==
    /\ part \in {"team", "tools", "agent", "bus", "mcp", "lsp", "schema", "plan", "skills", "choice", "verdicts", "delegation", "models", "bus teams", "gateway", "artifacts"}
    /\ CoInit /\ (part = "team" \/ (deps = <<{}, {}, {1}>>))
    /\ WsInit /\ (part = "tools" \/ (file[f1].exists))
    /\ ArInit
    /\ BusInit
    /\ McInit
    /\ LspInit
    /\ IF part = "schema" THEN TsInit
       ELSE offered = Unset /\ found = Unset /\ passed = Unset /\ verdict = Unset
    /\ PmInit
    /\ IF part = "skills" THEN SkInit
       ELSE skillFile = Unset /\ remote = Unset /\ definitions = Unset /\ scan = Unset /\ loaded = Unset /\ skillEdits = Unset /\ loads = Unset
    /\ IF part = "choice" THEN ChInit
       ELSE index = Unset /\ frozen = Unset /\ snapshot = Unset /\ isolated = Unset /\ chosen = Unset /\ setupFailed = Unset
    /\ IF part = "verdicts" THEN TvInit
       ELSE items = Unset /\ judgment = Unset /\ existing = Unset /\ phase = Unset /\ round = Unset /\ stopped = Unset /\ gate = Unset
    /\ IF part = "delegation" THEN DgInit
       ELSE spent = Unset /\ halted = Unset /\ delegation = Unset
    /\ IF part = "models" THEN MdInit
       ELSE profile = Unset /\ candidates = Unset /\ decision = Unset /\ turn = Unset /\ answers = Unset /\ tried = Unset
    /\ IF part = "bus teams" THEN BtInit
       ELSE sent = Unset /\ acked = Unset /\ row = Unset /\ served = Unset /\ traced = Unset /\ ended = Unset /\ known = Unset /\ mishaps = Unset
    /\ WgInit
    /\ AsInit /\ (part = "artifacts" \/ links)

SuiteNext ==
    \/ part = "team" /\ CoNext /\ UNCHANGED <<part, wsVars, arVars, busVars, mcVars, lspVars, tsVars, pmVars, skVars, chVars, tvVars, dgVars, mdVars, btVars, wgVars, atVars>>
    \/ part = "tools" /\ WsNext /\ UNCHANGED <<part, coVars, arVars, busVars, mcVars, lspVars, tsVars, pmVars, skVars, chVars, tvVars, dgVars, mdVars, btVars, wgVars, atVars>>
    \/ part = "agent" /\ ArNext /\ UNCHANGED <<part, coVars, wsVars, busVars, mcVars, lspVars, tsVars, pmVars, skVars, chVars, tvVars, dgVars, mdVars, btVars, wgVars, atVars>>
    \/ part = "bus" /\ BusNext /\ UNCHANGED <<part, coVars, wsVars, arVars, mcVars, lspVars, tsVars, pmVars, skVars, chVars, tvVars, dgVars, mdVars, btVars, wgVars, atVars>>
    \/ part = "mcp" /\ McNext /\ UNCHANGED <<part, coVars, wsVars, arVars, busVars, lspVars, tsVars, pmVars, skVars, chVars, tvVars, dgVars, mdVars, btVars, wgVars, atVars>>
    \/ part = "lsp" /\ LspNext /\ UNCHANGED <<part, coVars, wsVars, arVars, busVars, mcVars, tsVars, pmVars, skVars, chVars, tvVars, dgVars, mdVars, btVars, wgVars, atVars>>
    \/ part = "schema" /\ TsNext /\ UNCHANGED <<part, coVars, wsVars, arVars, busVars, mcVars, lspVars, pmVars, skVars, chVars, tvVars, dgVars, mdVars, btVars, wgVars, atVars>>
    \/ part = "plan" /\ PmNext /\ UNCHANGED <<part, coVars, wsVars, arVars, busVars, mcVars, lspVars, tsVars, skVars, chVars, tvVars, dgVars, mdVars, btVars, wgVars, atVars>>
    \/ part = "skills" /\ SkNext /\ UNCHANGED <<part, coVars, wsVars, arVars, busVars, mcVars, lspVars, tsVars, pmVars, chVars, tvVars, dgVars, mdVars, btVars, wgVars, atVars>>
    \/ part = "choice" /\ ChNext /\ UNCHANGED <<part, coVars, wsVars, arVars, busVars, mcVars, lspVars, tsVars, pmVars, skVars, tvVars, dgVars, mdVars, btVars, wgVars, atVars>>
    \/ part = "verdicts" /\ TvNext /\ UNCHANGED <<part, coVars, wsVars, arVars, busVars, mcVars, lspVars, tsVars, pmVars, skVars, chVars, dgVars, mdVars, btVars, wgVars, atVars>>
    \/ part = "delegation" /\ DgNext /\ UNCHANGED <<part, coVars, wsVars, arVars, busVars, mcVars, lspVars, tsVars, pmVars, skVars, chVars, tvVars, mdVars, btVars, wgVars, atVars>>
    \/ part = "models" /\ MdNext /\ UNCHANGED <<part, coVars, wsVars, arVars, busVars, mcVars, lspVars, tsVars, pmVars, skVars, chVars, tvVars, dgVars, btVars, wgVars, atVars>>
    \/ part = "bus teams" /\ BtNext /\ UNCHANGED <<part, coVars, wsVars, arVars, busVars, mcVars, lspVars, tsVars, pmVars, skVars, chVars, tvVars, dgVars, mdVars, wgVars, atVars>>
    \/ part = "gateway" /\ WgNext /\ UNCHANGED <<part, coVars, wsVars, arVars, busVars, mcVars, lspVars, tsVars, pmVars, skVars, chVars, tvVars, dgVars, mdVars, btVars, atVars>>
    \/ part = "artifacts" /\ AsNext /\ UNCHANGED <<part, coVars, wsVars, arVars, busVars, mcVars, lspVars, tsVars, pmVars, skVars, chVars, tvVars, dgVars, mdVars, btVars, wgVars>>

SuiteSpec ==
    /\ SuiteInit /\ [][SuiteNext]_AllVars
    /\ WF_coVars(part = "team" /\ CoStep)
    /\ WF_coVars(part = "team" /\ TimePasses)
    /\ \A t \in Plan : WF_coVars(part = "team" /\ co.pc = "work" /\ ThreadEnds(t))

(* The coordinator alone. *)
TeamSuiteSpec == SuiteInit /\ part = "team" /\ [][SuiteNext]_AllVars

(* What a team says it did is what was judged and what its trace has, and what it used is charged to the run that asked. *)
TeamsSound ==
    /\ part = "verdicts" => VerdictsSound
    /\ part = "delegation" => DelegationSound
    /\ part = "bus teams" => BusTeamsSound

(* What an agent may call and do, and which models it asks, follows from schemas, skills, limits and the selection of capabilities as they were meant. *)
AbilitiesSound ==
    /\ part = "models" => ModelCallsSound
    /\ part = "schema" => SchemaSound
    /\ part = "skills" => SkillsSound
    /\ part = "choice" => SelectionSound

(* The promises that need fairness, each where its component is the one that runs. *)
EveryTeamEnds == part = "team" => RunEnds
=============================================================================
