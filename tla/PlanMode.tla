----------------------------- MODULE PlanMode -----------------------------
(***************************************************************************)
(* Plan Mode of one scope: the plans and questions kept in a database that    *)
(* several processes share (src/src/paperclaw/planning/runtime.py), and the  *)
(* tools of agents, those that write guarded by the phase of the scope        *)
(* (tools.py).  A plan or a question is numbered in the order it was made.    *)
(***************************************************************************)
EXTENDS Integers, Sequences, FiniteSets

CONSTANTS
    Planners,       \* agents and people whose calls name the scope, each its own process
    Options,        \* answers a question offers
    FreeTexts,           \* answers in free text
    MaxPlans, MaxQuestions, MaxWrites

\* "none" stands for no answer, which no text of an answer is.
ASSUME PmAssumption == "none" \notin Options \cup FreeTexts

VARIABLES
    scope,      \* plan_scopes: phase and active plan
    plans,      \* plan_artifacts of the scope
    questions,  \* plan_questions of the scope
    asker,      \* every planner: a tool call that is past its check
    lastBy,     \* who changed the phase last
    writes

pmVars == <<scope, plans, questions, asker, lastBy, writes>>

Phases == {"idle", "planning", "awaiting_approval", "executing", "rejected"}
Denied == {"planning", "awaiting_approval", "rejected"}
NoPlanCall == [tool |-> "none", id |-> 0, answer |-> "none", told |-> "none"]

-----------------------------------------------------------------------------
\* SQLitePlanStore.enter
Enter(p) ==
    /\ asker[p].tool = "none" /\ scope.phase \notin {"planning", "awaiting_approval"}
    /\ scope' = [phase |-> "planning", active |-> 0]
    /\ lastBy' = p
    /\ UNCHANGED <<plans, questions, asker, writes>>

\* create_artifact; a plan with an empty list or a long text is rolled back.
CreateArtifact(p) ==
    /\ asker[p].tool = "none" /\ scope.phase = "planning" /\ Len(plans) < MaxPlans
    /\ plans' = Append(plans, [status |-> "awaiting_approval", version |-> 0, approved |-> FALSE, rejected |-> FALSE])
    /\ scope' = [phase |-> "awaiting_approval", active |-> Len(plans) + 1]
    /\ lastBy' = p
    /\ UNCHANGED <<questions, asker, writes>>

\* Mutant of Decidable: a decision is taken of every plan of the scope.
EveryPlan(n) == n \in DOMAIN plans

Decidable(n) == n \in DOMAIN plans /\ plans[n].status = "awaiting_approval"

\* decide
DecidePlan(p, n, approve) ==
    /\ asker[p].tool = "none" /\ Decidable(n)
    /\ LET next == IF approve THEN "executing" ELSE "rejected"
       IN  /\ plans' = [plans EXCEPT ![n].status = next, ![n].version = @ + 1,
                                     ![n].approved = @ \/ approve, ![n].rejected = @ \/ ~approve]
           /\ scope' = [phase |-> next, active |-> IF approve THEN n ELSE 0]
    /\ lastBy' = p
    /\ UNCHANGED <<questions, asker, writes>>

\* ask
AskUser(p, offers, free) ==
    /\ asker[p].tool = "none" /\ Len(questions) < MaxQuestions
    /\ questions' = Append(questions, [options |-> offers, free |-> free, status |-> "pending", answer |-> "none"])
    /\ UNCHANGED <<scope, plans, asker, lastBy, writes>>

\* answer reads the question and checks, and only then updates what is still pending.
Acceptable(n, text) == questions[n].options = {} \/ questions[n].free \/ text \in questions[n].options
CheckAnswer(p, n, text) ==
    /\ asker[p].tool = "none" /\ n \in DOMAIN questions
    /\ questions[n].status = "pending" /\ Acceptable(n, text)
    /\ asker' = [asker EXCEPT ![p] = [tool |-> "answer", id |-> n, answer |-> text, told |-> "none"]]
    /\ UNCHANGED <<scope, plans, questions, lastBy, writes>>

StoreAnswer(p) ==
    /\ asker[p].tool = "answer"
    /\ LET n == asker[p].id
           stored == IF questions[n].status = "pending" THEN [questions[n] EXCEPT !.status = "answered", !.answer = asker[p].answer]
                     ELSE questions[n]
       IN  /\ questions' = [questions EXCEPT ![n] = stored]
           /\ asker' = [asker EXCEPT ![p].tool = "told", ![p].told = stored.answer]
    /\ UNCHANGED <<scope, plans, lastBy, writes>>

Told(p) ==
    /\ asker[p].tool = "told"
    /\ asker' = [asker EXCEPT ![p] = NoPlanCall]
    /\ UNCHANGED <<scope, plans, questions, lastBy, writes>>

\* PlanGuardedTool: validate looks at the phase, execute does not.
CheckWrite(p) ==
    /\ asker[p].tool = "none" /\ scope.phase \notin Denied /\ writes < MaxWrites
    /\ asker' = [asker EXCEPT ![p] = [NoPlanCall EXCEPT !.tool = "write"]]
    /\ writes' = writes + 1
    /\ UNCHANGED <<scope, plans, questions, lastBy>>

Write(p) ==
    /\ asker[p].tool = "write"
    /\ asker' = [asker EXCEPT ![p] = NoPlanCall]
    /\ UNCHANGED <<scope, plans, questions, lastBy, writes>>

-----------------------------------------------------------------------------
PmInit ==
    /\ scope = [phase |-> "idle", active |-> 0]
    /\ plans = <<>> /\ questions = <<>>
    /\ asker = [p \in Planners |-> NoPlanCall]
    /\ lastBy = "nobody" /\ writes = 0

PmNext ==
    \E p \in Planners :
       \/ Enter(p) \/ CreateArtifact(p)
       \/ \E n \in DOMAIN plans, approve \in BOOLEAN : DecidePlan(p, n, approve)
       \/ \E offers \in {{}, Options}, free \in BOOLEAN : AskUser(p, offers, free)
       \/ \E n \in DOMAIN questions, text \in Options \cup FreeTexts : CheckAnswer(p, n, text)
       \/ StoreAnswer(p) \/ Told(p) \/ CheckWrite(p) \/ Write(p)

PmSpec == PmInit /\ [][PmNext]_pmVars

-----------------------------------------------------------------------------
(***************************************************************************)
(* The phase of the scope and the statuses of its plans agree, though they    *)
(* are rows of two tables: a scope awaits the approval of one plan, and no    *)
(* other plan awaits one; what it executes was approved; every plan is         *)
(* decided once.  An agent writes in a phase that denies it only when another  *)
(* changed the phase after its check.  A question has one answer, one it      *)
(* accepts, and whoever answered is told the answer that stands, which of two  *)
(* answers at once is the first.                                              *)
(***************************************************************************)
Awaiting == {n \in DOMAIN plans : plans[n].status = "awaiting_approval"}
OneAwaits == Awaiting = IF scope.phase = "awaiting_approval" THEN {scope.active} ELSE {}
ExecutesApproved == scope.phase = "executing" => scope.active # 0 /\ plans[scope.active].status = "executing"
DecidedOnce ==
    \A n \in DOMAIN plans :
        /\ plans[n].version = IF n \in Awaiting THEN 0 ELSE 1
        /\ ~(plans[n].approved /\ plans[n].rejected)
WritesWereAllowed == \A p \in Planners : asker[p].tool = "write" /\ scope.phase \in Denied => lastBy # p
OneAnswer ==
    \A n \in DOMAIN questions :
        /\ (questions[n].status = "answered") <=> (questions[n].answer # "none")
        /\ questions[n].answer \in Options \cup (IF questions[n].free \/ questions[n].options = {} THEN FreeTexts ELSE {}) \cup {"none"}
        /\ \A p \in Planners : asker[p].tool = "told" /\ asker[p].id = n => asker[p].told = questions[n].answer
PlanSound == scope.phase \in Phases /\ OneAwaits /\ ExecutesApproved /\ DecidedOnce /\ WritesWereAllowed /\ OneAnswer
=============================================================================
