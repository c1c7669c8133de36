------------------------------ MODULE Delegation ------------------------------
(***************************************************************************)
(* The tool delegate_tasks (src/src/paperclaw/multiagent/tool.py): an agent    *)
(* hands tasks to a team that runs in a thread of its own, and the team's      *)
(* calls are charged to the agent's run (budget_accounting.py).  The run may   *)
(* be stopped at any time; the tool then cancels the team and waits for it     *)
(* for a while only.                                                           *)
(*                                                                          *)
(* The team is what coordinator.py makes of it: a team in parallel reserves    *)
(* what a task may cost before it starts one, a single agent only looks at     *)
(* what was spent.  The tasks of a delegation are alike, and in a single agent's     *)
(* list each depends on the one before.                                       *)
(***************************************************************************)
EXTENDS Integers, Sequences, FiniteSets, FiniteSetsExt

CONSTANTS
    ModelLimit, ToolLimit,  \* RunLimits of the agent
    TaskSteps,              \* max_steps of a task
    TaskReserve,            \* reflection and judge calls of a task, which are asked for as well
    TeamSizes,              \* how many tasks a delegation may have
    Efforts,                \* what a worker may do: steps, tool calls, calls without a step
    MaxDelegations

ASSUME /\ {ModelLimit, ToolLimit, TaskSteps, TaskReserve} \subseteq Nat /\ TaskSteps > 0
       /\ \A e \in Efforts : e.steps \in 0..TaskSteps /\ e.tools \in 0..e.steps /\ e.extra \in 0..TaskReserve

VARIABLES
    spent,   \* _Usage of the agent: model and tool calls, those of its own among the first
    halted,  \* the stop token
    delegation \* the delegations, in the order they were made

dgVars == <<spent, halted, delegation>>

Least(a, b) == IF a < b THEN a ELSE b
Most(a, b) == IF a > b THEN a ELSE b
NewWorker == [pc |-> "waiting", cap |-> 0, steps |-> 0, models |-> 0, tools |-> 0]
EndedWorker == {"completed", "failed", "blocked", "cancelled", "crashed", "dropped", "left", "gone"}

\* Steps, model calls and tool calls of the results a coordinator has: a worker that was
\* cancelled while it ran, or that raised, has a result without counters.
Counted(c, what) == LET n(t) == c.worker[t][what]
                    IN  MapThenSumSet(n, {t \in DOMAIN c.worker : c.worker[t].pc \in {"completed", "failed"}})
Spends(c) == LET n(t) == c.worker[t].models IN MapThenSumSet(n, DOMAIN c.worker)
Waits == \E k \in DOMAIN delegation : delegation[k].pc \in {"runs", "joins"}

-----------------------------------------------------------------------------
(* The agent *)

OwnCall ==
    /\ ~Waits /\ ~halted /\ spent.models < ModelLimit
    /\ spent' = [spent EXCEPT !.models = @ + 1, !.own = @ + 1]
    /\ UNCHANGED <<halted, delegation>>

StopRun ==
    /\ ~halted
    /\ halted' = TRUE
    /\ UNCHANGED <<spent, delegation>>

\* Mutant of Budget: the agent's remaining calls are not looked at.
RequestedBudget(n, models, tools) ==
    [models |-> n * (TaskSteps + TaskReserve), steps |-> n * TaskSteps]

\* _parse_request
Budget(n, models, tools) ==
    LET cap == Most(1, Least(n * (TaskSteps + TaskReserve), models))
    IN  [models |-> cap, steps |-> Most(1, Least(n * TaskSteps, cap + tools))]

\* The tool delegation is counted before the tool is asked, and the stop token read once before
\* the thread is started.
Delegate(n, parallel) ==
    /\ ~Waits /\ ~halted /\ spent.tools < ToolLimit /\ Len(delegation) < MaxDelegations
    /\ parallel => n > 1
    /\ spent' = [spent EXCEPT !.tools = @ + 1]
    /\ LET models == Most(0, ModelLimit - spent.models)
           refused == models = 0
       IN  delegation' = Append(delegation, [pc |-> IF refused THEN "returned" ELSE "runs", team |-> IF refused THEN "ended" ELSE "starting",
                                 outcome |-> IF refused THEN "parent_budget_exhausted" ELSE "none", parallel |-> parallel,
                                 budget |-> Budget(n, models, ToolLimit - spent.tools - 1), cancelled |-> FALSE, charged |-> 0,
                                 worker |-> [t \in 1..(IF refused THEN 0 ELSE n) |-> NewWorker]])
    /\ UNCHANGED halted

\* coordinator.cancel for every task
CancelTeam(k) ==
    /\ delegation[k].pc = "runs" /\ halted /\ delegation[k].team \in {"starting", "runs"}
    /\ delegation' = [delegation EXCEPT ![k].pc = "joins", ![k].cancelled = TRUE]
    /\ UNCHANGED <<spent, halted>>

\* The join of 15 seconds ends before the team does: nothing is charged.
LeaveTeam(k) ==
    /\ delegation[k].pc = "joins" /\ delegation[k].team \in {"starting", "runs"}
    /\ delegation' = [delegation EXCEPT ![k].pc = "returned", ![k].outcome = "unknown_outcome"]
    /\ UNCHANGED <<spent, halted>>

\* The thread has ended; what its results count is added to the agent's usage.
TakeResult(k) ==
    /\ delegation[k].pc \in {"runs", "joins"} /\ delegation[k].team \in {"ended", "raised"}
    /\ LET c == delegation[k]
           models == IF c.team = "raised" THEN 0 ELSE Counted(c, "models")
           tools == IF c.team = "raised" THEN 0 ELSE Counted(c, "tools")
       IN  /\ delegation' = [delegation EXCEPT ![k].pc = "returned", ![k].charged = models,
                          ![k].outcome = IF c.pc = "joins" THEN "cancelled"
                                         ELSE IF c.team = "raised" THEN "subagent_runtime_error"
                                         ELSE IF \A t \in DOMAIN c.worker : c.worker[t].pc = "completed" THEN "succeeded"
                                         ELSE "subagent_tasks_incomplete"]
           /\ spent' = [spent EXCEPT !.models = @ + models, !.tools = @ + tools]
    /\ UNCHANGED halted

-----------------------------------------------------------------------------
(* The team's thread *)

\* run forgets whatever was cancelled before it.
TeamStarts(k) ==
    /\ delegation[k].team = "starting"
    /\ delegation' = [delegation EXCEPT ![k].team = "runs", ![k].cancelled = FALSE]
    /\ UNCHANGED <<spent, halted>>

\* Model calls reserved by the workers that run.
ReservedByWorkers(c) == LET n(t) == c.worker[t].cap + TaskReserve IN MapThenSumSet(n, {t \in DOMAIN c.worker : c.worker[t].pc = "works"})
ReservedCaps(c) == LET n(t) == c.worker[t].cap IN MapThenSumSet(n, {t \in DOMAIN c.worker : c.worker[t].pc = "works"})

BeginWork(k, t) ==
    LET c == delegation[k]
        cap == Least(TaskSteps, Most(1, c.budget.steps - Counted(c, "steps")))
    IN  /\ c.team = "runs" /\ c.worker[t].pc = "waiting" /\ ~c.cancelled
        /\ IF c.parallel
           THEN /\ \A u \in 1..(t - 1) : c.worker[u].pc # "waiting"
                /\ Counted(c, "models") + ReservedByWorkers(c) + cap + TaskReserve <= c.budget.models
                /\ Counted(c, "steps") + ReservedCaps(c) + cap <= c.budget.steps
           ELSE /\ \A u \in 1..(t - 1) : c.worker[u].pc = "completed"
                /\ Counted(c, "models") < c.budget.models /\ Counted(c, "steps") < c.budget.steps
        /\ delegation' = [delegation EXCEPT ![k].worker[t].pc = "works", ![k].worker[t].cap = cap]
        /\ UNCHANGED <<spent, halted>>

\* Nothing more is begun: the team is cancelled or late, a dependency failed or nothing fits.
\* Workers in parallel are told to end; a single agent's worker is not.
WindUp(k) ==
    LET c == delegation[k]
    IN  /\ c.team = "runs" /\ \E t \in DOMAIN c.worker : c.worker[t].pc \in {"waiting"} \cup (IF c.parallel THEN {"works"} ELSE {})
        /\ delegation' = [delegation EXCEPT ![k].worker = [t \in DOMAIN c.worker |->
                      CASE c.worker[t].pc = "waiting" /\ (c.parallel \/ \A u \in DOMAIN c.worker : c.worker[u].pc # "works") -> [c.worker[t] EXCEPT !.pc = "cancelled"]
                        [] c.worker[t].pc = "works" /\ c.parallel -> [c.worker[t] EXCEPT !.pc = "told"]
                        [] OTHER -> c.worker[t]]]
        /\ delegation'[k] # c
        /\ UNCHANGED <<spent, halted>>

\* A step is a model delegation, and a tool delegation when the model asks for one; reflections and
\* judgments are calls without a step.
WorkerStops(k, t, status, e) ==
    LET w == delegation[k].worker[t]
    IN  /\ w.pc \in {"works", "told", "left"} /\ e.steps <= w.cap
        /\ delegation' = [delegation EXCEPT ![k].worker[t] =
                      [w EXCEPT !.steps = e.steps, !.models = e.steps + e.extra, !.tools = e.tools,
                                !.pc = CASE w.pc = "works" -> status
                                         [] w.pc = "told" -> IF status = "completed" THEN "completed" ELSE "dropped"
                                         [] w.pc = "left" -> "gone"]]
        /\ UNCHANGED <<spent, halted>>

\* A worker that was told to end is waited for only for a while.
LeaveWorker(k, t) ==
    /\ delegation[k].team = "runs" /\ delegation[k].worker[t].pc = "told"
    /\ delegation' = [delegation EXCEPT ![k].worker[t].pc = "left"]
    /\ UNCHANGED <<spent, halted>>

TeamEnds(k) ==
    /\ delegation[k].team = "runs" /\ \A t \in DOMAIN delegation[k].worker : delegation[k].worker[t].pc \in EndedWorker
    /\ delegation' = [delegation EXCEPT ![k].team = "ended"]
    /\ UNCHANGED <<spent, halted>>

\* The factory of a model raises when the next worker is made.
TeamRaises(k) ==
    /\ delegation[k].team = "runs"
    /\ \E t \in DOMAIN delegation[k].worker : delegation[k].worker[t].pc = "waiting"
    /\ delegation[k].parallel \/ \A t \in DOMAIN delegation[k].worker : delegation[k].worker[t].pc # "works"
    /\ delegation' = [delegation EXCEPT ![k].team = "raised",
                  ![k].worker = [t \in DOMAIN @ |-> IF delegation[k].worker[t].pc \in {"works", "told"} THEN [delegation[k].worker[t] EXCEPT !.pc = "left"] ELSE delegation[k].worker[t]]]
    /\ UNCHANGED <<spent, halted>>

-----------------------------------------------------------------------------
DgInit == spent = [models |-> 0, tools |-> 0, own |-> 0] /\ halted = FALSE /\ delegation = <<>>

DgNext ==
    \/ OwnCall \/ StopRun
    \/ \E n \in TeamSizes, parallel \in BOOLEAN : Delegate(n, parallel)
    \/ \E k \in DOMAIN delegation :
          \/ CancelTeam(k) \/ LeaveTeam(k) \/ TakeResult(k)
          \/ TeamStarts(k) \/ WindUp(k) \/ TeamEnds(k) \/ TeamRaises(k)
          \/ \E t \in DOMAIN delegation[k].worker :
                \/ BeginWork(k, t) \/ LeaveWorker(k, t)
                \/ \E status \in {"completed", "failed", "crashed"}, e \in Efforts : WorkerStops(k, t, status, e)

DgSpec == DgInit /\ [][DgNext]_dgVars

-----------------------------------------------------------------------------
DelegationTypeOK ==
    /\ spent.own <= ModelLimit /\ Len(delegation) <= MaxDelegations
    /\ \A k \in DOMAIN delegation : (delegation[k].pc = "returned") = (delegation[k].outcome # "none")

\* The agent's usage is its own calls and what was charged; a delegation that ended with every
\* worker accounted for is charged in full.
UsageIsCharged ==
    LET charged(k) == delegation[k].charged
    IN  /\ spent.models = spent.own + MapThenSumSet(charged, DOMAIN delegation)
        /\ \A k \in DOMAIN delegation :
              /\ delegation[k].charged <= Spends(delegation[k])
              /\ delegation[k].outcome \in {"succeeded", "subagent_tasks_incomplete", "cancelled"}
                 /\ (\A t \in DOMAIN delegation[k].worker : delegation[k].worker[t].pc \in {"completed", "failed", "cancelled"}) =>
                    delegation[k].charged = Spends(delegation[k])

\* A team in parallel stays within what was left to the agent; a single agent may go
\* beyond it with its last task, and then nothing is left.
LimitsBindTeams ==
    /\ \A k \in DOMAIN delegation : delegation[k].parallel => Counted(delegation[k], "models") <= delegation[k].budget.models
    /\ spent.models < ModelLimit + TaskSteps + TaskReserve

\* Who works on after a delegation returned: the team of an unknown outcome, and workers in
\* parallel that were told to end and did not.
WorkEndsWithTheCall ==
    \A k \in DOMAIN delegation : delegation[k].pc = "returned" =>
        /\ delegation[k].team \in {"starting", "runs"} => delegation[k].outcome = "unknown_outcome"
        /\ \A t \in DOMAIN delegation[k].worker :
              /\ delegation[k].worker[t].pc \in {"waiting", "works", "told"} => delegation[k].outcome = "unknown_outcome" \/ delegation[k].team = "raised"
              /\ delegation[k].worker[t].pc = "left" => delegation[k].parallel
        /\ delegation[k].outcome = "succeeded" => \A t \in DOMAIN delegation[k].worker : delegation[k].worker[t].pc = "completed"

(***************************************************************************)
(* However a run is stopped while its team works: every model delegation that a   *)
(* result reports is charged to the agent once, a team in parallel stays    *)
(* within the calls the agent has left and a single agent exceeds them by   *)
(* less than one task, and whoever works on when the tool has returned was  *)
(* told to end, or the tool has said that it does not know the outcome.      *)
(***************************************************************************)
DelegationSound == DelegationTypeOK /\ UsageIsCharged /\ LimitsBindTeams /\ WorkEndsWithTheCall
=============================================================================
