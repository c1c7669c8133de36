----------------------------- MODULE Coordinator -----------------------------
(***************************************************************************)
(* The team coordinator: Coordinator.run, its sequential and its parallel   *)
(* path, the scheduling loop, the review rounds                             *)
(* (src/src/paperclaw/multiagent/coordinator.py, dag.py, reviewer.py,       *)
(* semantic_coordinator.py) and the worker threads as far as the            *)
(* coordinator sees them (worker.py).                                       *)
(*                                                                          *)
(* The scheduling loop is one thread: co.pc says which phase of an          *)
(* iteration comes next.  Worker threads end, and cancel() is called, at    *)
(* any moment between two phases.  A task's work is the number of its steps *)
(* and model calls.                                                         *)
(***************************************************************************)
EXTENDS Integers, FiniteSets, FiniteSetsExt

CONSTANTS
    N,            \* tasks of the plan, which are 1..N in the order of the list
    Graphs,       \* plans: the dependencies of each task
    MaxAgents, MaxSteps, TeamSteps, TeamCalls, MaxFixRounds,   \* TeamBudget
    Reserve,      \* reflection and judge calls of one task
    MaxCancels    \* calls of cancel() in a run

\* A plan has a task, its dependencies are tasks of it; limits are counts.
ASSUME CoAssumption ==
    /\ N \in Nat \ {0}
    /\ Graphs \subseteq [1..N -> SUBSET (1..N)]
    /\ {MaxAgents, MaxSteps, TeamSteps, TeamCalls, MaxFixRounds, Reserve, MaxCancels} \subseteq Nat

VARIABLES
    deps,      \* the plan of this run
    status,    \* TaskStatus
    thread,    \* worker threads: phase, cap on steps, work done, status returned
    queued,    \* results in result_queue
    active,    \* active_workers
    result,    \* the results map that is returned
    asked,     \* _cancelled_task_ids
    told,      \* workers whose cancel event is set
    late,      \* whether the wall-clock deadline has passed
    co         \* the coordinator: phase, task in hand, totals, fix round, stop reason

coVars == <<deps, status, thread, queued, active, result, asked, told, late, co>>

Tasks == 1..N
Plan == 1..(N + MaxFixRounds)          \* fix task k of a run is N + k
DepsOf(t) == IF t \in Tasks THEN deps[t] ELSE {}
\* A fix task comes alone in its round; dependencies are from earlier rounds.
Round == IF co.fix = 0 THEN Tasks ELSE {N + co.fix}

NoThread == [pc |-> "none", cap |-> 0, steps |-> 0, calls |-> 0, status |-> "none"]

\* Kahn's algorithm: the tasks taken off the queue, all at once for each level.
Levels[k \in 0..N] ==
    IF k = 0 THEN {} ELSE {t \in Tasks : deps[t] \subseteq Levels[k - 1]}
Valid == Levels[N] = Tasks

\* _worth_parallelizing.
Parallel == \E a, b \in Tasks : a < b /\ b \notin deps[a] /\ a \notin deps[b]

Totals(s, c) == [co EXCEPT !.steps = @ + s, !.calls = @ + c]
\* Mutant of Exhausted: the deadline is not looked at.
NeverLate == co.steps >= TeamSteps \/ co.calls >= TeamCalls

Exhausted == late \/ co.steps >= TeamSteps \/ co.calls >= TeamCalls

\* _cap_task_to_remaining_budget.
Cap == LET left == TeamSteps - co.steps
       IN  IF MaxSteps <= left THEN MaxSteps ELSE IF left >= 1 THEN left ELSE 1

\* reserved_steps and reserved_model_calls: the bounds of the active workers.
ReservedSteps == SumFunctionOnSet([t \in Plan |-> thread[t].cap], active)
ReservedCalls == SumFunctionOnSet([t \in Plan |-> thread[t].cap + Reserve], active)

\* The task t and the tasks of S that depend on it, through tasks of S (_cascade_cancel).
Below(t, S) ==
    LET down[k \in 0..N] ==
            IF k = 0 THEN {t}
            ELSE down[k - 1] \cup {u \in S : DepsOf(u) \cap down[k - 1] # {}}
    IN  down[N]

StartThread(t) == thread' = [thread EXCEPT ![t] = [NoThread EXCEPT !.pc = "alive", !.cap = Cap]]

-----------------------------------------------------------------------------
(* Worker threads and callers *)

\* Worker.run ends: steps and model calls within its cap, cancelled only if told.
\* It puts its result on the queue.
ThreadEnds(t) ==
    /\ thread[t].pc = "alive"
    /\ \E s \in 0..thread[t].cap, extra \in {0, Reserve},
          st \in {"completed", "failed", "blocked", "cancelled"} :
        /\ st = "cancelled" => t \in told
        /\ thread' = [thread EXCEPT ![t].pc = "ended", ![t].steps = s,
                                    ![t].calls = s + extra, ![t].status = st]
    /\ queued' = queued \cup {t}
    /\ UNCHANGED <<deps, status, active, result, asked, told, late, co>>

\* cancel(): the task and every task below it in the plan.
Cancel(t) ==
    /\ co.pc \notin {"start", "done"}
    /\ Cardinality({u \in asked : DepsOf(u) \cap asked = {}}) < MaxCancels
    /\ asked' = asked \cup Below(t, Tasks)
    /\ UNCHANGED <<deps, status, thread, queued, active, result, told, late, co>>

\* The wall-clock deadline of the run passes.
TimePasses ==
    /\ ~late
    /\ late' = TRUE
    /\ UNCHANGED <<deps, status, thread, queued, active, result, asked, told, co>>

-----------------------------------------------------------------------------
(* run *)

\* A plan that is no DAG is refused; one task after the other when no two tasks are
\* independent.
Start ==
    /\ co.pc = "start"
    /\ co' = IF ~Valid THEN [co EXCEPT !.pc = "done", !.stop = "blocked"]
             ELSE [co EXCEPT !.pc = IF Parallel THEN "check" ELSE "next"]
    /\ UNCHANGED <<deps, status, thread, queued, active, result, asked, told, late>>

-----------------------------------------------------------------------------
(* The sequential path: co.i is the task in hand *)

\* In topological order: no two tasks of such a plan are independent, so one comes next.
NextTask == CHOOSE t \in Tasks : /\ result[t] = "none"
                                 /\ \A u \in deps[t] : result[u] # "none"

\* Each task in turn: budgets, cancellation and dependencies are looked at before its
\* worker runs.
SeqNext ==
    /\ co.pc = "next"
    /\ IF \A t \in Tasks : result[t] # "none"
       THEN /\ co' = IF \A t \in Tasks : result[t] = "completed"
                     THEN [co EXCEPT !.pc = "review", !.stop = "all"]
                     ELSE [co EXCEPT !.pc = "done", !.stop = "blocked"]
            /\ UNCHANGED <<result, thread>>
       ELSE LET t == NextTask
                verdict == IF Exhausted \/ t \in asked THEN "cancelled"
                           ELSE IF \E u \in deps[t] : result[u] # "completed" THEN "blocked"
                           ELSE "run"
            IN  IF verdict = "run"
                THEN StartThread(t) /\ co' = [co EXCEPT !.pc = "work", !.i = t] /\ UNCHANGED result
                ELSE result' = [result EXCEPT ![t] = verdict] /\ UNCHANGED <<co, thread>>
    /\ UNCHANGED <<deps, status, queued, active, asked, told, late>>

\* The worker runs on the coordinator's own thread; a fix task that fails ends the run.
SeqWorked ==
    /\ co.pc = "work"
    /\ thread[co.i].pc = "ended"
    /\ LET w == thread[co.i]
       IN  /\ result' = [result EXCEPT ![co.i] = w.status]
           /\ co' = [Totals(w.steps, w.calls) EXCEPT
                       !.pc = IF co.fix = 0 THEN "next"
                              ELSE IF w.status = "completed" THEN "review" ELSE "done",
                       !.stop = IF co.fix > 0 /\ w.status # "completed" THEN "blocked" ELSE @]
    /\ queued' = queued \ {co.i}
    /\ UNCHANGED <<deps, status, thread, active, asked, told, late>>

-----------------------------------------------------------------------------
(* The scheduling loop of a round *)

\* Budgets and the deadline.
Check ==
    /\ co.pc = "check"
    /\ co' = IF Exhausted THEN [co EXCEPT !.pc = "stragglers", !.stop = "budget"]
             ELSE [co EXCEPT !.pc = "cancels"]
    /\ UNCHANGED <<deps, status, thread, queued, active, result, asked, told, late>>

\* Cancellation requests: pending tasks are marked, live workers are told.
Cancels ==
    /\ co.pc = "cancels"
    /\ status' = [t \in Plan |-> IF t \in Round \cap asked /\ status[t] = "pending"
                                 THEN "cancelled" ELSE status[t]]
    /\ told' = told \cup {t \in active \cap asked : thread[t].pc = "alive"}
    /\ co' = [co EXCEPT !.pc = "schedule", !.i = 1]
    /\ UNCHANGED <<deps, thread, queued, active, result, asked, late>>

\* Mutant of Fits: only what was used counts, not what is reserved.
FitsUsed(t) == co.steps + Cap <= TeamSteps /\ co.calls + Cap + Reserve <= TeamCalls

Fits(t) == /\ co.steps + ReservedSteps + Cap <= TeamSteps
           /\ co.calls + ReservedCalls + Cap + Reserve <= TeamCalls

Ready(t) ==
    /\ t \in Round /\ status[t] = "pending"
    /\ \A u \in DepsOf(t) : status[u] = "completed"
    /\ Cardinality(active) < MaxAgents

\* Pending tasks in the order of the list: a ready one is started when a worker is
\* free and its bounds fit into what is neither used nor reserved, and cancelled when
\* they do not fit.
Schedule ==
    /\ co.pc = "schedule"
    /\ LET t == co.i
       IN  /\ status' = IF ~Ready(t) THEN status
                        ELSE [status EXCEPT ![t] = IF Fits(t) THEN "running" ELSE "cancelled"]
           /\ active' = IF Ready(t) /\ Fits(t) THEN active \cup {t} ELSE active
           /\ IF Ready(t) /\ Fits(t) THEN StartThread(t) ELSE UNCHANGED thread
    /\ co' = IF co.i < N + co.fix THEN [co EXCEPT !.i = @ + 1] ELSE [co EXCEPT !.pc = "collect"]
    /\ UNCHANGED <<deps, queued, result, asked, told, late>>

\* One result off the queue.  A cancelled task takes its pending descendants with it;
\* a failed or blocked one counts as failed and blocks the tasks right below it.
Collected(t, st) ==
    [u \in Plan |->
        IF u = t THEN IF st = "blocked" THEN "failed" ELSE st
        ELSE IF status[u] # "pending" \/ u \notin Round THEN status[u]
        ELSE IF st = "cancelled" /\ u \in Below(t, {v \in Round : status[v] = "pending"})
             THEN "cancelled"
        ELSE IF st \in {"failed", "blocked"} /\ t \in DepsOf(u) THEN "blocked"
        ELSE status[u]]

Collect ==
    /\ co.pc = "collect"
    /\ \E t \in queued :
        /\ active' = active \ {t}
        /\ queued' = queued \ {t}
        /\ result' = [result EXCEPT ![t] = thread[t].status]
        /\ status' = Collected(t, thread[t].status)
        /\ co' = Totals(thread[t].steps, thread[t].calls)
    /\ UNCHANGED <<deps, thread, asked, told, late>>

Ended(t) == status[t] \in {"completed", "failed", "blocked", "cancelled"}

\* The queue is empty: is the round over?
Judge ==
    /\ co.pc = "collect"
    /\ queued = {}
    /\ co' = IF \A t \in Round : Ended(t)
             THEN [co EXCEPT !.pc = "stragglers",
                      !.stop = IF \E t \in Round : status[t] \in {"failed", "cancelled"}
                               THEN "blocked" ELSE "all"]
             ELSE IF active = {} /\ \E t \in Round : status[t] = "pending"
             THEN [co EXCEPT !.pc = "stragglers", !.stop = "blocked"]
             ELSE [co EXCEPT !.pc = "check"]
    /\ UNCHANGED <<deps, status, thread, queued, active, result, asked, told, late>>

\* A worker left when the loop ends gets five seconds, is then told to stop, and gets
\* ten more.  One that ends only then and did not complete is given a new result,
\* without its work; so is one that does not end, whose outcome is unknown.
Tell(t) ==
    /\ co.pc = "stragglers"
    /\ t \in active \ told
    /\ thread[t].pc = "alive"
    /\ told' = told \cup {t}
    /\ UNCHANGED <<deps, status, thread, queued, active, result, asked, late, co>>

Joined(t) ==
    /\ co.pc = "stragglers"
    /\ t \in active
    /\ thread[t].pc = "ended" \/ t \in told
    /\ \E kept \in BOOLEAN :
        /\ kept => thread[t].pc = "ended"
        /\ ~kept => /\ t \in told
                    /\ thread[t].pc = "ended" => thread[t].status # "completed"
        /\ result' = [result EXCEPT ![t] = IF kept THEN thread[t].status ELSE "cancelled"]
        /\ co' = IF kept THEN Totals(thread[t].steps, thread[t].calls) ELSE co
    /\ active' = active \ {t}
    /\ queued' = queued \ {t}
    /\ status' = [status EXCEPT ![t] = "cancelled"]
    /\ UNCHANGED <<deps, thread, asked, told, late>>

\* What never started becomes cancelled or blocked; every cancelled task gets a result.
RoundEnds ==
    /\ co.pc = "stragglers"
    /\ active = {}
    /\ status' = [t \in Plan |-> IF t \in Round /\ status[t] = "pending"
                    THEN IF co.stop = "budget" THEN "cancelled" ELSE "blocked"
                    ELSE status[t]]
    /\ result' = [t \in Plan |-> IF t \in Round /\ status'[t] = "cancelled" /\ result[t] = "none"
                                 THEN "cancelled" ELSE result[t]]
    /\ co' = [co EXCEPT !.pc = IF co.stop = "all" THEN "review" ELSE "done"]
    /\ UNCHANGED <<deps, thread, queued, active, asked, told, late>>

-----------------------------------------------------------------------------
(* Review, on both paths, and Next *)

\* The reviewer approves, or finds a missing artifact (high) or failed verification
\* evidence (blocker); a finding makes a fix task, and a round of it while rounds are
\* left.
Review ==
    /\ co.pc = "review"
    /\ \/ co' = [co EXCEPT !.pc = "done"] /\ UNCHANGED thread
       \/ /\ co.fix >= MaxFixRounds
          /\ \E why \in {"reflection_limit", "blocked"} : co' = [co EXCEPT !.pc = "done", !.stop = why]
          /\ UNCHANGED thread
       \/ /\ co.fix < MaxFixRounds /\ Parallel
          /\ co' = [co EXCEPT !.pc = "check", !.fix = @ + 1]
          /\ UNCHANGED thread
       \/ /\ co.fix < MaxFixRounds /\ ~Parallel
          /\ co' = [co EXCEPT !.pc = "work", !.fix = @ + 1, !.i = N + co.fix + 1]
          /\ StartThread(N + co.fix + 1)
    /\ UNCHANGED <<deps, status, queued, active, result, asked, told, late>>

CoInit ==
    /\ deps \in Graphs
    /\ status = [t \in Plan |-> "pending"]
    /\ thread = [t \in Plan |-> NoThread]
    /\ queued = {} /\ active = {} /\ asked = {} /\ told = {}
    /\ result = [t \in Plan |-> "none"]
    /\ late = FALSE
    /\ co = [pc |-> "start", i |-> 1, steps |-> 0, calls |-> 0, fix |-> 0, stop |-> "none"]

CoStep ==
    \/ Start \/ SeqNext \/ SeqWorked \/ Check \/ Cancels \/ Schedule \/ Collect \/ Judge
    \/ \E t \in Plan : Tell(t) \/ Joined(t)
    \/ RoundEnds \/ Review

CoNext ==
    \/ CoStep \/ TimePasses
    \/ \E t \in Plan : ThreadEnds(t)
    \/ \E t \in Tasks : Cancel(t)

\* The coordinator's thread runs and its clock too.  A worker of the sequential path is
\* waited for without a limit, so its runtime must end by its own timeouts; nothing
\* is assumed of the worker threads of the parallel path.
CoFairness ==
    /\ WF_coVars(CoStep)
    /\ WF_coVars(TimePasses)
    /\ \A t \in Plan : WF_coVars(co.pc = "work" /\ ThreadEnds(t))

CoSpec == CoInit /\ [][CoNext]_coVars /\ CoFairness

-----------------------------------------------------------------------------
(* Properties *)

\* Statuses, results and counters are what the contracts name; a worker is active
\* exactly while its task is running.
CoTypeOK ==
    /\ co.pc \in {"start", "next", "work", "check", "cancels", "schedule", "collect",
                  "stragglers", "review", "done"}
    /\ co.stop \in {"none", "all", "blocked", "budget", "reflection_limit"}
    /\ co.fix \in 0..MaxFixRounds /\ co.i \in Plan
    /\ queued \subseteq {t \in Plan : thread[t].pc = "ended"}
    /\ \A t \in Plan :
        /\ status[t] \in {"pending", "running", "completed", "failed", "blocked", "cancelled"}
        /\ result[t] \in {"none", "completed", "failed", "blocked", "cancelled"}
        /\ t \in active <=> status[t] = "running"

StepsDone == SumFunctionOnSet([t \in Plan |-> thread[t].steps], Plan)
CallsDone == SumFunctionOnSet([t \in Plan |-> thread[t].calls], Plan)

\* The team budget holds for the work that was really done on the parallel path, fix
\* rounds, cancelled workers and workers whose outcome is unknown included: workers
\* are started on bounds, before anybody knows what they will use.
BudgetKept == Parallel => StepsDone <= TeamSteps /\ CallsDone <= TeamCalls

\* The same on both paths, as the docstring of the sequential path says.
SameBudget == Valid => StepsDone <= TeamSteps

\* Whatever is reported, a task only ever works after all it depends on completed.
WorksAfterDependencies ==
    \A t \in Plan : thread[t].pc # "none" => \A u \in DepsOf(t) : result[u] = "completed"

\* Success is reported only when every task of the plan and of all fix rounds completed.
SuccessIsWhole ==
    co.pc = "done" /\ co.stop = "all" =>
        \A t \in 1..(N + co.fix) : result[t] = "completed" /\ thread[t].status = "completed"

\* When the run is over, every worker that still works has been told to stop.
NobodyForgotten ==
    co.pc = "done" => \A t \in Plan : thread[t].pc = "alive" => t \in told

\* The run ends, whatever workers of the parallel path do.
RunEnds == <>(co.pc = "done")

\* The team is stopped as blocked only after a task failed or was cancelled, or when
\* nothing that is pending can start.
BlockedMeansStuck ==
    co.pc = "stragglers" /\ co.stop = "blocked" =>
        \/ \E t \in Round : status[t] \in {"failed", "cancelled", "blocked"}
        \/ \A t \in Round : status[t] = "pending" =>
                \E u \in DepsOf(t) : status[u] # "completed"

\* At the end the totals hold the work of every worker that ended in time.
CountersRecorded ==
    co.pc = "done" => co.steps = StepsDone

\* The team's work is sound, over parallel workers, late results, cancellations, fix
\* rounds and the deadline: the budget holds, dependencies come first, success means
\* all of it, and no worker is left behind untold.
TeamWorkSound ==
    CoTypeOK /\ BudgetKept /\ WorksAfterDependencies /\ SuccessIsWhole /\ NobodyForgotten
=============================================================================
