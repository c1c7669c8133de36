--------------------------- MODULE TaskSupervisor ---------------------------
(***************************************************************************)
(* BackgroundTaskSupervisor (src/src/paperclaw/tasks/runtime.py) running   *)
(* over the shared task store: processes that start, recover leases once,  *)
(* poll, stop, and crash; one runner per element of the asyncio pool, each *)
(* going from claim to completion through separate store transactions;     *)
(* executor threads that outlive a timeout; clients that submit and cancel.*)
(*                                                                         *)
(* A runner's store call and the decision it takes on the answer are one   *)
(* step; what it has read stays in its record until the next call.         *)
(***************************************************************************)
EXTENDS TaskStore, FiniteSets

CONSTANTS
    Procs,          \* operating system processes running a supervisor
    WorkerOf,       \* worker_id of each process; several may share one
    Runners,        \* elements of the asyncio pools: max_concurrency per process
    ProcOf,         \* the process of each runner
    ProviderSlots,  \* provider_concurrency
    Outcomes,       \* statuses an executor may return when nothing was cancelled
    Faults,         \* what may go wrong: "crash", "stop", "stall", "raise",
                    \* "timeout", "cancel"
    MaxCrashes      \* bound on crashes and stops

ASSUME SupervisorAssumption ==
    /\ WorkerOf \in [Procs -> Workers]
    /\ ProcOf \in [Runners -> Procs]
    /\ ProviderSlots \in Nat \ {0}
    /\ Outcomes \subseteq {"succeeded", "failed", "blocked"}
    /\ MaxCrashes \in Nat

VARIABLES
    proc,      \* the main loop of each process, with the tasks it still has to cancel
    runner,    \* the coroutine _execute_claimed of each pool element
    threads,   \* executor threads, as <<process, task, attempt>>, still running
    wrote,     \* history: the attempts, as <<task, attempt>>, that changed files
    crashes    \* crashes and stops so far

supVars == <<proc, runner, threads, wrote, crashes>>
allVars == <<row, createOrder, proc, runner, threads, wrote, crashes>>

-----------------------------------------------------------------------------
(* Processes and runners *)

Loop(pc) == [pc |-> pc, list |-> {}]
Idle == [pc |-> "idle"]

Serving == {p \in Procs : proc[p].pc \in {"poll", "claim"}}
Busy == {r \in Runners : runner[r].pc # "idle"}
RunnersOf(p) == {r \in Runners : ProcOf[r] = p}
HoldsSlot(p) == {r \in RunnersOf(p) : runner[r].pc = "executing"}

Worker(r) == WorkerOf[ProcOf[r]]
TaskOf(r) == runner[r].task
Attempt(r) == <<runner[r].task, runner[r].attempt>>
Thread(r) == <<ProcOf[r], runner[r].task, runner[r].attempt>>

\* The lease check the store makes for a call of runner r.
Owns(r) == FencedOwner(TaskOf(r), Worker(r), runner[r].version, runner[r].generation)

Goto(r, pc) == runner' = [runner EXCEPT ![r].pc = pc]
Leave(r) == runner' = [runner EXCEPT ![r] = Idle]
Decide(r, pc, s, e) ==
    runner' = [runner EXCEPT ![r].pc = pc, ![r].status = s, ![r].effect = e]
Enter(p, pc) == proc' = [proc EXCEPT ![p] = Loop(pc)]

SupInit ==
    /\ Init
    /\ proc = [p \in Procs |-> Loop("down")]
    /\ runner = [r \in Runners |-> Idle]
    /\ threads = {}
    /\ wrote = {}
    /\ crashes = 0

-----------------------------------------------------------------------------
(* The main loop, _serve *)

StartSupervisor(p) ==
    /\ proc[p].pc = "down"
    /\ Enter(p, "starting")
    /\ UNCHANGED <<row, createOrder, runner, threads, wrote, crashes>>

\* Leases are recovered once per start, before the first poll.
RecoverAtStart(p) ==
    /\ proc[p].pc = "starting"
    /\ RecoverExpiredLeases
    /\ Enter(p, "poll")
    /\ UNCHANGED <<runner, threads, wrote, crashes>>

\* Each claim is preceded by a refresh in a transaction of its own.
Refresh(p) ==
    /\ proc[p].pc = "poll"
    /\ RefreshDependencies
    /\ Enter(p, "claim")
    /\ UNCHANGED <<runner, threads, wrote, crashes>>

Claim(p, r, t) ==
    /\ proc[p].pc = "claim"
    /\ r \in RunnersOf(p) \ Busy
    /\ ClaimNext(t, WorkerOf[p])
    /\ runner' = [runner EXCEPT ![r] =
                     [pc |-> "claimed", task |-> t, attempt |-> row'[t].attempt,
                      version |-> row'[t].version, generation |-> row'[t].generation,
                      status |-> "none", effect |-> "none"]]
    /\ Enter(p, "poll")
    /\ UNCHANGED <<threads, wrote, crashes>>

ClaimNothing(p) ==
    /\ proc[p].pc = "claim"
    /\ RunnersOf(p) \subseteq Busy \/ \A t \in Tasks : ~Claimable(t)
    /\ Enter(p, "poll")
    /\ UNCHANGED <<row, createOrder, runner, threads, wrote, crashes>>

\* The loop sees the stop flag and reads which leased tasks carry its worker_id.
Stop(p) ==
    /\ "stop" \in Faults
    /\ crashes < MaxCrashes
    /\ p \in Serving
    /\ proc' = [proc EXCEPT ![p] =
                   [pc |-> "stopping",
                    list |-> {t \in Tasks : /\ row[t].status \in Leased
                                            /\ row[t].owner = WorkerOf[p]}]]
    /\ crashes' = crashes + 1
    /\ UNCHANGED <<row, createOrder, runner, threads, wrote>>

CancelOnStop(p, t) ==
    /\ t \in proc[p].list
    /\ RequestCancel(t) \/ (Done(t) /\ UNCHANGED storeVars)
    /\ proc' = [proc EXCEPT ![p].list = @ \ {t}]
    /\ UNCHANGED <<runner, threads, wrote, crashes>>

\* After at most two seconds the loop ends and its coroutines are cancelled;
\* executor threads cannot be and run on.
Halt(p) ==
    /\ proc[p] = Loop("stopping")
    /\ Enter(p, "down")
    /\ runner' = [r \in Runners |-> IF ProcOf[r] = p THEN Idle ELSE runner[r]]
    /\ UNCHANGED <<row, createOrder, threads, wrote, crashes>>

Crash(p) ==
    /\ "crash" \in Faults
    /\ crashes < MaxCrashes
    /\ proc[p].pc # "down"
    /\ Enter(p, "down")
    /\ runner' = [r \in Runners |-> IF ProcOf[r] = p THEN Idle ELSE runner[r]]
    /\ threads' = {th \in threads : th[1] # p}
    /\ crashes' = crashes + 1
    /\ UNCHANGED <<row, createOrder, wrote>>

-----------------------------------------------------------------------------
(* One runner, _execute_claimed *)

Start(r) ==
    /\ runner[r].pc = "claimed"
    /\ \/ /\ StartTask(TaskOf(r), Worker(r), runner[r].version, runner[r].generation)
          /\ runner' = [runner EXCEPT ![r].pc = "waiting", ![r].version = @ + 1]
       \/ /\ ~(Owns(r) /\ row[TaskOf(r)].status = "claimed")
          /\ Leave(r)
          /\ UNCHANGED storeVars
    /\ UNCHANGED <<proc, threads, wrote, crashes>>

\* The heartbeat loop runs from the start to the end of the coroutine, until the
\* supervisor stops.  It gives up when the store refuses, which is for good:
\* neither an older version nor an expired lease is ever valid again.
Beat(r) ==
    /\ runner[r].pc \notin {"idle", "claimed"}
    /\ ProcOf[r] \in Serving
    /\ Heartbeat(TaskOf(r), Worker(r), runner[r].version, runner[r].generation)
    /\ UNCHANGED supVars

Acquire(r) ==
    /\ runner[r].pc = "waiting"
    /\ Cardinality(HoldsSlot(ProcOf[r])) < ProviderSlots
    /\ Goto(r, "executing")
    /\ threads' = threads \cup {Thread(r)}
    /\ UNCHANGED <<row, createOrder, proc, wrote, crashes>>

\* The executor thread changes files in the workspace.  Nothing in the runtime
\* calls mark_side_effect_state, so the row does not learn of it.
WriteFiles(th) ==
    /\ th \in threads
    /\ wrote' = wrote \cup {<<th[2], th[3]>>}
    /\ UNCHANGED <<row, createOrder, proc, runner, threads, crashes>>

ToldToCancel(r) == proc[ProcOf[r]].pc = "stopping" \/ row[TaskOf(r)].cancel

Return(r) ==
    /\ runner[r].pc = "executing"
    /\ \E s \in IF ToldToCancel(r) THEN {"succeeded", "cancelled"} ELSE Outcomes :
           Decide(r, "returned", s, IF Attempt(r) \in wrote THEN "unknown" ELSE "none")
    /\ threads' = threads \ {Thread(r)}
    /\ UNCHANGED <<row, createOrder, proc, wrote, crashes>>

Raise(r) ==
    /\ "raise" \in Faults
    /\ runner[r].pc = "executing"
    /\ Goto(r, "raised")
    /\ threads' = threads \ {Thread(r)}
    /\ UNCHANGED <<row, createOrder, proc, wrote, crashes>>

\* wait_for gives up on the thread, which keeps running.
TimeOut(r) ==
    /\ "timeout" \in Faults
    /\ runner[r].pc = "executing"
    /\ Goto(r, "timed_out")
    /\ UNCHANGED <<row, createOrder, proc, threads, wrote, crashes>>

\* A thread nobody waits for ends.
ThreadEnds(th) ==
    /\ th \in threads
    /\ \A r \in Busy : runner[r].pc = "executing" => Thread(r) # th
    /\ threads' = threads \ {th}
    /\ UNCHANGED <<row, createOrder, proc, runner, wrote, crashes>>

\* Mutants of ReadBack: a cancel request is not read back, or the retry check lets
\* one attempt too many through.
ReadBackResultOnly(r) ==
    /\ runner[r].pc = "returned"
    /\ Decide(r, "completing", runner[r].status, runner[r].effect)
    /\ UNCHANGED <<row, createOrder, proc, threads, wrote, crashes>>
ReadBackOneMore(r) ==
    LET t == TaskOf(r)
    IN  /\ \/ /\ runner[r].pc = "returned"
              /\ Decide(r, "completing", runner[r].status, runner[r].effect)
           \/ /\ runner[r].pc = "timed_out"
              /\ Decide(r, "expiring", "timed_out", row[t].effect)
           \/ /\ runner[r].pc = "raised"
              /\ IF row[t].attempt <= MaxAttempts[t]
                 THEN Goto(r, "requeueing")
                 ELSE Decide(r, "failing", "failed", row[t].effect)
        /\ UNCHANGED <<row, createOrder, proc, threads, wrote, crashes>>

\* get_task after the executor returned, timed out or raised.
ReadBack(r) ==
    /\ LET t == TaskOf(r)
           lost == IF row[t].effect = "unknown" THEN "unknown_outcome" ELSE "failed"
       IN  \/ /\ runner[r].pc = "returned"
              /\ Decide(r, "completing",
                        IF row[t].cancel /\ runner[r].status = "succeeded"
                        THEN "cancelled" ELSE runner[r].status,
                        runner[r].effect)
           \/ /\ runner[r].pc = "timed_out"
              /\ Decide(r, "expiring", IF lost = "failed" THEN "timed_out" ELSE lost,
                        row[t].effect)
           \/ /\ runner[r].pc = "raised"
              /\ IF /\ row[t].attempt < MaxAttempts[t]
                    /\ row[t].effect = "none"
                    /\ ~row[t].cancel
                 THEN Goto(r, "requeueing")
                 ELSE Decide(r, "failing", lost, row[t].effect)
    /\ UNCHANGED <<row, createOrder, proc, threads, wrote, crashes>>

Recording == {"completing", "expiring", "failing"}

\* A refused completion of a returned result is handled like an exception of
\* the executor; the other refusals end the runner.
Complete(r) ==
    /\ runner[r].pc \in Recording
    /\ \/ /\ CompleteTask(TaskOf(r), Worker(r), runner[r].version, runner[r].generation,
                          runner[r].status, runner[r].effect)
          /\ Leave(r)
       \/ /\ ~(Owns(r) /\ runner[r].status \in AllowedTransitions[row[TaskOf(r)].status])
          /\ IF runner[r].pc = "completing" THEN Goto(r, "raised") ELSE Leave(r)
          /\ UNCHANGED storeVars
    /\ UNCHANGED <<proc, threads, wrote, crashes>>

Requeue(r) ==
    /\ runner[r].pc = "requeueing"
    /\ \/ RequeueTask(TaskOf(r), Worker(r), runner[r].version, runner[r].generation)
       \/ ~Owns(r) /\ UNCHANGED storeVars
    /\ Leave(r)
    /\ UNCHANGED <<proc, threads, wrote, crashes>>

-----------------------------------------------------------------------------
(* Clients and time *)

Submit(t, D) == CreateTask(t, D) /\ UNCHANGED supVars

ClientCancel(t) ==
    /\ "cancel" \in Faults
    /\ RequestCancel(t)
    /\ UNCHANGED supVars

\* heartbeat_seconds is below lease_seconds, so unless the event loop stalls, a
\* serving process starts or renews a lease it holds before the lease runs out,
\* and a stopping one sends its cancel requests at once.
TimePasses ==
    /\ Tick
    /\ \/ "stall" \in Faults
       \/ /\ \A r \in Busy : ProcOf[r] \in Serving /\ Owns(r) => row[TaskOf(r)].lease > 1
          /\ \A p \in Procs : proc[p].list = {}
    /\ UNCHANGED supVars

RunnerEnds(r) == Return(r) \/ Raise(r) \/ TimeOut(r)

SupNext ==
    \/ \E p \in Procs :
        \/ StartSupervisor(p) \/ RecoverAtStart(p) \/ Refresh(p) \/ ClaimNothing(p)
        \/ \E r \in Runners, t \in Tasks : Claim(p, r, t)
        \/ Stop(p) \/ Halt(p) \/ Crash(p)
        \/ \E t \in Tasks : CancelOnStop(p, t)
    \/ \E r \in Runners :
        \/ Start(r) \/ Beat(r) \/ Acquire(r) \/ RunnerEnds(r)
        \/ ReadBack(r) \/ Complete(r) \/ Requeue(r)
    \/ \E th \in threads : WriteFiles(th) \/ ThreadEnds(th)
    \/ \E t \in Tasks : ClientCancel(t) \/ \E D \in SUBSET Tasks : Submit(t, D)
    \/ TimePasses

\* The event loop, the thread pool and the store keep going, an executor returns,
\* raises or times out, and a process that is down is started again.  Clients,
\* crashes, stops and file writes owe nothing.
Fairness ==
    /\ \A p \in Procs :
        /\ WF_allVars(StartSupervisor(p))
        /\ WF_allVars(RecoverAtStart(p))
        /\ WF_allVars(Refresh(p))
        /\ WF_allVars(ClaimNothing(p) \/ \E r \in Runners, t \in Tasks : Claim(p, r, t))
        /\ WF_allVars(Halt(p) \/ \E t \in Tasks : CancelOnStop(p, t))
    /\ \A r \in Runners :
        /\ WF_allVars(Start(r))
        /\ WF_allVars(Acquire(r))
        /\ WF_allVars(RunnerEnds(r))
        /\ WF_allVars(ReadBack(r))
        /\ WF_allVars(Complete(r) \/ Requeue(r))
    /\ WF_allVars(TimePasses)

SupSafetySpec == SupInit /\ [][SupNext]_allVars
SupSpec == SupSafetySpec /\ Fairness

-----------------------------------------------------------------------------
(* Properties *)

\* Processes, runners and threads; whatever path leads a runner to record an end,
\* it has a verdict to record.
Runner ==
    [pc : {"claimed", "waiting", "executing", "returned", "raised", "timed_out",
           "requeueing"} \cup Recording,
     task : Tasks, attempt : Nat, version : Nat, generation : Nat,
     status : Terminal \cup {"none"}, effect : Effects]
HasVerdict(r) == runner[r].pc \in {"returned"} \cup Recording => runner[r].status \in Terminal
SupTypeOK ==
    /\ proc \in [Procs -> [pc : {"down", "starting", "poll", "claim", "stopping"},
                          list : SUBSET Tasks]]
    /\ runner \in [Runners -> Runner \cup {Idle}]
    /\ \A r \in Runners : HasVerdict(r)
    /\ threads \subseteq Procs \X Tasks \X Nat
    /\ wrote \subseteq Tasks \X Nat
    /\ crashes \in 0 .. MaxCrashes

\* Store writes of a runner take effect only while it holds the latest attempt of
\* its task, even when several processes share one worker_id: what a runner that
\* lost its lease has read or decided never reaches the row.
OnlyLatestAttemptActs ==
    [][\A r \in Busy :
           runner'[r] # runner[r] /\ row'[TaskOf(r)] # row[TaskOf(r)] =>
               runner[r].attempt = row[TaskOf(r)].attempt]_allVars

\* Without stalls and timeouts no task is executed by two threads at a time, in
\* spite of crashes, stops, retries, cancels and processes that recover leases
\* while others are running.
ExclusiveExecution ==
    \A th1, th2 \in threads : th1[2] = th2[2] => th1 = th2

\* A cancel request that arrives before the runner has read the row back wins: the
\* task never succeeds, in this attempt or in a later one.
DecidedSuccess(t) ==
    \E r \in Busy : /\ TaskOf(r) = t
                    /\ runner[r].pc = "completing"
                    /\ runner[r].status = "succeeded"
CancelWins ==
    \A t \in Tasks :
        [](row[t].cancel /\ ~Done(t) /\ ~DecidedSuccess(t) => [](row[t].status # "succeeded"))

\* Every submitted task ends.
EveryTaskEnds == \A t \in Tasks : Exists(t) ~> Done(t)

\* Every submitted task ends, for good, unless a cancel request has left it, or a
\* task it depends on, in the queue where no claim takes it: exceptions, timeouts
\* and exhausted budgets leave nothing else behind.
Stranded(t) == row[t].status = "queued" /\ row[t].cancel
EndsUnlessStranded ==
    \A t \in Tasks :
        Exists(t) ~> (Done(t) \/ \E d \in row[t].deps \cup {t} : Stranded(d))

\* A requested cancellation ends the task.
CancelEnds == \A t \in Tasks : row[t].cancel ~> Done(t)

\* An attempt that may have changed files is the last one: it is not repeated
\* automatically.
NoBlindRerun ==
    \A a \in wrote : row[a[1]].attempt = a[2]
=============================================================================
