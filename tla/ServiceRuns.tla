----------------------------- MODULE ServiceRuns -----------------------------
(***************************************************************************)
(* Durable service runs: DurableRunApplicationService                      *)
(* (src/src/paperclaw/service/durable_application.py) over                 *)
(* SQLiteDurableServiceStore and SQLiteDurableRunStore                     *)
(* (durability/service_store.py, durability/core.py).                      *)
(*                                                                         *)
(* A service is one process: it reconciles when it starts, accepts runs    *)
(* and cancellations, and has drainers, threads that claim queued runs and *)
(* execute them, each with a heartbeat.  Every transaction of the store is *)
(* one step.  Events are left out: no decision reads them.                 *)
(*                                                                         *)
(* Services has one number for each life of a process, since a start mints *)
(* a new worker_id; they start in that order.  Actions go through IdempotentActionExecutor; each run *)
(* has one action key.                                                     *)
(***************************************************************************)
EXTENDS Integers, FiniteSets

CONSTANTS
    Runs,
    Services,
    Drainers,      \* of one service: max_active_runs
    MaxAlive       \* services that run at a time

ASSUME ServicesAssumption == Services \subseteq Nat \ {0} /\ MaxAlive \in Nat

NoService == 0

VARIABLES
    run,       \* durable_runs
    lease,     \* durable_worker_leases
    receipt,   \* durable_action_receipts: the status of each run's action
    service,   \* whether each service is down, reconciling, up or dead
    found,     \* the candidates its reconciliation has read and not decided
    drainer,   \* the drainer slots of each service
    leaving,   \* drainers that gave their slot back and have yet to look again
    noting,    \* runs a submit has created and not yet scheduled
    stalls,    \* may a lease expire although its heartbeat is running?
    claims,    \* history: how often each run was claimed, and by whom last
    acted      \* history: how often the action of each run was performed

runsVars == <<run, lease, receipt, service, found, drainer, leaving, noting,
              stalls, claims, acted>>

Terminal == {"completed", "failed", "blocked", "stopped", "budget_exhausted",
             "recovery_required"}

Transitions == [
    queued |-> {"running", "failed", "stopped", "recovery_required"},
    running |-> {"queued", "cancelling", "completed", "failed", "blocked", "stopped",
                 "budget_exhausted", "recovery_required"},
    cancelling |-> {"stopped", "failed", "recovery_required"}]

\* What an engine can return; stopped too when nobody asked for it.
Results == {"completed", "stopped"}

NoLease == [by |-> NoService, live |-> FALSE]
Free == [pc |-> "off", r |-> NoService, result |-> "none", beat |-> -1]

Slots(s) == {d \in Drainers : drainer[s][d].pc # "off"}
At(s, d, pc) == service[s] = "up" /\ drainer[s][d].pc = pc
Up(s) == service[s] = "up"
Alive == {s \in Services : service[s] \in {"starting", "up"}}

\* The row after an update: version + 1.
Moved(r, st) == [run EXCEPT ![r].st = st, ![r].ver = @ + 1]

\* The queue is ordered by creation.
Queued == {r \in Runs : run[r].st = "queued"}
Oldest(r) == r \in Queued /\ \A q \in Queued : run[r].born <= run[q].born

-----------------------------------------------------------------------------
(* Submission *)

\* _schedule_drainers fills the free slots.
Schedule(s) ==
    [drainer EXCEPT ![s] =
        [d \in Drainers |-> IF d \in Slots(s) THEN drainer[s][d] ELSE [Free EXCEPT !.pc = "claim"]]]

\* create_run; the accepted event and the drainers come after its commit.
Submit(s, r) ==
    /\ Up(s)
    /\ run[r].st = "none"
    /\ run' = [run EXCEPT ![r].st = "queued",
                          ![r].born = Cardinality({q \in Runs : run[q].st # "none"})]
    /\ noting' = [noting EXCEPT ![s] = @ \cup {r}]
    /\ UNCHANGED <<lease, receipt, service, found, drainer, leaving, claims, acted, stalls>>

Accept(s, r) ==
    /\ Up(s)
    /\ r \in noting[s]
    /\ noting' = [noting EXCEPT ![s] = @ \ {r}]
    /\ drainer' = Schedule(s)
    /\ UNCHANGED <<run, lease, receipt, service, found, leaving, claims, acted, stalls>>

-----------------------------------------------------------------------------
(* Drainers *)

\* claim_next: a queued row becomes running, its lease is taken over.
Claim(s, d) ==
    /\ At(s, d, "claim")
    /\ \E r \in Runs :
        /\ Oldest(r)
        /\ run' = Moved(r, "running")
        /\ lease' = [lease EXCEPT ![r] = [by |-> s, live |-> TRUE]]
        /\ claims' = [claims EXCEPT ![r].n = @ + 1, ![r].by = s]
        /\ drainer' = [drainer EXCEPT ![s][d] =
                          [Free EXCEPT !.pc = "begin", !.r = r]]
    /\ UNCHANGED <<receipt, service, found, leaving, noting, acted, stalls>>

\* Nothing to claim: the drainer leaves.  It gives its slot back, and only then looks
\* at the queue again.
ClaimNothing(s, d) ==
    /\ At(s, d, "claim")
    /\ Queued = {}
    /\ drainer' = [drainer EXCEPT ![s][d].pc = "leave"]
    /\ UNCHANGED <<run, lease, receipt, service, found, leaving, noting, claims, acted, stalls>>

GiveBack(s, d) ==
    /\ At(s, d, "leave")
    /\ drainer' = [drainer EXCEPT ![s][d] = Free]
    /\ leaving' = [leaving EXCEPT ![s] = @ \cup {d}]
    /\ UNCHANGED <<run, lease, receipt, service, found, noting, claims, acted, stalls>>

\* Mutant of LookAgain: the drainer just ends.
LeaveForGood(s, d) ==
    /\ Up(s)
    /\ d \in leaving[s]
    /\ leaving' = [leaving EXCEPT ![s] = @ \ {d}]
    /\ UNCHANGED <<run, lease, receipt, service, found, drainer, noting, claims, acted, stalls>>

LookAgain(s, d) ==
    /\ Up(s)
    /\ d \in leaving[s]
    /\ leaving' = [leaving EXCEPT ![s] = @ \ {d}]
    /\ drainer' = IF Queued = {} THEN drainer ELSE Schedule(s)
    /\ UNCHANGED <<run, lease, receipt, service, found, noting, claims, acted, stalls>>

\* The execution is registered and its heartbeat starts.
Begin(s, d) ==
    /\ At(s, d, "begin")
    /\ drainer' = [drainer EXCEPT ![s][d].pc = "engine", ![s][d].beat = 0]
    /\ UNCHANGED <<run, lease, receipt, service, found, leaving, noting, claims, acted, stalls>>

\* A claim that waited too long, or whose request cannot be read, ends as failed
\* without an engine.
Reject(s, d) ==
    /\ At(s, d, "begin")
    /\ drainer' = [drainer EXCEPT ![s][d].pc = "refuse", ![s][d].result = "failed"]
    /\ UNCHANGED <<run, lease, receipt, service, found, leaving, noting, claims, acted, stalls>>

\* The engine asks for its action: reserve_action, then the callback.  A receipt of
\* an earlier attempt answers when completed, and raises otherwise.
Act(s, d) ==
    /\ At(s, d, "engine")
    /\ drainer[s][d].result = "none"
    /\ LET r == drainer[s][d].r
       IN  CASE receipt[r] = "none" ->
                  /\ receipt' = [receipt EXCEPT ![r] = "pending"]
                  /\ acted' = [acted EXCEPT ![r] = @ + 1]
                  /\ drainer' = [drainer EXCEPT ![s][d].pc = "acting"]
             [] receipt[r] = "completed" ->
                  /\ drainer' = [drainer EXCEPT ![s][d].result = "completed"]
                  /\ UNCHANGED <<receipt, acted, stalls>>
             [] OTHER ->
                  /\ drainer' = [drainer EXCEPT ![s][d].pc = "finalize",
                                                ![s][d].result = "failed"]
                  /\ UNCHANGED <<receipt, acted, stalls>>
    /\ UNCHANGED <<run, lease, service, found, leaving, noting, claims, stalls>>

\* complete_action, or fail_action when the callback raised.
Acted(s, d) ==
    /\ At(s, d, "acting")
    /\ \E status \in {"completed", "failed"} :
        /\ receipt' = [receipt EXCEPT ![drainer[s][d].r] =
                          IF @ = "pending" THEN status ELSE @]
        /\ drainer' = [drainer EXCEPT
                ![s][d].pc = IF status = "completed" THEN "engine" ELSE "finalize",
                ![s][d].result = status]
    /\ UNCHANGED <<run, lease, service, found, leaving, noting, claims, acted, stalls>>

\* engine.submit returns a status or raises.
EngineEnds(s, d) ==
    /\ At(s, d, "engine")
    /\ \E result \in Results \cup {"failed"} :
        drainer' = [drainer EXCEPT ![s][d].pc = "finalize", ![s][d].result = result]
    /\ UNCHANGED <<run, lease, receipt, service, found, leaving, noting, claims, acted, stalls>>

\* The lease check inside the finalizing transaction.
Holds(s, r) == lease[r].by = s /\ lease[r].live

\* A run that is being cancelled ends as failed after a timeout, as stopped else.
Verdict(r, result) ==
    IF run[r].st # "cancelling" THEN result
    ELSE IF run[r].why = "run_timeout" THEN "failed" ELSE "stopped"

\* finalize_run: one transaction.  On an ended run, or without the lease, it does
\* nothing.  A refused claim goes on to the next one.
Finalize(s, d) ==
    /\ At(s, d, "finalize") \/ At(s, d, "refuse")
    /\ LET r == drainer[s][d].r
           st == Verdict(r, drainer[s][d].result)
       IN  IF run[r].st \notin Terminal /\ Holds(s, r)
           THEN /\ run' = [Moved(r, st) EXCEPT ![r].author = s]
                /\ lease' = [lease EXCEPT ![r] = NoLease]
           ELSE UNCHANGED <<run, lease>>
    /\ drainer' = [drainer EXCEPT ![s][d] =
          IF @.pc = "refuse" THEN [Free EXCEPT !.pc = "claim"]
          ELSE [@ EXCEPT !.pc = "release", !.beat = -1]]
    /\ UNCHANGED <<receipt, service, found, leaving, noting, claims, acted, stalls>>

\* release_lease in the finally clause, then the next claim.
Release(s, d) ==
    /\ At(s, d, "release")
    /\ LET r == drainer[s][d].r
       IN  lease' = [lease EXCEPT ![r] = IF @.by = s THEN NoLease ELSE @]
    /\ drainer' = [drainer EXCEPT ![s][d] = [Free EXCEPT !.pc = "claim"]]
    /\ UNCHANGED <<run, receipt, service, found, leaving, noting, claims, acted, stalls>>

\* The heartbeat thread: it reads the row, then renews the lease at the version it
\* has read; any refusal ends it.  beat is -1 when it is off, 0 when it waits.
Beats(s, d) == Up(s) /\ drainer[s][d].beat >= 0

BeatRead(s, d) ==
    /\ Beats(s, d)
    /\ drainer[s][d].beat = 0
    /\ LET r == drainer[s][d].r
       IN  drainer' = [drainer EXCEPT ![s][d].beat =
                          IF run[r].st \in {"running", "cancelling"} THEN run[r].ver ELSE -1]
    /\ UNCHANGED <<run, lease, receipt, service, found, leaving, noting, claims, acted, stalls>>

BeatRenew(s, d) ==
    /\ Beats(s, d)
    /\ drainer[s][d].beat > 0
    /\ LET r == drainer[s][d].r
           mine == /\ run[r].ver = drainer[s][d].beat
                   /\ run[r].st \in {"running", "cancelling"}
                   /\ lease[r].by = s
       IN  /\ lease' = [lease EXCEPT ![r].live = @ \/ mine]
           /\ drainer' = [drainer EXCEPT ![s][d].beat = IF mine THEN 0 ELSE -1]
    /\ UNCHANGED <<run, receipt, service, found, leaving, noting, claims, acted, stalls>>

-----------------------------------------------------------------------------
(* Cancellation, by a user or by the timeout thread of an execution *)

\* request_cancellation: one transaction; a queued run stops at once.
Cancel(s, r, why) ==
    /\ Up(s)
    /\ run[r].st \in {"queued", "running"}
    /\ LET st == IF run[r].st = "running" THEN "cancelling" ELSE "stopped"
       IN  /\ run' = [Moved(r, st) EXCEPT ![r].why = why]
           /\ lease' = [lease EXCEPT ![r] = IF st = "stopped" THEN NoLease ELSE @]
    /\ UNCHANGED <<receipt, service, found, drainer, leaving, noting, claims, acted, stalls>>

\* _run_timeout, while the execution is registered.
TimeOut(s, d) ==
    /\ At(s, d, "engine")
    /\ Cancel(s, drainer[s][d].r, "run_timeout")

-----------------------------------------------------------------------------
(* Starts, recovery and crashes *)

Candidates == {r \in Runs : run[r].st \in {"running", "cancelling"} /\ ~lease[r].live}

\* A start reads its recovery candidates; services start one after the other.
Start(s) ==
    /\ service[s] = "down"
    /\ \A t \in Services : t < s => service[t] # "down"
    /\ Cardinality(Alive) < MaxAlive
    /\ service' = [service EXCEPT ![s] = "starting"]
    /\ found' = [found EXCEPT ![s] =
                    {[r |-> r, st |-> run[r].st, ver |-> run[r].ver, rec |-> run[r].rec,
                      acts |-> "unread"] : r \in Candidates}]
    /\ UNCHANGED <<run, lease, receipt, drainer, leaving, noting, claims, acted, stalls>>

\* Mutant of Classify: the recovery attempts are not counted.
ClassifyAgain(c) ==
    IF c.st = "running" /\ c.acts = "none" THEN "queued" ELSE "recovery_required"
\* Mutant of Classify: the receipts are not counted.
ClassifyBlind(c) ==
    IF c.st = "running" /\ c.rec = 0 THEN "queued" ELSE "recovery_required"

\* DefaultRecoveryPolicy, on the row and the receipts as they were read.
Classify(c) ==
    IF c.st = "running" /\ c.acts = "none" /\ c.rec = 0
    THEN "queued" ELSE "recovery_required"

\* action_receipt_count of the next candidate.
CountReceipts(s) ==
    /\ service[s] = "starting"
    /\ \A c \in found[s] : c.acts = "unread"
    /\ \E c \in found[s] :
        found' = [found EXCEPT ![s] = (@ \ {c}) \cup
            {[c EXCEPT !.acts = IF receipt[c.r] = "none" THEN "none" ELSE "some"]}]
    /\ UNCHANGED <<run, lease, receipt, service, drainer, leaving, noting, claims, acted, stalls>>

\* The transition of that candidate compares its state and version.
Reconcile(s) ==
    /\ service[s] = "starting"
    /\ \E c \in {x \in found[s] : x.acts # "unread"} :
        LET st == Classify(c)
        IN  /\ found' = [found EXCEPT ![s] = @ \ {c}]
            /\ IF run[c.r].st = c.st /\ run[c.r].ver = c.ver
               THEN /\ run' = [Moved(c.r, st) EXCEPT
                                  ![c.r].rec = @ + IF st = "queued" THEN 1 ELSE 0]
                    /\ lease' = [lease EXCEPT ![c.r] = NoLease]
               ELSE UNCHANGED <<run, lease>>
    /\ UNCHANGED <<receipt, service, drainer, leaving, noting, claims, acted, stalls>>

\* After the last candidate the drainers start.
Started(s) ==
    /\ service[s] = "starting"
    /\ found[s] = {}
    /\ service' = [service EXCEPT ![s] = "up"]
    /\ drainer' = Schedule(s)
    /\ UNCHANGED <<run, lease, receipt, found, leaving, noting, claims, acted, stalls>>

Crash(s) ==
    /\ s \in Alive
    /\ service' = [service EXCEPT ![s] = "dead"]
    /\ found' = [found EXCEPT ![s] = {}]
    /\ noting' = [noting EXCEPT ![s] = {}]
    /\ leaving' = [leaving EXCEPT ![s] = {}]
    /\ drainer' = [drainer EXCEPT ![s] = [d \in Drainers |-> Free]]
    /\ UNCHANGED <<run, lease, receipt, claims, acted, stalls>>

\* The interval of heartbeats and the few statements around an engine are much shorter
\* than a lease, so a lease expires only when nobody renews it, or its process stalls.
Kept(r) ==
    \E s \in {lease[r].by} \ {NoService}, d \in Drainers :
        /\ Up(s)
        /\ drainer[s][d].r = r
        /\ drainer[s][d].beat >= 0 \/ drainer[s][d].pc \in {"begin", "refuse", "finalize", "release"}

Expire(r) ==
    /\ lease[r].live
    /\ stalls \/ ~Kept(r)
    /\ lease' = [lease EXCEPT ![r].live = FALSE]
    /\ UNCHANGED <<run, receipt, service, found, drainer, leaving, noting, claims, acted, stalls>>

RunsInit ==
    /\ run = [r \in Runs |-> [st |-> "none", ver |-> 0, rec |-> 0, why |-> "none",
                              born |-> 0, author |-> NoService]]
    /\ lease = [r \in Runs |-> NoLease]
    /\ receipt = [r \in Runs |-> "none"]
    /\ service = [s \in Services |-> "down"]
    /\ found = [s \in Services |-> {}]
    /\ drainer = [s \in Services |-> [d \in Drainers |-> Free]]
    /\ leaving = [s \in Services |-> {}]
    /\ noting = [s \in Services |-> {}]
    /\ claims = [r \in Runs |-> [n |-> 0, by |-> NoService]]
    /\ stalls \in BOOLEAN
    /\ acted = [r \in Runs |-> 0]

Drain(s, d) ==
    \/ Claim(s, d) \/ ClaimNothing(s, d) \/ GiveBack(s, d) \/ LookAgain(s, d)
    \/ Begin(s, d) \/ Acted(s, d) \/ EngineEnds(s, d) \/ Finalize(s, d) \/ Release(s, d)

RunsNext ==
    \/ \E s \in Services :
        \/ Start(s) \/ CountReceipts(s) \/ Reconcile(s) \/ Started(s) \/ Crash(s)
        \/ \E r \in Runs : Submit(s, r) \/ Accept(s, r) \/ Cancel(s, r, "user_requested")
        \/ \E d \in Drainers : \/ Drain(s, d) \/ Reject(s, d) \/ Act(s, d)
                               \/ TimeOut(s, d) \/ BeatRead(s, d) \/ BeatRenew(s, d)
    \/ \E r \in Runs : Expire(r)

\* The threads of a live service run, and an engine returns at last.
RunsFairness ==
    \A s \in Services :
        /\ WF_runsVars(CountReceipts(s) \/ Reconcile(s) \/ Started(s))
        /\ \A r \in Runs : WF_runsVars(Accept(s, r))
        /\ \A d \in Drainers :
            /\ WF_runsVars(LookAgain(s, d))
            /\ WF_runsVars(Claim(s, d) \/ ClaimNothing(s, d) \/ GiveBack(s, d) \/ Begin(s, d) \/ Acted(s, d)
                             \/ EngineEnds(s, d) \/ Finalize(s, d) \/ Release(s, d))

RunsSpec == RunsInit /\ [][RunsNext]_runsVars /\ RunsFairness

-----------------------------------------------------------------------------
(* Properties *)

\* Rows, leases and receipts hold the values of their columns; a lease belongs to a
\* run that is active.
RunsTypeOK ==
    /\ \A r \in Runs :
        /\ run[r].st \in Terminal \cup {"none", "queued", "running", "cancelling"}
        /\ run[r].ver \in Nat /\ run[r].rec \in Nat
        /\ lease[r].by # NoService => run[r].st \in {"running", "cancelling"}
        /\ receipt[r] \in {"none", "pending", "completed", "failed"}
    /\ \A s \in Services :
        /\ found[s] # {} => service[s] = "starting"
        /\ \A d \in Drainers : drainer[s][d].pc # "off" => service[s] = "up"

\* Recovery runs a run at most once more, however many services reconcile it at
\* the same time and however often they crash.
RerunOnce == \A r \in Runs : claims[r].n <= 2 /\ run[r].rec <= 1

\* The callback of an action is performed at most once, by all the attempts of its
\* run together.
ActionOnce == \A r \in Runs : acted[r] <= 1

\* A run that a worker ended was ended by the worker that claimed it last: a stale
\* one, whose run was recovered meanwhile, cannot write over it.
EndedByLastClaimer ==
    \A r \in Runs : run[r].author # NoService => run[r].author = claims[r].by

\* Ended runs stay as they are, against late finalizations, cancellations, timeouts
\* and recoveries; and a cancellation that was recorded is never turned into a
\* result of the engine.
EndKept(r) ==
    /\ run[r].st \in Terminal => run'[r] = run[r]
    /\ run[r].st = "cancelling" => run'[r].st \in Transitions.cancelling \cup {"cancelling"}
    /\ run[r].why = "user_requested" /\ run[r].st = "cancelling" => run'[r].st # "failed"

\* Besides, an attempt starts only when no action of its run was reserved before the
\* recovery that queued it read the receipts; without stalls that means none at all.
NothingRepeated ==
    [][\A r \in Runs :
          /\ EndKept(r)
          /\ claims'[r].n > claims[r].n /\ ~stalls => receipt[r] = "none"]_runsVars

\* No wake-up is lost: as long as services live and nobody cancels, a queued run is
\* executed to its end, although drainers give their slots back while submits look
\* for free slots.
Disturbed(r) == stalls \/ run[r].why # "none" \/ \E s \in Services : service[s] = "dead"
QueuedRunsEnd ==
    \A r \in Runs : run[r].st = "queued" ~> run[r].st \in Terminal \/ Disturbed(r)

\* Recovery is sound: with services that reconcile together and crash at any step a run
\* is repeated once at most, its action performed once at most, and its end is written
\* by the worker that claimed it last.
RunsSound == RunsTypeOK /\ RerunOnce /\ ActionOnce /\ EndedByLastClaimer
=============================================================================
