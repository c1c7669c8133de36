------------------------------ MODULE TaskStore ------------------------------
(***************************************************************************)
(* The SQLite store of durable background tasks                            *)
(* (src/src/paperclaw/tasks/store.py and distributed_store.py).  The       *)
(* owner-only operations exist twice, without and with a fencing           *)
(* generation; FencedWorkers says which worker uses the fenced ones.       *)
(*                                                                         *)
(* Every store method runs in one BEGIN IMMEDIATE transaction that either  *)
(* commits or rolls back, so each is one atomic action.  A method that     *)
(* raises rolls back and leaves the database unchanged: its guards are     *)
(* conjuncts here, and the raising call is a stuttering step.              *)
(*                                                                         *)
(* Wall-clock time is kept only as the number of ticks a lease has left,   *)
(* LeaseTicks standing for lease_seconds.  Creation times are kept as the  *)
(* order of the INSERTs.  The idempotency table is in TaskAdmission, the   *)
(* audit columns (reasons, outputs, event log) are left out.               *)
(***************************************************************************)
EXTENDS Integers, Sequences

CONSTANTS
    Tasks,         \* task identifiers
    Workers,       \* worker identifiers, the values of lease_owner
    FencedWorkers, \* the workers whose supervisor is built on the fenced store
    NoWorker,      \* lease_owner IS NULL
    MaxAttempts,   \* max_attempts of each task
    LeaseTicks     \* lease_seconds, in clock ticks

ASSUME WorkersAssumption == NoWorker \notin Workers /\ FencedWorkers \subseteq Workers
ASSUME AttemptsAssumption == MaxAttempts \in [Tasks -> Nat \ {0}]
ASSUME LeaseAssumption == LeaseTicks \in Nat \ {0}

VARIABLES
    row,           \* background_tasks joined with dependencies and fencing
    createOrder    \* the tasks in the order of (created_at, task_id)

storeVars == <<row, createOrder>>

-----------------------------------------------------------------------------
(* Statuses and rows *)

Terminal ==
    {"succeeded", "failed", "cancelled", "timed_out", "blocked", "unknown_outcome"}
Leased == {"claimed", "running"}
Unclaimed == {"absent", "created", "waiting_dependency"}
Status == Terminal \cup Leased \cup {"created", "queued", "waiting_dependency"}

\* side_effect_state: the code never tells safe from none, nor committed from
\* unknown, so "none" and "unknown" stand for the two classes.
Effects == {"none", "unknown"}

NoLease == -1      \* lease_expires_at IS NULL; 0 is an expired lease

\* The transition table of the store.
AllowedTransitions ==
    [s \in Status |->
        CASE s = "created" -> {"queued", "waiting_dependency", "cancelled"}
          [] s = "waiting_dependency" -> {"queued", "blocked", "cancelled"}
          [] s = "queued" -> {"claimed", "cancelled", "blocked"}
          [] s = "claimed" -> {"running", "queued", "cancelled", "unknown_outcome"}
          [] s = "running" -> {"queued", "succeeded", "failed", "cancelled",
                               "timed_out", "unknown_outcome"}
          [] OTHER -> {}]

Row == [status     : Status \cup {"absent"},
        version    : Nat,
        attempt    : Nat,
        cancel     : BOOLEAN,
        owner      : Workers \cup {NoWorker},
        lease      : {NoLease} \cup 0 .. LeaseTicks,
        effect     : Effects,
        deps       : SUBSET Tasks,
        generation : Nat]

NewRow(s, D) ==
    [status |-> s, version |-> 0, attempt |-> 0, cancel |-> FALSE,
     owner |-> NoWorker, lease |-> NoLease, effect |-> "none",
     deps |-> D, generation |-> 0]

Exists(t) == row[t].status # "absent"
Done(t) == row[t].status \in Terminal
Doomed(s) == s \in Terminal \ {"succeeded"}

\* Every status change but claim and start also gives up the lease.
Transition(r, s) ==
    [r EXCEPT !.status = s, !.version = @ + 1, !.owner = NoWorker,
              !.lease = NoLease]

Claimed(r, w) ==
    [r EXCEPT !.status = "claimed", !.version = @ + 1, !.attempt = @ + 1,
              !.owner = w, !.lease = LeaseTicks,
              !.generation = IF w \in FencedWorkers THEN @ + 1 ELSE @]

Started(r) == [r EXCEPT !.status = "running", !.version = @ + 1]
CancelRequested(r) == [r EXCEPT !.cancel = TRUE]
Marked(r, e) == [r EXCEPT !.effect = e]
WithLease(r, n) == [r EXCEPT !.lease = n]

\* Mutants of FencedOwner: any attempt of the worker, or an expired lease, will do.
OwnerByName(t, w, v, g) == row[t].owner = w /\ row[t].lease # 0
OwnerWithoutClock(t, w, v, g) ==
    /\ row[t].version = v
    /\ row[t].owner = w
    /\ w \in FencedWorkers => row[t].generation = g

\* The lease check in front of every owner-only operation.
FencedOwner(t, w, v, g) ==
    /\ row[t].version = v
    /\ row[t].owner = w
    /\ row[t].lease # 0
    /\ w \in FencedWorkers => row[t].generation = g

-----------------------------------------------------------------------------
(* Creation and dependencies *)

CreateTask(t, D) ==
    /\ ~Exists(t)
    /\ t \notin D
    /\ \A d \in D : Exists(d)
    /\ row' = [row EXCEPT ![t] =
                  NewRow(IF D = {} THEN "queued" ELSE "waiting_dependency", D)]
    /\ createOrder' = Append(createOrder, t)

Waiting == {t \in Tasks : row[t].status = "waiting_dependency"}

\* One pass over the waiting rows, oldest first: a row sees the rows before
\* it already blocked, and dependencies are older than their dependents, so
\* the rows that end blocked are the solution of this equation.
Doom(B) == {t \in Waiting : \E d \in row[t].deps : d \in B \/ Doomed(row[d].status)}

Ready == {t \in Waiting : row[t].deps # {}
                          /\ \A d \in row[t].deps : row[d].status = "succeeded"}

RefreshDependencies ==
    \E B \in SUBSET Waiting :
        /\ B = Doom(B)
        /\ row' = [t \in Tasks |->
                      IF t \in B THEN Transition(row[t], "blocked")
                      ELSE IF t \in Ready THEN Transition(row[t], "queued")
                      ELSE row[t]]
        /\ UNCHANGED createOrder

-----------------------------------------------------------------------------
(* Leases *)

Claimable(t) == row[t].status = "queued" /\ ~row[t].cancel
Older(u, t) ==
    \E i, j \in DOMAIN createOrder : i < j /\ createOrder[i] = u /\ createOrder[j] = t
Oldest(t) == \A u \in Tasks : Claimable(u) => ~Older(u, t)

\* An exhausted budget makes the method attempt queued -> failed, which
\* the transition table refuses: the call raises.
ClaimNext(t, w) ==
    /\ Claimable(t)
    /\ Oldest(t)
    /\ row[t].attempt < MaxAttempts[t]
    /\ row' = [row EXCEPT ![t] = Claimed(@, w)]
    /\ UNCHANGED createOrder

StartTask(t, w, v, g) ==
    /\ FencedOwner(t, w, v, g)
    /\ row[t].status = "claimed"
    /\ row' = [row EXCEPT ![t] = Started(@)]
    /\ UNCHANGED createOrder

Heartbeat(t, w, v, g) ==
    /\ FencedOwner(t, w, v, g)
    /\ row[t].status \in Leased
    /\ row' = [row EXCEPT ![t] = WithLease(@, LeaseTicks)]
    /\ UNCHANGED createOrder

MarkSideEffect(t, w, v, g, e) ==
    /\ FencedOwner(t, w, v, g)
    /\ row' = [row EXCEPT ![t] = Marked(@, e)]
    /\ UNCHANGED createOrder

-----------------------------------------------------------------------------
(* Ends of an attempt *)

\* Mutant of AfterDone: the first success releases the dependents.
AfterFirstDone(t, s, u) ==
    IF u \notin Waiting \/ t \notin row[u].deps THEN row[u]
    ELSE Transition(row[u], IF s = "succeeded" THEN "queued" ELSE "blocked")

\* refresh_dependencies_after: the direct dependents of t, given t's status.
\* A dependent still waits for t, so its other dependencies are read from row.
AfterDone(t, s, u) ==
    IF u \notin Waiting \/ t \notin row[u].deps THEN row[u]
    ELSE LET st(d) == IF d = t THEN s ELSE row[d].status
         IN  IF \E d \in row[u].deps : Doomed(st(d)) THEN Transition(row[u], "blocked")
             ELSE IF \A d \in row[u].deps : st(d) = "succeeded"
             THEN Transition(row[u], "queued")
             ELSE row[u]

CompleteTask(t, w, v, g, s, e) ==
    /\ FencedOwner(t, w, v, g)
    /\ row[t].status \in Leased
    /\ s \in AllowedTransitions[row[t].status]
    /\ row' = [u \in Tasks |->
                  IF u = t THEN Marked(Transition(row[t], s), e)
                  ELSE AfterDone(t, s, u)]
    /\ UNCHANGED createOrder

RequeueTask(t, w, v, g) ==
    /\ FencedOwner(t, w, v, g)
    /\ row[t].status \in Leased
    /\ row[t].attempt < MaxAttempts[t]
    /\ row[t].effect = "none"
    /\ row' = [row EXCEPT ![t] = Transition(@, "queued")]
    /\ UNCHANGED createOrder

\* Mutant of RequestCancel: it does not look for an ended task.
CancelAnything(t) ==
    /\ Exists(t)
    /\ row' = [row EXCEPT ![t] = IF @.status = "running" THEN CancelRequested(@)
                                 ELSE Transition(@, "cancelled")]
    /\ UNCHANGED createOrder

RequestCancel(t) ==
    /\ Exists(t)
    /\ ~Done(t)
    /\ row' = [row EXCEPT ![t] = IF @.status = "running" THEN CancelRequested(@)
                                 ELSE Transition(@, "cancelled")]
    /\ UNCHANGED createOrder

\* Mutant of Expired: recovery takes every leased row.
ExpiredOrNot(t) == row[t].status \in Leased

Expired(t) == row[t].status \in Leased /\ row[t].lease = 0

\* Mutant of RecoveredStatus: the budget is looked at before the side effects.
RetryFirst(t) ==
    IF row[t].attempt < MaxAttempts[t] THEN "queued"
    ELSE IF row[t].effect = "unknown" THEN "unknown_outcome"
    ELSE "failed"

RecoveredStatus(t) ==
    IF row[t].effect = "unknown" THEN "unknown_outcome"
    ELSE IF row[t].attempt < MaxAttempts[t] THEN "queued"
    ELSE "failed"

RecoverExpiredLeases ==
    /\ row' = [t \in Tasks |-> IF Expired(t) THEN Transition(row[t], RecoveredStatus(t))
                               ELSE row[t]]
    /\ UNCHANGED createOrder

\* The clock advances: every lease that has not expired has one tick less.
Tick ==
    /\ \E t \in Tasks : row[t].lease > 0
    /\ row' = [t \in Tasks |-> IF row[t].lease > 0
                               THEN WithLease(row[t], row[t].lease - 1) ELSE row[t]]
    /\ UNCHANGED createOrder

-----------------------------------------------------------------------------

Init ==
    /\ row = [t \in Tasks |-> NewRow("absent", {})]
    /\ createOrder = << >>

\* An owner-only call presents a version and a generation the caller has read.
OwnerCall(t, w) ==
    \E v \in 0 .. row[t].version, g \in 0 .. row[t].generation :
        \/ StartTask(t, w, v, g)
        \/ Heartbeat(t, w, v, g)
        \/ \E e \in Effects : MarkSideEffect(t, w, v, g, e)
        \/ \E s \in Terminal, e \in Effects : CompleteTask(t, w, v, g, s, e)
        \/ RequeueTask(t, w, v, g)

Next ==
    \/ \E t \in Tasks, D \in SUBSET Tasks : CreateTask(t, D)
    \/ RefreshDependencies
    \/ \E t \in Tasks, w \in Workers : ClaimNext(t, w)
    \/ \E t \in Tasks, w \in Workers : OwnerCall(t, w)
    \/ \E t \in Tasks : RequestCancel(t)
    \/ RecoverExpiredLeases
    \/ Tick

Spec == Init /\ [][Next]_storeVars

-----------------------------------------------------------------------------
(* Properties *)

\* Every row holds values of its columns, and the insertion order names rows.
TypeOK ==
    /\ row \in [Tasks -> Row]
    /\ createOrder \in Seq(Tasks)

\* A task has an owner and a lease exactly while it is claimed or running, so
\* that recovery, which looks for expired leases only, can see every abandoned
\* attempt.
LeaseDiscipline ==
    \A t \in Tasks :
        /\ row[t].owner # NoWorker <=> row[t].status \in Leased
        /\ row[t].lease # NoLease <=> row[t].status \in Leased

\* The attempt budget: every claim is one attempt and, on the fenced store, one
\* fencing generation; no task is claimed more often than max_attempts, and a queued task has an
\* attempt left.  The branch of claim_next_lease for an exhausted budget, whose
\* queued -> failed the transition table refuses, is therefore never taken.
BudgetKept ==
    \A t \in Tasks :
        /\ row[t].generation <= row[t].attempt
        /\ FencedWorkers = Workers => row[t].generation = row[t].attempt
        /\ row[t].attempt <= MaxAttempts[t]
        /\ row[t].status = "queued" => row[t].attempt < MaxAttempts[t]
        /\ row[t].status \in Leased => row[t].attempt > 0
        /\ row[t].status \in Unclaimed => row[t].attempt = 0

\* A task that is eligible to run, runs or has run had every dependency succeed,
\* whatever was cancelled, retried or recovered meanwhile; a task is blocked only
\* by a dependency that ended otherwise.
DependencyGate ==
    \A t \in Tasks :
        /\ row[t].status = "queued" \/ row[t].attempt > 0 =>
               \A d \in row[t].deps : row[d].status = "succeeded"
        /\ row[t].status = "blocked" =>
               \E d \in row[t].deps : Doomed(row[d].status)

\* An attempt that recorded a committed or unknown side effect is the last one:
\* the task is never queued again, by a retry or by lease recovery.
QuarantineKept ==
    \A t \in Tasks :
        row[t].status \in Unclaimed \cup {"queued"} => row[t].effect = "none"

\* The rows are sound: no order of creations, claims, heartbeats, retries, cancels
\* and recoveries leaves an abandoned attempt that recovery cannot see, a task run
\* beyond its budget or before its dependencies, or an effect that is repeated.
RowsSound ==
    TypeOK /\ LeaseDiscipline /\ BudgetKept /\ DependencyGate /\ QuarantineKept

\* A row that has ended never changes again: late completions, heartbeats, cancel
\* requests, refreshes and recoveries all leave it alone.
TerminalImmutable == [][\A t \in Tasks : Done(t) => row'[t] = row[t]]_storeVars

\* An expired lease is never revived: the attempt can only be taken away from its
\* owner (or cancelled), and the fencing generation only grows.
NoLeaseRevival ==
    [][\A t \in Tasks :
           /\ row'[t].generation >= row[t].generation
           /\ Expired(t) /\ row'[t].owner = row[t].owner =>
                  row'[t].lease = 0 /\ row'[t].status = row[t].status]_storeVars

\* Every claim takes a new fencing generation, by which an older owner of the
\* same task is recognised as stale.
ClaimAdvancesGeneration ==
    [][\A t \in Tasks : row'[t].attempt > row[t].attempt =>
           row'[t].generation > row[t].generation]_storeVars

\* The store implements the lifecycle it promises to its callers.
Phase(s) ==
    CASE s \in {"absent", "succeeded"} -> s
      [] s \in {"created", "waiting_dependency"} -> "waiting"
      [] s = "queued" -> "ready"
      [] s \in Leased -> "leased"
      [] OTHER -> "ended"

Lifecycle == INSTANCE TaskLifecycle WITH
    Budget <- MaxAttempts,
    phase <- [t \in Tasks |-> Phase(row[t].status)],
    spent <- [t \in Tasks |-> row[t].attempt],
    needs <- [t \in Tasks |-> row[t].deps]

\* Refinement: the rows, seen as phases, follow TaskLifecycle.
ImplementsLifecycle == Lifecycle!Spec
=============================================================================
