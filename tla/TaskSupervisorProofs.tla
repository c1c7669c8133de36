----------------------- MODULE TaskSupervisorProofs -----------------------
(***************************************************************************)
(* Proofs about TaskStore and about TaskSupervisor, which runs its tasks,  *)
(* for any number of processes, runners, workers and tasks, every sharing  *)
(* of worker ids, every attempt budget, every lease length and every set   *)
(* of faults.                                                              *)
(*                                                                         *)
(* Of the supervisor four results: it uses the store only through its      *)
(* operations, so that whatever holds of the store holds of the tasks it   *)
(* runs; a runner writes only in the latest attempt of its task; a cancel  *)
(* request that comes in time wins; and, as long as nothing stalls or      *)
(* times out, a task is never executed by two threads at once.  All rest   *)
(* on ReadsAreOld: a version never comes back for another attempt.         *)
(***************************************************************************)
EXTENDS TaskSupervisor, TLAPS

-----------------------------------------------------------------------------
(* The store: row operators *)

\* Giving up the lease keeps a row a row, and touches status, version, owner and
\* lease only.
LEMMA TransitionRow ==
    ASSUME NEW r \in Row, NEW s \in Status
    PROVE  /\ Transition(r, s) \in Row
           /\ Transition(r, s).status = s
           /\ Transition(r, s).attempt = r.attempt
           /\ Transition(r, s).generation = r.generation
           /\ Transition(r, s).effect = r.effect
           /\ Transition(r, s).deps = r.deps
           /\ Transition(r, s).owner = NoWorker
           /\ Transition(r, s).lease = NoLease
<1>1. r.version + 1 \in Nat
  BY DEF Row
<1>2. NoWorker \in Workers \cup {NoWorker} /\ NoLease \in {NoLease} \cup 0 .. LeaseTicks
  OBVIOUS
<1>3. Transition(r, s) \in Row
  BY <1>1, <1>2 DEF Row, Transition
<1> QED
  BY <1>3 DEF Row, Transition

\* A claimed row is a row: leased to its claimer, with one attempt more.
LEMMA ClaimedRow ==
    ASSUME NEW r \in Row, NEW w \in Workers
    PROVE  /\ Claimed(r, w) \in Row
           /\ Claimed(r, w).status = "claimed"
           /\ Claimed(r, w).attempt = r.attempt + 1
           /\ Claimed(r, w).generation = IF w \in FencedWorkers THEN r.generation + 1
                                         ELSE r.generation
           /\ Claimed(r, w).effect = r.effect
           /\ Claimed(r, w).deps = r.deps
           /\ Claimed(r, w).owner = w
           /\ Claimed(r, w).lease = LeaseTicks
<1>1. "claimed" \in Status \cup {"absent"}
  BY DEF Status, Leased
<1>2. /\ r.version + 1 \in Nat
      /\ r.attempt + 1 \in Nat
      /\ (IF w \in FencedWorkers THEN r.generation + 1 ELSE r.generation) \in Nat
  BY DEF Row
<1>3. LeaseTicks \in {NoLease} \cup 0 .. LeaseTicks
  BY LeaseAssumption
<1> QED BY <1>1, <1>2, <1>3 DEF Row, Claimed

\* A started row is a row, with the generation and the lease it was claimed with.
LEMMA StartedRow ==
    ASSUME NEW r \in Row
    PROVE  /\ Started(r) \in Row
           /\ Started(r).status = "running"
           /\ Started(r).attempt = r.attempt
           /\ Started(r).generation = r.generation
           /\ Started(r).effect = r.effect
           /\ Started(r).deps = r.deps
           /\ Started(r).owner = r.owner
           /\ Started(r).lease = r.lease
<1>1. "running" \in Status \cup {"absent"}
  BY DEF Status, Leased
<1>2. r.version + 1 \in Nat
  BY DEF Row
<1>3. Started(r) \in Row
  BY <1>1, <1>2 DEF Row, Started
<1> QED
  BY <1>3 DEF Row, Started

\* A cancel request keeps a row a row and leaves its lease alone.
LEMMA CancelRequestedRow ==
    ASSUME NEW r \in Row
    PROVE  /\ CancelRequested(r) \in Row
           /\ CancelRequested(r).status = r.status
           /\ CancelRequested(r).attempt = r.attempt
           /\ CancelRequested(r).generation = r.generation
           /\ CancelRequested(r).effect = r.effect
           /\ CancelRequested(r).deps = r.deps
           /\ CancelRequested(r).owner = r.owner
           /\ CancelRequested(r).lease = r.lease
  BY DEF Row, CancelRequested

\* A side-effect mark keeps a row a row and leaves its lease alone.
LEMMA MarkedRow ==
    ASSUME NEW r \in Row, NEW e \in Effects
    PROVE  /\ Marked(r, e) \in Row
           /\ Marked(r, e).status = r.status
           /\ Marked(r, e).attempt = r.attempt
           /\ Marked(r, e).generation = r.generation
           /\ Marked(r, e).effect = e
           /\ Marked(r, e).deps = r.deps
           /\ Marked(r, e).owner = r.owner
           /\ Marked(r, e).lease = r.lease
  BY DEF Row, Marked

\* A renewed lease keeps a row a row.
LEMMA WithLeaseRow ==
    ASSUME NEW r \in Row, NEW n \in 0 .. LeaseTicks
    PROVE  /\ WithLease(r, n) \in Row
           /\ WithLease(r, n).status = r.status
           /\ WithLease(r, n).attempt = r.attempt
           /\ WithLease(r, n).generation = r.generation
           /\ WithLease(r, n).effect = r.effect
           /\ WithLease(r, n).deps = r.deps
           /\ WithLease(r, n).owner = r.owner
           /\ WithLease(r, n).lease = n
  BY DEF Row, WithLease

\* A created task is a row.
LEMMA NewRowRow ==
    ASSUME NEW s \in Status \cup {"absent"}, NEW D \in SUBSET Tasks
    PROVE  /\ NewRow(s, D) \in Row
           /\ NewRow(s, D).status = s
           /\ NewRow(s, D).attempt = 0
           /\ NewRow(s, D).generation = 0
           /\ NewRow(s, D).effect = "none"
           /\ NewRow(s, D).deps = D
           /\ NewRow(s, D).owner = NoWorker
           /\ NewRow(s, D).lease = NoLease
  BY DEF Row, NewRow, NoLease, Effects

-----------------------------------------------------------------------------
(* What one step of the store may do to one row *)

Ends == {"succeeded", "failed", "cancelled", "timed_out", "unknown_outcome"}

IsCreated(t) ==
    \E D \in SUBSET Tasks :
        /\ row[t].status = "absent"
        /\ \A d \in D : d # t /\ row[d].status # "absent"
        /\ row'[t] = NewRow(IF D = {} THEN "queued" ELSE "waiting_dependency", D)
IsReleased(t) ==
    /\ row[t].status = "waiting_dependency"
    /\ \A d \in row[t].deps : row'[d].status = "succeeded"
    /\ row'[t] = Transition(row[t], "queued")
IsBlocked(t) ==
    /\ row[t].status = "waiting_dependency"
    /\ \E d \in row[t].deps : Doomed(row'[d].status)
    /\ row'[t] = Transition(row[t], "blocked")
IsClaimed(t) ==
    /\ row[t].status = "queued"
    /\ row[t].attempt < MaxAttempts[t]
    /\ \E w \in Workers : row'[t] = Claimed(row[t], w)
IsStarted(t) ==
    /\ row[t].status = "claimed"
    /\ row[t].lease # 0
    /\ row'[t] = Started(row[t])
IsTimed(t) ==
    /\ row[t].status \in Leased
    /\ row[t].lease > 0
    /\ \E n \in 0 .. LeaseTicks : row'[t] = WithLease(row[t], n)
IsMarked(t) ==
    /\ row[t].status \in Leased
    /\ row[t].lease # 0
    /\ \E e \in Effects : row'[t] = Marked(row[t], e)
IsEnded(t) ==
    /\ row[t].status \in Leased
    /\ \E s \in Ends, e \in Effects : row'[t] = Marked(Transition(row[t], s), e)
IsRequeued(t) ==
    /\ row[t].status \in Leased
    /\ row[t].attempt < MaxAttempts[t]
    /\ row[t].effect = "none"
    /\ row'[t] = Transition(row[t], "queued")
IsCancelled(t) ==
    /\ row[t].status \in {"created", "waiting_dependency", "queued", "claimed"}
    /\ row'[t] = Transition(row[t], "cancelled")
IsFlagged(t) == row[t].status = "running" /\ row'[t] = CancelRequested(row[t])
IsAbandoned(t) ==
    /\ row[t].status \in Leased
    /\ \E s \in {"failed", "unknown_outcome"} : row'[t] = Transition(row[t], s)
IsKept(t) == row'[t] = row[t]

Move(t) ==
    \/ IsCreated(t) \/ IsReleased(t) \/ IsBlocked(t) \/ IsClaimed(t) \/ IsStarted(t)
    \/ IsTimed(t) \/ IsMarked(t) \/ IsEnded(t) \/ IsRequeued(t) \/ IsCancelled(t)
    \/ IsFlagged(t) \/ IsAbandoned(t) \/ IsKept(t)

\* Every step of the store is such a move of each row.
LEMMA StepMoves ==
    ASSUME TypeOK, LeaseDiscipline, [Next]_storeVars
    PROVE  \A t \in Tasks : Move(t)
<1> USE DEF TypeOK
<1>1. ASSUME NEW u \in Tasks, NEW D \in SUBSET Tasks, CreateTask(u, D), NEW t \in Tasks
      PROVE  Move(t)
  <2>1. CASE t = u
    <3>1. IsCreated(t)
      BY <1>1, <2>1 DEF IsCreated, CreateTask, Exists
    <3> QED BY <3>1 DEF Move
  <2>2. CASE t # u
    <3>1. IsKept(t)
      BY <1>1, <2>2 DEF IsKept, CreateTask
    <3> QED BY <3>1 DEF Move
  <2> QED BY <2>1, <2>2
<1>2. ASSUME RefreshDependencies, NEW t \in Tasks
      PROVE  Move(t)
  <2>1. PICK B \in SUBSET Waiting :
            /\ B = Doom(B)
            /\ row' = [u \in Tasks |-> IF u \in B THEN Transition(row[u], "blocked")
                                      ELSE IF u \in Ready THEN Transition(row[u], "queued")
                                      ELSE row[u]]
    BY <1>2 DEF RefreshDependencies
  <2>2. \A u \in Tasks : row[u].deps \subseteq Tasks
    BY DEF Row
  <2>3. CASE t \in B
    <3>1. PICK d \in row[t].deps : d \in B \/ Doomed(row[d].status)
      BY <2>1, <2>3 DEF Doom
    <3>2. d \in Tasks
      BY <2>2
    <3>3. Doomed(row'[d].status)
      <4>1. CASE d \in B
        <5>1. row'[d].status = "blocked"
          BY <2>1, <3>2, <4>1, TransitionRow DEF Status, Terminal
        <5> QED BY <5>1 DEF Doomed, Terminal
      <4>2. CASE d \notin B
        <5>1. Doomed(row[d].status)
          BY <3>1, <4>2
        <5>2. d \notin Ready
          BY <5>1 DEF Ready, Waiting, Doomed, Terminal
        <5> QED BY <2>1, <3>2, <4>2, <5>1, <5>2
      <4> QED BY <4>1, <4>2
    <3>4. IsBlocked(t)
      BY <2>1, <2>3, <3>1, <3>3 DEF IsBlocked, Waiting
    <3> QED BY <3>4 DEF Move
  <2>4. CASE t \notin B /\ t \in Ready
    <3>1. \A d \in row[t].deps : row'[d].status = "succeeded"
      BY <2>1, <2>2, <2>4 DEF Ready, Waiting
    <3>2. IsReleased(t)
      BY <2>1, <2>4, <3>1 DEF IsReleased, Ready, Waiting
    <3> QED BY <3>2 DEF Move
  <2>5. CASE t \notin B /\ t \notin Ready
    BY <2>1, <2>5 DEF Move, IsKept
  <2> QED BY <2>3, <2>4, <2>5
<1>3. ASSUME NEW u \in Tasks, NEW w \in Workers, ClaimNext(u, w), NEW t \in Tasks
      PROVE  Move(t)
  <2>1. CASE t = u
    <3>1. IsClaimed(t)
      BY <1>3, <2>1 DEF IsClaimed, ClaimNext, Claimable
    <3> QED BY <3>1 DEF Move
  <2>2. CASE t # u
    BY <1>3, <2>2 DEF Move, IsKept, ClaimNext
  <2> QED BY <2>1, <2>2
<1>4. ASSUME NEW u \in Tasks, NEW w \in Workers, NEW v, NEW g,
             StartTask(u, w, v, g), NEW t \in Tasks
      PROVE  Move(t)
  <2>1. IsStarted(t) \/ IsKept(t)
    BY <1>4 DEF IsStarted, IsKept, StartTask, FencedOwner
  <2> QED BY <2>1 DEF Move
<1>5. ASSUME NEW u \in Tasks, NEW w \in Workers, NEW v, NEW g,
             Heartbeat(u, w, v, g), NEW t \in Tasks
      PROVE  Move(t)
  <2>1. row[u].lease > 0
    BY <1>5 DEF Heartbeat, FencedOwner, LeaseDiscipline, Row, NoLease
  <2>2. LeaseTicks \in 0 .. LeaseTicks
    BY LeaseAssumption
  <2>3. IsTimed(t) \/ IsKept(t)
    BY <1>5, <2>1, <2>2 DEF IsTimed, IsKept, Heartbeat
  <2> QED BY <2>3 DEF Move
<1>6. ASSUME NEW u \in Tasks, NEW w \in Workers, NEW v, NEW g, NEW e \in Effects,
             MarkSideEffect(u, w, v, g, e), NEW t \in Tasks
      PROVE  Move(t)
  <2>1. row[u].status \in Leased
    BY <1>6, WorkersAssumption DEF MarkSideEffect, FencedOwner, LeaseDiscipline
  <2>2. IsMarked(t) \/ IsKept(t)
    BY <1>6, <2>1 DEF IsMarked, IsKept, MarkSideEffect, FencedOwner
  <2> QED BY <2>2 DEF Move
<1>7. ASSUME NEW u \in Tasks, NEW w \in Workers, NEW v, NEW g,
             NEW s \in Terminal, NEW e \in Effects,
             CompleteTask(u, w, v, g, s, e), NEW t \in Tasks
      PROVE  Move(t)
  <2>1. s \in Ends
    BY <1>7 DEF CompleteTask, AllowedTransitions, Leased, Status, Terminal, Ends
  <2>2. row[u].deps \subseteq Tasks /\ row[t].deps \subseteq Tasks
    BY DEF Row
  <2>3. row'[u] = Marked(Transition(row[u], s), e) /\ row[u].status \in Leased
    BY <1>7 DEF CompleteTask
  <2>4. row'[u].status = s
    <3>1. s \in Status
      BY <2>1 DEF Ends, Status, Terminal
    <3> QED BY <2>3, <3>1, TransitionRow, MarkedRow
  <2>5. CASE t = u
    <3>1. IsEnded(t)
      BY <2>1, <2>3, <2>5 DEF IsEnded
    <3> QED BY <3>1 DEF Move
  <2>6. CASE t # u /\ (t \notin Waiting \/ u \notin row[t].deps)
    BY <1>7, <2>6 DEF Move, IsKept, CompleteTask, AfterDone
  <2>7. CASE t # u /\ t \in Waiting /\ u \in row[t].deps
    <3> DEFINE st(d) == IF d = u THEN s ELSE row[d].status
    <3>1. row'[t] = IF \E d \in row[t].deps : Doomed(st(d)) THEN Transition(row[t], "blocked")
                    ELSE IF \A d \in row[t].deps : st(d) = "succeeded"
                    THEN Transition(row[t], "queued")
                    ELSE row[t]
      BY <1>7, <2>7 DEF CompleteTask, AfterDone
    <3>2. \A d \in row[t].deps : st(d) \in Terminal => row'[d].status = st(d)
      <4> SUFFICES ASSUME NEW d \in row[t].deps, st(d) \in Terminal
                   PROVE  row'[d].status = st(d)
        OBVIOUS
      <4>1. CASE d = u
        BY <2>4, <4>1
      <4>2. CASE d # u
        <5>1. d \notin Waiting
          BY <4>2 DEF Waiting, Terminal
        <5>2. row'[d] = row[d]
          BY <1>7, <2>2, <4>2, <5>1 DEF CompleteTask, AfterDone
        <5> QED BY <4>2, <5>2
      <4> QED BY <4>1, <4>2
    <3>3. CASE \E d \in row[t].deps : Doomed(st(d))
      <4>1. \E d \in row[t].deps : Doomed(row'[d].status)
        BY <3>2, <3>3 DEF Doomed
      <4>2. IsBlocked(t)
        BY <2>7, <3>1, <3>3, <4>1 DEF IsBlocked, Waiting
      <4> QED BY <4>2 DEF Move
    <3>4. CASE /\ ~\E d \in row[t].deps : Doomed(st(d))
               /\ \A d \in row[t].deps : st(d) = "succeeded"
      <4>1. \A d \in row[t].deps : row'[d].status = "succeeded"
        BY <3>2, <3>4 DEF Terminal
      <4>2. IsReleased(t)
        BY <2>7, <3>1, <3>4, <4>1 DEF IsReleased, Waiting
      <4> QED BY <4>2 DEF Move
    <3>5. CASE /\ ~\E d \in row[t].deps : Doomed(st(d))
               /\ ~\A d \in row[t].deps : st(d) = "succeeded"
      BY <3>1, <3>5 DEF Move, IsKept
    <3> QED BY <3>3, <3>4, <3>5
  <2> QED BY <2>5, <2>6, <2>7
<1>8. ASSUME NEW u \in Tasks, NEW w \in Workers, NEW v, NEW g,
             RequeueTask(u, w, v, g), NEW t \in Tasks
      PROVE  Move(t)
  <2>1. IsRequeued(t) \/ IsKept(t)
    BY <1>8 DEF IsRequeued, IsKept, RequeueTask
  <2> QED BY <2>1 DEF Move
<1>9. ASSUME NEW u \in Tasks, RequestCancel(u), NEW t \in Tasks
      PROVE  Move(t)
  <2>1. CASE t # u
    BY <1>9, <2>1 DEF Move, IsKept, RequestCancel
  <2>2. CASE t = u /\ row[t].status = "running"
    <3>1. IsFlagged(t)
      BY <1>9, <2>2 DEF IsFlagged, RequestCancel
    <3> QED BY <3>1 DEF Move
  <2>3. CASE t = u /\ row[t].status # "running"
    <3>1. row[t].status \in {"created", "waiting_dependency", "queued", "claimed"}
      BY <1>9, <2>3 DEF RequestCancel, Exists, Done, Row, Status, Leased, Terminal
    <3>2. IsCancelled(t)
      BY <1>9, <2>3, <3>1 DEF IsCancelled, RequestCancel
    <3> QED BY <3>2 DEF Move
  <2> QED BY <2>1, <2>2, <2>3
<1>10. ASSUME RecoverExpiredLeases, NEW t \in Tasks
       PROVE  Move(t)
  <2>1. IsAbandoned(t) \/ IsRequeued(t) \/ IsKept(t)
    BY <1>10 DEF IsAbandoned, IsRequeued, IsKept, RecoverExpiredLeases, Expired,
                 RecoveredStatus, Row, Effects
  <2> QED BY <2>1 DEF Move
<1>11. ASSUME Tick, NEW t \in Tasks
       PROVE  Move(t)
  <2>1. CASE row[t].lease > 0
    <3>1. row[t].status \in Leased
      BY <2>1 DEF LeaseDiscipline, NoLease
    <3>2. row[t].lease - 1 \in 0 .. LeaseTicks
      <4>1. row[t].lease \in {NoLease} \cup 0 .. LeaseTicks
        BY DEF Row
      <4> QED BY <2>1, <4>1, LeaseAssumption DEF NoLease
    <3>3. IsTimed(t)
      BY <1>11, <2>1, <3>1, <3>2 DEF IsTimed, Tick
    <3> QED BY <3>3 DEF Move
  <2>2. CASE ~(row[t].lease > 0)
    BY <1>11, <2>2 DEF Move, IsKept, Tick
  <2> QED BY <2>1, <2>2
<1>12. ASSUME UNCHANGED storeVars, NEW t \in Tasks
       PROVE  Move(t)
  BY <1>12 DEF Move, IsKept, storeVars
<1>13. ASSUME NEW u \in Tasks, NEW w \in Workers, OwnerCall(u, w), NEW t \in Tasks
       PROVE  Move(t)
  BY <1>4, <1>5, <1>6, <1>7, <1>8, <1>13 DEF OwnerCall
<1> QED
  BY <1>1, <1>2, <1>3, <1>9, <1>10, <1>11, <1>12, <1>13 DEF Next

\* A row that has ended is kept by every move.
LEMMA DoneIsKept ==
    ASSUME NEW t \in Tasks, Move(t), Done(t)
    PROVE  IsKept(t)
  BY DEF Move, Done, Terminal, Leased, IsCreated, IsReleased, IsBlocked, IsClaimed,
         IsStarted, IsTimed, IsMarked, IsEnded, IsRequeued, IsCancelled, IsFlagged,
         IsAbandoned

-----------------------------------------------------------------------------
(* The inductive invariant *)

\* DependencyGate needs BudgetKept (a leased task has an attempt), BudgetKept and
\* QuarantineKept need each other's clause on unclaimed tasks, and all of them
\* need LeaseDiscipline, by which only a leased row has an owner.
IInv ==
    /\ TypeOK
    /\ LeaseDiscipline
    /\ BudgetKept
    /\ QuarantineKept
    /\ DependencyGate

\* The empty store satisfies the inductive invariant.
LEMMA InitIInv == Init => IInv
<1> SUFFICES ASSUME Init PROVE IInv
  OBVIOUS
<1>1. \A t \in Tasks : row[t] = NewRow("absent", {})
  BY DEF Init
<1>2. /\ NewRow("absent", {}) \in Row
      /\ NewRow("absent", {}).status = "absent"
      /\ NewRow("absent", {}).attempt = 0
      /\ NewRow("absent", {}).generation = 0
      /\ NewRow("absent", {}).effect = "none"
      /\ NewRow("absent", {}).owner = NoWorker
      /\ NewRow("absent", {}).lease = NoLease
  <2>1. "absent" \in Status \cup {"absent"} /\ {} \in SUBSET Tasks
    OBVIOUS
  <2> QED BY <2>1, NewRowRow
<1>3. TypeOK
  BY <1>2 DEF Init, TypeOK
<1>4. \A t \in Tasks : /\ row[t].status = "absent" /\ row[t].attempt = 0
                       /\ row[t].generation = 0 /\ row[t].effect = "none"
                       /\ row[t].owner = NoWorker /\ row[t].lease = NoLease
  BY <1>1, <1>2
<1>5. LeaseDiscipline /\ QuarantineKept /\ DependencyGate
  BY <1>4 DEF LeaseDiscipline, QuarantineKept, DependencyGate, Leased
<1>6. BudgetKept
  <2>1. \A t \in Tasks : MaxAttempts[t] \in Nat /\ 0 <= MaxAttempts[t]
    BY AttemptsAssumption
  <2>2. \A t \in Tasks : /\ row[t].generation <= row[t].attempt
                         /\ row[t].attempt <= MaxAttempts[t]
    <3> TAKE t \in Tasks
    <3>1. row[t].generation \in Nat /\ row[t].attempt \in Nat
      BY <1>4
    <3> QED BY <1>4, <2>1, <3>1
  <2>3. \A t \in Tasks : row[t].status # "queued" /\ row[t].status \notin Leased
    BY <1>4 DEF Leased
  <2> QED BY <1>4, <2>2, <2>3 DEF BudgetKept
<1> QED BY <1>3, <1>5, <1>6 DEF IInv

\* Rows stay rows.
LEMMA MoveType ==
    ASSUME TypeOK, NEW t \in Tasks, Move(t)
    PROVE  row'[t] \in Row
<1> USE DEF TypeOK
<1>1. CASE IsCreated(t)
  <2>1. {"queued", "waiting_dependency"} \subseteq Status \cup {"absent"}
    BY DEF Status
  <2>2. PICK D \in SUBSET Tasks :
            row'[t] = NewRow(IF D = {} THEN "queued" ELSE "waiting_dependency", D)
    BY <1>1 DEF IsCreated
  <2> QED BY <2>1, <2>2, NewRowRow
<1>2. CASE IsReleased(t) \/ IsBlocked(t) \/ IsRequeued(t) \/ IsCancelled(t) \/ IsAbandoned(t)
  <2>1. {"queued", "blocked", "cancelled", "failed", "unknown_outcome"} \subseteq Status
    BY DEF Status, Terminal
  <2>2. PICK s \in Status : row'[t] = Transition(row[t], s)
    BY <1>2, <2>1 DEF IsReleased, IsBlocked, IsRequeued, IsCancelled, IsAbandoned
  <2> QED BY <2>2, TransitionRow
<1>3. CASE IsClaimed(t)
  BY <1>3, ClaimedRow DEF IsClaimed
<1>4. CASE IsStarted(t) \/ IsFlagged(t)
  BY <1>4, StartedRow, CancelRequestedRow DEF IsStarted, IsFlagged
<1>5. CASE IsTimed(t)
  BY <1>5, WithLeaseRow DEF IsTimed
<1>6. CASE IsMarked(t)
  BY <1>6, MarkedRow DEF IsMarked
<1>7. CASE IsEnded(t)
  <2>1. Ends \subseteq Status
    BY DEF Ends, Status, Terminal
  <2> QED BY <1>7, <2>1, TransitionRow, MarkedRow DEF IsEnded
<1>8. CASE IsKept(t)
  BY <1>8 DEF IsKept
<1> QED
  BY <1>1, <1>2, <1>3, <1>4, <1>5, <1>6, <1>7, <1>8 DEF Move

\* A step changes rows pointwise and appends at most one task to the order.
LEMMA StepShape ==
    ASSUME TypeOK, [Next]_storeVars
    PROVE  /\ row' = [t \in Tasks |-> row'[t]]
           /\ createOrder' \in Seq(Tasks)
<1> USE DEF TypeOK
<1>1. ASSUME NEW t \in Tasks, NEW D \in SUBSET Tasks, CreateTask(t, D)
      PROVE  createOrder' \in Seq(Tasks)
  BY <1>1 DEF CreateTask
<1>2. row' = [t \in Tasks |-> row'[t]]
  <2>1. CASE Next
    BY <2>1 DEF Next, CreateTask, RefreshDependencies, ClaimNext, OwnerCall, StartTask,
                Heartbeat, MarkSideEffect, CompleteTask, RequeueTask, RequestCancel,
                RecoverExpiredLeases, Tick
  <2>2. CASE UNCHANGED storeVars
    BY <2>2 DEF storeVars
  <2> QED BY <2>1, <2>2
<1>3. createOrder' \in Seq(Tasks)
  <2>1. CASE Next
    BY <1>1, <2>1 DEF Next, RefreshDependencies, ClaimNext, OwnerCall, StartTask,
                Heartbeat, MarkSideEffect, CompleteTask, RequeueTask, RequestCancel,
                RecoverExpiredLeases, Tick
  <2>2. CASE UNCHANGED storeVars
    BY <2>2 DEF storeVars
  <2> QED BY <2>1, <2>2
<1> QED BY <1>2, <1>3

\* The part of the invariant that is about one row alone.
Kept(r, n) ==
    /\ r.owner # NoWorker <=> r.status \in Leased
    /\ r.lease # NoLease <=> r.status \in Leased
    /\ r.generation <= r.attempt
    /\ FencedWorkers = Workers => r.generation = r.attempt
    /\ r.attempt <= n
    /\ r.status = "queued" => r.attempt < n
    /\ r.status \in Leased => r.attempt > 0
    /\ r.status \in Unclaimed => r.attempt = 0
    /\ r.status \in Unclaimed \cup {"queued"} => r.effect = "none"

\* IInv is Kept of every row, with the types and the dependency gate.
LEMMA IInvIsKept ==
    IInv <=> TypeOK /\ DependencyGate /\ \A t \in Tasks : Kept(row[t], MaxAttempts[t])
  BY DEF IInv, Kept, LeaseDiscipline, BudgetKept, QuarantineKept

\* Every move keeps the row's part of the invariant.
LEMMA MoveKept ==
    ASSUME TypeOK, NEW t \in Tasks, Kept(row[t], MaxAttempts[t]), Move(t)
    PROVE  Kept(row'[t], MaxAttempts[t])
<1> DEFINE r == row[t]
           n == MaxAttempts[t]
<1>1. r \in Row /\ r.attempt \in Nat /\ r.generation \in Nat /\ n \in Nat /\ n > 0
  BY AttemptsAssumption DEF TypeOK, Row
<1>2. Kept(r, n)
  OBVIOUS
<1> HIDE DEF r, n
<1>3. ASSUME NEW s \in Status, NEW q, q = Transition(r, s), s \notin Leased \cup Unclaimed,
             s = "queued" => r.attempt < n /\ r.effect = "none"
      PROVE  Kept(q, n)
  <2>1. /\ q.status = s /\ q.attempt = r.attempt /\ q.generation = r.generation
        /\ q.effect = r.effect /\ q.owner = NoWorker /\ q.lease = NoLease
    BY <1>1, <1>3, TransitionRow
  <2> QED BY <1>1, <1>2, <1>3, <2>1 DEF Kept
<1>4. CASE IsCreated(t)
  <2>1. PICK s \in {"queued", "waiting_dependency"}, D \in SUBSET Tasks : row'[t] = NewRow(s, D)
    BY <1>4 DEF IsCreated
  <2>2. s \in Status \cup {"absent"}
    BY <2>1 DEF Status
  <2>3. /\ row'[t].status = s /\ row'[t].attempt = 0 /\ row'[t].generation = 0
        /\ row'[t].effect = "none" /\ row'[t].owner = NoWorker /\ row'[t].lease = NoLease
    BY <2>1, <2>2, NewRowRow
  <2>4. /\ row'[t].attempt < n /\ row'[t].attempt <= n
        /\ row'[t].generation <= row'[t].attempt
    <3>1. row'[t].generation \in Nat /\ row'[t].attempt \in Nat
      BY <2>3
    <3> QED BY <1>1, <2>3, <3>1
  <2>5. s \notin Leased
    BY DEF Leased
  <2> QED BY <2>3, <2>4, <2>5 DEF Kept, n
<1>5. CASE IsReleased(t)
  <2>1. r.attempt = 0 /\ r.effect = "none"
    BY <1>2, <1>5 DEF Kept, IsReleased, Unclaimed, r
  <2>2. "queued" \in Status /\ "queued" \notin Leased \cup Unclaimed
    BY DEF Status, Leased, Unclaimed
  <2> QED BY <1>1, <1>3, <1>5, <2>1, <2>2 DEF IsReleased, r, n
<1>6. CASE IsBlocked(t) \/ IsCancelled(t) \/ IsAbandoned(t)
  <2>1. PICK s \in {"blocked", "cancelled", "failed", "unknown_outcome"} :
            row'[t] = Transition(r, s)
    BY <1>6 DEF IsBlocked, IsCancelled, IsAbandoned, r
  <2>2. s \in Status /\ s \notin Leased \cup Unclaimed /\ s # "queued"
    BY <2>1 DEF Status, Terminal, Leased, Unclaimed
  <2> QED BY <1>3, <2>1, <2>2 DEF n
<1>7. CASE IsClaimed(t)
  <2>1. PICK w \in Workers : row'[t] = Claimed(r, w)
    BY <1>7 DEF IsClaimed, r
  <2>2. /\ row'[t].status = "claimed" /\ row'[t].attempt = r.attempt + 1
        /\ row'[t].generation = IF w \in FencedWorkers THEN r.generation + 1
                                ELSE r.generation
        /\ row'[t].effect = r.effect /\ row'[t].owner = w /\ row'[t].lease = LeaseTicks
    BY <1>1, <2>1, ClaimedRow
  <2>3. r.attempt < n /\ w # NoWorker /\ LeaseTicks # NoLease
    BY <1>7, WorkersAssumption, LeaseAssumption DEF IsClaimed, NoLease, r, n
  <2> QED BY <1>1, <1>2, <2>2, <2>3 DEF Kept, Leased, Unclaimed, n
<1>8. CASE IsStarted(t)
  <2>1. /\ row'[t].status = "running" /\ row'[t].attempt = r.attempt
        /\ row'[t].generation = r.generation /\ row'[t].effect = r.effect
        /\ row'[t].owner = r.owner /\ row'[t].lease = r.lease
    BY <1>1, <1>8, StartedRow DEF IsStarted, r
  <2>2. r.status = "claimed"
    BY <1>8 DEF IsStarted, r
  <2> QED BY <1>1, <1>2, <2>1, <2>2 DEF Kept, Leased, Unclaimed, n
<1>9. CASE IsTimed(t)
  <2>1. PICK k \in 0 .. LeaseTicks : row'[t] = WithLease(r, k)
    BY <1>9 DEF IsTimed, r
  <2>2. /\ row'[t].status = r.status /\ row'[t].attempt = r.attempt
        /\ row'[t].generation = r.generation /\ row'[t].effect = r.effect
        /\ row'[t].owner = r.owner /\ row'[t].lease = k
    BY <1>1, <2>1, WithLeaseRow
  <2>3. r.status \in Leased /\ k # NoLease
    BY <1>9, LeaseAssumption DEF IsTimed, NoLease, r
  <2> QED BY <1>1, <1>2, <2>2, <2>3 DEF Kept, n
<1>10. CASE IsMarked(t)
  <2>1. PICK e \in Effects : row'[t] = Marked(r, e)
    BY <1>10 DEF IsMarked, r
  <2>2. /\ row'[t].status = r.status /\ row'[t].attempt = r.attempt
        /\ row'[t].generation = r.generation
        /\ row'[t].owner = r.owner /\ row'[t].lease = r.lease
    BY <1>1, <2>1, MarkedRow
  <2>3. r.status \in Leased /\ r.status \notin Unclaimed \cup {"queued"}
    BY <1>10 DEF IsMarked, Leased, Unclaimed, r
  <2> QED BY <1>1, <1>2, <2>2, <2>3 DEF Kept, n
<1>11. CASE IsEnded(t)
  <2>1. PICK s \in Ends, e \in Effects : row'[t] = Marked(Transition(r, s), e)
    BY <1>11 DEF IsEnded, r
  <2>2. s \in Status /\ s \notin Leased \cup Unclaimed \cup {"queued"}
    BY <2>1 DEF Ends, Status, Terminal, Leased, Unclaimed
  <2>3. Transition(r, s) \in Row
    BY <1>1, <2>2, TransitionRow
  <2>4. Kept(Transition(r, s), n) /\ Transition(r, s).status = s
    BY <1>1, <1>3, <2>2, TransitionRow
  <2>5. LET q == Transition(r, s)
        IN  /\ row'[t].status = q.status /\ row'[t].attempt = q.attempt
            /\ row'[t].generation = q.generation
            /\ row'[t].owner = q.owner /\ row'[t].lease = q.lease
    BY <2>1, <2>3, MarkedRow
  <2> QED BY <2>2, <2>4, <2>5 DEF Kept, n
<1>12. CASE IsRequeued(t)
  <2>1. "queued" \in Status /\ "queued" \notin Leased \cup Unclaimed
    BY DEF Status, Leased, Unclaimed
  <2> QED BY <1>3, <1>12, <2>1 DEF IsRequeued, r, n
<1>13. CASE IsFlagged(t)
  <2>1. /\ row'[t].status = r.status /\ row'[t].attempt = r.attempt
        /\ row'[t].generation = r.generation /\ row'[t].effect = r.effect
        /\ row'[t].owner = r.owner /\ row'[t].lease = r.lease
    BY <1>1, <1>13, CancelRequestedRow DEF IsFlagged, r
  <2> QED BY <1>2, <2>1 DEF Kept, n
<1>14. CASE IsKept(t)
  BY <1>14 DEF IsKept
<1> QED
  BY <1>4, <1>5, <1>6, <1>7, <1>8, <1>9, <1>10, <1>11, <1>12, <1>13, <1>14 DEF Move

\* The dependency gate is kept, because a row that has ended is kept: the status
\* of a dependency that opened or closed the gate never changes again.
LEMMA GateStep ==
    ASSUME IInv, \A t \in Tasks : Move(t)
    PROVE  DependencyGate'
<1>1. TypeOK /\ \A t \in Tasks : Kept(row[t], MaxAttempts[t])
  BY IInvIsKept
<1> SUFFICES ASSUME NEW t \in Tasks
             PROVE  /\ row'[t].status = "queued" \/ row'[t].attempt > 0 =>
                           \A d \in row'[t].deps : row'[d].status = "succeeded"
                    /\ row'[t].status = "blocked" =>
                           \E d \in row'[t].deps : Doomed(row'[d].status)
  BY DEF DependencyGate
<1>2. row[t] \in Row /\ row[t].deps \subseteq Tasks /\ row[t].attempt \in Nat
  BY <1>1 DEF TypeOK, Row
<1>3. \A d \in Tasks : row[d].status \in Terminal => row'[d] = row[d]
  BY DoneIsKept DEF Done, IsKept
<1>4. row[t].status = "queued" \/ row[t].attempt > 0 =>
          \A d \in row[t].deps : row'[d].status = "succeeded"
  BY <1>2, <1>3 DEF IInv, DependencyGate, Terminal
<1>5. row[t].status = "blocked" => \E d \in row[t].deps : Doomed(row'[d].status)
  BY <1>2, <1>3 DEF IInv, DependencyGate, Terminal, Doomed
<1>6. row[t].status \in Leased => row[t].attempt > 0
  BY <1>1 DEF Kept
<1>7. ASSUME NEW s \in Status, row'[t] = Transition(row[t], s),
             s = "blocked" => \E d \in row[t].deps : Doomed(row'[d].status),
             s = "queued" \/ row[t].attempt > 0 =>
                 \A d \in row[t].deps : row'[d].status = "succeeded"
      PROVE  /\ row'[t].status = "queued" \/ row'[t].attempt > 0 =>
                    \A d \in row'[t].deps : row'[d].status = "succeeded"
             /\ row'[t].status = "blocked" =>
                    \E d \in row'[t].deps : Doomed(row'[d].status)
  BY <1>2, <1>7, TransitionRow
<1>8. {"queued", "blocked", "cancelled", "failed", "unknown_outcome"} \subseteq Status
  BY DEF Status, Terminal
<1>9. CASE IsCreated(t)
  <2>1. PICK D \in SUBSET Tasks :
            row'[t] = NewRow(IF D = {} THEN "queued" ELSE "waiting_dependency", D)
    BY <1>9 DEF IsCreated
  <2>2. {"queued", "waiting_dependency"} \subseteq Status
    BY DEF Status
  <2>3. /\ row'[t].deps = D /\ row'[t].attempt = 0
        /\ row'[t].status = IF D = {} THEN "queued" ELSE "waiting_dependency"
    BY <2>1, <2>2, NewRowRow
  <2> QED BY <2>3
<1>10. CASE IsReleased(t)
  BY <1>7, <1>8, <1>10 DEF IsReleased
<1>11. CASE IsBlocked(t)
  <2>1. row[t].attempt = 0
    BY <1>1, <1>11 DEF IsBlocked, Kept, Unclaimed
  <2> QED BY <1>7, <1>8, <1>11, <2>1 DEF IsBlocked
<1>12. CASE IsClaimed(t)
  <2>1. row'[t].deps = row[t].deps /\ row'[t].status = "claimed"
    BY <1>2, <1>12, ClaimedRow DEF IsClaimed
  <2> QED BY <1>4, <1>12, <2>1 DEF IsClaimed
<1>13. CASE IsStarted(t)
  <2>1. row'[t].deps = row[t].deps /\ row'[t].status = "running"
    BY <1>2, <1>13, StartedRow DEF IsStarted
  <2> QED BY <1>4, <1>6, <1>13, <2>1 DEF IsStarted, Leased
<1>14. CASE IsTimed(t) \/ IsMarked(t) \/ IsFlagged(t)
  <2>1. row[t].status \in Leased
    BY <1>14 DEF IsTimed, IsMarked, IsFlagged, Leased
  <2>2. row'[t].deps = row[t].deps /\ row'[t].status = row[t].status
    BY <1>2, <1>14, WithLeaseRow, MarkedRow, CancelRequestedRow
       DEF IsTimed, IsMarked, IsFlagged
  <2> QED BY <1>4, <1>6, <2>1, <2>2 DEF Leased
<1>15. CASE IsEnded(t)
  <2>1. PICK s \in Ends, e \in Effects : row'[t] = Marked(Transition(row[t], s), e)
    BY <1>15 DEF IsEnded
  <2>2. s \in Status /\ s # "blocked"
    BY <2>1 DEF Ends, Status, Terminal
  <2>3. row'[t].deps = row[t].deps /\ row'[t].status = s
    BY <1>2, <2>1, <2>2, TransitionRow, MarkedRow
  <2> QED BY <1>4, <1>6, <1>15, <2>2, <2>3 DEF IsEnded
<1>16. CASE IsRequeued(t) \/ IsAbandoned(t)
  <2>1. row[t].attempt > 0
    BY <1>6, <1>16 DEF IsRequeued, IsAbandoned
  <2> QED BY <1>4, <1>7, <1>8, <1>16, <2>1 DEF IsRequeued, IsAbandoned
<1>17. CASE IsCancelled(t)
  BY <1>4, <1>7, <1>8, <1>17 DEF IsCancelled
<1>18. CASE IsKept(t)
  BY <1>4, <1>5, <1>18 DEF IsKept
<1> QED
  BY <1>9, <1>10, <1>11, <1>12, <1>13, <1>14, <1>15, <1>16, <1>17, <1>18 DEF Move

\* The invariant is inductive.
LEMMA NextIInv ==
    ASSUME IInv, [Next]_storeVars
    PROVE  IInv'
<1>1. TypeOK /\ LeaseDiscipline /\ \A t \in Tasks : Kept(row[t], MaxAttempts[t])
  BY IInvIsKept DEF IInv
<1>2. \A t \in Tasks : Move(t)
  BY <1>1, StepMoves
<1>3. TypeOK'
  <2>1. \A t \in Tasks : row'[t] \in Row
    BY <1>1, <1>2, MoveType
  <2> QED BY <1>1, <2>1, StepShape DEF TypeOK
<1>4. \A t \in Tasks : Kept(row'[t], MaxAttempts[t])
  BY <1>1, <1>2, MoveKept
<1>5. DependencyGate'
  BY <1>2, GateStep
<1>6. LeaseDiscipline' /\ BudgetKept' /\ QuarantineKept'
  BY <1>4 DEF Kept, LeaseDiscipline, BudgetKept, QuarantineKept
<1> QED BY <1>3, <1>5, <1>6 DEF IInv

-----------------------------------------------------------------------------
(* Theorems *)

\* Every reachable state of the store satisfies the inductive invariant.
THEOREM InductiveInvariant == Spec => []IInv
<1>1. Init => IInv
  BY InitIInv
<1>2. IInv /\ [Next]_storeVars => IInv'
  BY NextIInv
<1> QED BY <1>1, <1>2, PTL DEF Spec

\* The rows of the store and the insertion order always have their types.
THEOREM TypeCorrectness == Spec => []TypeOK
<1>1. IInv => TypeOK
  BY DEF IInv
<1> QED BY <1>1, InductiveInvariant, PTL

\* Leases and owners: exactly the claimed and running rows have them.
THEOREM LeaseSafety == Spec => []LeaseDiscipline
<1>1. IInv => LeaseDiscipline
  BY DEF IInv
<1> QED BY <1>1, InductiveInvariant, PTL

\* No task is claimed more often than max_attempts, whichever of retries, lease
\* recoveries and cancels happen, and a queued task can always be claimed once more.
THEOREM BudgetSafety == Spec => []BudgetKept
<1>1. IInv => BudgetKept
  BY DEF IInv
<1> QED BY <1>1, InductiveInvariant, PTL

\* No task is queued or attempted before every dependency has succeeded, for every
\* dependency graph the store accepts.
THEOREM DependencySafety == Spec => []DependencyGate
<1>1. IInv => DependencyGate
  BY DEF IInv
<1> QED BY <1>1, InductiveInvariant, PTL

\* A task whose attempt recorded a possible side effect is never queued again.
THEOREM QuarantineSafety == Spec => []QuarantineKept
<1>1. IInv => QuarantineKept
  BY DEF IInv
<1> QED BY <1>1, InductiveInvariant, PTL

\* All of that at once, as the runs state it: types, leases, budget, dependencies and
\* quarantine.
THEOREM RowsAreSound == Spec => []RowsSound
<1>1. IInv => RowsSound
  BY DEF IInv, RowsSound
<1> QED BY <1>1, InductiveInvariant, PTL

\* A row that has ended never changes again.
THEOREM TerminalRowsFinal == Spec => TerminalImmutable
<1>1. ASSUME IInv, [Next]_storeVars
      PROVE  [\A t \in Tasks : Done(t) => row'[t] = row[t]]_storeVars
  <2>1. \A t \in Tasks : Move(t)
    BY <1>1, StepMoves DEF IInv
  <2> QED BY <2>1, DoneIsKept DEF IsKept
<1> QED BY <1>1, InductiveInvariant, PTL DEF Spec, TerminalImmutable

\* What a move does to the lease, the owner and the counters of a row.
LEMMA MoveCounters ==
    ASSUME TypeOK, NEW t \in Tasks, Move(t)
    PROVE  /\ row'[t].generation >= row[t].generation \/ IsCreated(t)
           /\ row'[t].attempt > row[t].attempt => IsClaimed(t) \/ IsCreated(t)
           /\ row[t].lease = 0 /\ row[t].status \in Leased
                  => \/ row'[t].owner = NoWorker
                     \/ row'[t].lease = 0 /\ row'[t].status = row[t].status
<1>1. row[t] \in Row /\ row[t].generation \in Nat /\ row[t].attempt \in Nat
  BY DEF TypeOK, Row
<1>2. ASSUME NEW s \in Status, NEW q, q = Transition(row[t], s)
      PROVE  /\ q \in Row /\ q.owner = NoWorker
             /\ q.generation = row[t].generation /\ q.attempt = row[t].attempt
  BY <1>1, <1>2, TransitionRow
<1>3. CASE IsCreated(t)
  BY <1>3 DEF IsCreated, Leased
<1>4. CASE IsReleased(t) \/ IsBlocked(t) \/ IsRequeued(t) \/ IsCancelled(t) \/ IsAbandoned(t)
  <2>1. {"queued", "blocked", "cancelled", "failed", "unknown_outcome"} \subseteq Status
    BY DEF Status, Terminal
  <2>2. PICK s \in Status : row'[t] = Transition(row[t], s)
    BY <1>4, <2>1 DEF IsReleased, IsBlocked, IsRequeued, IsCancelled, IsAbandoned
  <2> QED BY <1>1, <1>2, <2>2
<1>5. CASE IsClaimed(t)
  <2>1. PICK w \in Workers : row'[t] = Claimed(row[t], w)
    BY <1>5 DEF IsClaimed
  <2>2. row'[t].generation >= row[t].generation
    BY <1>1, <2>1, ClaimedRow
  <2>3. row[t].status \notin Leased
    BY <1>5 DEF IsClaimed, Leased
  <2> QED BY <1>5, <2>2, <2>3
<1>6. CASE IsStarted(t)
  BY <1>1, <1>6, StartedRow DEF IsStarted
<1>7. CASE IsTimed(t) \/ IsMarked(t) \/ IsFlagged(t) \/ IsKept(t)
  <2>1. /\ row'[t].generation = row[t].generation /\ row'[t].attempt = row[t].attempt
        /\ row'[t].status = row[t].status
        /\ row[t].lease = 0 => row'[t].lease = 0
    BY <1>1, <1>7, WithLeaseRow, MarkedRow, CancelRequestedRow
       DEF IsTimed, IsMarked, IsFlagged, IsKept
  <2> QED BY <1>1, <2>1
<1>8. CASE IsEnded(t)
  <2>1. PICK s \in Ends, e \in Effects : row'[t] = Marked(Transition(row[t], s), e)
    BY <1>8 DEF IsEnded
  <2>2. s \in Status
    BY <2>1 DEF Ends, Status, Terminal
  <2>3. /\ row'[t].generation = row[t].generation /\ row'[t].attempt = row[t].attempt
        /\ row'[t].owner = NoWorker
    BY <1>2, <2>1, <2>2, MarkedRow
  <2> QED BY <1>1, <2>3
<1> QED
  BY <1>3, <1>4, <1>5, <1>6, <1>7, <1>8 DEF Move

\* An expired lease is never revived by its owner, and no step takes a fencing
\* generation back.
THEOREM ExpiredLeasesStayExpired == Spec => NoLeaseRevival
<1>1. ASSUME IInv, [Next]_storeVars
      PROVE  [\A t \in Tasks :
                 /\ row'[t].generation >= row[t].generation
                 /\ Expired(t) /\ row'[t].owner = row[t].owner =>
                        row'[t].lease = 0 /\ row'[t].status = row[t].status]_storeVars
  <2> SUFFICES ASSUME NEW t \in Tasks
               PROVE  /\ row'[t].generation >= row[t].generation
                      /\ Expired(t) /\ row'[t].owner = row[t].owner =>
                             row'[t].lease = 0 /\ row'[t].status = row[t].status
    OBVIOUS
  <2>1. Move(t) /\ TypeOK /\ LeaseDiscipline
    BY <1>1, StepMoves DEF IInv
  <2>2. ASSUME IsCreated(t) PROVE row'[t].generation >= row[t].generation
    <3>1. row[t].generation <= 0 /\ row[t].generation \in Nat
      BY <1>1, <2>2 DEF IInv, BudgetKept, IsCreated, Unclaimed, TypeOK, Row
    <3>2. row'[t].generation \in Nat
      BY <2>1, MoveType DEF Row
    <3> QED BY <3>1, <3>2
  <2> QED BY <2>1, <2>2, MoveCounters DEF Expired, LeaseDiscipline
<1> QED BY <1>1, InductiveInvariant, PTL DEF Spec, NoLeaseRevival

\* If every supervisor is built on the fenced store, each claim of a task takes a
\* larger fencing generation than every claim before it.
THEOREM FencedClaimsAdvance ==
    ASSUME FencedWorkers = Workers
    PROVE  Spec => ClaimAdvancesGeneration
<1>1. ASSUME IInv, [Next]_storeVars
      PROVE  [\A t \in Tasks : row'[t].attempt > row[t].attempt =>
                 row'[t].generation > row[t].generation]_storeVars
  <2> SUFFICES ASSUME NEW t \in Tasks, row'[t].attempt > row[t].attempt
               PROVE  row'[t].generation > row[t].generation
    OBVIOUS
  <2>1. Move(t) /\ TypeOK
    BY <1>1, StepMoves DEF IInv
  <2>2. IInv'
    BY <1>1, NextIInv
  <2>3. /\ row'[t].generation = row'[t].attempt
        /\ row[t].generation = row[t].attempt
    BY <1>1, <2>2 DEF IInv, BudgetKept
  <2> QED BY <2>3
<1> QED BY <1>1, InductiveInvariant, PTL DEF Spec, ClaimAdvancesGeneration

-----------------------------------------------------------------------------
(* The store implements TaskLifecycle *)

\* The phase of each status.
LEMMA PhaseOfStatus ==
    /\ Phase("absent") = "absent" /\ Phase("succeeded") = "succeeded"
    /\ Phase("created") = "waiting" /\ Phase("waiting_dependency") = "waiting"
    /\ Phase("queued") = "ready" /\ \A s \in Leased : Phase(s) = "leased"
    /\ \A s \in Terminal \ {"succeeded"} : Phase(s) = "ended"
  BY DEF Phase, Leased, Terminal

\* Every move of a row is a legal step of its lifecycle, or a rest.
LEMMA MoveRefines ==
    ASSUME IInv, IInv', \A u \in Tasks : Move(u), NEW t \in Tasks
    PROVE  \/ Lifecycle!Submit(t) \/ Lifecycle!Release(t) \/ Lifecycle!Lease(t)
           \/ Lifecycle!GiveBack(t) \/ Lifecycle!Finish(t) \/ Lifecycle!End(t)
           \/ Lifecycle!Rest(t)
<1> DEFINE ph == [u \in Tasks |-> Phase(row[u].status)]
           sp == [u \in Tasks |-> row[u].attempt]
           nd == [u \in Tasks |-> row[u].deps]
<1>1. /\ row[t] \in Row /\ row[t].deps \subseteq Tasks /\ row[t].attempt \in Nat
      /\ row'[t] \in Row /\ row'[t].deps \subseteq Tasks
  BY DEF IInv, TypeOK, Row
<1>2. /\ ph[t] = Phase(row[t].status) /\ sp[t] = row[t].attempt /\ nd[t] = row[t].deps
      /\ ph'[t] = Phase(row'[t].status) /\ sp'[t] = row'[t].attempt
      /\ nd'[t] = row'[t].deps
      /\ \A d \in Tasks : ph[d] = Phase(row[d].status) /\ ph'[d] = Phase(row'[d].status)
  OBVIOUS
<1> HIDE DEF ph, sp, nd
<1>3. Move(t)
  OBVIOUS
<1>4. ASSUME NEW s \in Status, row'[t] = Transition(row[t], s)
      PROVE  ph'[t] = Phase(s) /\ sp'[t] = sp[t] /\ nd'[t] = nd[t]
  BY <1>1, <1>2, <1>4, TransitionRow
<1>5. {"queued", "blocked", "cancelled", "failed", "unknown_outcome"} \subseteq Status
  BY DEF Status, Terminal
<1>6. CASE IsCreated(t)
  <2>1. PICK D \in SUBSET Tasks :
            /\ row[t].status = "absent"
            /\ \A d \in D : d # t /\ row[d].status # "absent"
            /\ row'[t] = NewRow(IF D = {} THEN "queued" ELSE "waiting_dependency", D)
    BY <1>6 DEF IsCreated
  <2>2. {"queued", "waiting_dependency"} \subseteq Status
    BY DEF Status
  <2>3. /\ row'[t].deps = D /\ row'[t].attempt = 0
        /\ row'[t].status = IF D = {} THEN "queued" ELSE "waiting_dependency"
    BY <2>1, <2>2, NewRowRow
  <2>4. row[t].attempt = 0
    BY <2>1 DEF IInv, BudgetKept, Unclaimed
  <2>5. \A d \in D : ph[d] # "absent"
    <3> SUFFICES ASSUME NEW d \in D PROVE ph[d] # "absent"
      OBVIOUS
    <3>1. row[d].status \in Status
      BY <2>1 DEF IInv, TypeOK, Row
    <3> QED BY <1>2, <3>1 DEF Phase, Status, Terminal, Leased
  <2>6. ph[t] = "absent" /\ ph'[t] = IF D = {} THEN "ready" ELSE "waiting"
    BY <1>2, <2>1, <2>3, PhaseOfStatus
  <2>7. sp'[t] = sp[t] /\ nd'[t] = D
    BY <1>2, <2>3, <2>4
  <2> QED BY <2>1, <2>5, <2>6, <2>7 DEF Lifecycle!Submit, Lifecycle!Satisfied, ph, sp, nd
<1>7. CASE IsReleased(t)
  <2>1. ph[t] = "waiting" /\ ph'[t] = "ready" /\ sp'[t] = sp[t] /\ nd'[t] = nd[t]
    BY <1>2, <1>4, <1>5, <1>7, PhaseOfStatus DEF IsReleased
  <2>2. \A d \in nd'[t] : ph'[d] = "succeeded"
    BY <1>1, <1>2, <1>7, <2>1, PhaseOfStatus DEF IsReleased
  <2> QED BY <2>1, <2>2 DEF Lifecycle!Release, Lifecycle!Moves, Lifecycle!Keeps,
                            Lifecycle!Satisfied, ph, sp, nd
<1>8. CASE IsBlocked(t) \/ IsCancelled(t) \/ IsAbandoned(t)
  <2>1. ph[t] \in {"waiting", "ready", "leased"}
    BY <1>2, <1>8, PhaseOfStatus DEF IsBlocked, IsCancelled, IsAbandoned, Leased
  <2>2. PICK s \in {"blocked", "cancelled", "failed", "unknown_outcome"} :
            row'[t] = Transition(row[t], s)
    BY <1>8 DEF IsBlocked, IsCancelled, IsAbandoned
  <2>3. s \in Status /\ Phase(s) = "ended"
    BY <1>5, <2>2, PhaseOfStatus DEF Terminal
  <2>4. ph'[t] = "ended" /\ sp'[t] = sp[t] /\ nd'[t] = nd[t]
    BY <1>4, <2>2, <2>3
  <2> QED BY <2>1, <2>4 DEF Lifecycle!End, Lifecycle!Moves, Lifecycle!Keeps, ph, sp, nd
<1>9. CASE IsClaimed(t)
  <2>1. /\ row'[t].status = "claimed" /\ row'[t].attempt = row[t].attempt + 1
        /\ row'[t].deps = row[t].deps
    BY <1>1, <1>9, ClaimedRow DEF IsClaimed
  <2>2. ph[t] = "ready" /\ ph'[t] = "leased" /\ sp'[t] = sp[t] + 1 /\ nd'[t] = nd[t]
    BY <1>2, <1>9, <2>1, PhaseOfStatus DEF IsClaimed, Leased
  <2>3. sp[t] < MaxAttempts[t]
    BY <1>2, <1>9 DEF IsClaimed
  <2> QED BY <2>2, <2>3 DEF Lifecycle!Lease, Lifecycle!Moves, ph, sp, nd
<1>10. CASE IsStarted(t) \/ IsTimed(t) \/ IsMarked(t) \/ IsFlagged(t) \/ IsKept(t)
  <2>1. /\ row'[t].status = row[t].status \/ {row[t].status, row'[t].status} \subseteq Leased
        /\ row'[t].attempt = row[t].attempt
        /\ row'[t].deps = row[t].deps
    BY <1>1, <1>10, StartedRow, WithLeaseRow, MarkedRow, CancelRequestedRow
       DEF IsStarted, IsTimed, IsMarked, IsFlagged, IsKept, Leased
  <2>2. ph'[t] = ph[t] /\ sp'[t] = sp[t] /\ nd'[t] = nd[t]
    BY <1>2, <2>1, PhaseOfStatus
  <2> QED BY <2>2 DEF Lifecycle!Rest, Lifecycle!Moves, Lifecycle!Keeps, ph, sp, nd
<1>11. CASE IsEnded(t)
  <2>1. PICK s \in Ends, e \in Effects : row'[t] = Marked(Transition(row[t], s), e)
    BY <1>11 DEF IsEnded
  <2>2. s \in Status /\ s \in Terminal
    BY <2>1 DEF Ends, Status, Terminal
  <2>3. /\ row'[t].status = s /\ row'[t].attempt = row[t].attempt
        /\ row'[t].deps = row[t].deps
    BY <1>1, <2>1, <2>2, TransitionRow, MarkedRow
  <2>4. ph[t] = "leased" /\ ph'[t] \in {"succeeded", "ended"}
    BY <1>2, <1>11, <2>2, <2>3, PhaseOfStatus DEF IsEnded
  <2>5. sp'[t] = sp[t] /\ nd'[t] = nd[t]
    BY <1>2, <2>3
  <2> QED BY <2>4, <2>5 DEF Lifecycle!Finish, Lifecycle!End, Lifecycle!Moves,
                            Lifecycle!Keeps, ph, sp, nd
<1>12. CASE IsRequeued(t)
  <2>1. ph[t] = "leased" /\ ph'[t] = "ready" /\ sp'[t] = sp[t] /\ nd'[t] = nd[t]
    BY <1>2, <1>4, <1>5, <1>12, PhaseOfStatus DEF IsRequeued
  <2>2. sp[t] < MaxAttempts[t]
    BY <1>2, <1>12 DEF IsRequeued
  <2> QED BY <2>1, <2>2 DEF Lifecycle!GiveBack, Lifecycle!Moves, Lifecycle!Keeps,
                            ph, sp, nd
<1> QED
  BY <1>3, <1>6, <1>7, <1>8, <1>9, <1>10, <1>11, <1>12 DEF Move

\* The store implements the lifecycle its callers rely on: every transaction of
\* the store lets each task take one legal step or none.
THEOREM StoreImplementsLifecycle == Spec => ImplementsLifecycle
<1>1. Init => Lifecycle!Init
  BY NewRowRow, PhaseOfStatus DEF Init, Lifecycle!Init
<1>2. IInv /\ [Next]_storeVars => [Lifecycle!Next]_(Lifecycle!lifecycleVars)
  <2> SUFFICES ASSUME IInv, [Next]_storeVars
               PROVE  Lifecycle!Next
    OBVIOUS
  <2>1. \A t \in Tasks : Move(t)
    BY StepMoves DEF IInv
  <2>2. IInv'
    BY NextIInv
  <2> QED BY <2>1, <2>2, MoveRefines DEF Lifecycle!Next
<1> QED BY <1>1, <1>2, InductiveInvariant, PTL DEF Spec, ImplementsLifecycle, Lifecycle!Spec

-----------------------------------------------------------------------------
(* The supervisor: what a runner has read *)

\* What a runner has read of its task is at most as new as the row, and as long as
\* the version is the same the attempt is.
Reads(v, a, r) ==
    r.status # "absent" /\ v <= r.version /\ (v = r.version => a = r.attempt)
ReadsAreOld ==
    \A r \in Runners : runner[r] # Idle =>
        Reads(runner[r].version, runner[r].attempt, row[runner[r].task])

SupIInv == IInv /\ SupTypeOK /\ ReadsAreOld

-----------------------------------------------------------------------------
(* Use of the store *)

\* A call under a version and a generation that pass the lease check is a call the
\* store expects of the worker; an unfenced worker presents any generation.
LEMMA OwnerCalls ==
    ASSUME TypeOK, NEW t \in Tasks, NEW w \in Workers, NEW v \in Nat, NEW g \in Nat,
           \/ StartTask(t, w, v, g)
           \/ Heartbeat(t, w, v, g)
           \/ \E s \in Terminal, e \in Effects : CompleteTask(t, w, v, g, s, e)
           \/ RequeueTask(t, w, v, g)
    PROVE  OwnerCall(t, w)
<1> DEFINE h == IF w \in FencedWorkers THEN g ELSE row[t].generation
<1>1. FencedOwner(t, w, v, g)
  BY DEF StartTask, Heartbeat, CompleteTask, RequeueTask
<1>2. row[t].version \in Nat /\ row[t].generation \in Nat
  BY DEF TypeOK, Row
<1>3. v \in 0 .. row[t].version /\ h \in 0 .. row[t].generation
  BY <1>1, <1>2 DEF FencedOwner
<1>4. FencedOwner(t, w, v, h)
  BY <1>1 DEF FencedOwner
<1> HIDE DEF h
<1>5. CASE StartTask(t, w, v, g)
  <2>1. StartTask(t, w, v, h)
    BY <1>4, <1>5 DEF StartTask
  <2> QED BY <1>3, <2>1 DEF OwnerCall
<1>6. CASE Heartbeat(t, w, v, g)
  <2>1. Heartbeat(t, w, v, h)
    BY <1>4, <1>6 DEF Heartbeat
  <2> QED BY <1>3, <2>1 DEF OwnerCall
<1>7. CASE \E s \in Terminal, e \in Effects : CompleteTask(t, w, v, g, s, e)
  <2>1. \E s \in Terminal, e \in Effects : CompleteTask(t, w, v, h, s, e)
    BY <1>4, <1>7 DEF CompleteTask
  <2> QED BY <1>3, <2>1 DEF OwnerCall
<1>8. CASE RequeueTask(t, w, v, g)
  <2>1. RequeueTask(t, w, v, h)
    BY <1>4, <1>8 DEF RequeueTask
  <2> QED BY <1>3, <2>1 DEF OwnerCall
<1> QED BY <1>5, <1>6, <1>7, <1>8

\* A busy runner has a task, a worker and numbers it has read.
LEMMA BusyRunner ==
    ASSUME SupTypeOK, NEW r \in Runners, runner[r].pc # "idle"
    PROVE  /\ runner[r] \in Runner
           /\ TaskOf(r) \in Tasks
           /\ Worker(r) \in Workers
           /\ ProcOf[r] \in Procs
           /\ runner[r].version \in Nat
           /\ runner[r].generation \in Nat
           /\ runner[r].attempt \in Nat
           /\ runner[r].effect \in Effects
<1>1. runner[r] \in Runner
  BY DEF SupTypeOK, Idle
<1>2. ProcOf[r] \in Procs /\ WorkerOf[ProcOf[r]] \in Workers
  BY SupervisorAssumption
<1> QED BY <1>1, <1>2 DEF Runner, TaskOf, Worker

\* Every step of the supervisor is a step of the store or leaves it alone.
LEMMA SupStepIsStoreStep ==
    ASSUME TypeOK, SupTypeOK, [SupNext]_allVars
    PROVE  [Next]_storeVars
<1>1. CASE UNCHANGED storeVars
  BY <1>1
<1>2. CASE \E t \in Tasks, D \in SUBSET Tasks : CreateTask(t, D)
  BY <1>2 DEF Next
<1>3. CASE RefreshDependencies \/ RecoverExpiredLeases \/ Tick
  BY <1>3 DEF Next
<1>4. CASE \E t \in Tasks, w \in Workers : ClaimNext(t, w)
  BY <1>4 DEF Next
<1>5. CASE \E t \in Tasks : RequestCancel(t)
  BY <1>5 DEF Next
<1>6. CASE \E t \in Tasks, w \in Workers : OwnerCall(t, w)
  BY <1>6 DEF Next
<1>7. ASSUME NEW p \in Procs,
             \/ StartSupervisor(p) \/ RecoverAtStart(p) \/ Refresh(p) \/ ClaimNothing(p)
             \/ \E r \in Runners, t \in Tasks : Claim(p, r, t)
             \/ Stop(p) \/ Halt(p) \/ Crash(p)
             \/ \E t \in Tasks : CancelOnStop(p, t)
      PROVE  [Next]_storeVars
  <2>1. WorkerOf[p] \in Workers
    BY SupervisorAssumption
  <2> QED
    BY <1>1, <1>3, <1>4, <1>5, <1>7, <2>1
    DEF StartSupervisor, RecoverAtStart, Refresh, ClaimNothing, Claim, Stop, Halt, Crash,
        CancelOnStop, storeVars
<1>8. ASSUME NEW r \in Runners,
             \/ Start(r) \/ Beat(r) \/ Acquire(r) \/ RunnerEnds(r)
             \/ ReadBack(r) \/ Complete(r) \/ Requeue(r)
      PROVE  [Next]_storeVars
  <2>1. CASE Start(r)
    <3>1. runner[r].pc # "idle"
      BY <2>1 DEF Start
    <3>2. CASE UNCHANGED storeVars
      BY <1>1, <3>2
    <3>3. CASE StartTask(TaskOf(r), Worker(r), runner[r].version, runner[r].generation)
      BY <1>6, <3>1, <3>3, BusyRunner, OwnerCalls
    <3> QED BY <2>1, <3>2, <3>3 DEF Start
  <2>2. CASE Beat(r)
    <3>1. runner[r].pc # "idle"
      BY <2>2 DEF Beat
    <3>2. Heartbeat(TaskOf(r), Worker(r), runner[r].version, runner[r].generation)
      BY <2>2 DEF Beat
    <3> QED BY <1>6, <3>1, <3>2, BusyRunner, OwnerCalls
  <2>3. CASE Complete(r)
    <3>1. runner[r].pc # "idle" /\ runner[r].pc \in Recording
      BY <2>3 DEF Complete, Recording
    <3>2. runner[r].status \in Terminal
      BY <3>1 DEF SupTypeOK, HasVerdict
    <3>3. CASE UNCHANGED storeVars
      BY <1>1, <3>3
    <3>4. CASE CompleteTask(TaskOf(r), Worker(r), runner[r].version, runner[r].generation,
                            runner[r].status, runner[r].effect)
      <4>1. runner[r].effect \in Effects
        BY <3>1, BusyRunner
      <4>2. \E s \in Terminal, e \in Effects :
                CompleteTask(TaskOf(r), Worker(r), runner[r].version,
                             runner[r].generation, s, e)
        BY <3>2, <3>4, <4>1
      <4> QED BY <1>6, <3>1, <4>2, BusyRunner, OwnerCalls
    <3> QED BY <2>3, <3>3, <3>4 DEF Complete
  <2>4. CASE Requeue(r)
    <3>1. runner[r].pc # "idle"
      BY <2>4 DEF Requeue
    <3>2. CASE UNCHANGED storeVars
      BY <1>1, <3>2
    <3>3. CASE RequeueTask(TaskOf(r), Worker(r), runner[r].version, runner[r].generation)
      BY <1>6, <3>1, <3>3, BusyRunner, OwnerCalls
    <3> QED BY <2>4, <3>2, <3>3 DEF Requeue
  <2>5. CASE Acquire(r) \/ RunnerEnds(r) \/ ReadBack(r)
    BY <1>1, <2>5 DEF Acquire, RunnerEnds, Return, Raise, TimeOut, ReadBack, storeVars
  <2> QED BY <1>8, <2>1, <2>2, <2>3, <2>4, <2>5
<1>9. ASSUME NEW th \in threads, WriteFiles(th) \/ ThreadEnds(th)
      PROVE  [Next]_storeVars
  BY <1>1, <1>9 DEF WriteFiles, ThreadEnds, storeVars
<1>10. ASSUME NEW t \in Tasks, ClientCancel(t) \/ \E D \in SUBSET Tasks : Submit(t, D)
       PROVE  [Next]_storeVars
  BY <1>2, <1>5, <1>10 DEF ClientCancel, Submit
<1>11. CASE TimePasses
  BY <1>3, <1>11 DEF TimePasses
<1>12. CASE UNCHANGED allVars
  BY <1>1, <1>12 DEF allVars, storeVars
<1> QED BY <1>7, <1>8, <1>9, <1>10, <1>11, <1>12 DEF SupNext

-----------------------------------------------------------------------------
(* Types *)

RunnersOK == runner \in [Runners -> Runner \cup {Idle}] /\ \A r \in Runners : HasVerdict(r)
ProcsOK ==
    proc \in [Procs -> [pc : {"down", "starting", "poll", "claim", "stopping"},
                       list : SUBSET Tasks]]
ThreadsOK == threads \subseteq Procs \X Tasks \X Nat /\ wrote \subseteq Tasks \X Nat

\* A busy runner that goes on, with a verdict where it needs one, keeps the types.
LEMMA GotoOK ==
    ASSUME SupTypeOK, NEW r \in Runners, NEW new \in Runner,
           new.pc \in {"returned"} \cup Recording => new.status \in Terminal,
           runner' = [runner EXCEPT ![r] = new]
    PROVE  RunnersOK'
<1>1. runner \in [Runners -> Runner \cup {Idle}] /\ \A q \in Runners : HasVerdict(q)
  BY DEF SupTypeOK
<1>2. runner' \in [Runners -> Runner \cup {Idle}]
  BY <1>1
<1>3. \A q \in Runners : runner'[q] = IF q = r THEN new ELSE runner[q]
  BY <1>1
<1>4. \A q \in Runners : HasVerdict(q)'
  BY <1>1, <1>3 DEF HasVerdict
<1> QED BY <1>2, <1>4 DEF RunnersOK

\* Runners that leave, one or several, keep the types of the others.
LEMMA LeaveOK ==
    ASSUME SupTypeOK, NEW L \in SUBSET Runners,
           runner' = [q \in Runners |-> IF q \in L THEN Idle ELSE runner[q]]
    PROVE  RunnersOK'
<1>1. runner \in [Runners -> Runner \cup {Idle}] /\ \A q \in Runners : HasVerdict(q)
  BY DEF SupTypeOK
<1>2. runner' \in [Runners -> Runner \cup {Idle}]
  BY <1>1
<1>3. Idle.pc = "idle" /\ "idle" \notin {"returned"} \cup Recording
  BY DEF Idle, Recording
<1>4. \A q \in Runners : HasVerdict(q)'
  BY <1>1, <1>3 DEF HasVerdict
<1> QED BY <1>2, <1>4 DEF RunnersOK

\* What the helpers of a busy runner do to it, written out.
LEMMA HelpersOK ==
    ASSUME SupTypeOK, NEW r \in Runners, runner[r].pc # "idle"
    PROVE  /\ \A pc \in {"waiting", "executing", "raised", "timed_out", "requeueing"} :
                  Goto(r, pc) => RunnersOK'
           /\ \A pc \in {"returned"} \cup Recording, s \in Terminal, e \in Effects :
                  Decide(r, pc, s, e) => RunnersOK'
           /\ Leave(r) => RunnersOK'
<1>1. runner[r] \in Runner /\ runner \in [Runners -> Runner \cup {Idle}]
  BY BusyRunner DEF SupTypeOK
<1>2. ASSUME NEW pc \in {"waiting", "executing", "raised", "timed_out", "requeueing"},
             Goto(r, pc)
      PROVE  RunnersOK'
  <2> DEFINE new == [runner[r] EXCEPT !.pc = pc]
  <2>1. new \in Runner /\ new.pc = pc
    BY <1>1 DEF Runner
  <2>2. pc \notin {"returned"} \cup Recording
    BY <1>2 DEF Recording
  <2>3. runner' = [runner EXCEPT ![r] = new]
    BY <1>1, <1>2 DEF Goto
  <2> HIDE DEF new
  <2> QED BY <2>1, <2>2, <2>3, GotoOK
<1>3. ASSUME NEW pc \in {"returned"} \cup Recording, NEW s \in Terminal, NEW e \in Effects,
             Decide(r, pc, s, e)
      PROVE  RunnersOK'
  <2> DEFINE new == [runner[r] EXCEPT !.pc = pc, !.status = s, !.effect = e]
  <2>1. new \in Runner /\ new.status = s
    BY <1>1 DEF Runner
  <2>2. runner' = [runner EXCEPT ![r] = new]
    BY <1>1, <1>3 DEF Decide, Runner
  <2> HIDE DEF new
  <2> QED BY <2>1, <2>2, GotoOK
<1>4. ASSUME Leave(r)
      PROVE  RunnersOK'
  <2>1. runner' = [q \in Runners |-> IF q \in {r} THEN Idle ELSE runner[q]]
    BY <1>1, <1>4 DEF Leave
  <2> QED BY <2>1, LeaveOK
<1> QED BY <1>2, <1>3, <1>4

CrashesOK == crashes \in 0 .. MaxCrashes

\* A step of a main loop keeps the types.
LEMMA LoopTypes ==
    ASSUME TypeOK', SupTypeOK, NEW p \in Procs,
           \/ StartSupervisor(p) \/ RecoverAtStart(p) \/ Refresh(p) \/ ClaimNothing(p)
           \/ \E r \in Runners, t \in Tasks : Claim(p, r, t)
           \/ Stop(p) \/ Halt(p) \/ Crash(p)
           \/ \E t \in Tasks : CancelOnStop(p, t)
    PROVE  RunnersOK' /\ ProcsOK' /\ ThreadsOK' /\ CrashesOK'
<1>1. RunnersOK /\ ProcsOK /\ ThreadsOK /\ CrashesOK
  BY DEF SupTypeOK, RunnersOK, ProcsOK, ThreadsOK, CrashesOK
<1>2. UNCHANGED runner => RunnersOK'
  BY <1>1 DEF RunnersOK, HasVerdict
<1>3. \A pc \in {"down", "starting", "poll", "claim"} : Enter(p, pc) => ProcsOK'
  BY <1>1 DEF Enter, Loop, ProcsOK
<1>4. UNCHANGED <<threads, wrote>> => ThreadsOK'
  BY <1>1 DEF ThreadsOK
<1>5. UNCHANGED crashes => CrashesOK'
  BY <1>1 DEF CrashesOK
<1>6. CASE StartSupervisor(p) \/ RecoverAtStart(p) \/ Refresh(p) \/ ClaimNothing(p)
  BY <1>2, <1>3, <1>4, <1>5, <1>6
  DEF StartSupervisor, RecoverAtStart, Refresh, ClaimNothing
<1>7. CASE \E r \in Runners, t \in Tasks : Claim(p, r, t)
  <2>1. PICK r \in Runners, t \in Tasks : Claim(p, r, t)
    BY <1>7
  <2> DEFINE new == [pc |-> "claimed", task |-> t, attempt |-> row'[t].attempt,
                     version |-> row'[t].version, generation |-> row'[t].generation,
                     status |-> "none", effect |-> "none"]
  <2>2. row'[t].attempt \in Nat /\ row'[t].version \in Nat /\ row'[t].generation \in Nat
    BY DEF TypeOK, Row
  <2>3. new \in Runner /\ new.pc = "claimed"
    BY <2>2 DEF Runner, Effects
  <2>4. runner' = [runner EXCEPT ![r] = new]
    BY <2>1 DEF Claim
  <2> HIDE DEF new
  <2>5. RunnersOK'
    BY <2>3, <2>4, GotoOK DEF Recording
  <2> QED BY <1>3, <1>4, <1>5, <2>1, <2>5 DEF Claim
<1>8. CASE Stop(p)
  <2>1. ProcsOK'
    BY <1>1, <1>8 DEF Stop, ProcsOK
  <2>2. CrashesOK'
    BY <1>1, <1>8, SupervisorAssumption DEF Stop, CrashesOK
  <2> QED BY <1>2, <1>4, <1>8, <2>1, <2>2 DEF Stop
<1>9. ASSUME runner' = [r \in Runners |-> IF ProcOf[r] = p THEN Idle ELSE runner[r]]
      PROVE  RunnersOK'
  <2>1. runner' = [q \in Runners |-> IF q \in RunnersOf(p) THEN Idle ELSE runner[q]]
    BY <1>9 DEF RunnersOf
  <2>2. RunnersOf(p) \in SUBSET Runners
    BY DEF RunnersOf
  <2> QED BY <2>1, <2>2, LeaveOK
<1>10. CASE Halt(p)
  BY <1>3, <1>4, <1>5, <1>9, <1>10 DEF Halt
<1>11. CASE Crash(p)
  <2>1. ThreadsOK'
    BY <1>1, <1>11 DEF Crash, ThreadsOK
  <2>2. CrashesOK'
    BY <1>1, <1>11, SupervisorAssumption DEF Crash, CrashesOK
  <2> QED BY <1>3, <1>9, <1>11, <2>1, <2>2 DEF Crash
<1>12. CASE \E t \in Tasks : CancelOnStop(p, t)
  <2>1. PICK t \in Tasks : proc' = [proc EXCEPT ![p].list = @ \ {t}]
    BY <1>12 DEF CancelOnStop
  <2>2. ProcsOK'
    BY <1>1, <2>1 DEF ProcsOK
  <2> QED BY <1>2, <1>4, <1>5, <1>12, <2>2 DEF CancelOnStop
<1> QED BY <1>6, <1>7, <1>8, <1>10, <1>11, <1>12

\* A step of a runner keeps the types.
LEMMA RunnerTypes ==
    ASSUME TypeOK, SupTypeOK, NEW r \in Runners,
           \/ Start(r) \/ Beat(r) \/ Acquire(r) \/ RunnerEnds(r)
           \/ ReadBack(r) \/ Complete(r) \/ Requeue(r)
    PROVE  RunnersOK' /\ ProcsOK' /\ ThreadsOK' /\ CrashesOK'
<1>1. RunnersOK /\ ProcsOK /\ ThreadsOK /\ CrashesOK
  BY DEF SupTypeOK, RunnersOK, ProcsOK, ThreadsOK, CrashesOK
<1>2. ProcsOK' /\ CrashesOK'
  BY <1>1
  DEF Start, Beat, Acquire, RunnerEnds, Return, Raise, TimeOut, ReadBack, Complete,
      Requeue, supVars, ProcsOK, CrashesOK
<1>3. UNCHANGED <<threads, wrote>> => ThreadsOK'
  BY <1>1 DEF ThreadsOK
<1>4. runner[r].pc # "idle" =>
        /\ Thread(r) \in Procs \X Tasks \X Nat
        /\ row[TaskOf(r)].effect \in Effects
        /\ runner[r].effect \in Effects
  <2>1. SUFFICES ASSUME runner[r].pc # "idle"
                 PROVE  /\ Thread(r) \in Procs \X Tasks \X Nat
                        /\ row[TaskOf(r)].effect \in Effects
                        /\ runner[r].effect \in Effects
    OBVIOUS
  <2>2. ProcOf[r] \in Procs /\ runner[r].task \in Tasks /\ runner[r].attempt \in Nat
    BY <2>1, BusyRunner DEF TaskOf
  <2>3. row[TaskOf(r)].effect \in Effects
    BY <2>2 DEF TypeOK, Row, TaskOf
  <2> QED BY <2>1, <2>2, <2>3, BusyRunner DEF Thread
<1>5. CASE Start(r)
  <2>1. runner[r].pc # "idle" /\ UNCHANGED <<threads, wrote>>
    BY <1>5 DEF Start
  <2>2. CASE Leave(r)
    BY <1>2, <1>3, <2>1, <2>2, HelpersOK
  <2>3. CASE runner' = [runner EXCEPT ![r].pc = "waiting", ![r].version = @ + 1]
    <3> DEFINE next == runner[r].version + 1
               new == [runner[r] EXCEPT !.pc = "waiting", !.version = next]
    <3>1. runner[r] \in Runner /\ runner \in [Runners -> Runner \cup {Idle}]
      BY <2>1, BusyRunner DEF SupTypeOK
    <3>2. next \in Nat
      BY <2>1, BusyRunner
    <3>3. runner' = [runner EXCEPT ![r] = new]
      BY <2>3, <3>1 DEF Runner
    <3> HIDE DEF next
    <3>4. new \in Runner /\ new.pc = "waiting"
      BY <3>1, <3>2 DEF Runner
    <3> HIDE DEF new
    <3>5. RunnersOK'
      BY <3>3, <3>4, GotoOK DEF Recording
    <3> QED BY <1>2, <1>3, <2>1, <3>5
  <2> QED BY <1>5, <2>2, <2>3 DEF Start
<1>6. CASE Beat(r)
  BY <1>1, <1>2, <1>3, <1>6 DEF Beat, supVars, RunnersOK, HasVerdict
<1>7. CASE Acquire(r)
  <2>1. runner[r].pc # "idle" /\ Goto(r, "executing")
    BY <1>7 DEF Acquire
  <2>2. ThreadsOK'
    BY <1>1, <1>4, <1>7, <2>1 DEF Acquire, ThreadsOK
  <2> QED BY <1>2, <2>1, <2>2, HelpersOK
<1>8. CASE Return(r)
  <2>1. runner[r].pc # "idle"
    BY <1>8 DEF Return
  <2>2. \E s \in Terminal, e \in Effects : Decide(r, "returned", s, e)
    BY <1>8, SupervisorAssumption DEF Return, Terminal, Effects
  <2>3. ThreadsOK'
    BY <1>1, <1>8 DEF Return, ThreadsOK
  <2> QED BY <1>2, <2>1, <2>2, <2>3, HelpersOK
<1>9. CASE Raise(r) \/ TimeOut(r)
  <2>1. runner[r].pc # "idle" /\ (Goto(r, "raised") \/ Goto(r, "timed_out"))
    BY <1>9 DEF Raise, TimeOut
  <2>2. ThreadsOK'
    BY <1>1, <1>9 DEF Raise, TimeOut, ThreadsOK
  <2> QED BY <1>2, <2>1, <2>2, HelpersOK
<1>10. CASE ReadBack(r)
  <2>1. runner[r].pc # "idle" /\ UNCHANGED <<threads, wrote>>
    BY <1>10 DEF ReadBack
  <2>2. runner[r].pc = "returned" => runner[r].status \in Terminal
    BY DEF SupTypeOK, HasVerdict
  <2>3. \/ Goto(r, "requeueing")
        \/ \E pc \in Recording, s \in Terminal, e \in Effects : Decide(r, pc, s, e)
    BY <1>4, <1>10, <2>1, <2>2 DEF ReadBack, Recording, Terminal
  <2> QED BY <1>2, <1>3, <2>1, <2>3, HelpersOK
<1>11. CASE Complete(r)
  <2>1. runner[r].pc # "idle" /\ UNCHANGED <<threads, wrote>>
    BY <1>11 DEF Complete, Recording
  <2>2. Leave(r) \/ Goto(r, "raised")
    BY <1>11 DEF Complete
  <2> QED BY <1>2, <1>3, <2>1, <2>2, HelpersOK
<1>12. CASE Requeue(r)
  <2>1. runner[r].pc # "idle" /\ Leave(r) /\ UNCHANGED <<threads, wrote>>
    BY <1>12 DEF Requeue
  <2> QED BY <1>2, <1>3, <2>1, HelpersOK
<1> QED BY <1>5, <1>6, <1>7, <1>8, <1>9, <1>10, <1>11, <1>12 DEF RunnerEnds

\* Every step of the supervisor keeps the types.
LEMMA SupTypes ==
    ASSUME TypeOK, TypeOK', SupTypeOK, [SupNext]_allVars
    PROVE  SupTypeOK'
<1>1. RunnersOK /\ ProcsOK /\ ThreadsOK /\ CrashesOK
  BY DEF SupTypeOK, RunnersOK, ProcsOK, ThreadsOK, CrashesOK
<1>2. CASE UNCHANGED supVars
  BY <1>2 DEF SupTypeOK, supVars, HasVerdict
<1>3. ASSUME NEW th \in threads, WriteFiles(th) \/ ThreadEnds(th)
      PROVE  RunnersOK' /\ ProcsOK' /\ ThreadsOK' /\ CrashesOK'
  <2>1. ThreadsOK'
    BY <1>1, <1>3 DEF WriteFiles, ThreadEnds, ThreadsOK
  <2> QED
    BY <1>1, <1>3, <2>1
    DEF WriteFiles, ThreadEnds, RunnersOK, HasVerdict, ProcsOK, CrashesOK
<1>4. CASE \/ \E t \in Tasks : ClientCancel(t) \/ \E D \in SUBSET Tasks : Submit(t, D)
           \/ TimePasses
           \/ UNCHANGED allVars
  BY <1>2, <1>4 DEF ClientCancel, Submit, TimePasses, allVars, supVars
<1>5. CASE RunnersOK' /\ ProcsOK' /\ ThreadsOK' /\ CrashesOK'
  BY <1>5 DEF SupTypeOK, RunnersOK, ProcsOK, ThreadsOK, CrashesOK
<1> QED BY <1>3, <1>4, <1>5, LoopTypes, RunnerTypes DEF SupNext

-----------------------------------------------------------------------------
(* What runners have read *)

\* Whatever a step does to a row, a reading of it stays old: the attempt changes only
\* together with the version, and the version only grows.
LEMMA MoveReads ==
    ASSUME NEW t \in Tasks, row[t] \in Row, Move(t), NEW v \in Nat, NEW a \in Nat,
           Reads(v, a, row[t])
    PROVE  Reads(v, a, row'[t])
<1>1. row[t].version \in Nat /\ row[t].attempt \in Nat
  BY DEF Row
<1>2. \A st \in Status :
        /\ Transition(row[t], st).status = st
        /\ Transition(row[t], st).version = row[t].version + 1
        /\ Transition(row[t], st).attempt = row[t].attempt
  BY DEF Transition, Row
<1>3. row[t].status # "absent"
  BY DEF Reads
<1>4. CASE IsKept(t)
  BY <1>4 DEF IsKept
<1>5. CASE IsFlagged(t) \/ IsMarked(t) \/ IsTimed(t)
  <2>1. /\ row'[t].status = row[t].status
        /\ row'[t].version = row[t].version
        /\ row'[t].attempt = row[t].attempt
    BY <1>5 DEF IsFlagged, IsMarked, IsTimed, CancelRequested, Marked, WithLease, Row
  <2> QED BY <2>1 DEF Reads
<1>6. CASE IsClaimed(t)
  <2>1. row'[t].status = "claimed" /\ row'[t].version = row[t].version + 1
    BY <1>6 DEF IsClaimed, Claimed, Row
  <2> QED BY <1>1, <2>1 DEF Reads
<1>7. CASE IsStarted(t)
  <2>1. row'[t].status = "running" /\ row'[t].version = row[t].version + 1
    BY <1>7 DEF IsStarted, Started, Row
  <2> QED BY <1>1, <2>1 DEF Reads
<1>8. ASSUME NEW st \in Status, row'[t].version = row[t].version + 1, row'[t].status = st
      PROVE  Reads(v, a, row'[t])
  <2>1. st # "absent"
    BY DEF Status, Terminal, Leased
  <2> QED BY <1>1, <1>8, <2>1 DEF Reads
<1>9. CASE IsReleased(t) \/ IsBlocked(t) \/ IsRequeued(t) \/ IsCancelled(t) \/ IsAbandoned(t)
  <2>1. PICK st \in Status : row'[t] = Transition(row[t], st)
    BY <1>9 DEF IsReleased, IsBlocked, IsRequeued, IsCancelled, IsAbandoned, Status, Terminal
  <2> QED BY <1>2, <1>8, <2>1
<1>10. CASE IsEnded(t)
  <2>1. PICK st \in Status, e \in Effects : row'[t] = Marked(Transition(row[t], st), e)
    BY <1>10 DEF IsEnded, Ends, Status, Terminal
  <2>2. row'[t].status = st /\ row'[t].version = row[t].version + 1
    BY <2>1 DEF Marked, Transition, Row
  <2> QED BY <1>8, <2>2
<1> QED
  BY <1>3, <1>4, <1>5, <1>6, <1>7, <1>9, <1>10 DEF Move, IsCreated

\* The readings of all runners stay old through every step.
KeepsReading(r) ==
    \/ runner'[r] = Idle
    \/ /\ runner[r] # Idle
       /\ runner'[r].task = runner[r].task
       /\ runner'[r].version = runner[r].version
       /\ runner'[r].attempt = runner[r].attempt

\* The helpers of a busy runner keep what it has read.
LEMMA HelpersKeep ==
    ASSUME SupTypeOK, NEW r \in Runners, runner[r].pc # "idle",
           NEW pc, NEW st, NEW e, Goto(r, pc) \/ Decide(r, pc, st, e) \/ Leave(r)
    PROVE  \A q \in Runners : KeepsReading(q)
<1>1. runner \in [Runners -> Runner \cup {Idle}] /\ runner[r] \in Runner
  BY BusyRunner DEF SupTypeOK
<1>2. runner[r] # Idle
  BY DEF Idle
<1>3. \A q \in Runners : q # r => runner'[q] = runner[q]
  BY <1>1 DEF Goto, Decide, Leave
<1>4. KeepsReading(r)
  BY <1>1, <1>2 DEF Goto, Decide, Leave, KeepsReading, Runner
<1> QED BY <1>1, <1>3, <1>4 DEF KeepsReading

\* Every step of the supervisor keeps the readings old.
LEMMA SupReads ==
    ASSUME SupIInv, IInv', SupTypeOK', [SupNext]_allVars
    PROVE  ReadsAreOld'
<1>1. /\ TypeOK /\ LeaseDiscipline /\ SupTypeOK
      /\ runner \in [Runners -> Runner \cup {Idle}]
  BY DEF SupIInv, IInv, SupTypeOK
<1>2. \A t \in Tasks : Move(t)
  <2>1. \A t \in Tasks : Kept(row[t], MaxAttempts[t])
    BY IInvIsKept DEF SupIInv, IInv
  <2>2. [Next]_storeVars
    BY <1>1, SupStepIsStoreStep
  <2> QED BY <1>1, <2>1, <2>2, StepMoves
<1>3. ASSUME NEW r \in Runners, runner[r] # Idle
      PROVE  Reads(runner[r].version, runner[r].attempt, row'[runner[r].task])
  <2>1. runner[r] \in Runner
    BY <1>1, <1>3
  <2>2. /\ runner[r].version \in Nat /\ runner[r].attempt \in Nat
        /\ runner[r].task \in Tasks
    BY <2>1 DEF Runner
  <2>3. row[runner[r].task] \in Row
    BY <1>1, <2>2 DEF TypeOK
  <2> QED BY <1>2, <1>3, <2>2, <2>3, MoveReads DEF SupIInv, ReadsAreOld
<1>4. CASE \A r \in Runners : KeepsReading(r)
  BY <1>3, <1>4 DEF KeepsReading, ReadsAreOld
<1>5. CASE UNCHANGED runner
  BY <1>3, <1>5 DEF ReadsAreOld
<1>6. ASSUME NEW p \in Procs,
             \/ StartSupervisor(p) \/ RecoverAtStart(p) \/ Refresh(p) \/ ClaimNothing(p)
             \/ \E r \in Runners, t \in Tasks : Claim(p, r, t)
             \/ Stop(p) \/ Halt(p) \/ Crash(p)
             \/ \E t \in Tasks : CancelOnStop(p, t)
      PROVE  ReadsAreOld'
  <2>1. CASE \E r \in Runners, t \in Tasks : Claim(p, r, t)
    <3>1. PICK r \in Runners, t \in Tasks : Claim(p, r, t)
      BY <2>1
    <3>2. /\ runner'[r].task = t
          /\ runner'[r].version = row'[t].version
          /\ runner'[r].attempt = row'[t].attempt
          /\ \A q \in Runners : q # r => runner'[q] = runner[q]
      BY <1>1, <3>1 DEF Claim
    <3>3. row'[t].status = "claimed"
      BY <1>1, <3>1 DEF Claim, ClaimNext, Claimed, TypeOK, Row
    <3>4. row'[t].version \in Nat
      BY DEF IInv, TypeOK, Row
    <3>5. Reads(runner'[r].version, runner'[r].attempt, row'[runner'[r].task])
      BY <3>2, <3>3, <3>4 DEF Reads
    <3> QED BY <1>3, <3>2, <3>5 DEF ReadsAreOld
  <2>2. CASE Halt(p) \/ Crash(p)
    <3>1. \A q \in Runners : runner'[q] = Idle \/ runner'[q] = runner[q]
      BY <2>2 DEF Halt, Crash
    <3> QED BY <1>4, <3>1 DEF KeepsReading
  <2>3. CASE UNCHANGED runner
    BY <1>5, <2>3
  <2> QED
    BY <1>6, <2>1, <2>2, <2>3
    DEF StartSupervisor, RecoverAtStart, Refresh, ClaimNothing, Stop, CancelOnStop
<1>7. ASSUME NEW r \in Runners,
             \/ Start(r) \/ Beat(r) \/ Acquire(r) \/ RunnerEnds(r)
             \/ ReadBack(r) \/ Complete(r) \/ Requeue(r)
      PROVE  ReadsAreOld'
  <2>1. CASE /\ StartTask(TaskOf(r), Worker(r), runner[r].version, runner[r].generation)
             /\ runner' = [runner EXCEPT ![r].pc = "waiting", ![r].version = @ + 1]
             /\ runner[r].pc = "claimed"
    <3>1. runner[r] \in Runner /\ runner[r].task \in Tasks /\ runner[r].version \in Nat
      BY <1>1, <2>1, BusyRunner DEF TaskOf
    <3>2. /\ runner'[r].task = runner[r].task
          /\ runner'[r].version = runner[r].version + 1
          /\ runner'[r].attempt = runner[r].attempt
          /\ \A q \in Runners : q # r => runner'[q] = runner[q]
      BY <1>1, <2>1, <3>1 DEF Runner
    <3>3. row[runner[r].task].version = runner[r].version
      BY <2>1 DEF StartTask, FencedOwner, TaskOf
    <3>4. runner[r].attempt = row[runner[r].task].attempt
      BY <2>1, <3>3 DEF SupIInv, ReadsAreOld, Reads, Idle
    <3>5. row'[runner[r].task] = Started(row[runner[r].task])
      BY <1>1, <2>1, <3>1 DEF StartTask, TaskOf, TypeOK
    <3>6. row[runner[r].task] \in Row
      BY <1>1, <3>1 DEF TypeOK
    <3>7. /\ row'[runner[r].task].status = "running"
          /\ row'[runner[r].task].version = runner[r].version + 1
          /\ row'[runner[r].task].attempt = runner[r].attempt
      BY <3>3, <3>4, <3>5, <3>6 DEF Started, Row
    <3>8. Reads(runner'[r].version, runner'[r].attempt, row'[runner'[r].task])
      BY <3>1, <3>2, <3>7 DEF Reads
    <3> QED BY <1>3, <3>2, <3>8 DEF ReadsAreOld
  <2>2. CASE runner[r].pc # "idle" /\ \E pc, st, e :
                 Goto(r, pc) \/ Decide(r, pc, st, e) \/ Leave(r)
    BY <1>1, <1>4, <2>2, HelpersKeep
  <2>3. CASE Start(r)
    BY <2>1, <2>2, <2>3 DEF Start
  <2>4. CASE Beat(r)
    BY <1>5, <2>4 DEF Beat, supVars
  <2>5. CASE Acquire(r) \/ Requeue(r) \/ Complete(r)
    BY <2>2, <2>5 DEF Acquire, Requeue, Complete, Recording
  <2>6. CASE RunnerEnds(r)
    BY <2>2, <2>6 DEF RunnerEnds, Return, Raise, TimeOut
  <2>7. CASE ReadBack(r)
    BY <2>2, <2>7 DEF ReadBack
  <2> QED BY <1>7, <2>3, <2>4, <2>5, <2>6, <2>7
<1>8. CASE \/ \E th \in threads : WriteFiles(th) \/ ThreadEnds(th)
           \/ \E t \in Tasks : ClientCancel(t) \/ \E D \in SUBSET Tasks : Submit(t, D)
           \/ TimePasses
           \/ UNCHANGED allVars
  BY <1>5, <1>8
  DEF WriteFiles, ThreadEnds, ClientCancel, Submit, TimePasses, supVars, allVars
<1> QED BY <1>6, <1>7, <1>8 DEF SupNext

\* The supervisor starts in the invariant.
LEMMA SupInitIInv == SupInit => SupIInv
<1> SUFFICES ASSUME SupInit
             PROVE  SupIInv
  OBVIOUS
<1>1. IInv
  BY InitIInv DEF SupInit
<1>2. SupTypeOK
  BY SupervisorAssumption DEF SupInit, SupTypeOK, HasVerdict, Loop, Idle, Recording
<1>3. ReadsAreOld
  BY DEF SupInit, ReadsAreOld
<1> QED BY <1>1, <1>2, <1>3 DEF SupIInv

\* The invariant is inductive.
LEMMA SupStepIInv ==
    ASSUME SupIInv, [SupNext]_allVars
    PROVE  SupIInv'
<1>1. TypeOK /\ SupTypeOK
  BY DEF SupIInv, IInv
<1>2. IInv'
  BY <1>1, SupStepIsStoreStep, NextIInv DEF SupIInv
<1>3. SupTypeOK'
  BY <1>1, <1>2, SupTypes DEF IInv
<1> QED BY <1>2, <1>3, SupReads DEF SupIInv

\* A step that moves a runner and its row is one of its calls under the version it
\* has read, so the attempt it has read is the row's.
ActsInLatest(r) ==
    runner'[r] # runner[r] /\ row'[TaskOf(r)] # row[TaskOf(r)] =>
        runner[r].attempt = row[TaskOf(r)].attempt
LEMMA LatestActs ==
    ASSUME SupIInv, [SupNext]_allVars, NEW r \in Busy
    PROVE  ActsInLatest(r)
<1>1. /\ SupTypeOK /\ r \in Runners /\ runner[r].pc # "idle" /\ runner[r] # Idle
      /\ runner \in [Runners -> Runner \cup {Idle}]
  BY DEF SupIInv, SupTypeOK, Busy, Idle
<1>2. CASE UNCHANGED runner \/ UNCHANGED row
  BY <1>2 DEF ActsInLatest
<1>3. CASE \E p \in Procs, q \in Runners, t \in Tasks : Claim(p, q, t)
  BY <1>1, <1>3 DEF Claim, ActsInLatest
<1>4. ASSUME NEW q \in Runners, q # r,
             \/ Start(q) \/ Acquire(q) \/ RunnerEnds(q)
             \/ ReadBack(q) \/ Complete(q) \/ Requeue(q)
      PROVE  ActsInLatest(r)
  <2>1. runner'[r] = runner[r]
    BY <1>1, <1>4
    DEF Start, Acquire, RunnerEnds, Return, Raise, TimeOut, ReadBack, Complete, Requeue,
        Goto, Decide, Leave
  <2> QED BY <2>1 DEF ActsInLatest
<1>5. CASE FencedOwner(TaskOf(r), Worker(r), runner[r].version, runner[r].generation)
  BY <1>1, <1>5 DEF SupIInv, ReadsAreOld, Reads, FencedOwner, ActsInLatest, TaskOf
<1>6. CASE Start(r) \/ Complete(r) \/ Requeue(r)
  BY <1>2, <1>5, <1>6
  DEF Start, Complete, Requeue, StartTask, CompleteTask, RequeueTask, storeVars
<1>7. CASE Acquire(r) \/ RunnerEnds(r) \/ ReadBack(r)
  BY <1>2, <1>7 DEF Acquire, RunnerEnds, Return, Raise, TimeOut, ReadBack
<1>8. ASSUME NEW q \in Runners, Beat(q)
      PROVE  ActsInLatest(r)
  BY <1>2, <1>8 DEF Beat, supVars
<1>9. ASSUME NEW p \in Procs,
             \/ StartSupervisor(p) \/ RecoverAtStart(p) \/ Refresh(p) \/ ClaimNothing(p)
             \/ Stop(p) \/ Halt(p) \/ Crash(p)
             \/ \E t \in Tasks : CancelOnStop(p, t)
      PROVE  ActsInLatest(r)
  BY <1>2, <1>9
  DEF StartSupervisor, RecoverAtStart, Refresh, ClaimNothing, Stop, Halt, Crash,
      CancelOnStop
<1>10. CASE \/ \E th \in threads : WriteFiles(th) \/ ThreadEnds(th)
            \/ \E t \in Tasks : ClientCancel(t) \/ \E D \in SUBSET Tasks : Submit(t, D)
            \/ TimePasses
            \/ UNCHANGED allVars
  BY <1>2, <1>10
  DEF WriteFiles, ThreadEnds, ClientCancel, Submit, TimePasses, supVars, allVars
<1> QED
  BY <1>3, <1>4, <1>6, <1>7, <1>8, <1>9, <1>10 DEF SupNext

-----------------------------------------------------------------------------
(* Theorems *)

\* The strengthened invariant, of rows, runners and readings together, holds in every
\* reachable state of the supervisor.
THEOREM SupervisorInvariant == SupSafetySpec => []SupIInv
<1>1. SupInit => SupIInv
  BY SupInitIInv
<1>2. SupIInv /\ [SupNext]_allVars => SupIInv'
  BY SupStepIInv
<1> QED BY <1>1, <1>2, PTL DEF SupSafetySpec

\* Processes, runners and threads always have their types, and a runner that
\* records an end has a verdict.
THEOREM SupervisorTypes == SupSafetySpec => []SupTypeOK
<1>1. SupIInv => SupTypeOK
  BY DEF SupIInv
<1> QED BY <1>1, SupervisorInvariant, PTL

\* Every step of the supervisor is a step of the store or leaves the rows alone: the
\* theorems of TaskStoreProofs hold of the tasks it runs.
LEMMA SupervisorUsesStore == SupSafetySpec => Spec
<1>1. SupInit => Init
  BY DEF SupInit
<1>2. SupIInv /\ [SupNext]_allVars => [Next]_storeVars
  BY SupStepIsStoreStep DEF SupIInv, IInv
<1> QED BY <1>1, <1>2, SupervisorInvariant, PTL DEF SupSafetySpec, Spec

\* A runner writes only in the latest attempt of its task, even when processes share
\* a worker id: what a runner that lost its lease has read never reaches the row.
THEOREM LatestAttemptActs == SupSafetySpec => OnlyLatestAttemptActs
<1>1. SupIInv /\ [SupNext]_allVars =>
          [\A r \in Busy :
              runner'[r] # runner[r] /\ row'[TaskOf(r)] # row[TaskOf(r)] =>
                  runner[r].attempt = row[TaskOf(r)].attempt]_allVars
  BY LatestActs DEF ActsInLatest
<1> QED BY <1>1, SupervisorInvariant, PTL DEF SupSafetySpec, OnlyLatestAttemptActs

-----------------------------------------------------------------------------
(* What a step does to the store, and who does it *)

\* The calls by which a busy runner moves on, and its heartbeat.
RunnerCall(r) ==
    LET t == TaskOf(r)
        v == runner[r].version
        g == runner[r].generation
    IN  /\ runner[r].pc # "idle"
        /\ \/ StartTask(t, Worker(r), v, g) /\ runner'[r] # runner[r]
           \/ Heartbeat(t, Worker(r), v, g)
           \/ /\ runner[r].pc \in Recording
              /\ CompleteTask(t, Worker(r), v, g, runner[r].status, runner[r].effect)
              /\ runner'[r] # runner[r]
           \/ RequeueTask(t, Worker(r), v, g) /\ runner'[r] # runner[r]

\* The store is moved by a client, by a main loop, by the clock or by one runner,
\* which then is somewhere else unless it was a heartbeat.
LEMMA StoreMover ==
    ASSUME SupTypeOK, [SupNext]_allVars
    PROVE  \/ UNCHANGED storeVars
           \/ \E t \in Tasks, D \in SUBSET Tasks : CreateTask(t, D)
           \/ RefreshDependencies
           \/ RecoverExpiredLeases
           \/ TimePasses
           \/ \E t \in Tasks, w \in Workers : ClaimNext(t, w)
           \/ \E t \in Tasks : RequestCancel(t)
           \/ \E r \in Runners : RunnerCall(r)
<1> DEFINE Goal ==
           \/ UNCHANGED storeVars
           \/ \E t \in Tasks, D \in SUBSET Tasks : CreateTask(t, D)
           \/ RefreshDependencies
           \/ RecoverExpiredLeases
           \/ TimePasses
           \/ \E t \in Tasks, w \in Workers : ClaimNext(t, w)
           \/ \E t \in Tasks : RequestCancel(t)
           \/ \E r \in Runners : RunnerCall(r)
<1>1. runner \in [Runners -> Runner \cup {Idle}]
  BY DEF SupTypeOK
<1>2. ASSUME NEW p \in Procs,
             \/ StartSupervisor(p) \/ RecoverAtStart(p) \/ Refresh(p) \/ ClaimNothing(p)
             \/ \E r \in Runners, t \in Tasks : Claim(p, r, t)
             \/ Stop(p) \/ Halt(p) \/ Crash(p)
             \/ \E t \in Tasks : CancelOnStop(p, t)
      PROVE  Goal
  <2>1. WorkerOf[p] \in Workers
    BY SupervisorAssumption
  <2> QED
    BY <1>2, <2>1
    DEF StartSupervisor, RecoverAtStart, Refresh, ClaimNothing, Claim, Stop, Halt, Crash,
        CancelOnStop, storeVars
<1>3. ASSUME NEW r \in Runners, Start(r)
      PROVE  Goal
  <2>1. CASE UNCHANGED storeVars
    BY <2>1
  <2>2. CASE StartTask(TaskOf(r), Worker(r), runner[r].version, runner[r].generation)
    <3>1. runner[r].pc = "claimed" /\ runner[r].pc # "idle"
      BY <1>3 DEF Start
    <3>2. CASE Leave(r)
      <4>1. runner'[r] # runner[r]
        BY <1>1, <3>1, <3>2 DEF Leave, Idle
      <4> QED BY <2>2, <3>1, <4>1 DEF RunnerCall
    <3>3. CASE runner' = [runner EXCEPT ![r].pc = "waiting", ![r].version = @ + 1]
      <4>1. runner'[r].pc = "waiting"
        BY <1>1, <3>1, <3>3, BusyRunner DEF Runner
      <4>2. runner'[r] # runner[r]
        BY <3>1, <4>1
      <4> QED BY <2>2, <3>1, <4>2 DEF RunnerCall
    <3> QED BY <1>3, <3>2, <3>3 DEF Start
  <2> QED BY <1>3, <2>1, <2>2 DEF Start
<1>4. ASSUME NEW r \in Runners, Beat(r)
      PROVE  Goal
  BY <1>4 DEF Beat, RunnerCall
<1>5. ASSUME NEW r \in Runners, Complete(r) \/ Requeue(r)
      PROVE  Goal
  <2>1. CASE UNCHANGED storeVars
    BY <2>1
  <2>2. runner[r].pc # "idle"
    BY <1>5 DEF Complete, Requeue, Recording
  <2>3. Leave(r) => runner'[r] # runner[r]
    BY <1>1, <2>2 DEF Leave, Idle
  <2> QED BY <1>5, <2>1, <2>2, <2>3 DEF Complete, Requeue, RunnerCall
<1>6. ASSUME NEW r \in Runners, Acquire(r) \/ RunnerEnds(r) \/ ReadBack(r)
      PROVE  Goal
  BY <1>6 DEF Acquire, RunnerEnds, Return, Raise, TimeOut, ReadBack, storeVars
<1>7. ASSUME \/ \E th \in threads : WriteFiles(th) \/ ThreadEnds(th)
             \/ \E t \in Tasks : ClientCancel(t) \/ \E D \in SUBSET Tasks : Submit(t, D)
             \/ TimePasses
             \/ UNCHANGED allVars
      PROVE  Goal
  BY <1>7 DEF WriteFiles, ThreadEnds, ClientCancel, Submit, storeVars, allVars
<1> QED BY <1>2, <1>3, <1>4, <1>5, <1>6, <1>7 DEF SupNext

-----------------------------------------------------------------------------
(* Cancel requests *)

VerdictsFail ==
    \A r \in Runners : runner[r].pc \in {"expiring", "failing"} =>
        runner[r].status # "succeeded"
AbsentFresh == \A t \in Tasks : row[t].cancel => Exists(t)

\* No move takes a cancel request back, and none gives an absent row one.
LEMMA FlagStays ==
    ASSUME TypeOK, NEW t \in Tasks, Move(t)
    PROVE  /\ Exists(t) => Exists(t)' /\ (row[t].cancel => row'[t].cancel)
           /\ (row[t].cancel => Exists(t)) => (row'[t].cancel => Exists(t)')
<1>1. row[t] \in Row
  BY DEF TypeOK
<1>2. ASSUME NEW s \in Status, NEW e \in Effects,
             row'[t] = Transition(row[t], s) \/ row'[t] = Marked(Transition(row[t], s), e)
      PROVE  row'[t].cancel = row[t].cancel /\ row'[t].status # "absent"
  <2>1. s # "absent"
    BY DEF Status, Terminal, Leased
  <2> DEFINE q == Transition(row[t], s)
  <2>2. q \in Row /\ q.status = s
    BY <1>1, TransitionRow
  <2>3. q.cancel = row[t].cancel
    BY <1>1 DEF Transition, Row
  <2> HIDE DEF q
  <2>4. Marked(q, e).cancel = q.cancel /\ Marked(q, e).status = q.status
    BY <2>2 DEF Marked, Row
  <2> QED BY <1>2, <2>1, <2>2, <2>3, <2>4 DEF q
<1>3. CASE \/ IsReleased(t) \/ IsBlocked(t) \/ IsRequeued(t) \/ IsCancelled(t)
           \/ IsAbandoned(t) \/ IsEnded(t)
  <2>1. PICK s \in Status, e \in Effects :
            row'[t] = Transition(row[t], s) \/ row'[t] = Marked(Transition(row[t], s), e)
    BY <1>3 DEF IsReleased, IsBlocked, IsRequeued, IsCancelled, IsAbandoned, IsEnded, Ends,
                Status, Terminal, Effects
  <2>2. row[t].status # "absent"
    BY <1>3 DEF IsReleased, IsBlocked, IsRequeued, IsCancelled, IsAbandoned, IsEnded, Leased
  <2> QED BY <1>2, <2>1, <2>2 DEF Exists
<1>4. CASE IsClaimed(t) \/ IsStarted(t) \/ IsTimed(t) \/ IsMarked(t) \/ IsFlagged(t)
  <2>1. /\ row'[t].cancel = row[t].cancel \/ IsFlagged(t)
        /\ row'[t].status # "absent" /\ row[t].status # "absent"
    BY <1>1, <1>4
    DEF IsClaimed, IsStarted, IsTimed, IsMarked, IsFlagged, Claimed, Started, WithLease,
        Marked, CancelRequested, Row, Leased
  <2>2. IsFlagged(t) => row'[t].cancel
    BY <1>1 DEF IsFlagged, CancelRequested, Row
  <2> QED BY <2>1, <2>2 DEF Exists
<1>5. CASE IsCreated(t)
  BY <1>5 DEF IsCreated, NewRow, Exists
<1>6. CASE IsKept(t)
  BY <1>6 DEF IsKept, Exists
<1> QED BY <1>3, <1>4, <1>5, <1>6 DEF Move

\* A row comes to have succeeded only by the completion of a runner with that verdict.
LEMMA SuccessIsRecorded ==
    ASSUME TypeOK, SupTypeOK, [SupNext]_allVars, NEW t \in Tasks,
           row[t].status # "succeeded", row'[t].status = "succeeded"
    PROVE  \E r \in Runners : /\ runner[r].pc \in Recording
                              /\ runner[r].status = "succeeded"
                              /\ TaskOf(r) = t
<1>1. \A u \in Tasks : row[u] \in Row
  BY DEF TypeOK
<1>2. row \in [Tasks -> Row] /\ row[t] \in Row
  BY DEF TypeOK
<1>3. \A s \in Status : Transition(row[t], s).status = s
  BY <1>2, TransitionRow
<1>4. {"queued", "blocked", "cancelled", "failed", "unknown_outcome"} \subseteq Status
  BY DEF Status, Terminal
<1>5. Transition(row[t], "queued").status # "succeeded"
      /\ Transition(row[t], "blocked").status # "succeeded"
      /\ Transition(row[t], "cancelled").status # "succeeded"
      /\ Transition(row[t], "failed").status # "succeeded"
      /\ Transition(row[t], "unknown_outcome").status # "succeeded"
  BY <1>3, <1>4
<1>6. ~ UNCHANGED storeVars
  BY DEF storeVars
<1>7. ASSUME NEW u \in Tasks, NEW D \in SUBSET Tasks, CreateTask(u, D)
      PROVE  FALSE
  BY <1>2, <1>7 DEF CreateTask, NewRow
<1>8. ~ RefreshDependencies
  BY <1>5 DEF RefreshDependencies
<1>9. ~ RecoverExpiredLeases
  BY <1>5 DEF RecoverExpiredLeases, RecoveredStatus
<1>10. ~ TimePasses
  BY <1>1, WithLeaseRow DEF TimePasses, Tick, WithLease, Row
<1>11. ASSUME NEW u \in Tasks, NEW w \in Workers, ClaimNext(u, w)
       PROVE  FALSE
  BY <1>2, <1>11 DEF ClaimNext, Claimed, Row
<1>12. ASSUME NEW u \in Tasks, RequestCancel(u)
       PROVE  FALSE
  BY <1>2, <1>5, <1>12 DEF RequestCancel, CancelRequested, Row
<1>13. ASSUME NEW r \in Runners, RunnerCall(r)
       PROVE  /\ runner[r].pc \in Recording
              /\ runner[r].status = "succeeded"
              /\ TaskOf(r) = t
  <2> DEFINE v == runner[r].version
             g == runner[r].generation
             u == TaskOf(r)
  <2>1. ~ StartTask(u, Worker(r), v, g)
    BY <1>2 DEF StartTask, Started, Row
  <2>2. ~ Heartbeat(u, Worker(r), v, g)
    BY <1>2 DEF Heartbeat, WithLease, Row
  <2>3. ~ RequeueTask(u, Worker(r), v, g)
    BY <1>2, <1>5 DEF RequeueTask
  <2>4. runner[r].pc \in Recording
        /\ CompleteTask(u, Worker(r), v, g, runner[r].status, runner[r].effect)
    BY <1>13, <2>1, <2>2, <2>3 DEF RunnerCall
  <2>5. AfterDone(u, runner[r].status, t).status # "succeeded"
    BY <1>5 DEF AfterDone
  <2>6. u = t
    BY <2>4, <2>5 DEF CompleteTask
  <2>7. row'[t] = Marked(Transition(row[t], runner[r].status), runner[r].effect)
    BY <2>4, <2>6 DEF CompleteTask
  <2>8. runner[r].status \in Status /\ runner[r].effect \in Effects
    BY <2>4, BusyRunner DEF SupTypeOK, HasVerdict, Status, Recording
  <2>9. row'[t].status = runner[r].status
    BY <1>2, <2>7, <2>8, TransitionRow, MarkedRow
  <2> QED BY <2>4, <2>6, <2>9
<1> QED
  BY <1>6, <1>7, <1>8, <1>9, <1>10, <1>11, <1>12, <1>13, StoreMover

\* Only the read-back sends a runner to record an end, and it takes a cancel request
\* for what it is.
LEMMA VerdictSource ==
    ASSUME SupTypeOK, [SupNext]_allVars, NEW r \in Runners,
           runner'[r].pc \in Recording, runner'[r] # runner[r]
    PROVE  /\ ReadBack(r) /\ runner[r].pc # "idle"
           /\ runner'[r].pc \in {"expiring", "failing"} => runner'[r].status # "succeeded"
           /\ runner'[r].pc = "completing" /\ runner'[r].status = "succeeded" =>
                  ~row[TaskOf(r)].cancel
           /\ TaskOf(r)' = TaskOf(r)
<1>1. runner \in [Runners -> Runner \cup {Idle}]
  BY DEF SupTypeOK
<1>2. Idle.pc \notin Recording
  BY DEF Idle, Recording
<1>3. ~ UNCHANGED runner
  OBVIOUS
<1>4. ASSUME NEW q \in Runners, q # r,
             \/ Start(q) \/ Beat(q) \/ Acquire(q) \/ RunnerEnds(q)
             \/ ReadBack(q) \/ Complete(q) \/ Requeue(q)
      PROVE  FALSE
  BY <1>1, <1>4
  DEF Start, Beat, Acquire, RunnerEnds, Return, Raise, TimeOut, ReadBack, Complete,
      Requeue, Goto, Decide, Leave, supVars
<1>5. ASSUME NEW p \in Procs,
             \/ StartSupervisor(p) \/ RecoverAtStart(p) \/ Refresh(p) \/ ClaimNothing(p)
             \/ \E q \in Runners, t \in Tasks : Claim(p, q, t)
             \/ Stop(p) \/ Halt(p) \/ Crash(p)
             \/ \E t \in Tasks : CancelOnStop(p, t)
      PROVE  FALSE
  BY <1>1, <1>2, <1>5
  DEF StartSupervisor, RecoverAtStart, Refresh, ClaimNothing, Claim, Stop, Halt, Crash,
      CancelOnStop, Recording
<1>6. ASSUME Start(r) \/ Beat(r) \/ Acquire(r) \/ RunnerEnds(r) \/ Complete(r) \/ Requeue(r)
      PROVE  FALSE
  <2>1. runner[r].pc # "idle" /\ runner[r] \in Runner
    BY <1>6, BusyRunner
    DEF Start, Beat, Acquire, RunnerEnds, Return, Raise, TimeOut, Complete, Requeue, Recording
  <2>2. ~ Leave(r)
    BY <1>1, <1>2 DEF Leave
  <2>3. \A pc : pc \notin Recording => ~ Goto(r, pc)
    BY <1>1, <2>1 DEF Goto, Runner
  <2>4. \A pc, s, e : pc \notin Recording => ~ Decide(r, pc, s, e)
    BY <1>1, <2>1 DEF Decide, Runner
  <2>5. ~ Start(r)
    BY <1>1, <2>1, <2>2 DEF Start, Runner, Recording
  <2>6. ~ Beat(r)
    BY <1>3 DEF Beat, supVars
  <2>7. ~ Acquire(r) /\ ~ RunnerEnds(r)
    BY <2>3, <2>4 DEF Acquire, RunnerEnds, Return, Raise, TimeOut, Recording
  <2>8. ~ Complete(r) /\ ~ Requeue(r)
    BY <2>2, <2>3 DEF Complete, Requeue, Recording
  <2> QED BY <1>6, <2>5, <2>6, <2>7, <2>8
<1>7. CASE ReadBack(r)
  <2>1. runner[r].pc # "idle" /\ runner[r] \in Runner
    BY <1>7, BusyRunner DEF ReadBack
  <2>2. TaskOf(r)' = TaskOf(r)
    BY <1>1, <1>7, <2>1 DEF ReadBack, Goto, Decide, TaskOf, Runner
  <2>3. CASE runner[r].pc = "returned"
    BY <1>1, <1>7, <2>1, <2>2, <2>3 DEF ReadBack, Decide, Runner
  <2>4. CASE runner[r].pc = "timed_out"
    BY <1>1, <1>7, <2>1, <2>2, <2>4 DEF ReadBack, Decide, Runner
  <2>5. CASE runner[r].pc = "raised"
    BY <1>1, <1>7, <2>1, <2>2, <2>5 DEF ReadBack, Goto, Decide, Runner, Recording
  <2> QED BY <1>7, <2>3, <2>4, <2>5 DEF ReadBack
<1>8. ~ \/ \E th \in threads : WriteFiles(th) \/ ThreadEnds(th)
        \/ \E t \in Tasks : ClientCancel(t) \/ \E D \in SUBSET Tasks : Submit(t, D)
        \/ TimePasses
        \/ UNCHANGED allVars
  BY <1>3
  DEF WriteFiles, ThreadEnds, ClientCancel, Submit, TimePasses, supVars, allVars
<1> QED BY <1>4, <1>5, <1>6, <1>7, <1>8 DEF SupNext

CancelIInv == SupIInv /\ VerdictsFail /\ AbsentFresh

\* What a cancel request that came in time has settled.
CancelHeld(t) ==
    /\ row[t].cancel /\ Exists(t)
    /\ row[t].status # "succeeded"
    /\ Done(t) \/ ~DecidedSuccess(t)

\* A step of the supervisor moves every row as a step of the store does.
LEMMA SupMoves ==
    ASSUME SupIInv, [SupNext]_allVars
    PROVE  \A t \in Tasks : Move(t)
<1>1. TypeOK /\ LeaseDiscipline /\ SupTypeOK
  BY DEF SupIInv, IInv
<1>2. [Next]_storeVars
  BY <1>1, SupStepIsStoreStep
<1> QED BY <1>1, <1>2, StepMoves

\* The invariant behind cancellation holds at the start.
LEMMA CancelInit ==
    ASSUME SupInit
    PROVE  CancelIInv
<1>1. VerdictsFail
  BY DEF SupInit, VerdictsFail, Idle
<1>2. AbsentFresh
  BY DEF SupInit, Init, NewRow, AbsentFresh
<1> QED BY <1>1, <1>2, SupInitIInv DEF CancelIInv

\* The invariant behind cancellation is inductive.
LEMMA CancelInductive ==
    ASSUME CancelIInv, [SupNext]_allVars
    PROVE  CancelIInv'
<1>1. SupIInv /\ SupIInv' /\ TypeOK /\ SupTypeOK
  BY SupStepIInv DEF CancelIInv, SupIInv, IInv
<1>2. VerdictsFail'
  <2>1. ASSUME NEW r \in Runners, runner'[r].pc \in {"expiring", "failing"}
        PROVE  runner'[r].status # "succeeded"
    <3>1. CASE runner'[r] = runner[r]
      BY <2>1, <3>1 DEF CancelIInv, VerdictsFail
    <3>2. CASE runner'[r] # runner[r]
      BY <1>1, <2>1, <3>2, VerdictSource DEF Recording
    <3> QED BY <3>1, <3>2
  <2> QED BY <2>1 DEF VerdictsFail
<1>3. AbsentFresh'
  <2>1. ASSUME NEW t \in Tasks
        PROVE  row'[t].cancel => Exists(t)'
    BY <1>1, SupMoves, FlagStays DEF CancelIInv, AbsentFresh
  <2> QED BY <2>1 DEF AbsentFresh
<1> QED BY <1>1, <1>2, <1>3 DEF CancelIInv

\* What the request has settled stays settled.
LEMMA CancelStays ==
    ASSUME CancelIInv, [SupNext]_allVars, NEW t \in Tasks, CancelHeld(t)
    PROVE  CancelHeld(t)'
<1>1. SupIInv /\ TypeOK /\ SupTypeOK /\ Move(t)
  BY SupMoves DEF CancelIInv, SupIInv, IInv
<1>2. row'[t].cancel /\ Exists(t)'
  BY <1>1, FlagStays DEF CancelHeld
<1>3. CASE Done(t)
  <2>1. row'[t] = row[t]
    BY <1>1, <1>3, DoneIsKept DEF IsKept
  <2> QED BY <1>2, <1>3, <2>1 DEF CancelHeld, Done
<1>4. CASE ~Done(t)
  <2>1. ~DecidedSuccess(t)
    BY <1>4 DEF CancelHeld
  <2>2. row'[t].status # "succeeded"
    <3>1. SUFFICES ASSUME row'[t].status = "succeeded"
                   PROVE  FALSE
      OBVIOUS
    <3>2. PICK r \in Runners : /\ runner[r].pc \in Recording
                               /\ runner[r].status = "succeeded"
                               /\ TaskOf(r) = t
      BY <1>1, <3>1, SuccessIsRecorded DEF CancelHeld
    <3>3. runner[r].pc = "completing"
      BY <3>2 DEF CancelIInv, VerdictsFail, Recording
    <3> QED BY <2>1, <3>2, <3>3 DEF DecidedSuccess, Busy
  <2>3. ~DecidedSuccess(t)'
    <3>1. SUFFICES ASSUME NEW r \in Runners, TaskOf(r)' = t,
                          runner'[r].pc = "completing", runner'[r].status = "succeeded"
                   PROVE  FALSE
      BY DEF DecidedSuccess, Busy
    <3>2. CASE runner'[r] = runner[r]
      BY <2>1, <3>1, <3>2 DEF DecidedSuccess, Busy, TaskOf
    <3>3. CASE runner'[r] # runner[r]
      BY <1>1, <3>1, <3>3, VerdictSource DEF CancelHeld, Recording
    <3> QED BY <3>2, <3>3
  <2> QED BY <1>2, <2>2, <2>3 DEF CancelHeld
<1> QED BY <1>3, <1>4

\* A cancel request that reaches a task before its runner has read the row back wins:
\* the task never succeeds, whatever is retried, recovered or completed late.
THEOREM CancelRequestsWin == SupSafetySpec => CancelWins
<1>1. SupInit => CancelIInv
  BY CancelInit
<1>2. CancelIInv /\ [SupNext]_allVars => CancelIInv'
  BY CancelInductive
<1>3. SupSafetySpec => []CancelIInv
  BY <1>1, <1>2, PTL DEF SupSafetySpec
<1>4. ASSUME NEW t \in Tasks
      PROVE  SupSafetySpec =>
                 [](row[t].cancel /\ ~Done(t) /\ ~DecidedSuccess(t) =>
                        [](row[t].status # "succeeded"))
  <2> DEFINE P == row[t].cancel /\ ~Done(t) /\ ~DecidedSuccess(t)
             H == CancelHeld(t)
             Q == row[t].status # "succeeded"
  <2>1. CancelIInv /\ P => H
    BY DEF CancelIInv, AbsentFresh, CancelHeld, Done, Terminal
  <2>2. CancelIInv /\ H /\ [SupNext]_allVars => H'
    BY CancelStays
  <2>3. H => Q
    BY DEF CancelHeld
  <2> HIDE DEF P, H, Q
  <2>4. SupSafetySpec => [](P => []Q)
    BY <1>3, <2>1, <2>2, <2>3, PTL DEF SupSafetySpec
  <2> QED BY <2>4 DEF P, Q
<1> QED BY <1>4 DEF CancelWins

-----------------------------------------------------------------------------
(* Exclusive execution *)

\* A runner holds its task from the claim until its executor has ended; a task is
\* closed once it has ended or is to be cancelled: no claim takes it again.
Holding(r) == runner[r].pc \in {"claimed", "waiting", "executing"}
Closed(t) == Exists(t) /\ (row[t].cancel \/ Done(t))
InCharge(r) == ProcOf[r] \in Serving \/ TaskOf(r) \in proc[ProcOf[r]].list

\* The strengthening: two runners never read the same version of a task, one at most
\* holds it, and as long as it does, its lease is good and its process renews the
\* lease or is about to cancel; so a thread that lost its runner is of a closed task.
BusyInLoop == \A r \in Busy : proc[ProcOf[r]].pc \in {"poll", "claim", "stopping"}
OneVersion ==
    \A q, r \in Busy :
        q # r /\ TaskOf(q) = TaskOf(r) => runner[q].version # runner[r].version
OneHolder ==
    \A q, r \in Runners : Holding(q) /\ Holding(r) /\ TaskOf(q) = TaskOf(r) => q = r
HoldersOwn ==
    \A r \in Runners : Holding(r) => Closed(TaskOf(r)) \/ (Owns(r) /\ InCharge(r))
ThreadsHeld ==
    \A th \in threads, r \in Runners :
        Holding(r) /\ TaskOf(r) = th[2] => runner[r].pc = "executing" /\ Thread(r) = th
OrphansClosed ==
    \A th \in threads :
        \/ Closed(th[2])
        \/ \E r \in Runners : runner[r].pc = "executing" /\ Thread(r) = th

ExIInv ==
    /\ SupIInv
    /\ BusyInLoop /\ OneVersion /\ OneHolder /\ HoldersOwn
    /\ ThreadsHeld /\ OrphansClosed /\ ExclusiveExecution

\* A closed task stays closed.
LEMMA ClosedStays ==
    ASSUME SupIInv, [SupNext]_allVars, NEW t \in Tasks, Closed(t)
    PROVE  Closed(t)'
<1>1. TypeOK /\ Move(t)
  BY SupMoves DEF SupIInv, IInv
<1>2. CASE row[t].cancel
  BY <1>1, <1>2, FlagStays DEF Closed
<1>3. CASE Done(t)
  BY <1>1, <1>3, DoneIsKept DEF IsKept, Closed, Exists, Done
<1> QED BY <1>2, <1>3 DEF Closed

\* A closed task is not claimed.
LEMMA ClosedUnclaimed ==
    ASSUME NEW t \in Tasks, Closed(t)
    PROVE  ~Claimable(t)
  BY DEF Closed, Claimable, Done, Terminal

\* A cancel request closes its task.
LEMMA CancelCloses ==
    ASSUME TypeOK, NEW t \in Tasks, RequestCancel(t)
    PROVE  Closed(t)'
<1>1. row \in [Tasks -> Row] /\ row[t] \in Row
  BY DEF TypeOK
<1>2. CASE row[t].status = "running"
  <2>1. row'[t] = CancelRequested(row[t])
    BY <1>1, <1>2 DEF RequestCancel
  <2>2. row'[t].cancel /\ row'[t].status = "running"
    BY <1>1, <1>2, <2>1 DEF CancelRequested, Row
  <2> QED BY <2>2 DEF Closed, Exists
<1>3. CASE row[t].status # "running"
  <2>1. row'[t] = Transition(row[t], "cancelled")
    BY <1>1, <1>3 DEF RequestCancel
  <2>2. row'[t].status = "cancelled"
    BY <1>1, <2>1, TransitionRow DEF Status, Terminal
  <2> QED BY <2>2 DEF Closed, Exists, Done, Terminal
<1> QED BY <1>2, <1>3

\* A valid lease is lost only by the calls of the one runner that can present its
\* version, by cancellation, or by a clock that nobody kept up with.
LEMMA LeaseKept ==
    ASSUME SupIInv, OneVersion, [SupNext]_allVars, "stall" \notin Faults,
           NEW r \in Busy, runner'[r] = runner[r], Owns(r), InCharge(r)
    PROVE  Closed(TaskOf(r))' \/ Owns(r)'
<1> DEFINE t == TaskOf(r)
<1>1. /\ TypeOK /\ LeaseDiscipline /\ SupTypeOK /\ r \in Runners /\ runner[r].pc # "idle"
      /\ row \in [Tasks -> Row]
  BY DEF SupIInv, IInv, TypeOK, Busy
<1>2. t \in Tasks /\ Worker(r) \in Workers /\ row[t] \in Row
  BY <1>1, BusyRunner
<1>3. t' = t /\ Worker(r)' = Worker(r)
  BY DEF TaskOf, Worker
<1>4. row[t].version = runner[r].version /\ row[t].owner = Worker(r) /\ row[t].lease # 0
  BY DEF Owns, FencedOwner
<1>5. row[t].status \in Leased /\ row[t].lease # NoLease
  BY <1>1, <1>2, <1>4, WorkersAssumption DEF LeaseDiscipline
<1>6. row'[t] = row[t] => Owns(r)'
  BY <1>3 DEF Owns, FencedOwner
<1>7. t \notin Waiting /\ Exists(t) /\ ~Done(t) /\ row[t].status # "queued"
  BY <1>5 DEF Waiting, Exists, Done, Leased, Terminal
<1> HIDE DEF t
<1>8. CASE UNCHANGED storeVars
  BY <1>6, <1>8 DEF storeVars
<1>9. ASSUME NEW u \in Tasks, NEW D \in SUBSET Tasks, CreateTask(u, D)
      PROVE  Owns(r)'
  BY <1>1, <1>2, <1>6, <1>7, <1>9 DEF CreateTask
<1>10. CASE RefreshDependencies
  BY <1>2, <1>6, <1>7, <1>10 DEF RefreshDependencies, Ready
<1>11. CASE RecoverExpiredLeases
  BY <1>2, <1>4, <1>6, <1>11 DEF RecoverExpiredLeases, Expired
<1>12. CASE TimePasses
  <2>1. \A p \in Procs : proc[p].list = {}
    BY <1>12 DEF TimePasses
  <2>2. ProcOf[r] \in Serving
    BY <1>1, <2>1, SupervisorAssumption DEF InCharge
  <2>3. row[t].lease > 1
    BY <1>12, <2>2 DEF TimePasses, t
  <2>4. row'[t] = WithLease(row[t], row[t].lease - 1)
    <3>1. row[t].lease > 0
      BY <1>2, <2>3 DEF Row, NoLease
    <3> QED BY <1>2, <1>12, <3>1 DEF TimePasses, Tick
  <2>5. /\ row'[t].version = row[t].version /\ row'[t].owner = row[t].owner
        /\ row'[t].generation = row[t].generation /\ row'[t].lease = row[t].lease - 1
    BY <1>2, <2>4 DEF WithLease, Row
  <2>6. row'[t].lease # 0
    BY <1>2, <2>3, <2>5 DEF Row, NoLease
  <2> QED BY <1>3, <2>5, <2>6 DEF Owns, FencedOwner, t
<1>13. ASSUME NEW u \in Tasks, NEW w \in Workers, ClaimNext(u, w)
       PROVE  Owns(r)'
  BY <1>1, <1>2, <1>6, <1>7, <1>13 DEF ClaimNext, Claimable
<1>14. ASSUME NEW u \in Tasks, RequestCancel(u)
       PROVE  Closed(t)' \/ Owns(r)'
  <2>1. CASE u # t
    BY <1>1, <1>2, <1>6, <1>14, <2>1 DEF RequestCancel
  <2>2. CASE u = t
    BY <1>1, <1>3, <1>14, <2>2, CancelCloses
  <2> QED BY <2>1, <2>2
<1>15. ASSUME NEW q \in Runners, RunnerCall(q)
       PROVE  Owns(r)'
  <2> DEFINE u == TaskOf(q)
  <2>1. FencedOwner(u, Worker(q), runner[q].version, runner[q].generation) /\ u \in Tasks
    BY <1>1, <1>15, BusyRunner
    DEF RunnerCall, StartTask, Heartbeat, CompleteTask, RequeueTask
  <2>2. CASE Heartbeat(u, Worker(q), runner[q].version, runner[q].generation)
    <3>1. row'[t] = row[t] \/ row'[t] = WithLease(row[t], LeaseTicks)
      BY <1>1, <1>2, <2>2 DEF Heartbeat
    <3>2. CASE row'[t] = WithLease(row[t], LeaseTicks)
      <4>1. /\ row'[t].version = row[t].version /\ row'[t].owner = row[t].owner
            /\ row'[t].generation = row[t].generation /\ row'[t].lease = LeaseTicks
        BY <1>2, <3>2 DEF WithLease, Row
      <4> QED BY <1>3, <4>1, LeaseAssumption DEF Owns, FencedOwner, t
    <3> QED BY <1>6, <3>1, <3>2
  <2>3. CASE ~Heartbeat(u, Worker(q), runner[q].version, runner[q].generation)
    <3>1. runner'[q] # runner[q]
      BY <1>15, <2>3 DEF RunnerCall
    <3>2. q # r /\ q \in Busy
      BY <1>15, <3>1 DEF RunnerCall, Busy
    <3>3. u # t
      BY <1>4, <2>1, <3>2 DEF OneVersion, FencedOwner, t
    <3>4. AfterDone(u, runner[q].status, t) = row[t]
      BY <1>7 DEF AfterDone
    <3>5. row'[t] = row[t]
      BY <1>1, <1>2, <1>15, <2>3, <3>3, <3>4
      DEF RunnerCall, StartTask, CompleteTask, RequeueTask
    <3> QED BY <1>6, <3>5
  <2> QED BY <2>2, <2>3
<1> QED
  BY <1>1, <1>8, <1>9, <1>10, <1>11, <1>12, <1>13, <1>14, <1>15, StoreMover DEF t

\* Steps other than those of a main loop leave the loops alone, and make no idle
\* runner busy.
LEMMA LoopsRest ==
    ASSUME SupTypeOK, [SupNext]_allVars,
           \A p \in Procs :
               ~ \/ StartSupervisor(p) \/ RecoverAtStart(p) \/ Refresh(p) \/ ClaimNothing(p)
                 \/ \E r \in Runners, t \in Tasks : Claim(p, r, t)
                 \/ Stop(p) \/ Halt(p) \/ Crash(p)
                 \/ \E t \in Tasks : CancelOnStop(p, t)
    PROVE  UNCHANGED proc /\ Busy' \subseteq Busy
<1>1. runner \in [Runners -> Runner \cup {Idle}]
  BY DEF SupTypeOK
<1>2. UNCHANGED runner => Busy' \subseteq Busy
  BY DEF Busy
<1>3. ASSUME NEW r \in Runners,
             \/ Start(r) \/ Beat(r) \/ Acquire(r) \/ RunnerEnds(r)
             \/ ReadBack(r) \/ Complete(r) \/ Requeue(r)
      PROVE  UNCHANGED proc /\ Busy' \subseteq Busy
  <2>1. runner[r].pc # "idle" /\ UNCHANGED proc
    BY <1>3
    DEF Start, Beat, Acquire, RunnerEnds, Return, Raise, TimeOut, ReadBack, Complete,
        Requeue, Recording, supVars
  <2>2. \A q \in Runners : q # r => runner'[q] = runner[q]
    BY <1>1, <1>3
    DEF Start, Beat, Acquire, RunnerEnds, Return, Raise, TimeOut, ReadBack, Complete,
        Requeue, Goto, Decide, Leave, supVars
  <2> QED BY <2>1, <2>2 DEF Busy
<1>4. CASE \/ \E th \in threads : WriteFiles(th) \/ ThreadEnds(th)
           \/ \E t \in Tasks : ClientCancel(t) \/ \E D \in SUBSET Tasks : Submit(t, D)
           \/ TimePasses
           \/ UNCHANGED allVars
  BY <1>2, <1>4
  DEF WriteFiles, ThreadEnds, ClientCancel, Submit, TimePasses, supVars, allVars
<1> QED BY <1>3, <1>4 DEF SupNext

\* A busy runner is always one of a running loop.
LEMMA LoopsRun ==
    ASSUME SupTypeOK, BusyInLoop, [SupNext]_allVars
    PROVE  BusyInLoop'
<1>1. /\ runner \in [Runners -> Runner \cup {Idle}]
      /\ proc \in [Procs -> [pc : {"down", "starting", "poll", "claim", "stopping"},
                             list : SUBSET Tasks]]
      /\ \A r \in Runners : ProcOf[r] \in Procs
  BY SupervisorAssumption DEF SupTypeOK
<1>2. CASE UNCHANGED proc /\ Busy' \subseteq Busy
  BY <1>2 DEF BusyInLoop
<1>3. ASSUME NEW p \in Procs,
             \/ StartSupervisor(p) \/ RecoverAtStart(p) \/ Refresh(p) \/ ClaimNothing(p)
             \/ \E r \in Runners, t \in Tasks : Claim(p, r, t)
             \/ Stop(p) \/ Halt(p) \/ Crash(p)
             \/ \E t \in Tasks : CancelOnStop(p, t)
      PROVE  BusyInLoop'
  <2>1. \A q \in Procs : q # p => proc'[q] = proc[q]
    BY <1>1, <1>3
    DEF StartSupervisor, RecoverAtStart, Refresh, ClaimNothing, Claim, Stop, Halt, Crash,
        CancelOnStop, Enter
  <2>2. ASSUME NEW r \in Busy', ProcOf[r] # p
        PROVE  r \in Busy
    BY <1>1, <1>3, <2>2
    DEF StartSupervisor, RecoverAtStart, Refresh, ClaimNothing, Claim, Stop, Halt, Crash,
        CancelOnStop, Busy, RunnersOf
  <2>3. ASSUME NEW r \in Busy', ProcOf[r] = p
        PROVE  proc'[p].pc \in {"poll", "claim", "stopping"}
    <3>1. CASE StartSupervisor(p) \/ RecoverAtStart(p)
      <4>1. r \in Busy /\ proc[p].pc \in {"down", "starting"}
        BY <2>3, <3>1 DEF StartSupervisor, RecoverAtStart, Busy
      <4> QED BY <2>3, <4>1 DEF BusyInLoop
    <3>2. CASE Refresh(p) \/ ClaimNothing(p) \/ \E q \in Runners, t \in Tasks : Claim(p, q, t)
      BY <1>1, <3>2 DEF Refresh, ClaimNothing, Claim, Enter, Loop
    <3>3. CASE Stop(p)
      BY <1>1, <3>3 DEF Stop
    <3>4. CASE Halt(p) \/ Crash(p)
      BY <1>1, <2>3, <3>4 DEF Halt, Crash, Idle, Busy
    <3>5. CASE \E t \in Tasks : CancelOnStop(p, t)
      <4>1. r \in Busy /\ proc'[p].pc = proc[p].pc
        BY <1>1, <2>3, <3>5 DEF CancelOnStop, Busy
      <4> QED BY <2>3, <4>1 DEF BusyInLoop
    <3> QED BY <1>3, <3>1, <3>2, <3>3, <3>4, <3>5
  <2>4. ASSUME NEW r \in Busy'
        PROVE  proc'[ProcOf[r]].pc \in {"poll", "claim", "stopping"}
    <3>1. r \in Runners
      BY DEF Busy
    <3> QED BY <1>1, <2>1, <2>2, <2>3, <3>1 DEF BusyInLoop
  <2> QED BY <2>4 DEF BusyInLoop
<1> QED BY <1>2, <1>3, LoopsRest

\* The process of an owner keeps the lease in sight, until it has cancelled the task.
LEMMA ChargeKept ==
    ASSUME SupIInv, BusyInLoop, [SupNext]_allVars,
           NEW r \in Busy, runner'[r] = runner[r], Owns(r), InCharge(r)
    PROVE  Closed(TaskOf(r))' \/ InCharge(r)'
<1>1. /\ TypeOK /\ LeaseDiscipline /\ SupTypeOK /\ r \in Runners /\ runner[r].pc # "idle"
      /\ proc \in [Procs -> [pc : {"down", "starting", "poll", "claim", "stopping"},
                             list : SUBSET Tasks]]
      /\ runner \in [Runners -> Runner \cup {Idle}]
  BY DEF SupIInv, IInv, SupTypeOK, Busy
<1>2. TaskOf(r) \in Tasks /\ ProcOf[r] \in Procs /\ TaskOf(r)' = TaskOf(r)
  BY <1>1, BusyRunner DEF TaskOf
<1>3. proc'[ProcOf[r]] = proc[ProcOf[r]] => InCharge(r)'
  BY <1>2 DEF InCharge, Serving
<1>4. proc'[ProcOf[r]].pc \in {"poll", "claim"} => InCharge(r)'
  BY <1>2 DEF InCharge, Serving
<1>5. ASSUME NEW p \in Procs,
             \/ StartSupervisor(p) \/ RecoverAtStart(p) \/ Refresh(p) \/ ClaimNothing(p)
             \/ \E q \in Runners, t \in Tasks : Claim(p, q, t)
             \/ Stop(p) \/ Halt(p) \/ Crash(p)
             \/ \E t \in Tasks : CancelOnStop(p, t)
      PROVE  Closed(TaskOf(r))' \/ InCharge(r)'
  <2>1. CASE ProcOf[r] # p
    <3>1. proc'[ProcOf[r]] = proc[ProcOf[r]]
      BY <1>1, <1>2, <1>5, <2>1
      DEF StartSupervisor, RecoverAtStart, Refresh, ClaimNothing, Claim, Stop, Halt, Crash,
          CancelOnStop, Enter
    <3> QED BY <1>3, <3>1
  <2>2. CASE ProcOf[r] = p
    <3>1. proc[p].pc \in {"poll", "claim", "stopping"}
      BY <2>2 DEF BusyInLoop
    <3>2. ~StartSupervisor(p) /\ ~RecoverAtStart(p)
      BY <3>1 DEF StartSupervisor, RecoverAtStart
    <3>3. ~Halt(p) /\ ~Crash(p)
      BY <1>1, <2>2 DEF Halt, Crash, Idle
    <3>4. CASE Refresh(p) \/ ClaimNothing(p) \/ \E q \in Runners, t \in Tasks : Claim(p, q, t)
      <4>1. proc'[p].pc \in {"poll", "claim"}
        BY <1>1, <3>4 DEF Refresh, ClaimNothing, Claim, Enter, Loop
      <4> QED BY <1>4, <2>2, <4>1
    <3>5. CASE Stop(p)
      <4>1. row[TaskOf(r)].owner = WorkerOf[p]
        BY <2>2 DEF Owns, FencedOwner, Worker
      <4>2. WorkerOf[p] # NoWorker
        BY SupervisorAssumption, WorkersAssumption
      <4>3. row[TaskOf(r)].status \in Leased
        BY <1>1, <1>2, <4>1, <4>2 DEF LeaseDiscipline
      <4>4. TaskOf(r) \in proc'[p].list
        BY <1>1, <1>2, <3>5, <4>1, <4>3 DEF Stop
      <4> QED BY <1>2, <2>2, <4>4 DEF InCharge
    <3>6. ASSUME NEW t \in Tasks, CancelOnStop(p, t)
          PROVE  Closed(TaskOf(r))' \/ InCharge(r)'
      <4>1. proc'[p].pc = proc[p].pc /\ proc'[p].list = proc[p].list \ {t}
        BY <1>1, <3>6 DEF CancelOnStop
      <4>2. CASE TaskOf(r) # t \/ p \in Serving
        BY <1>2, <2>2, <4>1, <4>2 DEF InCharge, Serving
      <4>3. CASE TaskOf(r) = t
        <5>1. CASE RequestCancel(t)
          BY <1>1, <1>2, <4>3, <5>1, CancelCloses
        <5>2. CASE Done(t) /\ UNCHANGED storeVars
          BY <1>2, <4>3, <5>2 DEF Closed, Done, Exists, Terminal, storeVars
        <5> QED BY <3>6, <5>1, <5>2 DEF CancelOnStop
      <4> QED BY <4>2, <4>3
    <3> QED BY <1>5, <3>2, <3>3, <3>4, <3>5, <3>6
  <2> QED BY <2>1, <2>2
<1>6. CASE UNCHANGED proc
  BY <1>3, <1>6
<1> QED BY <1>1, <1>5, <1>6, LoopsRest

\* A runner that fades goes nowhere, leaves, or lets go of its task.
Fades(r) ==
    \/ runner'[r] = runner[r]
    \/ runner'[r] = Idle
    \/ /\ runner[r] # Idle
       /\ ~Holding(r)'
       /\ runner'[r].task = runner[r].task
       /\ runner'[r].version = runner[r].version

\* Nothing starts in a fading step, and a thread loses its runner only by a halt.
FadingStep ==
    /\ \A r \in Runners : Fades(r)
    /\ threads' \subseteq threads
    /\ \A r \in Runners : runner[r].pc = "executing" /\ Thread(r) \in threads' =>
           runner'[r] = runner[r] \/ Halt(ProcOf[r])

StartsExecution(r) ==
    /\ runner[r].pc = "claimed"
    /\ StartTask(TaskOf(r), Worker(r), runner[r].version, runner[r].generation)
    /\ runner' = [runner EXCEPT ![r].pc = "waiting", ![r].version = @ + 1]
    /\ UNCHANGED <<proc, threads>>

\* Without timeouts only a claim, a start and the entry into the executor do not fade.
LEMMA FadingSteps ==
    ASSUME SupTypeOK, [SupNext]_allVars, "timeout" \notin Faults
    PROVE  \/ \E p \in Procs, r \in Runners, t \in Tasks : Claim(p, r, t)
           \/ \E r \in Runners : StartsExecution(r) \/ Acquire(r)
           \/ FadingStep
<1>1. runner \in [Runners -> Runner \cup {Idle}]
  BY DEF SupTypeOK
<1>2. ASSUME UNCHANGED runner, threads' \subseteq threads
      PROVE  FadingStep
  BY <1>2 DEF FadingStep, Fades
<1>3. ASSUME NEW r \in Runners, runner[r].pc # "idle", UNCHANGED threads \/ threads' = threads \ {Thread(r)},
             runner[r].pc = "executing" => threads' = threads \ {Thread(r)},
             NEW pc, NEW s, NEW e, pc \notin {"claimed", "waiting", "executing"},
             Goto(r, pc) \/ Decide(r, pc, s, e) \/ Leave(r)
      PROVE  FadingStep
  <2>1. runner[r] \in Runner /\ runner[r] # Idle
    BY <1>1, <1>3, BusyRunner DEF Idle
  <2>2. \A q \in Runners : q # r => runner'[q] = runner[q]
    BY <1>1, <1>3 DEF Goto, Decide, Leave
  <2>3. CASE Leave(r)
    BY <1>1, <1>3, <2>2, <2>3 DEF Leave, FadingStep, Fades
  <2>4. CASE Goto(r, pc) \/ Decide(r, pc, s, e)
    <3>1. runner'[r].pc = pc /\ runner'[r].task = runner[r].task
          /\ runner'[r].version = runner[r].version
      BY <1>1, <2>1, <2>4 DEF Goto, Decide, Runner
    <3>2. Fades(r)
      BY <1>3, <2>1, <3>1 DEF Fades, Holding
    <3> QED BY <1>3, <2>2, <3>2 DEF FadingStep, Fades
  <2> QED BY <1>3, <2>3, <2>4
<1>4. ASSUME NEW r \in Runners, Start(r)
      PROVE  StartsExecution(r) \/ FadingStep
  <2>1. CASE Leave(r)
    BY <1>3, <1>4, <2>1 DEF Start
  <2> QED BY <1>4, <2>1 DEF Start, StartsExecution
<1>5. ASSUME NEW r \in Runners, Beat(r)
      PROVE  FadingStep
  <2>1. UNCHANGED <<runner, threads>>
    BY <1>5 DEF Beat, supVars
  <2> QED BY <1>2, <2>1
<1>6. ASSUME NEW r \in Runners, RunnerEnds(r)
      PROVE  FadingStep
  <2>1. CASE Return(r)
    <3>1. PICK s, e : Decide(r, "returned", s, e)
      BY <2>1 DEF Return
    <3> QED BY <1>3, <2>1, <3>1 DEF Return
  <2>2. CASE Raise(r)
    <3>1. /\ runner[r].pc = "executing" /\ threads' = threads \ {Thread(r)}
          /\ Goto(r, "raised")
      BY <2>2 DEF Raise
    <3> QED BY <1>3, <3>1
  <2> QED BY <1>6, <2>1, <2>2 DEF RunnerEnds, TimeOut
<1>7. ASSUME NEW r \in Runners, ReadBack(r)
      PROVE  FadingStep
  <2>1. /\ runner[r].pc \in {"returned", "timed_out", "raised"}
        /\ UNCHANGED threads
        /\ \E pc, s, e : /\ pc \notin {"claimed", "waiting", "executing"}
                         /\ Goto(r, pc) \/ Decide(r, pc, s, e)
    BY <1>7 DEF ReadBack
  <2> QED BY <1>3, <2>1
<1>8. ASSUME NEW r \in Runners, Complete(r) \/ Requeue(r)
      PROVE  FadingStep
  <2>1. runner[r].pc \notin {"idle", "executing"} /\ UNCHANGED threads
    BY <1>8 DEF Complete, Requeue, Recording
  <2>2. Goto(r, "raised") \/ Leave(r)
    BY <1>8 DEF Complete, Requeue
  <2> QED BY <1>3, <2>1, <2>2
<1>9. ASSUME NEW p \in Procs, Halt(p) \/ Crash(p)
      PROVE  FadingStep
  <2>1. \A r \in Runners : runner'[r] = IF ProcOf[r] = p THEN Idle ELSE runner[r]
    BY <1>9 DEF Halt, Crash
  <2>2. CASE Halt(p)
    BY <2>1, <2>2 DEF Halt, FadingStep, Fades
  <2>3. CASE Crash(p)
    <3>1. \A r \in Runners : Thread(r) \in threads' => ProcOf[r] # p
      BY <2>3 DEF Crash, Thread
    <3> QED BY <2>1, <2>3, <3>1 DEF Crash, FadingStep, Fades
  <2> QED BY <1>9, <2>2, <2>3
<1>10. ASSUME NEW p \in Procs,
             \/ StartSupervisor(p) \/ RecoverAtStart(p) \/ Refresh(p) \/ ClaimNothing(p)
             \/ Stop(p) \/ \E t \in Tasks : CancelOnStop(p, t)
       PROVE  FadingStep
  <2>1. UNCHANGED <<runner, threads>>
    BY <1>10
    DEF StartSupervisor, RecoverAtStart, Refresh, ClaimNothing, Stop, CancelOnStop
  <2> QED BY <1>2, <2>1
<1>11. CASE \/ \E th \in threads : WriteFiles(th) \/ ThreadEnds(th)
            \/ \E t \in Tasks : ClientCancel(t) \/ \E D \in SUBSET Tasks : Submit(t, D)
            \/ TimePasses
            \/ UNCHANGED allVars
  BY <1>2, <1>11
  DEF WriteFiles, ThreadEnds, ClientCancel, Submit, TimePasses, supVars, allVars
<1> QED
  BY <1>4, <1>5, <1>6, <1>7, <1>8, <1>9, <1>10, <1>11 DEF SupNext

\* A holder that stays where it is keeps what the invariant says of it.
HolderOwns(r) == Closed(TaskOf(r)) \/ (Owns(r) /\ InCharge(r))
LEMMA HolderStays ==
    ASSUME ExIInv, [SupNext]_allVars, "stall" \notin Faults,
           NEW r \in Runners, Holding(r), runner'[r] = runner[r]
    PROVE  HolderOwns(r)'
<1>1. r \in Busy
  BY DEF Holding, Busy
<1>2. SupTypeOK /\ TaskOf(r) \in Tasks /\ TaskOf(r)' = TaskOf(r)
  BY <1>1, BusyRunner DEF ExIInv, SupIInv, Busy, TaskOf
<1>3. CASE Closed(TaskOf(r))
  BY <1>2, <1>3, ClosedStays DEF ExIInv, HolderOwns
<1>4. CASE Owns(r) /\ InCharge(r)
  BY <1>1, <1>4, LeaseKept, ChargeKept DEF ExIInv, HolderOwns
<1> QED BY <1>3, <1>4 DEF ExIInv, HoldersOwn

\* A fading step keeps the invariant.
LEMMA FadingKeeps ==
    ASSUME ExIInv, [SupNext]_allVars, "stall" \notin Faults, FadingStep
    PROVE  ExIInv'
<1>1. SupTypeOK /\ SupIInv' /\ BusyInLoop' /\ threads \subseteq Procs \X Tasks \X Nat
  BY SupStepIInv, LoopsRun DEF ExIInv, SupIInv, SupTypeOK
<1>2. Idle.pc = "idle"
  BY DEF Idle
<1>3. ASSUME NEW r \in Runners, Holding(r)'
      PROVE  runner'[r] = runner[r] /\ Holding(r) /\ TaskOf(r)' = TaskOf(r)
  BY <1>2, <1>3 DEF FadingStep, Fades, Holding, TaskOf
<1>4. ASSUME NEW r \in Busy'
      PROVE  /\ r \in Busy
             /\ TaskOf(r)' = TaskOf(r) /\ runner'[r].version = runner[r].version
  <2>1. r \in Runners /\ runner'[r].pc # "idle"
    BY DEF Busy
  <2>2. runner[r].pc = "idle" => runner[r] = Idle
    BY <1>1, <2>1 DEF SupTypeOK, Runner, Recording
  <2> QED BY <1>2, <2>1, <2>2 DEF FadingStep, Fades, TaskOf, Busy
<1>5. OneVersion'
  BY <1>4 DEF ExIInv, OneVersion
<1>6. OneHolder'
  BY <1>3 DEF ExIInv, OneHolder
<1>7. HoldersOwn'
  BY <1>3, HolderStays DEF HoldersOwn, HolderOwns
<1>8. ThreadsHeld'
  BY <1>3 DEF ExIInv, ThreadsHeld, FadingStep, Thread
<1>9. OrphansClosed'
  <2>1. ASSUME NEW th \in threads',
               ~ \E r \in Runners : runner'[r].pc = "executing" /\ Thread(r)' = th
        PROVE  Closed(th[2])'
    <3>1. th \in threads /\ th[2] \in Tasks
      BY <1>1, <2>1 DEF FadingStep
    <3>2. Closed(th[2])
      <4>1. ASSUME NEW r \in Runners, runner[r].pc = "executing", Thread(r) = th
            PROVE  Closed(th[2])
        <5>1. runner'[r] # runner[r]
          BY <2>1, <4>1 DEF Thread
        <5>2. Halt(ProcOf[r])
          BY <2>1, <4>1, <5>1 DEF FadingStep
        <5>3. ~InCharge(r)
          BY <5>2 DEF Halt, Loop, InCharge, Serving
        <5>4. Closed(TaskOf(r))
          BY <4>1, <5>3 DEF ExIInv, HoldersOwn, Holding
        <5> QED BY <4>1, <5>4 DEF Thread, TaskOf
      <4> QED BY <3>1, <4>1 DEF ExIInv, OrphansClosed
    <3> QED BY <3>1, <3>2, ClosedStays DEF ExIInv
  <2> QED BY <2>1 DEF OrphansClosed
<1>10. ExclusiveExecution'
  BY DEF ExIInv, ExclusiveExecution, FadingStep
<1> QED BY <1>1, <1>5, <1>6, <1>7, <1>8, <1>9, <1>10 DEF ExIInv

\* What a step that moves one runner and keeps the threads has to show.
LEMMA OneMoves ==
    ASSUME ExIInv, [SupNext]_allVars, "stall" \notin Faults,
           NEW r \in Runners, \A q \in Runners : q # r => runner'[q] = runner[q],
           Holding(r)', TaskOf(r)' \in Tasks,
           \A q \in Busy : q # r /\ TaskOf(q) = TaskOf(r)' =>
               runner[q].version # runner'[r].version,
           \A q \in Runners : q # r /\ Holding(q) => TaskOf(q) # TaskOf(r)',
           HolderOwns(r)'
    PROVE  SupIInv' /\ BusyInLoop' /\ OneVersion' /\ OneHolder' /\ HoldersOwn'
<1>1. SupTypeOK /\ SupIInv' /\ BusyInLoop'
  BY SupStepIInv, LoopsRun DEF ExIInv, SupIInv
<1>2. ASSUME NEW q \in Runners, q # r
      PROVE  /\ runner'[q] = runner[q] /\ TaskOf(q)' = TaskOf(q)
             /\ Holding(q)' = Holding(q) /\ (q \in Busy' <=> q \in Busy)
  BY <1>2 DEF TaskOf, Holding, Busy
<1>3. OneVersion'
  <2>1. ASSUME NEW p \in Busy', NEW q \in Busy', p # q, TaskOf(p)' = TaskOf(q)'
        PROVE  runner'[p].version # runner'[q].version
    <3>1. p \in Runners /\ q \in Runners
      BY DEF Busy
    <3>2. CASE p # r /\ q # r
      BY <1>2, <2>1, <3>1, <3>2 DEF ExIInv, OneVersion
    <3>3. CASE p = r \/ q = r
      BY <1>2, <2>1, <3>1, <3>3
    <3> QED BY <3>2, <3>3
  <2> QED BY <2>1 DEF OneVersion
<1>4. OneHolder'
  <2>1. ASSUME NEW p \in Runners, NEW q \in Runners, Holding(p)', Holding(q)',
               TaskOf(p)' = TaskOf(q)'
        PROVE  p = q
    BY <1>2, <2>1 DEF ExIInv, OneHolder
  <2> QED BY <2>1 DEF OneHolder
<1>5. HoldersOwn'
  BY <1>2, HolderStays DEF HoldersOwn, HolderOwns
<1> QED BY <1>1, <1>3, <1>4, <1>5

\* A claim keeps the invariant: nobody held the task and no thread worked on it.
LEMMA ClaimKeeps ==
    ASSUME ExIInv, [SupNext]_allVars, "stall" \notin Faults,
           NEW p \in Procs, NEW r \in Runners, NEW t \in Tasks, Claim(p, r, t)
    PROVE  ExIInv'
<1>1. /\ SupTypeOK /\ TypeOK /\ LeaseDiscipline /\ ReadsAreOld
      /\ row \in [Tasks -> Row] /\ row[t] \in Row
      /\ runner \in [Runners -> Runner \cup {Idle}]
      /\ proc \in [Procs -> [pc : {"down", "starting", "poll", "claim", "stopping"},
                             list : SUBSET Tasks]]
      /\ threads \subseteq Procs \X Tasks \X Nat
  BY DEF ExIInv, SupIInv, SupTypeOK, IInv, TypeOK
<1>2. /\ r \in RunnersOf(p) \ Busy /\ ProcOf[r] = p
      /\ runner[r].pc = "idle"
      /\ Claimable(t) /\ row' = [row EXCEPT ![t] = Claimed(row[t], WorkerOf[p])]
      /\ UNCHANGED threads
  BY <1>1 DEF Claim, ClaimNext, RunnersOf, Busy
<1>3. /\ \A q \in Runners : q # r => runner'[q] = runner[q]
      /\ Holding(r)' /\ TaskOf(r)' = t
      /\ runner'[r].version = row'[t].version
      /\ runner'[r].generation = row'[t].generation
  BY <1>1 DEF Claim, Holding, TaskOf
<1>4. WorkerOf[p] \in Workers
  BY SupervisorAssumption
<1>5. /\ row'[t] = Claimed(row[t], WorkerOf[p])
      /\ row[t].version \in Nat
      /\ row'[t].version = row[t].version + 1
      /\ row'[t].owner = WorkerOf[p]
      /\ row'[t].lease = LeaseTicks
  <2>1. row'[t] = Claimed(row[t], WorkerOf[p])
    BY <1>1, <1>2
  <2> QED BY <1>1, <2>1 DEF Claimed, Row
<1>6. ~Closed(t) /\ row[t].owner = NoWorker
  BY <1>1, <1>2, ClosedUnclaimed DEF Claimable, LeaseDiscipline, Leased
<1>7. ASSUME NEW q \in Runners, Holding(q)
      PROVE  TaskOf(q) # t
  <2>1. q \in Busy
    BY <1>7 DEF Holding, Busy
  <2>2. Worker(q) \in Workers
    BY <1>1, <2>1, BusyRunner DEF Busy
  <2> QED
    BY <1>6, <1>7, <2>2, WorkersAssumption DEF ExIInv, HoldersOwn, Owns, FencedOwner
<1>8. ASSUME NEW q \in Busy, TaskOf(q) = t
      PROVE  runner[q].version # runner'[r].version
  <2>1. q \in Runners /\ runner[q] # Idle /\ runner[q].version \in Nat
    BY <1>1, BusyRunner DEF Busy, Idle
  <2>2. runner[q].version <= row[t].version
    BY <1>1, <1>8, <2>1 DEF ReadsAreOld, Reads, TaskOf
  <2> QED BY <1>3, <1>5, <2>1, <2>2
<1>9. HolderOwns(r)'
  <2>1. Owns(r)'
    BY <1>2, <1>3, <1>5, LeaseAssumption DEF Owns, FencedOwner, Worker, TaskOf
  <2>2. proc'[p].pc = "poll"
    BY <1>1 DEF Claim, Enter, Loop
  <2>3. InCharge(r)'
    BY <1>2, <2>2 DEF InCharge, Serving
  <2> QED BY <2>1, <2>3 DEF HolderOwns
<1>10. SupIInv' /\ BusyInLoop' /\ OneVersion' /\ OneHolder' /\ HoldersOwn'
  BY <1>3, <1>7, <1>8, <1>9, OneMoves
<1>11. \A th \in threads : th[2] # t
  <2>1. ASSUME NEW th \in threads, th[2] = t
        PROVE  FALSE
    <3>1. PICK q \in Runners : runner[q].pc = "executing" /\ Thread(q) = th
      BY <1>6, <2>1 DEF ExIInv, OrphansClosed
    <3>2. Holding(q) /\ TaskOf(q) = t
      BY <2>1, <3>1 DEF Holding, Thread, TaskOf
    <3> QED BY <1>7, <3>2
  <2> QED BY <2>1
<1>12. ThreadsHeld'
  <2>1. ASSUME NEW th \in threads, NEW q \in Runners, Holding(q)', TaskOf(q)' = th[2]
        PROVE  runner'[q].pc = "executing" /\ Thread(q)' = th
    <3>1. q # r
      BY <1>3, <1>11, <2>1
    <3> QED BY <1>3, <2>1, <3>1 DEF ExIInv, ThreadsHeld, Holding, TaskOf, Thread
  <2> QED BY <1>2, <2>1 DEF ThreadsHeld
<1>13. OrphansClosed'
  <2>1. ASSUME NEW th \in threads
        PROVE  \/ Closed(th[2])'
               \/ \E q \in Runners : runner'[q].pc = "executing" /\ Thread(q)' = th
    <3>1. th[2] \in Tasks
      BY <1>1
    <3>2. CASE Closed(th[2])
      BY <3>1, <3>2, ClosedStays DEF ExIInv
    <3>3. ASSUME NEW q \in Runners, runner[q].pc = "executing", Thread(q) = th
          PROVE  runner'[q].pc = "executing" /\ Thread(q)' = th
      BY <1>2, <1>3, <3>3 DEF Thread
    <3> QED BY <3>2, <3>3 DEF ExIInv, OrphansClosed
  <2> QED BY <1>2, <2>1 DEF OrphansClosed
<1>14. ExclusiveExecution'
  BY <1>2 DEF ExIInv, ExclusiveExecution
<1> QED BY <1>10, <1>12, <1>13, <1>14 DEF ExIInv

\* The start of an execution keeps the invariant: the runner that holds the task
\* reads its new version.
LEMMA StartKeeps ==
    ASSUME ExIInv, [SupNext]_allVars, "stall" \notin Faults,
           NEW r \in Runners, StartsExecution(r)
    PROVE  ExIInv'
<1> DEFINE t == TaskOf(r)
<1>1. /\ SupTypeOK /\ TypeOK /\ ReadsAreOld
      /\ row \in [Tasks -> Row]
      /\ runner \in [Runners -> Runner \cup {Idle}]
      /\ threads \subseteq Procs \X Tasks \X Nat
      /\ runner[r].pc = "claimed" /\ Holding(r) /\ runner[r] # Idle
  BY DEF ExIInv, SupIInv, SupTypeOK, IInv, TypeOK, StartsExecution, Holding, Idle
<1>2. runner[r] \in Runner /\ t \in Tasks /\ runner[r].version \in Nat
  BY <1>1, BusyRunner
<1>3. /\ \A q \in Runners : q # r => runner'[q] = runner[q]
      /\ runner'[r].pc = "waiting"
      /\ runner'[r].task = runner[r].task
      /\ runner'[r].version = runner[r].version + 1
      /\ runner'[r].generation = runner[r].generation
      /\ UNCHANGED <<proc, threads>>
  BY <1>1, <1>2 DEF StartsExecution, Runner
<1>4. Holding(r)' /\ t' = t
  BY <1>3 DEF Holding, TaskOf
<1>5. /\ Owns(r) /\ row[t].version = runner[r].version
      /\ row'[t] = Started(row[t])
  BY <1>1, <1>2 DEF StartsExecution, StartTask, Owns, FencedOwner
<1>6. /\ row'[t].version = row[t].version + 1 /\ row'[t].owner = row[t].owner
      /\ row'[t].generation = row[t].generation /\ row'[t].lease = row[t].lease
  BY <1>1, <1>2, <1>5 DEF Started, Row
<1> HIDE DEF t
<1>7. ASSUME NEW q \in Busy, TaskOf(q) = t
      PROVE  runner[q].version # runner'[r].version
  <2>1. q \in Runners /\ runner[q] # Idle /\ runner[q].version \in Nat
    BY <1>1, BusyRunner DEF Busy, Idle
  <2>2. runner[q].version <= row[t].version
    BY <1>1, <1>7, <2>1 DEF ReadsAreOld, Reads, TaskOf
  <2> QED BY <1>2, <1>3, <1>5, <2>1, <2>2
<1>8. ASSUME NEW q \in Runners, q # r, Holding(q)
      PROVE  TaskOf(q) # t
  BY <1>1, <1>8 DEF ExIInv, OneHolder, t
<1>9. HolderOwns(r)'
  <2>1. CASE Closed(t)
    BY <1>2, <1>4, <2>1, ClosedStays DEF ExIInv, HolderOwns, t
  <2>2. CASE InCharge(r)
    <3>1. Owns(r)'
      BY <1>3, <1>4, <1>5, <1>6 DEF Owns, FencedOwner, Worker, t
    <3>2. InCharge(r)'
      BY <1>3, <1>4, <2>2 DEF InCharge, Serving, t
    <3> QED BY <3>1, <3>2 DEF HolderOwns
  <2> QED BY <1>1, <2>1, <2>2 DEF ExIInv, HoldersOwn, t
<1>10. SupIInv' /\ BusyInLoop' /\ OneVersion' /\ OneHolder' /\ HoldersOwn'
  BY <1>2, <1>3, <1>4, <1>7, <1>8, <1>9, OneMoves DEF t
<1>11. \A th \in threads : th[2] # t
  BY <1>1 DEF ExIInv, ThreadsHeld, t
<1>12. ThreadsHeld'
  <2>1. ASSUME NEW th \in threads, NEW q \in Runners, Holding(q)', TaskOf(q)' = th[2]
        PROVE  runner'[q].pc = "executing" /\ Thread(q)' = th
    <3>1. q # r
      BY <1>4, <1>11, <2>1 DEF t
    <3> QED BY <1>3, <2>1, <3>1 DEF ExIInv, ThreadsHeld, Holding, TaskOf, Thread
  <2> QED BY <1>3, <2>1 DEF ThreadsHeld
<1>13. OrphansClosed'
  <2>1. ASSUME NEW th \in threads
        PROVE  \/ Closed(th[2])'
               \/ \E q \in Runners : runner'[q].pc = "executing" /\ Thread(q)' = th
    <3>1. th[2] \in Tasks
      BY <1>1
    <3>2. CASE Closed(th[2])
      BY <3>1, <3>2, ClosedStays DEF ExIInv
    <3>3. ASSUME NEW q \in Runners, runner[q].pc = "executing", Thread(q) = th
          PROVE  runner'[q].pc = "executing" /\ Thread(q)' = th
      BY <1>1, <1>3, <3>3 DEF Thread
    <3> QED BY <3>2, <3>3 DEF ExIInv, OrphansClosed
  <2> QED BY <1>3, <2>1 DEF OrphansClosed
<1>14. ExclusiveExecution'
  BY <1>3 DEF ExIInv, ExclusiveExecution
<1> QED BY <1>10, <1>12, <1>13, <1>14 DEF ExIInv

\* The entry into the executor keeps the invariant: no other thread is of the task.
LEMMA AcquireKeeps ==
    ASSUME ExIInv, [SupNext]_allVars, "stall" \notin Faults,
           NEW r \in Runners, Acquire(r)
    PROVE  ExIInv'
<1> DEFINE t == TaskOf(r)
<1>1. /\ SupTypeOK
      /\ runner \in [Runners -> Runner \cup {Idle}]
      /\ threads \subseteq Procs \X Tasks \X Nat
      /\ runner[r].pc = "waiting" /\ Holding(r) /\ r \in Busy
  BY DEF ExIInv, SupIInv, SupTypeOK, Acquire, Holding, Busy
<1>2. runner[r] \in Runner /\ t \in Tasks
  BY <1>1, BusyRunner
<1>3. /\ \A q \in Runners : q # r => runner'[q] = runner[q]
      /\ runner'[r].pc = "executing"
      /\ runner'[r].task = runner[r].task
      /\ runner'[r].attempt = runner[r].attempt
      /\ runner'[r].version = runner[r].version
      /\ runner'[r].generation = runner[r].generation
      /\ UNCHANGED <<row, proc>>
      /\ threads' = threads \cup {Thread(r)}
  BY <1>1, <1>2 DEF Acquire, Goto, Runner
<1>4. Holding(r)' /\ t' = t /\ Thread(r)' = Thread(r) /\ Thread(r)[2] = t
  BY <1>3 DEF Holding, TaskOf, Thread
<1> HIDE DEF t
<1>5. ASSUME NEW q \in Runners, q # r, Holding(q)
      PROVE  TaskOf(q) # t
  BY <1>1, <1>5 DEF ExIInv, OneHolder, t
<1>6. ASSUME NEW q \in Busy, q # r, TaskOf(q) = t
      PROVE  runner[q].version # runner'[r].version
  BY <1>1, <1>3, <1>6 DEF ExIInv, OneVersion, t
<1>7. HolderOwns(r)'
  <2>1. Closed(t)' = Closed(t) /\ Owns(r)' = Owns(r) /\ InCharge(r)' = InCharge(r)
    BY <1>3, <1>4 DEF Closed, Exists, Done, Owns, FencedOwner, Worker, InCharge, Serving, t
  <2> QED BY <1>1, <2>1 DEF ExIInv, HoldersOwn, HolderOwns, t
<1>8. SupIInv' /\ BusyInLoop' /\ OneVersion' /\ OneHolder' /\ HoldersOwn'
  BY <1>2, <1>3, <1>4, <1>5, <1>6, <1>7, OneMoves DEF t
<1>9. \A th \in threads : th[2] # t
  BY <1>1 DEF ExIInv, ThreadsHeld, t
<1>10. ThreadsHeld'
  <2>1. ASSUME NEW th \in threads', NEW q \in Runners, Holding(q)', TaskOf(q)' = th[2]
        PROVE  runner'[q].pc = "executing" /\ Thread(q)' = th
    <3>1. CASE q = r
      BY <1>3, <1>4, <1>9, <2>1, <3>1 DEF t
    <3>2. CASE q # r
      <4>1. Holding(q) /\ TaskOf(q) = th[2] /\ TaskOf(q) # t
        BY <1>3, <1>5, <2>1, <3>2 DEF Holding, TaskOf
      <4>2. th \in threads
        BY <1>3, <1>4, <4>1
      <4> QED BY <1>3, <3>2, <4>1, <4>2 DEF ExIInv, ThreadsHeld, Thread
    <3> QED BY <3>1, <3>2
  <2> QED BY <2>1 DEF ThreadsHeld
<1>11. OrphansClosed'
  <2>1. ASSUME NEW th \in threads'
        PROVE  \/ Closed(th[2])'
               \/ \E q \in Runners : runner'[q].pc = "executing" /\ Thread(q)' = th
    <3>1. CASE th = Thread(r)
      BY <1>3, <1>4, <3>1
    <3>2. CASE th # Thread(r)
      <4>1. th \in threads /\ th[2] \in Tasks
        BY <1>1, <1>3, <3>2
      <4>2. CASE Closed(th[2])
        BY <4>1, <4>2, ClosedStays DEF ExIInv
      <4>3. ASSUME NEW q \in Runners, runner[q].pc = "executing", Thread(q) = th
            PROVE  runner'[q].pc = "executing" /\ Thread(q)' = th
        BY <1>1, <1>3, <4>3 DEF Thread
      <4> QED BY <4>1, <4>2, <4>3 DEF ExIInv, OrphansClosed
    <3> QED BY <3>1, <3>2
  <2> QED BY <2>1 DEF OrphansClosed
<1>12. ExclusiveExecution'
  <2>1. ASSUME NEW th1 \in threads', NEW th2 \in threads', th1[2] = th2[2]
        PROVE  th1 = th2
    BY <1>3, <1>4, <1>9, <2>1 DEF ExIInv, ExclusiveExecution
  <2> QED BY <2>1 DEF ExclusiveExecution
<1> QED BY <1>8, <1>10, <1>11, <1>12 DEF ExIInv

\* Without stalls of the event loop and without executor timeouts, no task is ever
\* executed by two threads at a time: not across crashes and restarts of any number
\* of processes, shared worker ids, retries, cancels, or a lease recovery that runs
\* beside the owners.
THEOREM ExecutionIsExclusive ==
    ASSUME "stall" \notin Faults, "timeout" \notin Faults
    PROVE  SupSafetySpec => []ExclusiveExecution
<1>1. SupInit => ExIInv
  <2> SUFFICES ASSUME SupInit
               PROVE  ExIInv
    OBVIOUS
  <2>1. \A r \in Runners : runner[r].pc = "idle"
    BY DEF SupInit, Idle
  <2>2. threads = {}
    BY DEF SupInit
  <2> QED
    BY <2>1, <2>2, SupInitIInv
    DEF ExIInv, BusyInLoop, OneVersion, OneHolder, HoldersOwn, ThreadsHeld, OrphansClosed,
        ExclusiveExecution, Busy, Holding
<1>2. ExIInv /\ [SupNext]_allVars => ExIInv'
  <2> SUFFICES ASSUME ExIInv, [SupNext]_allVars
               PROVE  ExIInv'
    OBVIOUS
  <2>1. SupTypeOK
    BY DEF ExIInv, SupIInv
  <2> QED BY <2>1, FadingSteps, FadingKeeps, ClaimKeeps, StartKeeps, AcquireKeeps
<1>3. ExIInv => ExclusiveExecution
  BY DEF ExIInv
<1> QED BY <1>1, <1>2, <1>3, PTL DEF SupSafetySpec
=============================================================================
