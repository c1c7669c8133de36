------------------------- MODULE MCTaskSupervisor -------------------------
(* Small instances of TaskSupervisor, and of the store it runs on, for TLC. *)
EXTENDS TaskSupervisor, TLC

CONSTANTS t1, t2, t3, w1, p1, p2, r1, r2

OneTask == {t1}
TwoTasks == {t1, t2}
TwoAttempts == [t \in Tasks |-> 2]
TwoThenOne == [t \in Tasks |-> IF t = t1 THEN 2 ELSE 1]

\* Two processes that share a worker_id, as two command lines on one database do.
SharedWorker == [p \in Procs |-> w1]
OneRunnerEach == (r1 :> p1) @@ (r2 :> p2)
BothInOne == [r \in {r1, r2} |-> p1]

\* The store alone, called by anyone in any order.  Three tasks: enough for a chain, a
\* fork and a join, with the one that may be retried in every place of the graph.  Once
\* all three exist, their dependencies connect them: the store relates tasks by nothing
\* else than dependencies and the order of claims.
Connected ==
    (\A t \in Tasks : Exists(t)) => Cardinality({tu \in Tasks \X Tasks : tu[1] \in row[tu[2]].deps}) >= 2
StoreAlone == SupInit /\ [][Next /\ UNCHANGED supVars /\ Connected']_allVars
ThreeTasks == {t1, t2, t3}
NoRunners == [r \in {} |-> p1]
OthersSymmetry == Permutations({t2, t3})
=============================================================================
