----------------------------- MODULE MCServices -----------------------------
(* Small instances of the services behind the HTTP interface and the task tools. *)
EXTENDS ServiceRuns, RedisBus, TaskAdmission

CONSTANTS r1, d1, c1, c2, p1, p2, k1, k2, x1, x2

Both == [p \in {p1, p2} |-> c1]

TwoCallers == {c1, c2}
TwoContents == {x1, x2}

VARIABLE part  \* the component that runs, no other takes a step

\* The value of a variable of a component that does not run and that no property reads.
Unset == 0

AllVars == <<part, runsVars, redisVars, vars>>

SuiteInit ==
    /\ part \in {"runs", "redis", "admission"}
    /\ RunsInit /\ (part = "runs" \/ (~stalls))
    /\ RedisInit
    /\ Init

\* Three lives of a service where leases are kept, two where they may also stall.
LivesBound == stalls => \A s \in Services : s > 2 => service[s] = "down"

SuiteNext ==
    \/ part = "runs" /\ RunsNext /\ LivesBound' /\ UNCHANGED <<part, redisVars, vars>>
    \/ part = "redis" /\ RedisNext /\ UNCHANGED <<part, runsVars, vars>>
    \/ part = "admission" /\ Next /\ UNCHANGED <<part, runsVars, redisVars>>

SuiteSpec ==
    /\ SuiteInit /\ [][SuiteNext]_AllVars
    /\ \A s \in Services : WF_runsVars(part = "runs" /\ (CountReceipts(s) \/ Reconcile(s) \/ Started(s) \/ \E r \in Runs : Accept(s, r)))
    /\ \A s \in Services, d \in Drainers : WF_runsVars(part = "runs" /\ (Claim(s, d) \/ ClaimNothing(s, d) \/ GiveBack(s, d) \/ LookAgain(s, d) \/ Begin(s, d)
                                \/ Acted(s, d) \/ EngineEnds(s, d) \/ Finalize(s, d) \/ Release(s, d)))
    /\ \A p \in Procs : WF_redisVars(part = "redis" /\ (Pull(p) \/ Serve(p)))
    /\ WF_redisVars(part = "redis" /\ \E x \in Consumers : \E n \in pending[x] : GrowIdle(x, n))

(* The promises that need fairness, each where its component is the one that runs. *)
EveryQueuedRunEnds == part = "runs" => QueuedRunsEnd
EveryStreamMessageServed == part = "redis" => EveryMessageServed
=============================================================================
