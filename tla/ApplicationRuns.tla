--------------------------- MODULE ApplicationRuns ---------------------------
(***************************************************************************)
(* RunApplicationService (src/src/paperclaw/service/application.py): runs of *)
(* the agent behind HTTP, each on a thread of a pool, with idempotent         *)
(* submission, cancellation by any caller and a bounded history of events     *)
(* that streams read (stream_events of service/fastapi_app.py).               *)
(*                                                                          *)
(* An event is its number: the history holds the last EventCapacity of them   *)
(* and ends names the terminal ones.  The engine of a run is reduced to its   *)
(* stop token, its events and the status it reports.                          *)
(***************************************************************************)
EXTENDS Integers, FiniteSets

CONSTANTS
    ServiceRunIds,   \* runs the service may be asked for, 1 .. n
    RequestKeys,     \* idempotency keys a client sends
    Digests,         \* what a request asks for
    MaxActiveRuns,   \* max_active_runs, also the threads of the pool
    EventCapacity,   \* event_capacity
    ReportsTried,    \* statuses engines report
    MaxEngineEvents, \* events each run emits between its first and its last
    MaxCancels       \* cancellations of each run

\* Runs are numbered and the client follows the first; "none" is no key.
ASSUME ServiceAssumption ==
    /\ ServiceRunIds \subseteq Nat \ {0} /\ 1 \in ServiceRunIds /\ IsFiniteSet(ServiceRunIds)
    /\ "none" \notin RequestKeys
    /\ MaxActiveRuns \in Nat \ {0}
    /\ EventCapacity \in Nat /\ EventCapacity >= 8
    /\ ReportsTried \subseteq {"completed", "failed", "stopped", "blocked", "budget_exhausted"}

VARIABLES
    record,     \* _runs: the record of each run, and its engine
    runOfKey,      \* _idempotency: the run of each key, 0 for none
    answered,   \* digest and run of each answer to a submission
    shutting,   \* _shutting_down
    stream      \* a client that follows run 1

apVars == <<record, runOfKey, answered, shutting, stream>>

ActiveRuns == {"accepted", "running", "cancelling"}
Reports == {"completed", "failed", "stopped", "blocked", "budget_exhausted"}

Unmade ==
    [status |-> "none", key |-> "none", digest |-> "none", asked |-> FALSE, engine |-> FALSE, known |-> FALSE,
     last |-> 0, ends |-> {}, at |-> "none", token |-> "none", stopping |-> 0, announcing |-> FALSE,
     emitted |-> 0, verdict |-> "none", cancels |-> 0]

ApInit ==
    /\ record = [r \in ServiceRunIds |-> Unmade]
    /\ runOfKey = [k \in RequestKeys |-> 0]
    /\ answered = {} /\ shutting = FALSE
    /\ stream = [at |-> "wait", cursor |-> 0, sawEnd |-> FALSE]

Where(r, where) == record[r].at = where
Put(r, new) == record' = [record EXCEPT ![r] = new] /\ UNCHANGED <<runOfKey, answered, shutting, stream>>

\* _append_event_locked
Appended(rec, terminal) == [rec EXCEPT !.last = @ + 1, !.ends = IF terminal THEN @ \union {rec.last + 1} ELSE @]

-----------------------------------------------------------------------------
(* Submission *)

\* submit, whole under the service's lock: a key that is known answers with its run or conflicts.
Create(r, key, digest) ==
    /\ ~shutting
    /\ record[r].status = "none" /\ \A q \in ServiceRunIds : q < r => record[q].status # "none"
    /\ key \in RequestKeys => runOfKey[key] = 0
    /\ Cardinality({q \in ServiceRunIds : record[q].status \in ActiveRuns}) < MaxActiveRuns
    /\ record' = [record EXCEPT ![r] =
                    Appended([Unmade EXCEPT !.status = "accepted", !.key = key, !.digest = digest, !.at = "queued"], FALSE)]
    /\ runOfKey' = [k \in RequestKeys |-> IF k = key THEN r ELSE runOfKey[k]]
    /\ answered' = answered \union {<<digest, r>>}
    /\ UNCHANGED <<shutting, stream>>

SubmitAgain(key, digest) ==
    /\ ~shutting
    /\ runOfKey[key] # 0 /\ record[runOfKey[key]].digest = digest
    /\ answered' = answered \union {<<digest, runOfKey[key]>>}
    /\ UNCHANGED <<record, runOfKey, shutting, stream>>

\* shutdown: what is queued still runs.
ShutDown == ~shutting /\ shutting' = TRUE /\ UNCHANGED <<record, runOfKey, answered, stream>>

-----------------------------------------------------------------------------
(* _execute, on a thread of the pool *)

OnThread == {r \in ServiceRunIds : record[r].at \notin {"none", "queued", "over"}}

\* The pool takes what was submitted first.
TakeUp(r) ==
    /\ Where(r, "queued") /\ \A q \in ServiceRunIds : Where(q, "queued") => r <= q
    /\ Cardinality(OnThread) < MaxActiveRuns
    /\ Put(r, [record[r] EXCEPT !.at = "make"])

\* The terminal event of the service, unless the engine has sent one.
Closing(rec) == IF rec.ends = {} THEN Appended(rec, TRUE) ELSE rec

FactoryRaises(r) ==
    /\ Where(r, "make")
    /\ Put(r, Closing([record[r] EXCEPT !.status = "failed", !.at = "over"]))

KeepEngine(r) ==
    /\ Where(r, "make")
    /\ Put(r, [record[r] EXCEPT !.engine = TRUE, !.at = "submit", !.status = IF @ = "accepted" THEN "running" ELSE @])

\* QueryEngine.submit makes the stop token before it says the run has started.
EngineBegins(r) == Where(r, "submit") /\ Put(r, [record[r] EXCEPT !.token = "open", !.at = "start"])

\* Mutant of RunStarted: the handler only notes the id of the run.
RunStartedOnly(r) ==
    /\ Where(r, "start")
    /\ Put(r, Appended([record[r] EXCEPT !.known = TRUE, !.status = "running", !.at = "run"], FALSE))

\* _handle_runtime_event of run.started: a cancellation that came too early for the engine is passed on.
RunStarted(r) ==
    /\ Where(r, "start")
    /\ Put(r, Appended([record[r] EXCEPT !.known = TRUE, !.status = IF record[r].asked THEN "cancelling" ELSE "running",
                                         !.at = IF record[r].asked THEN "stop" ELSE "run"], FALSE))

\* request_stop on the engine's own thread, and the event it sends when it was the first.
StopSelf(r) ==
    /\ Where(r, "stop")
    /\ Put(r, [record[r] EXCEPT !.token = "set", !.at = IF record[r].token = "open" THEN "announce" ELSE "run"])

AnnounceSelf(r) == Where(r, "announce") /\ Put(r, Appended([record[r] EXCEPT !.at = "run"], FALSE))

\* Any other event of the engine.
EngineEmits(r) ==
    /\ Where(r, "run") /\ record[r].emitted < MaxEngineEvents[r]
    /\ Put(r, Appended([record[r] EXCEPT !.emitted = @ + 1], FALSE))

EngineReports(r) ==
    /\ Where(r, "run")
    /\ \E s \in ReportsTried : (s = "stopped" => record[r].token = "set") /\ Put(r, [record[r] EXCEPT !.verdict = s, !.at = "end"])

\* _emit_terminal has three events for five statuses.
ShownAs(verdict) == IF verdict \in {"completed", "failed"} THEN verdict ELSE "stopped"

\* _handle_runtime_event of a terminal event.
TerminalEvent(r) ==
    /\ Where(r, "end")
    /\ Put(r, Appended([record[r] EXCEPT !.status = ShownAs(record[r].verdict), !.at = "return"], TRUE))

EngineReturns(r) == Where(r, "return") /\ Put(r, [record[r] EXCEPT !.token = "none", !.at = "finish"])

\* Mutant of EndServiceRun: the terminal event of the service, whatever the engine sent.
FinishAgain(r) ==
    /\ Where(r, "finish")
    /\ Put(r, Appended([record[r] EXCEPT !.status = record[r].verdict, !.at = "over"], TRUE))

\* The result of the run, and run_terminal of the plugins.
EndServiceRun(r) ==
    /\ Where(r, "finish")
    /\ Put(r, Closing([record[r] EXCEPT !.status = record[r].verdict, !.at = "over"]))

-----------------------------------------------------------------------------
(* Cancellation, on threads of callers *)

\* Mutant of AskCancel: a run is cancelled whatever has become of it.
AskCancelAnyway(r) ==
    /\ record[r].status # "none" /\ record[r].cancels < MaxCancels[r]
    /\ Put(r, Appended([record[r] EXCEPT !.asked = TRUE, !.status = "cancelling", !.cancels = @ + 1,
                                         !.stopping = IF record[r].engine /\ record[r].known THEN @ + 1 ELSE @], FALSE))

\* cancel: what it notes under the condition; stopping counts the callers about to call the engine.
AskCancel(r) ==
    /\ record[r].status \in ActiveRuns /\ record[r].cancels < MaxCancels[r]
    /\ Put(r, Appended([record[r] EXCEPT !.asked = TRUE, !.status = "cancelling", !.cancels = @ + 1,
                                         !.stopping = IF record[r].engine /\ record[r].known THEN @ + 1 ELSE @], FALSE))

\* request_stop: the token takes the first request, and none once the run has returned.
StopEngine(r) ==
    /\ record[r].stopping > 0
    /\ Put(r, [record[r] EXCEPT !.stopping = @ - 1, !.token = IF @ = "open" THEN "set" ELSE @,
                                !.announcing = @ \/ record[r].token = "open"])

\* run.stop_requested is sent outside every lock, maybe after the terminal event.
AnnounceStopped(r) == record[r].announcing /\ Put(r, Appended([record[r] EXCEPT !.announcing = FALSE], FALSE))

-----------------------------------------------------------------------------
(* The stream of run 1 *)

InHistory(rec) == {n \in 1..rec.last : n > rec.last - EventCapacity}
News == {n \in InHistory(record[1]) : n > stream.cursor}
Over == record[1].status \notin ActiveRuns /\ record[1].status # "none"

\* wait_for_events, and the events it yields; a wait that times out changes nothing.
Receive ==
    /\ stream.at = "wait" /\ (News # {} \/ Over)
    /\ stream' = [at |-> IF Over THEN "check" ELSE "wait",
                  cursor |-> IF News = {} THEN stream.cursor ELSE record[1].last,
                  sawEnd |-> stream.sawEnd \/ News \cap record[1].ends # {}]
    /\ UNCHANGED <<record, runOfKey, answered, shutting>>

\* The stream ends when nothing came since.
CheckOver ==
    /\ stream.at = "check"
    /\ stream' = [stream EXCEPT !.at = IF News = {} THEN "over" ELSE "wait"]
    /\ UNCHANGED <<record, runOfKey, answered, shutting>>

-----------------------------------------------------------------------------
ApNext ==
    \/ \E r \in ServiceRunIds :
        \/ \E key \in RequestKeys \union {"none"}, digest \in Digests : Create(r, key, digest)
        \/ TakeUp(r) \/ FactoryRaises(r) \/ KeepEngine(r) \/ EngineBegins(r) \/ RunStarted(r) \/ StopSelf(r) \/ AnnounceSelf(r)
        \/ EngineEmits(r) \/ EngineReports(r) \/ TerminalEvent(r) \/ EngineReturns(r) \/ EndServiceRun(r)
        \/ AskCancel(r) \/ StopEngine(r) \/ AnnounceStopped(r)
    \/ \E key \in RequestKeys, digest \in Digests : SubmitAgain(key, digest)
    \/ ShutDown \/ Receive \/ CheckOver

ApSpec == ApInit /\ [][ApNext]_apVars

-----------------------------------------------------------------------------
(* The state has its types. *)
ApTypeOK ==
    /\ \A r \in ServiceRunIds :
        /\ record[r].status \in ActiveRuns \union Reports \union {"none"}
        /\ record[r].token \in {"none", "open", "set"}
        /\ record[r].ends \subseteq 1..record[r].last
    /\ runOfKey \in [RequestKeys -> ServiceRunIds \union {0}]
    /\ answered \subseteq Digests \X ServiceRunIds

(* A cancellation that was accepted reaches the engine: as soon as the engine  *)
(* acts on its own, its token is set or a caller is about to set it, although  *)
(* cancel and the start of the run each read what the other has not yet        *)
(* written.                                                                    *)
CancelIsPassedOn ==
    \A r \in ServiceRunIds : record[r].asked /\ record[r].at \in {"run", "end"} =>
        record[r].token = "set" \/ record[r].stopping > 0

(* A run has one terminal event once it has ended and none before: the engine  *)
(* and the service both may send it.                                           *)
OneTerminalEvent ==
    \A r \in ServiceRunIds :
        /\ Cardinality(record[r].ends) <= 1
        /\ record[r].status \in Reports <=> record[r].ends # {}

(* A run that has returned keeps the status its engine reported, whatever was  *)
(* asked meanwhile.                                                            *)
ReportIsKept ==
    \A r \in ServiceRunIds : Where(r, "over") /\ record[r].verdict # "none" => record[r].status = record[r].verdict

(* A stream that ends has shown the terminal event, although events are        *)
(* dropped when the history is full and more may follow the terminal one.      *)
StreamEndsInformed == stream.at = "over" => stream.sawEnd

(* Every answer to a submission names a run of the request that was made, and  *)
(* no key has two runs.                                                        *)
AnswersFit ==
    /\ \A a \in answered : record[a[2]].digest = a[1]
    /\ \A r, q \in ServiceRunIds : record[r].key \in RequestKeys /\ record[r].key = record[q].key => r = q

(* The pool is not asked for more threads than it has, and no more runs than   *)
(* the limit count as active.                                                  *)
LimitsHold ==
    /\ Cardinality({r \in ServiceRunIds : record[r].status \in ActiveRuns}) <= MaxActiveRuns
    /\ Cardinality(OnThread) <= MaxActiveRuns

(* The service keeps its runs, their ends and their streams in step. *)
ApplicationSound ==
    ApTypeOK /\ CancelIsPassedOn /\ OneTerminalEvent /\ ReportIsKept /\ StreamEndsInformed /\ AnswersFit /\ LimitsHold
=============================================================================
