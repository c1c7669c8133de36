------------------------------ MODULE BusTeams ------------------------------
(***************************************************************************)
(* The plain team runtime over the bus with the trace of its runs:            *)
(* BusDrivenTeamRuntime (src/src/paperclaw/multiagent/bus_runtime.py) pulls a *)
(* request, runs the coordinator on it and acknowledges it after its verdict; *)
(* SQLiteTeamTraceBridge (multiagent/observed_runtime.py) stands before the   *)
(* bus and writes what is published into the session events of the run.       *)
(* TeamRuntime has the runtime that replaced it, with its outbox.             *)
(*                                                                          *)
(* One process at a time consumes; it crashes between any two transactions,   *)
(* and any transaction may raise.  A message is its type and its attempt.     *)
(***************************************************************************)
EXTENDS Integers, Sequences, FiniteSets

CONSTANTS
    TeamRequests,     \* team requests, 1 .. n, in the order of their first publication
    Poison,       \* those whose payload does not parse
    BusAttempts,  \* max_attempts
    MaxTroubles,  \* crashes and transactions that raise
    BusSubmits    \* submissions

ASSUME BusTeamsAssumption == BusAttempts \in Nat \ {0} /\ Poison \subseteq TeamRequests

VARIABLES
    sent,       \* the messages of each request on the bus, in the order of publication
    acked,      \* the cursor of the consumer on the topic of requests
    row,        \* team_bus_attempts
    served,       \* the process: what it is at, its request, attempt and message, what the bridge is at, and
                \* whether it has left the try clause
    traced,     \* the session events of the run of each request
    ended,      \* the requests whose run has ended_at
    known,      \* _started of the bridge, lost with the process
    mishaps     \* crashes, faults and submissions so far

btVars == <<sent, acked, row, served, traced, ended, known, mishaps>>

AtPeace == [at |-> "idle", request |-> 0, attempt |-> 0, message |-> <<"none", 0>>, next |-> "idle", bridge |-> "none", failing |-> FALSE]

BtInit ==
    /\ sent = [r \in TeamRequests |-> <<>>] /\ acked = 0
    /\ row = [r \in TeamRequests |-> [attempts |-> 0, terminal |-> FALSE]]
    /\ served = AtPeace
    /\ traced = [r \in TeamRequests |-> <<>>] /\ ended = {} /\ known = {}
    /\ mishaps = [crashes |-> 0, faults |-> 0, submits |-> 0]

InSeq(x, s) == \E i \in 1..Len(s) : s[i] = x
WithNew(s, x) == IF InSeq(x, s) THEN s ELSE Append(s, x)
Verdicts == {"terminal", "dlq"}

-----------------------------------------------------------------------------
(* The bridge *)

\* publish: the bus answers a key it has with the message it has, and the bridge observes that as well.
PublishOf(r, message, next) ==
    /\ sent' = [sent EXCEPT ![r] = WithNew(@, message)]
    /\ served' = [served EXCEPT !.at = "observe", !.request = r, !.message = message, !.next = next,
                            !.bridge = IF r \in known THEN "append" ELSE "start"]

PublishStep(at, message, next) ==
    /\ served.at = at
    /\ PublishOf(served.request, message, next)
    /\ UNCHANGED <<acked, row, traced, ended, known, mishaps>>

Observes(stage) == served.at = "observe" /\ served.bridge = stage /\ UNCHANGED <<sent, acked, row, mishaps>>
Observed == served' = [served EXCEPT !.at = served.next, !.bridge = "none"]

\* _ensure_run: the conversation and the run, then the run counts as started ...
EnsureRun ==
    /\ Observes("start")
    /\ known' = known \union {served.request}
    /\ served' = [served EXCEPT !.bridge = "say"]
    /\ UNCHANGED <<traced, ended>>

\* ... and only then is its first event written, under an id of its own.
SayStarted ==
    /\ Observes("say")
    /\ traced' = [traced EXCEPT ![served.request] = WithNew(@, <<"started", 0>>)]
    /\ served' = [served EXCEPT !.bridge = "append"]
    /\ UNCHANGED <<ended, known>>

\* Mutant of AppendTrace: the event gets an id of its own.
AppendTraceAgain ==
    /\ Observes("append")
    /\ traced' = [traced EXCEPT ![served.request] = Append(@, served.message)]
    /\ IF served.message[1] \in Verdicts THEN served' = [served EXCEPT !.bridge = "end"] ELSE Observed
    /\ UNCHANGED <<ended, known>>

\* _append_locked: the id of the event is the id of the message.
AppendTrace ==
    /\ Observes("append")
    /\ traced' = [traced EXCEPT ![served.request] = WithNew(@, served.message)]
    /\ IF served.message[1] \in Verdicts THEN served' = [served EXCEPT !.bridge = "end"] ELSE Observed
    /\ UNCHANGED <<ended, known>>

\* end_run of the repository
EndTrace ==
    /\ Observes("end")
    /\ ended' = ended \union {served.request}
    /\ Observed
    /\ UNCHANGED <<traced, known>>

-----------------------------------------------------------------------------
(* Submission and consumption *)

\* submit, and again: requests get their sequence in their order.
SubmitRequest(r) ==
    /\ served.at = "idle" /\ mishaps.submits < BusSubmits
    /\ \A q \in TeamRequests : q < r => sent[q] # <<>>
    /\ PublishOf(r, <<"request", 0>>, "idle")
    /\ mishaps' = [mishaps EXCEPT !.submits = @ + 1]
    /\ UNCHANGED <<acked, row, traced, ended, known>>

\* run_once with its default limit, and begin_attempt.
BeginAttempt ==
    /\ served.at = "idle" /\ acked + 1 \in TeamRequests /\ sent[acked + 1] # <<>>
    /\ LET r == acked + 1
           state == IF row[r].terminal THEN row[r] ELSE [row[r] EXCEPT !.attempts = @ + 1]
       IN /\ row' = [row EXCEPT ![r] = state]
          /\ served' = [AtPeace EXCEPT !.at = IF state.terminal THEN "ack" ELSE "accept", !.request = r, !.attempt = state.attempts,
                                     !.failing = state.terminal]
    /\ UNCHANGED <<sent, acked, traced, ended, known, mishaps>>

AcceptRequest == served.request \notin Poison /\ PublishStep("accept", <<"accepted", served.attempt>>, "run")

Jump(from, to) == served.at = from /\ served' = [served EXCEPT !.at = to] /\ UNCHANGED <<sent, acked, row, traced, ended, known, mishaps>>

\* from_payload raises before anything is published.
RefusePayload == served.request \in Poison /\ Jump("accept", "failed")

\* The coordinator's events come with ids of their own.
TeamEvent == served.at = "run" /\ ~InSeq(<<"event", served.attempt>>, sent[served.request]) /\ PublishStep("run", <<"event", served.attempt>>, "run")
CoordinatorReturns == Jump("run", "metrics")
CoordinatorRaises == Jump("run", "failed")

Metrics == PublishStep("metrics", <<"metrics", served.attempt>>, "verdict")
PublishVerdict == PublishStep("verdict", <<"terminal", served.attempt>>, "mark")

MarkTerminal ==
    /\ served.at = "mark"
    /\ row' = [row EXCEPT ![served.request].terminal = TRUE]
    /\ served' = [served EXCEPT !.at = "ack"]
    /\ UNCHANGED <<sent, acked, traced, ended, known, mishaps>>

AckRequest ==
    /\ served.at = "ack"
    /\ acked' = IF served.request > acked THEN served.request ELSE acked
    /\ served' = AtPeace
    /\ UNCHANGED <<sent, row, traced, ended, known, mishaps>>

\* The except clause: mark_failure, which leaves attempts and terminal alone.
MarkFailure ==
    /\ served.at = "failed"
    /\ served' = [served EXCEPT !.at = "report", !.failing = TRUE]
    /\ UNCHANGED <<sent, acked, row, traced, ended, known, mishaps>>

\* Mutant of ReportFailure: a request that has used up its attempts is marked before it is dead-lettered.
ReportFailureLate ==
    IF served.attempt >= BusAttempts THEN Jump("report", "mark")
    ELSE PublishStep("report", <<"retry", served.attempt>>, "idle")

\* The retry that is scheduled is that the message is not acknowledged.
ReportFailure ==
    IF served.attempt >= BusAttempts THEN PublishStep("report", <<"dlq", served.attempt>>, "mark")
    ELSE PublishStep("report", <<"retry", served.attempt>>, "idle")

-----------------------------------------------------------------------------
(* What goes wrong *)

\* A transaction raises: the coordinator's handlers lose the event, the try clause fails the attempt,
\* and what fails while submitting or failing leaves the process.
Fault ==
    /\ mishaps.crashes + mishaps.faults < MaxTroubles
    /\ served.at \in {"observe", "metrics", "verdict", "mark", "ack", "report"}
    /\ mishaps' = [mishaps EXCEPT !.faults = @ + 1]
    /\ IF served.failing \/ served.attempt = 0
       THEN served' = AtPeace /\ known' = {}
       ELSE /\ served' = [served EXCEPT !.bridge = "none", !.at = IF served.at = "observe" /\ served.message[1] = "event" THEN "run" ELSE "failed"]
            /\ known' = known
    /\ UNCHANGED <<sent, acked, row, traced, ended>>

\* A new process starts from what is stored.
CrashAll ==
    /\ mishaps.crashes + mishaps.faults < MaxTroubles
    /\ mishaps' = [mishaps EXCEPT !.crashes = @ + 1]
    /\ served' = AtPeace /\ known' = {}
    /\ UNCHANGED <<sent, acked, row, traced, ended>>

-----------------------------------------------------------------------------
BtNext ==
    \/ \E r \in TeamRequests : SubmitRequest(r)
    \/ EnsureRun \/ SayStarted \/ AppendTrace \/ EndTrace
    \/ BeginAttempt \/ AcceptRequest \/ RefusePayload \/ TeamEvent \/ CoordinatorReturns \/ CoordinatorRaises
    \/ Metrics \/ PublishVerdict \/ MarkTerminal \/ AckRequest \/ MarkFailure \/ ReportFailure
    \/ Fault \/ CrashAll

BtSpec == BtInit /\ [][BtNext]_btVars

-----------------------------------------------------------------------------
Troubles == mishaps.crashes + mishaps.faults
VerdictsIn(s) == {i \in 1..Len(s) : s[i][1] \in Verdicts}

(* The state has its types. *)
BtTypeOK ==
    /\ acked \in TeamRequests \union {0}
    /\ \A r \in TeamRequests : row[r].attempts \in Nat
    /\ ended \subseteq TeamRequests /\ known \subseteq TeamRequests

(* A request that is passed is marked, and one that is marked has its verdict   *)
(* on the bus, wherever the process stops.                                     *)
VerdictThenMarkThenAck ==
    \A r \in TeamRequests : /\ r <= acked => row[r].terminal
                        /\ row[r].terminal => VerdictsIn(sent[r]) # {}

(* A request has as many verdicts as went wrong and one, and as many attempts   *)
(* as it may have and went wrong: each crash or fault costs at most one.        *)
TroubleIsBounded ==
    \A r \in TeamRequests :
        /\ Cardinality(VerdictsIn(sent[r])) <= 1 + Troubles
        /\ row[r].attempts <= BusAttempts + Troubles

(* A verdict of the team comes after the metrics of its attempt.                *)
MetricsBeforeVerdict ==
    \A r \in TeamRequests : \A i \in 1..Len(sent[r]) : sent[r][i][1] = "terminal" =>
        \E j \in 1..(i - 1) : sent[r][j] = <<"metrics", sent[r][i][2]>>

(* The trace has the messages of the run once each and in their order, the      *)
(* request apart, which may be submitted again, and lacks at most what was      *)
(* cut off.                                                                    *)
TraceFollowsTheBus ==
    \A r \in TeamRequests :
        LET Place(x) == CHOOSE i \in 1..Len(sent[r]) : sent[r][i] = x
            OfRun == {i \in 1..Len(traced[r]) : traced[r][i][1] \notin {"started", "request"}}
            missing == {i \in 1..Len(sent[r]) : ~InSeq(sent[r][i], traced[r])}
        IN /\ \A i \in OfRun : InSeq(traced[r][i], sent[r])
           /\ \A i, j \in OfRun : i < j => Place(traced[r][i]) < Place(traced[r][j])
           /\ Cardinality(missing) <= Troubles + (IF served.at = "observe" /\ served.request = r THEN 1 ELSE 0)

(* The trace of a run can be read unless something went wrong: it starts with   *)
(* its start, has one end, and the end is last; a crash alone never moves the   *)
(* start.                                                                      *)
TraceIsReadable ==
    \A r \in TeamRequests :
        /\ mishaps.faults = 0 /\ traced[r] # <<>> => traced[r][1] = <<"started", 0>>
        /\ Troubles = 0 => VerdictsIn(traced[r]) \subseteq {Len(traced[r])}
        /\ r \in ended => VerdictsIn(traced[r]) # {}

(* TeamRequests get their verdicts, and traces tell of them. *)
BusTeamsSound ==
    BtTypeOK /\ VerdictThenMarkThenAck /\ TroubleIsBounded /\ MetricsBeforeVerdict /\ TraceFollowsTheBus /\ TraceIsReadable
=============================================================================
