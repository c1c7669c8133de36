--------------------------- MODULE WorkerGateway ---------------------------
(***************************************************************************)
(* Executions on another machine (src/src/paperclaw/executor/): callers whose *)
(* gateway executor speaks HTTP with a gateway (gateway.py, http_gateway.py),   *)
(* the gateway's records, and the child processes it starts                   *)
(* (subprocess.py, child_host.py).  A response may be lost, a request may      *)
(* arrive after its caller gave up, and the gateway may stop and start again,  *)
(* when it knows nothing of before.                                            *)
(*                                                                          *)
(* A request is a record of its execution id, the digest of its content, and   *)
(* what is wrong with it.  Children are numbered in the order they started.    *)
(***************************************************************************)
EXTENDS Integers, Sequences, FiniteSets

CONSTANTS
    Remotes,
    Executions,     \* execution ids
    RemoteRequests,       \* ExecutionRequests: id, digest, fault
    MaxRecords,     \* max_execution_records
    MaxCallsSent, MaxLosses, MaxLives, MaxChildren

\* A request is for an execution, and the gateway keeps at least one record.
ASSUME WgAssumption ==
    /\ \A r \in RemoteRequests : r.id \in Executions
    /\ MaxRecords \in Nat \ {0}

VARIABLES
    life,       \* which process the gateway is
    record,     \* _executions
    child,      \* the processes and their handles
    call,       \* every caller: its HTTP call under way
    handle,     \* every caller: its RemoteExecutionHandle
    lateCalls,  \* requests on their way whose caller does not wait any more
    calls,
    lost        \* responses lost and restarts so far

wgVars == <<life, record, child, call, handle, lateCalls, calls, lost>>

Definite == {"succeeded", "failed", "cancelled", "timed_out", "crashed"}
NoRecord == [digest |-> "none", child |-> 0, result |-> "none"]
NoMessage == [op |-> "none", id |-> 0, digest |-> "none", fault |-> "none", since |-> 0]
NoAnswer == [as |-> "none", digest |-> "none", result |-> "none"]
Refused == [NoAnswer EXCEPT !.as = "refused"]       \* an HTTP status of 4xx
Uncertain == [NoAnswer EXCEPT !.as = "uncertain"]   \* no response, or one of 5xx
NoHandle == [id |-> 0, digest |-> "none", since |-> 0, result |-> "none", told |-> {}]

-----------------------------------------------------------------------------
(* SubprocessWorkerExecutor and its child *)

NewChild(m, stubborn) ==
    [id |-> m.id, digest |-> m.digest, life |-> life, verbose |-> m.fault = "verbose", running |-> TRUE, stubborn |-> stubborn, wrote |-> "none", code |-> 0,
     result |-> "none", closed |-> FALSE, dir |-> TRUE, by |-> NoMessage]

\* _read_terminal_result
FromFile(c) ==
    CASE c.wrote = "none" -> "crashed"
      [] OTHER -> IF c.code = 0 THEN "succeeded" ELSE "crashed"

\* _terminate: the process may finish its work while the signals reach it, or survive them.
Terminated(c, status) ==
    IF c.result # "none" THEN {c}
    ELSE IF c.running /\ c.stubborn THEN {[c EXCEPT !.result = "unknown_outcome"]}
    ELSE {[c EXCEPT !.running = FALSE, !.code = IF c.running THEN 1 ELSE @, !.result = status, !.wrote = w] :
              w \in IF c.running /\ c.wrote = "none" THEN {"none", "succeeded"} ELSE {c.wrote}}

\* SubprocessExecutionHandle.poll; timeout_seconds may have passed, which only a poll finds out.
Polled(c) ==
    IF c.result # "none" \/ c.closed THEN {c}
    ELSE IF c.running THEN {c} \cup Terminated(c, "timed_out")
    ELSE {[c EXCEPT !.result = FromFile(c)]}

\* cancel
CancelledChild(c) == UNION {IF d.result # "none" THEN {d} ELSE Terminated(d, "cancelled") : d \in Polled(c)}

\* close
HandleClosed(c) ==
    IF c.closed THEN {c}
    ELSE {[d EXCEPT !.closed = TRUE, !.dir = FALSE] : d \in IF c.running THEN Terminated(c, "cancelled") ELSE {c}}

\* run_request_file: the result is written before the process ends, well or not; a
\* directory that was removed is made again.
ChildEnds(k, wrote, code) ==
    /\ child[k].running
    /\ code = 0 => wrote = "succeeded"
    /\ child' = [child EXCEPT ![k].running = FALSE, ![k].wrote = wrote, ![k].code = code, ![k].dir = @ \/ wrote # "none"]
    /\ UNCHANGED <<life, record, call, handle, lateCalls, calls, lost>>

-----------------------------------------------------------------------------
(* WorkerGatewayService: what a request may lead to, as a set of outcomes. *)

Outcome(r, ch, answer) == [record |-> r, child |-> ch, answer |-> answer]
Unchanged(answer) == {Outcome(record, child, answer)}

\* _snapshot_locked and _store_terminal_locked, of the handle as it was left.
BoundResult(c) == IF c.result = "succeeded" /\ c.verbose THEN "failed" ELSE c.result
Seen(id, c) ==
    LET r == record[id]
    IN  IF c.result = "none"
        THEN {Outcome(record, [child EXCEPT ![r.child] = c], [as |-> "ok", digest |-> r.digest, result |-> "none"])}
        ELSE {Outcome([record EXCEPT ![id].result = BoundResult(c)], [child EXCEPT ![r.child] = d],
                      [as |-> "ok", digest |-> r.digest, result |-> BoundResult(c)]) : d \in HandleClosed(c)}
Snapshot(id) ==
    LET r == record[id]
    IN  IF r.result # "none" THEN Unchanged([as |-> "ok", digest |-> r.digest, result |-> r.result])
        ELSE UNION {Seen(id, c) : c \in Polled(child[r.child])}

\* get
Got(m) == IF record[m.id] = NoRecord THEN Unchanged(Refused) ELSE Snapshot(m.id)

\* cancel
CancelledFor(m) ==
    LET r == record[m.id]
    IN  IF r = NoRecord THEN Unchanged(Refused)
        ELSE IF r.result # "none" THEN Snapshot(m.id)
        ELSE UNION {Seen(m.id, [c EXCEPT !.by = IF c.result = "cancelled" THEN m ELSE @]) : c \in CancelledChild(child[r.child])}

\* Mutant of Submitted: a request whose execution is not running is started again.
StartedAgain(m) ==
    IF m.fault \in {"large", "outside"} THEN Unchanged(Refused)
    ELSE IF record[m.id].child # 0 /\ record[m.id].result = "none"
    THEN IF record[m.id].digest = m.digest THEN Snapshot(m.id) ELSE Unchanged(Refused)
    ELSE {Outcome([record EXCEPT ![m.id] = [digest |-> m.digest, child |-> Len(child) + 1, result |-> "none"]],
                  Append(child, NewChild(m, FALSE)), [as |-> "ok", digest |-> m.digest, result |-> "none"])}

\* submit; a process that does not start leaves no record, and the status is 500.
Submitted(m) ==
    IF m.fault \in {"large", "outside"} THEN Unchanged(Refused)
    ELSE IF record[m.id] # NoRecord THEN IF record[m.id].digest = m.digest THEN Snapshot(m.id) ELSE Unchanged(Refused)
    ELSE IF Cardinality({e \in Executions : record[e] # NoRecord}) >= MaxRecords \/ m.fault = "entrypoint" THEN Unchanged(Refused)
    ELSE Unchanged(Uncertain) \cup
         (IF Len(child) >= MaxChildren THEN {}
          ELSE {Outcome([record EXCEPT ![m.id] = [digest |-> m.digest, child |-> Len(child) + 1, result |-> "none"]],
                        Append(child, NewChild(m, stubborn)), [as |-> "ok", digest |-> m.digest, result |-> "none"]) : stubborn \in BOOLEAN})

ServedRemote(m) == CASE m.op = "submit" -> Submitted(m) [] m.op = "get" -> Got(m) [] OTHER -> CancelledFor(m)

-----------------------------------------------------------------------------
(* RemoteWorkerExecutor over HttpWorkerGatewayTransport *)

Send(c, message) ==
    /\ call[c] = NoMessage /\ calls < MaxCallsSent
    /\ calls' = calls + 1
    /\ call' = [call EXCEPT ![c] = message]
    /\ UNCHANGED <<life, record, child, handle, lateCalls, lost>>

\* start, or start again after an error
StartRemote(c, r) ==
    /\ handle[c] = NoHandle
    /\ Send(c, [op |-> "submit", id |-> r.id, digest |-> r.digest, fault |-> r.fault, since |-> life])

\* poll and cancel ask only while the snapshot is of a running execution.
AskRemote(c, op) ==
    /\ handle[c] # NoHandle /\ handle[c].result = "none"
    /\ Send(c, [op |-> op, id |-> handle[c].id, digest |-> handle[c].digest, fault |-> "none", since |-> handle[c].since])

\* Closing a client handle is not gateway cancellation.
CloseRemote(c) ==
    /\ call[c] = NoMessage /\ handle[c] # NoHandle
    /\ handle' = [handle EXCEPT ![c] = NoHandle]
    /\ UNCHANGED <<life, record, child, call, lateCalls, calls, lost>>

\* _validated_snapshot; whatever else comes is raised, except of a cancellation that
\* may have happened.
Own(m, answer) == answer.as = "ok" /\ answer.digest = m.digest
Taken(h, result) == [h EXCEPT !.result = result, !.told = @ \cup ({result} \ {"none"})]
Hears(h, m, answer) ==
    IF Own(m, answer)
    THEN Taken(IF m.op = "submit" THEN [NoHandle EXCEPT !.id = m.id, !.digest = m.digest, !.since = m.since] ELSE h, answer.result)
    ELSE IF m.op = "cancel" /\ answer # Refused THEN [h EXCEPT !.told = @ \cup {"unknown_outcome"}]
    ELSE h

\* A request is served, and its caller hears the answer or, of a response that is lost, nothing.
ServeRemote(c, isLost) ==
    /\ call[c] # NoMessage
    /\ isLost => lost < MaxLosses
    /\ \E o \in ServedRemote(call[c]) :
          /\ record' = o.record /\ child' = o.child
          /\ handle' = [handle EXCEPT ![c] = Hears(@, call[c], IF isLost THEN Uncertain ELSE o.answer)]
    /\ call' = [call EXCEPT ![c] = NoMessage]
    /\ lost' = IF isLost THEN lost + 1 ELSE lost
    /\ UNCHANGED <<life, lateCalls, calls>>

\* A caller gives up while its request is still on its way.
GiveUp(c) ==
    /\ call[c] # NoMessage /\ lost < MaxLosses
    /\ lost' = lost + 1
    /\ lateCalls' = lateCalls \cup {call[c]}
    /\ handle' = [handle EXCEPT ![c] = Hears(@, call[c], Uncertain)]
    /\ call' = [call EXCEPT ![c] = NoMessage]
    /\ UNCHANGED <<life, record, child, calls>>

ServeLate(m) ==
    /\ \E o \in ServedRemote(m) : record' = o.record /\ child' = o.child
    /\ lateCalls' = lateCalls \ {m}
    /\ UNCHANGED <<life, call, handle, calls, lost>>

\* The process ends, in order (close) or not, and another one starts.
Restart(inOrder) ==
    /\ life < MaxLives /\ lost < MaxLosses
    /\ lost' = lost + 1
    /\ life' = life + 1
    /\ record' = [e \in Executions |-> NoRecord]
    /\ IF inOrder
       THEN LET open == {k \in DOMAIN child : child[k].life = life /\ ~child[k].closed}
            IN  \E done \in [open -> UNION {HandleClosed(child[k]) : k \in open}] :
                   /\ \A k \in open : done[k] \in HandleClosed(child[k])
                   /\ child' = [k \in DOMAIN child |-> IF k \in open THEN done[k] ELSE child[k]]
       ELSE UNCHANGED child
    /\ lateCalls' = {}
    /\ handle' = [c \in Remotes |-> IF call[c] = NoMessage THEN handle[c] ELSE Hears(handle[c], call[c], Uncertain)]
    /\ call' = [c \in Remotes |-> NoMessage]
    /\ UNCHANGED calls

-----------------------------------------------------------------------------
WgInit ==
    /\ life = 1
    /\ record = [e \in Executions |-> NoRecord] /\ child = <<>>
    /\ call = [c \in Remotes |-> NoMessage] /\ handle = [c \in Remotes |-> NoHandle]
    /\ lateCalls = {} /\ calls = 0 /\ lost = 0

WgNext ==
    \/ \E c \in Remotes :
          \/ \E r \in RemoteRequests : StartRemote(c, r)
          \/ \E op \in {"get", "cancel"} : AskRemote(c, op)
          \/ \E isLost \in BOOLEAN : ServeRemote(c, isLost)
          \/ GiveUp(c) \/ CloseRemote(c)
    \/ \E m \in lateCalls : ServeLate(m)
    \/ \E k \in DOMAIN child :
          \E wrote \in {"none", "succeeded"}, code \in {0, 1} : ChildEnds(k, wrote, code)
    \/ \E inOrder \in BOOLEAN : Restart(inOrder)

WgSpec == WgInit /\ [][WgNext]_wgVars

-----------------------------------------------------------------------------
(***************************************************************************)
(* However requests are lost, repeated or late: a gateway process starts one   *)
(* child for an execution id; a caller that is told of success is told of a    *)
(* child that ended well with its own request, two callers are told the same   *)
(* of one execution, and nothing definite is told of one that may still run;   *)
(* an execution is cancelled by a caller of the same request, unless its       *)
(* handle is from before a restart.  A record ends with its handle closed; a   *)
(* closed handle leaves a process only when the signals did not end it, and    *)
(* its directory only when that process wrote afterwards.                      *)
(***************************************************************************)
OneChildEach == \A j, k \in DOMAIN child : child[j].id = child[k].id /\ child[j].life = child[k].life => j = k
ChildOf(h) == {k \in DOMAIN child : child[k].id = h.id /\ child[k].life = h.since /\ child[k].digest = h.digest}
ToldTheTruth ==
    \A c \in Remotes :
        /\ Cardinality(handle[c].told \cap Definite) <= 1
        /\ handle[c].told \cap Definite # {} /\ handle[c].since = life =>
              \E k \in ChildOf(handle[c]) : ~child[k].running /\ BoundResult(child[k]) \in handle[c].told
        /\ "succeeded" \in handle[c].told => \E k \in DOMAIN child : child[k].id = handle[c].id /\ child[k].digest = handle[c].digest
                                                                     /\ child[k].wrote = "succeeded" /\ child[k].code = 0
ToldTheSame ==
    \A c, d \in Remotes :
        handle[c].id = handle[d].id /\ handle[c].digest = handle[d].digest /\ handle[c].since = life /\ handle[d].since = life =>
            handle[c].result = handle[d].result \/ "none" \in {handle[c].result, handle[d].result}
CancelIsOwn ==
    \A k \in DOMAIN child : child[k].result = "cancelled" /\ child[k].by.since = child[k].life => child[k].by.digest = child[k].digest
RecordsEnd ==
    \A e \in Executions : record[e] # NoRecord =>
        (record[e].result # "none") = child[record[e].child].closed /\ child[record[e].child].digest = record[e].digest
NothingLeftBehind ==
    \A k \in DOMAIN child : child[k].closed =>
        /\ child[k].running => child[k].stubborn /\ child[k].result = "unknown_outcome"
        /\ child[k].dir => child[k].stubborn /\ child[k].wrote # "none"
GatewaySound ==
    /\ OneChildEach /\ ToldTheTruth /\ ToldTheSame /\ CancelIsOwn /\ RecordsEnd /\ NothingLeftBehind
    /\ Cardinality({e \in Executions : record[e] # NoRecord}) <= MaxRecords
=============================================================================
