----------------------------- MODULE TeamRuntime -----------------------------
(***************************************************************************)
(* Team runs over the message bus: ResilientBusDrivenTeamRuntime           *)
(* (src/src/paperclaw/multiagent/resilient_runtime.py) with the ordered    *)
(* outbox (ordered_outbox.py).  A process is one call of execute, as the   *)
(* command line makes it: it submits its request and then serves every     *)
(* request that waits for its consumer_id, its own and those that earlier  *)
(* processes left, until its own is finished.                              *)
(*                                                                         *)
(* The bus and the state store are two databases, and every call of either *)
(* is one step; a process may crash between any two of them.  The          *)
(* coordinator and its progress events are the environment.                *)
(***************************************************************************)
EXTENDS MessageBus, FiniteSetsExt

CONSTANTS
    Procs,         \* calls of execute
    Requests,      \* request ids
    RequestOf,     \* the request each process submits; two may submit the same
    Client,        \* sender of requests and cancellations
    Me,            \* consumer_id of the runtime
    CancelMe,      \* the cancellation consumer of each request
    Limit,         \* run_once is called with it: 1 by default, 50 in execute
    MaxAttempts,
    MaxCycles,     \* polls of one execute
    MaxAlive       \* processes alive at a time

ASSUME TeamAssumption ==
    /\ {"requests", "events", "dlq", "cancels"} \subseteq Topics
    /\ IsFiniteSet(Procs) /\ IsFiniteSet(Requests)
    /\ RequestOf \in [Procs -> Requests]
    /\ Me \in Consumers
    /\ CancelMe \in [Requests -> Consumers \ {Me}]
    /\ \A r, s \in Requests : CancelMe[r] = CancelMe[s] => r = s
    /\ Limit \in Nat \ {0} /\ MaxAttempts \in Nat \ {0}
    /\ MaxCycles \in Nat \ {0} /\ MaxAlive \in Nat \ {0}

VARIABLES
    work,    \* the state store: attempts, terminal mark and outbox of each request
    proc,    \* the processes
    ran      \* history: the coordinators started, as <<request, attempt>>

teamVars == <<work, proc, ran>>
allVars == <<log, cursor, received, work, proc, ran>>

\* Requests are named by their sequence number, as message_id does.
Slots == 1 .. Cardinality(Requests)

-----------------------------------------------------------------------------
(* Messages *)

RequestDraft(r) == [sender |-> Client, to |-> Me, key |-> r, body |-> "request"]
CancelDraft(r) == [sender |-> Client, to |-> CancelMe[r], key |-> r, body |-> "cancel"]

\* What the runtime publishes about request m: its key names the attempt, except
\* for the announcement of a cancellation, where n is 0.
Note(kind, m, n) ==
    [sender |-> Me, to |-> Anyone, key |-> <<kind, m, n>>, body |-> <<kind, n>>]

\* An outbox row; ordinal is its place in the commit.
Row(topic, ordinal, draft) == [topic |-> topic, ordinal |-> ordinal, draft |-> draft]

First(rows) == CHOOSE a \in rows : \A b \in rows : a.ordinal <= b.ordinal

-----------------------------------------------------------------------------
(* Processes *)

Alive == {p \in Procs : proc[p].pc \notin {"down", "over", "crashed"}}
Turn(p, pc) == [proc EXCEPT ![p].pc = pc]
Failing(p, fatal) == [proc EXCEPT ![p].pc = "fail", ![p].fatal = fatal]

\* _process returns: run_once goes on with the rest of its batch.
NextMessage(p) == [proc EXCEPT ![p].pc = "next", ![p].batch = @ \ {proc[p].m}]

\* A publication: the process goes on with yes, or with no when it raises.
Say(t, d, yes, no) ==
    \/ Publish(t, d) /\ proc' = yes
    \/ ~Accepts(t, d) /\ proc' = no /\ UNCHANGED busVars

TeamInit ==
    /\ BusInit
    /\ work = [m \in Slots |-> [attempts |-> 0, terminal |-> FALSE,
                                rows |-> {}, delivered |-> {}]]
    /\ proc = [p \in Procs |-> [pc |-> "down", batch |-> {}, m |-> 0, n |-> 0,
                                fatal |-> FALSE, todo |-> {}, cycles |-> 0,
                                done |-> FALSE]]
    /\ ran = {}

\* execute starts with submit.
Submit(p) ==
    /\ proc[p].pc = "down"
    /\ Cardinality(Alive) < MaxAlive
    /\ Say("requests", RequestDraft(RequestOf[p]), Turn(p, "pull"), Turn(p, "over"))
    /\ UNCHANGED <<work, ran>>

PullRequests(p) ==
    /\ proc[p].pc = "pull"
    /\ proc[p].cycles < MaxCycles
    /\ Pull(Me, "requests", Limit)
    /\ proc' = [proc EXCEPT ![p].pc = "next", ![p].cycles = @ + 1,
                            ![p].batch = Pulled(Me, "requests", Limit)]
    /\ UNCHANGED <<work, ran>>

\* The end of a batch, and of the last cycle.
EndBatch(p) ==
    /\ \/ /\ proc[p].pc = "next"
          /\ proc[p].batch = {}
          /\ proc' = Turn(p, IF proc[p].done THEN "over" ELSE "pull")
       \/ /\ proc[p].pc = "pull"
          /\ proc[p].cycles = MaxCycles
          /\ proc' = Turn(p, "over")
    /\ UNCHANGED <<log, cursor, received, work, ran>>

Crash(p) ==
    /\ p \in Alive
    /\ proc' = Turn(p, "crashed")
    /\ UNCHANGED <<log, cursor, received, work, ran>>

-----------------------------------------------------------------------------
(* One request, _process *)

BeginAttempt(p) ==
    /\ proc[p].pc = "next"
    /\ proc[p].batch # {}
    /\ LET m == Min(proc[p].batch)
       IN  IF work[m].terminal
           THEN /\ proc' = [proc EXCEPT ![p].pc = "recover", ![p].m = m]
                /\ UNCHANGED work
           ELSE /\ work' = [work EXCEPT ![m].attempts = @ + 1]
                /\ proc' = [proc EXCEPT ![p].pc = "accept", ![p].m = m,
                                        ![p].n = work[m].attempts + 1]
    /\ UNCHANGED <<log, cursor, received, ran>>

\* The accepted event, then the coordinator starts.
Accept(p) ==
    /\ proc[p].pc = "accept"
    /\ LET d == Note("accepted", proc[p].m, proc[p].n)
       IN  /\ Say("events", d, Turn(p, "run"), Failing(p, FALSE))
           /\ ran' = IF Accepts("events", d) THEN ran \cup {<<proc[p].m, proc[p].n>>}
                     ELSE ran
    /\ UNCHANGED work

\* The coordinator returns a result, or raises an error that the classifier takes
\* for permanent or not.
Return(p) ==
    /\ proc[p].pc = "run"
    /\ \/ proc' = Turn(p, "commit")
       \/ \E fatal \in BOOLEAN : proc' = Failing(p, fatal)
    /\ UNCHANGED <<log, cursor, received, work, ran>>

\* commit_terminal: the mark and the outbox rows in one transaction.
CommitTerminal(p, rows) ==
    /\ work' = [work EXCEPT ![proc[p].m].terminal = TRUE, ![proc[p].m].rows = @ \cup rows]
    /\ proc' = Turn(p, "recover")
    /\ UNCHANGED <<log, cursor, received, ran>>

Commit(p) ==
    /\ proc[p].pc = "commit"
    /\ CommitTerminal(p, {Row("events", 0, Note("metrics", proc[p].m, proc[p].n)),
                          Row("events", 1, Note("terminal", proc[p].m, proc[p].n))})

LastAttempt(p) == proc[p].fatal \/ proc[p].n >= MaxAttempts

DeadLetter(p) ==
    /\ proc[p].pc = "fail"
    /\ LastAttempt(p)
    /\ CommitTerminal(p, {Row("dlq", 0, Note("dlq", proc[p].m, proc[p].n))})

\* The request stays unacknowledged.  A refused retry event ends the process.
ScheduleRetry(p) ==
    /\ proc[p].pc = "fail"
    /\ ~LastAttempt(p)
    /\ Say("events", Note("retry", proc[p].m, proc[p].n), NextMessage(p), Turn(p, "over"))
    /\ UNCHANGED <<work, ran>>

-----------------------------------------------------------------------------
(* Delivery of a verdict, _recover_terminal *)

ReadOutbox(p) ==
    /\ proc[p].pc = "recover"
    /\ proc' = [proc EXCEPT ![p].pc = "flush",
                            ![p].todo = work[proc[p].m].rows \ work[proc[p].m].delivered]
    /\ UNCHANGED <<log, cursor, received, work, ran>>

\* A refused row leaves the request unacknowledged.
Flush(p) ==
    /\ proc[p].pc = "flush"
    /\ proc[p].todo # {}
    /\ LET row == First(proc[p].todo)
       IN  Say(row.topic, row.draft, Turn(p, "mark"), NextMessage(p))
    /\ UNCHANGED <<work, ran>>

MarkDelivered(p) ==
    /\ proc[p].pc = "mark"
    /\ LET row == First(proc[p].todo)
       IN  /\ work' = [work EXCEPT ![proc[p].m].delivered = @ \cup {row}]
           /\ proc' = [proc EXCEPT ![p].pc = "flush", ![p].todo = @ \ {row}]
    /\ UNCHANGED <<log, cursor, received, ran>>

\* Mutant of AllDelivered: the check in front of the acknowledgement is missing and
\* a verdict that could not be published counts as delivered.
AcknowledgeAnyway(p) ==
    /\ proc[p].pc = "flush"
    /\ proc' = Turn(p, "ack")
    /\ UNCHANGED <<log, cursor, received, work, ran>>

AllDelivered(p) ==
    /\ proc[p].pc = "flush"
    /\ proc[p].todo = {}
    /\ proc' = IF work[proc[p].m].rows = work[proc[p].m].delivered
               THEN Turn(p, "ack") ELSE NextMessage(p)
    /\ UNCHANGED <<log, cursor, received, work, ran>>

AckRequest(p) ==
    /\ proc[p].pc = "ack"
    /\ Ack(Me, "requests", proc[p].m)
    /\ proc' = [NextMessage(p) EXCEPT
                    ![p].done = @ \/ log["requests"][proc[p].m].key = RequestOf[p]]
    /\ UNCHANGED <<work, ran>>

-----------------------------------------------------------------------------
(* Cancellation, _run_with_cancellation *)

SubmitCancel(r) == Publish("cancels", CancelDraft(r)) /\ UNCHANGED teamVars

CancelConsumer(p) == CancelMe[log["requests"][proc[p].m].key]

\* The coordinator is told before anything is published or acknowledged.
PullCancel(p) ==
    /\ proc[p].pc = "run"
    /\ Unread(CancelConsumer(p), "cancels") # {}
    /\ Pull(CancelConsumer(p), "cancels", 50)
    /\ proc' = Turn(p, "cancel")
    /\ UNCHANGED <<work, ran>>

\* Mutant of AnnounceCancel: the cancellation is acknowledged before it is announced.
AcknowledgeFirst(p) ==
    /\ proc[p].pc = "cancel"
    /\ Ack(CancelConsumer(p), "cancels", Min(Unread(CancelConsumer(p), "cancels")))
    /\ proc' = Turn(p, "cancel_ack")
    /\ UNCHANGED <<work, ran>>

AnnounceCancel(p) ==
    /\ proc[p].pc = "cancel"
    /\ Say("events", Note("cancelled", proc[p].m, 0), Turn(p, "cancel_ack"), Failing(p, FALSE))
    /\ UNCHANGED <<work, ran>>

AckCancel(p) ==
    /\ proc[p].pc = "cancel_ack"
    /\ Ack(CancelConsumer(p), "cancels", Min(Unread(CancelConsumer(p), "cancels")))
    /\ proc' = Turn(p, "run")
    /\ UNCHANGED <<work, ran>>

TeamNext ==
    \/ \E p \in Procs :
        \/ Submit(p) \/ PullRequests(p) \/ EndBatch(p) \/ Crash(p)
        \/ BeginAttempt(p) \/ Accept(p) \/ Return(p) \/ Commit(p)
        \/ DeadLetter(p) \/ ScheduleRetry(p)
        \/ ReadOutbox(p) \/ Flush(p) \/ MarkDelivered(p) \/ AllDelivered(p)
        \/ AckRequest(p) \/ PullCancel(p) \/ AnnounceCancel(p) \/ AckCancel(p)
    \/ \E r \in Requests : SubmitCancel(r)

TeamSpec == TeamInit /\ [][TeamNext]_allVars

-----------------------------------------------------------------------------
(* Properties *)

Kinds(t, m) == {n \in DOMAIN log[t] : log[t][n].sender = Me /\ log[t][n].key[2] = m}
Verdicts(m) ==
    {n \in Kinds("events", m) : log["events"][n].key[1] = "terminal"} \X {"events"}
    \cup Kinds("dlq", m) \X {"dlq"}

\* Attempts, marks and outbox rows of requests; rows are delivered once they exist.
TeamTypeOK ==
    \A m \in Slots :
        /\ work[m].attempts \in 0 .. MaxAttempts + Cardinality(Procs)
        /\ work[m].delivered \subseteq work[m].rows
        /\ work[m].rows # {} <=> work[m].terminal

\* A request gets at most one verdict on the bus, a terminal event or a dead
\* letter, wherever processes crash and whoever finishes their requests.
OneVerdict == \A m \in Slots : Cardinality(Verdicts(m)) <= 1

\* A request is acknowledged only after its verdict is committed and everything
\* the commit promised is on the bus; and after a verdict is committed the
\* coordinator is not started again.
Delivered(m) == \A o \in work[m].rows : Bound(o.topic, o.draft) # {}
CommitsHold ==
    [][/\ cursor'[Me]["requests"] # cursor[Me]["requests"] =>
              work[cursor'[Me]["requests"]].terminal /\ Delivered(cursor'[Me]["requests"])
       /\ \A a \in ran' \ ran : ~work[a[1]].terminal]_allVars

\* A request is run at most max_attempts times, and once more for every process
\* that crashed meanwhile, which leaves no trace but the number of the attempt.
RunsAreBounded ==
    \A m \in Slots :
        Cardinality({a \in ran : a[1] = m})
            <= MaxAttempts + Cardinality({p \in Procs : proc[p].pc = "crashed"})

\* What the runtime is about to publish is never refused as a conflict: a replay
\* after a crash repeats the message, everything else has a key of its own.
Publishing(p) ==
    CASE proc[p].pc = "accept" -> {<<"events", Note("accepted", proc[p].m, proc[p].n)>>}
      [] proc[p].pc = "fail" -> {<<"events", Note("retry", proc[p].m, proc[p].n)>>}
      [] proc[p].pc = "cancel" -> {<<"events", Note("cancelled", proc[p].m, 0)>>}
      [] proc[p].pc = "flush" -> {<<row.topic, row.draft>> : row \in proc[p].todo}
      [] OTHER -> {}
NoConflict ==
    \A p \in Procs : \A s \in Publishing(p) : \A n \in Bound(s[1], s[2]) :
        log[s[1]][n] = s[2]

\* The metrics of an attempt are on the bus before its terminal event.
MetricsFirst ==
    \A j \in DOMAIN log["events"] :
        log["events"][j].key[1] = "terminal" =>
            \E i \in 1 .. j : log["events"][i].key = <<"metrics", log["events"][j].key[2],
                                                      log["events"][j].key[3]>>

\* An acknowledged cancellation was announced, though the process may crash
\* between the two.
CancelAnnounced ==
    \A m \in DOMAIN log["requests"] :
        cursor[CancelMe[log["requests"][m].key]]["cancels"] # 0 =>
            Bound("events", Note("cancelled", m, 0)) # {}

\* No request is passed by the cursor before its verdict is committed.
NoRequestSkipped ==
    \A m \in DOMAIN log["requests"] : m <= cursor[Me]["requests"] => work[m].terminal

\* What the bus and the state of requests say agrees, wherever processes crash.
TeamSound ==
    TeamTypeOK /\ OneVerdict /\ RunsAreBounded /\ NoConflict /\ MetricsFirst /\ CancelAnnounced

-----------------------------------------------------------------------------
(* Values of the constants for TLC: a process that is named as a request submits it,    *)
(* and any other repeats one; the consumer of its cancellations is named as a request.  *)
InTurn == [p \in Procs |-> IF p \in Requests THEN p ELSE CHOOSE r \in Requests : TRUE]
OwnConsumer == [r \in Requests |-> r]
=============================================================================
