------------------------------ MODULE RedisBus ------------------------------
(***************************************************************************)
(* The Redis Streams bus (src/src/paperclaw/message_bus/redis_streams.py   *)
(* and redis_backend.py): one stream, one consumer group per consumer_id,  *)
(* several processes reading for the same consumer.  The two Lua scripts   *)
(* are one step each; every other Redis command is a step of its own, and  *)
(* a process may die between any two of them.                              *)
(*                                                                         *)
(* Topics do not share anything but the audit log, which is left out, so   *)
(* there is one topic.  Redis keeps for a pending entry the name of its    *)
(* reader, which nothing here asks for, and its idle time, of which only   *)
(* whether it exceeds claim_idle_ms is kept.                               *)
(***************************************************************************)
EXTENDS Integers, Sequences, FiniteSets, FiniteSetsExt

CONSTANTS
    Procs,        \* processes; each life of a process has a new _instance_id
    Consumers,
    ConsumerOf,   \* the consumer_id each process reads for
    Anyone,       \* no recipient_id
    MessageKeys,         \* a sender_id with an idempotency key
    Bodies,       \* payloads with their headers
    Capacity,     \* max_messages_per_topic
    Limits,       \* limits a process may pull with
    MaxCrashes    \* bound on the crashes of all the processes

ASSUME RedisAssumption ==
    /\ Anyone \notin Consumers
    /\ ConsumerOf \in [Procs -> Consumers]
    /\ Capacity \in Nat \ {0}
    /\ Limits \subseteq Nat \ {0}
    /\ MaxCrashes \in Nat

VARIABLES
    log,      \* the stream, by logical sequence number
    last,     \* the last entry handed to each consumer group
    pending,  \* entries delivered to a group and not XACKed
    idle,     \* pending entries idle for claim_idle_ms or longer
    acked,    \* the sorted set of sequence numbers ahead of the cursor
    cursor,   \* the cursor hash
    proc,     \* the processes
    crashes,
    done      \* history: the messages a caller has acknowledged

redisVars == <<log, last, pending, idle, acked, cursor, proc, crashes, done>>
groupVars == <<last, pending, idle, acked, cursor, done>>

Message == [to : Consumers \cup {Anyone}, key : MessageKeys, body : Bodies]
Eligible(c) == {n \in DOMAIN log : log[n].to \in {Anyone, c}}

\* The lowest members of S, at most k of them.
Lowest(S, k) == {n \in S : Cardinality({m \in S : m < n}) < k}

\* The end of the run of acknowledged numbers that starts after k.
RunEnd(S, k) == Max({j \in k .. Len(log) : (k + 1) .. j \subseteq S})

-----------------------------------------------------------------------------
(* Publication, one Lua script *)

Bound(d) == {n \in DOMAIN log : log[n].key = d.key}

\* A bound key answers CONFLICT or EXISTING, a new one CAPACITY or CREATED.
Publish(d) ==
    /\ Bound(d) = {}
    /\ Len(log) < Capacity
    /\ log' = Append(log, d)
    /\ UNCHANGED <<groupVars, proc, crashes>>

-----------------------------------------------------------------------------
(* pull *)

ProcAt(p, pc) == proc[p].pc = pc
Me(p) == ConsumerOf[p]

\* Mutant of AutoClaim: only new entries are read.
PullNothing(p, limit) ==
    /\ ProcAt(p, "ready")
    /\ proc' = [proc EXCEPT ![p].pc = "read", ![p].got = {}, ![p].room = limit]
    /\ UNCHANGED <<log, groupVars, crashes>>

\* XAUTOCLAIM from the start of the pending list; the claim restarts the idle
\* time of what it takes.
AutoClaim(p, limit) ==
    /\ ProcAt(p, "ready")
    /\ LET S == Lowest(idle[Me(p)], limit)
       IN  /\ idle' = [idle EXCEPT ![Me(p)] = @ \ S]
           /\ proc' = [proc EXCEPT ![p].pc = "read", ![p].got = S,
                                   ![p].room = limit - Cardinality(S)]
    /\ UNCHANGED <<log, last, pending, acked, cursor, crashes, done>>

\* Mutant of ReadNew: XREADGROUP with NOACK keeps no pending entry.
ReadNoAck(p) ==
    /\ ProcAt(p, "read")
    /\ LET S == Lowest((last[Me(p)] + 1) .. Len(log), proc[p].room)
       IN  /\ last' = [last EXCEPT ![Me(p)] = @ + Cardinality(S)]
           /\ proc' = [proc EXCEPT ![p].pc = "filter", ![p].got = @ \cup S]
    /\ UNCHANGED <<log, pending, idle, acked, cursor, crashes, done>>

\* XREADGROUP with the room the claim left: nothing when it is zero.
ReadNew(p) ==
    /\ ProcAt(p, "read")
    /\ LET S == Lowest((last[Me(p)] + 1) .. Len(log), proc[p].room)
       IN  /\ last' = [last EXCEPT ![Me(p)] = @ + Cardinality(S)]
           /\ pending' = [pending EXCEPT ![Me(p)] = @ \cup S]
           /\ proc' = [proc EXCEPT ![p].pc = "filter", ![p].got = @ \cup S]
    /\ UNCHANGED <<log, idle, acked, cursor, crashes, done>>

\* What was delivered to the group for another recipient.
Foreign(p) == proc[p].got \ Eligible(Me(p))

\* pull returns the messages for this consumer.
Return(p) ==
    /\ ProcAt(p, "filter")
    /\ Foreign(p) = {}
    /\ proc' = [proc EXCEPT ![p].pc = IF proc[p].got = {} THEN "ready" ELSE "serve"]
    /\ UNCHANGED <<log, groupVars, crashes>>

\* _ack_ineligible: XACK, then ZADD, then _advance_cursor.
XAck(p) ==
    /\ ProcAt(p, "filter")
    /\ Foreign(p) # {}
    /\ LET n == Min(Foreign(p))
       IN  /\ pending' = [pending EXCEPT ![Me(p)] = @ \ {n}]
           /\ idle' = [idle EXCEPT ![Me(p)] = @ \ {n}]
           /\ proc' = [proc EXCEPT ![p].pc = "add", ![p].n = n,
                                   ![p].got = @ \ {n}]
    /\ UNCHANGED <<log, last, acked, cursor, crashes, done>>

Add(p) ==
    /\ ProcAt(p, "add")
    /\ acked' = [acked EXCEPT ![Me(p)] = @ \cup {proc[p].n}]
    /\ proc' = [proc EXCEPT ![p].pc = "cursor"]
    /\ UNCHANGED <<log, last, pending, idle, cursor, crashes, done>>

\* _advance_cursor reads the cursor, asks for one number after the other, and
\* writes in one transaction what it has counted.
ReadCursor(p) ==
    /\ ProcAt(p, "cursor")
    /\ proc' = [proc EXCEPT ![p].pc = "scan", ![p].from = cursor[Me(p)],
                            ![p].n = cursor[Me(p)]]
    /\ UNCHANGED <<log, groupVars, crashes>>

Scan(p) ==
    /\ ProcAt(p, "scan")
    /\ proc' = IF proc[p].n + 1 \in acked[Me(p)]
               THEN [proc EXCEPT ![p].n = @ + 1]
               ELSE [proc EXCEPT ![p].pc = "write"]
    /\ UNCHANGED <<log, groupVars, crashes>>

WriteCursor(p) ==
    /\ ProcAt(p, "write")
    /\ acked' = [acked EXCEPT ![Me(p)] = @ \ ((proc[p].from + 1) .. proc[p].n)]
    /\ cursor' = [cursor EXCEPT ![Me(p)] = proc[p].n]
    /\ proc' = [proc EXCEPT ![p].pc = "filter", ![p].n = 0, ![p].from = 0]
    /\ UNCHANGED <<log, last, pending, idle, crashes, done>>

-----------------------------------------------------------------------------
(* ack: the callers acknowledge what pull returned, in any order *)

Served(p, n) == [proc EXCEPT ![p].pc = IF proc[p].got = {n} THEN "ready" ELSE "serve",
                             ![p].got = @ \ {n}, ![p].n = 0]

\* get_cursor answers first: a number behind the cursor is not acknowledged again.
AskCursor(p, n) ==
    /\ ProcAt(p, "serve")
    /\ n \in proc[p].got
    /\ IF n <= cursor[Me(p)]
       THEN proc' = Served(p, n)
       ELSE proc' = [proc EXCEPT ![p].pc = "ack", ![p].n = n]
    /\ UNCHANGED <<log, groupVars, crashes>>

\* The Lua script: XACK, ZADD and the advance of the cursor over the numbers
\* acknowledged without a gap.
AckScript(p) ==
    /\ ProcAt(p, "ack")
    /\ LET c == Me(p)
           n == proc[p].n
           end == RunEnd(acked[c] \cup {n}, cursor[c])
       IN  /\ pending' = [pending EXCEPT ![c] = @ \ {n}]
           /\ idle' = [idle EXCEPT ![c] = @ \ {n}]
           /\ acked' = [acked EXCEPT ![c] = (@ \cup {n}) \ ((cursor[c] + 1) .. end)]
           /\ cursor' = [cursor EXCEPT ![c] = end]
           /\ done' = [done EXCEPT ![c] = @ \cup {n}]
           /\ proc' = Served(p, n)
    /\ UNCHANGED <<log, last, crashes>>

-----------------------------------------------------------------------------
(* Time and crashes *)

\* A pending entry reaches claim_idle_ms, whether its reader lives or not.
GrowIdle(c, n) ==
    /\ n \in pending[c] \ idle[c]
    /\ idle' = [idle EXCEPT ![c] = @ \cup {n}]
    /\ UNCHANGED <<log, last, pending, acked, cursor, proc, crashes, done>>

NewLife == [pc |-> "ready", got |-> {}, room |-> 0, n |-> 0, from |-> 0]

\* A process dies and another takes its place with a new _instance_id.
ProcCrash(p) ==
    /\ crashes < MaxCrashes
    /\ ~ProcAt(p, "ready")
    /\ crashes' = crashes + 1
    /\ proc' = [proc EXCEPT ![p] = NewLife]
    /\ UNCHANGED <<log, groupVars>>

RedisInit ==
    /\ log = << >>
    /\ last = [c \in Consumers |-> 0]
    /\ pending = [c \in Consumers |-> {}]
    /\ idle = [c \in Consumers |-> {}]
    /\ acked = [c \in Consumers |-> {}]
    /\ cursor = [c \in Consumers |-> 0]
    /\ proc = [p \in Procs |-> NewLife]
    /\ crashes = 0
    /\ done = [c \in Consumers |-> {}]

Pull(p) ==
    \/ \E limit \in Limits : AutoClaim(p, limit)
    \/ ReadNew(p) \/ Return(p)
    \/ XAck(p) \/ Add(p) \/ ReadCursor(p) \/ Scan(p) \/ WriteCursor(p)

Serve(p) ==
    \/ \E n \in proc[p].got : AskCursor(p, n)
    \/ AckScript(p)

RedisNext ==
    \/ \E d \in Message : Publish(d)
    \/ \E p \in Procs : Pull(p) \/ Serve(p) \/ ProcCrash(p)
    \/ \E c \in Consumers : \E n \in pending[c] : GrowIdle(c, n)

RedisSpec == RedisInit /\ [][RedisNext]_redisVars

\* Processes go on pulling and acknowledging, as the serving loops of their callers
\* do, and time passes for pending entries.
RedisFairness ==
    /\ \A p \in Procs : WF_redisVars(Pull(p) \/ Serve(p))
    /\ \A c \in Consumers, n \in 1 .. Capacity : WF_redisVars(GrowIdle(c, n))

RedisLiveSpec == RedisSpec /\ RedisFairness

-----------------------------------------------------------------------------
(* Properties *)

\* The keys of a consumer group hold sequence numbers of the stream; idle entries
\* are pending, and pending ones were delivered.
RedisTypeOK ==
    /\ log \in Seq(Message) /\ Len(log) <= Capacity
    /\ crashes \in 0 .. MaxCrashes
    /\ \A c \in Consumers :
        /\ last[c] \in 0 .. Len(log) /\ cursor[c] \in 0 .. Len(log)
        /\ idle[c] \subseteq pending[c] /\ pending[c] \subseteq 1 .. last[c]
        /\ acked[c] \subseteq 1 .. last[c] /\ done[c] \subseteq 1 .. last[c]
    /\ \A p \in Procs :
        /\ proc[p].pc \in {"ready", "read", "filter", "add", "cursor", "scan",
                           "write", "serve", "ack"}
        /\ proc[p].got \subseteq 1 .. last[Me(p)]

\* A message of the group is never lost: once delivered it is acknowledged by a
\* caller or still pending for the next claim, wherever its readers died and
\* however many processes claimed it from each other.
NothingLost ==
    \A c \in Consumers : \A n \in Eligible(c) :
        n <= last[c] => n \in pending[c] \cup done[c]

\* The cursor never passes a message for this consumer that no caller acknowledged,
\* although acknowledgements come out of order and two ways of moving the cursor
\* interleave.
CursorBehindDone ==
    \A c \in Consumers : \A n \in Eligible(c) : n <= cursor[c] => n \in done[c]

\* A consumer that every message is for has an exact cursor: it stands before the
\* first message not acknowledged, whoever acknowledged what in which order.
CursorExact ==
    \A c \in Consumers :
        Eligible(c) = DOMAIN log => cursor[c] = RunEnd(done[c], 0)

\* A cursor never goes back.
CursorsAdvance == \A c \in Consumers : cursor[c] <= cursor'[c]
CursorKept == [][CursorsAdvance]_redisVars

\* Every published message is in the end acknowledged by each consumer that is
\* read for, although processes die while they hold it.
EveryMessageServed ==
    \A c \in {ConsumerOf[p] : p \in Procs}, n \in 1 .. Capacity :
        n \in Eligible(c) ~> n \in done[c]

\* The consumer group is sound through crashes, claims of idle entries and
\* acknowledgements out of order: nothing is lost and no cursor runs ahead.
StreamSound == RedisTypeOK /\ NothingLost /\ CursorBehindDone /\ CursorExact
=============================================================================
