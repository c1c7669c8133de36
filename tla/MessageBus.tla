----------------------------- MODULE MessageBus -----------------------------
(***************************************************************************)
(* The durable message bus, SQLiteMessageBusStore                          *)
(* (src/src/paperclaw/message_bus/store.py): topics that keep every        *)
(* message, numbered from 1; publication under an idempotency key; pulls   *)
(* behind a cursor; acknowledgements that move the cursor.                 *)
(*                                                                         *)
(* Each operation is one SQLite transaction, hence one step.  A refused    *)
(* call changes nothing but the audit log, which is left out, and is a     *)
(* disabled action: a caller asks Accepts and Eligible for the answer.     *)
(***************************************************************************)
EXTENDS Integers, Sequences, FiniteSets

CONSTANTS
    Topics,
    Senders,
    Consumers,
    Anyone,      \* the recipient of a broadcast
    Keys,        \* idempotency keys
    Bodies,      \* payloads with their headers
    Capacity,    \* max_messages_per_topic
    Limits       \* limits a caller may pull with

ASSUME BusAssumption ==
    /\ Anyone \notin Consumers
    /\ Capacity \in Nat \ {0}
    /\ Limits \subseteq Nat \ {0}

VARIABLES
    log,        \* the messages of each topic, by sequence number
    cursor,     \* the ack_sequence of each consumer and topic
    received    \* history: the sequence numbers each consumer has pulled

busVars == <<log, cursor, received>>

Message == [sender : Senders, to : Consumers \cup {Anyone}, key : Keys, body : Bodies]

-----------------------------------------------------------------------------
(* Publication *)

SameKey(m, d) == m.sender = d.sender /\ m.key = d.key

\* The messages that already hold the idempotency key of draft d.
Bound(t, d) == {n \in DOMAIN log[t] : SameKey(log[t][n], d)}

\* Mutants of Accepts: the capacity is checked before the key, or one too late.
CapacityFirst(t, d) ==
    /\ Len(log[t]) < Capacity
    /\ \A n \in Bound(t, d) : log[t][n] = d
OneTooMany(t, d) ==
    IF Bound(t, d) # {} THEN \A n \in Bound(t, d) : log[t][n] = d
    ELSE Len(log[t]) <= Capacity

\* A known key is accepted for the same message only; a new one needs room.
Accepts(t, d) ==
    IF Bound(t, d) # {} THEN \A n \in Bound(t, d) : log[t][n] = d
    ELSE Len(log[t]) < Capacity

Publish(t, d) ==
    /\ Accepts(t, d)
    /\ log' = IF Bound(t, d) # {} THEN log ELSE [log EXCEPT ![t] = Append(@, d)]
    /\ UNCHANGED <<cursor, received>>

-----------------------------------------------------------------------------
(* Consumption *)

Eligible(c, t) == {n \in DOMAIN log[t] : log[t][n].to \in {Anyone, c}}
Unread(c, t) == {n \in Eligible(c, t) : n > cursor[c][t]}

\* Mutant of Pulled: the newest messages first.
PulledNewest(c, t, limit) ==
    {n \in Unread(c, t) : Cardinality({m \in Unread(c, t) : m > n}) < limit}

\* The first messages behind the cursor, at most limit of them.
Pulled(c, t, limit) ==
    {n \in Unread(c, t) : Cardinality({m \in Unread(c, t) : m < n}) < limit}

Pull(c, t, limit) ==
    /\ received' = [received EXCEPT ![c][t] = @ \cup Pulled(c, t, limit)]
    /\ UNCHANGED <<log, cursor>>

\* Mutant of Ack: a late acknowledgement takes the cursor back.
AckLatestCall(c, t, n) ==
    /\ n \in Eligible(c, t)
    /\ cursor' = [cursor EXCEPT ![c][t] = n]
    /\ UNCHANGED <<log, received>>

Ack(c, t, n) ==
    /\ IF n <= cursor[c][t] THEN UNCHANGED cursor
       ELSE /\ n \in Eligible(c, t)
            /\ cursor' = [cursor EXCEPT ![c][t] = n]
    /\ UNCHANGED <<log, received>>

-----------------------------------------------------------------------------

BusInit ==
    /\ log = [t \in Topics |-> << >>]
    /\ cursor = [c \in Consumers |-> [t \in Topics |-> 0]]
    /\ received = [c \in Consumers |-> [t \in Topics |-> {}]]

\* Every caller acknowledges messages it has pulled, in any order and again.
BusNext ==
    \/ \E t \in Topics, d \in Message : Publish(t, d)
    \/ \E c \in Consumers, t \in Topics :
        \/ \E limit \in Limits : Pull(c, t, limit)
        \/ \E n \in received[c][t] : Ack(c, t, n)

BusSpec == BusInit /\ [][BusNext]_busVars

-----------------------------------------------------------------------------
(* Properties *)

\* Topics hold messages, within their capacity; cursors and pulled messages are
\* sequence numbers.
BusTypeOK ==
    /\ log \in [Topics -> Seq(Message)]
    /\ cursor \in [Consumers -> [Topics -> Nat]]
    /\ received \in [Consumers -> [Topics -> SUBSET Nat]]
    /\ \A t \in Topics : Len(log[t]) <= Capacity
    /\ \A c \in Consumers, t \in Topics : cursor[c][t] <= Len(log[t])

\* A sender's idempotency key stands for one message of a topic, whoever publishes
\* it again and whatever was published in between.
OneMessagePerKey ==
    \A t \in Topics : \A m, n \in DOMAIN log[t] :
        SameKey(log[t][m], log[t][n]) => m = n

\* Publishing a retained message again is always accepted, on a full topic too: a
\* publisher that never saw the answer can always ask again.
ReplayAccepted ==
    \A t \in Topics : \A n \in DOMAIN log[t] : Accepts(t, log[t][n])

\* A consumer misses nothing: every message up to its cursor that is addressed to
\* it, directly or by broadcast, was delivered to it, and nothing else was; although
\* pulls are bounded, publishers interleave and acknowledgements jump.
DeliveredUpToCursor ==
    \A c \in Consumers, t \in Topics :
        /\ received[c][t] \subseteq Eligible(c, t)
        /\ \A n \in Eligible(c, t) : n <= cursor[c][t] => n \in received[c][t]

\* The past is kept: messages keep their sequence numbers and cursors never go
\* back, in spite of late and repeated acknowledgements.
KeepsPast ==
    /\ \A t \in Topics : /\ Len(log[t]) <= Len(log'[t])
                        /\ \A n \in DOMAIN log[t] : log'[t][n] = log[t][n]
    /\ \A c \in Consumers, t \in Topics : cursor[c][t] <= cursor'[c][t]
PastIsKept == [][KeepsPast]_busVars

\* The bus keeps its word to publishers and consumers: a key is one message, a
\* replay is accepted, and nothing up to a cursor was missed.
BusSound == BusTypeOK /\ OneMessagePerKey /\ ReplayAccepted /\ DeliveredUpToCursor
=============================================================================
