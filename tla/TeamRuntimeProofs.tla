------------------------- MODULE TeamRuntimeProofs -------------------------
(***************************************************************************)
(* Proofs about MessageBus and about TeamRuntime, the team runs over it.   *)
(*                                                                         *)
(* Of the bus: for every set of topics, senders, consumers, keys and       *)
(* bodies, every capacity and every pull limit.  DeliveredUpToCursor is    *)
(* not inductive: an acknowledgement may jump over messages, which is      *)
(* harmless because what a consumer has received has no gaps.  BusInv adds *)
(* that.                                                                   *)
(*                                                                         *)
(* Of team runs: for any number of processes, requests, attempts and       *)
(* crashes, while processes do not overlap (MaxAlive = 1, as in the runs:  *)
(* two processes at one request are beyond what the runtime promises).     *)
(* TeamSound is not inductive.  TeamIInv adds what only the messages and   *)
(* the outbox together tell: a verdict on the bus is a row of a committed  *)
(* outbox, whose rows are those of one commit; every attempt from the last *)
(* allowed one on either ended its request or is the last of a process     *)
(* that lives or crashed; and what the living process read of its request  *)
(* still holds at every program counter.                                   *)
(***************************************************************************)
EXTENDS TeamRuntime, FiniteSetTheorems, WellFoundedInduction, TLAPS

-----------------------------------------------------------------------------
(* The bus: what a consumer has received *)

\* What a consumer has received is an initial part of its mail.
NoGaps ==
    \A c \in Consumers, t \in Topics : \A n \in received[c][t], m \in Eligible(c, t) :
        m < n => m \in received[c][t]

BusInv == BusTypeOK /\ OneMessagePerKey /\ DeliveredUpToCursor /\ NoGaps

-----------------------------------------------------------------------------
(* The bus: operations *)

\* Publishing appends at most one message to one topic, under a key that topic
\* does not hold yet.
LEMMA PublishShape ==
    ASSUME BusTypeOK, NEW t \in Topics, NEW d \in Message, Publish(t, d)
    PROVE  /\ log' \in [Topics -> Seq(Message)]
           /\ \A u \in Topics : \/ log'[u] = log[u]
                                \/ /\ log'[u] = Append(log[u], d)
                                   /\ \A n \in DOMAIN log[u] : ~SameKey(log[u][n], d)
                                   /\ Len(log[u]) < Capacity
           /\ cursor' = cursor /\ received' = received
<1>1. CASE Bound(t, d) # {}
  BY <1>1 DEF Publish, BusTypeOK
<1>2. CASE Bound(t, d) = {}
  <2>1. log' = [log EXCEPT ![t] = Append(@, d)] /\ Len(log[t]) < Capacity
    BY <1>2 DEF Publish, Accepts
  <2>2. \A n \in DOMAIN log[t] : ~SameKey(log[t][n], d)
    BY <1>2 DEF Bound
  <2>3. Append(log[t], d) \in Seq(Message)
    BY DEF BusTypeOK
  <2>4. log' \in [Topics -> Seq(Message)]
    BY <2>1, <2>3 DEF BusTypeOK
  <2>5. \A u \in Topics : log'[u] = IF u = t THEN Append(log[t], d) ELSE log[u]
    BY <2>1 DEF BusTypeOK
  <2> QED BY <2>1, <2>2, <2>4, <2>5 DEF Publish
<1> QED BY <1>1, <1>2

\* An acknowledgement moves one cursor forward to the acknowledged message, or none.
LEMMA AckShape ==
    ASSUME BusTypeOK, NEW c \in Consumers, NEW t \in Topics, NEW n \in Nat, Ack(c, t, n)
    PROVE  /\ cursor' \in [Consumers -> [Topics -> Nat]]
           /\ \A b \in Consumers, u \in Topics :
                \/ cursor'[b][u] = cursor[b][u]
                \/ b = c /\ u = t /\ cursor'[b][u] = n /\ cursor[b][u] < n
<1>1. CASE n <= cursor[c][t]
  BY <1>1 DEF Ack, BusTypeOK
<1>2. CASE ~(n <= cursor[c][t])
  <2>1. cursor' = [cursor EXCEPT ![c][t] = n]
    BY <1>2 DEF Ack
  <2>2. cursor' \in [Consumers -> [Topics -> Nat]]
    BY <2>1 DEF BusTypeOK
  <2>3. cursor[c][t] < n
    BY <1>2 DEF BusTypeOK
  <2>4. \A b \in Consumers, u \in Topics :
            cursor'[b][u] = IF b = c /\ u = t THEN n ELSE cursor[b][u]
    BY <2>1 DEF BusTypeOK
  <2> QED BY <2>2, <2>3, <2>4
<1> QED BY <1>1, <1>2

\* A topic that grew by one message holds the old ones under their numbers.
LEMMA Grown ==
    ASSUME NEW S, NEW s \in Seq(S), NEW d \in S
    PROVE  /\ Len(Append(s, d)) = Len(s) + 1
           /\ DOMAIN Append(s, d) = DOMAIN s \cup {Len(s) + 1}
           /\ \A n \in DOMAIN s : n \in Nat /\ n <= Len(s) /\ Append(s, d)[n] = s[n]
           /\ Append(s, d)[Len(s) + 1] = d
OBVIOUS

\* Pulling less of a set than its first messages is pulling an initial part of it.
LEMMA PulledIsInitial ==
    ASSUME BusTypeOK, NEW c \in Consumers, NEW t \in Topics, NEW limit \in Nat,
           NEW n \in Pulled(c, t, limit), NEW m \in Unread(c, t), m < n
    PROVE  m \in Pulled(c, t, limit)
<1> DEFINE Before(x) == {y \in Unread(c, t) : y < x}
<1>1. DOMAIN log[t] = 1 .. Len(log[t]) /\ Len(log[t]) \in Nat
  BY DEF BusTypeOK
<1>2. Unread(c, t) \subseteq 1 .. Len(log[t])
  BY <1>1 DEF Unread, Eligible
<1>3. IsFiniteSet(Before(n))
  <2>1. IsFiniteSet(1 .. Len(log[t]))
    BY <1>1, FS_Interval
  <2> QED BY <2>1, <1>2, FS_Subset
<1>4. n \in Unread(c, t) /\ Cardinality(Before(n)) < limit
  BY DEF Pulled
<1>5. \A x, y \in Unread(c, t) : x \in Int /\ y \in Int
  BY <1>2
<1>6. Before(m) \subseteq Before(n)
  BY <1>4, <1>5
<1>7. IsFiniteSet(Before(m)) /\ Cardinality(Before(m)) <= Cardinality(Before(n))
  BY <1>3, <1>6, FS_Subset
<1>8. Cardinality(Before(m)) \in Nat /\ Cardinality(Before(n)) \in Nat
  BY <1>3, <1>7, FS_CardinalityType
<1>9. Cardinality(Before(m)) < limit
  BY <1>4, <1>7, <1>8
<1> QED BY <1>9 DEF Pulled

-----------------------------------------------------------------------------
(* The inductive invariant *)

\* The empty bus satisfies the invariant.
LEMMA BusInitInv == BusInit => BusInv
<1> SUFFICES ASSUME BusInit PROVE BusInv
  OBVIOUS
<1>1. \A t \in Topics : log[t] = << >>
  BY DEF BusInit
<1>2. BusTypeOK
  BY <1>1, BusAssumption DEF BusInit, BusTypeOK
<1>3. OneMessagePerKey
  BY <1>1 DEF OneMessagePerKey
<1>4. DeliveredUpToCursor /\ NoGaps
  BY <1>1 DEF BusInit, DeliveredUpToCursor, NoGaps, Eligible
<1> QED BY <1>2, <1>3, <1>4 DEF BusInv

\* Publication keeps the invariant: a new message comes behind all received ones.
LEMMA PublishKeepsInv ==
    ASSUME BusInv, NEW t \in Topics, NEW d \in Message, Publish(t, d)
    PROVE  BusInv'
<1> USE DEF BusInv
<1>1. /\ log' \in [Topics -> Seq(Message)]
      /\ \A u \in Topics : \/ log'[u] = log[u]
                           \/ /\ log'[u] = Append(log[u], d)
                              /\ \A n \in DOMAIN log[u] : ~SameKey(log[u][n], d)
                              /\ Len(log[u]) < Capacity
      /\ cursor' = cursor /\ received' = received
  BY PublishShape
<1>2. \A u \in Topics : log[u] \in Seq(Message) /\ Len(log[u]) \in Nat
  BY DEF BusTypeOK
<1>3. BusTypeOK'
  <2>1. ASSUME NEW u \in Topics
        PROVE  Len(log'[u]) <= Capacity /\ Len(log[u]) <= Len(log'[u]) /\ Len(log'[u]) \in Nat
    <3>1. CASE log'[u] = log[u]
      BY <3>1, <1>2 DEF BusTypeOK
    <3>2. CASE log'[u] = Append(log[u], d) /\ Len(log[u]) < Capacity
      BY <3>2, <1>2, Grown, BusAssumption
    <3> QED BY <3>1, <3>2, <1>1
  <2>2. \A c \in Consumers, u \in Topics : cursor[c][u] <= Len(log'[u])
    BY <2>1, <1>2 DEF BusTypeOK
  <2> QED BY <1>1, <2>1, <2>2 DEF BusTypeOK
<1>4. OneMessagePerKey'
  <2> SUFFICES ASSUME NEW u \in Topics, NEW m \in DOMAIN log'[u], NEW n \in DOMAIN log'[u],
                      SameKey(log'[u][m], log'[u][n])
               PROVE  m = n
    BY DEF OneMessagePerKey
  <2>1. CASE log'[u] = log[u]
    BY <2>1 DEF OneMessagePerKey
  <2>2. CASE /\ log'[u] = Append(log[u], d)
             /\ \A i \in DOMAIN log[u] : ~SameKey(log[u][i], d)
    <3>1. \/ m \in DOMAIN log[u] /\ log'[u][m] = log[u][m]
          \/ m = Len(log[u]) + 1 /\ log'[u][m] = d
      BY <2>2, <1>2, Grown
    <3>2. \/ n \in DOMAIN log[u] /\ log'[u][n] = log[u][n]
          \/ n = Len(log[u]) + 1 /\ log'[u][n] = d
      BY <2>2, <1>2, Grown
    <3> QED BY <3>1, <3>2, <2>2 DEF OneMessagePerKey, SameKey
  <2> QED BY <2>1, <2>2, <1>1
<1>5. ASSUME NEW c \in Consumers, NEW u \in Topics
      PROVE  /\ Eligible(c, u) \subseteq Eligible(c, u)'
             /\ \A n \in Eligible(c, u)' : n \in Eligible(c, u) \/ n = Len(log[u]) + 1
  <2>1. CASE log'[u] = log[u]
    BY <2>1 DEF Eligible
  <2>2. CASE log'[u] = Append(log[u], d)
    BY <2>2, <1>2, Grown DEF Eligible
  <2> QED BY <2>1, <2>2, <1>1
<1>6. ASSUME NEW c \in Consumers, NEW u \in Topics, NEW n \in received[c][u]
      PROVE  n \in Nat /\ n <= Len(log[u])
  <2>1. n \in DOMAIN log[u]
    BY DEF DeliveredUpToCursor, Eligible
  <2> QED BY <2>1, <1>2
<1>7. ASSUME NEW c \in Consumers, NEW u \in Topics
      PROVE  cursor[c][u] <= Len(log[u])
  BY DEF BusTypeOK
<1>8. DeliveredUpToCursor'
  BY <1>1, <1>2, <1>5, <1>7 DEF DeliveredUpToCursor, BusTypeOK
<1>9. NoGaps'
  BY <1>1, <1>2, <1>5, <1>6 DEF NoGaps
<1> QED BY <1>3, <1>4, <1>8, <1>9

\* Pulling keeps the invariant: it delivers the first unread messages.
LEMMA PullKeepsInv ==
    ASSUME BusInv, NEW c \in Consumers, NEW t \in Topics, NEW limit \in Nat,
           Pull(c, t, limit)
    PROVE  BusInv'
<1> USE DEF BusInv
<1>1. log' = log /\ cursor' = cursor
  BY DEF Pull
<1>2. \A b \in Consumers, u \in Topics :
        received'[b][u] = IF b = c /\ u = t THEN received[c][t] \cup Pulled(c, t, limit)
                          ELSE received[b][u]
  BY DEF Pull, BusTypeOK
<1>3. \A b \in Consumers, u \in Topics :
        Eligible(b, u)' = Eligible(b, u) /\ Eligible(b, u) \subseteq Nat
  BY <1>1 DEF Eligible, BusTypeOK
<1>4. Pulled(c, t, limit) \subseteq Unread(c, t) /\ Unread(c, t) \subseteq Eligible(c, t)
  BY DEF Pulled, Unread
<1>5. BusTypeOK'
  <2>1. received' \in [Consumers -> [Topics -> SUBSET Nat]]
    BY <1>3, <1>4 DEF Pull, BusTypeOK
  <2> QED BY <1>1, <2>1 DEF BusTypeOK
<1>6. OneMessagePerKey'
  BY <1>1 DEF OneMessagePerKey
<1>7. DeliveredUpToCursor'
  BY <1>1, <1>2, <1>3, <1>4 DEF DeliveredUpToCursor
<1>8. NoGaps'
  <2> SUFFICES ASSUME NEW b \in Consumers, NEW u \in Topics,
                      NEW n \in received'[b][u], NEW m \in Eligible(b, u), m < n
               PROVE  m \in received'[b][u]
    BY <1>3 DEF NoGaps
  <2>1. CASE n \in received[b][u]
    BY <2>1, <1>2 DEF NoGaps
  <2>2. CASE b = c /\ u = t /\ n \in Pulled(c, t, limit)
    <3>1. CASE m > cursor[c][t]
      <4>1. m \in Unread(c, t)
        BY <2>2, <3>1 DEF Unread
      <4>2. m \in Pulled(c, t, limit)
        BY <2>2, <4>1, PulledIsInitial
      <4> QED BY <2>2, <4>2, <1>2
    <3>2. CASE m <= cursor[c][t]
      BY <2>2, <3>2, <1>2 DEF DeliveredUpToCursor
    <3>3. m \in Nat /\ cursor[c][t] \in Nat
      BY <2>2, <1>3 DEF BusTypeOK
    <3> QED BY <3>1, <3>2, <3>3
  <2> QED BY <2>1, <2>2, <1>2
<1> QED BY <1>5, <1>6, <1>7, <1>8

\* Acknowledging a received message keeps the invariant: what it jumps over has
\* been received.
LEMMA AckKeepsInv ==
    ASSUME BusInv, NEW c \in Consumers, NEW t \in Topics, NEW n \in received[c][t],
           Ack(c, t, n)
    PROVE  BusInv'
<1> USE DEF BusInv
<1>1. log' = log /\ received' = received
  BY DEF Ack
<1>2. \A b \in Consumers, u \in Topics :
        Eligible(b, u)' = Eligible(b, u) /\ Eligible(b, u) \subseteq Nat
  BY <1>1 DEF Eligible, BusTypeOK
<1>3. n \in Eligible(c, t) /\ n \in Nat /\ n <= Len(log[t])
  <2>1. n \in Eligible(c, t)
    BY DEF DeliveredUpToCursor
  <2> QED BY <2>1 DEF Eligible, BusTypeOK
<1>4. /\ cursor' \in [Consumers -> [Topics -> Nat]]
      /\ \A b \in Consumers, u \in Topics :
            \/ cursor'[b][u] = cursor[b][u]
            \/ b = c /\ u = t /\ cursor'[b][u] = n
  BY <1>3, AckShape
<1>5. BusTypeOK'
  BY <1>1, <1>3, <1>4 DEF BusTypeOK
<1>6. OneMessagePerKey' /\ NoGaps'
  BY <1>1, <1>2 DEF OneMessagePerKey, NoGaps
<1>7. DeliveredUpToCursor'
  <2> SUFFICES ASSUME NEW b \in Consumers, NEW u \in Topics, NEW m \in Eligible(b, u),
                      m <= cursor'[b][u]
               PROVE  m \in received[b][u]
    BY <1>1, <1>2 DEF DeliveredUpToCursor
  <2>1. CASE cursor'[b][u] = cursor[b][u]
    BY <2>1 DEF DeliveredUpToCursor
  <2>2. CASE b = c /\ u = t /\ cursor'[b][u] = n
    <3>1. m = n \/ m < n
      BY <2>2, <1>2, <1>3
    <3> QED BY <3>1, <2>2 DEF NoGaps
  <2> QED BY <2>1, <2>2, <1>4
<1> QED BY <1>5, <1>6, <1>7

\* Every step of the bus keeps the invariant.
LEMMA BusStepKeepsInv == BusInv /\ [BusNext]_busVars => BusInv'
<1> SUFFICES ASSUME BusInv, [BusNext]_busVars PROVE BusInv'
  OBVIOUS
<1>1. CASE \E t \in Topics, d \in Message : Publish(t, d)
  BY <1>1, PublishKeepsInv
<1>2. CASE \E c \in Consumers, t \in Topics : \E limit \in Limits : Pull(c, t, limit)
  BY <1>2, PullKeepsInv, BusAssumption
<1>3. CASE \E c \in Consumers, t \in Topics : \E n \in received[c][t] : Ack(c, t, n)
  BY <1>3, AckKeepsInv
<1>4. CASE UNCHANGED busVars
  BY <1>4 DEF busVars, BusInv, BusTypeOK, OneMessagePerKey, DeliveredUpToCursor,
              NoGaps, Eligible
<1> QED BY <1>1, <1>2, <1>3, <1>4 DEF BusNext

\* The strengthened invariant holds in every reachable state.
THEOREM BusInvariant == BusSpec => []BusInv
BY BusInitInv, BusStepKeepsInv, PTL DEF BusSpec

-----------------------------------------------------------------------------
(* What follows *)

\* Topics never exceed their capacity, and cursors name messages of their topic.
THEOREM BusTypeCorrectness == BusSpec => []BusTypeOK
<1>1. BusInv => BusTypeOK
  BY DEF BusInv
<1> QED BY <1>1, BusInvariant, PTL

\* An idempotency key stands for one message.
THEOREM KeysAreUnique == BusSpec => []OneMessagePerKey
<1>1. BusInv => OneMessagePerKey
  BY DEF BusInv
<1> QED BY <1>1, BusInvariant, PTL

\* A retained message is accepted again, on a full topic too.
THEOREM ReplaysAreAccepted == BusSpec => []ReplayAccepted
<1>1. BusInv => ReplayAccepted
  BY DEF BusInv, OneMessagePerKey, ReplayAccepted, Accepts, Bound, SameKey
<1> QED BY <1>1, BusInvariant, PTL

\* A consumer has received everything up to its cursor, and only its own mail.
THEOREM NothingIsMissed == BusSpec => []DeliveredUpToCursor
<1>1. BusInv => DeliveredUpToCursor
  BY DEF BusInv
<1> QED BY <1>1, BusInvariant, PTL

\* The bus keeps its word to publishers and consumers, as the runs state it: a key is
\* one message, a replay is accepted, and nothing up to a cursor was missed.
THEOREM BusIsSound == BusSpec => []BusSound
<1>1. BusTypeOK /\ OneMessagePerKey /\ ReplayAccepted /\ DeliveredUpToCursor => BusSound
  BY DEF BusSound
<1> QED BY <1>1, BusTypeCorrectness, KeysAreUnique, ReplaysAreAccepted,
           NothingIsMissed, PTL

\* Messages keep their numbers and cursors only advance.
THEOREM PastIsKeptForever == BusSpec => PastIsKept
<1>1. ASSUME BusInv, NEW t \in Topics, NEW d \in Message, Publish(t, d) PROVE KeepsPast
  <2>1. BusTypeOK
    BY <1>1 DEF BusInv
  <2>2. cursor' = cursor
    BY <1>1 DEF Publish
  <2>3. \A u \in Topics : log[u] \in Seq(Message)
    BY <2>1 DEF BusTypeOK
  <2>4. \A u \in Topics : log'[u] = log[u] \/ log'[u] = Append(log[u], d)
    BY <1>1, <2>1, PublishShape
  <2>5. ASSUME NEW u \in Topics
        PROVE  Len(log[u]) <= Len(log'[u]) /\ \A n \in DOMAIN log[u] : log'[u][n] = log[u][n]
    <3>1. CASE log'[u] = log[u]
      BY <3>1, <2>3
    <3>2. CASE log'[u] = Append(log[u], d)
      BY <3>2, <2>3, Grown
    <3> QED BY <3>1, <3>2, <2>4
  <2> QED BY <2>1, <2>2, <2>5 DEF KeepsPast, BusTypeOK
<1>2. ASSUME BusInv, NEW c \in Consumers, NEW t \in Topics, NEW limit \in Limits,
             Pull(c, t, limit)
      PROVE  KeepsPast
  BY <1>2 DEF Pull, KeepsPast, BusInv, BusTypeOK
<1>3. ASSUME BusInv, NEW c \in Consumers, NEW t \in Topics, NEW n \in received[c][t],
             Ack(c, t, n)
      PROVE  KeepsPast
  <2>1. BusTypeOK /\ n \in Nat
    BY <1>3 DEF BusInv, BusTypeOK
  <2>2. log' = log
    BY <1>3 DEF Ack
  <2>3. \A b \in Consumers, u \in Topics :
          cursor'[b][u] = cursor[b][u] \/ (cursor'[b][u] = n /\ cursor[b][u] < n)
    BY <1>3, <2>1, AckShape
  <2>4. ASSUME NEW b \in Consumers, NEW u \in Topics PROVE cursor[b][u] <= cursor'[b][u]
    <3>1. cursor[b][u] \in Nat
      BY <2>1 DEF BusTypeOK
    <3> QED BY <2>1, <2>3, <3>1
  <2> QED BY <2>1, <2>2, <2>4 DEF KeepsPast, BusTypeOK
<1>4. ASSUME BusInv, UNCHANGED busVars PROVE KeepsPast
  BY <1>4 DEF busVars, KeepsPast, BusInv, BusTypeOK
<1>5. BusInv /\ [BusNext]_busVars => [KeepsPast]_busVars
  BY <1>1, <1>2, <1>3, <1>4 DEF BusNext
<1> QED BY <1>5, BusInvariant, PTL DEF BusSpec, PastIsKept

-----------------------------------------------------------------------------
(* Team runs: what the state holds *)

RequestMessages == {RequestDraft(r) : r \in Requests}
CancelMessages == {CancelDraft(r) : r \in Requests}
NoteKinds == {"accepted", "retry", "cancelled", "metrics", "terminal", "dlq"}
Notes == {Note(kind, m, n) : kind \in NoteKinds, m \in Slots, n \in Nat}
TeamMessages == RequestMessages \cup CancelMessages \cup Notes

\* Only requests are in their topic, and only notes in those of verdicts and events.
LogTypes ==
    /\ log \in [Topics -> Seq(TeamMessages)]
    /\ \A n \in DOMAIN log["requests"] : log["requests"][n] \in RequestMessages
    /\ \A t \in {"events", "dlq"} : \A n \in DOMAIN log[t] : log[t][n] \in Notes

\* No message is lost or changed.
LogGrows ==
    \A t \in Topics : /\ DOMAIN log[t] \subseteq DOMAIN log'[t]
                      /\ \A n \in DOMAIN log[t] : log'[t][n] = log[t][n]

EventRows(m, n) == {Row("events", 0, Note("metrics", m, n)), Row("events", 1, Note("terminal", m, n))}
DlqRows(m, n) == {Row("dlq", 0, Note("dlq", m, n))}
AllRows == {Row(t, i, d) : t \in {"events", "dlq"}, i \in {0, 1}, d \in Notes}

WorkRows == [attempts : Nat, terminal : BOOLEAN, rows : SUBSET AllRows, delivered : SUBSET AllRows]

Trying == {"accept", "run", "commit", "fail", "cancel", "cancel_ack"}
Ending == {"recover", "flush", "mark", "ack"}
Living == {"pull", "next"} \cup Trying \cup Ending
Counters == Living \cup {"down", "over", "crashed"}
ProcRows == [pc : Counters, batch : SUBSET Nat, m : Nat, n : Nat,
             fatal : BOOLEAN, todo : SUBSET AllRows, cycles : Nat, done : BOOLEAN]

-----------------------------------------------------------------------------
(* Numbers and messages *)

\* A set of natural numbers that is not empty has a least one.
LEMMA LeastOf ==
    ASSUME NEW S, S \subseteq Nat, S # {}
    PROVE  Min(S) \in S
<1>1. PICK x \in S : \A y \in S : ~(<<y, x>> \in OpToRel(<, Nat))
  BY NatLessThanWellFounded, WFMin
<1>2. ASSUME NEW y \in S PROVE x <= y
  <2>1. SUFFICES ASSUME y < x PROVE FALSE
    OBVIOUS
  <2>2. <<y, x>> \in Nat \X Nat
    OBVIOUS
  <2>3. <<y, x>>[1] = y /\ <<y, x>>[2] = x
    OBVIOUS
  <2>4. <<y, x>> \in OpToRel(<, Nat)
    BY <2>1, <2>2, <2>3 DEF OpToRel
  <2> QED BY <1>1, <2>4
<1> QED BY <1>2 DEF Min

\* The key of a note tells which note it is.
LEMMA NoteKeys ==
    /\ \A x, y \in Notes : SameKey(x, y) => x = y
    /\ \A x \in Notes : /\ x.key[1] \in NoteKinds /\ x.key[2] \in Slots /\ x.key[3] \in Nat
                        /\ x = Note(x.key[1], x.key[2], x.key[3]) /\ x.sender = Me
BY DEF Notes, Note, SameKey

\* Publishing keeps what a topic holds, and adds at most the message that was asked for.
LEMMA Published ==
    ASSUME LogTypes, OneMessagePerKey, NEW t \in Topics, NEW d \in TeamMessages, Publish(t, d),
           t = "requests" => d \in RequestMessages,
           t \in {"events", "dlq"} => d \in Notes
    PROVE  /\ LogTypes' /\ OneMessagePerKey' /\ LogGrows /\ cursor' = cursor
           /\ \A n \in Bound(t, d)' : log'[t][n] = d
           /\ Bound(t, d)' # {}
           /\ \A u \in Topics : \A n \in DOMAIN log'[u] :
                n \in DOMAIN log[u] \/ (u = t /\ log'[t][n] = d /\ n = Len(log[t]) + 1)
<1>1. cursor' = cursor
  BY DEF Publish
<1>2. \A u \in Topics : log[u] \in Seq(TeamMessages)
  BY DEF LogTypes
<1>3. CASE Bound(t, d) # {}
  <2>1. log' = log /\ \A n \in Bound(t, d) : log[t][n] = d
    BY <1>3 DEF Publish, Accepts
  <2> QED BY <1>1, <1>3, <2>1 DEF LogTypes, OneMessagePerKey, LogGrows, Bound
<1>4. CASE Bound(t, d) = {}
  <2>1. log' = [log EXCEPT ![t] = Append(log[t], d)]
    BY <1>4 DEF Publish
  <2>2. \A n \in DOMAIN log[t] : ~SameKey(log[t][n], d)
    BY <1>4 DEF Bound
  <2> DEFINE k == Len(log[t]) + 1
             s == Append(log[t], d)
  <2>3. /\ s \in Seq(TeamMessages) /\ DOMAIN s = DOMAIN log[t] \cup {k}
        /\ k \notin DOMAIN log[t] /\ s[k] = d /\ \A n \in DOMAIN log[t] : s[n] = log[t][n]
    BY <1>2
  <2>4. log'[t] = s /\ \A u \in Topics : u # t => log'[u] = log[u]
    BY <2>1 DEF LogTypes
  <2> HIDE DEF s
  <2>5. log' \in [Topics -> Seq(TeamMessages)]
    BY <2>1, <2>3 DEF LogTypes, s
  <2>6. LogGrows
    BY <2>3, <2>4 DEF LogGrows
  <2>7. \A u \in Topics : \A n \in DOMAIN log'[u] :
          n \in DOMAIN log[u] \/ (u = t /\ log'[t][n] = d /\ n = k)
    BY <2>3, <2>4
  <2> HIDE DEF k
  <2>8. LogTypes'
    <3>1. "requests" \in Topics /\ "events" \in Topics /\ "dlq" \in Topics
      BY TeamAssumption
    <3>2. \A u \in Topics : \A n \in DOMAIN log'[u] :
            \/ n \in DOMAIN log[u] /\ log'[u][n] = log[u][n]
            \/ u = t /\ log'[u][n] = d
      BY <2>6, <2>7 DEF LogGrows
    <3>3. /\ \A n \in DOMAIN log["requests"] : log["requests"][n] \in RequestMessages
          /\ \A u \in {"events", "dlq"} : \A n \in DOMAIN log[u] : log[u][n] \in Notes
      BY DEF LogTypes
    <3>4. ASSUME NEW n \in DOMAIN log'["requests"] PROVE log'["requests"][n] \in RequestMessages
      BY <3>1, <3>2, <3>3
    <3>5. ASSUME NEW u \in {"events", "dlq"}, NEW n \in DOMAIN log'[u] PROVE log'[u][n] \in Notes
      BY <3>1, <3>2, <3>3
    <3> QED BY <2>5, <3>4, <3>5 DEF LogTypes
  <2>9. OneMessagePerKey'
    <3>1. SUFFICES ASSUME NEW u \in Topics, NEW m \in DOMAIN log'[u], NEW n \in DOMAIN log'[u],
                          SameKey(log'[u][m], log'[u][n])
                   PROVE  m = n
      BY DEF OneMessagePerKey
    <3>2. CASE u # t
      BY <2>4, <3>1, <3>2 DEF OneMessagePerKey
    <3>3. CASE u = t
      BY <2>2, <2>3, <2>4, <3>1, <3>3 DEF OneMessagePerKey, SameKey
    <3> QED BY <3>2, <3>3
  <2>10. Bound(t, d)' = {k}
    <3>1. k \in DOMAIN log'[t] /\ log'[t][k] = d
      BY <2>3, <2>4
    <3>2. ASSUME NEW n \in DOMAIN log'[t], SameKey(log'[t][n], d) PROVE n = k
      BY <2>2, <2>3, <2>4, <3>2
    <3> QED BY <3>1, <3>2 DEF Bound, SameKey
  <2>11. \A n \in Bound(t, d)' : log'[t][n] = d
    BY <2>3, <2>4, <2>10
  <2> QED BY <1>1, <2>6, <2>7, <2>8, <2>9, <2>10, <2>11 DEF k
<1> QED BY <1>3, <1>4

\* What is bound stays bound.
LEMMA BoundGrows ==
    ASSUME LogGrows, NEW t \in Topics, NEW d
    PROVE  Bound(t, d) \subseteq Bound(t, d)'
BY DEF LogGrows, Bound

\* Every request has a slot: requests have keys of their own.
LEMMA RequestsFit ==
    ASSUME LogTypes, OneMessagePerKey
    PROVE  /\ DOMAIN log["requests"] \subseteq Slots /\ Slots \subseteq Nat
           /\ Cardinality(Requests) \in Nat
           /\ \A m \in DOMAIN log["requests"] : log["requests"][m].key \in Requests
<1>1. Cardinality(Requests) \in Nat
  BY TeamAssumption, FS_CardinalityType
<1>2. "requests" \in Topics /\ log["requests"] \in Seq(TeamMessages)
  BY TeamAssumption DEF LogTypes
<1>3. PICK k \in Nat : k = Len(log["requests"]) /\ DOMAIN log["requests"] = 1 .. k
  BY <1>2
<1>4. \A n \in 1 .. k : log["requests"][n].key \in Requests /\ log["requests"][n].sender = Client
  BY <1>3 DEF LogTypes, RequestMessages, RequestDraft
<1> DEFINE f == [n \in 1 .. k |-> log["requests"][n].key]
<1>5. \A a, b \in 1 .. k : f[a] = f[b] => a = b
  BY <1>2, <1>3, <1>4 DEF OneMessagePerKey, SameKey
<1>6. f \in Injection(1 .. k, Requests)
  BY <1>4, <1>5 DEF Injection, IsInjective
<1>7. Cardinality(1 .. k) <= Cardinality(Requests)
  BY <1>6, TeamAssumption, FS_Injection
<1>8. Cardinality(1 .. k) = k
  <2>1. Cardinality(1 .. k) = IF 1 > k THEN 0 ELSE k - 1 + 1
    BY FS_Interval
  <2> QED BY <2>1
<1> QED BY <1>1, <1>3, <1>4, <1>7, <1>8 DEF Slots

-----------------------------------------------------------------------------
(* The inductive invariant *)

WorkTypes ==
    /\ work \in [Slots -> WorkRows]
    /\ cursor \in [Consumers -> [Topics -> Nat]]

\* A request has the rows of one commit once it is terminal and none before; what was
\* delivered is on the bus.
WorkOK ==
    \A m \in Slots :
        /\ work[m].delivered \subseteq work[m].rows
        /\ ~work[m].terminal => work[m].rows = {}
        /\ work[m].terminal => \E n \in Nat : work[m].rows \in {EventRows(m, n), DlqRows(m, n)}
        /\ \A o \in work[m].delivered : Bound(o.topic, o.draft) # {}

\* A verdict on the bus is an outbox row of its request.
VerdictsOK ==
    /\ \A j \in DOMAIN log["events"] :
        log["events"][j].key[1] = "terminal" =>
            Row("events", 1, log["events"][j]) \in work[log["events"][j].key[2]].rows
    /\ \A j \in DOMAIN log["dlq"] :
        Row("dlq", 0, log["dlq"][j]) \in work[log["dlq"][j].key[2]].rows

\* An attempt after which the request would be given up has ended it, or its process
\* is still at it, or crashed at it: its m and n are the witness.
HeldBy(p, m, n) == proc[p].pc \in Trying \cup {"crashed"} /\ proc[p].m = m /\ proc[p].n = n
AttemptsOK ==
    /\ ran \subseteq Slots \X Nat
    /\ \A a \in ran : 1 <= a[2] /\ a[2] <= work[a[1]].attempts
    /\ \A m \in Slots : \A n \in Nat : MaxAttempts <= n /\ n <= work[m].attempts =>
        \/ n = work[m].attempts /\ work[m].terminal
        \/ \E p \in Procs : HeldBy(p, m, n)

\* What the living process s knows of its request still holds: nobody else is at it.
ConsumerOfState(s) == CancelMe[log["requests"][s.m].key]
LivingOK(s) ==
    /\ s.pc # "pull" => s.batch \subseteq DOMAIN log["requests"]
    /\ s.pc \in Trying \cup Ending => s.m \in DOMAIN log["requests"]
    /\ s.pc \in Trying => ~work[s.m].terminal /\ s.n = work[s.m].attempts /\ 1 <= s.n
    /\ s.pc \in Ending => work[s.m].terminal
    /\ s.pc \in {"flush", "mark"} => s.todo = work[s.m].rows \ work[s.m].delivered
    /\ s.pc = "mark" => s.todo # {} /\ Bound(First(s.todo).topic, First(s.todo).draft) # {}
    /\ s.pc = "ack" => work[s.m].rows = work[s.m].delivered
    /\ s.pc \in {"cancel", "cancel_ack"} => Unread(ConsumerOfState(s), "cancels") # {}
    /\ s.pc = "cancel_ack" => Bound("events", Note("cancelled", s.m, 0)) # {}

ProcsOK ==
    /\ proc \in [Procs -> ProcRows]
    /\ \A p, q \in Procs : proc[p].pc \in Living /\ proc[q].pc \in Living => p = q
    /\ \A p \in Procs : proc[p].pc \in Living => LivingOK(proc[p])

\* A cancellation is acknowledged by a process at the request, after the announcement.
CancelsOK ==
    \A r \in Requests : cursor[CancelMe[r]]["cancels"] # 0 =>
        \E m \in DOMAIN log["requests"] :
            /\ log["requests"][m].key = r
            /\ Bound("events", Note("cancelled", m, 0)) # {}

RecordsOK ==
    /\ LogTypes /\ OneMessagePerKey /\ MetricsFirst
    /\ WorkTypes /\ WorkOK /\ VerdictsOK /\ CancelsOK

TeamIInv == RecordsOK /\ AttemptsOK /\ ProcsOK

-----------------------------------------------------------------------------
(* What steps leave alone *)

LEMMA TopicNames ==
    "requests" \in Topics /\ "events" \in Topics /\ "dlq" \in Topics /\ "cancels" \in Topics
BY TeamAssumption

\* The first row is one of them, and none comes before it.
LEMMA FirstOf ==
    ASSUME NEW S \in SUBSET AllRows, S # {}
    PROVE  /\ First(S) \in S /\ \A b \in S : First(S).ordinal <= b.ordinal
           /\ First(S).topic \in {"events", "dlq"} /\ First(S).draft \in Notes
<1>1. \A a \in AllRows : a.ordinal \in {0, 1} /\ a.topic \in {"events", "dlq"} /\ a.draft \in Notes
  BY DEF AllRows, Row
<1>2. \E a \in S : \A b \in S : a.ordinal <= b.ordinal
  <2>1. CASE \E a \in S : a.ordinal = 0
    BY <1>1, <2>1
  <2>2. CASE ~\E a \in S : a.ordinal = 0
    BY <1>1, <2>2
  <2> QED BY <2>1, <2>2
<1>3. First(S) \in S /\ \A b \in S : First(S).ordinal <= b.ordinal
  BY <1>2 DEF First
<1> QED BY <1>1, <1>3

\* A process that did nothing while the bus grew.
LEMMA LivingFrame ==
    ASSUME LogTypes, NEW s \in ProcRows, LivingOK(s),
           LogGrows, work' = work, cursor' = cursor
    PROVE  LivingOK(s)'
<1>1. /\ DOMAIN log["requests"] \subseteq DOMAIN log'["requests"]
      /\ \A n \in DOMAIN log["requests"] : log'["requests"][n] = log["requests"][n]
  BY TopicNames DEF LogGrows
<1>2. \A t \in Topics : \A d : Bound(t, d) \subseteq Bound(t, d)'
  BY BoundGrows
<1>3. ASSUME s.pc = "mark"
      PROVE  s.todo # {} /\ Bound(First(s.todo).topic, First(s.todo).draft)' # {}
  <2>1. s.todo # {} /\ Bound(First(s.todo).topic, First(s.todo).draft) # {}
    BY <1>3 DEF LivingOK
  <2>2. First(s.todo).topic \in Topics
    BY <2>1, FirstOf, TopicNames DEF ProcRows
  <2> QED BY <1>2, <2>1, <2>2
<1>4. ASSUME s.pc \in {"cancel", "cancel_ack"}
      PROVE  Unread(ConsumerOfState(s), "cancels")' # {}
  <2>1. Unread(ConsumerOfState(s), "cancels") # {} /\ s.m \in DOMAIN log["requests"]
    BY <1>4 DEF LivingOK, Trying
  <2>2. ConsumerOfState(s)' = ConsumerOfState(s)
    BY <1>1, <2>1 DEF ConsumerOfState
  <2>3. PICK c : c = ConsumerOfState(s)
    OBVIOUS
  <2>4. Unread(c, "cancels") \subseteq Unread(c, "cancels")'
    BY TopicNames DEF Unread, Eligible, LogGrows
  <2> QED BY <2>1, <2>2, <2>3, <2>4 DEF Unread, Eligible
<1>5. ASSUME s.pc = "cancel_ack"
      PROVE  Bound("events", Note("cancelled", s.m, 0))' # {}
  BY <1>2, <1>5, TopicNames DEF LivingOK
<1> QED BY <1>1, <1>3, <1>4, <1>5 DEF LivingOK

\* The processes after a step of the only living one, or of the first.
LEMMA OneLives ==
    ASSUME ProcsOK, NEW p \in Procs, NEW r \in ProcRows, proc' = [proc EXCEPT ![p] = r],
           proc[p].pc \in Living \/ \A q \in Procs : proc[q].pc \notin Living,
           r.pc \in Living => LivingOK(r)'
    PROVE  /\ ProcsOK' /\ proc'[p] = r
           /\ \A q \in Procs : q # p => proc'[q] = proc[q] /\ proc[q].pc \notin Living
<1>1. /\ proc' \in [Procs -> ProcRows] /\ proc'[p] = r
      /\ \A q \in Procs : q # p => proc'[q] = proc[q]
  BY DEF ProcsOK
<1>2. \A q \in Procs : q # p => proc[q].pc \notin Living
  BY DEF ProcsOK
<1>3. \A q \in Procs : proc'[q].pc \in Living => q = p
  BY <1>1, <1>2
<1>4. \A q \in Procs : proc'[q].pc \in Living => LivingOK(proc[q])'
  BY <1>1, <1>3
<1> QED BY <1>1, <1>2, <1>3, <1>4 DEF ProcsOK

\* Attempts are kept account of when the process that took the step still holds its
\* attempt, or its attempt was not the last one, or it ended the request.
LEMMA AttemptsFrame ==
    ASSUME AttemptsOK, ProcsOK, WorkTypes, NEW p \in Procs, NEW r \in ProcRows,
           proc' = [proc EXCEPT ![p] = r],
           \A a \in ran' \ ran : /\ a \in Slots \X Nat
                                 /\ 1 <= a[2] /\ a[2] <= work[a[1]].attempts,
           \A m \in Slots : /\ work'[m].attempts = work[m].attempts
                            /\ work[m].terminal => work'[m].terminal,
           proc[p].pc \in Trying \cup {"crashed"} =>
              \/ r.m = proc[p].m /\ r.n = proc[p].n /\ r.pc \in Trying \cup {"crashed"}
              \/ proc[p].n < MaxAttempts
              \/ work'[proc[p].m].terminal /\ proc[p].n = work[proc[p].m].attempts
    PROVE  AttemptsOK'
<1>1. proc'[p] = r /\ \A q \in Procs : q # p => proc'[q] = proc[q]
  BY DEF ProcsOK
<1>2. ASSUME NEW m \in Slots, NEW n \in Nat, MaxAttempts <= n, n <= work[m].attempts
      PROVE  \/ n = work[m].attempts /\ work'[m].terminal
             \/ \E q \in Procs : HeldBy(q, m, n)'
  <2>1. CASE n = work[m].attempts /\ work[m].terminal
    BY <2>1
  <2>2. CASE \E q \in Procs : HeldBy(q, m, n)
    <3> PICK q \in Procs : HeldBy(q, m, n)
      BY <2>2
    <3>1. CASE q # p
      BY <1>1, <3>1 DEF HeldBy
    <3>2. CASE q = p
      <4>1. proc[p].pc \in Trying \cup {"crashed"} /\ proc[p].m = m /\ proc[p].n = n
        BY <3>2 DEF HeldBy
      <4>2. ~(n < MaxAttempts)
        BY <1>2, TeamAssumption
      <4>3. CASE r.m = m /\ r.n = n /\ r.pc \in Trying \cup {"crashed"}
        BY <1>1, <4>3 DEF HeldBy
      <4>4. CASE work'[m].terminal /\ n = work[m].attempts
        BY <4>4
      <4> QED BY <4>1, <4>2, <4>3, <4>4
    <3> QED BY <3>1, <3>2
  <2> QED BY <1>2, <2>1, <2>2 DEF AttemptsOK
<1>3. \A a \in ran' : a \in Slots \X Nat /\ 1 <= a[2] /\ a[2] <= work'[a[1]].attempts
  BY DEF AttemptsOK
<1>4. \A m \in Slots : \A n \in Nat : MaxAttempts <= n /\ n <= work'[m].attempts =>
        \/ n = work'[m].attempts /\ work'[m].terminal
        \/ \E q \in Procs : HeldBy(q, m, n)'
  BY <1>2
<1> QED BY <1>3, <1>4 DEF AttemptsOK

\* Publishing keeps what holds of the log and of the state store.
LEMMA PublishStep ==
    ASSUME RecordsOK, NEW t \in Topics, NEW d \in TeamMessages, Publish(t, d), work' = work,
           t = "requests" => d \in RequestMessages,
           t \in {"events", "dlq"} => d \in Notes,
           t = "events" /\ d.key[1] = "terminal" =>
              /\ Row("events", 1, d) \in work[d.key[2]].rows
              /\ \E i \in DOMAIN log["events"] :
                    log["events"][i].key = <<"metrics", d.key[2], d.key[3]>>,
           t = "dlq" => Row("dlq", 0, d) \in work[d.key[2]].rows
    PROVE  RecordsOK' /\ LogGrows /\ cursor' = cursor /\ Bound(t, d)' # {}
<1> USE DEF RecordsOK
<1>1. /\ LogTypes' /\ OneMessagePerKey' /\ LogGrows /\ cursor' = cursor /\ Bound(t, d)' # {}
      /\ \A u \in Topics : \A n \in DOMAIN log'[u] :
            n \in DOMAIN log[u] \/ (u = t /\ log'[t][n] = d /\ n = Len(log[t]) + 1)
  BY Published
<1>2. \A u \in Topics : \A n \in DOMAIN log[u] : n \in DOMAIN log'[u] /\ log'[u][n] = log[u][n]
  BY <1>1 DEF LogGrows
<1>3. MetricsFirst'
  <2>1. log["events"] \in Seq(TeamMessages) /\ log'["events"] \in Seq(TeamMessages)
    BY <1>1, TopicNames DEF LogTypes
  <2>2. ASSUME NEW j \in DOMAIN log'["events"], log'["events"][j].key[1] = "terminal"
        PROVE  \E i \in 1 .. j : log'["events"][i].key
                    = <<"metrics", log'["events"][j].key[2], log'["events"][j].key[3]>>
    <3>1. CASE j \in DOMAIN log["events"]
      <4>1. log'["events"][j] = log["events"][j]
        BY <1>2, <3>1, TopicNames
      <4>2. PICK i \in 1 .. j : log["events"][i].key
                    = <<"metrics", log["events"][j].key[2], log["events"][j].key[3]>>
        BY <2>2, <3>1, <4>1 DEF MetricsFirst
      <4>3. i \in DOMAIN log["events"]
        BY <2>1, <3>1
      <4> QED BY <1>2, <4>1, <4>2, <4>3, TopicNames
    <3>2. CASE j \notin DOMAIN log["events"]
      <4>1. t = "events" /\ log'["events"][j] = d /\ j = Len(log["events"]) + 1
        BY <1>1, <3>2, TopicNames
      <4>2. PICK i \in DOMAIN log["events"] :
                    log["events"][i].key = <<"metrics", d.key[2], d.key[3]>>
        BY <2>2, <4>1
      <4>3. i \in 1 .. j
        BY <2>1, <4>1
      <4> QED BY <1>2, <4>1, <4>2, <4>3, TopicNames
    <3> QED BY <3>1, <3>2
  <2> QED BY <2>2 DEF MetricsFirst
<1>4. WorkTypes'
  BY <1>1 DEF WorkTypes
<1>5. WorkOK'
  <2>1. ASSUME NEW m \in Slots, NEW o \in work[m].delivered PROVE Bound(o.topic, o.draft)' # {}
    <3>1. o \in AllRows /\ Bound(o.topic, o.draft) # {}
      BY DEF WorkTypes, WorkRows, WorkOK
    <3>2. o.topic \in Topics
      BY <3>1, TopicNames DEF AllRows, Row
    <3> QED BY <1>1, <3>1, <3>2, BoundGrows
  <2> QED BY <2>1 DEF WorkOK
<1>6. VerdictsOK'
  <2>1. ASSUME NEW j \in DOMAIN log'["events"], log'["events"][j].key[1] = "terminal"
        PROVE  Row("events", 1, log'["events"][j]) \in work[log'["events"][j].key[2]].rows
    <3>1. CASE j \in DOMAIN log["events"]
      BY <1>2, <2>1, <3>1, TopicNames DEF VerdictsOK
    <3>2. CASE j \notin DOMAIN log["events"]
      BY <1>1, <2>1, <3>2, TopicNames
    <3> QED BY <3>1, <3>2
  <2>2. ASSUME NEW j \in DOMAIN log'["dlq"]
        PROVE  Row("dlq", 0, log'["dlq"][j]) \in work[log'["dlq"][j].key[2]].rows
    <3>1. CASE j \in DOMAIN log["dlq"]
      BY <1>2, <3>1, TopicNames DEF VerdictsOK
    <3>2. CASE j \notin DOMAIN log["dlq"]
      BY <1>1, <3>2, TopicNames
    <3> QED BY <3>1, <3>2
  <2> QED BY <2>1, <2>2 DEF VerdictsOK
<1>7. CancelsOK'
  <2>1. ASSUME NEW r \in Requests, cursor'[CancelMe[r]]["cancels"] # 0
        PROVE  \E m \in DOMAIN log'["requests"] :
                    /\ log'["requests"][m].key = r
                    /\ Bound("events", Note("cancelled", m, 0))' # {}
    <3>1. PICK m \in DOMAIN log["requests"] :
                    log["requests"][m].key = r /\ Bound("events", Note("cancelled", m, 0)) # {}
      BY <1>1, <2>1 DEF CancelsOK
    <3>2. Bound("events", Note("cancelled", m, 0))' # {}
      BY <1>1, <3>1, BoundGrows, TopicNames
    <3> QED BY <1>2, <3>1, <3>2, TopicNames
  <2> QED BY <2>1 DEF CancelsOK
<1> QED BY <1>1, <1>3, <1>4, <1>5, <1>6, <1>7

-----------------------------------------------------------------------------
(* Steps of one process.  After the lemmas they share there is one for every action, *)
(* named as it is. *)

\* A step that the records survive, of the only living process or of the first one.
LEMMA OneStep ==
    ASSUME TeamIInv, RecordsOK', NEW p \in Procs, NEW r \in ProcRows,
           proc' = [proc EXCEPT ![p] = r],
           \A a \in ran' \ ran : /\ a \in Slots \X Nat
                                 /\ 1 <= a[2] /\ a[2] <= work[a[1]].attempts,
           \A m \in Slots : /\ work'[m].attempts = work[m].attempts
                            /\ work[m].terminal => work'[m].terminal,
           proc[p].pc \in Living \/ \A q \in Procs : proc[q].pc \notin Living,
           r.pc \in Living => LivingOK(r)',
           proc[p].pc \in Trying \cup {"crashed"} =>
              \/ r.m = proc[p].m /\ r.n = proc[p].n /\ r.pc \in Trying \cup {"crashed"}
              \/ proc[p].n < MaxAttempts
              \/ work'[proc[p].m].terminal /\ proc[p].n = work[proc[p].m].attempts
    PROVE  TeamIInv'
<1>1. ProcsOK /\ AttemptsOK /\ WorkTypes
  BY DEF TeamIInv, RecordsOK
<1>2. ProcsOK'
  BY <1>1, OneLives
<1>3. AttemptsOK'
  BY <1>1, AttemptsFrame
<1> QED BY <1>2, <1>3 DEF TeamIInv

LEMMA QuietRecords ==
    ASSUME RecordsOK, UNCHANGED <<log, cursor, work>>
    PROVE  RecordsOK'
<1>1. LogTypes' /\ OneMessagePerKey' /\ MetricsFirst'
  BY DEF RecordsOK, LogTypes, OneMessagePerKey, MetricsFirst
<1>2. WorkTypes' /\ VerdictsOK'
  BY DEF RecordsOK, WorkTypes, VerdictsOK
<1>3. WorkOK'
  BY DEF RecordsOK, WorkOK, Bound
<1>4. CancelsOK'
  BY DEF RecordsOK, CancelsOK, Bound
<1> QED BY <1>1, <1>2, <1>3, <1>4 DEF RecordsOK

\* A step that changes the process only.
LEMMA QuietStep ==
    ASSUME TeamIInv, NEW p \in Procs, NEW r \in ProcRows,
           proc' = [proc EXCEPT ![p] = r], UNCHANGED <<log, cursor, work, ran>>,
           proc[p].pc \in Living,
           r.pc \in Living => LivingOK(r),
           proc[p].pc \in Trying =>
              \/ r.m = proc[p].m /\ r.n = proc[p].n /\ r.pc \in Trying \cup {"crashed"}
              \/ proc[p].n < MaxAttempts
    PROVE  TeamIInv'
<1>1. RecordsOK'
  BY QuietRecords DEF TeamIInv
<1>2. LivingOK(r)' <=> LivingOK(r)
  BY DEF LivingOK, ConsumerOfState, Unread, Eligible, Bound
<1>3. proc[p].pc # "crashed"
  BY DEF Living, Trying, Ending
<1> QED BY <1>1, <1>2, <1>3, OneStep

\* The records that the actions write.
SameWork(r, s) == r.m = s.m /\ r.n = s.n /\ r.todo = s.todo
LEMMA Turned ==
    ASSUME ProcsOK, NEW p \in Procs, NEW pc \in Counters
    PROVE  \E r \in ProcRows : /\ Turn(p, pc) = [proc EXCEPT ![p] = r]
                               /\ r.pc = pc /\ SameWork(r, proc[p]) /\ r.batch = proc[p].batch
<1> DEFINE r == [proc[p] EXCEPT !.pc = pc]
<1>1. proc[p] \in ProcRows
  BY DEF ProcsOK
<1>2. r \in ProcRows /\ r.pc = pc /\ SameWork(r, proc[p]) /\ r.batch = proc[p].batch
  BY <1>1 DEF ProcRows, SameWork
<1> QED BY <1>2 DEF Turn
LEMMA Failed ==
    ASSUME ProcsOK, NEW p \in Procs, NEW fatal \in BOOLEAN
    PROVE  \E r \in ProcRows : /\ Failing(p, fatal) = [proc EXCEPT ![p] = r]
                               /\ r.pc = "fail" /\ SameWork(r, proc[p]) /\ r.batch = proc[p].batch
<1> DEFINE r == [proc[p] EXCEPT !.pc = "fail", !.fatal = fatal]
<1>1. proc[p] \in ProcRows
  BY DEF ProcsOK
<1>2. r \in ProcRows /\ r.pc = "fail" /\ SameWork(r, proc[p]) /\ r.batch = proc[p].batch
  BY <1>1 DEF ProcRows, SameWork, Counters, Living, Trying
<1>3. Failing(p, fatal) = [proc EXCEPT ![p] = r]
  BY DEF Failing, ProcsOK
<1> QED BY <1>2, <1>3
LEMMA Passed ==
    ASSUME ProcsOK, NEW p \in Procs
    PROVE  \E r \in ProcRows : /\ NextMessage(p) = [proc EXCEPT ![p] = r]
                               /\ r.pc = "next" /\ SameWork(r, proc[p])
                               /\ r.batch = proc[p].batch \ {proc[p].m}
<1> DEFINE r == [proc[p] EXCEPT !.pc = "next", !.batch = proc[p].batch \ {proc[p].m}]
<1>1. proc[p] \in ProcRows
  BY DEF ProcsOK
<1>2. r \in ProcRows /\ r.pc = "next" /\ SameWork(r, proc[p])
      /\ r.batch = proc[p].batch \ {proc[p].m}
  BY <1>1 DEF ProcRows, SameWork, Counters, Living
<1>3. NextMessage(p) = [proc EXCEPT ![p] = r]
  BY DEF NextMessage, ProcsOK
<1> QED BY <1>2, <1>3

\* What the invariant says of one process.
LEMMA ProcFacts ==
    ASSUME TeamIInv, NEW p \in Procs
    PROVE  /\ ProcsOK /\ proc \in [Procs -> ProcRows] /\ proc[p] \in ProcRows
           /\ proc[p].pc \in Living => LivingOK(proc[p])
BY DEF TeamIInv, ProcsOK

LEMMA PullRequestsStep ==
    ASSUME TeamIInv, NEW p \in Procs, PullRequests(p)
    PROVE  TeamIInv'
<1>1. PICK b : b = Pulled(Me, "requests", Limit)
  OBVIOUS
<1>2. b \subseteq DOMAIN log["requests"] /\ DOMAIN log["requests"] \subseteq Nat
  <2>1. log["requests"] \in Seq(TeamMessages)
    BY TopicNames DEF TeamIInv, RecordsOK, LogTypes
  <2>2. b \subseteq DOMAIN log["requests"]
    BY <1>1 DEF Pulled, Unread, Eligible
  <2> QED BY <2>1, <2>2
<1> DEFINE r == [proc[p] EXCEPT !.pc = "next", !.cycles = proc[p].cycles + 1, !.batch = b]
<1>3. proc' = [proc EXCEPT ![p] = r]
  BY <1>1, ProcFacts DEF PullRequests
<1>4. proc[p].pc = "pull" /\ UNCHANGED <<log, cursor, work, ran>>
  BY DEF PullRequests, Pull
<1>5. r \in ProcRows /\ r.pc = "next" /\ r.batch = b
  <2>1. proc[p] \in ProcRows /\ proc[p].cycles + 1 \in Nat
    BY ProcFacts DEF ProcRows
  <2>2. b \in SUBSET Nat /\ "next" \in Counters
    BY <1>2 DEF Counters, Living
  <2> QED BY <2>1, <2>2 DEF ProcRows
<1> HIDE DEF r
<1>6. LivingOK(r)
  BY <1>2, <1>5 DEF LivingOK, Trying, Ending
<1>7. proc[p].pc \in Living /\ proc[p].pc \notin Trying
  BY <1>4 DEF Living, Trying
<1> QED BY <1>3, <1>4, <1>5, <1>6, <1>7, QuietStep

LEMMA EndBatchStep ==
    ASSUME TeamIInv, NEW p \in Procs, EndBatch(p)
    PROVE  TeamIInv'
<1>1. PICK pc \in {"over", "pull"} : proc' = Turn(p, pc)
  BY DEF EndBatch
<1>2. proc[p].pc \in {"next", "pull"} /\ UNCHANGED <<log, cursor, work, ran>>
  BY DEF EndBatch
<1>3. pc \in Counters
  BY DEF Counters, Living
<1>4. PICK r \in ProcRows : proc' = [proc EXCEPT ![p] = r] /\ r.pc = pc
  BY <1>1, <1>3, ProcFacts, Turned
<1>5. r.pc \in Living => LivingOK(r)
  BY <1>4 DEF LivingOK, Living, Trying, Ending
<1>6. proc[p].pc \in Living /\ proc[p].pc \notin Trying
  BY <1>2 DEF Living, Trying
<1> QED BY <1>2, <1>4, <1>5, <1>6, QuietStep

LEMMA CrashStep ==
    ASSUME TeamIInv, NEW p \in Procs, Crash(p)
    PROVE  TeamIInv'
<1>1. proc' = Turn(p, "crashed") /\ UNCHANGED <<log, cursor, work, ran>>
  BY DEF Crash
<1>2. PICK r \in ProcRows :
        proc' = [proc EXCEPT ![p] = r] /\ r.pc = "crashed" /\ SameWork(r, proc[p])
  BY <1>1, ProcFacts, Turned DEF Counters
<1>3. proc[p].pc \in Living
  BY ProcFacts DEF Crash, Alive, ProcRows, Counters
<1> QED BY <1>1, <1>2, <1>3, QuietStep DEF SameWork, Living, Trying, Ending

LEMMA ReturnStep ==
    ASSUME TeamIInv, NEW p \in Procs, Return(p)
    PROVE  TeamIInv'
<1>1. proc[p].pc = "run" /\ UNCHANGED <<log, cursor, work, ran>>
  BY DEF Return
<1>2. PICK r \in ProcRows : /\ proc' = [proc EXCEPT ![p] = r] /\ r.pc \in {"commit", "fail"}
                            /\ SameWork(r, proc[p]) /\ r.batch = proc[p].batch
  <2>1. CASE proc' = Turn(p, "commit")
    BY <2>1, ProcFacts, Turned DEF Counters, Living, Trying
  <2>2. CASE \E fatal \in BOOLEAN : proc' = Failing(p, fatal)
    BY <2>2, ProcFacts, Failed
  <2> QED BY <2>1, <2>2 DEF Return
<1>3. proc[p].pc \in Living /\ r.pc \in Trying
  BY <1>1, <1>2 DEF Living, Trying
<1>4. LivingOK(r)
  <2>1. LivingOK(proc[p])
    BY <1>3, ProcFacts
  <2> QED BY <1>1, <1>2, <2>1 DEF LivingOK, SameWork, Trying, Ending
<1> QED BY <1>1, <1>2, <1>3, <1>4, QuietStep DEF SameWork

LEMMA ReadOutboxStep ==
    ASSUME TeamIInv, NEW p \in Procs, ReadOutbox(p)
    PROVE  TeamIInv'
<1>1. proc[p].pc = "recover" /\ UNCHANGED <<log, cursor, work, ran>>
  BY DEF ReadOutbox
<1>2. PICK o : o = work[proc[p].m].rows \ work[proc[p].m].delivered
  OBVIOUS
<1>3. proc[p].pc \in Living /\ proc[p].pc \notin Trying /\ LivingOK(proc[p])
  BY <1>1, ProcFacts DEF Living, Ending, Trying
<1>4. o \subseteq AllRows
  <2>1. proc[p].m \in Slots
    BY <1>1, <1>3, RequestsFit DEF LivingOK, Ending, TeamIInv, RecordsOK
  <2> QED BY <1>2, <2>1 DEF TeamIInv, RecordsOK, WorkTypes, WorkRows
<1> DEFINE r == [proc[p] EXCEPT !.pc = "flush", !.todo = o]
<1>5. proc' = [proc EXCEPT ![p] = r]
  BY <1>2, ProcFacts DEF ReadOutbox
<1>6. /\ r \in ProcRows /\ r.pc = "flush" /\ r.todo = o /\ r.m = proc[p].m
      /\ r.batch = proc[p].batch
  BY <1>4, ProcFacts DEF ProcRows, Counters, Living, Ending
<1> HIDE DEF r
<1>7. LivingOK(r)
  BY <1>1, <1>2, <1>3, <1>6 DEF LivingOK, Trying, Ending
<1> QED BY <1>1, <1>3, <1>5, <1>6, <1>7, QuietStep

LEMMA AllDeliveredStep ==
    ASSUME TeamIInv, NEW p \in Procs, AllDelivered(p)
    PROVE  TeamIInv'
<1>1. proc[p].pc = "flush" /\ UNCHANGED <<log, cursor, work, ran>>
  BY DEF AllDelivered
<1>2. proc[p].pc \in Living /\ proc[p].pc \notin Trying /\ LivingOK(proc[p])
  BY <1>1, ProcFacts DEF Living, Ending, Trying
<1>3. CASE work[proc[p].m].rows = work[proc[p].m].delivered
  <2>1. PICK r \in ProcRows : /\ proc' = [proc EXCEPT ![p] = r] /\ r.pc = "ack"
                              /\ SameWork(r, proc[p]) /\ r.batch = proc[p].batch
    BY <1>3, ProcFacts, Turned DEF AllDelivered, Counters, Living, Ending
  <2>2. LivingOK(r)
    BY <1>1, <1>2, <1>3, <2>1 DEF LivingOK, SameWork, Trying, Ending
  <2> QED BY <1>1, <1>2, <2>1, <2>2, QuietStep
<1>4. CASE work[proc[p].m].rows # work[proc[p].m].delivered
  <2>1. PICK r \in ProcRows : /\ proc' = [proc EXCEPT ![p] = r] /\ r.pc = "next"
                              /\ r.batch = proc[p].batch \ {proc[p].m}
    BY <1>4, ProcFacts, Passed DEF AllDelivered
  <2>2. LivingOK(r)
    BY <1>1, <1>2, <2>1 DEF LivingOK, Trying, Ending
  <2> QED BY <1>1, <1>2, <2>1, <2>2, QuietStep
<1> QED BY <1>3, <1>4

LEMMA PullCancelStep ==
    ASSUME TeamIInv, NEW p \in Procs, PullCancel(p)
    PROVE  TeamIInv'
<1>1. proc[p].pc = "run" /\ proc' = Turn(p, "cancel") /\ UNCHANGED <<log, cursor, work, ran>>
  BY DEF PullCancel, Pull
<1>2. PICK r \in ProcRows : /\ proc' = [proc EXCEPT ![p] = r] /\ r.pc = "cancel"
                            /\ SameWork(r, proc[p]) /\ r.batch = proc[p].batch
  BY <1>1, ProcFacts, Turned DEF Counters, Living, Trying
<1>3. proc[p].pc \in Living /\ r.pc \in Trying
  BY <1>1, <1>2 DEF Living, Trying
<1>4. LivingOK(proc[p])
  BY <1>3, ProcFacts
<1>5. Unread(ConsumerOfState(r), "cancels") # {}
  <2>1. ConsumerOfState(r) = CancelConsumer(p)
    BY <1>2 DEF ConsumerOfState, CancelConsumer, SameWork
  <2> QED BY <2>1 DEF PullCancel
<1>6. LivingOK(r)
  BY <1>1, <1>2, <1>4, <1>5 DEF LivingOK, SameWork, Trying, Ending
<1> QED BY <1>1, <1>2, <1>3, <1>6, QuietStep DEF SameWork

-----------------------------------------------------------------------------
(* Steps that publish *)

\* What a process knows survives a publication.
LEMMA KeepsLiving ==
    ASSUME TeamIInv, NEW p \in Procs, proc[p].pc \in Living, LogGrows,
           work' = work, cursor' = cursor
    PROVE  \E s \in ProcRows : s = proc[p] /\ LivingOK(s) /\ LivingOK(s)'
<1>1. PICK s \in ProcRows : s = proc[p]
  BY ProcFacts
<1>2. LivingOK(s)
  BY <1>1, ProcFacts
<1>3. LivingOK(s)'
  BY <1>2, LivingFrame DEF TeamIInv, RecordsOK
<1> QED BY <1>1, <1>2, <1>3

\* A process at a request works at one of the log, with a number of its own.
LEMMA AtRequest ==
    ASSUME TeamIInv, NEW p \in Procs, proc[p].pc \in Trying \cup Ending
    PROVE  /\ LivingOK(proc[p]) /\ proc[p].m \in DOMAIN log["requests"]
           /\ proc[p].m \in Slots /\ proc[p].m \in Nat /\ proc[p].n \in Nat
           /\ \A kind \in NoteKinds : /\ Note(kind, proc[p].m, proc[p].n) \in Notes
                                      /\ Note(kind, proc[p].m, 0) \in Notes
<1>1. LivingOK(proc[p]) /\ proc[p].n \in Nat
  BY ProcFacts DEF Living, ProcRows
<1>2. proc[p].m \in DOMAIN log["requests"]
  BY <1>1 DEF LivingOK
<1>3. proc[p].m \in Slots /\ proc[p].m \in Nat
  BY <1>2, RequestsFit DEF TeamIInv, RecordsOK
<1>4. PICK m \in Slots, n \in Nat : m = proc[p].m /\ n = proc[p].n
  BY <1>1, <1>3
<1>5. \A kind \in NoteKinds : Note(kind, m, n) \in Notes /\ Note(kind, m, 0) \in Notes
  BY DEF Notes
<1> QED BY <1>1, <1>2, <1>3, <1>4, <1>5

LEMMA SubmitStep ==
    ASSUME TeamIInv, MaxAlive = 1, NEW p \in Procs, Submit(p)
    PROVE  TeamIInv'
<1>1. proc[p].pc = "down" /\ work' = work /\ ran' = ran
  BY DEF Submit
<1>2. \A q \in Procs : proc[q].pc \notin Living
  <2>1. IsFiniteSet(Alive) /\ Cardinality(Alive) \in Nat
    BY TeamAssumption, FS_Subset, FS_CardinalityType DEF Alive
  <2>2. Cardinality(Alive) = 0
    BY <2>1 DEF Submit
  <2>3. Alive = {}
    BY <2>1, <2>2, FS_EmptySet
  <2> QED BY <2>3 DEF Alive, Living, Trying, Ending
<1> DEFINE d == RequestDraft(RequestOf[p])
<1>3. CASE Publish("requests", d) /\ proc' = Turn(p, "pull")
  <2>1. PICK r \in ProcRows : proc' = [proc EXCEPT ![p] = r] /\ r.pc = "pull"
    BY <1>3, ProcFacts, Turned DEF Counters, Living
  <2>2. d \in RequestMessages /\ d \in TeamMessages
    BY TeamAssumption DEF RequestMessages, TeamMessages
  <2> HIDE DEF d
  <2>3. RecordsOK'
    BY <1>1, <1>3, <2>2, PublishStep, TopicNames DEF TeamIInv
  <2>4. LivingOK(r)'
    BY <2>1 DEF LivingOK, Trying, Ending
  <2> QED BY <1>1, <1>2, <2>1, <2>3, <2>4, OneStep DEF Trying
<1>4. CASE proc' = Turn(p, "over") /\ UNCHANGED busVars
  <2>1. PICK r \in ProcRows : proc' = [proc EXCEPT ![p] = r] /\ r.pc = "over"
    BY <1>4, ProcFacts, Turned DEF Counters
  <2>2. RecordsOK'
    BY <1>1, <1>4, QuietRecords DEF busVars, TeamIInv
  <2> QED BY <1>1, <1>2, <2>1, <2>2, OneStep DEF Living, Trying, Ending
<1> QED BY <1>3, <1>4 DEF Submit, Say

LEMMA AcceptStep ==
    ASSUME TeamIInv, NEW p \in Procs, Accept(p)
    PROVE  TeamIInv'
<1>1. proc[p].pc = "accept" /\ work' = work
  BY DEF Accept
<1>2. proc[p].pc \in Trying /\ proc[p].pc \in Living
  BY <1>1 DEF Trying, Living
<1>3. PICK d : d = Note("accepted", proc[p].m, proc[p].n)
  OBVIOUS
<1>4. d \in Notes /\ d \in TeamMessages /\ d.key[1] = "accepted"
  BY <1>2, <1>3, AtRequest DEF TeamMessages, NoteKinds, Note
<1>5. CASE Publish("events", d) /\ proc' = Turn(p, "run") /\ ran' = ran \cup {<<proc[p].m, proc[p].n>>}
  <2>1. PICK r \in ProcRows : /\ proc' = [proc EXCEPT ![p] = r] /\ r.pc = "run"
                              /\ SameWork(r, proc[p]) /\ r.batch = proc[p].batch
    BY <1>5, ProcFacts, Turned DEF Counters, Living, Trying
  <2>2. RecordsOK' /\ LogGrows /\ cursor' = cursor
    BY <1>1, <1>4, <1>5, PublishStep, TopicNames DEF TeamIInv
  <2>3. PICK s \in ProcRows : s = proc[p] /\ LivingOK(s) /\ LivingOK(s)'
    BY <1>1, <1>2, <2>2, KeepsLiving
  <2>4. LivingOK(r)'
    BY <1>1, <2>1, <2>3 DEF LivingOK, SameWork, Trying, Ending
  <2>5. \A a \in ran' \ ran : /\ a \in Slots \X Nat
                              /\ 1 <= a[2] /\ a[2] <= work[a[1]].attempts
    <3>1. 1 <= proc[p].n /\ proc[p].n = work[proc[p].m].attempts
      BY <1>2, <2>3 DEF LivingOK
    <3> QED BY <1>2, <1>5, <3>1, AtRequest
  <2>6. r.pc \in Trying
    BY <2>1 DEF Trying
  <2> QED BY <1>1, <1>2, <2>1, <2>2, <2>4, <2>5, <2>6, OneStep DEF SameWork
<1>6. CASE proc' = Failing(p, FALSE) /\ UNCHANGED busVars /\ ran' = ran
  <2>1. PICK r \in ProcRows : /\ proc' = [proc EXCEPT ![p] = r] /\ r.pc = "fail"
                              /\ SameWork(r, proc[p]) /\ r.batch = proc[p].batch
    BY <1>6, ProcFacts, Failed
  <2>2. LivingOK(r)
    BY <1>1, <1>2, <2>1, AtRequest DEF LivingOK, SameWork, Trying, Ending
  <2>3. r.pc \in Trying
    BY <2>1 DEF Trying
  <2> QED BY <1>1, <1>2, <1>6, <2>1, <2>2, <2>3, QuietStep DEF SameWork, busVars
<1>7. \/ Publish("events", d) /\ proc' = Turn(p, "run")
      \/ ~Accepts("events", d) /\ proc' = Failing(p, FALSE) /\ UNCHANGED busVars
  BY <1>3 DEF Accept, Say
<1>8. ran' = IF Accepts("events", d) THEN ran \cup {<<proc[p].m, proc[p].n>>} ELSE ran
  BY <1>3 DEF Accept
<1> QED BY <1>5, <1>6, <1>7, <1>8 DEF Publish

LEMMA ScheduleRetryStep ==
    ASSUME TeamIInv, NEW p \in Procs, ScheduleRetry(p)
    PROVE  TeamIInv'
<1>1. proc[p].pc = "fail" /\ work' = work /\ ran' = ran
  BY DEF ScheduleRetry
<1>2. proc[p].pc \in Trying /\ proc[p].pc \in Living /\ proc[p].n < MaxAttempts
  <2>1. proc[p].n \in Nat /\ ~(proc[p].n >= MaxAttempts)
    BY ProcFacts DEF ProcRows, ScheduleRetry, LastAttempt
  <2> QED BY <1>1, <2>1, TeamAssumption DEF Trying, Living
<1>3. PICK d : d = Note("retry", proc[p].m, proc[p].n)
  OBVIOUS
<1>4. d \in Notes /\ d \in TeamMessages /\ d.key[1] = "retry"
  BY <1>2, <1>3, AtRequest DEF TeamMessages, NoteKinds, Note
<1>5. CASE Publish("events", d) /\ proc' = NextMessage(p)
  <2>1. PICK r \in ProcRows : /\ proc' = [proc EXCEPT ![p] = r] /\ r.pc = "next"
                              /\ r.batch = proc[p].batch \ {proc[p].m}
    BY <1>5, ProcFacts, Passed
  <2>2. RecordsOK' /\ LogGrows /\ cursor' = cursor
    BY <1>1, <1>4, <1>5, PublishStep, TopicNames DEF TeamIInv
  <2>3. PICK s \in ProcRows : s = proc[p] /\ LivingOK(s) /\ LivingOK(s)'
    BY <1>1, <1>2, <2>2, KeepsLiving
  <2>4. LivingOK(r)'
    BY <1>1, <2>1, <2>3 DEF LivingOK, Trying, Ending
  <2> QED BY <1>1, <1>2, <2>1, <2>2, <2>4, OneStep
<1>6. CASE proc' = Turn(p, "over") /\ UNCHANGED busVars
  <2>1. PICK r \in ProcRows : proc' = [proc EXCEPT ![p] = r] /\ r.pc = "over"
    BY <1>6, ProcFacts, Turned DEF Counters
  <2>2. r.pc \notin Living
    BY <2>1 DEF Living, Trying, Ending
  <2> QED BY <1>1, <1>2, <1>6, <2>1, <2>2, QuietStep DEF busVars
<1> QED BY <1>3, <1>5, <1>6 DEF ScheduleRetry, Say

LEMMA AnnounceCancelStep ==
    ASSUME TeamIInv, NEW p \in Procs, AnnounceCancel(p)
    PROVE  TeamIInv'
<1>1. proc[p].pc = "cancel" /\ work' = work /\ ran' = ran
  BY DEF AnnounceCancel
<1>2. proc[p].pc \in Trying /\ proc[p].pc \in Living
  BY <1>1 DEF Trying, Living
<1>3. PICK d : d = Note("cancelled", proc[p].m, 0)
  OBVIOUS
<1>4. d \in Notes /\ d \in TeamMessages /\ d.key[1] = "cancelled"
  BY <1>2, <1>3, AtRequest DEF TeamMessages, NoteKinds, Note
<1>5. CASE Publish("events", d) /\ proc' = Turn(p, "cancel_ack")
  <2>1. PICK r \in ProcRows : /\ proc' = [proc EXCEPT ![p] = r] /\ r.pc = "cancel_ack"
                              /\ SameWork(r, proc[p]) /\ r.batch = proc[p].batch
    BY <1>5, ProcFacts, Turned DEF Counters, Living, Trying
  <2>2. RecordsOK' /\ LogGrows /\ cursor' = cursor /\ Bound("events", d)' # {}
    BY <1>1, <1>4, <1>5, PublishStep, TopicNames DEF TeamIInv
  <2>3. PICK s \in ProcRows : s = proc[p] /\ LivingOK(s) /\ LivingOK(s)'
    BY <1>1, <1>2, <2>2, KeepsLiving
  <2>4. d = Note("cancelled", r.m, 0)
    BY <1>3, <2>1 DEF SameWork
  <2>5. ConsumerOfState(r)' = ConsumerOfState(s)'
    BY <2>1, <2>3 DEF ConsumerOfState, SameWork
  <2>6. LivingOK(r)'
    BY <1>1, <2>1, <2>2, <2>3, <2>4, <2>5 DEF LivingOK, SameWork, Trying, Ending
  <2>7. r.pc \in Trying
    BY <2>1 DEF Trying
  <2> QED BY <1>1, <1>2, <2>1, <2>2, <2>6, <2>7, OneStep DEF SameWork
<1>6. CASE proc' = Failing(p, FALSE) /\ UNCHANGED busVars
  <2>1. PICK r \in ProcRows : /\ proc' = [proc EXCEPT ![p] = r] /\ r.pc = "fail"
                              /\ SameWork(r, proc[p]) /\ r.batch = proc[p].batch
    BY <1>6, ProcFacts, Failed
  <2>2. LivingOK(r)
    BY <1>1, <1>2, <2>1, AtRequest DEF LivingOK, SameWork, Trying, Ending
  <2>3. r.pc \in Trying
    BY <2>1 DEF Trying
  <2> QED BY <1>1, <1>2, <1>6, <2>1, <2>2, <2>3, QuietStep DEF SameWork, busVars
<1> QED BY <1>3, <1>5, <1>6 DEF AnnounceCancel, Say

\* The first undelivered row of a terminal request is one of its rows, and a terminal event
\* comes when the metrics are delivered.
LEMMA NextRow ==
    ASSUME RecordsOK, NEW m \in Slots, work[m].terminal,
           NEW todo, todo = work[m].rows \ work[m].delivered, todo # {}
    PROVE  LET row == First(todo)
           IN  /\ row \in todo /\ row \in AllRows
               /\ row.topic \in {"events", "dlq"} /\ row.draft \in Notes
               /\ row.topic = "events" /\ row.draft.key[1] = "terminal" =>
                    /\ Row("events", 1, row.draft) \in work[row.draft.key[2]].rows
                    /\ \E i \in DOMAIN log["events"] : log["events"][i].key
                            = <<"metrics", row.draft.key[2], row.draft.key[3]>>
               /\ row.topic = "dlq" => Row("dlq", 0, row.draft) \in work[row.draft.key[2]].rows
<1>1. todo \in SUBSET AllRows
  BY DEF RecordsOK, WorkTypes, WorkRows
<1>2. PICK row : row = First(todo)
  OBVIOUS
<1>3. /\ row \in todo /\ row \in AllRows /\ \A b \in todo : row.ordinal <= b.ordinal
      /\ row.topic \in {"events", "dlq"} /\ row.draft \in Notes
  BY <1>1, <1>2, FirstOf
<1>4. PICK n \in Nat : work[m].rows \in {EventRows(m, n), DlqRows(m, n)}
  BY DEF RecordsOK, WorkOK
<1>5. CASE work[m].rows = EventRows(m, n)
  <2>1. \/ row = Row("events", 0, Note("metrics", m, n))
        \/ row = Row("events", 1, Note("terminal", m, n))
    BY <1>3, <1>5 DEF EventRows
  <2>2. CASE row = Row("events", 0, Note("metrics", m, n))
    <3>1. row.topic = "events" /\ row.draft.key[1] = "metrics"
      BY <2>2 DEF Row, Note
    <3> QED BY <1>2, <1>3, <3>1
  <2>3. CASE row = Row("events", 1, Note("terminal", m, n))
    <3>1. /\ row.topic = "events" /\ row.draft = Note("terminal", m, n)
          /\ row.draft.key[2] = m /\ row.draft.key[3] = n /\ row.ordinal = 1
      BY <2>3 DEF Row, Note
    <3>2. PICK o : o = Row("events", 0, Note("metrics", m, n))
      OBVIOUS
    <3>3. o.ordinal = 0 /\ o.topic = "events" /\ o.draft = Note("metrics", m, n)
      BY <3>2 DEF Row
    <3>4. o \in work[m].delivered
      BY <1>3, <1>5, <3>1, <3>2, <3>3 DEF EventRows
    <3>5. Bound("events", Note("metrics", m, n)) # {}
      BY <3>3, <3>4 DEF RecordsOK, WorkOK
    <3>6. \E i \in DOMAIN log["events"] : log["events"][i].key = <<"metrics", m, n>>
      BY <3>5 DEF Bound, SameKey, Note
    <3>7. Row("events", 1, row.draft) \in work[m].rows
      BY <1>3, <2>3, <3>1
    <3> QED BY <1>2, <1>3, <3>1, <3>6, <3>7
  <2> QED BY <2>1, <2>2, <2>3
<1>6. CASE work[m].rows = DlqRows(m, n)
  <2>1. row = Row("dlq", 0, Note("dlq", m, n))
    BY <1>3, <1>6 DEF DlqRows
  <2>2. row.topic = "dlq" /\ row.draft = Note("dlq", m, n) /\ row.draft.key[2] = m
    BY <2>1 DEF Row, Note
  <2> QED BY <1>2, <1>3, <2>1, <2>2
<1> QED BY <1>4, <1>5, <1>6

LEMMA FlushStep ==
    ASSUME TeamIInv, NEW p \in Procs, Flush(p)
    PROVE  TeamIInv'
<1>1. proc[p].pc = "flush" /\ proc[p].todo # {} /\ work' = work /\ ran' = ran
  BY DEF Flush
<1>2. proc[p].pc \in Ending /\ proc[p].pc \in Living /\ proc[p].pc \notin Trying \cup {"crashed"}
  BY <1>1 DEF Trying, Ending, Living
<1>3. PICK m \in Slots, todo \in SUBSET AllRows :
        /\ m = proc[p].m /\ todo = proc[p].todo
        /\ work[m].terminal /\ todo = work[m].rows \ work[m].delivered
  <2>1. proc[p].todo \in SUBSET AllRows
    BY ProcFacts DEF ProcRows
  <2> QED BY <1>1, <1>2, <2>1, AtRequest DEF LivingOK
<1>4. PICK row : row = First(todo)
  OBVIOUS
<1>5. /\ row.topic \in {"events", "dlq"} /\ row.draft \in Notes
      /\ row.topic = "events" /\ row.draft.key[1] = "terminal" =>
            /\ Row("events", 1, row.draft) \in work[row.draft.key[2]].rows
            /\ \E i \in DOMAIN log["events"] : log["events"][i].key
                    = <<"metrics", row.draft.key[2], row.draft.key[3]>>
      /\ row.topic = "dlq" => Row("dlq", 0, row.draft) \in work[row.draft.key[2]].rows
  BY <1>1, <1>3, <1>4, NextRow DEF TeamIInv
<1>6. CASE Publish(row.topic, row.draft) /\ proc' = Turn(p, "mark")
  <2>1. PICK r \in ProcRows : /\ proc' = [proc EXCEPT ![p] = r] /\ r.pc = "mark"
                              /\ SameWork(r, proc[p]) /\ r.batch = proc[p].batch
    BY <1>6, ProcFacts, Turned DEF Counters, Living, Ending
  <2>2. PICK t \in Topics, d \in TeamMessages : t = row.topic /\ d = row.draft
    BY <1>5, TopicNames DEF TeamMessages
  <2>3. RecordsOK' /\ LogGrows /\ cursor' = cursor /\ Bound(t, d)' # {}
    BY <1>1, <1>5, <1>6, <2>2, PublishStep DEF TeamIInv
  <2>4. PICK s \in ProcRows : s = proc[p] /\ LivingOK(s) /\ LivingOK(s)'
    BY <1>1, <1>2, <2>3, KeepsLiving
  <2>5. First(r.todo).topic = t /\ First(r.todo).draft = d /\ r.todo # {}
    BY <1>1, <1>3, <1>4, <2>1, <2>2 DEF SameWork
  <2>6. Bound(First(r.todo).topic, First(r.todo).draft)' # {}
    BY <2>3, <2>5
  <2>7. LivingOK(r)'
    BY <1>1, <2>1, <2>4, <2>5, <2>6 DEF LivingOK, SameWork, Trying, Ending
  <2> QED BY <1>1, <1>2, <2>1, <2>3, <2>7, OneStep
<1>7. CASE proc' = NextMessage(p) /\ UNCHANGED busVars
  <2>1. PICK r \in ProcRows : /\ proc' = [proc EXCEPT ![p] = r] /\ r.pc = "next"
                              /\ r.batch = proc[p].batch \ {proc[p].m}
    BY <1>7, ProcFacts, Passed
  <2>2. LivingOK(r)
    BY <1>1, <1>2, <2>1, AtRequest DEF LivingOK, Trying, Ending
  <2> QED BY <1>1, <1>2, <1>7, <2>1, <2>2, QuietStep DEF busVars
<1> QED BY <1>3, <1>4, <1>6, <1>7 DEF Flush, Say

LEMMA SubmitCancelStep ==
    ASSUME TeamIInv, NEW c \in Requests, SubmitCancel(c)
    PROVE  TeamIInv'
<1>1. PICK d \in TeamMessages : d = CancelDraft(c)
  BY DEF TeamMessages, CancelMessages
<1>2. Publish("cancels", d) /\ UNCHANGED <<work, proc, ran>>
  BY <1>1 DEF SubmitCancel, teamVars
<1>3. RecordsOK' /\ LogGrows /\ cursor' = cursor
  BY <1>2, PublishStep, TopicNames DEF TeamIInv
<1>4. AttemptsOK'
  BY <1>2 DEF TeamIInv, AttemptsOK, HeldBy
<1>5. ProcsOK'
  <2>1. ASSUME NEW q \in Procs, proc[q].pc \in Living PROVE LivingOK(proc[q])'
    <3>1. PICK s \in ProcRows : s = proc[q] /\ LivingOK(s)'
      BY <1>2, <1>3, <2>1, KeepsLiving
    <3>2. s = proc'[q]
      BY <1>2, <3>1
    <3> QED BY <3>1, <3>2
  <2> QED BY <1>2, <2>1 DEF TeamIInv, ProcsOK
<1> QED BY <1>3, <1>4, <1>5 DEF TeamIInv

-----------------------------------------------------------------------------
(* Steps that change the state store or a cursor *)

\* What holds of the log does not depend on the state store.
LEMMA CommitStep ==
    ASSUME TeamIInv, NEW p \in Procs, proc[p].pc \in Trying, NEW rows,
           rows \in {EventRows(proc[p].m, proc[p].n), DlqRows(proc[p].m, proc[p].n)},
           CommitTerminal(p, rows)
    PROVE  TeamIInv'
<1>1. PICK m \in Slots, n \in Nat :
        /\ m = proc[p].m /\ n = proc[p].n /\ m \in DOMAIN log["requests"]
        /\ ~work[m].terminal /\ n = work[m].attempts
        /\ rows \in {EventRows(m, n), DlqRows(m, n)}
  BY AtRequest DEF LivingOK
<1>2. UNCHANGED <<log, cursor, ran>> /\ proc' = Turn(p, "recover")
  BY DEF CommitTerminal
<1>3. work \in [Slots -> WorkRows]
  BY DEF TeamIInv, RecordsOK, WorkTypes
<1>4. work[m].rows = {} /\ work[m].delivered = {}
  BY <1>1 DEF TeamIInv, RecordsOK, WorkOK
<1>5. rows \subseteq AllRows
  <2>1. \A kind \in NoteKinds : Note(kind, m, n) \in Notes
    BY DEF Notes
  <2> QED BY <1>1, <2>1 DEF EventRows, DlqRows, AllRows, NoteKinds
<1> DEFINE w == [work[m] EXCEPT !.terminal = TRUE, !.rows = rows]
<1>6. work' = [work EXCEPT ![m] = w]
  <2>1. work' = [work EXCEPT ![m].terminal = TRUE, ![m].rows = work[m].rows \cup rows]
    BY <1>1, <1>3 DEF CommitTerminal
  <2> QED BY <1>3, <1>4, <2>1
<1>7. /\ w \in WorkRows /\ w.terminal = TRUE /\ w.rows = rows /\ w.delivered = {}
      /\ w.attempts = work[m].attempts
  BY <1>3, <1>4, <1>5 DEF WorkRows
<1> HIDE DEF w
<1>8. /\ work' \in [Slots -> WorkRows] /\ work'[m] = w
      /\ \A k \in Slots : k # m => work'[k] = work[k]
  BY <1>3, <1>6, <1>7
<1>9. RecordsOK'
  <2>1. LogTypes' /\ OneMessagePerKey' /\ MetricsFirst'
    BY <1>2 DEF TeamIInv, RecordsOK, LogTypes, OneMessagePerKey, MetricsFirst
  <2>2. WorkTypes'
    BY <1>2, <1>8 DEF TeamIInv, RecordsOK, WorkTypes
  <2>3. WorkOK'
    <3>1. ASSUME NEW k \in Slots
          PROVE  /\ work'[k].delivered \subseteq work'[k].rows
                 /\ ~work'[k].terminal => work'[k].rows = {}
                 /\ work'[k].terminal =>
                        \E i \in Nat : work'[k].rows \in {EventRows(k, i), DlqRows(k, i)}
                 /\ \A o \in work'[k].delivered : Bound(o.topic, o.draft)' # {}
      <4>1. CASE k = m
        BY <1>1, <1>7, <1>8, <4>1
      <4>2. CASE k # m
        BY <1>2, <1>8, <4>2 DEF TeamIInv, RecordsOK, WorkOK, Bound
      <4> QED BY <4>1, <4>2
    <3> QED BY <3>1 DEF WorkOK
  <2>4. VerdictsOK'
    <3>1. /\ \A j \in DOMAIN log["events"] : log["events"][j] \in Notes
          /\ \A j \in DOMAIN log["dlq"] : log["dlq"][j] \in Notes
      BY DEF TeamIInv, RecordsOK, LogTypes
    <3>2. \A k \in Slots : work[k].rows \subseteq work'[k].rows
      BY <1>4, <1>8
    <3> QED BY <1>2, <3>1, <3>2, NoteKeys DEF TeamIInv, RecordsOK, VerdictsOK
  <2>5. CancelsOK'
    BY <1>2 DEF TeamIInv, RecordsOK, CancelsOK, Bound
  <2> QED BY <2>1, <2>2, <2>3, <2>4, <2>5 DEF RecordsOK
<1>10. PICK r \in ProcRows : /\ proc' = [proc EXCEPT ![p] = r] /\ r.pc = "recover"
                             /\ SameWork(r, proc[p]) /\ r.batch = proc[p].batch
  BY <1>2, ProcFacts, Turned DEF Counters, Living, Ending
<1>11. proc[p].pc \in Living /\ proc[p].pc # "pull"
  BY DEF Living, Trying
<1>12. proc[p].batch \subseteq DOMAIN log["requests"]
  BY <1>11, ProcFacts DEF LivingOK
<1>13. LivingOK(r)'
  BY <1>1, <1>2, <1>7, <1>8, <1>10, <1>12 DEF LivingOK, SameWork, Trying, Ending
<1>14. \A k \in Slots : /\ work'[k].attempts = work[k].attempts
                        /\ work[k].terminal => work'[k].terminal
  BY <1>7, <1>8
<1>15. work'[proc[p].m].terminal /\ proc[p].n = work[proc[p].m].attempts
  BY <1>1, <1>7, <1>8
<1> QED BY <1>2, <1>9, <1>10, <1>11, <1>13, <1>14, <1>15, OneStep

LEMMA VerdictStep ==
    ASSUME TeamIInv, NEW p \in Procs, Commit(p) \/ DeadLetter(p)
    PROVE  TeamIInv'
<1>1. CASE Commit(p)
  BY <1>1, CommitStep DEF Commit, EventRows, Trying
<1>2. CASE DeadLetter(p)
  BY <1>2, CommitStep DEF DeadLetter, DlqRows, Trying
<1> QED BY <1>1, <1>2

LEMMA MarkDeliveredStep ==
    ASSUME TeamIInv, NEW p \in Procs, MarkDelivered(p)
    PROVE  TeamIInv'
<1>1. proc[p].pc = "mark" /\ UNCHANGED <<log, cursor, ran>>
  BY DEF MarkDelivered
<1>2. proc[p].pc \in Ending /\ proc[p].pc \in Living /\ proc[p].pc \notin Trying \cup {"crashed"}
  BY <1>1 DEF Trying, Ending, Living
<1>3. PICK m \in Slots, todo \in SUBSET AllRows :
        /\ m = proc[p].m /\ m \in DOMAIN log["requests"] /\ todo = proc[p].todo
        /\ work[m].terminal /\ todo # {} /\ todo = work[m].rows \ work[m].delivered
        /\ Bound(First(todo).topic, First(todo).draft) # {}
        /\ proc[p].batch \subseteq DOMAIN log["requests"]
  <2>1. proc[p].todo \in SUBSET AllRows
    BY ProcFacts DEF ProcRows
  <2> QED BY <1>1, <1>2, <2>1, AtRequest DEF LivingOK
<1>4. PICK row : row = First(todo)
  OBVIOUS
<1>5. row \in todo /\ row \in AllRows
  BY <1>3, <1>4, NextRow DEF TeamIInv
<1>6. work \in [Slots -> WorkRows]
  BY DEF TeamIInv, RecordsOK, WorkTypes
<1> DEFINE w == [work[m] EXCEPT !.delivered = work[m].delivered \cup {row}]
<1>7. work' = [work EXCEPT ![m] = w]
  BY <1>3, <1>4, <1>6 DEF MarkDelivered
<1>8. /\ w \in WorkRows /\ w.terminal = work[m].terminal /\ w.rows = work[m].rows
      /\ w.delivered = work[m].delivered \cup {row} /\ w.attempts = work[m].attempts
  BY <1>5, <1>6 DEF WorkRows
<1>9. PICK r \in ProcRows : /\ proc' = [proc EXCEPT ![p] = r] /\ r.pc = "flush" /\ r.m = m
                            /\ r.todo = todo \ {row} /\ r.batch = proc[p].batch
  <2> DEFINE s == [proc[p] EXCEPT !.pc = "flush", !.todo = todo \ {row}]
  <2>1. proc' = [proc EXCEPT ![p] = s]
    BY <1>3, <1>4, ProcFacts DEF MarkDelivered
  <2>2. /\ s \in ProcRows /\ s.pc = "flush" /\ s.m = m /\ s.todo = todo \ {row}
        /\ s.batch = proc[p].batch
    BY <1>3, ProcFacts DEF ProcRows, Counters, Living, Ending
  <2> QED BY <2>1, <2>2
<1> HIDE DEF w
<1>11. /\ work' \in [Slots -> WorkRows] /\ work'[m] = w
       /\ \A k \in Slots : k # m => work'[k] = work[k]
  BY <1>6, <1>7, <1>8
<1>12. RecordsOK'
  <2>1. LogTypes' /\ OneMessagePerKey' /\ MetricsFirst'
    BY <1>1 DEF TeamIInv, RecordsOK, LogTypes, OneMessagePerKey, MetricsFirst
  <2>2. WorkTypes'
    BY <1>1, <1>11 DEF TeamIInv, RecordsOK, WorkTypes
  <2>3. WorkOK'
    <3>1. ASSUME NEW k \in Slots
          PROVE  /\ work'[k].delivered \subseteq work'[k].rows
                 /\ ~work'[k].terminal => work'[k].rows = {}
                 /\ work'[k].terminal =>
                        \E i \in Nat : work'[k].rows \in {EventRows(k, i), DlqRows(k, i)}
                 /\ \A o \in work'[k].delivered : Bound(o.topic, o.draft)' # {}
      <4>1. CASE k = m
        <5>1. Bound(row.topic, row.draft)' # {}
          BY <1>1, <1>3, <1>4 DEF Bound
        <5>2. \A o \in work[m].delivered : Bound(o.topic, o.draft)' # {}
          BY <1>1 DEF TeamIInv, RecordsOK, WorkOK, Bound
        <5>3. work[m].delivered \subseteq work[m].rows
          BY DEF TeamIInv, RecordsOK, WorkOK
        <5>4. \E i \in Nat : work[m].rows \in {EventRows(m, i), DlqRows(m, i)}
          BY <1>3 DEF TeamIInv, RecordsOK, WorkOK
        <5>5. /\ work'[k].terminal = work[m].terminal /\ work'[k].rows = work[m].rows
              /\ work'[k].delivered = work[m].delivered \cup {row}
          BY <1>8, <1>11, <4>1
        <5>6. row \in work[m].rows /\ work[m].terminal
          BY <1>3, <1>5
        <5> QED BY <4>1, <5>1, <5>2, <5>3, <5>4, <5>5, <5>6
      <4>2. CASE k # m
        BY <1>1, <1>11, <4>2 DEF TeamIInv, RecordsOK, WorkOK, Bound
      <4> QED BY <4>1, <4>2
    <3> QED BY <3>1 DEF WorkOK
  <2>4. VerdictsOK'
    <3>1. /\ \A j \in DOMAIN log["events"] : log["events"][j] \in Notes
          /\ \A j \in DOMAIN log["dlq"] : log["dlq"][j] \in Notes
      BY DEF TeamIInv, RecordsOK, LogTypes
    <3>2. \A k \in Slots : work[k].rows = work'[k].rows
      BY <1>8, <1>11
    <3> QED BY <1>1, <3>1, <3>2, NoteKeys DEF TeamIInv, RecordsOK, VerdictsOK
  <2>5. CancelsOK'
    BY <1>1 DEF TeamIInv, RecordsOK, CancelsOK, Bound
  <2> QED BY <2>1, <2>2, <2>3, <2>4, <2>5 DEF RecordsOK
<1>13. LivingOK(r)'
  BY <1>1, <1>3, <1>5, <1>8, <1>9, <1>11 DEF LivingOK, Trying, Ending
<1>14. \A k \in Slots : /\ work'[k].attempts = work[k].attempts
                        /\ work[k].terminal => work'[k].terminal
  BY <1>8, <1>11
<1> QED BY <1>1, <1>2, <1>9, <1>12, <1>13, <1>14, OneStep

LEMMA AckRequestStep ==
    ASSUME TeamIInv, NEW p \in Procs, AckRequest(p)
    PROVE  TeamIInv'
<1>1. proc[p].pc = "ack" /\ UNCHANGED <<log, work, ran>>
  BY DEF AckRequest, Ack
<1>2. proc[p].pc \in Ending /\ proc[p].pc \in Living /\ proc[p].pc \notin Trying \cup {"crashed"}
  BY <1>1 DEF Trying, Ending, Living
<1>3. PICK m \in Nat : m = proc[p].m
  BY <1>2, AtRequest
<1>4. cursor' = cursor \/ cursor' = [cursor EXCEPT ![Me]["requests"] = m]
  BY <1>3 DEF AckRequest, Ack
<1>5. cursor \in [Consumers -> [Topics -> Nat]] /\ Me \in Consumers
  BY TeamAssumption DEF TeamIInv, RecordsOK, WorkTypes
<1>6. cursor' \in [Consumers -> [Topics -> Nat]]
  BY <1>3, <1>4, <1>5
<1>7. \A c \in Requests : cursor'[CancelMe[c]] = cursor[CancelMe[c]]
  BY <1>4, <1>5, TeamAssumption
<1>8. RecordsOK'
  <2>1. LogTypes' /\ OneMessagePerKey' /\ MetricsFirst'
    BY <1>1 DEF TeamIInv, RecordsOK, LogTypes, OneMessagePerKey, MetricsFirst
  <2>2. WorkTypes' /\ VerdictsOK'
    BY <1>1, <1>6 DEF TeamIInv, RecordsOK, WorkTypes, VerdictsOK
  <2>3. WorkOK'
    BY <1>1 DEF TeamIInv, RecordsOK, WorkOK, Bound
  <2>4. CancelsOK'
    BY <1>1, <1>7 DEF TeamIInv, RecordsOK, CancelsOK, Bound
  <2> QED BY <2>1, <2>2, <2>3, <2>4 DEF RecordsOK
<1>9. PICK b \in BOOLEAN : b = (proc[p].done \/ log["requests"][proc[p].m].key = RequestOf[p])
  OBVIOUS
<1>10. PICK r \in ProcRows : /\ proc' = [proc EXCEPT ![p] = r] /\ r.pc = "next"
                             /\ r.batch \subseteq proc[p].batch
  <2> DEFINE s == [proc[p] EXCEPT !.pc = "next", !.batch = proc[p].batch \ {proc[p].m},
                                  !.done = b]
  <2>1. proc' = [proc EXCEPT ![p] = s]
    BY <1>9, ProcFacts DEF AckRequest, NextMessage
  <2>2. s \in ProcRows /\ s.pc = "next" /\ s.batch \subseteq proc[p].batch
    BY ProcFacts DEF ProcRows, Counters, Living
  <2> QED BY <2>1, <2>2
<1>11. LivingOK(r)'
  BY <1>1, <1>2, <1>10, AtRequest DEF LivingOK, Trying, Ending
<1> QED BY <1>1, <1>2, <1>8, <1>10, <1>11, OneStep

LEMMA AckCancelStep ==
    ASSUME TeamIInv, NEW p \in Procs, AckCancel(p)
    PROVE  TeamIInv'
<1>1. proc[p].pc = "cancel_ack" /\ proc' = Turn(p, "run") /\ UNCHANGED <<log, work, ran>>
  BY DEF AckCancel, Ack
<1>2. proc[p].pc \in Trying /\ proc[p].pc \in Living
  BY <1>1 DEF Trying, Living
<1>3. PICK m \in Slots : /\ m = proc[p].m /\ m \in DOMAIN log["requests"]
                         /\ Unread(CancelConsumer(p), "cancels") # {}
                         /\ Bound("events", Note("cancelled", m, 0)) # {}
  BY <1>1, <1>2, AtRequest DEF LivingOK, CancelConsumer, ConsumerOfState
<1>4. PICK q \in Requests : q = log["requests"][m].key
  BY <1>3, RequestsFit DEF TeamIInv, RecordsOK
<1>5. PICK c \in Consumers : c = CancelMe[q] /\ c = CancelConsumer(p)
  BY <1>3, <1>4, TeamAssumption DEF CancelConsumer
<1>6. PICK k \in Nat : k = Min(Unread(c, "cancels"))
  <2>1. log["cancels"] \in Seq(TeamMessages)
    BY TopicNames DEF TeamIInv, RecordsOK, LogTypes
  <2>2. Unread(c, "cancels") \subseteq Nat /\ Unread(c, "cancels") # {}
    BY <1>3, <1>5, <2>1 DEF Unread, Eligible
  <2> QED BY <2>2, LeastOf
<1>7. cursor' = cursor \/ cursor' = [cursor EXCEPT ![c]["cancels"] = k]
  BY <1>5, <1>6 DEF AckCancel, Ack
<1>8. cursor \in [Consumers -> [Topics -> Nat]]
  BY DEF TeamIInv, RecordsOK, WorkTypes
<1>9. cursor' \in [Consumers -> [Topics -> Nat]]
  BY <1>6, <1>7, <1>8
<1>10. \A x \in Requests : x # q => cursor'[CancelMe[x]] = cursor[CancelMe[x]]
  BY <1>5, <1>7, <1>8, TeamAssumption
<1>11. RecordsOK'
  <2>1. LogTypes' /\ OneMessagePerKey' /\ MetricsFirst'
    BY <1>1 DEF TeamIInv, RecordsOK, LogTypes, OneMessagePerKey, MetricsFirst
  <2>2. WorkTypes' /\ VerdictsOK'
    BY <1>1, <1>9 DEF TeamIInv, RecordsOK, WorkTypes, VerdictsOK
  <2>3. WorkOK'
    BY <1>1 DEF TeamIInv, RecordsOK, WorkOK, Bound
  <2>4. \A d : Bound("events", d)' = Bound("events", d)
    BY <1>1 DEF Bound
  <2>5. ASSUME NEW x \in Requests, cursor'[CancelMe[x]]["cancels"] # 0
        PROVE  \E i \in DOMAIN log["requests"] :
                    /\ log["requests"][i].key = x
                    /\ Bound("events", Note("cancelled", i, 0)) # {}
    <3>1. CASE x = q
      BY <1>3, <1>4, <3>1
    <3>2. CASE x # q
      BY <1>10, <2>5, <3>2 DEF TeamIInv, RecordsOK, CancelsOK
    <3> QED BY <3>1, <3>2
  <2>6. CancelsOK'
    BY <1>1, <2>4, <2>5 DEF CancelsOK
  <2> QED BY <2>1, <2>2, <2>3, <2>6 DEF RecordsOK
<1>12. PICK r \in ProcRows : /\ proc' = [proc EXCEPT ![p] = r] /\ r.pc = "run"
                             /\ SameWork(r, proc[p]) /\ r.batch = proc[p].batch
  BY <1>1, ProcFacts, Turned DEF Counters, Living, Trying
<1>13. LivingOK(r)'
  BY <1>1, <1>2, <1>12, AtRequest DEF LivingOK, SameWork, Trying, Ending
<1>14. r.pc \in Trying
  BY <1>12 DEF Trying
<1> QED BY <1>1, <1>2, <1>11, <1>12, <1>13, <1>14, OneStep DEF SameWork

LEMMA BeginAttemptStep ==
    ASSUME TeamIInv, NEW p \in Procs, BeginAttempt(p)
    PROVE  TeamIInv'
<1>1. proc[p].pc = "next" /\ proc[p].batch # {} /\ UNCHANGED <<log, cursor, ran>>
  BY DEF BeginAttempt
<1>2. proc[p].pc \in Living /\ proc[p].pc \notin Trying \cup {"crashed"}
  BY <1>1 DEF Trying, Ending, Living
<1>3. proc[p].batch \subseteq DOMAIN log["requests"]
  BY <1>1, <1>2, ProcFacts DEF LivingOK
<1>4. PICK m \in Slots : m = Min(proc[p].batch) /\ m \in DOMAIN log["requests"] /\ m \in Nat
  <2>1. DOMAIN log["requests"] \subseteq Slots /\ Slots \subseteq Nat
    BY RequestsFit DEF TeamIInv, RecordsOK
  <2>2. Min(proc[p].batch) \in proc[p].batch
    BY <1>1, <1>3, <2>1, LeastOf
  <2> QED BY <1>3, <2>1, <2>2
<1>5. CASE work[m].terminal
  <2> DEFINE r == [proc[p] EXCEPT !.pc = "recover", !.m = m]
  <2>1. proc' = [proc EXCEPT ![p] = r] /\ work' = work
    BY <1>4, <1>5, ProcFacts DEF BeginAttempt
  <2>2. r \in ProcRows /\ r.pc = "recover" /\ r.m = m /\ r.batch = proc[p].batch
    BY <1>4, ProcFacts DEF ProcRows, Counters, Living, Ending
  <2> HIDE DEF r
  <2>3. LivingOK(r)
    BY <1>3, <1>4, <1>5, <2>2 DEF LivingOK, Trying, Ending
  <2> QED BY <1>1, <1>2, <2>1, <2>2, <2>3, QuietStep
<1>6. CASE ~work[m].terminal
  <2>1. work \in [Slots -> WorkRows]
    BY DEF TeamIInv, RecordsOK, WorkTypes
  <2>2. PICK a \in Nat : a = work[m].attempts
    BY <2>1 DEF WorkRows
  <2> DEFINE w == [work[m] EXCEPT !.attempts = a + 1]
  <2>3. work' = [work EXCEPT ![m] = w]
    BY <1>4, <1>6, <2>1, <2>2 DEF BeginAttempt
  <2>4. /\ w \in WorkRows /\ w.terminal = work[m].terminal /\ w.rows = work[m].rows
        /\ w.delivered = work[m].delivered /\ w.attempts = a + 1
    BY <2>1, <2>2 DEF WorkRows
  <2>5. PICK r \in ProcRows : /\ proc' = [proc EXCEPT ![p] = r] /\ r.pc = "accept" /\ r.m = m
                              /\ r.n = a + 1 /\ r.batch = proc[p].batch
    <3> DEFINE s == [proc[p] EXCEPT !.pc = "accept", !.m = m, !.n = a + 1]
    <3>1. proc' = [proc EXCEPT ![p] = s]
      BY <1>4, <1>6, <2>2, ProcFacts DEF BeginAttempt
    <3>2. proc[p] \in ProcRows /\ a + 1 \in Nat /\ "accept" \in Counters
      BY ProcFacts DEF Counters, Living, Trying
    <3>3. /\ s \in ProcRows /\ s.pc = "accept" /\ s.m = m
          /\ s.n = a + 1 /\ s.batch = proc[p].batch
      BY <1>4, <3>2 DEF ProcRows
    <3> QED BY <3>1, <3>3
  <2> HIDE DEF w
  <2>6. /\ work' \in [Slots -> WorkRows] /\ work'[m] = w
        /\ \A k \in Slots : k # m => work'[k] = work[k]
    BY <2>1, <2>3, <2>4
  <2>7. \A k \in Slots : /\ work'[k].terminal = work[k].terminal /\ work'[k].rows = work[k].rows
                         /\ work'[k].delivered = work[k].delivered
    BY <2>4, <2>6
  <2>8. RecordsOK'
    <3>1. LogTypes' /\ OneMessagePerKey' /\ MetricsFirst'
      BY <1>1 DEF TeamIInv, RecordsOK, LogTypes, OneMessagePerKey, MetricsFirst
    <3>2. WorkTypes'
      BY <1>1, <2>6 DEF TeamIInv, RecordsOK, WorkTypes
    <3>3. WorkOK'
      BY <1>1, <2>7 DEF TeamIInv, RecordsOK, WorkOK, Bound
    <3>4. VerdictsOK'
      <4>1. /\ \A j \in DOMAIN log["events"] : log["events"][j] \in Notes
            /\ \A j \in DOMAIN log["dlq"] : log["dlq"][j] \in Notes
        BY DEF TeamIInv, RecordsOK, LogTypes
      <4> QED BY <1>1, <2>7, <4>1, NoteKeys DEF TeamIInv, RecordsOK, VerdictsOK
    <3>5. CancelsOK'
      BY <1>1 DEF TeamIInv, RecordsOK, CancelsOK, Bound
    <3> QED BY <3>1, <3>2, <3>3, <3>4, <3>5 DEF RecordsOK
  <2>9. LivingOK(r)'
    BY <1>1, <1>3, <1>4, <1>6, <2>2, <2>4, <2>5, <2>6 DEF LivingOK, Trying, Ending
  <2>10. ProcsOK' /\ proc'[p] = r /\ \A q \in Procs : q # p => proc'[q] = proc[q]
    BY <1>2, <2>5, <2>9, ProcFacts, OneLives
  <2>11. AttemptsOK'
    <3>1. AttemptsOK
      BY DEF TeamIInv
    <3>2. \A x \in ran' : x \in Slots \X Nat /\ 1 <= x[2] /\ x[2] <= work'[x[1]].attempts
      <4> SUFFICES ASSUME NEW x \in ran
                   PROVE  x \in Slots \X Nat /\ 1 <= x[2] /\ x[2] <= work'[x[1]].attempts
        BY <1>1
      <4>1. x \in Slots \X Nat /\ 1 <= x[2] /\ x[2] <= work[x[1]].attempts
        BY <3>1 DEF AttemptsOK
      <4>2. CASE x[1] = m
        BY <2>2, <2>4, <2>6, <4>1, <4>2
      <4>3. CASE x[1] # m
        BY <2>6, <4>1, <4>3
      <4> QED BY <4>2, <4>3
    <3>3. ASSUME NEW k \in Slots, NEW n \in Nat, MaxAttempts <= n, n <= work'[k].attempts
          PROVE  \/ n = work'[k].attempts /\ work'[k].terminal
                 \/ \E q \in Procs : HeldBy(q, k, n)'
      <4>1. CASE k = m /\ n = a + 1
        BY <2>5, <2>10, <4>1 DEF HeldBy, Trying
      <4>2. CASE ~(k = m /\ n = a + 1)
        <5>1. n <= work[k].attempts
          BY <2>2, <2>4, <2>6, <3>3, <4>2
        <5>2. CASE n = work[k].attempts /\ work[k].terminal
          BY <1>6, <2>6, <5>2
        <5>3. CASE \E q \in Procs : HeldBy(q, k, n)
          <6> PICK q \in Procs : HeldBy(q, k, n)
            BY <5>3
          <6>1. q # p
            BY <1>2 DEF HeldBy
          <6> QED BY <2>10, <6>1 DEF HeldBy
        <5> QED BY <3>1, <3>3, <5>1, <5>2, <5>3 DEF AttemptsOK
      <4> QED BY <4>1, <4>2
    <3> QED BY <3>2, <3>3 DEF AttemptsOK
  <2> QED BY <2>8, <2>10, <2>11 DEF TeamIInv
<1> QED BY <1>5, <1>6

-----------------------------------------------------------------------------
(* The invariant holds *)

LEMMA TeamStarts == TeamInit => TeamIInv
<1> SUFFICES ASSUME TeamInit PROVE TeamIInv
  OBVIOUS
<1>1. \A t \in Topics : log[t] = << >>
  BY DEF TeamInit, BusInit
<1>2. LogTypes
  BY <1>1, TopicNames DEF TeamInit, BusInit, LogTypes
<1>3. OneMessagePerKey /\ MetricsFirst /\ VerdictsOK
  BY <1>1, TopicNames DEF OneMessagePerKey, MetricsFirst, VerdictsOK
<1>4. WorkTypes
  BY DEF TeamInit, BusInit, WorkTypes, WorkRows
<1>5. WorkOK
  BY DEF TeamInit, WorkOK
<1>6. CancelsOK
  BY TeamAssumption, TopicNames DEF TeamInit, BusInit, CancelsOK
<1>7. AttemptsOK
  BY TeamAssumption DEF TeamInit, AttemptsOK
<1>8. ProcsOK
  BY DEF TeamInit, ProcsOK, ProcRows, Counters, Living, Trying, Ending
<1> QED BY <1>2, <1>3, <1>4, <1>5, <1>6, <1>7, <1>8 DEF TeamIInv, RecordsOK

LEMMA TeamSteps ==
    ASSUME TeamIInv, MaxAlive = 1, [TeamNext]_allVars
    PROVE  TeamIInv'
<1>1. CASE UNCHANGED allVars
  <2>1. RecordsOK'
    BY <1>1, QuietRecords DEF allVars, TeamIInv
  <2>2. AttemptsOK'
    BY <1>1 DEF allVars, TeamIInv, AttemptsOK, HeldBy
  <2>3. ProcsOK'
    <3>1. UNCHANGED <<log, cursor, work, proc>>
      BY <1>1 DEF allVars
    <3>2. ASSUME NEW s, LivingOK(s) PROVE LivingOK(s)'
      BY <3>1, <3>2 DEF LivingOK, ConsumerOfState, Unread, Eligible, Bound
    <3>3. ASSUME NEW q \in Procs, proc[q].pc \in Living PROVE LivingOK(proc[q])'
      <4>1. PICK s : s = proc[q] /\ s = proc'[q] /\ LivingOK(s)
        BY <3>1, <3>3 DEF TeamIInv, ProcsOK
      <4> QED BY <3>2, <4>1
    <3> QED BY <3>1, <3>3 DEF TeamIInv, ProcsOK
  <2> QED BY <2>1, <2>2, <2>3 DEF TeamIInv
<1>2. CASE \E r \in Requests : SubmitCancel(r)
  BY <1>2, SubmitCancelStep
<1>3. ASSUME NEW p \in Procs,
             \/ Submit(p) \/ PullRequests(p) \/ EndBatch(p) \/ Crash(p)
             \/ BeginAttempt(p) \/ Accept(p) \/ Return(p) \/ Commit(p)
             \/ DeadLetter(p) \/ ScheduleRetry(p)
             \/ ReadOutbox(p) \/ Flush(p) \/ MarkDelivered(p) \/ AllDelivered(p)
             \/ AckRequest(p) \/ PullCancel(p) \/ AnnounceCancel(p) \/ AckCancel(p)
      PROVE  TeamIInv'
  BY <1>3, SubmitStep, PullRequestsStep, EndBatchStep, CrashStep, BeginAttemptStep, AcceptStep,
     ReturnStep, VerdictStep, ScheduleRetryStep, ReadOutboxStep, FlushStep, MarkDeliveredStep,
     AllDeliveredStep, AckRequestStep, PullCancelStep, AnnounceCancelStep, AckCancelStep
<1> QED BY <1>1, <1>2, <1>3 DEF TeamNext

\* While processes do not overlap, the records of the bus and of the state store and
\* what the living process knows of its request agree, wherever processes crash.
THEOREM TeamInvariant ==
    ASSUME MaxAlive = 1
    PROVE  TeamSpec => []TeamIInv
<1>1. TeamInit => TeamIInv
  BY TeamStarts
<1>2. TeamIInv /\ [TeamNext]_allVars => TeamIInv'
  BY TeamSteps
<1> QED BY <1>1, <1>2, PTL DEF TeamSpec

-----------------------------------------------------------------------------
(* What the invariant says *)

LEMMA VerdictIsOne ==
    ASSUME TeamIInv, NEW m \in Slots
    PROVE  Cardinality(Verdicts(m)) <= 1
<1>1. /\ \A j \in DOMAIN log["events"] : log["events"][j] \in Notes
      /\ \A j \in DOMAIN log["dlq"] : log["dlq"][j] \in Notes
  BY DEF TeamIInv, RecordsOK, LogTypes
<1>2. ASSUME NEW x \in Verdicts(m)
      PROVE  \/ /\ x = <<x[1], "events">> /\ x[1] \in DOMAIN log["events"]
                /\ \E d \in Notes : /\ d = log["events"][x[1]] /\ d.key[1] = "terminal"
                                    /\ Row("events", 1, d) \in work[m].rows
             \/ /\ x = <<x[1], "dlq">> /\ x[1] \in DOMAIN log["dlq"]
                /\ \E d \in Notes : d = log["dlq"][x[1]] /\ Row("dlq", 0, d) \in work[m].rows
  <2>1. CASE x \in {n \in Kinds("events", m) : log["events"][n].key[1] = "terminal"} \X {"events"}
    <3>1. PICK j \in DOMAIN log["events"] :
            /\ x = <<j, "events">> /\ log["events"][j].key[1] = "terminal"
            /\ log["events"][j].key[2] = m
      BY <2>1 DEF Kinds
    <3>2. Row("events", 1, log["events"][j]) \in work[m].rows
      BY <3>1 DEF TeamIInv, RecordsOK, VerdictsOK
    <3> QED BY <1>1, <3>1, <3>2
  <2>2. CASE x \in Kinds("dlq", m) \X {"dlq"}
    <3>1. PICK j \in DOMAIN log["dlq"] : x = <<j, "dlq">> /\ log["dlq"][j].key[2] = m
      BY <2>2 DEF Kinds
    <3>2. Row("dlq", 0, log["dlq"][j]) \in work[m].rows
      BY <3>1 DEF TeamIInv, RecordsOK, VerdictsOK
    <3> QED BY <1>1, <3>1, <3>2
  <2> QED BY <2>1, <2>2 DEF Verdicts
<1>3. ASSUME NEW x \in Verdicts(m), NEW y \in Verdicts(m) PROVE x = y
  <2>1. work[m].rows # {}
    BY <1>2
  <2>2. PICK n \in Nat : work[m].rows \in {EventRows(m, n), DlqRows(m, n)}
    BY <2>1 DEF TeamIInv, RecordsOK, WorkOK
  <2>3. CASE work[m].rows = EventRows(m, n)
    <3>1. \A d : Row("dlq", 0, d) \notin work[m].rows
      BY <2>3 DEF EventRows, Row
    <3>2. \A d : Row("events", 1, d) \in work[m].rows => d = Note("terminal", m, n)
      BY <2>3 DEF EventRows, Row
    <3>3. /\ x = <<x[1], "events">> /\ y = <<y[1], "events">>
          /\ x[1] \in DOMAIN log["events"] /\ y[1] \in DOMAIN log["events"]
          /\ log["events"][x[1]] = log["events"][y[1]]
      BY <1>2, <3>1, <3>2
    <3>4. x[1] = y[1]
      BY <3>3, TopicNames DEF TeamIInv, RecordsOK, OneMessagePerKey, SameKey
    <3> QED BY <3>3, <3>4
  <2>4. CASE work[m].rows = DlqRows(m, n)
    <3>1. \A d : Row("events", 1, d) \notin work[m].rows
      BY <2>4 DEF DlqRows, Row
    <3>2. \A d : Row("dlq", 0, d) \in work[m].rows => d = Note("dlq", m, n)
      BY <2>4 DEF DlqRows, Row
    <3>3. /\ x = <<x[1], "dlq">> /\ y = <<y[1], "dlq">>
          /\ x[1] \in DOMAIN log["dlq"] /\ y[1] \in DOMAIN log["dlq"]
          /\ log["dlq"][x[1]] = log["dlq"][y[1]]
      BY <1>2, <3>1, <3>2
    <3>4. x[1] = y[1]
      BY <3>3, TopicNames DEF TeamIInv, RecordsOK, OneMessagePerKey, SameKey
    <3> QED BY <3>3, <3>4
  <2> QED BY <2>2, <2>3, <2>4
<1>4. CASE Verdicts(m) = {}
  BY <1>4, FS_EmptySet
<1>5. CASE Verdicts(m) # {}
  <2>1. PICK x : x \in Verdicts(m)
    BY <1>5
  <2>2. Verdicts(m) = {x}
    BY <1>3, <2>1
  <2>3. Cardinality(Verdicts(m)) = 1
    BY <2>2, FS_Singleton
  <2> QED BY <2>3
<1> QED BY <1>4, <1>5

\* How many attempts a request can have: each from the last on that did not end it was
\* the last of another process that crashed.
LEMMA AttemptsFit ==
    ASSUME TeamIInv, NEW m \in Slots
    PROVE  LET crashed == {p \in Procs : proc[p].pc = "crashed"}
           IN  /\ IsFiniteSet(crashed) /\ Cardinality(crashed) \in Nat
               /\ Cardinality(crashed) <= Cardinality(Procs) /\ Cardinality(Procs) \in Nat
               /\ work[m].attempts \in Nat
               /\ work[m].attempts <= MaxAttempts + Cardinality(crashed)
<1> DEFINE crashed == {p \in Procs : proc[p].pc = "crashed"}
<1>1. /\ IsFiniteSet(crashed) /\ Cardinality(crashed) \in Nat
      /\ Cardinality(crashed) <= Cardinality(Procs) /\ Cardinality(Procs) \in Nat
  BY TeamAssumption, FS_Subset, FS_CardinalityType
<1>2. PICK a \in Nat : a = work[m].attempts
  BY DEF TeamIInv, RecordsOK, WorkTypes, WorkRows
<1>3. MaxAttempts \in Nat
  BY TeamAssumption
<1>4. a <= MaxAttempts + Cardinality(crashed)
  <2>1. CASE a <= MaxAttempts
    BY <1>1, <1>2, <1>3, <2>1
  <2>2. CASE a > MaxAttempts
    <3> DEFINE S == MaxAttempts .. a - 1
    <3>1. ASSUME NEW n \in S
          PROVE  \E p \in crashed : proc[p].n = n
      <4>1. n \in Nat /\ MaxAttempts <= n /\ n < a
        BY <1>2, <1>3
      <4>2. PICK p \in Procs : HeldBy(p, m, n)
        BY <1>2, <4>1 DEF TeamIInv, AttemptsOK
      <4>3. proc[p].pc \notin Trying
        <5> SUFFICES ASSUME proc[p].pc \in Trying PROVE FALSE
          OBVIOUS
        <5>1. proc[p].n = work[proc[p].m].attempts
          BY AtRequest DEF LivingOK
        <5> QED BY <1>2, <4>1, <4>2, <5>1 DEF HeldBy
      <4> QED BY <4>2, <4>3 DEF HeldBy
    <3> DEFINE f == [n \in S |-> CHOOSE p \in crashed : proc[p].n = n]
    <3>2. \A n \in S : f[n] \in crashed /\ proc[f[n]].n = n
      BY <3>1
    <3> HIDE DEF crashed
    <3>3. f \in [S -> crashed]
      BY <3>2
    <3>4. \A x, y \in S : f[x] = f[y] => x = y
      BY <3>2
    <3> HIDE DEF f
    <3>5. f \in Injection(S, crashed)
      BY <3>3, <3>4 DEF Injection, IsInjective
    <3>6. Cardinality(S) <= Cardinality(crashed)
      BY <1>1, <3>5, FS_Injection
    <3>7. Cardinality(S) = a - MaxAttempts
      <4>1. PICK x \in Int, y \in Int : x = MaxAttempts /\ y = a - 1
        BY <1>2, <1>3
      <4>2. Cardinality(x .. y) = IF x > y THEN 0 ELSE y - x + 1
        BY FS_Interval
      <4> QED BY <1>2, <1>3, <2>2, <4>1, <4>2
    <3> QED BY <1>1, <1>2, <1>3, <3>6, <3>7
  <2> QED BY <1>2, <1>3, <2>1, <2>2
<1> QED BY <1>1, <1>2, <1>4

LEMMA RunsFit ==
    ASSUME TeamIInv, NEW m \in Slots
    PROVE  Cardinality({a \in ran : a[1] = m})
            <= MaxAttempts + Cardinality({p \in Procs : proc[p].pc = "crashed"})
<1>1. PICK k \in Nat, c \in Nat : /\ k = work[m].attempts
                                  /\ c = Cardinality({p \in Procs : proc[p].pc = "crashed"})
                                  /\ k <= MaxAttempts + c
  BY AttemptsFit
<1> DEFINE A == {a \in ran : a[1] = m}
           f == [a \in A |-> a[2]]
<1>2. \A a \in A : a = <<m, a[2]>> /\ a[2] \in 1 .. k
  BY <1>1 DEF TeamIInv, AttemptsOK
<1>3. f \in [A -> 1 .. k] /\ \A x, y \in A : f[x] = f[y] => x = y
  BY <1>2
<1> HIDE DEF f
<1>4. f \in Injection(A, 1 .. k)
  BY <1>3 DEF Injection, IsInjective
<1>5. IsFiniteSet(1 .. k) /\ Cardinality(1 .. k) = k
  <2>1. IsFiniteSet(1 .. k) /\ Cardinality(1 .. k) = IF 1 > k THEN 0 ELSE k - 1 + 1
    BY FS_Interval
  <2> QED BY <2>1
<1>6. Cardinality(A) <= k /\ Cardinality(A) \in Nat
  BY <1>4, <1>5, FS_Injection, FS_CardinalityType
<1> QED BY <1>1, <1>6, TeamAssumption

LEMMA NothingConflicts ==
    ASSUME TeamIInv
    PROVE  NoConflict
<1>1. ASSUME NEW p \in Procs, NEW s \in Publishing(p)
      PROVE  s[1] \in {"events", "dlq"} /\ s[2] \in Notes
  <2>1. CASE proc[p].pc \in {"accept", "fail", "cancel"}
    BY <1>1, <2>1, AtRequest DEF Publishing, Trying, NoteKinds
  <2>2. CASE proc[p].pc = "flush"
    <3>1. PICK row \in proc[p].todo : s = <<row.topic, row.draft>>
      BY <1>1, <2>2 DEF Publishing
    <3>2. row \in AllRows
      BY ProcFacts DEF ProcRows
    <3> QED BY <3>1, <3>2 DEF AllRows, Row
  <2> QED BY <1>1, <2>1, <2>2 DEF Publishing
<1>2. ASSUME NEW p \in Procs, NEW s \in Publishing(p), NEW n \in Bound(s[1], s[2])
      PROVE  log[s[1]][n] = s[2]
  <2>1. n \in DOMAIN log[s[1]] /\ SameKey(log[s[1]][n], s[2])
    BY DEF Bound
  <2>2. log[s[1]][n] \in Notes /\ s[2] \in Notes
    BY <1>1, <2>1 DEF TeamIInv, RecordsOK, LogTypes
  <2> QED BY <2>1, <2>2, NoteKeys
<1> QED BY <1>2 DEF NoConflict

LEMMA CancelsAreAnnounced ==
    ASSUME TeamIInv
    PROVE  CancelAnnounced
<1>1. ASSUME NEW m \in DOMAIN log["requests"],
             cursor[CancelMe[log["requests"][m].key]]["cancels"] # 0
      PROVE  Bound("events", Note("cancelled", m, 0)) # {}
  <2>1. PICK r \in Requests : r = log["requests"][m].key
    BY RequestsFit DEF TeamIInv, RecordsOK
  <2>2. PICK k \in DOMAIN log["requests"] :
            log["requests"][k].key = r /\ Bound("events", Note("cancelled", k, 0)) # {}
    BY <1>1, <2>1 DEF TeamIInv, RecordsOK, CancelsOK
  <2>3. log["requests"][k].sender = log["requests"][m].sender
    BY DEF TeamIInv, RecordsOK, LogTypes, RequestMessages, RequestDraft
  <2>4. k = m
    BY <2>1, <2>2, <2>3, TopicNames DEF TeamIInv, RecordsOK, OneMessagePerKey, SameKey
  <2> QED BY <2>2, <2>4
<1> QED BY <1>1 DEF CancelAnnounced

LEMMA WorkIsTyped ==
    ASSUME TeamIInv
    PROVE  TeamTypeOK
<1> SUFFICES ASSUME NEW m \in Slots
             PROVE  /\ work[m].attempts \in 0 .. MaxAttempts + Cardinality(Procs)
                    /\ work[m].delivered \subseteq work[m].rows
                    /\ work[m].rows # {} <=> work[m].terminal
  BY DEF TeamTypeOK
<1>1. work[m].attempts \in 0 .. MaxAttempts + Cardinality(Procs)
  <2>1. PICK a \in Nat, c \in Nat : /\ a = work[m].attempts /\ c <= Cardinality(Procs)
                                    /\ Cardinality(Procs) \in Nat /\ a <= MaxAttempts + c
    BY AttemptsFit
  <2> QED BY <2>1, TeamAssumption
<1>2. work[m].delivered \subseteq work[m].rows
  BY DEF TeamIInv, RecordsOK, WorkOK
<1>3. work[m].rows # {} <=> work[m].terminal
  <2>1. \A n : EventRows(m, n) # {} /\ DlqRows(m, n) # {}
    BY DEF EventRows, DlqRows
  <2>2. work[m].terminal \in BOOLEAN
    BY DEF TeamIInv, RecordsOK, WorkTypes, WorkRows
  <2> QED BY <2>1, <2>2 DEF TeamIInv, RecordsOK, WorkOK
<1> QED BY <1>1, <1>2, <1>3

\* While processes do not overlap: one verdict a request, a bounded number of runs,
\* no conflict at a publication, metrics before their event and no cancellation that
\* was taken in silence.
THEOREM TeamIsSound ==
    ASSUME MaxAlive = 1
    PROVE  TeamSpec => []TeamSound
<1>1. ASSUME TeamIInv PROVE TeamSound
  <2>1. OneVerdict
    BY <1>1, VerdictIsOne DEF OneVerdict
  <2>2. RunsAreBounded
    BY <1>1, RunsFit DEF RunsAreBounded
  <2> QED BY <1>1, <2>1, <2>2, NothingConflicts, CancelsAreAnnounced, WorkIsTyped
          DEF TeamSound, TeamIInv, RecordsOK
<1>2. TeamIInv => TeamSound
  BY <1>1
<1> QED BY <1>2, TeamInvariant, PTL

\* While processes do not overlap: a request is acknowledged when everything its
\* verdict promised is on the bus, and no coordinator is started after the verdict.
THEOREM CommitsAreHeld ==
    ASSUME MaxAlive = 1
    PROVE  TeamSpec => CommitsHold
<1> DEFINE Held == /\ cursor'[Me]["requests"] # cursor[Me]["requests"] =>
                        /\ work[cursor'[Me]["requests"]].terminal
                        /\ Delivered(cursor'[Me]["requests"])
                   /\ \A a \in ran' \ ran : ~work[a[1]].terminal
<1>1. ASSUME TeamIInv, [TeamNext]_allVars PROVE Held
  <2>1. cursor \in [Consumers -> [Topics -> Nat]]
    BY <1>1 DEF TeamIInv, RecordsOK, WorkTypes
  <2>2. ASSUME NEW p \in Procs, AckRequest(p) PROVE Held
    <3>1. proc[p].pc = "ack" /\ ran' = ran
      BY <2>2 DEF AckRequest
    <3>2. PICK m \in Slots : /\ m = proc[p].m /\ work[m].terminal
                             /\ work[m].rows = work[m].delivered
      BY <1>1, <3>1, AtRequest DEF LivingOK, Ending
    <3>3. \A o \in work[m].rows : Bound(o.topic, o.draft) # {}
      BY <1>1, <3>2 DEF TeamIInv, RecordsOK, WorkOK
    <3>4. cursor' = cursor \/ cursor' = [cursor EXCEPT ![Me]["requests"] = m]
      BY <2>2, <3>2 DEF AckRequest, Ack
    <3>5. cursor'[Me]["requests"] # cursor[Me]["requests"] => cursor'[Me]["requests"] = m
      BY <2>1, <3>4, TeamAssumption
    <3> QED BY <3>1, <3>2, <3>3, <3>5 DEF Delivered
  <2>3. ASSUME NEW p \in Procs, AckCancel(p) PROVE Held
    <3>1. proc[p].pc = "cancel_ack" /\ ran' = ran
      BY <2>3 DEF AckCancel
    <3>2. proc[p].m \in DOMAIN log["requests"]
      BY <1>1, <3>1, AtRequest DEF Trying
    <3>3. CancelConsumer(p) \in Consumers \ {Me}
      BY <1>1, <3>2, RequestsFit, TeamAssumption DEF CancelConsumer, TeamIInv, RecordsOK
    <3>4. cursor'[Me] = cursor[Me]
      BY <2>1, <2>3, <3>3, TeamAssumption DEF AckCancel, Ack
    <3> QED BY <3>1, <3>4
  <2>4. ASSUME NEW p \in Procs, Accept(p) PROVE Held
    <3>1. proc[p].pc = "accept" /\ cursor' = cursor
      BY <2>4 DEF Accept, Say, Publish, busVars
    <3>2. ~work[proc[p].m].terminal
      BY <1>1, <3>1, AtRequest DEF LivingOK, Trying
    <3>3. ran' \ ran \subseteq {<<proc[p].m, proc[p].n>>}
      BY <2>4 DEF Accept
    <3> QED BY <3>1, <3>2, <3>3
  <2>5. CASE cursor' = cursor /\ ran' = ran
    BY <2>5
  <2>6. ASSUME NEW r \in Requests, SubmitCancel(r) PROVE cursor' = cursor /\ ran' = ran
    BY <2>6 DEF SubmitCancel, Publish, teamVars
  <2>7. ASSUME NEW p \in Procs,
               \/ Submit(p) \/ PullRequests(p) \/ EndBatch(p) \/ Crash(p)
               \/ BeginAttempt(p) \/ Return(p) \/ Commit(p)
               \/ DeadLetter(p) \/ ScheduleRetry(p)
               \/ ReadOutbox(p) \/ Flush(p) \/ MarkDelivered(p) \/ AllDelivered(p)
               \/ PullCancel(p) \/ AnnounceCancel(p)
        PROVE  cursor' = cursor /\ ran' = ran
    BY <2>7 DEF Submit, PullRequests, EndBatch, Crash, BeginAttempt, Return, Commit, DeadLetter,
                CommitTerminal, ScheduleRetry, ReadOutbox, Flush, MarkDelivered, AllDelivered,
                PullCancel, AnnounceCancel, Say, Publish, Pull, busVars
  <2>8. CASE UNCHANGED allVars
    BY <2>5, <2>8 DEF allVars
  <2> QED BY <1>1, <2>2, <2>3, <2>4, <2>5, <2>6, <2>7, <2>8 DEF TeamNext
<1>2. TeamIInv /\ [TeamNext]_allVars => [Held]_allVars
  BY <1>1
<1> QED BY <1>2, TeamInvariant, PTL DEF TeamSpec, CommitsHold
=============================================================================
