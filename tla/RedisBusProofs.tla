--------------------------- MODULE RedisBusProofs ---------------------------
(***************************************************************************)
(* Proofs about RedisBus, for any number of processes, consumers, messages *)
(* and crashes.                                                            *)
(*                                                                         *)
(* StreamSound is not inductive.  That the cursor stays behind what was    *)
(* acknowledged needs to know the same of the set ahead of it, and of what *)
(* a process has counted and not written; that a caller acknowledges only  *)
(* messages for it needs what a process holds at every step of a pull.     *)
(* RedisIInv says so, once for each group and once for each process.       *)
(***************************************************************************)
EXTENDS RedisBus, FiniteSetTheorems, WellFoundedInduction, TLAPS

-----------------------------------------------------------------------------
(* Numbers *)

\* A set of natural numbers that is not empty has a least one.
LEMMA MinIsLeast ==
    ASSUME NEW S, S \subseteq Nat, S # {}
    PROVE  Min(S) \in S /\ \A y \in S : Min(S) <= y
<1>1. PICK x \in S : \A y \in S : ~(<<y, x>> \in OpToRel(<, Nat))
  BY NatLessThanWellFounded, WFMin
<1>2. ASSUME NEW y \in S PROVE x <= y
  <2>1. SUFFICES ASSUME y < x PROVE FALSE
    OBVIOUS
  <2>2. <<y, x>> \in Nat \X Nat
    OBVIOUS
  <2>3. <<y, x>>[1] = y /\ <<y, x>>[2] = x
    OBVIOUS
  <2>4. <<y, x>> \in OpToRel(<, Nat)
    BY <2>1, <2>2, <2>3 DEF OpToRel
  <2> QED BY <1>1, <2>4
<1> QED BY <1>2 DEF Min

\* A bounded one has a greatest.
LEMMA MaxIsGreatest ==
    ASSUME NEW S, S \subseteq Nat, S # {}, NEW b \in Nat, \A x \in S : x <= b
    PROVE  Max(S) \in S /\ \A y \in S : y <= Max(S)
<1> DEFINE T == {b - x : x \in S}
<1>1. T \subseteq Nat /\ T # {}
  <2>1. \A x \in S : x \in Nat /\ x <= b /\ b - x \in Nat
    OBVIOUS
  <2> QED BY <2>1
<1>2. PICK z \in T : \A y \in T : z <= y
  BY <1>1, MinIsLeast
<1>3. PICK x \in S : z = b - x
  OBVIOUS
<1>4. \A y \in S : y <= x
  BY <1>2, <1>3
<1> QED BY <1>4 DEF Max

\* RunEnd is the end of the run: everything up to it is in S, the next number is not.
LEMMA RunEndFacts ==
    ASSUME NEW S, NEW k \in Nat, Len(log) \in Nat, k <= Len(log)
    PROVE  /\ RunEnd(S, k) \in k .. Len(log)
           /\ (k + 1) .. RunEnd(S, k) \subseteq S
           /\ RunEnd(S, k) < Len(log) => RunEnd(S, k) + 1 \notin S
<1> DEFINE J == {j \in k .. Len(log) : (k + 1) .. j \subseteq S}
<1>1. k \in J
  OBVIOUS
<1>2. J \subseteq Nat /\ \A j \in J : j <= Len(log)
  OBVIOUS
<1>3. Max(J) \in J /\ \A j \in J : j <= Max(J)
  BY <1>1, <1>2, MaxIsGreatest
<1>4. RunEnd(S, k) = Max(J)
  BY DEF RunEnd
<1> HIDE DEF J
<1>5. PICK r \in J : r = Max(J)
  BY <1>3
<1>6. ASSUME r < Len(log), r + 1 \in S PROVE FALSE
  <2>1. (k + 1) .. (r + 1) \subseteq S
    BY <1>6 DEF J
  <2>2. r + 1 \in J
    BY <1>6, <2>1 DEF J
  <2> QED BY <1>2, <1>3, <1>5, <2>2
<1> QED BY <1>4, <1>5, <1>6 DEF J

\* A run that cannot go on ends where it ends.
LEMMA RunEndIs ==
    ASSUME NEW S, NEW k \in Nat, NEW e \in Nat, Len(log) \in Nat, k <= e, e <= Len(log),
           (k + 1) .. e \subseteq S, e + 1 \notin S
    PROVE  RunEnd(S, k) = e
<1> PICK r \in k .. Len(log) : r = RunEnd(S, k)
  BY RunEndFacts
<1>1. (k + 1) .. r \subseteq S /\ (r < Len(log) => r + 1 \notin S)
  BY RunEndFacts
<1>2. ~(r < e)
  BY <1>1
<1>3. ~(e < r)
  BY <1>1
<1> QED BY <1>2, <1>3

\* The lowest k of the numbers behind a are the next ones, without a gap.
LEMMA LowestAreNext ==
    ASSUME NEW a \in Nat, NEW b \in Nat, a <= b, NEW k \in Int
    PROVE  \E e \in a .. b : /\ Lowest((a + 1) .. b, k) = (a + 1) .. e
                             /\ a + Cardinality(Lowest((a + 1) .. b, k)) = e
<1> DEFINE e == IF k < 0 THEN a ELSE IF a + k < b THEN a + k ELSE b
<1>1. e \in a .. b
  OBVIOUS
<1>2. ASSUME NEW n \in (a + 1) .. b
      PROVE  Cardinality({m \in (a + 1) .. b : m < n}) = n - a - 1
  <2> DEFINE c == a + 1
             d == n - 1
  <2>1. {m \in (a + 1) .. b : m < n} = c .. d
    OBVIOUS
  <2>2. c \in Int /\ d \in Int /\ c <= d + 1 /\ n - a - 1 = d - c + 1
    OBVIOUS
  <2> HIDE DEF c, d
  <2>3. Cardinality(c .. d) = IF c > d THEN 0 ELSE d - c + 1
    BY <2>2, FS_Interval
  <2>4. Cardinality(c .. d) = d - c + 1
    BY <2>2, <2>3
  <2> QED BY <2>1, <2>2, <2>4
<1>3. Lowest((a + 1) .. b, k) = (a + 1) .. e
  BY <1>2 DEF Lowest
<1>4. Cardinality((a + 1) .. e) = e - a
  <2>1. a + 1 \in Int /\ e \in Int
    BY <1>1
  <2>2. Cardinality((a + 1) .. e) = IF a + 1 > e THEN 0 ELSE e - (a + 1) + 1
    BY <2>1, FS_Interval
  <2> QED BY <1>1, <2>2
<1> HIDE DEF e
<1> QED BY <1>1, <1>3, <1>4

-----------------------------------------------------------------------------
(* The inductive invariant *)

Pcs == {"ready", "read", "filter", "add", "cursor", "scan", "write", "serve", "ack"}
ProcStates == [pc : Pcs, got : SUBSET Nat, room : Int, n : Nat, from : Nat]

RedisTypes ==
    /\ log \in Seq(Message) /\ Len(log) <= Capacity
    /\ last \in [Consumers -> Nat] /\ cursor \in [Consumers -> Nat]
    /\ pending \in [Consumers -> SUBSET Nat] /\ idle \in [Consumers -> SUBSET Nat]
    /\ acked \in [Consumers -> SUBSET Nat] /\ done \in [Consumers -> SUBSET Nat]
    /\ proc \in [Procs -> ProcStates]
    /\ crashes \in 0 .. MaxCrashes

\* Every number a group keeps was delivered.
GroupBounds(c) ==
    /\ last[c] <= Len(log) /\ cursor[c] <= last[c]
    /\ idle[c] \subseteq pending[c] /\ pending[c] \subseteq 1 .. last[c]
    /\ acked[c] \subseteq 1 .. last[c] /\ done[c] \subseteq 1 .. last[c]

\* A message of the group is pending or done once delivered; the cursor and the
\* set ahead of it hold numbers of done messages, or of messages of others.
GroupMarks(c) ==
    \A n \in Eligible(c) :
        /\ n <= last[c] => n \in pending[c] \cup done[c]
        /\ n <= cursor[c] \/ n \in acked[c] => n \in done[c]

\* With no message of others the set is all that is done ahead of the cursor, and
\* the cursor could not go further.
GroupExact(c) ==
    Eligible(c) = DOMAIN log =>
        /\ cursor[c] + 1 \notin done[c]
        /\ \A n \in done[c] : cursor[c] < n => n \in acked[c]

GroupInv(c) == GroupBounds(c) /\ GroupMarks(c) /\ GroupExact(c)

\* What a process holds was delivered, and what it serves is for its consumer; what
\* it skips is not, and all that it counted for the cursor is done.
ProcInv(p) ==
    /\ proc[p].got \subseteq 1 .. last[Me(p)]
    /\ proc[p].pc \in {"serve", "ack"} => proc[p].got \subseteq Eligible(Me(p))
    /\ proc[p].pc = "ack" => proc[p].n \in proc[p].got
    /\ proc[p].pc = "add" =>
        proc[p].n \in 1 .. last[Me(p)] /\ proc[p].n \notin Eligible(Me(p))
    /\ proc[p].pc \in {"scan", "write"} =>
        /\ proc[p].n <= last[Me(p)]
        /\ \A k \in Eligible(Me(p)) : k <= proc[p].n => k \in done[Me(p)]
    /\ proc[p].pc \in {"add", "cursor", "scan", "write"} => Eligible(Me(p)) # DOMAIN log

RedisIInv ==
    /\ RedisTypes
    /\ \A c \in Consumers : GroupInv(c)
    /\ \A p \in Procs : ProcInv(p)

-----------------------------------------------------------------------------
(* What a step leaves alone *)

\* A process reads for a consumer.
LEMMA MeType == \A p \in Procs : Me(p) \in Consumers
BY RedisAssumption DEF Me

\* Messages have the sequence numbers of the stream.
LEMMA EligibleType ==
    ASSUME RedisTypes, NEW c
    PROVE  /\ Len(log) \in Nat /\ DOMAIN log = 1 .. Len(log)
           /\ Eligible(c) \subseteq 1 .. Len(log)
BY DEF RedisTypes, Eligible

\* A group none of whose keys changed.
LEMMA GroupFrame ==
    ASSUME NEW c \in Consumers, GroupInv(c), log' = log, last'[c] = last[c],
           pending'[c] = pending[c], idle'[c] = idle[c], acked'[c] = acked[c],
           cursor'[c] = cursor[c], done'[c] = done[c]
    PROVE  GroupInv(c)'
<1>1. Eligible(c)' = Eligible(c)
  BY DEF Eligible
<1> QED BY <1>1 DEF GroupInv, GroupBounds, GroupMarks, GroupExact

\* A process that took no step, in a group that was delivered or acknowledged more.
LEMMA ProcFrame ==
    ASSUME RedisTypes, RedisTypes', NEW q \in Procs, ProcInv(q), log' = log,
           proc'[q] = proc[q], last[Me(q)] <= last'[Me(q)], done[Me(q)] \subseteq done'[Me(q)]
    PROVE  ProcInv(q)'
<1> PICK c \in Consumers : c = Me(q)
  BY MeType
<1>1. Eligible(c)' = Eligible(c)
  BY DEF Eligible
<1>2. last[c] \in Nat /\ last'[c] \in Nat /\ last[c] <= last'[c] /\ done[c] \subseteq done'[c]
  BY DEF RedisTypes
<1>3. Me(q)' = c
  BY DEF Me
<1>4. proc[q].n \in Nat
  BY DEF RedisTypes, ProcStates
<1> QED BY <1>1, <1>2, <1>3, <1>4 DEF ProcInv

\* The processes after a step that gives one of them the state r.
LEMMA ProcMoves ==
    ASSUME RedisTypes, NEW p \in Procs, NEW r \in ProcStates, proc' = [proc EXCEPT ![p] = r]
    PROVE  /\ proc' \in [Procs -> ProcStates] /\ proc'[p] = r
           /\ \A q \in Procs : q # p => proc'[q] = proc[q]
BY DEF RedisTypes

\* A step of one process that delivers nothing and takes nothing back.
LEMMA OneProcMoves ==
    ASSUME RedisIInv, RedisTypes', NEW p \in Procs, log' = log, last' = last,
           \A c \in Consumers : done[c] \subseteq done'[c],
           \A q \in Procs : q # p => proc'[q] = proc[q],
           ProcInv(p)'
    PROVE  \A q \in Procs : ProcInv(q)'
<1> SUFFICES ASSUME NEW q \in Procs, q # p PROVE ProcInv(q)'
  OBVIOUS
<1>1. last[Me(q)] <= last'[Me(q)] /\ done[Me(q)] \subseteq done'[Me(q)]
  BY MeType DEF RedisIInv, RedisTypes
<1> QED BY <1>1, ProcFrame DEF RedisIInv

\* A step within one group.
LEMMA OneGroupMoves ==
    ASSUME RedisIInv, NEW c \in Consumers, log' = log, last' = last,
           \A b \in Consumers : b # c =>
              /\ pending'[b] = pending[b] /\ idle'[b] = idle[b] /\ acked'[b] = acked[b]
              /\ cursor'[b] = cursor[b] /\ done'[b] = done[b],
           GroupInv(c)'
    PROVE  \A b \in Consumers : GroupInv(b)'
BY GroupFrame DEF RedisIInv

\* A step in which a process only looks, or dies.
LEMMA LookKeepsInv ==
    ASSUME RedisIInv, NEW p \in Procs, NEW r \in ProcStates,
           proc' = [proc EXCEPT ![p] = r], UNCHANGED <<log, groupVars>>,
           crashes' \in 0 .. MaxCrashes, ProcInv(p)'
    PROVE  RedisIInv'
<1>1. UNCHANGED <<log, last, pending, idle, acked, cursor, done>> /\ RedisTypes
  BY DEF groupVars, RedisIInv
<1>2. proc' \in [Procs -> ProcStates] /\ \A q \in Procs : q # p => proc'[q] = proc[q]
  BY <1>1, ProcMoves
<1>3. RedisTypes'
  BY <1>1, <1>2 DEF RedisTypes
<1>4. \A q \in Procs : ProcInv(q)'
  BY <1>1, <1>2, <1>3, OneProcMoves
<1>5. \A c \in Consumers : GroupInv(c)'
  BY <1>1, GroupFrame DEF RedisIInv
<1> QED BY <1>3, <1>4, <1>5 DEF RedisIInv

-----------------------------------------------------------------------------
(* Every step keeps the invariant *)

\* The empty stream satisfies the invariant.
LEMMA RedisInitInv == RedisInit => RedisIInv
<1> SUFFICES ASSUME RedisInit PROVE RedisIInv
  OBVIOUS
<1>1. RedisTypes
  BY RedisAssumption DEF RedisInit, RedisTypes, NewLife, ProcStates, Pcs
<1>2. \A c \in Consumers : GroupInv(c)
  BY DEF RedisInit, GroupInv, GroupBounds, GroupMarks, GroupExact, Eligible
<1>3. \A p \in Procs : ProcInv(p)
  BY DEF RedisInit, NewLife, ProcInv
<1> QED BY <1>1, <1>2, <1>3 DEF RedisIInv

\* A new message was not delivered to anyone.
LEMMA PublishKeepsInv ==
    ASSUME RedisIInv, NEW d \in Message, Publish(d) PROVE RedisIInv'
<1>1. RedisTypes /\ Len(log) \in Nat /\ DOMAIN log = 1 .. Len(log)
  BY DEF RedisIInv, RedisTypes
<1>2. /\ log' \in Seq(Message) /\ Len(log') = Len(log) + 1 /\ Len(log') <= Capacity
      /\ DOMAIN log' = DOMAIN log \cup {Len(log) + 1}
      /\ \A n \in DOMAIN log : log'[n] = log[n]
  BY <1>1, RedisAssumption DEF RedisTypes, Publish
<1>3. UNCHANGED <<last, pending, idle, acked, cursor, done, proc, crashes>>
  BY DEF Publish, groupVars
<1>4. RedisTypes'
  BY <1>1, <1>2, <1>3 DEF RedisTypes
<1>5. ASSUME NEW c
      PROVE  /\ Eligible(c) \subseteq 1 .. Len(log)
             /\ Eligible(c) \subseteq Eligible(c)'
             /\ Eligible(c)' \subseteq Eligible(c) \cup {Len(log) + 1}
             /\ (Eligible(c) = DOMAIN log)' => Eligible(c) = DOMAIN log
  BY <1>1, <1>2 DEF Eligible
<1>6. ASSUME NEW c \in Consumers PROVE GroupInv(c)'
  <2>1. GroupInv(c) /\ last[c] \in Nat /\ cursor[c] \in Nat
    BY <1>1 DEF RedisIInv, RedisTypes
  <2>2. GroupBounds(c)'
    BY <1>1, <1>2, <1>3, <2>1 DEF GroupInv, GroupBounds
  <2>3. GroupMarks(c)'
    BY <1>1, <1>3, <1>5, <2>1 DEF GroupInv, GroupBounds, GroupMarks
  <2>4. GroupExact(c)'
    BY <1>3, <1>5, <2>1 DEF GroupInv, GroupExact
  <2> QED BY <2>2, <2>3, <2>4 DEF GroupInv
<1>7. ASSUME NEW p \in Procs PROVE ProcInv(p)'
  <2> PICK c \in Consumers : c = Me(p)
    BY MeType
  <2>1. Me(p)' = c
    BY DEF Me
  <2>2. /\ ProcInv(p) /\ GroupBounds(c) /\ last[c] \in Nat
        /\ proc[p].n \in Nat /\ proc[p].got \subseteq Nat
    BY <1>1 DEF RedisIInv, RedisTypes, ProcStates, GroupInv
  <2>3. last[c] <= Len(log)
    BY <2>2 DEF GroupBounds
  <2> QED BY <1>1, <1>3, <1>5, <2>1, <2>2, <2>3 DEF ProcInv
<1> QED BY <1>4, <1>6, <1>7 DEF RedisIInv

\* A claim takes pending entries only.
LEMMA AutoClaimKeepsInv ==
    ASSUME RedisIInv, NEW p \in Procs, NEW limit \in Limits, AutoClaim(p, limit)
    PROVE  RedisIInv'
<1> PICK c \in Consumers : c = Me(p)
  BY MeType
<1> DEFINE S == Lowest(idle[c], limit)
<1>1. RedisTypes /\ \A b \in Consumers : GroupInv(b) /\ last[b] \in Nat
  BY DEF RedisIInv, RedisTypes
<1>2. S \subseteq idle[c] /\ idle[c] \subseteq 1 .. last[c] /\ idle[c] \in SUBSET Nat
  BY <1>1 DEF Lowest, GroupInv, GroupBounds, RedisTypes
<1>3. Cardinality(S) \in Nat
  <2>1. IsFiniteSet(1 .. last[c])
    BY <1>1, FS_Interval
  <2> QED BY <1>2, <2>1, FS_Subset, FS_CardinalityType
<1>4. /\ idle' = [idle EXCEPT ![c] = @ \ S]
      /\ proc' = [proc EXCEPT ![p].pc = "read", ![p].got = S,
                              ![p].room = limit - Cardinality(S)]
      /\ UNCHANGED <<log, last, pending, acked, cursor, crashes, done>>
  BY DEF AutoClaim
<1> HIDE DEF S
<1>5. limit \in Nat
  BY RedisAssumption
<1>6. RedisTypes'
  <2> DEFINE k == limit - Cardinality(S)
  <2>1. S \subseteq Nat /\ k \in Int
    BY <1>2, <1>3, <1>5
  <2>2. proc' = [proc EXCEPT ![p].pc = "read", ![p].got = S, ![p].room = k]
    BY <1>4
  <2> HIDE DEF k
  <2> DEFINE r == [proc[p] EXCEPT !.pc = "read", !.got = S, !.room = k]
  <2>3. proc[p] \in ProcStates /\ proc \in [Procs -> ProcStates]
    BY <1>1 DEF RedisTypes
  <2>4. r \in ProcStates
    BY <2>1, <2>3 DEF ProcStates, Pcs
  <2>5. proc' = [proc EXCEPT ![p] = r]
    BY <2>2, <2>3
  <2>6. proc' \in [Procs -> ProcStates]
    BY <1>1, <2>4, <2>5, ProcMoves
  <2>7. idle' \in [Consumers -> SUBSET Nat]
    BY <1>1, <1>4 DEF RedisTypes
  <2> QED BY <1>1, <1>4, <2>6, <2>7 DEF RedisTypes
<1>7. ASSUME NEW b \in Consumers PROVE GroupInv(b)'
  <2>1. idle'[b] \subseteq idle[b]
    BY <1>1, <1>4 DEF RedisTypes
  <2>2. Eligible(b)' = Eligible(b)
    BY <1>4 DEF Eligible
  <2> QED BY <1>1, <1>4, <2>1, <2>2 DEF GroupInv, GroupBounds, GroupMarks, GroupExact
<1>8. ASSUME NEW q \in Procs PROVE ProcInv(q)'
  <2>1. CASE q = p
    <3>1. proc'[p].pc = "read" /\ proc'[p].got = S
      BY <1>1, <1>4 DEF RedisTypes, ProcStates
    <3>2. Me(p)' = c
      BY DEF Me
    <3> QED BY <1>2, <1>4, <2>1, <3>1, <3>2 DEF ProcInv
  <2>2. CASE q # p
    <3>1. proc'[q] = proc[q]
      BY <1>1, <1>4, <2>2 DEF RedisTypes
    <3>2. last[Me(q)] <= last'[Me(q)] /\ done[Me(q)] \subseteq done'[Me(q)]
      BY <1>1, <1>4, MeType
    <3> QED BY <1>1, <1>4, <1>6, <3>1, <3>2, ProcFrame DEF RedisIInv
  <2> QED BY <2>1, <2>2
<1> QED BY <1>6, <1>7, <1>8 DEF RedisIInv

\* XREADGROUP hands out the next numbers and makes each of them pending.
LEMMA ReadNewKeepsInv ==
    ASSUME RedisIInv, NEW p \in Procs, ReadNew(p) PROVE RedisIInv'
<1> PICK c \in Consumers : c = Me(p)
  BY MeType
<1>1. RedisTypes /\ \A b \in Consumers : GroupInv(b) /\ last[b] \in Nat
  BY DEF RedisIInv, RedisTypes
<1>2. /\ Len(log) \in Nat /\ last[c] <= Len(log) /\ proc[p].room \in Int
      /\ proc[p].got \subseteq Nat /\ proc[p].pc = "read" /\ ProcInv(p)
  BY <1>1 DEF RedisTypes, ProcStates, GroupInv, GroupBounds, ReadNew, ProcAt, RedisIInv
<1> DEFINE S == Lowest((last[c] + 1) .. Len(log), proc[p].room)
<1>3. PICK e \in last[c] .. Len(log) : S = (last[c] + 1) .. e /\ last[c] + Cardinality(S) = e
  <2>1. PICK a \in Nat, b \in Nat, k \in Int : a = last[c] /\ b = Len(log) /\ k = proc[p].room
    BY <1>1, <1>2
  <2>2. a <= b
    BY <1>2, <2>1
  <2>3. \E e \in a .. b : /\ Lowest((a + 1) .. b, k) = (a + 1) .. e
                          /\ a + Cardinality(Lowest((a + 1) .. b, k)) = e
    BY <2>2, LowestAreNext
  <2> QED BY <2>1, <2>3
<1>4. /\ last' = [last EXCEPT ![c] = @ + Cardinality(S)]
      /\ pending' = [pending EXCEPT ![c] = @ \cup S]
      /\ proc' = [proc EXCEPT ![p].pc = "filter", ![p].got = @ \cup S]
      /\ UNCHANGED <<log, idle, acked, cursor, crashes, done>>
  BY DEF ReadNew
<1>5. last' = [last EXCEPT ![c] = e]
  BY <1>1, <1>3, <1>4 DEF RedisTypes
<1> HIDE DEF S
<1>6. S \subseteq Nat /\ e \in Nat
  BY <1>1, <1>2, <1>3
<1>7. RedisTypes'
  <2> DEFINE r == [proc[p] EXCEPT !.pc = "filter", !.got = @ \cup S]
  <2>1. proc[p] \in ProcStates
    BY <1>1 DEF RedisTypes
  <2>2. r \in ProcStates
    BY <1>6, <2>1 DEF ProcStates, Pcs
  <2>3. proc' = [proc EXCEPT ![p] = r]
    BY <1>1, <1>4 DEF RedisTypes
  <2>4. proc' \in [Procs -> ProcStates]
    BY <1>1, <2>2, <2>3, ProcMoves
  <2>5. last' \in [Consumers -> Nat] /\ pending' \in [Consumers -> SUBSET Nat]
    BY <1>1, <1>4, <1>5, <1>6 DEF RedisTypes
  <2> QED BY <1>1, <1>4, <2>4, <2>5 DEF RedisTypes
<1>8. ASSUME NEW b \in Consumers PROVE GroupInv(b)'
  <2>1. CASE b # c
    BY <1>1, <1>4, <1>5, <2>1, GroupFrame DEF RedisTypes
  <2>2. CASE b = c
    <3>1. last'[c] = e /\ pending'[c] = pending[c] \cup ((last[c] + 1) .. e)
      BY <1>1, <1>3, <1>4, <1>5 DEF RedisTypes
    <3>2. Eligible(c)' = Eligible(c) /\ Eligible(c) \subseteq 1 .. Len(log)
      BY <1>1, <1>4, EligibleType DEF Eligible
    <3>3. cursor[c] \in Nat /\ GroupInv(c)
      BY <1>1 DEF RedisTypes
    <3>4. GroupBounds(c)'
      BY <1>1, <1>2, <1>4, <3>1, <3>3 DEF GroupInv, GroupBounds
    <3>5. GroupMarks(c)'
      BY <1>1, <1>2, <1>4, <3>1, <3>2, <3>3 DEF GroupInv, GroupMarks
    <3>6. GroupExact(c)'
      BY <1>4, <3>2, <3>3 DEF GroupInv, GroupExact
    <3> QED BY <2>2, <3>4, <3>5, <3>6 DEF GroupInv
  <2> QED BY <2>1, <2>2
<1>9. ASSUME NEW q \in Procs PROVE ProcInv(q)'
  <2>1. CASE q = p
    <3>1. proc'[p].pc = "filter" /\ proc'[p].got = proc[p].got \cup ((last[c] + 1) .. e)
      BY <1>1, <1>3, <1>4 DEF RedisTypes, ProcStates
    <3>2. Me(p)' = c /\ last'[c] = e /\ proc[p].got \subseteq 1 .. last[c]
      BY <1>1, <1>2, <1>5 DEF Me, RedisTypes, ProcInv
    <3>3. proc'[p].got \subseteq 1 .. e
      BY <1>1, <1>2, <3>1, <3>2
    <3> QED BY <2>1, <3>1, <3>2, <3>3 DEF ProcInv
  <2>2. CASE q # p
    <3>1. proc'[q] = proc[q]
      BY <1>1, <1>4, <2>2 DEF RedisTypes
    <3> PICK b \in Consumers : b = Me(q)
      BY MeType
    <3>2. last[b] <= last'[b]
      BY <1>1, <1>2, <1>5 DEF RedisTypes
    <3> QED BY <1>1, <1>4, <1>7, <3>1, <3>2, ProcFrame DEF RedisIInv
  <2> QED BY <2>1, <2>2
<1> QED BY <1>7, <1>8, <1>9 DEF RedisIInv

\* What pull returns is for this consumer.
LEMMA ReturnKeepsInv ==
    ASSUME RedisIInv, NEW p \in Procs, Return(p) PROVE RedisIInv'
<1> PICK c \in Consumers : c = Me(p)
  BY MeType
<1> DEFINE r == [proc[p] EXCEPT !.pc = IF proc[p].got = {} THEN "ready" ELSE "serve"]
<1>1. RedisTypes /\ proc[p] \in ProcStates /\ ProcInv(p) /\ crashes \in 0 .. MaxCrashes
  BY DEF RedisIInv, RedisTypes
<1>2. r \in ProcStates /\ r.pc \in {"ready", "serve"} /\ r.got = proc[p].got
  BY <1>1 DEF ProcStates, Pcs
<1>3. proc' = [proc EXCEPT ![p] = r] /\ UNCHANGED <<log, groupVars, crashes>>
  BY <1>1 DEF Return, RedisTypes
<1>4. proc[p].got \subseteq Eligible(c)
  BY DEF Return, Foreign
<1> HIDE DEF r
<1>5. ProcInv(p)'
  <2>1. proc'[p] = r
    BY <1>1, <1>2, <1>3, ProcMoves
  <2>2. Eligible(c)' = Eligible(c) /\ last' = last
    BY <1>3 DEF Eligible, groupVars
  <2>3. Me(p)' = c
    BY DEF Me
  <2> QED BY <1>1, <1>2, <1>4, <2>1, <2>2, <2>3 DEF ProcInv
<1> QED BY <1>1, <1>2, <1>3, <1>5, LookKeepsInv

\* Everything behind the cursor is done.
LEMMA ReadCursorKeepsInv ==
    ASSUME RedisIInv, NEW p \in Procs, ReadCursor(p) PROVE RedisIInv'
<1> PICK c \in Consumers : c = Me(p)
  BY MeType
<1> DEFINE r == [proc[p] EXCEPT !.pc = "scan", !.from = cursor[c], !.n = cursor[c]]
<1>1. /\ RedisTypes /\ proc[p] \in ProcStates /\ ProcInv(p) /\ crashes \in 0 .. MaxCrashes
      /\ cursor[c] \in Nat /\ last[c] \in Nat /\ GroupInv(c)
  BY DEF RedisIInv, RedisTypes
<1>2. r \in ProcStates /\ r.pc = "scan" /\ r.n = cursor[c] /\ r.got = proc[p].got
  BY <1>1 DEF ProcStates, Pcs
<1>3. proc' = [proc EXCEPT ![p] = r] /\ UNCHANGED <<log, groupVars, crashes>>
  BY <1>1 DEF ReadCursor, RedisTypes
<1>4. proc[p].pc = "cursor"
  BY DEF ReadCursor, ProcAt
<1> HIDE DEF r
<1>5. ProcInv(p)'
  <2>1. proc'[p] = r
    BY <1>1, <1>2, <1>3, ProcMoves
  <2>2. Eligible(c)' = Eligible(c) /\ last' = last /\ done' = done
    BY <1>3 DEF Eligible, groupVars
  <2>3. Me(p)' = c /\ DOMAIN log' = DOMAIN log
    BY <1>3 DEF Me
  <2>4. Eligible(c) \subseteq 1 .. Len(log) /\ Len(log) \in Nat
    BY <1>1, EligibleType
  <2>5. cursor[c] <= last[c] /\ \A k \in Eligible(c) : k <= cursor[c] => k \in done[c]
    BY <1>1 DEF GroupInv, GroupBounds, GroupMarks
  <2> QED BY <1>1, <1>2, <1>4, <2>1, <2>2, <2>3, <2>5 DEF ProcInv
<1> QED BY <1>1, <1>2, <1>3, <1>5, LookKeepsInv

\* So is the number that is found in the set.
LEMMA ScanKeepsInv ==
    ASSUME RedisIInv, NEW p \in Procs, Scan(p) PROVE RedisIInv'
<1> PICK c \in Consumers : c = Me(p)
  BY MeType
<1> DEFINE r == IF proc[p].n + 1 \in acked[c] THEN [proc[p] EXCEPT !.n = @ + 1]
                ELSE [proc[p] EXCEPT !.pc = "write"]
<1>1. /\ RedisTypes /\ proc[p] \in ProcStates /\ ProcInv(p) /\ crashes \in 0 .. MaxCrashes
      /\ last[c] \in Nat /\ GroupInv(c)
  BY DEF RedisIInv, RedisTypes
<1>2. proc[p].pc = "scan" /\ proc[p].n \in Nat
  BY <1>1 DEF Scan, ProcAt, ProcStates
<1>3. /\ r \in ProcStates /\ r.pc \in {"scan", "write"} /\ r.got = proc[p].got
      /\ r.n = proc[p].n \/ (r.n = proc[p].n + 1 /\ r.n \in acked[c])
  BY <1>1, <1>2 DEF ProcStates, Pcs
<1>4. proc' = [proc EXCEPT ![p] = r] /\ UNCHANGED <<log, groupVars, crashes>>
  BY <1>1 DEF Scan, RedisTypes
<1> HIDE DEF r
<1>5. ProcInv(p)'
  <2>1. proc'[p] = r
    BY <1>1, <1>3, <1>4, ProcMoves
  <2>2. Eligible(c)' = Eligible(c) /\ last' = last /\ done' = done
    BY <1>4 DEF Eligible, groupVars
  <2>3. Me(p)' = c /\ DOMAIN log' = DOMAIN log
    BY <1>4 DEF Me
  <2>4. \A k \in Eligible(c) : k \in Nat
    BY <1>1, EligibleType
  <2>5. acked[c] \subseteq 1 .. last[c] /\ \A k \in Eligible(c) : k \in acked[c] => k \in done[c]
    BY <1>1 DEF GroupInv, GroupBounds, GroupMarks
  <2>6. /\ proc[p].n <= last[c] /\ proc[p].got \subseteq 1 .. last[c]
        /\ Eligible(c) # DOMAIN log
        /\ \A k \in Eligible(c) : k <= proc[p].n => k \in done[c]
    BY <1>1, <1>2 DEF ProcInv
  <2>7. r.n \in Nat /\ r.n <= last[c] /\ \A k \in Eligible(c) : k <= r.n => k \in done[c]
    BY <1>1, <1>2, <1>3, <2>4, <2>5, <2>6
  <2> QED BY <1>3, <2>1, <2>2, <2>3, <2>6, <2>7 DEF ProcInv
<1> QED BY <1>1, <1>3, <1>4, <1>5, LookKeepsInv

\* A number behind the cursor is dropped, another goes to the script.
LEMMA AskCursorKeepsInv ==
    ASSUME RedisIInv, NEW p \in Procs, NEW n \in proc[p].got, AskCursor(p, n)
    PROVE  RedisIInv'
<1> PICK c \in Consumers : c = Me(p)
  BY MeType
<1> DEFINE over == [proc[p] EXCEPT !.pc = IF proc[p].got = {n} THEN "ready" ELSE "serve",
                                   !.got = @ \ {n}, !.n = 0]
           r == IF n <= cursor[c] THEN over ELSE [proc[p] EXCEPT !.pc = "ack", !.n = n]
<1>1. /\ RedisTypes /\ proc[p] \in ProcStates /\ ProcInv(p) /\ crashes \in 0 .. MaxCrashes
      /\ last[c] \in Nat
  BY DEF RedisIInv, RedisTypes
<1>2. proc[p].pc = "serve" /\ n \in Nat
  BY <1>1 DEF AskCursor, ProcAt, ProcStates
<1>3. /\ r \in ProcStates /\ r.pc \in {"ready", "serve", "ack"} /\ r.got \subseteq proc[p].got
      /\ r.pc = "ack" => r.n \in r.got
  BY <1>1, <1>2 DEF ProcStates, Pcs
<1>4. proc' = [proc EXCEPT ![p] = r] /\ UNCHANGED <<log, groupVars, crashes>>
  BY <1>1 DEF AskCursor, Served, RedisTypes
<1> HIDE DEF r
<1>5. ProcInv(p)'
  <2>1. proc'[p] = r
    BY <1>1, <1>3, <1>4, ProcMoves
  <2>2. Eligible(c)' = Eligible(c) /\ last' = last
    BY <1>4 DEF Eligible, groupVars
  <2>3. Me(p)' = c
    BY DEF Me
  <2>4. proc[p].got \subseteq 1 .. last[c] /\ proc[p].got \subseteq Eligible(c)
    BY <1>1, <1>2 DEF ProcInv
  <2> QED BY <1>3, <2>1, <2>2, <2>3, <2>4 DEF ProcInv
<1> QED BY <1>1, <1>3, <1>4, <1>5, LookKeepsInv

\* A crash loses what the process held, which stays pending.
LEMMA ProcCrashKeepsInv ==
    ASSUME RedisIInv, NEW p \in Procs, ProcCrash(p) PROVE RedisIInv'
<1>1. RedisTypes /\ crashes \in 0 .. MaxCrashes /\ MaxCrashes \in Nat
  BY RedisAssumption DEF RedisIInv, RedisTypes
<1>2. /\ NewLife \in ProcStates /\ proc' = [proc EXCEPT ![p] = NewLife]
      /\ UNCHANGED <<log, groupVars>> /\ crashes' \in 0 .. MaxCrashes
  BY <1>1 DEF ProcCrash, NewLife, ProcStates, Pcs
<1>3. proc'[p] = NewLife
  BY <1>1, <1>2, ProcMoves
<1>4. ProcInv(p)'
  BY <1>3 DEF NewLife, ProcInv
<1> QED BY <1>1, <1>2, <1>4, LookKeepsInv

\* Time makes a pending entry idle.
LEMMA GrowIdleKeepsInv ==
    ASSUME RedisIInv, NEW c \in Consumers, NEW n \in pending[c], GrowIdle(c, n)
    PROVE  RedisIInv'
<1>1. RedisTypes /\ n \in Nat
  BY DEF RedisIInv, RedisTypes
<1>2. /\ idle' = [idle EXCEPT ![c] = @ \cup {n}]
      /\ UNCHANGED <<log, last, pending, acked, cursor, proc, crashes, done>>
  BY DEF GrowIdle
<1>3. RedisTypes'
  BY <1>1, <1>2 DEF RedisTypes
<1>4. GroupInv(c)'
  <2>1. Eligible(c)' = Eligible(c)
    BY <1>2 DEF Eligible
  <2>2. idle'[c] = idle[c] \cup {n}
    BY <1>1, <1>2 DEF RedisTypes
  <2> QED BY <1>2, <2>1, <2>2 DEF RedisIInv, GroupInv, GroupBounds, GroupMarks, GroupExact
<1>5. \A b \in Consumers : GroupInv(b)'
  BY <1>1, <1>2, <1>4, OneGroupMoves DEF RedisTypes
<1>6. \A q \in Procs : ProcInv(q)'
  BY <1>1, <1>2, <1>3, ProcFrame, MeType DEF RedisIInv, RedisTypes
<1> QED BY <1>3, <1>5, <1>6 DEF RedisIInv

\* What is skipped is for another consumer.
LEMMA XAckKeepsInv ==
    ASSUME RedisIInv, NEW p \in Procs, XAck(p) PROVE RedisIInv'
<1> PICK c \in Consumers : c = Me(p)
  BY MeType
<1>1. /\ RedisTypes /\ proc[p] \in ProcStates /\ ProcInv(p) /\ GroupInv(c)
      /\ last[c] \in Nat /\ proc[p].got \subseteq Nat
  BY DEF RedisIInv, RedisTypes, ProcStates
<1>2. PICK n \in Foreign(p) : n = Min(Foreign(p))
  BY <1>1, MinIsLeast DEF XAck, Foreign
<1>3. n \in proc[p].got /\ n \notin Eligible(c) /\ n \in Nat /\ n \in 1 .. last[c]
  BY <1>1, <1>2 DEF Foreign, ProcInv
<1> DEFINE r == [proc[p] EXCEPT !.pc = "add", !.n = n, !.got = @ \ {n}]
<1>4. /\ pending' = [pending EXCEPT ![c] = @ \ {n}]
      /\ idle' = [idle EXCEPT ![c] = @ \ {n}]
      /\ proc' = [proc EXCEPT ![p] = r]
      /\ UNCHANGED <<log, last, acked, cursor, crashes, done>>
  BY <1>1, <1>2 DEF XAck, RedisTypes
<1>5. r \in ProcStates /\ r.pc = "add" /\ r.n = n /\ r.got \subseteq proc[p].got
  BY <1>1, <1>3 DEF ProcStates, Pcs
<1> HIDE DEF r
<1>6. /\ proc' \in [Procs -> ProcStates] /\ proc'[p] = r
      /\ \A q \in Procs : q # p => proc'[q] = proc[q]
  BY <1>1, <1>4, <1>5, ProcMoves
<1>7. RedisTypes'
  BY <1>1, <1>4, <1>6 DEF RedisTypes
<1>8. Eligible(c)' = Eligible(c) /\ DOMAIN log = 1 .. Len(log) /\ last[c] <= Len(log) /\ Len(log) \in Nat
  BY <1>1, <1>4, EligibleType DEF Eligible, GroupInv, GroupBounds
<1>9. GroupInv(c)'
  <2>1. pending'[c] = pending[c] \ {n} /\ idle'[c] = idle[c] \ {n}
    BY <1>1, <1>4 DEF RedisTypes
  <2>2. GroupBounds(c)'
    BY <1>1, <1>4, <2>1 DEF GroupInv, GroupBounds
  <2>3. GroupMarks(c)'
    BY <1>1, <1>3, <1>4, <1>8, <2>1 DEF GroupInv, GroupMarks
  <2>4. GroupExact(c)'
    BY <1>1, <1>4, <1>8 DEF GroupInv, GroupExact
  <2> QED BY <2>2, <2>3, <2>4 DEF GroupInv
<1>10. \A b \in Consumers : GroupInv(b)'
  BY <1>1, <1>4, <1>9, OneGroupMoves DEF RedisTypes
<1>11. ProcInv(p)'
  <2>1. Me(p)' = c /\ DOMAIN log' = DOMAIN log
    BY <1>4 DEF Me
  <2>2. Eligible(c) # DOMAIN log
    BY <1>1, <1>3, <1>8
  <2>3. proc[p].got \subseteq 1 .. last[c]
    BY <1>1 DEF ProcInv
  <2> QED BY <1>3, <1>4, <1>5, <1>6, <1>8, <2>1, <2>2, <2>3 DEF ProcInv
<1>12. \A q \in Procs : ProcInv(q)'
  BY <1>4, <1>6, <1>7, <1>11, OneProcMoves
<1> QED BY <1>7, <1>10, <1>12 DEF RedisIInv

\* So is what the set is given by a pull.
LEMMA AddKeepsInv ==
    ASSUME RedisIInv, NEW p \in Procs, Add(p) PROVE RedisIInv'
<1> PICK c \in Consumers : c = Me(p)
  BY MeType
<1>1. /\ RedisTypes /\ proc[p] \in ProcStates /\ ProcInv(p) /\ GroupInv(c)
      /\ last[c] \in Nat /\ cursor[c] \in Nat
  BY DEF RedisIInv, RedisTypes
<1> PICK n \in Nat : n = proc[p].n
  BY <1>1 DEF ProcStates
<1>2. /\ n \in 1 .. last[c] /\ n \notin Eligible(c) /\ Eligible(c) # DOMAIN log
      /\ proc[p].got \subseteq 1 .. last[c]
  BY <1>1 DEF Add, ProcAt, ProcInv
<1> DEFINE r == [proc[p] EXCEPT !.pc = "cursor"]
<1>3. /\ acked' = [acked EXCEPT ![c] = @ \cup {n}]
      /\ proc' = [proc EXCEPT ![p] = r]
      /\ UNCHANGED <<log, last, pending, idle, cursor, crashes, done>>
  BY <1>1 DEF Add, RedisTypes
<1>4. r \in ProcStates /\ r.pc = "cursor" /\ r.got = proc[p].got
  BY <1>1 DEF ProcStates, Pcs
<1> HIDE DEF r
<1>5. /\ proc' \in [Procs -> ProcStates] /\ proc'[p] = r
      /\ \A q \in Procs : q # p => proc'[q] = proc[q]
  BY <1>1, <1>3, <1>4, ProcMoves
<1>6. RedisTypes'
  BY <1>1, <1>3, <1>5 DEF RedisTypes
<1>7. Eligible(c)' = Eligible(c) /\ DOMAIN log' = DOMAIN log
  BY <1>3 DEF Eligible
<1>8. GroupInv(c)'
  <2>1. acked'[c] = acked[c] \cup {n}
    BY <1>1, <1>3 DEF RedisTypes
  <2>2. GroupBounds(c)'
    BY <1>1, <1>2, <1>3, <2>1 DEF GroupInv, GroupBounds
  <2>3. GroupMarks(c)'
    BY <1>1, <1>2, <1>3, <1>7, <2>1 DEF GroupInv, GroupMarks
  <2>4. GroupExact(c)'
    BY <1>2, <1>7 DEF GroupExact
  <2> QED BY <2>2, <2>3, <2>4 DEF GroupInv
<1>9. \A b \in Consumers : GroupInv(b)'
  BY <1>1, <1>3, <1>8, OneGroupMoves DEF RedisTypes
<1>10. ProcInv(p)'
  <2>1. Me(p)' = c
    BY DEF Me
  <2> QED BY <1>2, <1>3, <1>4, <1>5, <1>7, <2>1 DEF ProcInv
<1>11. \A q \in Procs : ProcInv(q)'
  BY <1>3, <1>5, <1>6, <1>10, OneProcMoves
<1> QED BY <1>6, <1>9, <1>11 DEF RedisIInv

\* The cursor that is written may be older than the one it replaces, but never ahead.
LEMMA WriteCursorKeepsInv ==
    ASSUME RedisIInv, NEW p \in Procs, WriteCursor(p) PROVE RedisIInv'
<1> PICK c \in Consumers : c = Me(p)
  BY MeType
<1>1. /\ RedisTypes /\ proc[p] \in ProcStates /\ ProcInv(p) /\ GroupInv(c)
      /\ last[c] \in Nat /\ acked[c] \in SUBSET Nat
  BY DEF RedisIInv, RedisTypes
<1> PICK n \in Nat : n = proc[p].n
  BY <1>1 DEF ProcStates
<1>2. /\ n <= last[c] /\ Eligible(c) # DOMAIN log /\ proc[p].got \subseteq 1 .. last[c]
      /\ \A k \in Eligible(c) : k <= n => k \in done[c]
  BY <1>1 DEF WriteCursor, ProcAt, ProcInv
<1> DEFINE r == [proc[p] EXCEPT !.pc = "filter", !.n = 0, !.from = 0]
           A == acked[c] \ ((proc[p].from + 1) .. n)
<1>3. /\ acked' = [acked EXCEPT ![c] = A]
      /\ cursor' = [cursor EXCEPT ![c] = n]
      /\ proc' = [proc EXCEPT ![p] = r]
      /\ UNCHANGED <<log, last, pending, idle, crashes, done>>
  BY <1>1 DEF WriteCursor, RedisTypes
<1>4. r \in ProcStates /\ r.pc = "filter" /\ r.got = proc[p].got /\ A \subseteq acked[c]
  BY <1>1 DEF ProcStates, Pcs
<1> HIDE DEF r, A
<1>5. /\ proc' \in [Procs -> ProcStates] /\ proc'[p] = r
      /\ \A q \in Procs : q # p => proc'[q] = proc[q]
  BY <1>1, <1>3, <1>4, ProcMoves
<1>6. RedisTypes'
  BY <1>1, <1>3, <1>4, <1>5 DEF RedisTypes
<1>7. Eligible(c)' = Eligible(c) /\ DOMAIN log' = DOMAIN log
  BY <1>3 DEF Eligible
<1>8. GroupInv(c)'
  <2>1. acked'[c] = A /\ cursor'[c] = n
    BY <1>1, <1>3 DEF RedisTypes
  <2>2. GroupBounds(c)'
    BY <1>1, <1>2, <1>3, <1>4, <2>1 DEF GroupInv, GroupBounds
  <2>3. GroupMarks(c)'
    BY <1>1, <1>2, <1>3, <1>4, <1>7, <2>1 DEF GroupInv, GroupMarks
  <2>4. GroupExact(c)'
    BY <1>2, <1>7 DEF GroupExact
  <2> QED BY <2>2, <2>3, <2>4 DEF GroupInv
<1>9. \A b \in Consumers : GroupInv(b)'
  BY <1>1, <1>3, <1>8, OneGroupMoves DEF RedisTypes
<1>10. ProcInv(p)'
  <2>1. Me(p)' = c
    BY DEF Me
  <2> QED BY <1>2, <1>3, <1>4, <1>5, <1>7, <2>1 DEF ProcInv
<1>11. \A q \in Procs : ProcInv(q)'
  BY <1>3, <1>5, <1>6, <1>10, OneProcMoves
<1> QED BY <1>6, <1>9, <1>11 DEF RedisIInv

\* The script moves the cursor over the run that the acknowledged number closes.
LEMMA AckScriptKeepsInv ==
    ASSUME RedisIInv, NEW p \in Procs, AckScript(p) PROVE RedisIInv'
<1> PICK c \in Consumers : c = Me(p)
  BY MeType
<1>1. /\ RedisTypes /\ proc[p] \in ProcStates /\ ProcInv(p) /\ GroupInv(c)
      /\ last[c] \in Nat /\ cursor[c] \in Nat /\ acked[c] \in SUBSET Nat
      /\ done[c] \in SUBSET Nat
  BY DEF RedisIInv, RedisTypes
<1> PICK n \in Nat : n = proc[p].n
  BY <1>1 DEF ProcStates
<1>2. /\ n \in proc[p].got /\ proc[p].got \subseteq Eligible(c)
      /\ proc[p].got \subseteq 1 .. last[c]
  BY <1>1 DEF AckScript, ProcAt, ProcInv
<1>3. Len(log) \in Nat /\ cursor[c] <= last[c] /\ last[c] <= Len(log) /\ cursor[c] <= Len(log)
  BY <1>1 DEF RedisTypes, GroupInv, GroupBounds
<1>4. PICK e \in cursor[c] .. Len(log) :
         /\ e = RunEnd(acked[c] \cup {n}, cursor[c])
         /\ (cursor[c] + 1) .. e \subseteq acked[c] \cup {n}
         /\ e < Len(log) => e + 1 \notin acked[c] \cup {n}
  BY <1>1, <1>3, RunEndFacts
<1> DEFINE r == [proc[p] EXCEPT !.pc = IF proc[p].got = {n} THEN "ready" ELSE "serve",
                                !.got = @ \ {n}, !.n = 0]
           A == (acked[c] \cup {n}) \ ((cursor[c] + 1) .. e)
<1>5. /\ pending' = [pending EXCEPT ![c] = @ \ {n}]
      /\ idle' = [idle EXCEPT ![c] = @ \ {n}]
      /\ acked' = [acked EXCEPT ![c] = A]
      /\ cursor' = [cursor EXCEPT ![c] = e]
      /\ done' = [done EXCEPT ![c] = @ \cup {n}]
      /\ proc' = [proc EXCEPT ![p] = r]
      /\ UNCHANGED <<log, last, crashes>>
  BY <1>1, <1>4 DEF AckScript, Served, RedisTypes
<1>6. r \in ProcStates /\ r.pc \in {"ready", "serve"} /\ r.got \subseteq proc[p].got
  BY <1>1 DEF ProcStates, Pcs
<1>7. A \subseteq acked[c] \cup {n}
      /\ \A k \in acked[c] \cup {n} : e < k => k \in A
  <2>1. \A k \in acked[c] \cup {n} : k \in Nat
    BY <1>1
  <2>2. \A k \in Nat : e < k => k \notin (cursor[c] + 1) .. e
    BY <1>1, <1>3
  <2> QED BY <2>1, <2>2
<1>8. e \in Nat /\ cursor[c] <= e
      /\ \A k \in Nat : cursor[c] < k /\ k <= e => k \in acked[c] \cup {n}
  <2>1. e \in Nat /\ cursor[c] <= e
    BY <1>1, <1>3
  <2>2. \A k \in Nat : cursor[c] < k /\ k <= e => k \in (cursor[c] + 1) .. e
    BY <1>1, <2>1
  <2> QED BY <1>4, <2>1, <2>2
<1> HIDE DEF r, A
<1>9. /\ proc' \in [Procs -> ProcStates] /\ proc'[p] = r
      /\ \A q \in Procs : q # p => proc'[q] = proc[q]
  BY <1>1, <1>5, <1>6, ProcMoves
<1>10. RedisTypes'
  <2>1. A \in SUBSET Nat
    BY <1>1, <1>7
  <2> QED BY <1>1, <1>5, <1>8, <1>9, <2>1 DEF RedisTypes
<1>11. /\ Eligible(c)' = Eligible(c) /\ DOMAIN log' = DOMAIN log
       /\ Eligible(c) \subseteq 1 .. Len(log)
  BY <1>1, <1>5, EligibleType DEF Eligible
<1>12. GroupInv(c)'
  <2>1. /\ pending'[c] = pending[c] \ {n} /\ idle'[c] = idle[c] \ {n}
        /\ acked'[c] = A /\ cursor'[c] = e /\ done'[c] = done[c] \cup {n}
    BY <1>1, <1>5 DEF RedisTypes
  <2>2. acked[c] \subseteq 1 .. last[c] /\ done[c] \subseteq 1 .. last[c]
    BY <1>1 DEF GroupInv, GroupBounds
  <2>3. e <= last[c]
    <3>1. e = cursor[c] \/ e \in acked[c] \cup {n}
      BY <1>1, <1>8
    <3> QED BY <1>1, <1>2, <1>3, <2>2, <3>1
  <2>4. GroupBounds(c)'
    <3>1. A \subseteq 1 .. last[c] /\ done[c] \cup {n} \subseteq 1 .. last[c]
      BY <1>2, <1>7, <2>2
    <3>2. idle[c] \subseteq pending[c] /\ pending[c] \subseteq 1 .. last[c]
      BY <1>1 DEF GroupInv, GroupBounds
    <3> QED BY <1>3, <1>5, <2>1, <2>3, <3>1, <3>2 DEF GroupBounds
  <2>5. GroupMarks(c)'
    <3>1. ASSUME NEW k \in Eligible(c)
          PROVE  /\ k <= last[c] => k \in (pending[c] \ {n}) \cup (done[c] \cup {n})
                 /\ k <= e \/ k \in A => k \in done[c] \cup {n}
      <4>1. k \in Nat
        BY <1>3, <1>11
      <4>2. /\ k <= last[c] => k \in pending[c] \cup done[c]
            /\ k <= cursor[c] \/ k \in acked[c] => k \in done[c]
        BY <1>1 DEF GroupInv, GroupMarks
      <4>3. k <= e => k <= cursor[c] \/ k \in acked[c] \cup {n}
        BY <1>1, <1>8, <4>1
      <4> QED BY <1>7, <4>2, <4>3
    <3> QED BY <1>5, <1>11, <2>1, <3>1 DEF GroupMarks
  <2>6. GroupExact(c)'
    <3>1. SUFFICES ASSUME Eligible(c) = DOMAIN log
                   PROVE  /\ e + 1 \notin done[c] \cup {n}
                          /\ \A k \in done[c] \cup {n} : e < k => k \in A
      BY <1>5, <1>11, <2>1 DEF GroupExact
    <3>2. /\ cursor[c] + 1 \notin done[c]
          /\ \A k \in done[c] : cursor[c] < k => k \in acked[c]
      BY <1>1, <3>1 DEF GroupInv, GroupExact
    <3>3. \A k \in done[c] \cup {n} : e < k => k \in acked[c] \cup {n}
      BY <1>1, <1>8, <3>2
    <3>4. e + 1 \notin done[c] \cup {n}
      <4>1. CASE e < Len(log)
        <5>1. e + 1 \notin acked[c] \cup {n}
          BY <1>4, <4>1
        <5>2. e < e + 1
          BY <1>8
        <5> QED BY <3>3, <5>1, <5>2
      <4>2. CASE ~(e < Len(log))
        BY <1>1, <1>2, <1>3, <1>8, <2>2, <4>2
      <4> QED BY <4>1, <4>2
    <3> QED BY <1>7, <3>3, <3>4
  <2> QED BY <2>4, <2>5, <2>6 DEF GroupInv
<1>13. \A b \in Consumers : GroupInv(b)'
  BY <1>1, <1>5, <1>12, OneGroupMoves DEF RedisTypes
<1>14. ProcInv(p)'
  <2>1. Me(p)' = c
    BY DEF Me
  <2> QED BY <1>2, <1>5, <1>6, <1>9, <1>11, <2>1 DEF ProcInv
<1>15. \A q \in Procs : ProcInv(q)'
  <2>1. \A b \in Consumers : done[b] \subseteq done'[b]
    BY <1>1, <1>5 DEF RedisTypes
  <2> QED BY <1>5, <1>9, <1>10, <1>14, <2>1, OneProcMoves
<1> QED BY <1>10, <1>13, <1>15 DEF RedisIInv
\* Every step, and a stutter.
LEMMA RedisStepKeepsInv == RedisIInv /\ [RedisNext]_redisVars => RedisIInv'
<1> SUFFICES ASSUME RedisIInv, [RedisNext]_redisVars PROVE RedisIInv'
  OBVIOUS
<1>1. CASE \E d \in Message : Publish(d)
  BY <1>1, PublishKeepsInv
<1>2. ASSUME NEW p \in Procs, Pull(p) PROVE RedisIInv'
  BY <1>2, AutoClaimKeepsInv, ReadNewKeepsInv, ReturnKeepsInv, XAckKeepsInv, AddKeepsInv,
     ReadCursorKeepsInv, ScanKeepsInv, WriteCursorKeepsInv DEF Pull
<1>3. ASSUME NEW p \in Procs, Serve(p) PROVE RedisIInv'
  BY <1>3, AskCursorKeepsInv, AckScriptKeepsInv DEF Serve
<1>4. ASSUME NEW p \in Procs, ProcCrash(p) PROVE RedisIInv'
  BY <1>4, ProcCrashKeepsInv
<1>5. CASE \E c \in Consumers : \E n \in pending[c] : GrowIdle(c, n)
  BY <1>5, GrowIdleKeepsInv
<1>6. CASE UNCHANGED redisVars
  <2>1. UNCHANGED <<log, last, pending, idle, acked, cursor, proc, crashes, done>>
    BY <1>6 DEF redisVars
  <2>2. RedisTypes'
    BY <2>1 DEF RedisIInv, RedisTypes
  <2>3. \A c \in Consumers : GroupInv(c)'
    BY <2>1, GroupFrame DEF RedisIInv
  <2>4. \A q \in Procs : ProcInv(q)'
    BY <2>1, <2>2, ProcFrame, MeType DEF RedisIInv, RedisTypes
  <2> QED BY <2>2, <2>3, <2>4 DEF RedisIInv
<1> QED BY <1>1, <1>2, <1>3, <1>4, <1>5, <1>6 DEF RedisNext

\* The strengthened invariant holds in every reachable state.
THEOREM RedisInvariant == RedisSpec => []RedisIInv
BY RedisInitInv, RedisStepKeepsInv, PTL DEF RedisSpec

-----------------------------------------------------------------------------
(* What follows *)

\* The consumer group is sound, for any number of processes, consumers and crashes:
\* a delivered message is done or still pending, no cursor runs ahead of what callers
\* acknowledged, and a consumer that every message is for has an exact cursor.
THEOREM StreamIsSound == RedisSpec => []StreamSound
<1>1. ASSUME RedisIInv PROVE RedisTypeOK
  <2>1. RedisTypes /\ Len(log) \in Nat
    BY <1>1 DEF RedisIInv, RedisTypes
  <2>2. ASSUME NEW c \in Consumers
        PROVE  /\ last[c] \in 0 .. Len(log) /\ cursor[c] \in 0 .. Len(log)
               /\ idle[c] \subseteq pending[c] /\ pending[c] \subseteq 1 .. last[c]
               /\ acked[c] \subseteq 1 .. last[c] /\ done[c] \subseteq 1 .. last[c]
    <3>1. last[c] \in Nat /\ cursor[c] \in Nat /\ GroupInv(c)
      BY <1>1, <2>1 DEF RedisIInv, RedisTypes
    <3> QED BY <2>1, <3>1 DEF GroupInv, GroupBounds
  <2>3. ASSUME NEW p \in Procs
        PROVE  proc[p].pc \in Pcs /\ proc[p].got \subseteq 1 .. last[Me(p)]
    BY <1>1, <2>1 DEF RedisIInv, RedisTypes, ProcStates, ProcInv
  <2> QED BY <2>1, <2>2, <2>3 DEF RedisTypeOK, RedisTypes, Pcs
<1>2. RedisIInv => NothingLost /\ CursorBehindDone
  BY DEF RedisIInv, GroupInv, GroupMarks, NothingLost, CursorBehindDone
<1>3. ASSUME RedisIInv, NEW c \in Consumers, Eligible(c) = DOMAIN log
      PROVE  cursor[c] = RunEnd(done[c], 0)
  <2>1. /\ Len(log) \in Nat /\ DOMAIN log = 1 .. Len(log)
        /\ cursor[c] \in Nat /\ last[c] \in Nat /\ GroupInv(c)
    BY <1>3 DEF RedisIInv, RedisTypes
  <2>2. cursor[c] <= Len(log)
    BY <2>1 DEF GroupInv, GroupBounds
  <2>3. cursor[c] + 1 \notin done[c]
    BY <1>3, <2>1 DEF GroupInv, GroupExact
  <2>4. (0 + 1) .. cursor[c] \subseteq done[c]
    <3>1. ASSUME NEW n \in 1 .. cursor[c] PROVE n \in Eligible(c) /\ n <= cursor[c]
      BY <1>3, <2>1, <2>2
    <3> QED BY <2>1, <3>1 DEF GroupInv, GroupMarks
  <2>5. PICK e \in Nat : e = cursor[c]
    BY <2>1
  <2> QED BY <2>1, <2>2, <2>3, <2>4, <2>5, RunEndIs
<1>4. RedisIInv => CursorExact
  BY <1>3 DEF CursorExact
<1>5. RedisIInv => StreamSound
  BY <1>1, <1>2, <1>4 DEF StreamSound
<1> QED BY <1>5, RedisInvariant, PTL
=============================================================================
