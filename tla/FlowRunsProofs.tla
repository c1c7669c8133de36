--------------------------- MODULE FlowRunsProofs ----------------------------
(***************************************************************************)
(* Proofs that what is durable of a run agrees: checkpoints, the log and the*)
(* runner of a flow, wherever a process dies, so that what is checkpointed  *)
(* is not done again; and the database of sessions, whichever processes open*)
(* it, write and resume together. Length of the flow, definitions,          *)
(* processes, calls and crashes are arbitrary.                              *)
(***************************************************************************)
EXTENDS FlowRuns, Sessions, FiniteSetTheorems, TLAPS

-----------------------------------------------------------------------------
(* Flows: the inductive invariant *)

EventTypes ==
    {"flow.started", "flow.resumed", "flow.stopped", "node.started", "node.completed", "node.failed",
     "transition.selected", "checkpoint.committed",
     "operation.started", "operation.committed", "operation.failed"}
FlowEvent == [type : EventTypes, node : Nat]
Mark == [done : Nat, next : Nat, def : Definitions, seq : Nat]
AtNode == {"top", "exec", "operate", "confirm", "complete", "fail", "mark", "write"}
Runner == [pc : AtNode \cup {"halted", "last", "over"}, node : Nat, seq : Nat]

FlowTypeOK ==
    /\ flog \in Seq(FlowEvent) /\ marks \in Seq(Mark) /\ run \in Runner
    /\ did \in [Chain -> Nat] /\ flow \in Definitions

Logged(type, n) == \E k \in 1..Len(flog) : flog[k] = Entry(type, n)
SettledAfter(i, n) ==
    \E j \in i + 1..Len(flog) : flog[j] \in {Entry("operation.committed", n), Entry("operation.failed", n)}

\* What a row of the table of checkpoints says: its node is done, and every operation
\* that was started up to its sequence is settled.
MarkOK(m) ==
    /\ m.done \in Chain /\ m.next = m.done + 1 /\ m.seq <= Len(flog)
    /\ Logged("checkpoint.committed", m.done) /\ Logged("node.completed", m.done)
    /\ \A n \in Chain : \A i \in 1..m.seq :
        flog[i] = Entry("operation.started", n) => SettledAfter(i, n)

\* Rows are written node by node, under one definition, with growing sequences.
MarksOK ==
    /\ \A i \in 1..Len(marks) : MarkOK(marks[i])
    /\ \A i, j \in 1..Len(marks) : i < j => marks[i].seq < marks[j].seq /\ marks[i].done < marks[j].done
    /\ \A i, j \in 1..Len(marks) : marks[i].def = marks[j].def

\* A runner is past every node that is checkpointed, under the definition of the
\* checkpoints, and only the operation of its own node may be open.
RunOK ==
    /\ OneDefinition
    /\ run.pc \in AtNode => run.node \in Chain /\ \A i \in 1..Len(marks) : marks[i].done < run.node
    /\ run.pc \in {"mark", "write"} =>
        /\ run.seq <= Len(flog) /\ \A i \in 1..Len(marks) : marks[i].seq < run.seq
        /\ Logged("node.completed", run.node)
    /\ run.pc = "write" => Logged("checkpoint.committed", run.node)
    /\ run.pc \in AtNode =>
        \A n \in Chain : Settled(n) \/ (run.pc \in {"operate", "confirm"} /\ n = run.node)

FlowIInv == FlowTypeOK /\ MarksOK /\ RunOK

-----------------------------------------------------------------------------
(* Flows: the log *)

\* The log keeps what it has.
Grows ==
    /\ flog' \in Seq(FlowEvent) /\ Len(flog) <= Len(flog')
    /\ \A k \in 1..Len(flog) : flog'[k] = flog[k]

\* Nothing that is new in the log starts an operation of n.
Quiet(n) == \A k \in Len(flog) + 1..Len(flog') : flog'[k] # Entry("operation.started", n)

LEMMA AppendOne ==
    ASSUME NEW S, NEW s \in Seq(S), NEW e \in S
    PROVE  /\ Append(s, e) \in Seq(S) /\ Len(Append(s, e)) = Len(s) + 1
           /\ \A k \in 1..Len(s) : Append(s, e)[k] = s[k]
           /\ Append(s, e)[Len(s) + 1] = e
  OBVIOUS

LEMMA AppendTwo ==
    ASSUME NEW S, NEW s \in Seq(S), NEW d \in S, NEW e \in S
    PROVE  /\ s \o <<d, e>> \in Seq(S) /\ Len(s \o <<d, e>>) = Len(s) + 2
           /\ \A k \in 1..Len(s) : (s \o <<d, e>>)[k] = s[k]
           /\ (s \o <<d, e>>)[Len(s) + 1] = d /\ (s \o <<d, e>>)[Len(s) + 2] = e
  OBVIOUS

LEMMA LogOne ==
    ASSUME FlowTypeOK, NEW type \in EventTypes, NEW n \in Nat, Log(type, n)
    PROVE  Grows /\ Len(flog') = Len(flog) + 1 /\ flog'[Len(flog) + 1] = Entry(type, n)
<1>1. Entry(type, n) \in FlowEvent
  BY DEF Entry, FlowEvent
<1>2. flog \in Seq(FlowEvent) /\ flog' = Append(flog, Entry(type, n)) /\ Len(flog) \in Nat
  BY DEF FlowTypeOK, Log
<1> QED BY <1>1, <1>2, AppendOne DEF Grows

LEMMA LogTwo ==
    ASSUME FlowTypeOK, NEW a \in EventTypes, NEW b \in EventTypes, NEW n \in Nat,
           flog' = flog \o <<Entry(a, n), Entry(b, n)>>
    PROVE  /\ Grows /\ Len(flog') = Len(flog) + 2
           /\ flog'[Len(flog) + 1] = Entry(a, n) /\ flog'[Len(flog) + 2] = Entry(b, n)
<1>1. Entry(a, n) \in FlowEvent /\ Entry(b, n) \in FlowEvent
  BY DEF Entry, FlowEvent
<1>2. flog \in Seq(FlowEvent) /\ Len(flog) \in Nat
  BY DEF FlowTypeOK
<1> QED BY <1>1, <1>2, AppendTwo DEF Grows

LEMMA LogSame ==
    ASSUME FlowTypeOK, UNCHANGED flog
    PROVE  Grows
  BY DEF FlowTypeOK, Grows

\* What was logged stays logged, and settled operations stay settled.
LEMMA LoggedStays ==
    ASSUME FlowTypeOK, Grows, NEW type, NEW n, Logged(type, n)
    PROVE  Logged(type, n)'
<1>1. PICK k \in 1..Len(flog) : flog[k] = Entry(type, n)
  BY DEF Logged
<1>2. k \in 1..Len(flog')
  BY DEF FlowTypeOK, Grows
<1> QED BY <1>1, <1>2 DEF Grows, Logged, Entry

LEMMA LoggedNow ==
    ASSUME NEW type, NEW n, NEW k \in 1..Len(flog'), flog'[k] = Entry(type, n)
    PROVE  Logged(type, n)'
  BY DEF Logged, Entry

LEMMA SettledAfterStays ==
    ASSUME FlowTypeOK, Grows, NEW n, NEW i \in Nat, SettledAfter(i, n)
    PROVE  SettledAfter(i, n)'
<1>1. PICK j \in i + 1..Len(flog) :
        flog[j] \in {Entry("operation.committed", n), Entry("operation.failed", n)}
  BY DEF SettledAfter
<1>2. j \in 1..Len(flog) /\ j \in i + 1..Len(flog')
  BY DEF FlowTypeOK, Grows
<1> QED BY <1>1, <1>2 DEF Grows, SettledAfter, Entry

LEMMA SettledStays ==
    ASSUME FlowTypeOK, Grows, NEW n, Settled(n), Quiet(n)
    PROVE  Settled(n)'
<1>1. ASSUME NEW i \in 1..Len(flog'), flog'[i] = Entry("operation.started", n)
      PROVE  SettledAfter(i, n)'
  <2>1. i \in 1..Len(flog)
    BY <1>1 DEF Quiet, Grows, FlowTypeOK
  <2>2. flog[i] = Entry("operation.started", n)
    BY <1>1, <2>1 DEF Grows
  <2>3. SettledAfter(i, n)
    BY <2>1, <2>2 DEF Settled, SettledAfter
  <2> QED BY <2>1, <2>3, SettledAfterStays
<1> QED BY <1>1 DEF Settled, SettledAfter, Entry

\* A confirmation or a failure at the end of the log settles every start before it.
LEMMA SettledNow ==
    ASSUME FlowTypeOK, NEW n \in Nat,
           Log("operation.committed", n) \/ Log("operation.failed", n)
    PROVE  Settled(n)'
<1>1. PICK type \in {"operation.committed", "operation.failed"} : Log(type, n)
  OBVIOUS
<1>2. Grows /\ Len(flog') = Len(flog) + 1 /\ flog'[Len(flog) + 1] = Entry(type, n)
  BY <1>1, LogOne DEF EventTypes
<1>3. ASSUME NEW i \in 1..Len(flog'), flog'[i] = Entry("operation.started", n)
      PROVE  SettledAfter(i, n)'
  <2>1. i # Len(flog) + 1
    BY <1>1, <1>2, <1>3 DEF Entry
  <2>2. Len(flog) + 1 \in i + 1..Len(flog')
    BY <1>2, <2>1 DEF FlowTypeOK
  <2> QED BY <1>1, <1>2, <2>2 DEF SettledAfter, Entry
<1> QED BY <1>3 DEF Settled, SettledAfter, Entry

-----------------------------------------------------------------------------
(* Flows: checkpoints *)

LEMMA MarkRows ==
    ASSUME FlowTypeOK
    PROVE  /\ Len(marks) \in Nat
           /\ \A i \in 1..Len(marks) : marks[i] \in Mark /\ marks[i].done \in Nat /\ marks[i].seq \in Nat
<1>1. marks \in Seq(Mark)
  BY DEF FlowTypeOK
<1>2. \A m \in Mark : m.done \in Nat /\ m.seq \in Nat
  BY DEF Mark
<1> QED BY <1>1, <1>2

LEMMA MarkStays ==
    ASSUME FlowTypeOK, Grows, NEW m \in Mark, MarkOK(m)
    PROVE  MarkOK(m)'
<1>1. m.seq \in Nat /\ m.seq <= Len(flog)
  BY DEF MarkOK, Mark
<1>2. m.seq <= Len(flog')
  BY <1>1 DEF FlowTypeOK, Grows
<1>3. Logged("checkpoint.committed", m.done)' /\ Logged("node.completed", m.done)'
  BY LoggedStays DEF MarkOK
<1>4. ASSUME NEW n \in Chain, NEW i \in 1..m.seq, flog'[i] = Entry("operation.started", n)
      PROVE  SettledAfter(i, n)'
  <2>1. i \in 1..Len(flog)
    BY <1>1 DEF FlowTypeOK
  <2>2. SettledAfter(i, n)
    BY <1>4, <2>1 DEF Grows, MarkOK
  <2> QED BY <2>1, <2>2, SettledAfterStays
<1> QED BY <1>2, <1>3, <1>4 DEF MarkOK, Chain, Entry

LEMMA MarksStay ==
    ASSUME FlowTypeOK, MarksOK, Grows, UNCHANGED marks
    PROVE  MarksOK'
<1>1. ASSUME NEW i \in 1..Len(marks) PROVE MarkOK(marks[i])'
  <2>1. marks[i] \in Mark /\ MarkOK(marks[i])
    BY DEF FlowTypeOK, MarksOK
  <2> QED BY <2>1, MarkStays
<1> QED BY <1>1 DEF MarksOK

\* The checkpoint with the greatest sequence is the one that was written last.
LEMMA LatestIsLast ==
    ASSUME FlowTypeOK, MarksOK, Len(marks) > 0
    PROVE  Len(marks) \in 1..Len(marks) /\ LatestMark = marks[Len(marks)]
<1> DEFINE last == Len(marks)
           Rows == {marks[i] : i \in 1..Len(marks)}
<1>1. last \in 1..Len(marks)
  BY DEF FlowTypeOK
<1>2. \A i \in 1..Len(marks) : marks[i].seq \in Nat
  BY MarkRows
<1>3. \A i \in 1..Len(marks) : i = last \/ marks[i].seq < marks[last].seq
  BY <1>1 DEF FlowTypeOK, MarksOK
<1>4. \A m \in Rows : m.seq <= marks[last].seq /\ (m.seq = marks[last].seq => m = marks[last])
  BY <1>1, <1>2, <1>3
<1>5. marks[last] \in Rows
  BY <1>1
<1>6. \A m \in Rows : m.seq \in Nat
  BY <1>2
<1>7. ASSUME NEW m \in Rows, \A k \in Rows : k.seq <= m.seq PROVE m = marks[last]
  BY <1>4, <1>5, <1>6, <1>7
<1>8. (CHOOSE m \in Rows : \A k \in Rows : k.seq <= m.seq) = marks[last]
  <2> HIDE DEF Rows, last
  <2> QED BY <1>4, <1>5, <1>7
<1> QED BY <1>1, <1>8 DEF LatestMark

-----------------------------------------------------------------------------
(* Flows: the initial states *)

LEMMA FlowStart ==
    ASSUME FrInit
    PROVE  FlowIInv
<1>1. FlowTypeOK
  BY DEF FrInit, FlowTypeOK, Halted, Runner
<1>2. MarksOK
  BY DEF FrInit, MarksOK
<1>3. RunOK
  BY DEF FrInit, RunOK, OneDefinition, Halted, AtNode
<1> QED BY <1>1, <1>2, <1>3 DEF FlowIInv

-----------------------------------------------------------------------------
(* Flows: starting, and starting again *)

LEMMA NodesAreNumbers ==
    ASSUME NEW n \in Chain
    PROVE  n \in Nat /\ n > 0
  BY FlowAssumption DEF Chain

LEMMA FirstStartKeeps ==
    ASSUME FlowIInv, FirstStart
    PROVE  FlowIInv'
<1> USE DEF FlowIInv
<1>1. /\ flog' = flog \o <<Entry("flow.started", 1), Entry("flow.resumed", 1)>>
      /\ "flow.started" \in EventTypes /\ "flow.resumed" \in EventTypes /\ FlowTypeOK /\ 1 \in Nat
  BY DEF FirstStart, EventTypes
<1>2. /\ Grows /\ Len(flog') = Len(flog) + 2
      /\ flog'[Len(flog) + 1] = Entry("flow.started", 1) /\ flog'[Len(flog) + 2] = Entry("flow.resumed", 1)
  BY ONLY <1>1, LogTwo
<1>3. marks = <<>>
  <2>1. \A i \in 1..Len(marks) : marks[i].done \in Chain /\ marks[i].seq \in Nat
    BY MarkRows DEF MarksOK, MarkOK
  <2>2. Len(marks) \in Nat /\ (Len(marks) > 0 => 1 \in 1..Len(marks))
    BY DEF FlowTypeOK
  <2>3. ASSUME Len(marks) > 0 PROVE FALSE
    <3>1. Logged("node.completed", marks[1].done)
      BY <2>2, <2>3 DEF MarksOK, MarkOK
    <3> QED BY <3>1 DEF FirstStart, Logged
  <2> QED BY <2>2, <2>3 DEF FlowTypeOK
<1>4. FlowTypeOK'
  BY <1>2 DEF FlowTypeOK, FirstStart, Grows, Runner, AtNode
<1>5. MarksOK'
  BY <1>2, MarksStay DEF FirstStart
<1>6. RunOK'
  <2>1. \A n \in Chain : Settled(n)'
    <3>1. ASSUME NEW n \in Chain PROVE Settled(n)'
      <4>1. Quiet(n)
        <5>1. Len(flog) \in Nat
          BY DEF FlowTypeOK
        <5> HIDE DEF FlowIInv
        <5> QED BY <1>2, <5>1 DEF Quiet, Entry
      <4>2. Settled(n)
        BY DEF FirstStart, Settled
      <4> QED BY <1>2, <4>1, <4>2, SettledStays
    <3> QED BY <3>1
  <2>2. 1 \in Chain
    BY FlowAssumption DEF Chain
  <2> QED BY <1>3, <2>1, <2>2 DEF FirstStart, RunOK, OneDefinition, Chain
<1> QED BY <1>4, <1>5, <1>6

\* What decide_resume has made sure of when it lets a run go on.
LEMMA SafeMeansSettled ==
    ASSUME FlowIInv, Len(marks) > 0, ResumeSafe(LatestMark), NEW n \in Chain
    PROVE  Settled(n)
<1> DEFINE m == marks[Len(marks)]
<1>1. LatestMark = m /\ m \in Mark /\ MarkOK(m)
  BY LatestIsLast DEF FlowIInv, FlowTypeOK, MarksOK
<1>2. m.seq \in Nat
  BY <1>1 DEF Mark
<1>3. OpenOperations(m.seq) = {}
  BY <1>1 DEF ResumeSafe
<1> HIDE DEF m
<1>4. ASSUME NEW i \in 1..Len(flog), flog[i] = Entry("operation.started", n)
      PROVE  SettledAfter(i, n)
  <2>1. CASE i <= m.seq
    <3>1. i \in 1..m.seq
      BY <1>2, <2>1 DEF FlowIInv, FlowTypeOK
    <3> QED BY <1>1, <1>4, <3>1 DEF MarkOK
  <2>2. CASE i > m.seq
    <3>1. i \in m.seq + 1..Len(flog)
      BY <1>2, <2>2 DEF FlowIInv, FlowTypeOK
    <3> QED BY <1>3, <1>4, <3>1 DEF OpenOperations, SettledAfter
  <2> QED BY <1>2, <2>1, <2>2 DEF FlowIInv, FlowTypeOK
<1> QED BY <1>4 DEF Settled, SettledAfter

LEMMA ResumeKeeps ==
    ASSUME FlowIInv, ResumeRun
    PROVE  FlowIInv'
<1> DEFINE m == marks[Len(marks)]
           n == LatestMark.next
<1>1. Len(marks) > 0 /\ ResumeSafe(LatestMark)
  BY DEF ResumeRun
<1>2. Len(marks) \in 1..Len(marks) /\ LatestMark = m /\ m \in Mark /\ MarkOK(m)
  BY <1>1, LatestIsLast DEF FlowIInv, FlowTypeOK, MarksOK
<1>3. n \in Chain /\ n = m.done + 1 /\ m.def = flow
  BY <1>1, <1>2 DEF ResumeSafe, MarkOK
<1>4. \A i \in 1..Len(marks) : marks[i].done < n
  <2>1. \A i \in 1..Len(marks) : i = Len(marks) \/ marks[i].done < m.done
    BY <1>2 DEF FlowIInv, FlowTypeOK, MarksOK
  <2>2. \A i \in 1..Len(marks) : marks[i].done \in Nat
    BY MarkRows DEF FlowIInv
  <2>3. m.done \in Nat
    BY <1>2 DEF Mark
  <2> QED BY <1>3, <2>1, <2>2, <2>3
<1>5. \A i \in 1..Len(marks) : marks[i].def = flow
  BY <1>2, <1>3 DEF FlowIInv, MarksOK
<1>6. n \in Nat
  BY <1>3, NodesAreNumbers
<1>7. /\ flog' = flog \o <<Entry("flow.started", n), Entry("flow.resumed", n)>>
      /\ run' = [pc |-> "top", node |-> n, seq |-> 0]
      /\ UNCHANGED <<marks, did, flow>>
  BY DEF ResumeRun
<1> HIDE DEF m, n
<1>8. /\ Grows /\ Len(flog') = Len(flog) + 2
      /\ flog'[Len(flog) + 1] = Entry("flow.started", n) /\ flog'[Len(flog) + 2] = Entry("flow.resumed", n)
  BY ZenonT(40), <1>6, <1>7, LogTwo DEF FlowIInv, EventTypes
<1>9. ASSUME NEW k \in Chain PROVE Settled(k)'
  <2>1. Settled(k)
    BY <1>1, SafeMeansSettled
  <2>2. Quiet(k)
    BY <1>8 DEF Quiet, Entry, FlowIInv, FlowTypeOK
  <2> QED BY <1>8, <2>1, <2>2, SettledStays DEF FlowIInv
<1>10. FlowTypeOK'
  BY <1>6, <1>7, <1>8 DEF FlowIInv, FlowTypeOK, Grows, Runner, AtNode
<1>11. MarksOK'
  BY <1>7, <1>8, MarksStay DEF FlowIInv
<1>12. RunOK'
  BY <1>3, <1>4, <1>5, <1>7, <1>9 DEF RunOK, OneDefinition, Chain
<1> QED BY <1>10, <1>11, <1>12 DEF FlowIInv

-----------------------------------------------------------------------------
(* Flows: one node *)

\* A step of the runner that stays at its node and logs at most the events of the node
\* which are not about operations.
Quietly == Grows /\ \A n \in Chain : Quiet(n)

LEMMA QuietSettles ==
    ASSUME FlowTypeOK, Quietly, NEW n \in Chain, Settled(n)
    PROVE  Settled(n)'
  BY SettledStays DEF Quietly

LEMMA QuietLog ==
    ASSUME FlowTypeOK, NEW type \in EventTypes, type # "operation.started", NEW n \in Nat, Log(type, n)
    PROVE  Quietly
<1>1. Grows /\ Len(flog') = Len(flog) + 1 /\ flog'[Len(flog) + 1] = Entry(type, n)
  BY LogOne DEF EventTypes
<1>2. ASSUME NEW k \in Chain PROVE Quiet(k)
  BY <1>1 DEF Quiet, Entry, FlowTypeOK
<1> QED BY <1>1, <1>2 DEF Quietly

LEMMA QuietSame ==
    ASSUME FlowTypeOK, UNCHANGED flog
    PROVE  Quietly
<1>1. Grows
  BY LogSame
<1>2. ASSUME NEW k \in Chain PROVE Quiet(k)
  BY DEF Quiet, FlowTypeOK
<1> QED BY <1>1, <1>2 DEF Quietly

\* The runner ends, or stands where it does nothing any more.
LEMMA EndKeeps ==
    ASSUME FlowIInv, Grows, UNCHANGED <<marks, did, flow>>, run' \in Runner,
           run'.pc \notin AtNode, run'.pc = "halted" \/ run.pc # "halted"
    PROVE  FlowIInv'
<1>1. FlowTypeOK'
  BY DEF FlowIInv, FlowTypeOK, Grows
<1>2. MarksOK'
  BY MarksStay DEF FlowIInv
<1>3. RunOK'
  BY DEF FlowIInv, RunOK, OneDefinition, AtNode
<1> QED BY <1>1, <1>2, <1>3 DEF FlowIInv

\* The runner goes on at its node, where nothing is open afterwards.
LEMMA NodeKeeps ==
    ASSUME FlowIInv, Grows, UNCHANGED <<marks, did, flow>>, run.pc \in AtNode,
           NEW pc \in AtNode \ {"operate", "confirm", "mark", "write"}, Stand(pc),
           \A n \in Chain : Settled(n)'
    PROVE  FlowIInv'
<1>1. run' \in Runner /\ run'.pc = pc /\ run'.node = run.node
  BY DEF FlowIInv, FlowTypeOK, Stand, Runner, AtNode
<1>2. FlowTypeOK'
  BY <1>1 DEF FlowIInv, FlowTypeOK, Grows
<1>3. MarksOK'
  BY MarksStay DEF FlowIInv
<1>4. RunOK'
  BY <1>1 DEF FlowIInv, RunOK, OneDefinition, AtNode, Chain
<1> QED BY <1>2, <1>3, <1>4 DEF FlowIInv

LEMMA NothingOpen ==
    ASSUME FlowIInv, Quietly, run.pc \in AtNode \ {"operate", "confirm"}
    PROVE  \A n \in Chain : Settled(n)'
<1>1. ASSUME NEW n \in Chain PROVE Settled(n)'
  <2>1. Settled(n)
    BY DEF FlowIInv, RunOK
  <2> QED BY <2>1, QuietSettles DEF FlowIInv
<1> QED BY <1>1

\* The node of the runner, where it has one.
LEMMA AtItsNode ==
    ASSUME FlowIInv
    PROVE  run.node \in Nat /\ (run.pc \in AtNode => run.node \in Chain)
  BY DEF FlowIInv, FlowTypeOK, Runner, RunOK

LEMMA StartNodeKeeps == ASSUME FlowIInv, StartNode PROVE FlowIInv'
<1>1. Quietly
  BY AtItsNode, QuietLog DEF StartNode, FlowIInv, EventTypes
<1>2. run.pc \in AtNode \ {"operate", "confirm"}
  BY DEF StartNode, AtNode
<1>3. \A n \in Chain : Settled(n)'
  BY <1>1, <1>2, NothingOpen
<1>4. "exec" \in AtNode \ {"operate", "confirm", "mark", "write"}
  BY DEF AtNode
<1> QED BY <1>1, <1>2, <1>3, <1>4, NodeKeeps DEF StartNode, Quietly

LEMMA NothingToDoKeeps == ASSUME FlowIInv, NothingToDo PROVE FlowIInv'
<1>1. Quietly
  BY QuietSame DEF NothingToDo, FlowIInv
<1>2. run.pc \in AtNode \ {"operate", "confirm"}
  BY DEF NothingToDo, AtNode
<1>3. \A n \in Chain : Settled(n)'
  BY <1>1, <1>2, NothingOpen
<1>4. "complete" \in AtNode \ {"operate", "confirm", "mark", "write"}
  BY DEF AtNode
<1> QED BY <1>1, <1>2, <1>3, <1>4, NodeKeeps DEF NothingToDo, Quietly

\* From its announcement to its confirmation the operation of the node is open.
LEMMA AnnounceKeeps == ASSUME FlowIInv, Announce PROVE FlowIInv'
<1>1. run.pc = "exec" /\ run.node \in Chain /\ run.node \in Nat
  BY AtItsNode DEF Announce, AtNode
<1>2. Grows /\ Len(flog') = Len(flog) + 1 /\ flog'[Len(flog) + 1] = Entry("operation.started", run.node)
  BY <1>1, LogOne DEF Announce, FlowIInv, EventTypes
<1>3. ASSUME NEW n \in Chain, n # run.node PROVE Settled(n)'
  <2>1. Quiet(n)
    BY <1>2, <1>3 DEF Quiet, Entry, FlowIInv, FlowTypeOK
  <2>2. Settled(n)
    BY <1>1 DEF FlowIInv, RunOK, AtNode
  <2> QED BY <1>2, <2>1, <2>2, SettledStays DEF FlowIInv
<1>4. run' \in Runner /\ run'.pc = "operate" /\ run'.node = run.node
  BY DEF FlowIInv, FlowTypeOK, Announce, Stand, Runner, AtNode
<1>5. FlowTypeOK'
  BY <1>2, <1>4 DEF FlowIInv, FlowTypeOK, Announce, Grows
<1>6. MarksOK'
  BY <1>2, MarksStay DEF FlowIInv, Announce
<1>7. RunOK'
  BY <1>1, <1>3, <1>4 DEF FlowIInv, RunOK, OneDefinition, AtNode, Announce, Chain
<1> QED BY <1>5, <1>6, <1>7 DEF FlowIInv

LEMMA OperateKeeps == ASSUME FlowIInv, Operate PROVE FlowIInv'
<1>1. run.pc = "operate" /\ run.node \in Chain
  BY AtItsNode DEF Operate, AtNode
<1>2. Quietly
  BY QuietSame DEF Operate, FlowIInv
<1>3. ASSUME NEW n \in Chain, n # run.node PROVE Settled(n)'
  <2>1. Settled(n)
    BY <1>1, <1>3 DEF FlowIInv, RunOK, AtNode
  <2> QED BY <1>2, <2>1, QuietSettles DEF FlowIInv
<1>4. run' \in Runner /\ run'.pc = "confirm" /\ run'.node = run.node
  BY DEF FlowIInv, FlowTypeOK, Operate, Stand, Runner, AtNode
<1>5. did' \in [Chain -> Nat]
  BY <1>1 DEF FlowIInv, FlowTypeOK, Operate
<1>6. FlowTypeOK'
  BY <1>2, <1>4, <1>5 DEF FlowIInv, FlowTypeOK, Operate, Quietly, Grows
<1>7. MarksOK'
  BY <1>2, MarksStay DEF FlowIInv, Operate, Quietly
<1>8. RunOK'
  BY <1>1, <1>3, <1>4 DEF FlowIInv, RunOK, OneDefinition, AtNode, Operate, Chain
<1> QED BY <1>6, <1>7, <1>8 DEF FlowIInv

LEMMA ConfirmKeeps ==
    ASSUME FlowIInv, Confirm \/ OperationFails
    PROVE  FlowIInv'
<1>1. run.pc \in {"operate", "confirm"} /\ run.node \in Chain /\ run.node \in Nat
  BY AtItsNode DEF Confirm, OperationFails, AtNode
<1>2. PICK type \in {"operation.committed", "operation.failed"} : Log(type, run.node)
  BY DEF Confirm, OperationFails
<1>3. Quietly
  BY <1>1, <1>2, QuietLog DEF FlowIInv, EventTypes
<1>4. ASSUME NEW n \in Chain PROVE Settled(n)'
  <2>1. CASE n = run.node
    BY <1>1, <1>2, <2>1, SettledNow DEF FlowIInv
  <2>2. CASE n # run.node
    <3>1. Settled(n)
      BY <1>1, <2>2 DEF FlowIInv, RunOK, AtNode
    <3> QED BY <1>3, <3>1, QuietSettles DEF FlowIInv
  <2> QED BY <2>1, <2>2
<1>5. PICK pc \in {"complete", "fail"} : Stand(pc)
  BY DEF Confirm, OperationFails
<1>6. pc \in AtNode \ {"operate", "confirm", "mark", "write"} /\ run.pc \in AtNode
  BY <1>1 DEF AtNode
<1> QED BY <1>3, <1>4, <1>5, <1>6, NodeKeeps DEF Confirm, OperationFails, Quietly

-----------------------------------------------------------------------------
(* Flows: the checkpoint *)

LEMMA CompleteKeeps == ASSUME FlowIInv, Complete PROVE FlowIInv'
<1>1. PICK n \in Nat : n = run.node
  BY AtItsNode
<1>2. run.pc = "complete" /\ n \in Chain
  BY <1>1, AtItsNode DEF Complete, AtNode
<1>3. /\ Grows /\ Len(flog') = Len(flog) + 2
      /\ flog'[Len(flog) + 1] = Entry("node.completed", n)
      /\ flog'[Len(flog) + 2] = Entry("transition.selected", n)
  <2>1. /\ flog' = flog \o <<Entry("node.completed", n), Entry("transition.selected", n)>>
        /\ "node.completed" \in EventTypes /\ "transition.selected" \in EventTypes /\ FlowTypeOK
    BY <1>1 DEF Complete, EventTypes, FlowIInv
  <2> QED BY ONLY <2>1, LogTwo
<1>4. Len(flog) \in Nat /\ Len(flog) + 1 \in 1..Len(flog')
  BY <1>3 DEF FlowIInv, FlowTypeOK
<1>5. Quietly
  <2>1. ASSUME NEW k \in Chain PROVE Quiet(k)
    BY <1>3, <1>4 DEF Quiet, Entry
  <2> QED BY <1>3, <2>1 DEF Quietly
<1>6. \A k \in Chain : Settled(k)'
  BY <1>2, <1>5, NothingOpen DEF AtNode
<1>7. run' \in Runner /\ run'.pc = "mark" /\ run'.node = n /\ run'.seq = Len(flog) + 2
  <2>1. run' = [run EXCEPT !.pc = "mark", !.seq = Len(flog) + 2] /\ run \in Runner
    BY DEF Complete, FlowIInv, FlowTypeOK
  <2>2. Len(flog) + 2 \in Nat /\ "mark" \in AtNode
    BY <1>4 DEF AtNode
  <2> QED BY <1>1, <2>1, <2>2 DEF Runner
<1>8. Logged("node.completed", n)'
  BY <1>3, <1>4, LoggedNow
<1>9. FlowTypeOK' /\ MarksOK'
  BY <1>3, <1>7, MarksStay DEF FlowIInv, FlowTypeOK, Complete, Grows
<1>10. RunOK'
  <2>1. OneDefinition'
    BY <1>2 DEF FlowIInv, RunOK, OneDefinition, Complete
  <2>2. \A i \in 1..Len(marks') : marks'[i].done < n
    BY <1>1, <1>2 DEF FlowIInv, RunOK, AtNode, Complete
  <2>3. \A i \in 1..Len(marks') : marks'[i].seq < Len(flog) + 2
    <3>1. \A i \in 1..Len(marks) : marks[i].seq \in Nat /\ marks[i].seq <= Len(flog)
      BY MarkRows DEF FlowIInv, MarksOK, MarkOK
    <3> QED BY <1>4, <3>1 DEF Complete
  <2> QED BY <1>2, <1>3, <1>4, <1>6, <1>7, <1>8, <2>1, <2>2, <2>3 DEF RunOK, Chain, Logged, Entry
<1> QED BY <1>9, <1>10 DEF FlowIInv

LEMMA IntendKeeps == ASSUME FlowIInv, Intend PROVE FlowIInv'
<1>1. PICK n \in Nat : n = run.node
  BY AtItsNode
<1>2. run.pc = "mark" /\ n \in Chain
  BY <1>1, AtItsNode DEF Intend, AtNode
<1>3. Log("checkpoint.committed", n) /\ "checkpoint.committed" \in EventTypes /\ FlowTypeOK
  BY <1>1 DEF Intend, EventTypes, FlowIInv, Log
<1>4. Grows /\ Len(flog') = Len(flog) + 1 /\ flog'[Len(flog) + 1] = Entry("checkpoint.committed", n)
  BY ONLY <1>3, LogOne
<1>5. Quietly
  BY <1>3, QuietLog
<1>6. \A k \in Chain : Settled(k)'
  BY <1>2, <1>5, NothingOpen DEF AtNode
<1>7. run' \in Runner /\ run'.pc = "write" /\ run'.node = n /\ run'.seq = run.seq
  BY <1>1 DEF FlowIInv, FlowTypeOK, Intend, Stand, Runner, AtNode
<1>8. Logged("node.completed", n)' /\ Logged("checkpoint.committed", n)'
  <2>1. Logged("node.completed", n)
    BY <1>1, <1>2 DEF FlowIInv, RunOK
  <2>2. Len(flog) + 1 \in 1..Len(flog')
    BY <1>4 DEF FlowIInv, FlowTypeOK
  <2> QED BY <1>3, <1>4, <2>1, <2>2, LoggedStays, LoggedNow
<1>9. FlowTypeOK' /\ MarksOK'
  BY <1>4, <1>7, MarksStay DEF FlowIInv, FlowTypeOK, Intend, Grows
<1>10. RunOK'
  <2>1. OneDefinition'
    BY <1>2 DEF FlowIInv, RunOK, OneDefinition, Intend
  <2>2. \A i \in 1..Len(marks') : marks'[i].done < n /\ marks'[i].seq < run'.seq
    BY <1>1, <1>2, <1>7 DEF FlowIInv, RunOK, AtNode, Intend
  <2>3. run'.seq <= Len(flog')
    BY <1>2, <1>4, <1>7 DEF FlowIInv, FlowTypeOK, RunOK, Runner
  <2> QED BY <1>2, <1>6, <1>7, <1>8, <2>1, <2>2, <2>3 DEF RunOK, Chain, Logged, Entry
<1> QED BY <1>9, <1>10 DEF FlowIInv

\* The row carries the sequence from before its event, up to which everything is settled.
LEMMA WriteMarkKeeps == ASSUME FlowIInv, WriteMark PROVE FlowIInv'
<1> DEFINE new == NewMark
           last == Len(marks) + 1
<1>1. run.pc = "write" /\ run.node \in Chain /\ run.node \in Nat /\ run.node > 0
  BY AtItsNode, NodesAreNumbers DEF WriteMark, AtNode
<1>2. run \in Runner /\ run.seq \in Nat /\ flow \in Definitions
  BY DEF FlowIInv, FlowTypeOK, Runner
<1>3. new \in Mark /\ new.done = run.node /\ new.next = run.node + 1 /\ new.def = flow /\ new.seq = run.seq
  BY <1>1, <1>2 DEF NewMark, Mark
<1>4. MarkOK(new)
  <2>1. new.seq <= Len(flog) /\ Logged("checkpoint.committed", run.node) /\ Logged("node.completed", run.node)
    BY <1>1, <1>3 DEF FlowIInv, RunOK
  <2>2. ASSUME NEW n \in Chain, NEW i \in 1..new.seq, flog[i] = Entry("operation.started", n)
        PROVE  SettledAfter(i, n)
    <3>1. i \in 1..Len(flog)
      BY <1>2, <1>3, <2>1 DEF FlowIInv, FlowTypeOK
    <3>2. Settled(n)
      BY <1>1 DEF FlowIInv, RunOK, AtNode
    <3> QED BY <2>2, <3>1, <3>2 DEF Settled, SettledAfter
  <2> HIDE DEF new
  <2> QED BY <1>1, <1>3, <2>1, <2>2 DEF MarkOK
<1>5. marks' = Append(marks, new) /\ UNCHANGED <<flog, did, flow>>
  BY DEF WriteMark
<1> HIDE DEF new
<1>6. /\ marks' \in Seq(Mark) /\ Len(marks') = last /\ marks'[last] = new
      /\ \A i \in 1..Len(marks) : marks'[i] = marks[i]
  BY <1>3, <1>5 DEF FlowIInv, FlowTypeOK
<1>7. Len(marks) \in Nat /\ \A i \in 1..last : i = last \/ i \in 1..Len(marks)
  BY DEF FlowIInv, FlowTypeOK
<1>8. \A i \in 1..Len(marks) : marks[i].seq < new.seq /\ marks[i].done < new.done /\ marks[i].def = new.def
  BY <1>1, <1>3 DEF FlowIInv, RunOK, OneDefinition, AtNode
<1>9. MarksOK'
  <2>1. ASSUME NEW i \in 1..last PROVE MarkOK(marks[i])'
    <3>1. PICK m : m = marks'[i]
      OBVIOUS
    <3>2. MarkOK(m)
      BY <1>4, <1>6, <1>7, <3>1 DEF FlowIInv, MarksOK
    <3>3. MarkOK(m)'
      BY <1>5, <3>2 DEF MarkOK, Logged, SettledAfter
    <3> QED BY <3>1, <3>3 DEF MarkOK, Logged, SettledAfter
  <2>2. ASSUME NEW i \in 1..last, NEW j \in 1..last, i < j
        PROVE  marks'[i].seq < marks'[j].seq /\ marks'[i].done < marks'[j].done
    <3>1. i \in 1..Len(marks)
      BY <1>7, <2>2
    <3>2. CASE j = last
      BY <1>6, <1>8, <3>1, <3>2
    <3>3. CASE j \in 1..Len(marks)
      BY <1>6, <2>2, <3>1, <3>3 DEF FlowIInv, MarksOK
    <3> QED BY <1>7, <3>2, <3>3
  <2>3. ASSUME NEW i \in 1..last, NEW j \in 1..last
        PROVE  marks'[i].def = marks'[j].def
    <3>1. marks'[i].def = new.def /\ marks'[j].def = new.def
      BY <1>6, <1>7, <1>8
    <3> QED BY <3>1
  <2> HIDE DEF last
  <2> QED BY <1>6, <2>1, <2>2, <2>3 DEF MarksOK
<1>10. run' \in Runner /\ run'.pc \in {"top", "last"} /\ run'.node = run.node + 1
       /\ (run'.pc = "top" => run.node # Length)
  BY <1>1, <1>2 DEF WriteMark, Runner, AtNode
<1>11. FlowTypeOK'
  BY <1>5, <1>6, <1>10 DEF FlowIInv, FlowTypeOK
<1>12. RunOK'
  <2>1. OneDefinition'
    <3>1. \A i \in 1..Len(marks') : marks'[i].def = flow'
      BY <1>3, <1>5, <1>6, <1>7, <1>8
    <3> QED BY <3>1 DEF OneDefinition
  <2>2. ASSUME run'.pc \in AtNode
        PROVE  run'.node \in Chain /\ \A i \in 1..Len(marks') : marks'[i].done < run'.node
    <3>1. run'.pc = "top"
      BY <1>10, <2>2 DEF AtNode
    <3>2. run'.node \in Chain
      BY <1>1, <1>10, <3>1, FlowAssumption DEF Chain
    <3>3. ASSUME NEW i \in 1..last PROVE marks'[i].done < run.node + 1
      <4>1. \A m \in Mark : m.done \in Nat
        BY DEF Mark
      <4>2. marks'[i].done \in Nat
        BY <1>6, <4>1
      <4> QED BY <1>1, <1>3, <1>6, <1>7, <1>8, <4>2
    <3> QED BY <1>6, <1>10, <3>2, <3>3
  <2>3. \A n \in Chain : Settled(n)'
    <3>1. \A n \in Chain : Settled(n)
      BY <1>1 DEF FlowIInv, RunOK, AtNode
    <3> QED BY <1>5, <3>1 DEF Settled
  <2> QED BY <1>10, <2>1, <2>2, <2>3 DEF RunOK, Chain
<1> QED BY <1>9, <1>11, <1>12 DEF FlowIInv

-----------------------------------------------------------------------------
(* Flows: the steps that leave the nodes *)

LEMMA LeaveKeeps ==
    ASSUME FlowIInv, CancelledAtTop \/ NodeFails \/ Finish \/ GoDown
    PROVE  FlowIInv'
<1>1. run.node \in Nat /\ run \in Runner
  BY AtItsNode DEF FlowIInv, FlowTypeOK
<1>2. Grows
  <2>1. CASE CancelledAtTop
    BY <1>1, <2>1, LogOne DEF CancelledAtTop, FlowIInv, EventTypes
  <2>2. CASE NodeFails
    BY <1>1, <2>2, LogOne DEF NodeFails, FlowIInv, EventTypes
  <2>3. CASE Finish
    BY <2>3, FlowAssumption, LogOne DEF Finish, FlowIInv, EventTypes
  <2>4. CASE GoDown
    BY <2>4, LogSame DEF GoDown, FlowIInv
  <2> QED BY <2>1, <2>2, <2>3, <2>4
<1>3. run' \in Runner /\ run'.pc \in {"halted", "over"} /\ (run'.pc = "halted" \/ run.pc # "halted")
  BY <1>1 DEF CancelledAtTop, NodeFails, Finish, GoDown, Stand, Halted, Runner
<1>4. UNCHANGED <<marks, did, flow>>
  BY DEF CancelledAtTop, NodeFails, Finish, GoDown
<1>5. run'.pc \notin AtNode
  BY <1>3 DEF AtNode
<1> QED BY <1>2, <1>3, <1>4, <1>5, EndKeeps

LEMMA RedefineKeeps == ASSUME FlowIInv, Redefine PROVE FlowIInv'
<1>1. Grows
  BY LogSame DEF FlowIInv, Redefine
<1>2. FlowTypeOK'
  BY DEF FlowIInv, FlowTypeOK, Redefine
<1>3. MarksOK'
  BY <1>1, MarksStay DEF FlowIInv, Redefine
<1>4. RunOK'
  BY DEF Redefine, RunOK, OneDefinition, AtNode
<1> QED BY <1>2, <1>3, <1>4 DEF FlowIInv

LEMMA FlowStutters == ASSUME FlowIInv, UNCHANGED frVars PROVE FlowIInv'
<1>1. Grows
  BY LogSame DEF FlowIInv, frVars
<1>2. MarksOK'
  BY <1>1, MarksStay DEF FlowIInv, frVars
<1>3. FlowTypeOK' /\ RunOK'
  BY DEF FlowIInv, FlowTypeOK, RunOK, OneDefinition, Logged, Settled, frVars
<1> QED BY <1>2, <1>3 DEF FlowIInv

LEMMA FlowStep == ASSUME FlowIInv, [FrNext]_frVars PROVE FlowIInv'
<1>1. CASE FirstStart
  BY <1>1, FirstStartKeeps
<1>2. CASE ResumeRun
  BY <1>2, ResumeKeeps
<1>3. CASE Redefine
  BY <1>3, RedefineKeeps
<1>4. CASE StartNode
  BY <1>4, StartNodeKeeps
<1>5. CASE Announce
  BY <1>5, AnnounceKeeps
<1>6. CASE Operate
  BY <1>6, OperateKeeps
<1>7. CASE Confirm \/ OperationFails
  BY <1>7, ConfirmKeeps
<1>8. CASE NothingToDo
  BY <1>8, NothingToDoKeeps
<1>9. CASE Complete
  BY <1>9, CompleteKeeps
<1>10. CASE Intend
  BY <1>10, IntendKeeps
<1>11. CASE WriteMark
  BY <1>11, WriteMarkKeeps
<1>12. CASE CancelledAtTop \/ NodeFails \/ Finish \/ GoDown
  BY <1>12, LeaveKeeps
<1>13. CASE UNCHANGED frVars
  BY <1>13, FlowStutters
<1> QED BY <1>1, <1>2, <1>3, <1>4, <1>5, <1>6, <1>7, <1>8, <1>9, <1>10, <1>11, <1>12, <1>13 DEF FrNext

-----------------------------------------------------------------------------
(* Flows: what follows *)

\* Checkpoints, the log and the runner agree in every state, for every length of the
\* flow, every set of definitions and any number of crashes.
THEOREM FlowInvariant == FrSpec => []FlowIInv
<1>1. FrInit => FlowIInv
  BY FlowStart
<1>2. FlowIInv /\ [FrNext]_frVars => FlowIInv'
  BY FlowStep
<1> QED BY <1>1, <1>2, PTL DEF FrSpec

\* Checkpoints are of one definition, in order, and announced before they count: the
\* greatest sequence is the last safe boundary of the run.
THEOREM CheckpointsAreSound == FrSpec => []MarksSound
<1>1. ASSUME FlowIInv PROVE MarksSound
  <2>1. OneDefinition
    BY <1>1 DEF FlowIInv, RunOK
  <2>2. MarksInOrder
    BY <1>1 DEF FlowIInv, MarksOK, MarksInOrder
  <2>3. ASSUME NEW i \in 1..Len(marks)
        PROVE  /\ Entry("checkpoint.committed", marks[i].done) \in {flog[k] : k \in 1..Len(flog)}
               /\ \E k \in 1..Len(flog) : flog[k] = Entry("node.completed", marks[i].done)
    BY <1>1 DEF FlowIInv, MarksOK, MarkOK, Logged
  <2> QED BY <2>1, <2>2, <2>3 DEF MarksSound, MarksAnnounced
<1> QED BY <1>1, FlowInvariant, PTL

\* A resume that the coordinator allows finds every operation settled, and no step of any
\* run does again what a checkpoint says is done.
THEOREM DoneStaysDone == FrSpec => NothingRedone
<1>1. ASSUME FlowIInv, [FrNext]_frVars
      PROVE  [/\ run.pc = "halted" /\ run'.pc = "top" => \A n \in Chain : Settled(n)
              /\ \A i \in 1..Len(marks) : did'[marks[i].done] = did[marks[i].done]]_frVars
  <2>1. ASSUME run.pc = "halted", run'.pc = "top", NEW n \in Chain PROVE Settled(n)
    <3>1. CASE FirstStart
      BY <3>1 DEF FirstStart, Settled
    <3>2. CASE ResumeRun
      BY <1>1, <3>2, SafeMeansSettled DEF ResumeRun
    <3>3. FirstStart \/ ResumeRun
      BY <1>1, <2>1
      DEF FrNext, Redefine, CancelledAtTop, StartNode, Announce, Operate, Confirm, OperationFails,
          NodeFails, NothingToDo, Complete, Intend, WriteMark, Finish, GoDown, frVars
    <3> QED BY <3>1, <3>2, <3>3
  <2>2. ASSUME NEW i \in 1..Len(marks) PROVE did'[marks[i].done] = did[marks[i].done]
    <3>1. CASE Operate
      <4>1. marks[i].done < run.node /\ run.node \in Chain
        BY <1>1, <3>1 DEF FlowIInv, RunOK, Operate, AtNode
      <4>2. marks[i].done \in Nat /\ run.node \in Nat
        BY <1>1, MarkRows DEF FlowIInv, FlowTypeOK, Runner
      <4>3. marks[i].done # run.node
        BY <4>1, <4>2
      <4>4. did' = [did EXCEPT ![run.node] = @ + 1] /\ did \in [Chain -> Nat]
        BY <1>1, <3>1 DEF Operate, FlowIInv, FlowTypeOK
      <4>5. marks[i].done \in Chain
        BY <1>1 DEF FlowIInv, MarksOK, MarkOK
      <4> QED BY <4>3, <4>4, <4>5
    <3>2. CASE UNCHANGED did
      BY <3>2
    <3>3. Operate \/ UNCHANGED did
      BY <1>1
      DEF FrNext, FirstStart, ResumeRun, Redefine, CancelledAtTop, StartNode, Announce, Confirm,
          OperationFails, NodeFails, NothingToDo, Complete, Intend, WriteMark, Finish, GoDown, frVars
    <3> QED BY <3>1, <3>2, <3>3
  <2> QED BY <2>1, <2>2
<1> QED BY <1>1, FlowInvariant, PTL DEF FrSpec, NothingRedone

-----------------------------------------------------------------------------
(* Sessions: what the state holds *)

\* What a resume decides, the types of events, and the rows of the log, of the database and of
\* processes.
Verdicts == {"blocked", "reconstructed"}
Keyed == Verdicts \cup {"resume-start"}
EntryTypes == {"tool.started", "tool.completed", "tool.failed", "step", "note", "flow.stopped",
               "session.resume.started", "session.resume"}
Entries == [type : EntryTypes, key : Keyed \cup {"none"}, call : 0..MaxCalls]
Rows == [version : Nat, applied : Seq(Nat), run : {"none", "live", "ended"}, revision : Nat,
         messages : Nat, checkpoints : Nat, ledger : SUBSET Ops]
Calling == {"run", "complete", "fail"}
Handles == [handle : {"down", "opening", "open", "closed"},
            pc : Calling \cup {Idle, "closing", "seen", "ledger", "message", "task", "step", "stop", "resume", "resumed"},
            read : Nat, op : Ops \cup Verdicts \cup {NoOp}, late : BOOLEAN, runs : BOOLEAN, calls : 0..MaxCalls]

\* Every variable has its type.
SeTypes ==
    /\ db \in Rows /\ events \in Seq(Entries) /\ c \in [Clients -> Handles]
    /\ effect \in [1..MaxCalls -> Nat] /\ first \in [Ops -> Nat] /\ lives \in Nat

\* What a process has read and is about to do.  A call in progress was announced, and the
\* executor has given out no index above its counter.
ProcessOK(p) ==
    /\ c[p].handle = "opening" => c[p].read <= db.version /\ c[p].pc = Idle
    /\ c[p].pc = "stop" => db.run = "ended"
    /\ c[p].pc \in {"seen", "ledger"} => c[p].op \in Ops
    /\ c[p].pc \in {"resume", "resumed"} => c[p].op \in Verdicts
    /\ c[p].pc \in Calling => c[p].runs /\ c[p].calls \in 1..MaxCalls /\ Started(c[p].calls)
    /\ c[p].pc = "run" => effect[c[p].calls] = 0
    /\ c[p].runs => \A n \in 1..MaxCalls : n > c[p].calls => effect[n] = 0

\* One process at most is the executor of the run, and none before the run is there; a tool
\* that took effect was announced first, and no other ran under its index.
CallsAreCounted ==
    /\ \A p, q \in Clients : c[p].runs /\ c[q].runs => p = q
    /\ \A p \in Clients : c[p].runs => db.run # "none"
    /\ db.run = "none" => \A n \in 1..MaxCalls : effect[n] = 0
    /\ \A n \in 1..MaxCalls : effect[n] <= 1 /\ (effect[n] > 0 => Started(n))

\* What the ledger has called new is in it.
NewIsRecorded == \A op \in Ops : first[op] <= 1 /\ (first[op] > 0 => op \in db.ledger)

\* The inductive invariant of the sessions of a database.
SeInv == /\ SeTypes /\ (\A p \in Clients : ProcessOK(p)) /\ CallsAreCounted /\ NewIsRecorded
         /\ VersionsOnce /\ StepsAreWhole /\ EndedBeforeStopped /\ KeyedEventsOnce

-----------------------------------------------------------------------------
(* Sessions: the log *)

\* What an event adds to the log.
LEMMA LogGrows ==
    ASSUME SeTypes, NEW e \in Entries, events' = Append(events, e)
    PROVE  /\ events' \in Seq(Entries) /\ Len(events) \in Nat /\ Len(events') = Len(events) + 1
           /\ events'[Len(events) + 1] = e /\ \A i \in 1..Len(events) : events'[i] = events[i]
           /\ \A n : Types(n)' = Types(n) \cup (IF n = e.call THEN {e.type} ELSE {})
<1>1. /\ events' \in Seq(Entries) /\ Len(events) \in Nat /\ Len(events') = Len(events) + 1
      /\ events'[Len(events) + 1] = e /\ \A i \in 1..Len(events) : events'[i] = events[i]
  BY DEF SeTypes
<1>2. \A n : Types(n)' = Types(n) \cup (IF n = e.call THEN {e.type} ELSE {})
  <2> SUFFICES ASSUME NEW n PROVE Types(n)' = Types(n) \cup (IF n = e.call THEN {e.type} ELSE {})
    OBVIOUS
  <2> DEFINE new == Len(events) + 1
             at == {j \in 1..Len(events) : events[j].call = n}
             atNext == {j \in 1..Len(events') : events'[j].call = n}
  <2>1. 1..Len(events') = 1..Len(events) \cup {new}
    BY <1>1
  <2>2. atNext = at \cup (IF n = e.call THEN {new} ELSE {})
    BY <1>1, <2>1
  <2>3. Types(n) = {events[i].type : i \in at} /\ Types(n)' = {events'[i].type : i \in atNext}
    BY DEF Types
  <2>4. events'[new].type = e.type /\ \A i \in at : events'[i].type = events[i].type
    BY <1>1
  <2> HIDE DEF new, at, atNext
  <2>5. {events'[i].type : i \in at} = {events[i].type : i \in at}
    BY <2>4
  <2>6. CASE n = e.call
    BY ZenonT(40), <2>2, <2>3, <2>4, <2>5, <2>6
  <2>7. CASE n # e.call
    BY <2>2, <2>3, <2>5, <2>7
  <2> QED BY <2>6, <2>7
<1> QED BY <1>1, <1>2

\* The places of step events in a log.
Steps(s) == {i \in 1..Len(s) : s[i].type = "step"}

\* How many step events there are, when one event is appended.
LEMMA StepsCount ==
    ASSUME SeTypes, NEW e \in Entries, events' = Append(events, e)
    PROVE  /\ Cardinality(Steps(events)) \in Nat
           /\ Cardinality(Steps(events')) = Cardinality(Steps(events)) + (IF e.type = "step" THEN 1 ELSE 0)
<1>1. /\ Len(events) \in Nat /\ Len(events') = Len(events) + 1
      /\ events'[Len(events) + 1] = e /\ \A i \in 1..Len(events) : events'[i] = events[i]
  BY LogGrows
<1>2. IsFiniteSet(Steps(events)) /\ Len(events) + 1 \notin Steps(events)
  <2>1. IsFiniteSet(1..Len(events))
    BY <1>1, FS_Interval
  <2>2. Steps(events) \subseteq 1..Len(events)
    BY DEF Steps
  <2>3. Len(events) + 1 \notin 1..Len(events)
    BY <1>1
  <2> QED BY <2>1, <2>2, <2>3, FS_Subset
<1>3. Steps(events') = IF e.type = "step" THEN Steps(events) \cup {Len(events) + 1} ELSE Steps(events)
  BY <1>1 DEF Steps
<1>4. Cardinality(Steps(events)) \in Nat
  BY <1>2, FS_CardinalityType
<1>5. Cardinality(Steps(events) \cup {Len(events) + 1}) = Cardinality(Steps(events)) + 1
  BY <1>2, FS_AddElement
<1> QED BY <1>3, <1>4, <1>5

-----------------------------------------------------------------------------
(* Sessions: steps *)

\* A step of a process that leaves the log, the effects and all but the harmless columns of
\* the database alone.
LEMMA ProcessKeeps ==
    ASSUME SeInv, NEW p \in Clients, NEW h \in Handles, c' = [c EXCEPT ![p] = h],
           UNCHANGED <<events, effect, first>>, db' \in Rows, lives' \in Nat,
           db'.ledger = db.ledger, db'.version = db.version, db'.applied = db.applied,
           db'.checkpoints = db.checkpoints, db.run = "ended" => db'.run = "ended",
           db'.run = "none" => db.run = "none",
           ProcessOK(p)', h.runs => db'.run # "none" /\ (c[p].runs \/ db.run = "none")
    PROVE  SeInv'
<1>1. \A q \in Clients : c'[q] = IF q = p THEN h ELSE c[q]
  BY DEF SeInv, SeTypes
<1>2. SeTypes'
  BY DEF SeInv, SeTypes
<1>3. \A n : Types(n)' = Types(n) /\ Started(n)' = Started(n)
  BY DEF Types, Started
<1>4. ASSUME NEW q \in Clients PROVE ProcessOK(q)'
  <2>1. CASE q = p
    BY <2>1
  <2>2. CASE q # p
    BY <1>1, <1>3, <2>2 DEF SeInv, ProcessOK
  <2> QED BY <2>1, <2>2
<1>5. CallsAreCounted'
  BY <1>1, <1>3 DEF SeInv, CallsAreCounted
<1>6. NewIsRecorded'
  BY DEF SeInv, NewIsRecorded
<1>7. VersionsOnce' /\ StepsAreWhole' /\ EndedBeforeStopped' /\ KeyedEventsOnce'
  BY DEF SeInv, VersionsOnce, StepsAreWhole, EndedBeforeStopped, StoppedInLog, KeyedEventsOnce
<1> QED BY <1>2, <1>4, <1>5, <1>6, <1>7 DEF SeInv

\* A step that appends one event, and counts a checkpoint with an event of a step.
LEMMA LogKeeps ==
    ASSUME SeInv, NEW p \in Clients, NEW h \in Handles, c' = [c EXCEPT ![p] = h],
           NEW e \in Entries, events' = Append(events, e), UNCHANGED <<effect, first, lives>>,
           db' = IF e.type = "step" THEN [db EXCEPT !.checkpoints = @ + 1] ELSE db,
           e.type = "flow.stopped" => db.run = "ended",
           e.key \in Keyed => ~Known(e.key),
           ProcessOK(p)', h.runs => c[p].runs
    PROVE  SeInv'
<1>1. \A q \in Clients : c'[q] = IF q = p THEN h ELSE c[q]
  BY DEF SeInv, SeTypes
<1>2. /\ events' \in Seq(Entries) /\ Len(events) \in Nat /\ Len(events') = Len(events) + 1
      /\ events'[Len(events) + 1] = e /\ \A i \in 1..Len(events) : events'[i] = events[i]
      /\ \A n : Types(n) \subseteq Types(n)'
  BY LogGrows DEF SeInv
<1>3. /\ db' \in Rows /\ db'.ledger = db.ledger /\ db'.version = db.version /\ db'.applied = db.applied
      /\ db'.run = db.run /\ db'.checkpoints = db.checkpoints + (IF e.type = "step" THEN 1 ELSE 0)
  <2>1. db \in Rows
    BY DEF SeInv, SeTypes
  <2>2. CASE e.type # "step"
    BY <2>1, <2>2 DEF Rows
  <2>3. CASE e.type = "step"
    <3> DEFINE n == db.checkpoints + 1
    <3>1. n \in Nat /\ db' = [db EXCEPT !.checkpoints = n]
      BY <2>1, <2>3 DEF Rows
    <3>2. n = db.checkpoints + 1
      OBVIOUS
    <3> HIDE DEF n
    <3> QED BY <2>1, <2>3, <3>1, <3>2 DEF Rows
  <2> QED BY <2>2, <2>3
<1>4. SeTypes'
  BY <1>2, <1>3 DEF SeInv, SeTypes
<1>5. \A n : Started(n) => Started(n)'
  BY <1>2 DEF Started
<1>6. ASSUME NEW q \in Clients PROVE ProcessOK(q)'
  <2>1. CASE q = p
    BY <2>1
  <2>2. CASE q # p
    BY <1>1, <1>3, <1>5, <2>2 DEF SeInv, ProcessOK
  <2> QED BY <2>1, <2>2
<1>7. CallsAreCounted' /\ NewIsRecorded' /\ VersionsOnce'
  BY <1>1, <1>3, <1>5 DEF SeInv, CallsAreCounted, NewIsRecorded, VersionsOnce
<1>8. StepsAreWhole'
  BY <1>3, StepsCount DEF SeInv, StepsAreWhole, Steps
<1>9. EndedBeforeStopped'
  BY <1>2, <1>3 DEF SeInv, EndedBeforeStopped, StoppedInLog
<1>10. KeyedEventsOnce'
  <2> SUFFICES ASSUME NEW i \in 1..Len(events'), NEW j \in 1..Len(events'), i < j,
                      events'[i].key \in {"resume-start", "blocked", "reconstructed"}
               PROVE  events'[i].key # events'[j].key
    BY DEF KeyedEventsOnce
  <2>1. i \in 1..Len(events) /\ events'[i] = events[i]
    BY <1>2
  <2>2. CASE j \in 1..Len(events)
    BY <1>2, <2>1, <2>2 DEF SeInv, KeyedEventsOnce
  <2>3. CASE j \notin 1..Len(events)
    <3>1. events'[j] = e
      BY <1>2, <2>3
    <3>2. Known(events[i].key)
      BY <2>1 DEF Known
    <3> QED BY <2>1, <3>1, <3>2 DEF Keyed, Verdicts
  <2> QED BY <2>2, <2>3
<1> QED BY <1>4, <1>6, <1>7, <1>8, <1>9, <1>10 DEF SeInv

-----------------------------------------------------------------------------

\* What the invariant says of one process.
LEMMA HandleFacts ==
    ASSUME SeInv, NEW p \in Clients
    PROVE  /\ c[p] \in Handles /\ c[p].read \in Nat /\ c[p].late \in BOOLEAN
           /\ c[p].runs \in BOOLEAN /\ c[p].calls \in 0..MaxCalls
           /\ c[p].op \in Ops \cup Verdicts \cup {NoOp} /\ db \in Rows /\ ProcessOK(p)
           /\ \A pc \in Calling \cup {Idle, "closing", "seen", "ledger", "message", "task", "step", "stop", "resume", "resumed"} :
                  [c[p] EXCEPT !.pc = pc] \in Handles
           /\ Dead \in Handles /\ Dead.handle = "down" /\ Dead.pc = Idle /\ ~Dead.runs
<1>1. Dead \in Handles /\ Dead.handle = "down" /\ Dead.pc = Idle /\ ~Dead.runs
  BY SeAssumption DEF SeAssumption, Handles, Dead, Idle
<1>2. c[p] \in Handles /\ db \in Rows /\ ProcessOK(p)
  BY DEF SeInv, SeTypes
<1>3. ASSUME NEW pc \in Calling \cup {Idle, "closing", "seen", "ledger", "message", "task", "step", "stop",
                                      "resume", "resumed"}
      PROVE  [c[p] EXCEPT !.pc = pc] \in Handles
  BY <1>2 DEF Handles
<1> QED BY <1>1, <1>2, <1>3 DEF Handles

\* A process opens the database, applies what is missing of the schema, opens the session, or
\* dies.
LEMMA OpeningKeeps ==
    ASSUME SeInv, NEW p \in Clients, Connect(p) \/ Migrate(p) \/ OpenSession(p) \/ Die(p)
    PROVE  SeInv'
<1>1. c[p] \in Handles /\ db \in Rows /\ Dead \in Handles /\ lives \in Nat /\ ProcessOK(p) /\ VersionsOnce
  BY HandleFacts DEF SeInv, SeTypes
<1>2. \A h \in Handles : c' = [c EXCEPT ![p] = h] => c'[p] = h
  BY DEF SeInv, SeTypes
<1>3. CASE Die(p)
  <2>1. Dead.handle = "down" /\ Dead.pc = Idle /\ ~Dead.runs
    BY HandleFacts
  <2>2. c' = [c EXCEPT ![p] = Dead] /\ UNCHANGED <<db, events, effect, first, lives>>
    BY <1>3 DEF Die
  <2>3. ProcessOK(p)'
    BY <1>1, <1>2, <2>1, <2>2 DEF ProcessOK, Idle, Calling
  <2> QED BY <1>1, <2>1, <2>2, <2>3, ProcessKeeps DEF Idle, Calling
<1>4. CASE Connect(p)
  <2> DEFINE h == [Dead EXCEPT !.handle = "opening", !.read = db.version]
  <2>1. h \in Handles /\ h.handle = "opening" /\ h.pc = Idle /\ h.read = db.version /\ ~h.runs
    BY <1>1 DEF Dead, Handles, Rows, Idle
  <2>2. c' = [c EXCEPT ![p] = h] /\ UNCHANGED <<db, events, effect, first>> /\ lives' = lives + 1
    BY <1>4 DEF Connect
  <2>3. db.version \in Nat /\ db.version <= db.version /\ lives' \in Nat
    BY <1>1, <2>2 DEF Rows
  <2> HIDE DEF h
  <2>4. c'[p] = h
    BY <1>2, <2>1, <2>2
  <2>5. ProcessOK(p)'
    BY <2>1, <2>2, <2>3, <2>4 DEF ProcessOK, Idle, Calling
  <2> QED BY <1>1, <2>1, <2>2, <2>3, <2>5, ProcessKeeps DEF Idle, Calling
<1>5. CASE OpenSession(p)
  <2> DEFINE new == db.run = "none"
             h == [Dead EXCEPT !.handle = "open", !.runs = new]
  <2>1. h \in Handles /\ h.handle = "open" /\ h.pc = Idle /\ h.runs = new
    BY <1>1 DEF Dead, Handles, Idle
  <2>2. c' = [c EXCEPT ![p] = h] /\ UNCHANGED <<events, effect, first, lives>>
    BY <1>5 DEF OpenSession
  <2>3. /\ db' \in Rows /\ db'.ledger = db.ledger /\ db'.version = db.version /\ db'.applied = db.applied
        /\ db'.checkpoints = db.checkpoints /\ (db.run = "ended" => db'.run = "ended")
        /\ db'.run # "none"
    BY <1>1, <1>5 DEF OpenSession, Rows
  <2> HIDE DEF h
  <2>4. ProcessOK(p)'
    <3>1. new => \A n \in 1..MaxCalls : effect[n] = 0
      BY DEF SeInv, CallsAreCounted
    <3> HIDE DEF new
    <3> QED BY <1>1, <1>2, <2>1, <2>2, <3>1 DEF ProcessOK, Idle, Calling
  <2> QED BY <1>1, <2>1, <2>2, <2>3, <2>4, ProcessKeeps
<1>6. CASE Migrate(p)
  <2>1. CASE c' = [c EXCEPT ![p] = Dead] /\ UNCHANGED db
    <3>1. Dead.handle = "down" /\ Dead.pc = Idle /\ ~Dead.runs /\ UNCHANGED <<events, effect, first, lives>>
      BY <1>6, HandleFacts DEF Migrate
    <3>2. ProcessOK(p)'
      BY <1>1, <1>2, <2>1, <3>1 DEF ProcessOK, Idle, Calling
    <3> QED BY <1>1, <2>1, <3>1, <3>2, ProcessKeeps DEF Idle, Calling
  <2>2. CASE c[p].read + 1 \notin {db.applied[i] : i \in 1..Len(db.applied)}
    <3> DEFINE v == c[p].read + 1
               applied == Append(db.applied, v)
               h == [c[p] EXCEPT !.read = v]
    <3>1. /\ db.applied \in Seq(Nat) /\ Len(db.applied) \in Nat /\ c[p].read \in Nat
          /\ db.version = Len(db.applied) /\ \A i \in 1..Len(db.applied) : db.applied[i] = i
          /\ c[p].handle = "opening" /\ c[p].read <= db.version /\ c[p].pc = Idle
      BY <1>1, <1>6 DEF Migrate, VersionsOnce, ProcessOK, Rows, Handles
    <3>2. v \in Nat /\ c[p].read = db.version /\ v = Len(db.applied) + 1
      <4>1. ~(c[p].read < Len(db.applied))
        <5> SUFFICES ASSUME c[p].read < Len(db.applied) PROVE FALSE
          OBVIOUS
        <5>1. v \in 1..Len(db.applied)
          BY <3>1
        <5> QED BY <2>2, <3>1, <5>1
      <4> QED BY <3>1, <4>1
    <3>3. applied \in Seq(Nat) /\ Len(applied) = v /\ \A i \in 1..Len(applied) : applied[i] = i
      BY <3>1, <3>2
    <3>4. h \in Handles /\ h.pc = Idle /\ h.read = v /\ h.handle = "opening" /\ h.runs = c[p].runs
          /\ h.calls = c[p].calls
      BY <1>1, <3>1, <3>2 DEF Handles
    <3>5. db' = [db EXCEPT !.version = v, !.applied = applied] /\ c' = [c EXCEPT ![p] = h]
          /\ UNCHANGED <<events, effect, first, lives>>
      BY <1>6, <2>2 DEF Migrate
    <3>6. v = db.version + 1
      BY <3>1, <3>2
    <3> HIDE DEF v, applied, h
    <3>7. /\ db' \in Rows /\ db'.version = v /\ db'.applied = applied /\ db'.ledger = db.ledger
          /\ db'.run = db.run /\ db'.checkpoints = db.checkpoints
      BY <1>1, <3>2, <3>3, <3>5 DEF Rows
    <3>8. \A q \in Clients : c'[q] = IF q = p THEN h ELSE c[q]
      BY <3>5 DEF SeInv, SeTypes
    <3>9. SeTypes'
      BY <3>4, <3>5, <3>7 DEF SeInv, SeTypes
    <3>10. \A n : Types(n)' = Types(n) /\ Started(n)' = Started(n)
      BY <3>5 DEF Types, Started
    <3>11. ASSUME NEW q \in Clients PROVE ProcessOK(q)'
      <4>1. ProcessOK(q) /\ c[q].read \in Nat /\ db.version \in Nat
        BY <1>1, HandleFacts DEF Rows
      <4>2. CASE q = p
        BY <3>2, <3>4, <3>5, <3>7, <3>8, <4>1, <4>2 DEF ProcessOK, Idle, Calling
      <4>3. CASE q # p
        BY <3>5, <3>6, <3>7, <3>8, <3>10, <4>1, <4>3 DEF ProcessOK
      <4> QED BY <4>2, <4>3
    <3>12. VersionsOnce'
      BY <3>3, <3>7 DEF VersionsOnce
    <3>13. CallsAreCounted' /\ NewIsRecorded'
      BY <3>4, <3>5, <3>7, <3>8, <3>10 DEF SeInv, CallsAreCounted, NewIsRecorded
    <3>14. StepsAreWhole' /\ EndedBeforeStopped' /\ KeyedEventsOnce'
      BY <3>5, <3>7 DEF SeInv, StepsAreWhole, EndedBeforeStopped, StoppedInLog, KeyedEventsOnce
    <3> QED BY <3>9, <3>11, <3>12, <3>13, <3>14 DEF SeInv
  <2> QED BY <1>6, <2>1, <2>2 DEF Migrate
<1> QED BY <1>3, <1>4, <1>5, <1>6

\* What a process does next that appends to no log and runs no tool.
LEMMA RowsKeep ==
    ASSUME SeInv, NEW p \in Clients,
           \/ LookUp(p) \/ SkipSeen(p) \/ ReadMessages(p) \/ InsertMessage(p) \/ ReadTask(p) \/ WriteTask(p)
           \/ ReadSequence(p) \/ EmitLate(p) \/ EndRun(p) \/ ResumeRead(p)
    PROVE  SeInv'
<1>1. c[p] \in Handles /\ c[p].read \in Nat /\ db \in Rows /\ lives' = lives /\ lives \in Nat /\ ProcessOK(p)
      /\ UNCHANGED <<events, effect, first>>
  BY HandleFacts DEF SeInv, SeTypes, LookUp, SkipSeen, ReadMessages, InsertMessage, ReadTask, WriteTask, ReadSequence,
     EmitLate, EndRun, ResumeRead
<1>2. \A h \in Handles : c' = [c EXCEPT ![p] = h] => c'[p] = h
  BY DEF SeInv, SeTypes
<1>3. \E h \in Handles :
         /\ c' = [c EXCEPT ![p] = h]
         /\ h.handle # "opening"
         /\ h.pc = "stop" => db'.run = "ended"
         /\ h.pc \in {"seen", "ledger"} => h.op \in Ops
         /\ h.pc = "resume" => h.op \in Verdicts
         /\ h.pc = "resumed" => c[p].pc = "resumed" /\ h.op = c[p].op
         /\ h.pc \in Calling => c[p].pc = h.pc
         /\ h.runs = c[p].runs /\ h.calls = c[p].calls
  <2>1. CASE LookUp(p)
    <3>1. PICK op \in Ops : c' = [c EXCEPT ![p].pc = IF op \in db.ledger THEN "seen" ELSE "ledger", ![p].op = op]
      BY <2>1 DEF LookUp
    <3> DEFINE pc == IF op \in db.ledger THEN "seen" ELSE "ledger"
               h == [c[p] EXCEPT !.pc = pc, !.op = op]
    <3>2. pc \in {"seen", "ledger"} /\ c' = [c EXCEPT ![p].pc = pc, ![p].op = op] /\ c[p].handle = "open"
      BY <2>1, <3>1 DEF LookUp, Free
    <3> HIDE DEF pc
    <3>3. h \in Handles /\ h.pc = pc /\ h.op = op /\ h.handle = "open" /\ h.runs = c[p].runs /\ h.calls = c[p].calls
          /\ c' = [c EXCEPT ![p] = h]
      BY <1>1, <3>2 DEF Handles
    <3> QED BY <3>2, <3>3 DEF Calling
  <2>2. CASE SkipSeen(p)
    <3> DEFINE h == [c[p] EXCEPT !.pc = Idle, !.op = NoOp]
    <3>1. h \in Handles /\ h.pc = Idle /\ h.handle = c[p].handle /\ h.runs = c[p].runs /\ h.calls = c[p].calls
          /\ c' = [c EXCEPT ![p] = h]
          /\ c[p].handle # "opening"
      BY <1>1, <2>2 DEF Handles, Idle, SkipSeen, Doing, ProcessOK
    <3> HIDE DEF h
    <3> QED BY <3>1 DEF Calling, Idle
  <2>3. CASE InsertMessage(p) \/ WriteTask(p)
    <3> DEFINE h == [c[p] EXCEPT !.pc = Idle]
    <3>1. h \in Handles /\ h.pc = Idle /\ h.handle = c[p].handle /\ h.runs = c[p].runs /\ h.calls = c[p].calls
          /\ c' = [c EXCEPT ![p] = h]
          /\ c[p].handle # "opening"
      BY <1>1, <2>3 DEF Handles, Idle, InsertMessage, WriteTask, Doing, Go, ProcessOK
    <3> HIDE DEF h
    <3> QED BY <3>1 DEF Calling, Idle
  <2>4. CASE ReadMessages(p) \/ ReadTask(p) \/ ReadSequence(p)
    <3>1. db.messages \in Nat /\ db.revision \in Nat /\ Len(events) + 1 \in Nat
      BY <1>1 DEF Rows, SeInv, SeTypes
    <3>2. PICK pc \in {"message", "task", "step"}, n \in Nat : c' = [c EXCEPT ![p].pc = pc, ![p].read = n]
      BY <2>4, <3>1 DEF ReadMessages, ReadTask, ReadSequence
    <3> DEFINE h == [c[p] EXCEPT !.pc = pc, !.read = n]
    <3>3. h \in Handles /\ h.pc = pc /\ h.handle = c[p].handle /\ h.runs = c[p].runs /\ h.calls = c[p].calls
          /\ c' = [c EXCEPT ![p] = h]
          /\ c[p].handle # "opening"
      BY <1>1, <2>4, <3>2 DEF Handles, ReadMessages, ReadTask, ReadSequence, Free
    <3> HIDE DEF h
    <3> QED BY <3>2, <3>3 DEF Calling
  <2>5. CASE EmitLate(p)
    <3> DEFINE h == [c[p] EXCEPT !.late = TRUE]
    <3>1. h \in Handles /\ h.pc = c[p].pc /\ h.op = c[p].op /\ h.handle = "open" /\ h.runs = c[p].runs
          /\ h.calls = c[p].calls /\ c' = [c EXCEPT ![p] = h]
          /\ db' = db
      BY <1>1, <2>5 DEF Handles, EmitLate
    <3> HIDE DEF h
    <3> QED BY <1>1, <3>1 DEF ProcessOK
  <2>6. CASE EndRun(p)
    <3> DEFINE h == [c[p] EXCEPT !.handle = "closed", !.pc = "stop"]
    <3>1. h \in Handles /\ h.pc = "stop" /\ h.handle = "closed" /\ h.runs = c[p].runs /\ h.calls = c[p].calls
          /\ c' = [c EXCEPT ![p] = h] /\ db'.run = "ended"
      BY <1>1, <2>6 DEF Handles, EndRun, Rows
    <3> HIDE DEF h
    <3> QED BY <3>1 DEF Calling
  <2>7. CASE ResumeRead(p)
    <3>1. PICK op \in Verdicts : c' = [c EXCEPT ![p].pc = "resume", ![p].op = op]
      BY <2>7 DEF ResumeRead, Verdicts
    <3> DEFINE h == [c[p] EXCEPT !.pc = "resume", !.op = op]
    <3>2. h \in Handles /\ h.pc = "resume" /\ h.op = op /\ h.handle = "open" /\ h.runs = c[p].runs /\ h.calls = c[p].calls
          /\ c' = [c EXCEPT ![p] = h]
      BY <1>1, <2>7, <3>1 DEF Handles, ResumeRead, Free
    <3> HIDE DEF h
    <3> QED BY <3>2 DEF Calling
  <2> QED BY <2>1, <2>2, <2>3, <2>4, <2>5, <2>6, <2>7
<1>4. PICK h \in Handles :
         /\ c' = [c EXCEPT ![p] = h]
         /\ h.handle # "opening"
         /\ h.pc = "stop" => db'.run = "ended"
         /\ h.pc \in {"seen", "ledger"} => h.op \in Ops
         /\ h.pc = "resume" => h.op \in Verdicts
         /\ h.pc = "resumed" => c[p].pc = "resumed" /\ h.op = c[p].op
         /\ h.pc \in Calling => c[p].pc = h.pc
         /\ h.runs = c[p].runs /\ h.calls = c[p].calls
  BY <1>3
<1>5. /\ db' \in Rows /\ db'.ledger = db.ledger /\ db'.version = db.version /\ db'.applied = db.applied
      /\ db'.checkpoints = db.checkpoints /\ (db.run = "ended" => db'.run = "ended")
      /\ (db'.run = "none" => db.run = "none")
  <2>1. CASE UNCHANGED db
    BY <1>1, <2>1
  <2>2. CASE EndRun(p)
    BY <1>1, <2>2 DEF EndRun, Rows
  <2>3. CASE InsertMessage(p)
    <3> DEFINE n == db.messages + 1
    <3>1. n \in Nat /\ (db' = [db EXCEPT !.messages = n] \/ db' = db)
      BY <1>1, <2>3 DEF InsertMessage, Rows
    <3> HIDE DEF n
    <3> QED BY <1>1, <3>1 DEF Rows
  <2>4. CASE WriteTask(p)
    <3> DEFINE n == c[p].read + 1
    <3>1. n \in Nat /\ db' = [db EXCEPT !.revision = n]
      BY <1>1, <2>4 DEF WriteTask
    <3> HIDE DEF n
    <3> QED BY <1>1, <3>1 DEF Rows
  <2> QED BY <2>1, <2>2, <2>3, <2>4 DEF LookUp, SkipSeen, ReadMessages, ReadTask, ReadSequence, EmitLate, ResumeRead
<1>6. ProcessOK(p)'
  <2>1. \A n : Started(n)' = Started(n)
    BY <1>1 DEF Types, Started
  <2>2. c'[p] = h
    BY <1>2, <1>4
  <2> QED BY <1>1, <1>4, <1>5, <2>1, <2>2 DEF ProcessOK, Calling
<1>7. c[p].runs => db.run # "none"
  BY DEF SeInv, CallsAreCounted
<1> QED BY <1>1, <1>4, <1>5, <1>6, <1>7, ProcessKeeps

\* An operation is entered in the ledger, or was before, while the process looked elsewhere.
LEMMA RecordKeeps ==
    ASSUME SeInv, NEW p \in Clients, Record(p)
    PROVE  SeInv'
<1>1. /\ c[p] \in Handles /\ db \in Rows /\ ProcessOK(p) /\ c[p].op \in Ops /\ c[p].handle # "opening"
      /\ UNCHANGED <<events, effect, lives>> /\ lives \in Nat
  BY HandleFacts DEF SeInv, SeTypes, Record, Doing, ProcessOK, Idle
<1> DEFINE h == [c[p] EXCEPT !.pc = Idle, !.op = NoOp]
<1>2. h \in Handles /\ h.pc = Idle /\ h.handle = c[p].handle /\ h.runs = c[p].runs /\ h.calls = c[p].calls
      /\ c' = [c EXCEPT ![p] = h]
  BY <1>1 DEF Handles, Idle, Record
<1> HIDE DEF h
<1>3. \A q \in Clients : c'[q] = IF q = p THEN h ELSE c[q]
  BY <1>2 DEF SeInv, SeTypes
<1>4. CASE c[p].op \in db.ledger
  <2>1. db' = db /\ first' = first /\ (c[p].runs => db.run # "none")
    BY <1>4 DEF Record, SeInv, CallsAreCounted
  <2>2. \A n : Started(n)' = Started(n)
    BY <1>1 DEF Types, Started
  <2>3. ProcessOK(p)'
    BY <1>1, <1>2, <1>3, <2>1, <2>2 DEF ProcessOK, Calling, Idle
  <2> QED BY <1>1, <1>2, <2>1, <2>3, ProcessKeeps
<1>5. CASE c[p].op \notin db.ledger
  <2> DEFINE ledger == db.ledger \cup {c[p].op}
  <2>1. db' = [db EXCEPT !.ledger = ledger] /\ first' = [first EXCEPT ![c[p].op] = @ + 1]
    BY <1>5 DEF Record
  <2>2. db.ledger \subseteq Ops /\ ledger \subseteq Ops
    BY <1>1 DEF Rows
  <2>3. db.ledger \subseteq ledger /\ c[p].op \in ledger
    OBVIOUS
  <2> HIDE DEF ledger
  <2>4. /\ db' \in Rows /\ db'.ledger = ledger /\ db'.version = db.version /\ db'.applied = db.applied
        /\ db'.run = db.run /\ db'.checkpoints = db.checkpoints
    BY <1>1, <2>1, <2>2 DEF Rows
  <2>5. first[c[p].op] = 0
    BY <1>1, <1>5 DEF SeInv, SeTypes, NewIsRecorded
  <2>6. first' \in [Ops -> Nat] /\ \A op \in Ops : first'[op] = IF op = c[p].op THEN 1 ELSE first[op]
    BY <1>1, <2>1, <2>5 DEF SeInv, SeTypes
  <2>7. \A n : Started(n)' = Started(n)
    BY <1>1 DEF Types, Started
  <2>8. SeTypes'
    BY <1>1, <1>2, <2>4, <2>6 DEF SeInv, SeTypes
  <2>9. ASSUME NEW q \in Clients PROVE ProcessOK(q)'
    <3>1. CASE q = p
      BY <1>1, <1>2, <1>3, <2>4, <2>7, <3>1 DEF ProcessOK, Calling, Idle
    <3>2. CASE q # p
      BY <1>1, <1>3, <2>4, <2>7, <3>2 DEF ProcessOK, SeInv
    <3> QED BY <3>1, <3>2
  <2>10. CallsAreCounted'
    BY <1>1, <1>2, <1>3, <2>4, <2>7 DEF SeInv, CallsAreCounted
  <2>11. NewIsRecorded'
    BY <2>3, <2>4, <2>6 DEF SeInv, NewIsRecorded
  <2>12. VersionsOnce' /\ StepsAreWhole' /\ EndedBeforeStopped' /\ KeyedEventsOnce'
    BY <1>1, <2>4 DEF SeInv, VersionsOnce, StepsAreWhole, EndedBeforeStopped, StoppedInLog, KeyedEventsOnce
  <2> QED BY <2>8, <2>9, <2>10, <2>11, <2>12 DEF SeInv
<1> QED BY <1>4, <1>5

\* A tool runs: no other has run under its index, and nobody else runs one.
LEMMA RunsKeep ==
    ASSUME SeInv, NEW p \in Clients, ToolRuns(p)
    PROVE  SeInv'
<1> DEFINE n == c[p].calls
<1>1. /\ c[p] \in Handles /\ db \in Rows /\ ProcessOK(p) /\ n \in 1..MaxCalls /\ c[p].runs
      /\ c[p].handle # "opening" /\ UNCHANGED <<db, events, first, lives>> /\ c[p].pc = "run" /\ effect[n] = 0
      /\ Started(n)
  BY HandleFacts DEF ToolRuns, Doing, ProcessOK, Idle, Calling
<1>2. PICK pc \in {"complete", "fail"} : c' = [c EXCEPT ![p].pc = pc]
  BY DEF ToolRuns, Go
<1> DEFINE h == [c[p] EXCEPT !.pc = pc]
<1>3. /\ h \in Handles /\ h.pc = pc /\ h.handle = c[p].handle /\ h.runs = c[p].runs /\ h.calls = n
      /\ c' = [c EXCEPT ![p] = h]
  BY <1>1, <1>2 DEF Handles, Calling
<1> HIDE DEF h
<1>4. \A q \in Clients : c'[q] = IF q = p THEN h ELSE c[q]
  BY <1>3 DEF SeInv, SeTypes
<1>5. effect' \in [1..MaxCalls -> Nat] /\ \A m \in 1..MaxCalls : effect'[m] = IF m = n THEN 1 ELSE effect[m]
  BY <1>1 DEF SeInv, SeTypes, ToolRuns
<1>6. \A m : Types(m)' = Types(m) /\ Started(m)' = Started(m)
  BY <1>1 DEF Types, Started
<1>7. SeTypes'
  BY <1>1, <1>3, <1>5 DEF SeInv, SeTypes
<1>8. ASSUME NEW q \in Clients PROVE ProcessOK(q)'
  <2>1. CASE q = p
    <3>1. \A m \in 1..MaxCalls : m > n => effect[m] = 0 /\ m # n
      BY <1>1 DEF ProcessOK
    <3>2. \A m \in 1..MaxCalls : m > n => effect'[m] = 0
      BY <1>5, <3>1
    <3>3. c'[p].calls = n /\ c'[p].runs /\ c'[p].pc = pc /\ c'[p].handle # "opening"
      BY <1>1, <1>3, <1>4
    <3> HIDE DEF n
    <3> QED BY <1>1, <1>2, <1>6, <2>1, <3>2, <3>3 DEF ProcessOK, Calling, Idle
  <2>2. CASE q # p
    <3>1. ~c[q].runs /\ c[q].pc \notin Calling
      BY <1>1, <2>2 DEF SeInv, CallsAreCounted, ProcessOK
    <3> QED BY <1>1, <1>4, <1>6, <2>2, <3>1 DEF ProcessOK, SeInv, Calling
  <2> QED BY <2>1, <2>2
<1>9. CallsAreCounted'
  <2>1. db.run # "none"
    BY <1>1 DEF SeInv, CallsAreCounted
  <2> QED BY <1>1, <1>3, <1>4, <1>5, <1>6, <2>1 DEF SeInv, CallsAreCounted
<1>10. NewIsRecorded' /\ VersionsOnce' /\ StepsAreWhole' /\ EndedBeforeStopped' /\ KeyedEventsOnce'
  BY <1>1 DEF SeInv, NewIsRecorded, VersionsOnce, StepsAreWhole, EndedBeforeStopped, StoppedInLog, KeyedEventsOnce
<1> QED BY <1>7, <1>8, <1>9, <1>10 DEF SeInv

\* An event that the log takes, or does not because its key is there.
LEMMA EventIs ==
    ASSUME SeInv, NEW type \in EntryTypes, NEW key \in Keyed \cup {"none"}, Append1(type, key)
    PROVE  LET e == Event(type, key, NoCall) IN
           /\ e \in Entries /\ e.type = type /\ e.key = key
           /\ \/ events' = events /\ key \in Keyed
              \/ events' = Append(events, e) /\ (key \in Keyed => ~Known(key))
<1>1. Event(type, key, NoCall) \in Entries /\ Event(type, key, NoCall).type = type
      /\ Event(type, key, NoCall).key = key
  BY SeAssumption DEF SeAssumption, Event, Entries, NoCall
<1>2. key \in Keyed <=> key # "none"
  BY DEF Keyed, Verdicts
<1> QED BY <1>1, <1>2 DEF Append1

\* The event of a tool call.
LEMMA CallIs ==
    ASSUME SeInv, NEW type \in EntryTypes, NEW n \in 0..MaxCalls
    PROVE  LET e == Event(type, "none", n) IN
           /\ e \in Entries /\ e.type = type /\ e.key \notin Keyed /\ e.call = n
           /\ events' = Append(events, e) => type \in Types(n)' /\ \A m : Started(m) => Started(m)'
<1> DEFINE e == Event(type, "none", n)
<1>1. e \in Entries /\ e.type = type /\ e.key \notin Keyed /\ e.call = n
  BY DEF Event, Entries, Keyed, Verdicts
<1>2. events' = Append(events, e) => \A m : Types(m)' = Types(m) \cup (IF m = n THEN {type} ELSE {})
  BY <1>1, LogGrows DEF SeInv
<1> HIDE DEF e
<1>3. events' = Append(events, e) => type \in Types(n)' /\ \A m : Started(m) => Started(m)'
  BY <1>2 DEF Started
<1> QED BY <1>1, <1>3 DEF e

\* Steps that append events.
LEMMA LoggedKeeps ==
    ASSUME SeInv, NEW p \in Clients,
           \/ ToolStarted(p) \/ BudgetSpent(p) \/ ToolEnds(p)
           \/ CommitStep(p) \/ AppendLate(p) \/ EmitStopped(p) \/ ResumeEmit(p)
    PROVE  SeInv'
<1>1. c[p] \in Handles /\ db \in Rows /\ lives' = lives /\ lives \in Nat /\ ProcessOK(p) /\ UNCHANGED <<effect, first>>
      /\ (c[p].runs => db.run # "none")
  BY HandleFacts DEF SeInv, CallsAreCounted, SeTypes, ToolStarted, BudgetSpent, ToolEnds, CommitStep, AppendLate, EmitStopped, ResumeEmit
<1>2. \A h \in Handles : c' = [c EXCEPT ![p] = h] => c'[p] = h
  BY DEF SeInv, SeTypes
<1>3. CASE ToolStarted(p)
  <2>1. PICK n \in 1..MaxCalls : n = c[p].calls + 1
    BY <1>1, <1>3, SeAssumption DEF SeAssumption, Handles, ToolStarted
  <2> DEFINE e == Event("tool.started", "none", n)
  <2>2. /\ c[p].runs /\ c[p].handle = "open" /\ c[p].pc = Idle /\ db' = db
        /\ db.run # "none"
    BY <1>1, <1>3 DEF ToolStarted, Free, Doing
  <2>3. effect[n] = 0 /\ \A m \in 1..MaxCalls : m > n => effect[m] = 0
    <3>1. c[p].calls \in Int /\ n > c[p].calls /\ \A m \in 1..MaxCalls : m > n => m > c[p].calls
      BY <1>1, <2>1, SeAssumption DEF SeAssumption, Handles
    <3> QED BY <1>1, <2>2, <3>1 DEF ProcessOK
  <2>4. PICK pc \in {"run", "fail", Idle} :
           /\ c' = [c EXCEPT ![p].pc = pc, ![p].calls = @ + 1]
           /\ IF pc = Idle THEN UNCHANGED events ELSE AppendCall("tool.started", c[p].calls + 1)
    BY <1>3 DEF ToolStarted
  <2> DEFINE h == [c[p] EXCEPT !.pc = pc, !.calls = n]
  <2>5. c' = [c EXCEPT ![p] = h]
    BY <2>4, <2>1
  <2>6. e = Event("tool.started", "none", n) /\ n \in 0..MaxCalls
        /\ (pc = Idle => events' = events) /\ (pc # Idle => events' = Append(events, e))
    BY <2>4, <2>1, SeAssumption DEF SeAssumption, AppendCall
  <2> HIDE DEF e
  <2>7. h \in Handles /\ h.pc = pc /\ h.handle = "open" /\ h.runs /\ h.calls = n
    BY <1>1, <2>2, <2>6 DEF Handles, Calling
  <2> HIDE DEF h
  <2>8. c'[p] = h
    BY <1>2, <2>5, <2>7
  <2>9. e \in Entries /\ e.type = "tool.started" /\ e.key \notin Keyed
        /\ (pc # Idle => Started(n)')
    BY <2>6, CallIs DEF EntryTypes, Started
  <2>10. ProcessOK(p)'
    BY <1>1, <2>2, <2>3, <2>7, <2>8, <2>9 DEF ProcessOK, Calling, Idle
  <2>11. CASE pc = Idle
    BY <1>1, <2>2, <2>5, <2>6, <2>7, <2>10, <2>11, ProcessKeeps
  <2>12. CASE pc # Idle
    BY <1>1, <2>2, <2>5, <2>6, <2>7, <2>9, <2>10, <2>12, LogKeeps
  <2> QED BY <2>11, <2>12
<1>4. CASE ToolEnds(p)
  <2>1. /\ c[p].pc \in Calling /\ db' = db /\ c[p].handle # "opening" /\ c[p].runs /\ db.run # "none"
        /\ c[p].calls \in 0..MaxCalls
    BY <1>1, <1>4 DEF ToolEnds, ProcessOK, Calling, Idle, SeInv, CallsAreCounted, Handles
  <2>2. events' = events \/ \E type \in {"tool.failed", "tool.completed"} : AppendCall(type, c[p].calls)
    BY <1>4 DEF ToolEnds
  <2> DEFINE h == [c[p] EXCEPT !.pc = Idle]
  <2>3. h \in Handles /\ h.pc = Idle /\ h.handle = c[p].handle /\ h.runs /\ h.calls = c[p].calls
        /\ c' = [c EXCEPT ![p] = h]
    BY <1>1, <1>4, <2>1 DEF Handles, Idle, ToolEnds, Go
  <2> HIDE DEF h
  <2>4. ProcessOK(p)'
    BY <1>1, <1>2, <2>1, <2>3 DEF ProcessOK, Calling, Idle
  <2>5. CASE events' = events
    BY <1>1, <2>1, <2>3, <2>4, <2>5, ProcessKeeps
  <2>6. CASE events' # events
    <3>1. PICK type \in {"tool.failed", "tool.completed"} : AppendCall(type, c[p].calls)
      BY <2>2, <2>6
    <3> DEFINE e == Event(type, "none", c[p].calls)
    <3>2. e \in Entries /\ e.type = type /\ e.key \notin Keyed /\ events' = Append(events, e)
      BY <2>1, <3>1, CallIs DEF EntryTypes, AppendCall
    <3> HIDE DEF e
    <3> QED BY <1>1, <2>1, <2>3, <2>4, <3>2, LogKeeps
  <2> QED BY <2>5, <2>6
<1>5. CASE BudgetSpent(p)
  <2>1. /\ c[p].pc = Idle /\ db' = db /\ c[p].handle # "opening" /\ AppendCall("tool.failed", NoCall)
        /\ NoCall \in 0..MaxCalls
    BY <1>1, <1>5, SeAssumption DEF SeAssumption, BudgetSpent, Free, Doing, NoCall
  <2> DEFINE h == [c[p] EXCEPT !.pc = "closing"]
             e == Event("tool.failed", "none", NoCall)
  <2>2. h \in Handles /\ h.pc = "closing" /\ h.handle = c[p].handle /\ h.runs = c[p].runs
        /\ h.calls = c[p].calls /\ c' = [c EXCEPT ![p] = h]
    BY <1>1, <1>5 DEF Handles, BudgetSpent, Go
  <2>3. e \in Entries /\ e.type = "tool.failed" /\ e.key \notin Keyed /\ events' = Append(events, e)
    BY <2>1, CallIs DEF EntryTypes, AppendCall
  <2> HIDE DEF h, e
  <2>4. ProcessOK(p)'
    BY <1>1, <1>2, <2>1, <2>2 DEF ProcessOK, Calling, Idle
  <2> QED BY <1>1, <2>1, <2>2, <2>3, <2>4, LogKeeps
<1>6. CASE CommitStep(p)
  <2> DEFINE h == [c[p] EXCEPT !.pc = Idle]
             e == Event("step", "none", NoCall)
  <2>1. h \in Handles /\ h.pc = Idle /\ h.handle = c[p].handle /\ h.runs = c[p].runs /\ h.calls = c[p].calls
        /\ c' = [c EXCEPT ![p] = h] /\ c[p].handle # "opening"
    BY <1>1, <1>6 DEF Handles, Idle, CommitStep, Doing, Go, ProcessOK
  <2>2. e \in Entries /\ e.type = "step" /\ e.key \notin Keyed
    BY SeAssumption DEF SeAssumption, Event, Entries, EntryTypes, Keyed, Verdicts, NoCall
  <2>3. \/ UNCHANGED <<events, db>>
        \/ events' = Append(events, e) /\ db' = [db EXCEPT !.checkpoints = @ + 1]
    BY <1>6 DEF CommitStep
  <2> HIDE DEF h, e
  <2>4. ProcessOK(p)'
    BY <1>1, <1>2, <2>1 DEF ProcessOK, Calling, Idle
  <2>5. CASE UNCHANGED <<events, db>>
    BY <1>1, <2>1, <2>4, <2>5, ProcessKeeps
  <2>6. CASE events' = Append(events, e) /\ db' = [db EXCEPT !.checkpoints = @ + 1]
    BY <1>1, <2>1, <2>2, <2>4, <2>6, LogKeeps
  <2> QED BY <2>3, <2>5, <2>6
<1>7. CASE AppendLate(p)
  <2> DEFINE h == [c[p] EXCEPT !.late = FALSE]
             e == Event("note", "none", NoCall)
  <2>1. /\ h \in Handles /\ h.pc = c[p].pc /\ h.handle = c[p].handle /\ h.op = c[p].op /\ h.read = c[p].read
        /\ h.runs = c[p].runs /\ h.calls = c[p].calls /\ c' = [c EXCEPT ![p] = h] /\ db' = db /\ Append1("note", "none")
    BY <1>1, <1>7 DEF Handles, AppendLate
  <2>2. e \in Entries /\ e.type = "note" /\ e.key \notin Keyed /\ events' = Append(events, e)
    BY <2>1, EventIs DEF EntryTypes, Keyed, Verdicts
  <2> HIDE DEF h, e
  <2>3. \A n : Started(n) => Started(n)'
    BY <2>2, LogGrows DEF SeInv, Started
  <2>4. ProcessOK(p)'
    BY <1>1, <1>2, <2>1, <2>3 DEF ProcessOK
  <2> QED BY <1>1, <2>1, <2>2, <2>4, LogKeeps
<1>8. CASE EmitStopped(p)
  <2> DEFINE h == [c[p] EXCEPT !.pc = Idle]
             e == Event("flow.stopped", "none", NoCall)
  <2>1. /\ h \in Handles /\ h.pc = Idle /\ h.handle = c[p].handle /\ h.runs = c[p].runs /\ h.calls = c[p].calls
        /\ c' = [c EXCEPT ![p] = h] /\ db' = db /\ c[p].handle # "opening" /\ db.run = "ended"
        /\ (events' = events \/ Append1("flow.stopped", "none"))
    BY <1>1, <1>8 DEF Handles, Idle, EmitStopped, Doing, Go, ProcessOK
  <2>2. e \in Entries /\ e.type = "flow.stopped" /\ e.key \notin Keyed
        /\ (events' = events \/ events' = Append(events, e))
    BY <2>1, EventIs, SeAssumption
       DEF SeAssumption, EntryTypes, Entries, Event, NoCall, Keyed, Verdicts
  <2> HIDE DEF h, e
  <2>3. ProcessOK(p)'
    BY <1>1, <1>2, <2>1 DEF ProcessOK, Calling, Idle
  <2>4. CASE events' = events
    BY <1>1, <2>1, <2>3, <2>4, ProcessKeeps
  <2>5. CASE events' = Append(events, e)
    BY <1>1, <2>1, <2>2, <2>3, <2>5, LogKeeps
  <2> QED BY <2>2, <2>4, <2>5
<1>9. CASE ResumeEmit(p)
  <2>1. c[p].op \in Verdicts /\ c[p].handle # "opening" /\ db' = db
    BY <1>1, <1>9 DEF ResumeEmit, ProcessOK, Idle
  <2>2. \E h \in Handles, type \in EntryTypes \ {"step", "flow.stopped"},
           key \in Keyed :
              /\ c' = [c EXCEPT ![p] = h] /\ Append1(type, key) /\ h.handle = c[p].handle
              /\ h.runs = c[p].runs /\ h.calls = c[p].calls
              /\ h.pc = Idle \/ (h.pc = "resumed" /\ h.op = c[p].op)
    <3>1. CASE c[p].pc = "resume"
      <4> DEFINE h == [c[p] EXCEPT !.pc = "resumed"]
      <4>1. h \in Handles /\ h.pc = "resumed" /\ h.op = c[p].op /\ h.handle = c[p].handle
            /\ h.runs = c[p].runs /\ h.calls = c[p].calls
            /\ c' = [c EXCEPT ![p] = h] /\ Append1("session.resume.started", "resume-start")
        BY <1>1, <1>9, <3>1 DEF Handles, ResumeEmit, Doing, Go
      <4> HIDE DEF h
      <4> QED BY <4>1 DEF EntryTypes, Keyed
    <3>2. CASE c[p].pc # "resume"
      <4> DEFINE h == [c[p] EXCEPT !.pc = Idle, !.op = NoOp]
      <4>1. h \in Handles /\ h.pc = Idle /\ h.handle = c[p].handle /\ h.runs = c[p].runs /\ h.calls = c[p].calls
            /\ c' = [c EXCEPT ![p] = h] /\ Append1("session.resume", c[p].op)
        BY <1>1, <1>9, <3>2 DEF Handles, ResumeEmit, Doing, Go, Idle
      <4> HIDE DEF h
      <4> QED BY <2>1, <4>1 DEF EntryTypes, Keyed
    <3> QED BY <3>1, <3>2
  <2>3. PICK h \in Handles, type \in EntryTypes \ {"step", "flow.stopped"},
             key \in Keyed :
              /\ c' = [c EXCEPT ![p] = h] /\ Append1(type, key) /\ h.handle = c[p].handle
              /\ h.runs = c[p].runs /\ h.calls = c[p].calls
              /\ h.pc = Idle \/ (h.pc = "resumed" /\ h.op = c[p].op)
    BY <2>2
  <2> DEFINE e == Event(type, key, NoCall)
  <2>4. /\ e \in Entries /\ e.type = type /\ e.key = key
        /\ (events' = events \/ (events' = Append(events, e) /\ ~Known(key)))
    BY <2>3, EventIs
  <2> HIDE DEF e
  <2>5. ProcessOK(p)'
    BY <1>1, <1>2, <2>1, <2>3 DEF ProcessOK, Calling, Idle
  <2>6. CASE events' = events
    BY <1>1, <2>1, <2>3, <2>5, <2>6, ProcessKeeps
  <2>7. CASE events' = Append(events, e) /\ ~Known(key)
    BY <1>1, <2>1, <2>3, <2>4, <2>5, <2>7, LogKeeps
  <2> QED BY <2>4, <2>6, <2>7
<1> QED BY <1>3, <1>4, <1>5, <1>6, <1>7, <1>8, <1>9

\* The initial states: a database without a schema, or with the last one.
LEMMA SeStart == SeInit => SeInv
<1> SUFFICES ASSUME SeInit PROVE SeInv
  OBVIOUS
<1>1. PICK v \in {0, LastVersion} :
        db = [version |-> v, applied |-> [i \in 1..v |-> i], run |-> "none", revision |-> 0,
              messages |-> 0, checkpoints |-> 0, ledger |-> {}]
  BY DEF SeInit
<1>2. v \in Nat /\ [i \in 1..v |-> i] \in Seq(Nat) /\ Len([i \in 1..v |-> i]) = v
  <2>1. v \in Nat
    <3>1. LastVersion \in Nat
      BY SeAssumption DEF SeAssumption
    <3> QED BY <3>1
  <2> QED BY <2>1
<1>3. db \in Rows /\ db.version = v /\ Len(db.applied) = v /\ (\A i \in 1..v : db.applied[i] = i)
      /\ db.checkpoints = 0
  BY <1>1, <1>2 DEF Rows
<1>4. Dead \in Handles /\ Dead.pc = Idle /\ Dead.handle = "down" /\ ~Dead.runs
  BY SeAssumption DEF SeAssumption, Dead, Handles, Idle
<1>5. /\ \A p \in Clients : c[p] = Dead
      /\ c \in [Clients -> Handles] /\ effect = [n \in 1..MaxCalls |-> 0]
      /\ first = [op \in Ops |-> 0] /\ events = <<>> /\ lives = 0
  BY <1>4 DEF SeInit
<1>6. SeTypes
  BY <1>3, <1>5 DEF SeTypes
<1>7. ASSUME NEW p \in Clients PROVE ProcessOK(p)
  BY <1>4, <1>5 DEF ProcessOK, Idle, Calling
<1>8. CallsAreCounted /\ NewIsRecorded /\ VersionsOnce
  BY <1>3, <1>4, <1>5 DEF CallsAreCounted, NewIsRecorded, VersionsOnce
<1>9. StepsAreWhole
  <2>1. {i \in 1..Len(events) : events[i].type = "step"} = {}
    BY <1>5
  <2> QED BY <1>3, <2>1, FS_EmptySet DEF StepsAreWhole
<1>10. EndedBeforeStopped /\ KeyedEventsOnce
  BY <1>5 DEF EndedBeforeStopped, StoppedInLog, KeyedEventsOnce
<1> QED BY <1>6, <1>7, <1>8, <1>9, <1>10 DEF SeInv

-----------------------------------------------------------------------------
(* Sessions: the theorems *)

\* SeInv is an invariant, for any number of processes, calls and schema versions, whenever
\* processes die and whichever events of tool calls the database refuses.
THEOREM SessionInvariant == SeSpec => []SeInv
<1>1. SeInv /\ [SeNext]_seVars => SeInv'
  <2> SUFFICES ASSUME SeInv, [SeNext]_seVars PROVE SeInv'
    OBVIOUS
  <2>1. CASE SeNext
    BY <2>1, OpeningKeeps, RowsKeep, RecordKeeps, RunsKeep, LoggedKeeps DEF SeNext
  <2>2. CASE UNCHANGED seVars
    <3>1. \A n : Types(n)' = Types(n) /\ Started(n)' = Started(n)
      BY <2>2 DEF seVars, Types, Started
    <3>2. UNCHANGED <<db, events, c, effect, first, lives>>
      BY <2>2 DEF seVars
    <3>3. SeTypes' /\ (\A p \in Clients : ProcessOK(p)') /\ CallsAreCounted' /\ NewIsRecorded'
      BY <3>1, <3>2 DEF SeInv, SeTypes, ProcessOK, CallsAreCounted, NewIsRecorded
    <3> QED BY <3>2, <3>3 DEF SeInv, VersionsOnce, StepsAreWhole, EndedBeforeStopped, StoppedInLog, KeyedEventsOnce
  <2> QED BY <2>1, <2>2
<1> QED BY <1>1, SeStart, PTL DEF SeSpec

\* SessionsSound is an invariant (src/src/paperclaw/context/repository.py, session.py and
\* src/src/paperclaw/harness/agent_runtime_executor.py): processes that open a database
\* together apply every schema version once and in order; one tool at most runs under an index
\* of the log, and one that took effect has its result in the log or is found ambiguous, though
\* processes die and events are refused; the ledger calls an operation new to one caller at
\* most; there are as many checkpoints as step events; a terminal event is never there before
\* the run is marked ended; and an event with an idempotency key is in the log once.
THEOREM SessionsAreSound == SeSpec => []SessionsSound
<1>1. SeInv => SessionsSound
  <2> SUFFICES ASSUME SeInv PROVE SessionsSound
    OBVIOUS
  <2>1. NothingForgotten
    <3> SUFFICES ASSUME NEW n \in 1..MaxCalls
                 PROVE  effect[n] <= 1 /\ (effect[n] > 0 => HasResult(n) \/ n \in Ambiguous)
      BY DEF NothingForgotten
    <3>1. effect[n] <= 1 /\ (effect[n] > 0 => Started(n))
      BY DEF SeInv, CallsAreCounted
    <3> QED BY <3>1 DEF Ambiguous
  <2>2. FirstTimeOnce
    BY DEF SeInv, NewIsRecorded, FirstTimeOnce
  <2> QED BY <2>1, <2>2 DEF SeInv, SessionsSound
<1> QED BY <1>1, SessionInvariant, PTL
=============================================================================
