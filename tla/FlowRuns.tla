------------------------------ MODULE FlowRuns ------------------------------
(***************************************************************************)
(* A flow run step by step with events and checkpoints                       *)
(* (src/src/paperclaw/runtime/flow_runner.py, checkpoint.py), crashed at any *)
(* point, and the decision whether it may go on by itself                    *)
(* (resume_coordinator.py, resume.py, node_registry.py).                     *)
(*                                                                          *)
(* The flow is a chain of nodes, each with one mutating operation of its     *)
(* own.  The caller gives the runner the run id of its session, also at the  *)
(* first start (FlowResumePoint with no completed node): a run id the runner *)
(* makes up itself is not in the table of runs.                              *)
(***************************************************************************)
EXTENDS Integers, Sequences, FiniteSets

CONSTANTS
    Length,         \* nodes of the flow
    MaxDowns,       \* crashes and failures of the process
    Definitions     \* definitions of the flow, each with its registry hash

ASSUME FlowAssumption == Length \in Nat \ {0}

VARIABLES
    flog,       \* the events of the run, in the order of their sequences
    marks,      \* rows of checkpoints, in the order written
    run,        \* the runner: where it is, its node, last_committed_sequence
    did,        \* history: how often the operation of a node took effect
    flow,       \* the definition that is loaded
    downs

frVars == <<flog, marks, run, did, flow, downs>>

Chain == 1..Length
End == Length + 1
Entry(type, node) == [type |-> type, node |-> node]
Halted == [pc |-> "halted", node |-> 0, seq |-> 0]
Log(type, node) == flog' = Append(flog, Entry(type, node))
Stand(pc) == run' = [run EXCEPT !.pc = pc]

-----------------------------------------------------------------------------
(* Starting, and starting again *)

\* latest_checkpoint: the greatest last_committed_sequence.
LatestMark == CHOOSE m \in {marks[i] : i \in 1..Len(marks)} :
                \A i \in 1..Len(marks) : marks[i].seq <= m.seq

\* Mutant of OpenOperations: an operation that was started counts as settled.
NoneOpen(since) == {}

\* build_pending_operations over the events behind the checkpoint: the last event of an
\* operation says its state, and one that was only started is not settled.
OpenOperations(since) ==
    {n \in Chain : \E i \in since + 1..Len(flog) :
        /\ flog[i] = Entry("operation.started", n)
        /\ \A j \in i + 1..Len(flog) :
            flog[j] \notin {Entry("operation.committed", n), Entry("operation.failed", n)}}

\* evaluate_resume_safety: the next node is in the registry, the registry is the one the
\* checkpoint was written under, and no operation is open.
ResumeSafe(m) == m.next \in Chain /\ m.def = flow /\ OpenOperations(m.seq) = {}

FirstStart ==
    /\ flog = <<>> /\ run.pc = "halted"
    /\ flog' = <<Entry("flow.started", 1), Entry("flow.resumed", 1)>>
    /\ run' = [pc |-> "top", node |-> 1, seq |-> 0]
    /\ UNCHANGED <<marks, did, flow, downs>>

\* decide_resume says yes and the runner is entered at the next node; a run without a
\* checkpoint is left to an operator.
ResumeRun ==
    /\ flog # <<>> /\ run.pc = "halted" /\ Len(marks) > 0 /\ ResumeSafe(LatestMark)
    /\ flog' = flog \o <<Entry("flow.started", LatestMark.next), Entry("flow.resumed", LatestMark.next)>>
    /\ run' = [pc |-> "top", node |-> LatestMark.next, seq |-> 0]
    /\ UNCHANGED <<marks, did, flow, downs>>

\* Another version of the program is installed while the run is down.
Redefine ==
    /\ run.pc = "halted" /\ downs < MaxDowns
    /\ \E d \in Definitions \ {flow} : flow' = d
    /\ downs' = downs + 1
    /\ UNCHANGED <<flog, marks, run, did>>

-----------------------------------------------------------------------------
(* One node *)

\* The cancellation token is looked at between nodes only.
CancelledAtTop ==
    /\ run.pc = "top"
    /\ Log("flow.stopped", run.node)
    /\ Stand("over")
    /\ UNCHANGED <<marks, did, flow, downs>>

StartNode ==
    /\ run.pc = "top"
    /\ Log("node.started", run.node)
    /\ Stand("exec")
    /\ UNCHANGED <<marks, did, flow, downs>>

\* The node does its work in prep, exec and post: it announces its operation, which takes
\* effect or fails.
Announce ==
    /\ run.pc = "exec"
    /\ Log("operation.started", run.node)
    /\ Stand("operate")
    /\ UNCHANGED <<marks, did, flow, downs>>

Operate ==
    /\ run.pc = "operate"
    /\ did' = [did EXCEPT ![run.node] = @ + 1]
    /\ Stand("confirm")
    /\ UNCHANGED <<flog, marks, flow, downs>>

Confirm ==
    /\ run.pc = "confirm"
    /\ Log("operation.committed", run.node)
    /\ Stand("complete")
    /\ UNCHANGED <<marks, did, flow, downs>>

OperationFails ==
    /\ run.pc = "operate" /\ downs < MaxDowns
    /\ Log("operation.failed", run.node)
    /\ downs' = downs + 1
    /\ Stand("fail")
    /\ UNCHANGED <<marks, did, flow>>

\* node.failed, and the exception goes to the caller: no flow.stopped.
NodeFails ==
    /\ run.pc = "fail"
    /\ Log("node.failed", run.node)
    /\ run' = Halted
    /\ UNCHANGED <<marks, did, flow, downs>>

\* A node without an operation to do returns at once.
NothingToDo ==
    /\ run.pc = "exec"
    /\ Stand("complete")
    /\ UNCHANGED <<flog, marks, did, flow, downs>>

\* node.completed and transition.selected.
Complete ==
    /\ run.pc = "complete"
    /\ flog' = flog \o <<Entry("node.completed", run.node), Entry("transition.selected", run.node)>>
    /\ run' = [run EXCEPT !.pc = "mark", !.seq = Len(flog) + 2]
    /\ UNCHANGED <<marks, did, flow, downs>>

\* _build_checkpoint: the node that is done, the next one, the registry hash, and the
\* sequence the runner holds.
NewMark == [done |-> run.node, next |-> run.node + 1, def |-> flow, seq |-> run.seq]

\* Mutant of Intend: the row is written before the event.
WriteFirst ==
    /\ run.pc = "mark"
    /\ marks' = Append(marks, NewMark)
    /\ Stand("write")
    /\ UNCHANGED <<flog, did, flow, downs>>

\* checkpoint.committed records the intent; the sequence in the row is the one before.
Intend ==
    /\ run.pc = "mark"
    /\ Log("checkpoint.committed", run.node)
    /\ Stand("write")
    /\ UNCHANGED <<marks, did, flow, downs>>

\* The writer's row, and the next node; an error of the writer goes to the caller.
WriteMark ==
    /\ run.pc = "write"
    /\ marks' = Append(marks, NewMark)
    /\ run' = [pc |-> IF run.node = Length THEN "last" ELSE "top", node |-> run.node + 1, seq |-> run.seq]
    /\ UNCHANGED <<flog, did, flow, downs>>

Finish ==
    /\ run.pc = "last"
    /\ Log("flow.stopped", Length)
    /\ Stand("over")
    /\ UNCHANGED <<marks, did, flow, downs>>

\* The process dies, or the writer raises.
GoDown ==
    /\ run.pc \notin {"halted", "over"} /\ downs < MaxDowns
    /\ downs' = downs + 1
    /\ run' = Halted
    /\ UNCHANGED <<flog, marks, did, flow>>

-----------------------------------------------------------------------------
FrInit ==
    /\ flog = <<>> /\ marks = <<>> /\ run = Halted
    /\ did = [n \in Chain |-> 0] /\ flow \in Definitions /\ downs = 0

FrNext ==
    \/ FirstStart \/ ResumeRun \/ Redefine \/ CancelledAtTop \/ StartNode \/ Announce \/ Operate
    \/ Confirm \/ OperationFails \/ NodeFails \/ NothingToDo \/ Complete \/ Intend \/ WriteMark
    \/ Finish \/ GoDown

FrSpec == FrInit /\ [][FrNext]_frVars

-----------------------------------------------------------------------------
(* Properties *)

Settled(n) == \A i \in 1..Len(flog) : flog[i] = Entry("operation.started", n) =>
                \E j \in i + 1..Len(flog) :
                    flog[j] \in {Entry("operation.committed", n), Entry("operation.failed", n)}

\* No run goes on by itself while it is unknown whether an operation took effect, and what
\* a checkpoint says is done is never done again, through every crash and resume.
NothingRedone ==
    [][/\ run.pc = "halted" /\ run'.pc = "top" => \A n \in Chain : Settled(n)
       /\ \A i \in 1..Len(marks) : did'[marks[i].done] = did[marks[i].done]]_frVars

\* The nodes of one run all come from the definition its checkpoints were written under.
OneDefinition ==
    run.pc # "halted" => \A i \in 1..Len(marks) : marks[i].def = flow

\* A younger checkpoint has the greater sequence, also when another process wrote it:
\* the greatest one is the last safe boundary.
MarksInOrder ==
    \A i, j \in 1..Len(marks) : i < j => marks[i].seq < marks[j].seq

\* A row in the table of checkpoints has its event and the completion of its node in the
\* log, wherever the process died.
MarksAnnounced ==
    \A i \in 1..Len(marks) :
        /\ Entry("checkpoint.committed", marks[i].done) \in {flog[k] : k \in 1..Len(flog)}
        /\ \E k \in 1..Len(flog) : flog[k] = Entry("node.completed", marks[i].done)

\* "NEVER auto-replay a mutating operation": the operation of a node takes effect once.
OperationOnce == \A n \in Chain : did[n] <= 1

\* Checkpoints are sound: of one definition, in order, and announced before they count.
MarksSound == OneDefinition /\ MarksInOrder /\ MarksAnnounced
=============================================================================
