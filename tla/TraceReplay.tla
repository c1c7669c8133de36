----------------------------- MODULE TraceReplay -----------------------------
(***************************************************************************)
(* What a run leaves behind it and what is later made of it.  The executor    *)
(* (src/src/paperclaw/harness/agent_runtime_executor.py) records the start    *)
(* and the end of each call as durable events of its session and closes it;   *)
(* readers of the same database (trace/reader.py) project the events into a   *)
(* trace, which is inspected, exported (trace/exporter.py), replayed without   *)
(* acting (replay/recorded.py), evaluated (eval/trace_eval.py) and taken as    *)
(* the source of a new run (replay/live.py).                                 *)
(*                                                                          *)
(* A write of the database may fail; what the exception does depends on       *)
(* where it is raised: around the model it fails the run, within a tool       *)
(* safe_execute turns it into an observation.  The process may die.           *)
(***************************************************************************)
EXTENDS Integers, Sequences, FiniteSets
LOCAL INSTANCE SequencesExt

CONSTANTS
    ModelCap, ToolCap,  \* max_model_calls and max_tool_calls of RunLimits
    WriteFaults         \* writes that may fail

VARIABLES
    recorder,  \* the executor and its session: where it is, calls counted, its report
    recorded,  \* the durable events of the run
    stopping,  \* the stop token is set
    faults,    \* writes that failed
    exporter,  \* an export: where it is and the lines in its temporary file
    exported,  \* the file it writes
    plan       \* the live replay that was admitted

trVars == <<recorder, recorded, stopping, faults, exporter, exported, plan>>

TraceEvent(type, call, code) == [type |-> type, call |-> call, code |-> code]
ReportOf(status, reason) == [status |-> status, reason |-> reason]
Pending == ReportOf("none", "none")

StopReasons == {"completed_verified", "verification_failed", "max_steps", "max_model_calls", "max_tool_calls",
                "user_requested", "runtime_failed", "internal_error"}

EndTypes(kind) == IF kind = "model" THEN {"model.completed", "model.failed"}
              ELSE {"tool.completed", "tool.failed", "permission.denied"}

-----------------------------------------------------------------------------
(* Recording *)

\* runtime_emit and SessionService.emit: the event is written, and what follows is done ...
Emitted(e) == recorded' = Append(recorded, e) /\ UNCHANGED faults
\* ... or the write raises.
EmitRaises == faults < WriteFaults /\ faults' = faults + 1 /\ UNCHANGED recorded

Goto(pc) == recorder' = [recorder EXCEPT !.pc = pc]
\* execute turns the way the run ended into a report.
Finished(status, reason) == recorder' = [recorder EXCEPT !.pc = "message", !.report = ReportOf(status, reason)]
Observers == UNCHANGED <<exporter, exported, plan>>

\* _open_session: a failure leaves execute, and QueryEngine reports executor_failed by itself.
OpenRecorder ==
    /\ recorder.pc = "new"
    /\ \/ Emitted(TraceEvent("run.started", 0, "none")) /\ Goto("decide")
       \/ EmitRaises /\ Goto("left")
    /\ UNCHANGED stopping /\ Observers

\* _BudgetedModel.complete before the call.
BeginModel ==
    /\ recorder.pc = "decide" /\ ~stopping
    /\ LET call == recorder.models + 1
       IN IF recorder.models >= ModelCap
          THEN \/ /\ Emitted(TraceEvent("model.failed", 0, "MODEL_BUDGET_EXHAUSTED"))
                  /\ Finished("budget_exhausted", "max_model_calls")
               \/ EmitRaises /\ Finished("failed", "runtime_failed")
          ELSE \/ /\ Emitted(TraceEvent("model.started", call, "none"))
                  /\ recorder' = [recorder EXCEPT !.pc = "model", !.models = call]
               \/ /\ EmitRaises
                  /\ recorder' = [recorder EXCEPT !.pc = "message", !.models = call,
                                                  !.report = ReportOf("failed", "runtime_failed")]
    /\ UNCHANGED stopping /\ Observers

\* _BudgetedModel.complete after it.  Only a failure that was recorded can be taken for a cancellation.
EndModel ==
    /\ recorder.pc = "model"
    /\ \/ Emitted(TraceEvent("model.completed", recorder.models, "none")) /\ Goto("answered")
       \/ /\ Emitted(TraceEvent("model.failed", recorder.models, "MODEL_CALL_FAILED"))
          /\ IF stopping THEN Finished("stopped", "user_requested") ELSE Finished("failed", "runtime_failed")
       \/ EmitRaises /\ Finished("failed", "runtime_failed")
    /\ UNCHANGED stopping /\ Observers

\* What the graph does with an answer: it ends the run, goes on, or calls a tool.
UseAnswer ==
    /\ recorder.pc = "answered"
    /\ \/ Finished("completed", "completed_verified")
       \/ Finished("blocked", "verification_failed")
       \/ Finished("failed", "internal_error")
       \/ Goto("decide")
       \/ Goto("ask")
    /\ UNCHANGED <<recorded, faults, stopping>> /\ Observers

\* The step limit ends a run between two calls.
StepsExhausted ==
    /\ recorder.pc = "decide"
    /\ Finished("budget_exhausted", "max_steps")
    /\ UNCHANGED <<recorded, faults, stopping>> /\ Observers

\* The stop is noticed before a call: of the model in complete, of a tool in validate.
Stopped ==
    /\ recorder.pc \in {"decide", "ask"} /\ stopping
    /\ Finished("stopped", "user_requested")
    /\ UNCHANGED <<recorded, faults, stopping>> /\ Observers

\* _BudgetedTool.validate up to the start of a call.
BeginTool ==
    /\ recorder.pc = "ask" /\ ~stopping
    /\ LET call == recorder.tools + 1
       IN IF recorder.tools >= ToolCap
          THEN \/ /\ Emitted(TraceEvent("tool.failed", 0, "TOOL_BUDGET_EXHAUSTED"))
                  /\ Finished("budget_exhausted", "max_tool_calls")
               \/ EmitRaises /\ Goto("decide")
          ELSE \/ /\ Emitted(TraceEvent("tool.started", call, "none"))
                  /\ recorder' = [recorder EXCEPT !.pc = "tool", !.tools = call]
               \/ EmitRaises /\ recorder' = [recorder EXCEPT !.pc = "decide", !.tools = call]
    /\ UNCHANGED stopping /\ Observers

\* Mutant of EndTool: the ends of tool calls carry no index.
EndsNameless ==
    /\ recorder.pc = "tool"
    /\ \/ \E type \in EndTypes("tool") :
            /\ Emitted(TraceEvent(type, 0, IF type = "tool.completed" THEN "none" ELSE "TOOL_FAILED"))
            /\ Goto("decide")
       \/ EmitRaises /\ Goto("decide")
    /\ UNCHANGED stopping /\ Observers

\* The end of a call, from the validation (refused or failed) or from the execution.
EndTool ==
    /\ recorder.pc = "tool"
    /\ \/ \E type \in EndTypes("tool") :
            LET code == IF type = "tool.completed" THEN "none" ELSE "TOOL_FAILED"
            IN /\ Emitted(TraceEvent(type, recorder.tools, code))
               /\ \/ Goto("decide")
                  \/ stopping /\ type = "tool.failed" /\ Finished("stopped", "user_requested")
       \/ EmitRaises /\ Goto("decide")
    /\ UNCHANGED stopping /\ Observers

\* _finish_session writes the answer ...
WriteAnswer ==
    /\ recorder.pc = "message"
    /\ \/ Goto("end") /\ UNCHANGED faults
       \/ faults < WriteFaults /\ faults' = faults + 1 /\ Goto("left")
    /\ UNCHANGED <<recorded, stopping>> /\ Observers

\* ... and SessionService.close ends the run ...
CloseRun ==
    /\ recorder.pc = "end"
    /\ \/ recorder' = [recorder EXCEPT !.pc = "stop", !.ended = TRUE] /\ UNCHANGED faults
       \/ faults < WriteFaults /\ faults' = faults + 1 /\ Goto("left")
    /\ UNCHANGED <<recorded, stopping>> /\ Observers

\* ... and emits the last event, whose failure it swallows.
WriteFlowStopped ==
    /\ recorder.pc = "stop"
    /\ \/ Emitted(TraceEvent("flow.stopped", 0, recorder.report.reason))
       \/ EmitRaises
    /\ Goto("closed")
    /\ UNCHANGED stopping /\ Observers

Recording == recorder.pc \notin {"closed", "left", "dead"}

RequestStopOfRun ==
    /\ Recording /\ recorder.pc # "new" /\ ~stopping
    /\ stopping' = TRUE
    /\ UNCHANGED <<recorder, recorded, faults>> /\ Observers

Dies == Recording /\ Goto("dead") /\ UNCHANGED <<recorded, stopping, faults>> /\ Observers

-----------------------------------------------------------------------------
(* Reading *)

TerminalTypes == {"run.completed", "run.failed", "run.stopped", "run.cancelled"}

\* Mutant of TerminalOf: whatever did not fail has completed.
Optimistic(reason) == IF reason \in {"runtime_failed", "internal_error"} THEN "run.failed" ELSE "run.completed"

\* _canonicalize_event: the terminal event a reason of flow.stopped stands for.
TerminalOf(reason) ==
    CASE reason \in {"done", "completed_verified"} -> "run.completed"
      [] reason \in {"runtime_failed", "executor_failed", "executor_contract_violation", "invalid_terminal_state",
                     "verification_failed"} -> "run.failed"   \* the last one by its ending
      [] OTHER -> "run.stopped"

\* project_session_event
Projected(e) == IF e.type = "flow.stopped" THEN TraceEvent(TerminalOf(e.code), 0, "none") ELSE e

TraceOf(events) == [i \in DOMAIN events |-> Projected(events[i])]

\* validate_trace: at most one terminal event and nothing after it (the sequences are those of the repository).
ValidTrace(trace) == \A i \in DOMAIN trace : trace[i].type \in TerminalTypes => i = Len(trace)
HasTerminal(trace) == \E i \in DOMAIN trace : trace[i].type \in TerminalTypes

\* SQLiteTraceReader.get_run_trace
CanRead(trace, requireTerminal) == ValidTrace(trace) /\ (requireTerminal => HasTerminal(trace))

-----------------------------------------------------------------------------
(* Recorded replay *)

\* _start_call; a call is the index it was given and the place of its start.
StartCall(state, e, at, kind) ==
    [state EXCEPT ![kind] = @ \union {[call |-> e.call, at |-> at]},
                  !.errors = IF \E c \in state[kind] : c.call = e.call THEN @ \union {<<"duplicate", at>>} ELSE @]

\* _finish_call: by its index; an end without one closes the oldest call; a budget fails before any start.
FinishCall(state, e, at, kind) ==
    LET named == {c \in state[kind] : e.call # 0 /\ c.call = e.call}
        oldest == {c \in state[kind] : \A d \in state[kind] : c.at <= d.at}
    IN CASE named # {} -> [state EXCEPT ![kind] = @ \ named]
         [] named = {} /\ e.call = 0 /\ state[kind] # {} -> [state EXCEPT ![kind] = @ \ oldest]
         [] named = {} /\ (e.call # 0 \/ state[kind] = {}) /\ e.code \in {"MODEL_BUDGET_EXHAUSTED", "TOOL_BUDGET_EXHAUSTED"} -> state
         [] OTHER -> [state EXCEPT !.errors = @ \union {<<"unmatched", at>>}]

\* The body of the loop over the events; calls open at the terminal are errors.
Applied(state, e) ==
    LET at == state.applied + 1
        next == CASE e.type \in {"model.started", "tool.started"} ->
                       StartCall(state, e, at, IF e.type = "model.started" THEN "model" ELSE "tool")
                  [] e.type \in EndTypes("model") -> FinishCall(state, e, at, "model")
                  [] e.type \in EndTypes("tool") -> FinishCall(state, e, at, "tool")
                  [] OTHER -> state
        left == {k \in {"model", "tool"} : e.type \in TerminalTypes /\ next[k] # {}}
    IN [next EXCEPT !.applied = at, !.errors = @ \union {<<k, at>> : k \in left},
                    !.terminal = IF e.type \in TerminalTypes THEN e.type ELSE @]

\* Mutant of Replay: calls open at the end are not looked at.
ReplayCalls(trace) ==
    LET start == [model |-> {}, tool |-> {}, errors |-> {}, terminal |-> "none", applied |-> 0]
        end == FoldLeft(Applied, start, trace)
    IN [end EXCEPT !.errors = {x \in @ : x[1] \in {"duplicate", "unmatched"}}]

\* replay_recorded_trace
Replay(trace) ==
    FoldLeft(Applied, [model |-> {}, tool |-> {}, errors |-> {}, terminal |-> "none", applied |-> 0], trace)

Faithful(trace) == Replay(trace).errors = {}

\* inspect_run_trace: what a trace says was called.
Called(trace, kind) == Cardinality({i \in DOMAIN trace : trace[i].type = kind \o ".started"})

\* evaluate_trace with the thresholds that decide by the outcome: completion, and the default, faithfulness.
EvalPasses(trace, requireCompleted) ==
    /\ CanRead(trace, TRUE)
    /\ requireCompleted => Replay(trace).terminal = "run.completed"
    /\ Faithful(trace)

-----------------------------------------------------------------------------
(* Live replay and export *)

\* prepare_live_replay with the policy's defaults, after its switch, its confirmation and its tools; what it
\* has read then is what execute_live_replay runs from.
PrepareLiveReplay ==
    /\ plan = <<>>
    /\ LET trace == TraceOf(recorded)
       IN /\ CanRead(trace, TRUE)
          /\ Faithful(trace) /\ Replay(trace).terminal = "run.completed"
          /\ plan' = trace
    /\ UNCHANGED <<recorder, recorded, stopping, faults, exporter, exported>>

\* Mutant of ExportReads: the export writes into its target.
ExportInPlace ==
    /\ exporter.pc = "idle"
    /\ exporter' = [pc |-> "written", lines |-> TraceOf(recorded)]
    /\ exported' = SubSeq(TraceOf(recorded), 2, Len(recorded))
    /\ UNCHANGED <<recorder, recorded, stopping, faults, plan>>

\* export_trace_jsonl reads the trace of a run, which may still be at work, and writes a file beside its target ...
ExportReads ==
    /\ exporter.pc = "idle" /\ CanRead(TraceOf(recorded), FALSE)
    /\ exporter' = [pc |-> "written", lines |-> TraceOf(recorded)]
    /\ UNCHANGED <<recorder, recorded, stopping, faults, exported, plan>>

\* ... which replaces it, or is removed.
ExportReplaces ==
    /\ exporter.pc = "written"
    /\ \/ exported' = exporter.lines
       \/ UNCHANGED exported
    /\ exporter' = [pc |-> "done", lines |-> <<>>]
    /\ UNCHANGED <<recorder, recorded, stopping, faults, plan>>

-----------------------------------------------------------------------------

TrInit ==
    /\ recorder = [pc |-> "new", models |-> 0, tools |-> 0, ended |-> FALSE, report |-> Pending]
    /\ recorded = <<>> /\ stopping = FALSE /\ faults = 0
    /\ exporter = [pc |-> "idle", lines |-> <<>>] /\ exported = <<>> /\ plan = <<>>

TrNext ==
    \/ OpenRecorder \/ BeginModel \/ EndModel \/ UseAnswer \/ StepsExhausted \/ Stopped \/ BeginTool \/ EndTool
    \/ WriteAnswer \/ CloseRun \/ WriteFlowStopped \/ RequestStopOfRun \/ Dies
    \/ PrepareLiveReplay \/ ExportReads \/ ExportReplaces

TrSpec == TrInit /\ [][TrNext]_trVars

-----------------------------------------------------------------------------
(* Properties *)

TraceTypeOK ==
    /\ recorder.models \in 0..ModelCap /\ recorder.tools \in 0..ToolCap /\ recorder.ended \in BOOLEAN
    /\ recorder.report = Pending \/ recorder.report.reason \in StopReasons
    /\ faults \in 0..WriteFaults /\ stopping \in BOOLEAN

Now == TraceOf(recorded)

\* The starts of the trace whose own end it does not hold.
Unended(trace) ==
    {i \in DOMAIN trace : /\ trace[i].type \in {"model.started", "tool.started"}
                          /\ ~\E j \in DOMAIN trace :
                                /\ j > i /\ trace[j].call = trace[i].call
                                /\ trace[j].type \in EndTypes(IF trace[i].type = "model.started" THEN "model" ELSE "tool")}

(* At every moment of a run its trace can be read; a terminal event is there only when the run was ended,   *)
(* and it says completed exactly when the executor reported that.                                          *)
TerminalIsReport ==
    /\ CanRead(Now, FALSE)
    /\ HasTerminal(Now) =>
         /\ recorder.ended /\ recorder.pc = "closed"
         /\ (Replay(Now).terminal = "run.completed") <=> (recorder.report.status = "completed")

(* A run whose writes all succeeded, and which was closed, replays faithfully and says how many calls it    *)
(* was charged; a faithful replay of a whole trace holds the end of each call, unless the run ended on its   *)
(* tool budget, whose event names no call and closes the oldest one.                                        *)
FaithfulMeansEnded ==
    /\ recorder.pc = "closed" /\ faults = 0 =>
         /\ HasTerminal(Now) /\ Faithful(Now)
         /\ Called(Now, "model") = recorder.models /\ Called(Now, "tool") = recorder.tools
    /\ HasTerminal(Now) /\ Faithful(Now) /\ recorder.report.reason # "max_tool_calls" => Unended(Now) = {}

(* A run is replayed live, and evaluated as completed, only if it was closed as completed with the end of     *)
(* each of its calls on record, and what was read of it remains its trace.                                   *)
LiveSourceIsWhole ==
    /\ plan # <<>> => plan = Now
    /\ plan # <<>> \/ EvalPasses(Now, TRUE) => recorder.report.status = "completed" /\ Unended(Now) = {}

(* An exported file is a trace that can be loaded, and what the run had recorded at some moment.            *)
ExportIsPrefix == ValidTrace(exported) /\ IsPrefix(exported, Now)

(* What is later read, replayed, evaluated or exported of a run is what the run did, whichever of its        *)
(* writes failed, whenever it was stopped or died.                                                         *)
TraceSound == TraceTypeOK /\ TerminalIsReport /\ FaithfulMeansEnded /\ LiveSourceIsWhole /\ ExportIsPrefix
=============================================================================
