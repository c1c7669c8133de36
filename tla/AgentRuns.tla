------------------------------ MODULE AgentRuns ------------------------------
(***************************************************************************)
(* One conversation of the agent: QueryEngine (src/src/paperclaw/harness/     *)
(* query_engine.py) gives a submission to AgentRuntimeExecutor, which wraps  *)
(* the model and the tools with budgets and the stop token and runs the      *)
(* graph of agent/flow.py: decide, execute a tool, verify what is claimed,   *)
(* reflect on it.  Another thread asks for the run to be stopped.            *)
(*                                                                          *)
(* Of the history the model keeps what verification reads: the last text      *)
(* written to each path, the step of the last write and the last command     *)
(* that looks relevant.  A text stands for what was written; clean says      *)
(* whether there is anything else in the file.                               *)
(***************************************************************************)
EXTENDS Integers, Sequences, FiniteSets

CONSTANTS
    Paths, Writings,  \* files of the workspace and what may be written to them
    StepLimit, MaxModelCalls, MaxToolCalls,  \* RunLimits
    MaxRounds,        \* max_reflection_rounds
    MaxInvalid,       \* max_invalid_outputs
    MaxSubmits        \* submissions to the conversation

ASSUME ArAssumption == MaxModelCalls \in Nat /\ MaxToolCalls \in Nat

VARIABLES
    eng,      \* QueryEngine: its active run, the record of it and how many were submitted
    token,    \* the stop token: "none" when no run has one, "open" or "set"
    stopper,  \* the thread that stops runs: the run whose stop it has yet to announce, 0 if none
    heard,    \* the lifecycle events as the event handler gets them
    ag,       \* the shared state of the graph
    used,     \* calls counted by the wrappers, those not ended yet, those begun after a stop
    files,    \* the workspace
    report    \* the execution report

arVars == <<eng, token, stopper, heard, ag, used, files, report>>

NoReport == [status |-> "none", reason |-> "none"]
Absent == [text |-> 0, clean |-> TRUE]
Unused == [model |-> 0, tool |-> 0, open |-> {}, late |-> 0]

\* initial_state
Fresh ==
    [at |-> "decide", steps |-> 0, invalid |-> 0, rounds |-> 0, failure |-> {}, same |-> 0, stop |-> "none",
     asks |-> "decide", written |-> [p \in Paths |-> 0], exact |-> {}, lastWrite |-> 0,
     command |-> [step |-> 0, ok |-> FALSE], checked |-> "none", call |-> [tool |-> "none"]]

Log(run, what) == heard' = Append(heard, [run |-> run, what |-> what])
Cancelled == token = "set"
Running(at) == eng.pc = "run" /\ ag.at = at

\* The exceptions and the last state of the executor end in a report.
Reported(status, reason) ==
    /\ report' = [status |-> status, reason |-> reason]
    /\ eng' = [eng EXCEPT !.pc = "terminal", !.status = status]

-----------------------------------------------------------------------------
(* QueryEngine *)

\* submit: one run at a time.
Submit ==
    /\ eng.pc = "idle" /\ eng.submits < MaxSubmits
    /\ eng' = [eng EXCEPT !.pc = "start", !.submits = @ + 1, !.active = TRUE, !.status = "running"]
    /\ token' = "open"
    /\ report' = NoReport
    /\ UNCHANGED <<stopper, heard, ag, used, files>>

BeginRun ==
    /\ eng.pc = "start"
    /\ Log(eng.submits, "started")
    /\ eng' = [eng EXCEPT !.pc = "run"]
    /\ ag' = Fresh /\ used' = Unused
    /\ UNCHANGED <<token, stopper, files, report>>

\* _emit_terminal
EmitTerminal ==
    /\ eng.pc = "terminal"
    /\ Log(eng.submits, "ended")
    /\ eng' = [eng EXCEPT !.pc = "return"]
    /\ UNCHANGED <<token, stopper, ag, used, files, report>>

\* The run is no longer active and its token is dropped.
Close ==
    /\ eng.pc = "return"
    /\ eng' = [eng EXCEPT !.pc = "idle", !.active = FALSE]
    /\ token' = "none"
    /\ UNCHANGED <<stopper, heard, ag, used, files, report>>

\* request_stop takes the token under the lock: the first request is accepted ...
RequestStop ==
    /\ stopper = 0 /\ token = "open"
    /\ token' = "set" /\ stopper' = eng.submits
    /\ UNCHANGED <<eng, heard, ag, used, files, report>>

\* ... and announced after the lock is given back.
AnnounceStop ==
    /\ stopper # 0
    /\ Log(stopper, "stop_requested")
    /\ stopper' = 0
    /\ UNCHANGED <<eng, token, ag, used, files, report>>

-----------------------------------------------------------------------------
(* The graph: deciding *)

\* DecideActionNode.prep, and what post makes of a prep that returns nothing.
Decide ==
    /\ Running("decide")
    /\ IF ag.steps >= StepLimit \/ Cancelled
       THEN LET why == IF ag.steps >= StepLimit THEN (IF ag.stop = "none" THEN "max_steps" ELSE ag.stop) ELSE "cancelled"
            IN /\ ag' = [ag EXCEPT !.stop = why]
               /\ Reported(IF why = "cancelled" THEN "stopped" ELSE "budget_exhausted", why)
       ELSE ag' = [ag EXCEPT !.at = "ask", !.asks = "decide"] /\ UNCHANGED <<eng, report>>
    /\ UNCHANGED <<token, stopper, heard, used, files>>

\* The checks of the two wrappers before a call.
MayCall(count, limit) == ~Cancelled /\ count < limit

\* _BudgetedModel.complete: the checks.
CheckModel ==
    /\ Running("ask")
    /\ IF MayCall(used.model, MaxModelCalls) THEN ag' = [ag EXCEPT !.at = "startModel"] /\ UNCHANGED <<eng, report>>
       ELSE /\ IF Cancelled THEN Reported("stopped", "requested") ELSE Reported("budget_exhausted", "max_model_calls")
            /\ UNCHANGED ag
    /\ UNCHANGED <<token, stopper, heard, used, files>>

Begun(kind) == [used EXCEPT ![kind] = @ + 1, !.open = @ \union {kind}, !.late = @ + (IF Cancelled THEN 1 ELSE 0)]

StartModel ==
    /\ Running("startModel")
    /\ used' = Begun("model")
    /\ ag' = [ag EXCEPT !.at = "model"]
    /\ UNCHANGED <<eng, token, stopper, heard, files, report>>

\* The completed or failed event of a call.
CallEnded(kind, raised) == [used EXCEPT !.open = @ \ {kind}]

\* The provider raises: after an accepted stop that is the run being stopped.
ModelRaises ==
    /\ Running("model")
    /\ used' = CallEnded("model", TRUE)
    /\ IF Cancelled THEN Reported("stopped", "requested") ELSE Reported("failed", "runtime_failed")
    /\ UNCHANGED <<token, stopper, heard, ag, files>>

Answered == Running("model") /\ used' = CallEnded("model", FALSE) /\ UNCHANGED <<token, stopper, heard, files>>

\* DecideActionNode.post for output that does not parse.
InvalidOutput ==
    /\ Answered /\ ag.asks = "decide"
    /\ ag' = [ag EXCEPT !.steps = @ + 1, !.invalid = @ + 1, !.at = "decide",
                        !.stop = IF ag.invalid + 1 >= MaxInvalid THEN "invalid_model_output" ELSE @]
    /\ IF ag.invalid + 1 >= MaxInvalid THEN Reported("failed", "invalid_model_output") ELSE UNCHANGED <<eng, report>>

\* A tool call: a write or an edit of a path, a command that may look relevant, or something that only reads.
ChooseTool ==
    /\ Answered /\ ag.asks = "decide"
    /\ \E tool \in {"file_write", "file_edit", "bash", "file_read"} :
       \E p \in Paths, t \in Writings, relevant \in BOOLEAN :
        /\ tool = "file_edit" => files[p].text # 0
        /\ tool \in {"bash", "file_read"} => p = (CHOOSE q \in Paths : TRUE) /\ t = (CHOOSE w \in Writings : TRUE)
        /\ tool # "bash" => relevant
        /\ ag' = [ag EXCEPT !.steps = @ + 1, !.invalid = 0, !.at = "askTool",
                            !.call = [tool |-> tool, path |-> p, text |-> t, relevant |-> relevant]]
    /\ UNCHANGED <<eng, report>>

\* A proposal to be done.
ProposeDone ==
    /\ Answered /\ ag.asks = "decide"
    /\ ag' = [ag EXCEPT !.steps = @ + 1, !.invalid = 0, !.stop = "done", !.at = "verify"]
    /\ UNCHANGED <<eng, report>>

-----------------------------------------------------------------------------
(* Tools *)

\* _BudgetedTool.validate: the checks.
CheckTool ==
    /\ Running("askTool")
    /\ IF MayCall(used.tool, MaxToolCalls) THEN ag' = [ag EXCEPT !.at = "startTool"] /\ UNCHANGED <<eng, report>>
       ELSE /\ IF Cancelled THEN Reported("stopped", "requested") ELSE Reported("budget_exhausted", "max_tool_calls")
            /\ UNCHANGED ag
    /\ UNCHANGED <<token, stopper, heard, used, files>>

StartTool ==
    /\ Running("startTool")
    /\ used' = Begun("tool")
    /\ ag' = [ag EXCEPT !.at = "tool"]
    /\ UNCHANGED <<eng, token, stopper, heard, files, report>>

\* The history entry of a call, in so far as verification reads it.
Noted(ok) ==
    LET c == ag.call
        write == ok /\ c.tool \in {"file_write", "file_edit"}
    IN [ag EXCEPT !.at = "decide", !.call = [tool |-> "none"],
          !.written = IF write THEN [@ EXCEPT ![c.path] = c.text] ELSE @,
          !.exact = IF ~write THEN @ ELSE IF c.tool = "file_write" THEN @ \union {c.path} ELSE @ \ {c.path},
          !.lastWrite = IF write THEN ag.steps ELSE @,
          !.command = IF c.tool = "bash" /\ c.relevant THEN [step |-> ag.steps, ok |-> ok] ELSE @]

\* What the tool does to the workspace: a command may change any file, or nothing.
Effect ==
    CASE ag.call.tool = "file_write" -> files' = [files EXCEPT ![ag.call.path] = [text |-> ag.call.text, clean |-> TRUE]]
      [] ag.call.tool = "file_edit" -> files' = [files EXCEPT ![ag.call.path] = [text |-> ag.call.text, clean |-> FALSE]]
      [] ag.call.tool = "bash" -> \/ UNCHANGED files
                                  \/ \E p \in Paths : files' = [files EXCEPT ![p] = Absent]
                                  \/ \E p \in Paths : files[p].text # 0 /\ files' = [files EXCEPT ![p].clean = FALSE]
      [] OTHER -> UNCHANGED files

ToolSucceeds ==
    /\ Running("tool")
    /\ used' = CallEnded("tool", FALSE)
    /\ Effect
    /\ ag' = Noted(TRUE)
    /\ UNCHANGED <<eng, token, stopper, heard, report>>

\* A refusal, a failed command or an exception; a command may have had its effect.
ToolFails ==
    /\ Running("tool")
    /\ \E raised \in BOOLEAN :
        /\ used' = CallEnded("tool", raised)
        /\ IF raised /\ Cancelled THEN Reported("stopped", "requested") /\ UNCHANGED ag
           ELSE ag' = Noted(FALSE) /\ UNCHANGED <<eng, report>>
    /\ IF ag.call.tool = "bash" THEN Effect ELSE UNCHANGED files
    /\ UNCHANGED <<token, stopper, heard>>

-----------------------------------------------------------------------------
(* Verification and reflection *)

\* Mutant of Relevant: a command before the last write will do.
RelevantEver == ag.command.step > 0

\* _find_latest_relevant_bash
Relevant == ag.command.step > 0 /\ ag.command.step >= ag.lastWrite

\* The claims of build_verification_plan that a check fails.
Failed ==
    {<<"exists", p>> : p \in {q \in Paths : ag.written[q] # 0 /\ files[q].text = 0}}
        \union {<<"contains", p>> : p \in {q \in Paths : ag.written[q] # 0 /\ files[q].text # ag.written[q]}}
        \union {<<"hash", p>> : p \in {q \in ag.exact : ~(files[q].text = ag.written[q] /\ files[q].clean)}}
        \union (IF ag.lastWrite > 0 /\ ~(Relevant /\ ag.command.ok) THEN {<<"command", 0>>} ELSE {})

\* VerifyDoneProposalNode
VerifyProposal ==
    /\ Running("verify")
    /\ ag' = [ag EXCEPT !.at = "reflect", !.checked = IF Failed = {} THEN "passed" ELSE "failed"]
    /\ UNCHANGED <<eng, token, stopper, heard, used, files, report>>

\* ReflectNode.prep, and post for what it decides by itself: accept, or give up on the rounds or on a failure
\* that repeats; otherwise the model is asked.
Reflect ==
    /\ Running("reflect")
    /\ LET again == IF ag.failure = Failed THEN ag.same + 1 ELSE 1
       IN CASE ag.checked = "passed" -> /\ Reported("completed", "completed_verified")
                                        /\ ag' = [ag EXCEPT !.stop = "completed_verified"]
            [] ag.checked # "passed" /\ ag.rounds + 1 > MaxRounds ->
                   Reported("blocked", "verification_failed") /\ ag' = [ag EXCEPT !.rounds = @ + 1, !.stop = "verification_failed"]
            [] ag.checked # "passed" /\ ag.rounds + 1 <= MaxRounds /\ again >= MaxRounds ->
                   /\ Reported("blocked", "verification_failed")
                   /\ ag' = [ag EXCEPT !.rounds = @ + 1, !.failure = Failed, !.same = again, !.stop = "verification_failed"]
            [] OTHER -> /\ ag' = [ag EXCEPT !.rounds = @ + 1, !.failure = Failed, !.same = again, !.at = "ask", !.asks = "reflect"]
                        /\ UNCHANGED <<eng, report>>
    /\ UNCHANGED <<token, stopper, heard, used, files>>

\* validate_reflection_decision: reflection does not outvote verification.
ValidDecision(d) == d = "accept" => ag.checked = "passed"

\* ReflectNode.post
Reflected ==
    /\ Answered /\ ag.asks = "reflect"
    /\ \E d \in {"accept", "repair", "reverify", "blocked", "unreadable"} :
        IF d = "unreadable" \/ ~ValidDecision(d)
        THEN Reported("failed", "internal_error") /\ ag' = [ag EXCEPT !.stop = "internal_error"]
        ELSE CASE d = "accept" -> Reported("completed", "completed_verified") /\ ag' = [ag EXCEPT !.stop = "completed_verified"]
               [] d = "repair" -> ag' = [ag EXCEPT !.stop = "none", !.at = "decide"] /\ UNCHANGED <<eng, report>>
               [] d = "reverify" -> ag' = [ag EXCEPT !.at = "verify"] /\ UNCHANGED <<eng, report>>
               [] OTHER -> Reported("blocked", "verification_failed") /\ ag' = [ag EXCEPT !.stop = "verification_failed"]

-----------------------------------------------------------------------------

ArInit ==
    /\ eng = [pc |-> "idle", submits |-> 0, active |-> FALSE, status |-> "none"]
    /\ token = "none" /\ stopper = 0 /\ heard = <<>>
    /\ ag = Fresh /\ used = Unused /\ report = NoReport
    /\ files = [p \in Paths |-> Absent]

RunnerStep ==
    \/ BeginRun \/ EmitTerminal \/ Close
    \/ Decide \/ CheckModel \/ StartModel \/ ModelRaises \/ InvalidOutput \/ ChooseTool \/ ProposeDone
    \/ CheckTool \/ StartTool \/ ToolSucceeds \/ ToolFails
    \/ VerifyProposal \/ Reflect \/ Reflected

ArNext == Submit \/ RequestStop \/ AnnounceStop \/ RunnerStep

ArSpec == ArInit /\ [][ArNext]_arVars

-----------------------------------------------------------------------------
(* Properties *)

(* A run completes with the gate only when what it wrote last is in the workspace, exactly where the file *)
(* was written as a whole, and a relevant command succeeded after the last write, whatever later commands *)
(* did to the files and whatever the model answers in reflection.                                          *)
CompletedIsVerified ==
    eng.pc \in {"terminal", "return"} /\ report.status = "completed" =>
        /\ \A p \in Paths : ag.written[p] # 0 => files[p].text = ag.written[p]
        /\ \A p \in ag.exact : files[p].clean
        /\ ag.lastWrite > 0 => ag.command.ok /\ ag.command.step >= ag.lastWrite

(* Every call that was announced has ended in the log when the run is over, and the budgets were kept.     *)
CallsEnd ==
    /\ used.model <= MaxModelCalls /\ used.tool <= MaxToolCalls
    /\ eng.pc \in {"terminal", "return"} => used.open = {}

(* An accepted stop is heard: at most one more call begins, the one whose check was already done.          *)
StopHeard == used.late <= 1

(* The terminal event of a run is its last one (tests/unit/test_query_engine.py: events[-1]).             *)
TerminalLast ==
    \A i, j \in 1..Len(heard) : heard[i].run = heard[j].run /\ heard[i].what = "ended" => j <= i

(* What a run reports is so, however stops, failing calls and later commands fall: completed means      *)
(* verified, every call ended within its budget, and an accepted stop was heard.                          *)
RunSound == CompletedIsVerified /\ CallsEnd /\ StopHeard
=============================================================================
