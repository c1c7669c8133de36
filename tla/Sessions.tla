------------------------------ MODULE Sessions ------------------------------
(***************************************************************************)
(* The durable session of one agent run: the repository over SQLite         *)
(* (src/src/paperclaw/context/repository.py, migrations.py), the session    *)
(* service with its safe resume (session.py), and the tool calls the        *)
(* runtime records in it (harness/agent_runtime_executor.py).               *)
(*                                                                          *)
(* Processes share the database file, each with its own connection and one  *)
(* session object.  An SQLite statement or BEGIN IMMEDIATE .. COMMIT block  *)
(* is one step; what a method reads before its transaction is a step of its *)
(* own, and other processes come in between.                                *)
(***************************************************************************)
EXTENDS Integers, Sequences, FiniteSets

CONSTANTS
    Clients,        \* processes that open the database
    MaxCalls,       \* limits.max_tool_calls of the run
    Ops,            \* ids of operations in the ledger
    LastVersion,    \* the newest schema version
    MaxLog,         \* events of the run
    MaxLives        \* times a process is started again

ASSUME SeAssumption == LastVersion \in Nat /\ MaxCalls \in Nat

VARIABLES
    db,         \* schema version, run, task revision, messages, checkpoints, ledger
    events,     \* session_events of the run: type, idempotency key, index of the tool call
    c,          \* each process: session handle, what it does, what it has read
    effect,     \* history: how often a tool took effect under an index
    first,      \* history: how often the ledger said that an operation is seen for the first time
    lives,
    use         \* what the processes of this behaviour do: tool calls, rows, or entries in the ledger

seVars == <<db, events, c, effect, first, lives, use>>

Idle == "idle"
NoOp == "no op"
NoCall == 0
\* runs: the process is the executor of the run, which counts its tool calls.
Dead == [handle |-> "down", pc |-> Idle, read |-> 0, op |-> NoOp, late |-> FALSE,
         runs |-> FALSE, calls |-> 0]
Event(type, key, call) == [type |-> type, key |-> key, call |-> call]
Known(key) == \E i \in 1..Len(events) : events[i].key = key
Types(call) == {events[i].type : i \in {j \in 1..Len(events) : events[j].call = call}}

Room == Len(events) < MaxLog
Doing(p, pc) == c[p].pc = pc
Free(p) == c[p].handle = "open" /\ Doing(p, Idle)
Go(p, pc) == c' = [c EXCEPT ![p].pc = pc]

\* append_event_with_auto_sequence: an idempotency key the run has already is no error, and
\* nothing is appended.
Append1(type, key) ==
    events' = IF key # "none" /\ Known(key) THEN events
              ELSE Append(events, Event(type, key, NoCall))

\* The events of a tool call carry its index (_tool_event_identity), and no key.
AppendCall(type, call) == events' = Append(events, Event(type, "none", call))

-----------------------------------------------------------------------------
(* Opening the database and the session *)

\* SQLiteRepository.__init__ reads the version, then applies what is missing.
Connect(p) ==
    /\ c[p].handle = "down" /\ lives < MaxLives
    /\ lives' = lives + 1
    /\ c' = [c EXCEPT ![p] = [Dead EXCEPT !.handle = "opening", !.read = db.version]]
    /\ UNCHANGED <<db, events, effect, first, use>>

\* One migration in one transaction.  The row of its version is unique: when another
\* process was first, the transaction is rolled back and the database does not open.
Migrate(p) ==
    /\ c[p].handle = "opening" /\ c[p].read < LastVersion
    /\ IF c[p].read + 1 \in {db.applied[i] : i \in 1..Len(db.applied)}
       THEN c' = [c EXCEPT ![p] = Dead] /\ UNCHANGED db
       ELSE /\ db' = [db EXCEPT !.version = c[p].read + 1, !.applied = Append(@, c[p].read + 1)]
            /\ c' = [c EXCEPT ![p].read = @ + 1]
    /\ UNCHANGED <<events, effect, first, lives, use>>

\* _open_session of the executor starts the run, whose id is new, and runs it; every later
\* session is reopened by an operator and calls no tools.
OpenSession(p) ==
    /\ c[p].handle = "opening" /\ c[p].read = LastVersion
    /\ db' = [db EXCEPT !.run = IF @ = "none" THEN "live" ELSE @]
    /\ c' = [c EXCEPT ![p] = [Dead EXCEPT !.handle = "open", !.runs = db.run = "none"]]
    /\ UNCHANGED <<events, effect, first, lives, use>>

-----------------------------------------------------------------------------
(* Tool calls *)

\* Mutant of ToolStarted: an event the database refuses does not keep the tool from running.
StartUnheard(p) ==
    /\ Free(p) /\ Room /\ use = "tools" /\ c[p].runs /\ c[p].calls < MaxCalls
    /\ \E pc \in {"run", "fail"} : c' = [c EXCEPT ![p].pc = pc, ![p].calls = @ + 1]
    /\ AppendCall("tool.started", c[p].calls + 1) \/ UNCHANGED events
    /\ UNCHANGED <<db, effect, first, lives, use>>

\* _BudgetedTool.validate counts the call and emits tool.started under its index; a
\* validation error ends the call.  When the database refuses the event, safe_execute makes
\* a failed result of the error: the tool does not run, and the loop goes on.
ToolStarted(p) ==
    /\ Free(p) /\ Room /\ use = "tools" /\ c[p].runs /\ c[p].calls < MaxCalls
    /\ \E pc \in {"run", "fail", Idle} :
        /\ c' = [c EXCEPT ![p].pc = pc, ![p].calls = @ + 1]
        /\ IF pc = Idle THEN UNCHANGED events ELSE AppendCall("tool.started", c[p].calls + 1)
    /\ UNCHANGED <<db, effect, first, lives, use>>

\* The budget is spent: a failure without an index, and the run is given up.
BudgetSpent(p) ==
    /\ Free(p) /\ Room /\ use = "tools" /\ c[p].runs /\ c[p].calls = MaxCalls
    /\ AppendCall("tool.failed", NoCall)
    /\ Go(p, "closing")
    /\ UNCHANGED <<db, effect, first, lives, use>>

ToolRuns(p) ==
    /\ Doing(p, "run")
    /\ effect' = [effect EXCEPT ![c[p].calls] = @ + 1]
    /\ \E pc \in {"complete", "fail"} : Go(p, pc)
    /\ UNCHANGED <<db, events, first, lives, use>>

\* tool.failed (or permission.denied, which counts alike) or tool.completed, after the call was
\* refused or the tool has returned or raised; or the database refuses the event, and the
\* loop goes on.
ToolEnds(p) ==
    /\ c[p].pc \in {"complete", "fail"}
    /\ \/ AppendCall(IF c[p].pc = "fail" THEN "tool.failed" ELSE "tool.completed", c[p].calls)
       \/ UNCHANGED events
    /\ Go(p, Idle)
    /\ UNCHANGED <<db, effect, first, lives, use>>

-----------------------------------------------------------------------------
(* The ledger of operations *)

\* record_idempotent_operation: the ledger is looked up, then written in a transaction.
LookUp(p) ==
    /\ Free(p) /\ use = "ledger"
    /\ \E op \in Ops :
        c' = [c EXCEPT ![p].pc = IF op \in db.ledger THEN "seen" ELSE "ledger", ![p].op = op]
    /\ UNCHANGED <<db, events, effect, first, lives, use>>

\* The operation id is the primary key: who comes second gets an error, and no answer.
Record(p) ==
    /\ Doing(p, "ledger")
    /\ IF c[p].op \in db.ledger
       THEN UNCHANGED <<db, first>>
       ELSE /\ db' = [db EXCEPT !.ledger = @ \cup {c[p].op}]
            /\ first' = [first EXCEPT ![c[p].op] = @ + 1]
    /\ c' = [c EXCEPT ![p].pc = Idle, ![p].op = NoOp]
    /\ UNCHANGED <<events, effect, lives, use>>

\* An operation that was recorded before is counted once more, and the caller is to skip it.
SkipSeen(p) ==
    /\ Doing(p, "seen")
    /\ c' = [c EXCEPT ![p].pc = Idle, ![p].op = NoOp]
    /\ UNCHANGED <<db, events, effect, first, lives, use>>

-----------------------------------------------------------------------------
(* Messages, task states and composite steps *)

\* append_message_with_auto_sequence: the greatest sequence is read before the
\* transaction; the sequence is unique, and who comes second gets an error.
ReadMessages(p) ==
    /\ Free(p) /\ db.messages < 2 /\ use = "rows"
    /\ c' = [c EXCEPT ![p].pc = "message", ![p].read = db.messages]
    /\ UNCHANGED <<db, events, effect, first, lives, use>>

InsertMessage(p) ==
    /\ Doing(p, "message")
    /\ db' = IF c[p].read = db.messages THEN [db EXCEPT !.messages = @ + 1] ELSE db
    /\ Go(p, Idle)
    /\ UNCHANGED <<events, effect, first, lives, use>>

\* upsert_task_state: the revision is read and the row written by two statements, in no
\* transaction.
ReadTask(p) ==
    /\ Free(p) /\ db.revision < 2 /\ use = "rows"
    /\ c' = [c EXCEPT ![p].pc = "task", ![p].read = db.revision]
    /\ UNCHANGED <<db, events, effect, first, lives, use>>

WriteTask(p) ==
    /\ Doing(p, "task")
    /\ db' = [db EXCEPT !.revision = c[p].read + 1]
    /\ Go(p, Idle)
    /\ UNCHANGED <<events, effect, first, lives, use>>

\* commit_runtime_step: the caller has taken the sequence from next_sequence.
ReadSequence(p) ==
    /\ Free(p) /\ Room /\ db.checkpoints < 2 /\ use = "rows"
    /\ c' = [c EXCEPT ![p].pc = "step", ![p].read = Len(events) + 1]
    /\ UNCHANGED <<db, events, effect, first, lives, use>>

\* Event, task states, context items, snapshot and checkpoint in one transaction, which
\* the unique sequence of the event rolls back when somebody else has taken it.
CommitStep(p) ==
    /\ Doing(p, "step")
    /\ IF c[p].read = Len(events) + 1
       THEN /\ events' = Append(events, Event("step", "none", NoCall))
            /\ db' = [db EXCEPT !.checkpoints = @ + 1]
       ELSE UNCHANGED <<events, db>>
    /\ Go(p, Idle)
    /\ UNCHANGED <<effect, first, lives, use>>

-----------------------------------------------------------------------------
(* The end of the run, and resume *)

\* Another thread of the process emits through the session: it has passed the look at
\* the closed flag, and appends later.
EmitLate(p) ==
    /\ c[p].handle = "open" /\ ~c[p].late /\ Room /\ use = "rows"
    /\ c' = [c EXCEPT ![p].late = TRUE]
    /\ UNCHANGED <<db, events, effect, first, lives, use>>

AppendLate(p) ==
    /\ c[p].late
    /\ Append1("note", "none")
    /\ c' = [c EXCEPT ![p].late = FALSE]
    /\ UNCHANGED <<db, effect, first, lives, use>>

\* SessionService.close: end_run first, then flow.stopped, whose failure it swallows.
EndRun(p) ==
    /\ (Free(p) /\ Room) \/ Doing(p, "closing")
    /\ c' = [c EXCEPT ![p].handle = "closed", ![p].pc = "stop"]
    /\ db' = [db EXCEPT !.run = "ended"]
    /\ UNCHANGED <<events, effect, first, lives, use>>

EmitStopped(p) ==
    /\ Doing(p, "stop")
    /\ Append1("flow.stopped", "none") \/ UNCHANGED events
    /\ Go(p, Idle)
    /\ UNCHANGED <<db, effect, first, lives, use>>

Started(call) == "tool.started" \in Types(call)
HasResult(call) == Types(call) \cap {"tool.completed", "tool.failed"} # {}
\* reconstruct: calls that have started and have no result.
Ambiguous == {call \in 1..MaxCalls : Started(call) /\ ~HasResult(call)}
StoppedInLog == \E i \in 1..Len(events) : events[i].type = "flow.stopped"

\* resume decides by what it has read and writes what it decided, in events with a key;
\* for a run that is over it writes nothing.
ResumeRead(p) ==
    /\ Free(p) /\ Room /\ use = "tools" /\ events # <<>>
    /\ db.run # "ended" /\ ~StoppedInLog
    /\ c' = [c EXCEPT ![p].pc = "resume", ![p].op = IF Ambiguous # {} THEN "blocked" ELSE "reconstructed"]
    /\ UNCHANGED <<db, events, effect, first, lives, use>>

ResumeEmit(p) ==
    /\ c[p].pc \in {"resume", "resumed"}
    /\ IF Doing(p, "resume") THEN Append1("session.resume.started", "resume-start") /\ Go(p, "resumed")
       ELSE /\ Append1("session.resume", c[p].op)
            /\ c' = [c EXCEPT ![p].pc = Idle, ![p].op = NoOp]
    /\ UNCHANGED <<db, effect, first, lives, use>>

Die(p) ==
    /\ c[p].handle # "down"
    /\ c' = [c EXCEPT ![p] = Dead]
    /\ UNCHANGED <<db, events, effect, first, lives, use>>

SeInit ==
    /\ \E v \in {0, LastVersion} :
        db = [version |-> v, applied |-> [i \in 1..v |-> i], run |-> "none", revision |-> 0,
             messages |-> 0, checkpoints |-> 0, ledger |-> {}]
    /\ events = <<>>
    /\ c = [p \in Clients |-> Dead]
    /\ effect = [call \in 1..MaxCalls |-> 0]
    /\ first = [op \in Ops |-> 0]
    /\ lives = 0
    /\ use \in {"tools", "rows", "ledger"}

SeNext == \E p \in Clients :
    \/ Connect(p) \/ Migrate(p) \/ OpenSession(p)
    \/ ToolStarted(p) \/ BudgetSpent(p) \/ ToolRuns(p) \/ ToolEnds(p)
    \/ LookUp(p) \/ Record(p) \/ SkipSeen(p)
    \/ ReadMessages(p) \/ InsertMessage(p) \/ ReadTask(p) \/ WriteTask(p)
    \/ ReadSequence(p) \/ CommitStep(p)
    \/ EmitLate(p) \/ AppendLate(p) \/ EndRun(p) \/ EmitStopped(p)
    \/ ResumeRead(p) \/ ResumeEmit(p) \/ Die(p)

SeSpec == SeInit /\ [][SeNext]_seVars

-----------------------------------------------------------------------------
(* Properties *)

\* Every schema version is applied once and in order, whichever processes open the
\* database together, and the version is that of the last one.
VersionsOnce ==
    /\ \A i \in 1..Len(db.applied) : db.applied[i] = i
    /\ db.version = Len(db.applied)

\* No two tools run under one index of the log, where the result of one would stand for the
\* other's; and a tool that took effect has its result in the log or is reported as
\* ambiguous: a resume never takes a tool in progress, a crash in one, or a result the
\* database refused, for a completed step.
NothingForgotten ==
    \A call \in 1..MaxCalls :
        /\ effect[call] <= 1
        /\ effect[call] > 0 => HasResult(call) \/ call \in Ambiguous

\* An operation is new to one caller at most, over processes that ask the ledger together.
FirstTimeOnce == \A op \in Ops : first[op] <= 1

\* A step is in the database as a whole: as many checkpoints as step events.
StepsAreWhole ==
    db.checkpoints = Cardinality({i \in 1..Len(events) : events[i].type = "step"})

\* The terminal event is never there before the run is marked ended, so that a crash in
\* close leaves a run that resume does not continue.
EndedBeforeStopped == StoppedInLog => db.run = "ended"

\* An event with an idempotency key is in the log once, over concurrent resumes.
KeyedEventsOnce ==
    \A i, j \in 1..Len(events) :
        i < j /\ events[i].key \in {"resume-start", "blocked", "reconstructed"} =>
            events[i].key # events[j].key

\* The revision of a task state never goes back (upsert_task_state: "Revisions are
\* monotonic").
RevisionsGrow == [][db'.revision >= db.revision]_seVars

\* The log has one terminal event (SessionService.close) and nothing behind it
\* (SessionService.emit).
StoppedIsLast ==
    \A i \in 1..Len(events) : events[i].type = "flow.stopped" => i = Len(events)

\* The database of sessions is sound for any processes that open, write and resume
\* together and die between two transactions.
SessionsSound ==
    /\ VersionsOnce /\ FirstTimeOnce /\ NothingForgotten
    /\ StepsAreWhole /\ EndedBeforeStopped /\ KeyedEventsOnce
=============================================================================
