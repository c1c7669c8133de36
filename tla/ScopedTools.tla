----------------------------- MODULE ScopedTools -----------------------------
(***************************************************************************)
(* What a worker's tools do to the files of the workspace: the scoped tools *)
(* (src/src/paperclaw/multiagent/scoped_tools.py) with the permission guard *)
(* (permissions.py), the analysis of shell commands (bash_analyzer.py), the *)
(* leases (lease.py), and the start, the end and the cancellation of a      *)
(* worker (worker.py).                                                      *)
(*                                                                          *)
(* Each task has one worker thread, which calls one tool at a time; threads *)
(* interleave between the steps of a call.  A hash matters only by whether  *)
(* the file still has it: "fresh" until the next write, "stale" afterwards. *)
(***************************************************************************)
EXTENDS Integers, FiniteSets

CONSTANTS
    Workers,         \* tasks, each with its worker
    Files,
    Writable,        \* writable_paths of each task
    Menu,            \* the commands and edits each worker may ask for
    FullScope,       \* tasks whose writable_paths are the whole workspace
    MaxCalls,        \* the calls of each worker
    MaxEdits         \* edits by somebody outside the team

VARIABLES
    file,      \* each file: whether it exists, and who wrote it
    leased,    \* LeaseManager._leases
    seen,      \* the hash a worker has of each file: never read, fresh or stale
    w,         \* each worker: phase of its call, the call, hard failures, status
    ledger,    \* its idempotency ledger, for one key
    stop,      \* workers whose cancel event is set
    edits,     \* edits made from outside
    ran        \* history: how often a worker ran the call that has the key

wsVars == <<file, leased, seen, w, ledger, stop, edits, ran>>

Nobody == "nobody"
NoCall == [kind |-> "none", targets |-> {}, hash |-> "none", keyed |-> FALSE]
HardErrors == {"scope_violation", "lease_conflict", "cas_conflict", "cas_missing"}

Kept(error) == IF error \in HardErrors THEN "refused" ELSE "result"

\* The call is over with this error code; the ledger keeps the result of a keyed one.
CallOver(t, error) ==
    [w EXCEPT ![t] = [w[t] EXCEPT !.pc = "idle", !.calls = @ + 1, !.hard = @ \/ error \in HardErrors,
                                  !.call = NoCall, !.wrote = {}]]
Recorded(t, error) == [ledger EXCEPT ![t] = IF w[t].call.keyed THEN Kept(error) ELSE @]
Over(t, error) == w' = CallOver(t, error) /\ ledger' = Recorded(t, error)

\* A write, which goes with the change of the workers to ws.
WriteFile(f, who, ws) ==
    /\ file' = [file EXCEPT ![f] = [exists |-> TRUE, by |-> who]]
    /\ seen' = [t \in Workers |-> [seen[t] EXCEPT ![f] = IF @ = "fresh" THEN "stale" ELSE @]]
    /\ w' = [t \in Workers |->
                IF f \in ws[t].call.targets /\ ws[t].call.hash = "fresh"
                THEN [ws[t] EXCEPT !.call.hash = "stale"] ELSE ws[t]]

-----------------------------------------------------------------------------
(* Calls *)

\* What the model asks for: a command as analyze_bash_command classifies it ("dangerous",
\* "unknown", or "shell" with the targets it names, none when they could not be
\* extracted), or an edit of one file; keyed when it carries the idempotency key.
IsEdit(c) == c.kind \in {"file_write", "file_edit"}

\* Names that stand for others are no workers; a worker asks for calls of these kinds,
\* and an edit names one file.
ASSUME WsAssumption ==
    /\ {Nobody, "outside", "unchecked"} \cap Workers = {}
    /\ MaxCalls \in [Workers -> Nat]
    /\ \A t \in Workers : Menu[t] \subseteq
           [kind : {"dangerous", "unknown", "shell", "file_write", "file_edit"},
            targets : SUBSET Files, keyed : BOOLEAN]
    /\ \A t \in Workers : \A c \in Menu[t] : IsEdit(c) => \E f \in Files : c.targets = {f}

\* file_read.  It matters only for a file the worker may edit, and when it is news.
ReadFile(t, f) ==
    /\ w[t].pc = "idle" /\ w[t].calls < MaxCalls[t] /\ w[t].status = "none"
    /\ seen[t][f] # "fresh" /\ file[f].exists
    /\ \E c \in Menu[t] : IsEdit(c) /\ f \in c.targets
    /\ seen' = [seen EXCEPT ![t][f] = "fresh"]
    /\ UNCHANGED <<file, leased, w, ledger, stop, edits, ran>>

\* PermissionGuardLite.check, and what the shell tool decides by classification.
Allowed(t, c) ==
    CASE IsEdit(c) -> c.targets \subseteq Writable[t]
      [] c.kind = "dangerous" -> FALSE
      [] c.kind = "unknown" -> t \in FullScope
      [] c.kind = "shell" -> c.targets # {}
      [] OTHER -> TRUE

\* _idempotent_execute finds the key in the ledger of the worker.
Replayed(t) == ledger[t] # "empty"

\* The hash of an edit: the one its worker has read, none, or the sentinel of a new file.
Hashes(t, c) ==
    IF IsEdit(c) THEN {"none", "new"} \cup ({seen[t][f] : f \in c.targets} \ {"never"})
    ELSE {"none"}

\* The model asks for a call, with the idempotency key or without.
Ask(t) ==
    /\ w[t].pc = "idle" /\ w[t].calls < MaxCalls[t] /\ w[t].status = "none"
    /\ \E c \in Menu[t] : \E hash \in Hashes(t, c) :
        LET call == [kind |-> c.kind, targets |-> c.targets, hash |-> hash, keyed |-> c.keyed]
        IN  IF c.keyed /\ Replayed(t)
            THEN /\ \E error \in HardErrors \cup {"none"} :
                        Kept(error) = ledger[t] /\ w' = CallOver(t, error)
                 /\ UNCHANGED <<ledger, ran>>
            ELSE /\ ran' = [ran EXCEPT ![t] = IF c.keyed THEN @ + 1 ELSE @]
                 /\ IF Allowed(t, c)
                    THEN w' = [w EXCEPT ![t].call = call, ![t].pc = "lease"] /\ UNCHANGED ledger
                    ELSE LET error == IF c.kind = "dangerous" THEN "dangerous_command"
                                      ELSE "scope_violation"
                         IN  /\ w' = CallOver(t, error)
                             /\ ledger' = [ledger EXCEPT ![t] = IF c.keyed THEN Kept(error) ELSE @]
    /\ UNCHANGED <<file, leased, seen, stop, edits>>

\* Mutant of Acquire: only the first target of a command is leased.
AcquireOne(t) ==
    /\ w[t].pc = "lease"
    /\ \E f \in w[t].call.targets : leased[f] = Nobody /\ leased' = [leased EXCEPT ![f] = t]
    /\ w' = [w EXCEPT ![t].pc = IF w[t].call.kind = "shell" THEN "spawn" ELSE "verify"]
    /\ UNCHANGED <<file, seen, ledger, stop, edits, ran>>

\* For one target after the other: the scope of a command, then LeaseManager.acquire; a
\* task keeps what it has.  A refusal ends the call, the leases taken before it stay.
Acquire(t) ==
    /\ w[t].pc = "lease"
    /\ LET missing == {f \in w[t].call.targets : leased[f] # t}
       IN  IF missing = {}
           THEN /\ w' = [w EXCEPT ![t].pc =
                            IF IsEdit(w[t].call) THEN "verify" ELSE "spawn"]
                /\ UNCHANGED <<leased, ledger>>
           ELSE \E f \in missing :
                IF f \notin Writable[t] THEN Over(t, "scope_violation") /\ UNCHANGED leased
                ELSE IF leased[f] = Nobody
                THEN leased' = [leased EXCEPT ![f] = t] /\ UNCHANGED <<w, ledger>>
                ELSE Over(t, "lease_conflict") /\ UNCHANGED leased
    /\ UNCHANGED <<file, seen, stop, edits, ran>>

\* The compare-and-swap of file_write and file_edit.  A file that exists needs the hash
\* it was read with; the sentinel of a new file skips the comparison.
HashError(kind, exists, hash) ==
    CASE ~exists /\ kind = "file_edit" -> "not_found"
      [] ~exists /\ kind = "file_write" -> IF hash \in {"none", "new"} THEN "none" ELSE "cas_missing"
      [] exists /\ hash = "none" -> "cas_missing"
      [] exists /\ hash = "new" /\ kind = "file_write" -> "none"
      [] OTHER -> IF hash = "fresh" THEN "none" ELSE "cas_conflict"

Verify(t) ==
    /\ w[t].pc = "verify"
    /\ \E f \in w[t].call.targets :
        LET error == HashError(w[t].call.kind, file[f].exists, w[t].call.hash)
        IN  IF error = "none"
            THEN \/ w' = [w EXCEPT ![t].pc = "replace"] /\ UNCHANGED ledger
                 \/ w[t].call.kind = "file_edit" /\ Over(t, "conflict")
            ELSE Over(t, error)
    /\ UNCHANGED <<file, leased, seen, stop, edits, ran>>

\* The temporary file replaces the file, or could not be written.
Replace(t) ==
    /\ w[t].pc = "replace"
    /\ \/ /\ \E f \in w[t].call.targets : WriteFile(f, t, CallOver(t, "none"))
          /\ ledger' = Recorded(t, "none")
       \/ Over(t, "internal_error") /\ UNCHANGED <<file, seen>>
    /\ UNCHANGED <<leased, stop, edits, ran>>

\* The shell process starts, and is then registered for cancellation.
Register(t) ==
    /\ w[t].pc = "spawn"
    /\ w' = [w EXCEPT ![t].pc = "shell"]
    /\ UNCHANGED <<file, leased, seen, ledger, stop, edits, ran>>

\* A running process writes its targets, each once here; one nobody could
\* analyse writes anything.
ShellWrites(t) ==
    /\ w[t].pc \in {"spawn", "shell"}
    /\ \E f \in (IF w[t].call.kind = "unknown" THEN Files ELSE w[t].call.targets) \ w[t].wrote :
        /\ WriteFile(f, IF w[t].call.kind = "unknown" THEN "unchecked" ELSE t,
                     [w EXCEPT ![t].wrote = @ \cup {f}])
    /\ UNCHANGED <<leased, ledger, stop, edits, ran>>

\* It returns, fails, or runs out of time and is killed.
ShellEnds(t) ==
    /\ w[t].pc = "shell"
    /\ \E error \in {"none", "command_failed", "unknown_outcome"} : Over(t, error)
    /\ UNCHANGED <<file, leased, seen, stop, edits, ran>>

-----------------------------------------------------------------------------
(* Cancellation, the end of a worker, and others *)

\* Worker.cancel sets the event and kills the processes that are registered.
CancelWorker(t) ==
    /\ w[t].status = "none" /\ t \notin stop
    /\ stop' = stop \cup {t}
    /\ IF w[t].pc = "shell" THEN Over(t, "command_failed") ELSE UNCHANGED <<w, ledger>>
    /\ UNCHANGED <<file, leased, seen, edits, ran>>

\* Mutant of WorkerStatus: the proposal of the model decides.
WorkerStatusSays(t) == IF t \in stop THEN "cancelled" ELSE "completed"

\* _derive_worker_status: refused calls weigh more than a proposal of success.
WorkerStatus(t) ==
    IF t \in stop THEN "cancelled" ELSE IF w[t].hard THEN "failed" ELSE "completed"

\* Between two calls the runtime ends: it was cancelled, proposes success, or gave up
\* (failed, which stands for blocked as well);
\* then every lease of the task is released.
WorkerEnds(t) ==
    /\ w[t].pc = "idle" /\ w[t].status = "none"
    /\ \E st \in {WorkerStatus(t), "failed"} :
        w' = [w EXCEPT ![t].status = st, ![t].pc = "ended"]
    /\ leased' = [f \in Files |-> IF leased[f] = t THEN Nobody ELSE leased[f]]
    /\ UNCHANGED <<file, seen, ledger, stop, edits, ran>>

\* An edit by somebody else matters only when a worker has read the file.
OutsideEdit(f) ==
    /\ edits < MaxEdits
    /\ \E t \in Workers : seen[t][f] = "fresh" \/ w[t].call.hash = "fresh"
    /\ WriteFile(f, "outside", w)
    /\ edits' = edits + 1
    /\ UNCHANGED <<leased, ledger, stop, ran>>

WsInit ==
    /\ \E there \in {{}, Files} :
        file = [f \in Files |-> [exists |-> f \in there, by |-> "outside"]]
    /\ leased = [f \in Files |-> Nobody]
    /\ seen = [t \in Workers |-> [f \in Files |-> "never"]]
    /\ w = [t \in Workers |-> [pc |-> "idle", call |-> NoCall, calls |-> 0,
                               hard |-> FALSE, status |-> "none", wrote |-> {}]]
    /\ ledger = [t \in Workers |-> "empty"]
    /\ stop = {} /\ edits = 0
    /\ ran = [t \in Workers |-> 0]

ToolStep(t) ==
    \/ Acquire(t) \/ Verify(t) \/ Replace(t) \/ Register(t) \/ ShellEnds(t) \/ WorkerEnds(t)

WsNext ==
    \/ \E t \in Workers :
        \/ ToolStep(t) \/ Ask(t) \/ ShellWrites(t) \/ CancelWorker(t)
        \/ \E f \in Files : ReadFile(t, f)
    \/ \E f \in Files : OutsideEdit(f)

WsSpec == WsInit /\ [][WsNext]_wsVars

-----------------------------------------------------------------------------
(* Properties *)

\* Leases name tasks, a call in progress is one that was asked.
WsTypeOK ==
    /\ \A f \in Files : file[f].exists \in BOOLEAN /\ leased[f] \in Workers \cup {Nobody}
    /\ \A t \in Workers :
        /\ w[t].pc \in {"idle", "lease", "verify", "replace", "spawn", "shell", "ended"}
        /\ w[t].pc \in {"idle", "ended"} <=> w[t].call = NoCall
        /\ w[t].calls \in 0..MaxCalls[t]
        /\ w[t].status \in {"none", "completed", "failed", "cancelled"}

Tracked == Workers
Replaces(t, f) == w[t].pc = "replace" /\ f \in w[t].call.targets /\ file'[f].by = t
                  /\ w'[t].pc = "idle"

\* What a tool replaces is what its worker had read, or came from outside the team or
\* from a command that nobody could analyse.
LostNothing(t, f) == Replaces(t, f) /\ w[t].call.hash = "stale" => file[f].by \notin Tracked

\* A worker with restricted paths never changes another file, by no tool.
InScope(f) ==
    \/ \E t \in Workers : f \in Writable[t] /\ file'[f].by = t
    \/ file'[f].by = "outside"
    \/ \E t \in FullScope : w[t].call.kind = "unknown" /\ file'[f].by = "unchecked"

\* No write of one worker is lost to another one or leaves its scope, and every write of a
\* tool, and of a process that is cancelled or past its time, falls while its task holds
\* the lease of the file.
WritesAreSafe ==
    [][\A f \in Files : file'[f] # file[f] =>
          /\ InScope(f)
          /\ \A t \in Workers : LostNothing(t, f) /\ (file'[f].by = t => leased[f] = t)]_wsVars

\* A file that exists is replaced only by a worker that has read it.
NoBlindWrite ==
    [][\A t \in Workers, f \in Files :
        Replaces(t, f) =>
            \/ ~file[f].exists
            \/ w[t].call.hash \in {"fresh", "stale"}
            \/ file[f].by \notin Tracked]_wsVars

\* A call with a key takes effect once, whatever became of it.
KeyedOnce == \A t \in Workers : ran[t] <= 1

\* A worker that was refused a file does not report success.
NoPaperedRefusal ==
    \A t \in Workers : w[t].status = "completed" => ~w[t].hard

\* A worker that has ended holds no lease, however it ended.
LeasesReturn == \A t \in Workers, f \in Files : w[t].pc = "ended" => leased[f] # t

\* The books of the workers are right: a keyed call took effect once, and who was refused
\* a file does not report success, and who has ended keeps no lease.
WorkersSound == WsTypeOK /\ KeyedOnce /\ NoPaperedRefusal /\ LeasesReturn
=============================================================================
