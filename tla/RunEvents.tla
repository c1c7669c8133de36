------------------------------ MODULE RunEvents ------------------------------
(***************************************************************************)
(* The public events of one durable run: DurableRunApplicationService         *)
(* (src/src/paperclaw/service/durable_application.py) appends them to         *)
(* SQLiteDurableServiceStore (durability/service_store.py), streams read them *)
(* from any service of the database (service/fastapi_app.py).  ServiceRuns    *)
(* has the leases and the drainers of many runs; here are one run, the        *)
(* services that execute it one after the other, each with one drainer, what  *)
(* they tell its engines and what they say of it.                             *)
(*                                                                          *)
(* Every transaction is one step.  A process may crash, or stall until its    *)
(* lease has run out and then go on.  Of the events are kept the one that        *)
(* closed the run, who spoke after it and whether the stream has news to list. *)
(***************************************************************************)
EXTENDS Integers, FiniteSets

CONSTANTS
    Lives,          \* services on the database, 1 .. n, started in that order
    AskedLives,          \* those that users ask to cancel
    Timed,          \* those whose timer may fire in time
    MaxServiceDeaths, \* crashes
    MaxUserCancels  \* cancellations by users

ASSUME RunEventsAssumption == Lives \subseteq Nat \ {0} /\ MaxUserCancels \in Nat

VARIABLES
    theRun,       \* its row in durable_runs, its lease and its metadata
    publicEvents, \* durable_run_events: how many closed the run, the author and state of the last of them, whether an
                  \* engine has begun, what came after the closing event, and whether the stream has yet to list any
    life,         \* each service: what its drainer is at, its _ActiveExecution, its engine
    caller,       \* a user's cancel: what it is at, on which service, and how many there were
    follower      \* a stream: what it is at, whether it has shown the closing event

evVars == <<theRun, publicEvents, life, caller, follower>>

EvTerminal == {"completed", "failed", "stopped", "recovery_required"}

NotStarted ==
    [at |-> "down", told |-> FALSE, known |-> FALSE, token |-> "none", verdict |-> "none",
     timer |-> "off", announcing |-> 0, found |-> [st |-> "none", ver |-> 0]]

EvInit ==
    /\ theRun = [st |-> "none", ver |-> 0, by |-> 0, live |-> FALSE, why |-> "none", engine |-> 0, rec |-> 0, accepted |-> FALSE]
    /\ publicEvents = [news |-> FALSE, by |-> 0, st |-> "none", closings |-> 0, begun |-> FALSE, later |-> {}]
    /\ life = [w \in Lives |-> IF w = 1 THEN [NotStarted EXCEPT !.at = "drain"] ELSE NotStarted]
    /\ caller = [at |-> "none", on |-> 0, made |-> 0]
    /\ follower = [at |-> "wait", sawEnd |-> FALSE]

NoCaller == [caller EXCEPT !.at = "none", !.on = 0]
LifeAt(w, at) == life[w].at = at
SetLife(w, new) == life' = [life EXCEPT ![w] = new]

\* append_event: the next number, in one transaction, whoever asks and whatever the row says.
Said(log, kind, by) ==
    [log EXCEPT !.news = TRUE, !.begun = @ \/ kind = "started", !.later = IF log.closings > 0 THEN @ \union {<<kind, by>>} ELSE @]
Say(kind, by) == publicEvents' = Said(publicEvents, kind, by)
ClosedBy(log, by, st) == [log EXCEPT !.news = TRUE, !.by = by, !.st = st, !.closings = @ + 1]
Moving(st) == [theRun EXCEPT !.st = st, !.ver = @ + 1]

\* The executions that are in _active; with the id of its engine one has the engine as well.
Registered(w) == life[w].at \in {"make", "start", "merge", "know", "tell", "run", "end", "return", "finish"}

-----------------------------------------------------------------------------
(* Submission *)

\* create_run, on the first service ...
Made ==
    /\ theRun.st = "none" /\ life[1].at \notin {"down", "dead"}
    /\ theRun' = [theRun EXCEPT !.st = "queued"]
    /\ UNCHANGED <<publicEvents, life, caller, follower>>

\* ... and only then the first event; a drainer may be faster.
SayAccepted ==
    /\ theRun.st # "none" /\ ~theRun.accepted /\ ~LifeAt(1, "dead")
    /\ Say("accepted", 1)
    /\ theRun' = [theRun EXCEPT !.accepted = TRUE]
    /\ UNCHANGED <<life, caller, follower>>

-----------------------------------------------------------------------------
(* The drainer of a service *)

TakeRun(w) ==
    /\ LifeAt(w, "drain") /\ theRun.st = "queued"
    /\ theRun' = [Moving("running") EXCEPT !.by = w, !.live = TRUE]
    /\ SetLife(w, [life[w] EXCEPT !.at = "claimed"])
    /\ UNCHANGED <<publicEvents, caller, follower>>

\* The execution is registered, its heartbeat and its timer start.
Register(w) ==
    /\ LifeAt(w, "claimed")
    /\ SetLife(w, [life[w] EXCEPT !.at = "make", !.timer = "armed"])
    /\ UNCHANGED <<theRun, publicEvents, caller, follower>>

\* A claim that waited too long fails without an engine, as does one whose factory raises; the first is not registered.
NoEngine(w) ==
    /\ life[w].at \in {"claimed", "make"}
    /\ SetLife(w, [life[w] EXCEPT !.at = IF LifeAt(w, "claimed") THEN "refuse" ELSE "finish", !.verdict = "failed"])
    /\ UNCHANGED <<theRun, publicEvents, caller, follower>>

\* The engine is kept under the lock; it makes its stop token before it says that it has started.
MakeEngine(w) ==
    /\ LifeAt(w, "make")
    /\ SetLife(w, [life[w] EXCEPT !.at = "start", !.token = "open"])
    /\ UNCHANGED <<theRun, publicEvents, caller, follower>>

\* _handle_runtime_event of run.started: the event, the metadata, and under the lock what was asked meanwhile.
SayStart(w) ==
    /\ LifeAt(w, "start")
    /\ Say("started", w)
    /\ SetLife(w, [life[w] EXCEPT !.at = "merge"])
    /\ UNCHANGED <<theRun, caller, follower>>

\* merge_metadata asks for no lease.
NoteEngine(w) ==
    /\ LifeAt(w, "merge")
    /\ theRun' = [theRun EXCEPT !.engine = w]
    /\ SetLife(w, [life[w] EXCEPT !.at = "know"])
    /\ UNCHANGED <<publicEvents, caller, follower>>

\* Mutant of Know: what was asked before the engine was known is not looked at.
KnowOnly(w) ==
    /\ LifeAt(w, "know")
    /\ SetLife(w, [life[w] EXCEPT !.known = TRUE, !.at = "run"])
    /\ UNCHANGED <<theRun, publicEvents, caller, follower>>

Know(w) ==
    /\ LifeAt(w, "know")
    /\ SetLife(w, [life[w] EXCEPT !.known = TRUE, !.at = IF life[w].told THEN "tell" ELSE "run"])
    /\ UNCHANGED <<theRun, publicEvents, caller, follower>>

\* request_stop: the token takes the first request and none once the engine has returned; its event is sent
\* outside the lock.
TokenTaken(rec) == IF rec.token = "open" THEN [rec EXCEPT !.token = "set", !.announcing = @ + 1] ELSE rec

TellSelf(w) ==
    /\ LifeAt(w, "tell")
    /\ SetLife(w, [TokenTaken(life[w]) EXCEPT !.at = "run"])
    /\ UNCHANGED <<theRun, publicEvents, caller, follower>>

AnnounceStop(w) ==
    /\ life[w].announcing > 0 /\ ~LifeAt(w, "dead")
    /\ Say("stop requested", w)
    /\ SetLife(w, [life[w] EXCEPT !.announcing = @ - 1])
    /\ UNCHANGED <<theRun, caller, follower>>

\* Any other event of the engine; a stale one says its events as well.
EngineSays(w) ==
    /\ LifeAt(w, "run")
    /\ Say("engine", w)
    /\ UNCHANGED <<theRun, life, caller, follower>>

EngineDecides(w) ==
    /\ LifeAt(w, "run")
    /\ \E s \in {"completed"} \union (IF life[w].token = "set" THEN {"stopped"} ELSE {}) :
           SetLife(w, [life[w] EXCEPT !.verdict = s, !.at = "end"])
    /\ UNCHANGED <<theRun, publicEvents, caller, follower>>

\* The terminal event of the engine comes before the end of the row.
SayEnd(w) ==
    /\ LifeAt(w, "end")
    /\ Say("engine ended", w)
    /\ SetLife(w, [life[w] EXCEPT !.at = "return"])
    /\ UNCHANGED <<theRun, caller, follower>>

EngineIsDone(w) ==
    /\ LifeAt(w, "return")
    /\ SetLife(w, [life[w] EXCEPT !.at = "finish", !.token = "none"])
    /\ UNCHANGED <<theRun, publicEvents, caller, follower>>

LastWord(verdict) ==
    IF theRun.st # "cancelling" THEN verdict ELSE IF theRun.why = "run_timeout" THEN "failed" ELSE "stopped"

\* What an execution leaves behind: it is taken out of _active and its timer is told to stop.
Leaving(rec) == [rec EXCEPT !.at = "drain", !.verdict = "none", !.told = FALSE, !.known = FALSE, !.timer = IF @ = "armed" THEN "off" ELSE @]

\* Mutant of Close: the outcome of the engine, whatever was asked.
CloseAsTold(w) ==
    /\ life[w].at \in {"finish", "refuse"}
    /\ IF theRun.st \notin EvTerminal /\ theRun.by = w /\ theRun.live
       THEN /\ theRun' = [Moving(life[w].verdict) EXCEPT !.by = 0, !.live = FALSE, !.engine = w]
            /\ publicEvents' = ClosedBy(publicEvents, w, life[w].verdict)
       ELSE UNCHANGED <<theRun, publicEvents>>
    /\ SetLife(w, Leaving(life[w]))
    /\ UNCHANGED <<caller, follower>>

\* finalize_run: row, metadata, lease and event in one transaction, for the holder of a live lease.
Close(w) ==
    /\ life[w].at \in {"finish", "refuse"}
    /\ IF theRun.st \notin EvTerminal /\ theRun.by = w /\ theRun.live
       THEN LET st == LastWord(life[w].verdict)
            IN  /\ theRun' = [Moving(st) EXCEPT !.by = 0, !.live = FALSE, !.engine = w]
                /\ publicEvents' = ClosedBy(publicEvents, w, st)
       ELSE UNCHANGED <<theRun, publicEvents>>
    /\ SetLife(w, Leaving(life[w]))
    /\ UNCHANGED <<caller, follower>>

-----------------------------------------------------------------------------
(* Cancellation *)

\* request_cancellation: row, reason and events in one transaction; a queued run is over.
AskToCancel(why) ==
    CASE theRun.st = "queued" ->
            /\ theRun' = [Moving("stopped") EXCEPT !.why = why, !.by = 0, !.live = FALSE]
            /\ publicEvents' = ClosedBy(Said(publicEvents, "cancel requested", 0), 0, "stopped")
      [] theRun.st = "running" ->
            /\ theRun' = [Moving("cancelling") EXCEPT !.why = why]
            /\ Say("cancel requested", 0)
      [] OTHER -> UNCHANGED <<theRun, publicEvents>>

\* A user asks any service that is up.
UserCancels(w) ==
    /\ w \in AskedLives /\ caller.at = "none" /\ caller.made < MaxUserCancels
    /\ life[w].at \notin {"down", "starting", "noting", "dead"} /\ theRun.st \notin EvTerminal \union {"none"}
    /\ AskToCancel("user")
    /\ caller' = IF theRun.st = "queued" THEN [caller EXCEPT !.made = @ + 1] ELSE [at |-> "look", on |-> w, made |-> caller.made + 1]
    /\ UNCHANGED <<life, follower>>

\* Under the lock: the execution is told, if it is registered here.
Told(w) == IF Registered(w) THEN [life[w] EXCEPT !.told = TRUE] ELSE life[w]
Tellable(w) == Registered(w) /\ life[w].known

UserLooks ==
    /\ caller.at = "look"
    /\ SetLife(caller.on, Told(caller.on))
    /\ caller' = IF Tellable(caller.on) THEN [caller EXCEPT !.at = "stop"] ELSE NoCaller
    /\ UNCHANGED <<theRun, publicEvents, follower>>

UserStops ==
    /\ caller.at = "stop"
    /\ SetLife(caller.on, TokenTaken(life[caller.on]))
    /\ caller' = NoCaller
    /\ UNCHANGED <<theRun, publicEvents, follower>>

\* _run_timeout is such a caller, for its own execution; what it finds ended it leaves alone.
Timer(w, at) == life[w].timer = at /\ ~LifeAt(w, "dead")

TimerCancels(w) ==
    /\ Timer(w, "armed") /\ w \in Timed
    /\ IF theRun.st \in EvTerminal THEN UNCHANGED <<theRun, publicEvents>> ELSE AskToCancel("run_timeout")
    /\ SetLife(w, [life[w] EXCEPT !.timer = IF theRun.st \in EvTerminal \union {"queued"} THEN "off" ELSE "look"])
    /\ UNCHANGED <<caller, follower>>

TimerLooks(w) ==
    /\ Timer(w, "look")
    /\ SetLife(w, [Told(w) EXCEPT !.timer = IF Tellable(w) THEN "stop" ELSE "off"])
    /\ UNCHANGED <<theRun, publicEvents, caller, follower>>

TimerStops(w) ==
    /\ Timer(w, "stop")
    /\ SetLife(w, [TokenTaken(life[w]) EXCEPT !.timer = "off"])
    /\ UNCHANGED <<theRun, publicEvents, caller, follower>>

-----------------------------------------------------------------------------
(* Crashes, stalls and recovery *)

\* The lease runs out while its holder is dead or stalls ...
LeaseRunsOut ==
    /\ theRun.live
    /\ theRun' = [theRun EXCEPT !.live = FALSE]
    /\ UNCHANGED <<publicEvents, life, caller, follower>>

\* ... and a heartbeat that goes on renews it, expired or not, while the row still names its worker.
Renewed(w) ==
    /\ Registered(w) /\ theRun.by = w /\ ~theRun.live /\ theRun.st \in {"running", "cancelling"}
    /\ theRun' = [theRun EXCEPT !.live = TRUE]
    /\ UNCHANGED <<publicEvents, life, caller, follower>>

ServiceDies(w) ==
    /\ life[w].at \notin {"down", "dead"} /\ Cardinality({v \in Lives : LifeAt(v, "dead")}) < MaxServiceDeaths
    /\ SetLife(w, [NotStarted EXCEPT !.at = "dead"])
    /\ caller' = IF caller.on = w THEN NoCaller ELSE caller
    /\ UNCHANGED <<theRun, publicEvents, follower>>

\* A start reads the runs whose lease has run out ...
StartsUp(w) ==
    /\ LifeAt(w, "down") /\ \A v \in Lives : v < w => ~LifeAt(v, "down")
    /\ theRun.st # "none"
    /\ SetLife(w, IF theRun.st \in {"running", "cancelling"} /\ ~theRun.live
                 THEN [life[w] EXCEPT !.at = "starting", !.found = [st |-> theRun.st, ver |-> theRun.ver]]
                 ELSE [life[w] EXCEPT !.at = "drain"])
    /\ UNCHANGED <<theRun, publicEvents, caller, follower>>

\* A run of which an engine has begun may have receipts of its actions; then it is not tried again.
Receipts == {FALSE, publicEvents.begun}

\* ... decides each by comparison of its state and version ...
Reconciles(w) ==
    /\ LifeAt(w, "starting")
    /\ \E acted \in Receipts :
        LET again == life[w].found.st = "running" /\ ~acted /\ theRun.rec = 0
            same == theRun.st = life[w].found.st /\ theRun.ver = life[w].found.ver
        IN  /\ theRun' = IF ~same THEN theRun
                         ELSE [Moving(IF again THEN "queued" ELSE "recovery_required") EXCEPT
                                  !.by = 0, !.live = FALSE, !.rec = @ + (IF again THEN 1 ELSE 0)]
            /\ SetLife(w, [life[w] EXCEPT !.found = [st |-> "none", ver |-> 0], !.at = IF same THEN "noting" ELSE "drain",
                                         !.verdict = IF again THEN "queued" ELSE "recovery_required"])
    /\ UNCHANGED <<publicEvents, caller, follower>>

\* ... and says so after it has decided all of them.
SayReconciled(w) ==
    /\ LifeAt(w, "noting")
    /\ Say("reconciled", w)
    /\ SetLife(w, [life[w] EXCEPT !.at = "drain", !.verdict = "none"])
    /\ UNCHANGED <<theRun, caller, follower>>

-----------------------------------------------------------------------------
(* A stream, on any service that is up; one that breaks comes back with its Last-Event-ID *)

\* wait_for_events: the events first, at most a page of them ...
ListEvents ==
    /\ follower.at = "wait" /\ theRun.st # "none"
    /\ \E whole \in BOOLEAN, ended \in BOOLEAN :
        /\ publicEvents.news \/ whole
        /\ ended => publicEvents.closings > 0
        /\ whole => ended = (publicEvents.closings > 0)
        /\ publicEvents' = [publicEvents EXCEPT !.news = ~whole]
        /\ follower' = [at |-> "state", sawEnd |-> follower.sawEnd \/ ended]
    /\ UNCHANGED <<theRun, life, caller>>

\* ... then the row: what has come between the two is not in the answer.
ReadState ==
    /\ follower.at = "state"
    /\ follower' = [follower EXCEPT !.at = IF theRun.st \in EvTerminal THEN "check" ELSE "wait"]
    /\ UNCHANGED <<theRun, publicEvents, life, caller>>

\* Mutant of CheckAgain: a stream is over with the row.
EndAtOnce ==
    /\ follower.at = "check"
    /\ follower' = [follower EXCEPT !.at = "over"]
    /\ UNCHANGED <<theRun, publicEvents, life, caller>>

\* stream_events looks once more before it ends.
CheckAgain ==
    /\ follower.at = "check"
    /\ follower' = [follower EXCEPT !.at = IF publicEvents.news THEN "wait" ELSE "over"]
    /\ UNCHANGED <<theRun, publicEvents, life, caller>>

-----------------------------------------------------------------------------
EvNext ==
    \/ Made \/ SayAccepted
    \/ \E w \in Lives :
        \/ TakeRun(w) \/ Register(w) \/ NoEngine(w) \/ MakeEngine(w)
        \/ SayStart(w) \/ NoteEngine(w) \/ Know(w) \/ TellSelf(w) \/ AnnounceStop(w)
        \/ EngineSays(w) \/ EngineDecides(w) \/ SayEnd(w) \/ EngineIsDone(w) \/ Close(w)
        \/ UserCancels(w) \/ TimerCancels(w) \/ TimerLooks(w) \/ TimerStops(w)
        \/ Renewed(w) \/ ServiceDies(w) \/ StartsUp(w) \/ Reconciles(w) \/ SayReconciled(w)
    \/ UserLooks \/ UserStops \/ LeaseRunsOut
    \/ ListEvents \/ ReadState \/ CheckAgain

EvSpec == EvInit /\ [][EvNext]_evVars

-----------------------------------------------------------------------------
(* The state has its types. *)
EvTypeOK ==
    /\ theRun.st \in EvTerminal \union {"none", "queued", "running", "cancelling"} /\ theRun.by \in Lives \union {0}
    /\ \A w \in Lives : life[w].token \in {"none", "open", "set"} /\ life[w].timer \in {"off", "armed", "look", "stop"}
    /\ follower.at \in {"wait", "state", "check", "over"} /\ (follower.sawEnd => publicEvents.closings > 0)

(* The service closes a run once, with the state its row has, and no row ends  *)
(* without it, although stale executions, cancels and timers write on.  A run  *)
(* that needs recovery has an event of its own, which a crash may take.        *)
ClosedOnceAsItIs ==
    /\ publicEvents.closings <= 1
    /\ publicEvents.closings = 1 => publicEvents.st = theRun.st
    /\ theRun.st \in EvTerminal \ {"recovery_required"} => publicEvents.closings = 1

(* A cancellation that was accepted is the end of the run: it completes no     *)
(* more, whatever its engine says, and a timeout makes it fail.                *)
CancelIsTheEnd ==
    theRun.why # "none" => theRun.st \in {"cancelling", "recovery_required"} \union
                                         (IF theRun.why = "run_timeout" THEN {"failed", "stopped"} ELSE {"stopped"})

(* A caller or a timer that found the execution registered reaches its engine: *)
(* by the time the engine acts the token is set or someone is about to set it. *)
(* A cancel that comes between the claim and the registration, or on another   *)
(* service, finds nothing and changes only the row.                            *)
ToldIsPassedOn ==
    \A w \in Lives : life[w].told /\ life[w].at \in {"run", "end"} =>
        life[w].token = "set" \/ life[w].timer = "stop" \/ (caller.at = "stop" /\ caller.on = w)

(* A stream that ends has shown the event that closed the run. *)
StreamShowsTheEnd ==
    follower.at = "over" /\ theRun.st # "recovery_required" => follower.sawEnd

(* After the closing event come only the first event of its submission, the    *)
(* announcement of a stop and the events of executions that lost the run.      *)
QuietAfterTheEnd ==
    \A said \in publicEvents.later : said[1] \in {"accepted", "stop requested", "reconciled"} \/ said[2] # publicEvents.by

(* The events of a run and its row agree. *)
RunEventsSound == EvTypeOK /\ ClosedOnceAsItIs /\ CancelIsTheEnd /\ ToldIsPassedOn /\ StreamShowsTheEnd /\ QuietAfterTheEnd
=============================================================================
