----------------------------- MODULE DesktopRuns -----------------------------
(***************************************************************************)
(* The desktop: DesktopAPI (src/src/paperclaw/desktop/app.py) is called by a  *)
(* window and by browser tabs on threads of their own, DesktopController     *)
(* (desktop/controller.py) owns the one active run and its worker thread,    *)
(* EventReducer (tui/state.py) makes what is shown of the events of the run,  *)
(* and DesktopEventQueue keeps rows and snapshots until somebody polls.       *)
(*                                                                          *)
(* Of the engine the model keeps its stop token and the numbers of its        *)
(* events: QueryEngine._emit takes a number under its lock and calls the      *)
(* handler after it, so two threads may deliver their events in either order. *)
(***************************************************************************)
EXTENDS Integers, Sequences, FiniteSets

CONSTANTS
    Viewers,        \* client_id of those who poll
    PollLimits,     \* limits they poll with
    QueueCapacity,  \* max_items of the queue
    DrainLimit,     \* what a poll takes from the queue
    HistoryLimit,   \* _EVENT_HISTORY_LIMIT
    MaxStarts,      \* calls of start_run
    MaxPolls,       \* calls of poll_events
    MaxRows         \* events each run emits between its first and its last

ASSUME DesktopAssumption == QueueCapacity >= 2 /\ DrainLimit \in Nat \ {0} /\ HistoryLimit \in Nat \ {0}

VARIABLES
    ctl,       \* the controller: active, closed, cancel requested, the run of its engine, its override
    shown,     \* the snapshot of the reducer
    worker,      \* the worker thread and the engine of its run
    stops,     \* API threads inside request_stop
    queue,     \* the items of the event queue
    fan,       \* the history, its last serial, the cursor of each client
    starting,  \* API threads between the reset of the fan-out and the controller, and the calls so far
    heard      \* what each client got last

dkVars == <<ctl, shown, worker, stops, queue, fan, starting, heard>>

Blank == [run |-> 0, status |-> "idle", seq |-> 0, terminal |-> FALSE]
NoWork == [run |-> 0, at |-> "none", token |-> "none", seq |-> 0, event |-> "none", number |-> 0, rows |-> 0, verdict |-> "none"]
Reset == [items |-> <<>>, serial |-> 0, cursor |-> [c \in Viewers |-> -1]]

DkInit ==
    /\ ctl = [active |-> FALSE, closed |-> FALSE, cancel |-> FALSE, engine |-> 0, override |-> "none"]
    /\ shown = Blank /\ worker = NoWork /\ stops = {} /\ queue = <<>> /\ fan = Reset
    /\ starting = [waiting |-> 0, calls |-> 0, polls |-> 0, refused |-> FALSE]
    /\ heard = [c \in Viewers |-> [snap |-> Blank, row |-> <<0, 0>>, inOrder |-> TRUE]]

-----------------------------------------------------------------------------
(* The queue *)

\* _append_with_overflow
Push(q, item) == Append(IF Len(q) >= QueueCapacity THEN SubSeq(q, Len(q) - QueueCapacity + 2, Len(q)) ELSE q, item)

\* publish_snapshot: only the newest waits.
PushSnapshot(q, view) == Push(SelectSeq(q, LAMBDA item : item.kind # "snapshot"), [kind |-> "snapshot", shows |-> view])

\* _snapshot_locked
View(snapshot, override) ==
    IF override = "none" THEN snapshot
    ELSE [snapshot EXCEPT !.status = override, !.terminal = (override = "failed") \/ snapshot.terminal]

Publish(q, snapshot, override) == queue' = PushSnapshot(q, View(snapshot, override))

-----------------------------------------------------------------------------
(* Starting *)

\* DesktopAPI.start_run: the fan-out is reset ...
ResetFanout ==
    /\ starting.calls < MaxStarts
    /\ starting' = [starting EXCEPT !.waiting = @ + 1, !.calls = @ + 1]
    /\ fan' = Reset
    /\ UNCHANGED <<ctl, shown, worker, stops, queue, heard>>

\* ... before the controller looks at the request, which may be invalid, and at what is running.
Refuse ==
    /\ starting.waiting > 0
    /\ starting' = [starting EXCEPT !.waiting = @ - 1, !.refused = TRUE]
    /\ UNCHANGED <<ctl, shown, worker, stops, queue, fan, heard>>

\* DesktopController.start_run with _reset_for_run_locked.
StartRun ==
    /\ starting.waiting > 0 /\ ~ctl.closed /\ ~ctl.active
    /\ starting' = [starting EXCEPT !.waiting = @ - 1, !.refused = FALSE]
    /\ shown' = Blank
    /\ \E threadStarts \in BOOLEAN :
        /\ ctl' = [ctl EXCEPT !.active = threadStarts, !.cancel = FALSE, !.engine = 0,
                              !.override = IF threadStarts THEN "starting" ELSE "failed"]
        /\ worker' = [NoWork EXCEPT !.run = worker.run + 1, !.at = IF threadStarts THEN "create" ELSE "none",
                                !.verdict = IF threadStarts THEN "none" ELSE "failed"]
        /\ Publish(<<>>, Blank, IF threadStarts THEN "starting" ELSE "failed")
    /\ UNCHANGED <<stops, fan, heard>>

-----------------------------------------------------------------------------
(* The reducer and the handler *)

\* Mutant of Accepts: a number below the last one is taken for news.
AcceptsLate(run, number) == shown.run \in {0, run} /\ number # shown.seq /\ ~shown.terminal

\* EventReducer.apply: what it rejects.
Accepts(run, number) == shown.run \in {0, run} /\ number > shown.seq /\ ~shown.terminal

\* EventReducer.apply: what it makes of the rest.
Reduced(run, number, event, status) ==
    [run |-> run, seq |-> number, terminal |-> event = "ended",
     status |-> CASE event = "started" -> "running" [] event = "stop" -> "stopping" [] event = "ended" -> status [] OTHER -> shown.status]

\* _handle_event: the row and the snapshot are published under the controller's lock.  A row is named by the
\* run that has the display and its number.
Deliver(run, number, event, status) ==
    IF Accepts(run, number)
    THEN LET after == Reduced(run, number, event, status)
         IN /\ shown' = after
            /\ ctl' = [ctl EXCEPT !.override = "none"]
            /\ Publish(Push(queue, [kind |-> "event", row |-> <<worker.run, number>>]), after, "none")
    ELSE UNCHANGED <<shown, ctl, queue>>

-----------------------------------------------------------------------------
(* The worker thread *)

Numbered(event) == [worker EXCEPT !.seq = @ + 1, !.number = worker.seq + 1, !.event = event, !.at = "deliver"]
WorkerOnly == UNCHANGED <<stops, fan, starting, heard>>

\* _run_worker: the factory made an engine ...
KeepEngineOf ==
    /\ worker.at = "create"
    /\ ctl' = [ctl EXCEPT !.engine = worker.run]
    /\ worker' = [worker EXCEPT !.at = "submit"]
    /\ UNCHANGED <<shown, queue>> /\ WorkerOnly

\* ... or raised: _mark_synthetic_failure_locked.
FactoryFails ==
    /\ worker.at = "create"
    /\ ctl' = [ctl EXCEPT !.override = "failed"]
    /\ worker' = [worker EXCEPT !.at = "cleanup", !.verdict = "failed"]
    /\ Publish(queue, shown, "failed")
    /\ UNCHANGED shown /\ WorkerOnly

\* QueryEngine.submit: the token, then the number of run.started.
Submits == worker.at = "submit" /\ worker' = [Numbered("started") EXCEPT !.token = "open"] /\ UNCHANGED <<ctl, shown, queue>> /\ WorkerOnly

Works == worker.at = "work" /\ UNCHANGED <<ctl, shown, queue>> /\ WorkerOnly
EmitsRow == Works /\ worker.rows < MaxRows[worker.run] /\ worker' = [Numbered("row") EXCEPT !.rows = @ + 1]
EngineEnded == Works /\ \E s \in {"completed", "stopped"} : (s = "stopped" => worker.token = "set") /\ worker' = [Numbered("ended") EXCEPT !.verdict = s]

\* The handler, and where its thread goes on: a cancellation noted before the run had an id is passed on.
Delivers ==
    /\ worker.at = "deliver"
    /\ Deliver(worker.run, worker.number, worker.event, worker.verdict)
    /\ worker' = [worker EXCEPT !.at = CASE worker.event = "started" /\ ctl.cancel /\ Accepts(worker.run, worker.number) -> "stopSelf"
                                     [] worker.event = "ended" -> "return"
                                     [] OTHER -> "work"]
    /\ WorkerOnly

\* Mutant of StopsSelf: the worker leaves the stop to the caller of cancel_run.
StopsNobody ==
    /\ worker.at = "stopSelf"
    /\ worker' = [worker EXCEPT !.at = "work"]
    /\ UNCHANGED <<ctl, shown, queue>> /\ WorkerOnly

StopsSelf ==
    /\ worker.at = "stopSelf"
    /\ worker' = IF worker.token = "open" THEN [Numbered("stop") EXCEPT !.token = "set"] ELSE [worker EXCEPT !.at = "work"]
    /\ UNCHANGED <<ctl, shown, queue>> /\ WorkerOnly

\* EventReducer.apply_result makes up for a terminal event that was rejected.
WithResult ==
    IF shown.run \notin {0, worker.run} THEN shown
    ELSE [run |-> worker.run, status |-> worker.verdict, terminal |-> TRUE,
          seq |-> IF worker.seq > shown.seq THEN worker.seq ELSE shown.seq]

\* The engine drops the token and returns.
Result ==
    /\ worker.at = "return"
    /\ shown' = WithResult
    /\ Publish(queue, WithResult, "none")
    /\ ctl' = [ctl EXCEPT !.override = "none"]
    /\ worker' = [worker EXCEPT !.token = "none", !.at = "cleanup"]
    /\ WorkerOnly

\* The finally clause of _run_worker.
CleanUp ==
    /\ worker.at = "cleanup"
    /\ ctl' = [ctl EXCEPT !.active = FALSE, !.engine = 0]
    /\ worker' = [worker EXCEPT !.at = "none"]
    /\ Publish(queue, shown, ctl.override)
    /\ UNCHANGED shown /\ WorkerOnly

-----------------------------------------------------------------------------
(* Cancelling *)

\* cancel_run: the flag, and the engine and the run id as they are now.
CancelRun ==
    /\ ctl.active /\ ~ctl.cancel
    /\ ctl' = [ctl EXCEPT !.cancel = TRUE]
    /\ stops' = IF ctl.engine # 0 /\ shown.run # 0
                THEN stops \union {[engine |-> ctl.engine, run |-> shown.run, at |-> "request", number |-> 0]} ELSE stops
    /\ UNCHANGED <<shown, worker, queue, fan, starting, heard>>

\* shutdown: no run starts any more and the active one is cancelled by CancelRun.
ShutDownDesktop ==
    /\ ~ctl.closed
    /\ ctl' = [ctl EXCEPT !.closed = TRUE]
    /\ UNCHANGED <<shown, worker, stops, queue, fan, starting, heard>>

\* request_stop: an unknown run and a token that is gone or set already end it.
RequestsStop(s) ==
    /\ s.at = "request"
    /\ IF s.engine = s.run /\ worker.run = s.run /\ worker.token = "open"
       THEN /\ worker' = [worker EXCEPT !.token = "set", !.seq = @ + 1]
            /\ stops' = (stops \ {s}) \union {[s EXCEPT !.at = "deliver", !.number = worker.seq + 1]}
       ELSE worker' = worker /\ stops' = stops \ {s}
    /\ UNCHANGED <<ctl, shown, queue, fan, starting, heard>>

\* run.stop_requested reaches the handler when it may, even in the next run.
DeliversStop(s) ==
    /\ s.at = "deliver"
    /\ Deliver(s.run, s.number, "stop", "none")
    /\ stops' = stops \ {s}
    /\ UNCHANGED <<worker, fan, starting, heard>>

-----------------------------------------------------------------------------
(* Polling *)

LastOf(items) == SubSeq(items, IF Len(items) > HistoryLimit THEN Len(items) - HistoryLimit + 1 ELSE 1, Len(items))

\* What a client makes of the items it got.
Hears(old, items) ==
    LET rows == SelectSeq(items, LAMBDA item : item.kind = "event")
        snaps == SelectSeq(items, LAMBDA item : item.kind = "snapshot")
        Before(a, b) == a[1] < b[1] \/ (a[1] = b[1] /\ a[2] < b[2])
        RowAt(i) == IF i = 0 THEN old.row ELSE rows[i].row
    IN [snap |-> IF snaps = <<>> THEN old.snap ELSE snaps[Len(snaps)].shows,
        row |-> RowAt(Len(rows)),
        inOrder |-> old.inOrder /\ \A i \in 1..Len(rows) : Before(RowAt(i - 1), RowAt(i))]

\* Mutant of PollEvents: what one client polled the others never see.
PollEventsAlone(c, limit) ==
    LET taken == IF Len(queue) > DrainLimit THEN DrainLimit ELSE Len(queue)
        got == SubSeq(queue, 1, taken)
    IN /\ starting.polls < MaxPolls
       /\ starting' = [starting EXCEPT !.polls = @ + 1]
       /\ queue' = SubSeq(queue, taken + 1, Len(queue))
       /\ heard' = [heard EXCEPT ![c] = Hears(@, got)]
       /\ fan' = [fan EXCEPT !.cursor[c] = fan.serial]
       /\ UNCHANGED <<ctl, shown, worker, stops>>

\* poll_events: the queue moves to the history, from which each client has its own cursor.
PollEvents(c, limit) ==
    LET taken == IF Len(queue) > DrainLimit THEN DrainLimit ELSE Len(queue)
        items == LastOf(fan.items \o SubSeq(queue, 1, taken))
        serial == fan.serial + taken
        before == serial - Len(items)  \* the serial before the oldest that is kept
        cursor == IF fan.cursor[c] < before THEN before ELSE fan.cursor[c]
        upto == IF serial - cursor > limit THEN cursor + limit ELSE serial
    IN /\ starting.polls < MaxPolls
       /\ starting' = [starting EXCEPT !.polls = @ + 1]
       /\ queue' = SubSeq(queue, taken + 1, Len(queue))
       /\ fan' = [items |-> items, serial |-> serial, cursor |-> [fan.cursor EXCEPT ![c] = upto]]
       /\ heard' = [heard EXCEPT ![c] = Hears(@, SubSeq(items, cursor - before + 1, upto - before))]
       /\ UNCHANGED <<ctl, shown, worker, stops>>

-----------------------------------------------------------------------------
DkNext ==
    \/ ResetFanout \/ Refuse \/ StartRun
    \/ KeepEngineOf \/ FactoryFails \/ Submits \/ EmitsRow \/ EngineEnded \/ Delivers \/ StopsSelf \/ Result \/ CleanUp
    \/ CancelRun \/ ShutDownDesktop \/ \E s \in stops : RequestsStop(s) \/ DeliversStop(s)
    \/ \E c \in Viewers, limit \in PollLimits : PollEvents(c, limit)

DkSpec == DkInit /\ [][DkNext]_dkVars

-----------------------------------------------------------------------------
(* The state has its types and the bounded sequences their bounds. *)
DkTypeOK ==
    /\ Len(queue) <= QueueCapacity /\ Len(fan.items) <= HistoryLimit
    /\ shown.status \in {"idle", "running", "stopping", "completed", "stopped"}
    /\ ctl.override \in {"none", "starting", "failed"}
    /\ worker.token \in {"none", "open", "set"}

\* An event of an earlier run that came after the reset has taken the display.
Displaced == shown.run \notin {0, worker.run}

(* A cancellation of the run that is shown reaches its engine, before as well  *)
(* as after the run has its engine and its id.                                 *)
CancelIsDelivered ==
    ctl.cancel /\ worker.at = "work" /\ ~Displaced =>
        worker.token = "set" \/ \E s \in stops : s.at = "request" /\ s.run = worker.run

(* A run that is no longer active is shown as ended, with the status it ended  *)
(* with, although its terminal event may have been rejected as older than one   *)
(* delivered by another thread.                                                 *)
EndIsShown ==
    worker.run # 0 /\ ~ctl.active /\ ~Displaced =>
        View(shown, ctl.override).terminal /\ View(shown, ctl.override).status = worker.verdict

(* A client that has polled all there is knows what is shown, however the      *)
(* clients share what one of them drained, unless a start that was refused     *)
(* dropped it first.                                                           *)
CaughtUpClientsKnow ==
    \A c \in Viewers :
        queue = <<>> /\ fan.cursor[c] = fan.serial /\ starting.waiting = 0 /\ ~starting.refused =>
            heard[c].snap = View(shown, ctl.override)

(* No client gets a row twice or after one that came later, over polls, runs    *)
(* and resets.                                                                  *)
RowsInOrder == \A c \in Viewers : heard[c].inOrder

(* What the desktop shows is the run it has. *)
DesktopSound == DkTypeOK /\ CancelIsDelivered /\ EndIsShown /\ CaughtUpClientsKnow /\ RowsInOrder
=============================================================================
