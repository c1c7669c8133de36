------------------------------ MODULE McpClient ------------------------------
(***************************************************************************)
(* One MCP server and the host that talks to it: the stdio transport with    *)
(* its reader thread (src/src/paperclaw/mcp/transport.py), the session that  *)
(* initializes, discovers and calls (session.py), the atomic registration    *)
(* of the discovered tools (registration.py), and the calls of several agent *)
(* threads through one connection, each by a worker thread that may outlive  *)
(* the call (runtime.py).                                                    *)
(*                                                                          *)
(* A line of the server is the id of the request it answers and what it      *)
(* says; a line with the id 0 answers no request.                            *)
(***************************************************************************)
EXTENDS Integers, Sequences, FiniteSets

CONSTANTS
    Remote,         \* the tools the server offers, page by page
    Local,          \* tools that are registered already
    Callers,        \* threads that invoke tools
    Permitted,        \* tools the permission policy allows
    Slips,          \* what can go wrong with the server
    MaxInvokes, MaxSlips

\* "free" is the lock without an owner.
ASSUME McAssumption == "free" \notin Callers

VARIABLES
    proc,       \* the server process: none, running, exited
    requests,      \* requests the server has received and not answered
    inbox,      \* messages the reader thread has queued
    reading,    \* the reader thread is at work
    tclosed,    \* _closed of the transport
    session,    \* _state, next request id, tools discovered
    setup,      \* connect_and_register_mcp_tools: step, request, pages seen
    registry,   \* names in the tool registry
    conn,       \* the runtime connection: made, closed, _invoke_lock
    caller,     \* each thread in invoke
    worker,     \* the worker thread of the latest call of each thread
    slips, invokes

mcVars == <<proc, requests, inbox, reading, tclosed, session, setup, registry, conn, caller, worker, slips, invokes>>
wireVars == <<proc, requests, inbox, reading, tclosed>>
callVars == <<caller, worker>>
boundVars == <<slips, invokes>>

AllRemote == UNION {Remote[p] : p \in DOMAIN Remote}
Line(id, says, tool) == [id |-> id, says |-> says, tool |-> tool]
Eof == Line(0, "eof", "none")
Quiet == [pc |-> "none", id |-> 0, tool |-> "none", got |-> "none", from |-> "none"]
Resting == [pc |-> "idle", tool |-> "none", result |-> "none"]

\* _TRANSPORT_TERMINAL_ERRORS and _PROTOCOL_TERMINAL_ERRORS of the session.
TransportErrors == {"timeout", "disconnected", "garbled", "invalid response", "wrong id"}
Terminal == TransportErrors \cup {"invalid result"}

\* A line as the answer to request id: EOF, a bad line, an id that is not the request's.
Heard(line, id) ==
    CASE line.says = "eof" -> "disconnected"
      [] line.says = "garbled" -> "garbled"
      [] line.id # id -> "wrong id"
      [] OTHER -> line.says

-----------------------------------------------------------------------------
(* The server and the reader thread *)

Mishap(kind) == kind \in Slips /\ slips < MaxSlips /\ slips' = slips + 1

\* The reader queues lines until one is no message; then it ends.
Queue(line) ==
    /\ inbox' = IF reading THEN Append(inbox, line) ELSE inbox
    /\ reading' = (reading /\ line.says \notin {"garbled", "eof"})

\* An answer: a result, an error the server reports, or a result that is no result.
Answer(r) ==
    /\ proc = "running" /\ r \in requests
    /\ \/ Queue(Line(r.id, "ok", r.tool)) /\ UNCHANGED slips
       \/ \E bad \in {"protocol error", "invalid response", "invalid result"} :
              Mishap(bad) /\ Queue(Line(r.id, bad, r.tool))
       \/ Mishap("garbled") /\ Queue(Line(r.id, "garbled", r.tool))
    /\ requests' = requests \ {r}
    /\ UNCHANGED <<proc, tclosed, session, setup, registry, conn, callVars, invokes>>

\* A notification, or a response nobody requests for.
Chatter ==
    /\ proc = "running"
    /\ \E says \in {"note", "stray"} : Mishap(says) /\ Queue(Line(0, says, "none"))
    /\ UNCHANGED <<proc, requests, tclosed, session, setup, registry, conn, callVars, invokes>>

\* It ends when its standard input is closed or it is killed, or by itself.
ServerEnds ==
    /\ proc = "running"
    /\ IF tclosed THEN UNCHANGED slips ELSE Mishap("crash")
    /\ proc' = "exited" /\ requests' = {}
    /\ Queue(Eof)
    /\ UNCHANGED <<tclosed, session, setup, registry, conn, callVars, invokes>>

-----------------------------------------------------------------------------
(* Requests, of the setup thread and of workers alike *)

Usable == proc = "running" /\ ~tclosed

\* _fail_if_terminal and _best_effort_close.
Fails(error) ==
    IF error \in Terminal THEN session' = [session EXCEPT !.state = "failed"] /\ tclosed' = TRUE
    ELSE UNCHANGED <<session, tclosed>>

\* MCPClientSession.close, also of a session that has failed.
CloseSession == session' = [session EXCEPT !.state = "closed", !.tools = {}] /\ tclosed' = TRUE

-----------------------------------------------------------------------------
(* connect_and_register_mcp_tools *)

\* Whatever raises on the way closes the session; the registry was not touched.
GiveUpSetup == setup' = [setup EXCEPT !.pc = "failed"] /\ CloseSession

Connect ==
    /\ setup.pc = "start"
    /\ \/ /\ proc' = "running" /\ reading' = TRUE
          /\ session' = [session EXCEPT !.state = "connected"]
          /\ setup' = [setup EXCEPT !.pc = "ask"]
          /\ UNCHANGED <<tclosed, slips>>
       \/ Mishap("no server") /\ GiveUpSetup /\ UNCHANGED <<proc, reading>>
    /\ UNCHANGED <<requests, inbox, registry, conn, callVars, invokes>>

\* initialize, then tools/list for one page after the other.
SetupAsks ==
    /\ setup.pc = "ask"
    /\ IF Usable
       THEN /\ requests' = requests \cup {[id |-> session.next, tool |-> "setup"]}
            /\ setup' = [setup EXCEPT !.pc = "wait", !.id = session.next]
            /\ session' = [session EXCEPT !.next = @ + 1]
            /\ UNCHANGED tclosed
       ELSE GiveUpSetup /\ UNCHANGED requests
    /\ UNCHANGED <<proc, inbox, reading, registry, conn, callVars, boundVars>>

\* _normalize_initialize_result, _normalize_tool_page: after the last page the tools of
\* all pages are the session's.
SetupHears ==
    /\ setup.pc = "wait" /\ inbox # <<>>
    /\ inbox' = Tail(inbox)
    /\ LET heard == Heard(Head(inbox), setup.id)
           more == setup.pages + 1 < Len(Remote)
       IN  CASE Head(inbox).says = "note" -> UNCHANGED <<setup, session, tclosed>>
             [] Head(inbox).says # "note" /\ heard # "ok" -> GiveUpSetup
             [] Head(inbox).says # "note" /\ heard = "ok" /\ session.state = "connected" ->
                    /\ session' = [session EXCEPT !.state = "initialized"]
                    /\ setup' = [setup EXCEPT !.pc = "ask"]
                    /\ UNCHANGED tclosed
             [] OTHER ->
                    /\ setup' = [setup EXCEPT !.pc = IF more THEN "ask" ELSE "register", !.pages = @ + 1]
                    /\ session' = IF more THEN session ELSE [session EXCEPT !.tools = AllRemote]
                    /\ UNCHANGED tclosed
    /\ UNCHANGED <<proc, requests, reading, registry, conn, callVars, boundVars>>

\* A server without tools, of another version, with a page or a cursor seen before or an
\* unsupported schema; or one that does not answer in time.
SetupRefused ==
    /\ setup.pc = "wait" /\ Mishap("no setup")
    /\ GiveUpSetup
    /\ UNCHANGED <<proc, requests, inbox, reading, registry, conn, callVars, invokes>>

\* All names or none; a collision closes the connection.
RegisterTools ==
    /\ setup.pc = "register"
    /\ IF AllRemote \cap registry # {} THEN GiveUpSetup /\ UNCHANGED <<registry, conn>>
       ELSE /\ registry' = registry \cup AllRemote
            /\ conn' = [conn EXCEPT !.made = TRUE]
            /\ setup' = [setup EXCEPT !.pc = "done"]
            /\ UNCHANGED <<session, tclosed>>
    /\ UNCHANGED <<proc, requests, inbox, reading, callVars, boundVars>>

-----------------------------------------------------------------------------
(* MCPRuntimeTool.execute and MCPRuntimeConnection.invoke *)

Ends(c, result) ==
    /\ caller' = [caller EXCEPT ![c] = [Resting EXCEPT !.result = result]]
    /\ conn' = [conn EXCEPT !.lock = IF @ = c THEN "free" ELSE @]

\* MCPRuntimeConnection.close.
EndsClosing(c, result) ==
    /\ caller' = [caller EXCEPT ![c] = [Resting EXCEPT !.result = result]]
    /\ conn' = [conn EXCEPT !.lock = IF @ = c THEN "free" ELSE @, !.closed = TRUE]
    /\ IF conn.closed THEN UNCHANGED <<session, tclosed>> ELSE CloseSession

\* Arguments that match the schema (or not, which ends here), then the permission.
Invoke(c, t) ==
    /\ conn.made /\ caller[c].pc = "idle" /\ worker[c].pc = "none" /\ invokes < MaxInvokes
    /\ invokes' = invokes + 1
    /\ IF t \notin Permitted THEN Ends(c, "denied")
       ELSE IF conn.closed THEN Ends(c, "closed")
       ELSE caller' = [caller EXCEPT ![c] = [pc |-> "lock", tool |-> t, result |-> "none"]] /\ UNCHANGED conn
    /\ UNCHANGED <<wireVars, session, setup, registry, worker, slips>>

\* _invoke_lock, and the check again under it; then the worker starts.
TakeLock(c) ==
    /\ caller[c].pc = "lock" /\ conn.lock = "free"
    /\ IF conn.closed THEN Ends(c, "closed") /\ UNCHANGED worker
       ELSE /\ conn' = [conn EXCEPT !.lock = c]
            /\ caller' = [caller EXCEPT ![c].pc = "poll"]
            /\ worker' = [worker EXCEPT ![c] = [Quiet EXCEPT !.pc = "call", !.tool = caller[c].tool]]
    /\ UNCHANGED <<wireVars, session, setup, registry, boundVars>>

CallEnds(w, got, from) == worker' = [worker EXCEPT ![w].pc = "over", ![w].got = got, ![w].from = from]

\* MCPClientSession.call up to the request.
WorkerAsks(w) ==
    /\ worker[w].pc = "call"
    /\ IF session.state # "initialized" \/ worker[w].tool \notin session.tools
       THEN CallEnds(w, "refused", "none") /\ UNCHANGED <<requests, session, tclosed>>
       ELSE IF ~Usable
       THEN CallEnds(w, "disconnected", "none") /\ Fails("disconnected") /\ UNCHANGED requests
       ELSE /\ requests' = requests \cup {[id |-> session.next, tool |-> worker[w].tool]}
            /\ worker' = [worker EXCEPT ![w].pc = "wait", ![w].id = session.next]
            /\ session' = [session EXCEPT !.next = @ + 1]
            /\ UNCHANGED tclosed
    /\ UNCHANGED <<proc, inbox, reading, setup, registry, conn, caller, boundVars>>

\* _read_response, _validate_response and _normalize_invocation_result.
WorkerHears(w) ==
    /\ worker[w].pc = "wait" /\ inbox # <<>>
    /\ inbox' = Tail(inbox)
    /\ IF Head(inbox).says = "note" THEN UNCHANGED <<worker, session, tclosed>>
       ELSE LET heard == Heard(Head(inbox), worker[w].id)
            IN  CallEnds(w, heard, Head(inbox).tool) /\ Fails(heard)
    /\ UNCHANGED <<proc, requests, reading, setup, registry, conn, caller, boundVars>>

\* _handle_timeout: the server is told, and may have answered by then.
WorkerTimesOut(w) ==
    /\ worker[w].pc = "wait" /\ "slow" \in Slips
    /\ CallEnds(w, "timeout", "none") /\ Fails("timeout")
    /\ \E gone \in SUBSET {r \in requests : r.id = worker[w].id} : requests' = requests \ gone
    /\ UNCHANGED <<proc, inbox, reading, setup, registry, conn, caller, boundVars>>

\* Mutant of Deadline: a call that timed out leaves the connection open.
DeadlineLeavesOpen(c) == Ends(c, "timeout") /\ UNCHANGED <<session, tclosed>>

\* The deadline of the caller, which the worker does not know of.
Deadline(c) == EndsClosing(c, "timeout")

CallerTimesOut(c) ==
    /\ caller[c].pc = "poll" /\ "slow" \in Slips
    /\ Deadline(c)
    /\ UNCHANGED <<proc, requests, inbox, reading, setup, registry, worker, boundVars>>

\* The stop token, seen before or after the outcome is there.
CallerCancelled(c) ==
    /\ caller[c].pc = "poll" /\ "stop" \in Slips
    /\ EndsClosing(c, "cancelled")
    /\ UNCHANGED <<proc, requests, inbox, reading, setup, registry, worker, boundVars>>

\* _success_result and _error_result, which closes for the errors of the transport.
CallerHears(c) ==
    /\ caller[c].pc = "poll" /\ worker[c].pc = "over"
    /\ IF worker[c].got \in TransportErrors THEN EndsClosing(c, worker[c].got)
       ELSE Ends(c, worker[c].got) /\ UNCHANGED <<session, tclosed>>
    /\ UNCHANGED <<proc, requests, inbox, reading, setup, registry, worker, boundVars>>

\* A worker nobody waits for any more ends.
WorkerGone(w) ==
    /\ worker[w].pc = "over" /\ caller[w].pc = "idle"
    /\ worker' = [worker EXCEPT ![w] = Quiet]
    /\ UNCHANGED <<wireVars, session, setup, registry, conn, caller, boundVars>>

\* The host closes the connection when it shuts down.
CloseConnection ==
    /\ conn.made /\ ~conn.closed /\ "stop" \in Slips
    /\ conn' = [conn EXCEPT !.closed = TRUE] /\ CloseSession
    /\ UNCHANGED <<proc, requests, inbox, reading, setup, registry, callVars, boundVars>>

-----------------------------------------------------------------------------
McInit ==
    /\ proc = "none" /\ requests = {} /\ inbox = <<>> /\ reading = FALSE /\ tclosed = FALSE
    /\ session = [state |-> "new", next |-> 1, tools |-> {}]
    /\ setup = [pc |-> "start", id |-> 0, pages |-> 0]
    /\ registry = Local
    /\ conn = [made |-> FALSE, closed |-> FALSE, lock |-> "free"]
    /\ caller = [c \in Callers |-> Resting]
    /\ worker = [c \in Callers |-> Quiet]
    /\ slips = 0 /\ invokes = 0

McNext ==
    \/ \E r \in requests : Answer(r)
    \/ Chatter \/ ServerEnds \/ Connect \/ SetupAsks \/ SetupHears \/ SetupRefused \/ RegisterTools \/ CloseConnection
    \/ \E c \in Callers :
          \/ \E t \in AllRemote : Invoke(c, t)
          \/ TakeLock(c) \/ WorkerAsks(c) \/ WorkerHears(c) \/ WorkerTimesOut(c)
          \/ CallerTimesOut(c) \/ CallerCancelled(c) \/ CallerHears(c) \/ WorkerGone(c)

McSpec == McInit /\ [][McNext]_mcVars

-----------------------------------------------------------------------------
(***************************************************************************)
(* A result belongs to the tool that was called, however late or out of turn  *)
(* the server answers.  An open connection has one request under way at most, *)
(* and when it has none, no answer is still to come that could meet the next  *)
(* request.  A connection that is closed, or that never came about, has told  *)
(* its server to end; the tools of a server are registered all or none.       *)
(***************************************************************************)
AtWork == {w \in Callers : worker[w].pc \in {"call", "wait"}}
ResultIsOfTheCall == \A w \in Callers : worker[w].got = "ok" => worker[w].from = worker[w].tool
OneRequest ==
    conn.made /\ ~conn.closed =>
        /\ Cardinality(AtWork) <= 1
        /\ AtWork = {} => /\ \/ requests = {}
                             \/ session.state = "failed"
                          /\ \A k \in DOMAIN inbox : inbox[k].id = 0 \/ session.state = "failed"
NothingLeft == (conn.closed \/ setup.pc = "failed") => tclosed
AllOrNone == IF conn.made THEN AllRemote \subseteq registry ELSE registry = Local
ConnectionSound == ResultIsOfTheCall /\ OneRequest /\ NothingLeft /\ AllOrNone
=============================================================================
