----------------------------- MODULE LspClient -----------------------------
(***************************************************************************)
(* One configured language server and the threads whose tools ask it: the    *)
(* manager that starts and restarts the server under its lock                *)
(* (src/src/paperclaw/lsp/manager.py), the JSON-RPC transport with its table  *)
(* of pending requests, its reader thread and its closing (client.py), and    *)
(* the tools, which open a document before they ask about it (tools.py).      *)
(*                                                                          *)
(* A server is started anew after it has exited; clients are numbered in the  *)
(* order of their starts, and a thread keeps the client it has resolved.      *)
(***************************************************************************)
EXTENDS Integers, FiniteSets

CONSTANTS
    Users,              \* threads whose tools use the server
    Ops,                \* of {"position", "symbols", "diagnostics"}
    Trouble,            \* what can go wrong with a server
    MaxUses, MaxTrouble, MaxStarts

\* "free" is the lock without an owner.
ASSUME LspAssumption == "free" \notin Users

VARIABLES
    client,     \* every LSPClient that was started, with its transport and its server
    current,    \* the client in the manager's table, 0 for none
    mlock,      \* who holds the manager's lock
    closer,     \* LSPManager.close: what it is doing, and the client it closes
    user,       \* every thread: its tool call and the response queue of its request
    uses, trouble

lspVars == <<client, current, mlock, closer, user, uses, trouble>>

\* A started server, whose first request is initialize.
Started0(u) ==
    [runs |-> TRUE, reads |-> TRUE, closed |-> FALSE, next |-> 2, pending |-> {[id |-> 1, who |-> u]},
     asked |-> {1}, opened |-> 0, sent |-> 0, shown |-> 0, publishes |-> 0]
AtRest ==
    [pc |-> "idle", op |-> "none", on |-> 0, id |-> 0, version |-> 0, seen |-> 0, got |-> "none", answers |-> 0]

Bother(kind) == kind \in Trouble /\ trouble < MaxTrouble /\ trouble' = trouble + 1

\* The result of the tool or what it raises; the thread keeps nothing of the call.
Finish(u) == user' = [user EXCEPT ![u] = AtRest]

-----------------------------------------------------------------------------
(* The server, the reader thread and the table of pending requests *)

\* The entry of the table whose response queue u waits at.
Entry(u) == [id |-> user[u].id, who |-> u]
Listed(u, g) == user[u].on = g /\ Entry(u) \in client[g].pending

\* _dispatch: whatever carries the id of a pending request is its response.
Deliver(g, id, says, answers) ==
    user' = [u \in Users |-> IF Listed(u, g) /\ user[u].id = id
                             THEN [user[u] EXCEPT !.got = says, !.answers = answers] ELSE user[u]]

Unlisted(g, id) == {e \in client[g].pending : e.id # id}
Reads(g) == client[g].runs /\ client[g].reads /\ ~client[g].closed

ServerAnswers(g, id) ==
    /\ Reads(g) /\ id \in client[g].asked
    /\ \/ Deliver(g, id, "result", id) /\ UNCHANGED trouble
       \/ Bother("error") /\ Deliver(g, id, "error", id)
    /\ client' = [client EXCEPT ![g].asked = @ \ {id}, ![g].pending = Unlisted(g, id)]
    /\ UNCHANGED <<current, mlock, closer, uses>>

\* A request of the server has an id of the server's own, which may be that of a pending one.
ServerRequests(g) ==
    /\ Reads(g) /\ Bother("request")
    /\ \E id \in 1..client[g].next :
          /\ Deliver(g, id, "nothing", 0)
          /\ client' = [client EXCEPT ![g].pending = Unlisted(g, id)]
    /\ UNCHANGED <<current, mlock, closer, uses>>

\* publishDiagnostics, for a version it has been sent.
Publishes(g) ==
    /\ Reads(g)
    /\ \E v \in client[g].shown + 1..client[g].sent :
          client' = [client EXCEPT ![g].shown = v, ![g].publishes = @ + 1]
    /\ UNCHANGED <<current, mlock, closer, user, uses, trouble>>

\* _fail_pending answers whoever is in the table, and empties it.
FailPending(g) ==
    user' = [u \in Users |-> IF Listed(u, g) THEN [user[u] EXCEPT !.got = "error"] ELSE user[u]]

\* The end of the stream, or a frame that is none, ends the reader thread.
ReaderStops(g) ==
    /\ Reads(g)
    /\ \/ Bother("bad frame") /\ client' = [client EXCEPT ![g].reads = FALSE, ![g].pending = {}]
       \/ Bother("exit") /\ client' = [client EXCEPT ![g].reads = FALSE, ![g].pending = {}, ![g].runs = FALSE]
    /\ FailPending(g)
    /\ UNCHANGED <<current, mlock, closer, uses>>

ExitsUnread(g) ==
    /\ client[g].runs /\ ~client[g].reads /\ Bother("exit")
    /\ client' = [client EXCEPT ![g].runs = FALSE]
    /\ UNCHANGED <<current, mlock, closer, user, uses>>

\* JsonRpcTransport.close: no more frames, the process ends, and then nobody waits.
Stop(c) == [c EXCEPT !.closed = TRUE, !.runs = FALSE]

-----------------------------------------------------------------------------
(* The tools *)

\* validate and resolve: arguments, a path within the workspace, a configured suffix.
AskServer(u, op) ==
    /\ user[u].pc = "idle" /\ uses < MaxUses
    /\ uses' = uses + 1
    /\ \/ Finish(u)
       \/ user' = [user EXCEPT ![u] = [AtRest EXCEPT !.pc = "resolve", !.op = op]]
    /\ UNCHANGED <<client, current, mlock, closer, trouble>>

AfterResolve(op) == IF op = "symbols" THEN "ask" ELSE IF op = "diagnostics" THEN "note" ELSE "open"
Resolved(u, g) == user' = [user EXCEPT ![u].pc = AfterResolve(user[u].op), ![u].on = g]

\* _client: the one in the table while its process runs.
UseClient(u) ==
    /\ user[u].pc = "resolve" /\ mlock = "free" /\ current # 0 /\ client[current].runs
    /\ Resolved(u, current)
    /\ UNCHANGED <<client, current, mlock, closer, uses, trouble>>

\* It is closed when the process has exited, which keeps the lock until nobody waits for it.
ReplaceClient(u) ==
    /\ user[u].pc = "resolve" /\ mlock = "free" /\ current # 0 /\ ~client[current].runs
    /\ mlock' = u
    /\ client' = [client EXCEPT ![current] = Stop(@)]
    /\ user' = [user EXCEPT ![u].pc = "replace", ![u].on = current]
    /\ UNCHANGED <<current, closer, uses, trouble>>

Replaced(u) ==
    /\ user[u].pc = "replace"
    /\ user' = [w \in Users |->
                  IF w = u THEN [user[u] EXCEPT !.pc = "start"]
                  ELSE IF Listed(w, user[u].on) THEN [user[w] EXCEPT !.got = "error"]
                  ELSE user[w]]
    /\ client' = [client EXCEPT ![user[u].on].pending = {}]
    /\ current' = 0
    /\ UNCHANGED <<mlock, closer, uses, trouble>>

TakeManager(u) ==
    /\ user[u].pc = "resolve" /\ mlock = "free" /\ current = 0
    /\ mlock' = u
    /\ user' = [user EXCEPT ![u].pc = "start"]
    /\ UNCHANGED <<client, current, closer, uses, trouble>>

\* LSPClient.__init__ up to its first request.
StartServer(u) ==
    /\ user[u].pc = "start" /\ Cardinality(DOMAIN client) < MaxStarts
    /\ LET g == Cardinality(DOMAIN client) + 1
       IN  \/ /\ client' = [k \in DOMAIN client \cup {g} |-> IF k = g THEN Started0(u) ELSE client[k]]
              /\ user' = [user EXCEPT ![u].pc = "init", ![u].on = g, ![u].id = 1]
              /\ UNCHANGED <<mlock, trouble>>
           \/ Bother("no server") /\ Finish(u) /\ mlock' = "free" /\ UNCHANGED client
    /\ UNCHANGED <<current, closer, uses>>

\* An initialize that fails raises out of the constructor; nothing closes the transport.
Initialized(u) ==
    /\ user[u].pc = "init" /\ user[u].got # "none"
    /\ mlock' = "free"
    /\ IF user[u].got = "error" \/ ~client[user[u].on].runs THEN Finish(u) /\ UNCHANGED current
       ELSE /\ current' = user[u].on
            /\ user' = [user EXCEPT ![u].pc = AfterResolve(user[u].op), ![u].got = "none"]
    /\ UNCHANGED <<client, closer, uses, trouble>>

\* Mutant of TimesOut: a request that timed out stays in the table.
StaysListed(u) ==
    /\ client' = client
    /\ Finish(u)

\* request after queue.Empty.
TimesOut(u) ==
    /\ client' = [client EXCEPT ![user[u].on].pending = Unlisted(user[u].on, user[u].id)]
    /\ Finish(u)

InitTimesOut(u) ==
    /\ user[u].pc = "init" /\ user[u].got = "none" /\ Bother("slow")
    /\ TimesOut(u) /\ mlock' = "free"
    /\ UNCHANGED <<current, closer, uses>>

\* diagnostics: the publications so far, before the document is opened.
NotePublications(u) ==
    /\ user[u].pc = "note"
    /\ user' = [user EXCEPT ![u].pc = "open", ![u].seen = client[user[u].on].publishes]
    /\ UNCHANGED <<client, current, mlock, closer, uses, trouble>>

Answerable(g) == client[g].runs /\ ~client[g].closed

\* open_document counts the versions without a lock; then it sends the text it has read.
CountVersion(u) ==
    /\ user[u].pc = "open"
    /\ client' = [client EXCEPT ![user[u].on].opened = @ + 1]
    /\ user' = [user EXCEPT ![u].pc = "send text", ![u].version = client[user[u].on].opened + 1]
    /\ UNCHANGED <<current, mlock, closer, uses, trouble>>

SendText(u) ==
    /\ user[u].pc = "send text"
    /\ IF Answerable(user[u].on)
       THEN /\ client' = [client EXCEPT ![user[u].on].sent = user[u].version]
            /\ user' = [user EXCEPT ![u].pc = IF user[u].op = "diagnostics" THEN "look" ELSE "ask"]
       ELSE Finish(u) /\ UNCHANGED client
    /\ UNCHANGED <<current, mlock, closer, uses, trouble>>

\* What the server has published by the deadline, if only before the call.
Look(u) ==
    /\ user[u].pc = "look"
    /\ \/ client[user[u].on].publishes > user[u].seen /\ UNCHANGED trouble
       \/ Bother("slow")
    /\ Finish(u)
    /\ UNCHANGED <<client, current, mlock, closer, uses>>

\* request: the entry of the table, then the frame, which raises when the server is gone.
ListRequest(u) ==
    /\ user[u].pc = "ask"
    /\ client' = [client EXCEPT ![user[u].on].pending = @ \cup {[id |-> client[user[u].on].next, who |-> u]},
                                ![user[u].on].next = @ + 1]
    /\ user' = [user EXCEPT ![u].pc = "send", ![u].id = client[user[u].on].next]
    /\ UNCHANGED <<current, mlock, closer, uses, trouble>>

SendRequest(u) ==
    /\ user[u].pc = "send"
    /\ IF Answerable(user[u].on)
       THEN /\ client' = [client EXCEPT ![user[u].on].asked = @ \cup {user[u].id}]
            /\ user' = [user EXCEPT ![u].pc = "wait"]
       ELSE Finish(u) /\ UNCHANGED client
    /\ UNCHANGED <<current, mlock, closer, uses, trouble>>

HearResponse(u) ==
    /\ user[u].pc = "wait" /\ user[u].got # "none"
    /\ Finish(u)
    /\ UNCHANGED <<client, current, mlock, closer, uses, trouble>>

RequestTimesOut(u) ==
    /\ user[u].pc = "wait" /\ user[u].got = "none"
    /\ IF Reads(user[u].on) THEN Bother("slow") ELSE UNCHANGED trouble
    /\ TimesOut(u)
    /\ UNCHANGED <<current, mlock, closer, uses>>

-----------------------------------------------------------------------------
(* LSPManager.close *)

TakeTable ==
    /\ closer.pc = "start" /\ mlock = "free"
    /\ closer' = [pc |-> IF current = 0 THEN "over" ELSE "close", on |-> current]
    /\ current' = 0
    /\ UNCHANGED <<client, mlock, user, uses, trouble>>

\* shutdown and exit, answered or not, then the transport.
CloseTransport ==
    /\ closer.pc = "close"
    /\ client' = [client EXCEPT ![closer.on] = Stop(@)]
    /\ closer' = [closer EXCEPT !.pc = "fail"]
    /\ UNCHANGED <<current, mlock, user, uses, trouble>>

Closed ==
    /\ closer.pc = "fail"
    /\ FailPending(closer.on)
    /\ client' = [client EXCEPT ![closer.on].pending = {}]
    /\ closer' = [closer EXCEPT !.pc = "over"]
    /\ UNCHANGED <<current, mlock, uses, trouble>>

-----------------------------------------------------------------------------
LspInit ==
    /\ client = [g \in {} |-> Started0("none")] /\ current = 0 /\ mlock = "free"
    /\ closer = [pc |-> "start", on |-> 0]
    /\ user = [u \in Users |-> AtRest]
    /\ uses = 0 /\ trouble = 0

LspNext ==
    \/ \E g \in DOMAIN client :
          \/ \E id \in client[g].asked : ServerAnswers(g, id)
          \/ ServerRequests(g) \/ Publishes(g) \/ ReaderStops(g) \/ ExitsUnread(g)
    \/ \E u \in Users :
          \/ \E op \in Ops : AskServer(u, op)
          \/ UseClient(u) \/ ReplaceClient(u) \/ Replaced(u) \/ TakeManager(u) \/ StartServer(u)
          \/ Initialized(u) \/ InitTimesOut(u) \/ NotePublications(u) \/ CountVersion(u) \/ SendText(u)
          \/ Look(u) \/ ListRequest(u) \/ SendRequest(u) \/ HearResponse(u) \/ RequestTimesOut(u)
    \/ TakeTable \/ CloseTransport \/ Closed

LspSpec == LspInit /\ [][LspNext]_lspVars

-----------------------------------------------------------------------------
(***************************************************************************)
(* Whoever waits for a response is listed in its client's table or has      *)
(* been answered, with a response or an error: what empties a table         *)
(* answers every request it lists. (A thread that lists its request after   *)
(* the reader thread has ended is answered by nobody, and waits for its     *)
(* deadline: _request does not look at the reader, and _get_client hands    *)
(* out a client whose process is alive.) While the server can answer, a     *)
(* table holds no request of a thread that has gone. A response, when it    *)
(* is one, answers the request that waited for it. The thread that starts,  *)
(* replaces or initializes a client is the one that holds the manager's     *)
(* lock. The manager's client is open, or is about to be replaced.          *)
(***************************************************************************)
Waiting(u) == user[u].pc \in {"init", "wait", "send"}
HeardOf == \A u \in Users : Waiting(u) => user[u].got # "none" \/ Listed(u, user[u].on)
NoneForgotten ==
    \A g \in DOMAIN client : Answerable(g) =>
        \A e \in client[g].pending : Waiting(e.who) /\ Listed(e.who, g) /\ user[e.who].id = e.id
OwnResponse == \A u \in Users : Waiting(u) /\ user[u].got = "result" => user[u].answers = user[u].id
OneLockHolder == \A u \in Users : (user[u].pc \in {"replace", "start", "init"}) <=> mlock = u
InTheTable == current # 0 => ~client[current].closed \/ \E u \in Users : user[u].pc = "replace"
LspSound == HeardOf /\ NoneForgotten /\ OwnResponse /\ OneLockHolder /\ InTheTable
=============================================================================
