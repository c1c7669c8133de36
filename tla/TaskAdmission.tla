---------------------------- MODULE TaskAdmission ----------------------------
(***************************************************************************)
(* How a background task is admitted: TaskCreateTool and                   *)
(* TaskApplicationService.submit build a TaskSpec, minting a task_id when  *)
(* the caller gave none, and create_task (store.py) looks the idempotency  *)
(* key up, compares request digests and inserts, in one transaction.       *)
(*                                                                         *)
(* A caller whose answer is lost, an agent run resumed before the tool     *)
(* result was saved for instance, replays its request as it was.           *)
(***************************************************************************)
EXTENDS FiniteSets

CONSTANTS
    Callers,    \* tool calls, each with one request
    Keys,       \* idempotency keys
    NoKey,      \* idempotency_key is None
    Names,      \* task ids callers may choose
    NoName,     \* task_id omitted
    Minted,     \* task ids uuid4 can produce; it never produces one twice
    Contents,   \* everything else in a request
    Nothing     \* no row

ASSUME NamesAssumption ==
    /\ NoName \notin Names \cup Minted
    /\ Names \cap Minted = {}
    /\ NoKey \notin Keys

Ids == Names \cup Minted
Request == [key : Keys \cup {NoKey}, name : Names \cup {NoName}, content : Contents]

\* _spec_digest: every field of the spec but the key, the task_id among them.
Digest(id, content) == <<id, content>>
Answers == [kind : {"created", "existing"}, task : Ids] \cup [kind : {"conflict"}]

\* Neither a request, an answer nor a row looks like the absence of one.
ASSUME NothingAssumption ==
    /\ Nothing \notin Request \cup Answers
    /\ Nothing \notin [digest : Ids \X Contents, key : Keys \cup {NoKey}]
    /\ Nothing \notin [digest : Ids \X Contents, task : Ids]

VARIABLES
    tasks,    \* background_tasks: the digest and the key each was created with
    keyed,    \* background_task_idempotency: key to digest and task
    minted,   \* the task ids minted so far
    request,  \* the request of each caller, once it has made one
    answer,   \* the answer the caller has, or Nothing
    lost      \* history: the answers that never reached the caller

vars == <<tasks, keyed, minted, request, answer, lost>>

Init ==
    /\ tasks = [i \in Ids |-> Nothing]
    /\ keyed = [k \in Keys |-> Nothing]
    /\ minted = {}
    /\ request = [c \in Callers |-> Nothing]
    /\ answer = [c \in Callers |-> Nothing]
    /\ lost = [c \in Callers |-> {}]

Ask(c, r) ==
    /\ request[c] = Nothing
    /\ request' = [request EXCEPT ![c] = r]
    /\ UNCHANGED <<tasks, keyed, minted, answer, lost>>

\* The task_id of a request: the caller's, or a fresh one for every call.
TaskId(c, i) ==
    IF request[c].name = NoName THEN i \in Minted \ minted ELSE i = request[c].name

Answer(c, a) == answer' = [answer EXCEPT ![c] = a]

\* Mutants of KeyTaken: a task_id not seen before is always a new request, or the
\* task_id is looked up before the key.
KeyTakenByOldTask(k, i) == k # NoKey /\ keyed[k] # Nothing /\ tasks[i] # Nothing
KeyTakenByNewTask(k, i) == k # NoKey /\ keyed[k] # Nothing /\ tasks[i] = Nothing

KeyTaken(k, i) == k # NoKey /\ keyed[k] # Nothing

\* Mutant of Replayed: the key alone decides.
ReplayedByKey(k, d) == k \in Keys

Replayed(k, d) == keyed[k].digest = d

CreateTask(c, i) ==
    /\ request[c] # Nothing
    /\ answer[c] = Nothing
    /\ TaskId(c, i)
    /\ minted' = minted \cup ({i} \cap Minted)
    /\ LET k == request[c].key
           d == Digest(i, request[c].content)
       IN  \/ /\ KeyTaken(k, i)
              /\ Answer(c, IF Replayed(k, d)
                           THEN [kind |-> "existing", task |-> keyed[k].task]
                           ELSE [kind |-> "conflict"])
              /\ UNCHANGED <<tasks, keyed>>
           \/ /\ ~KeyTaken(k, i)
              /\ tasks[i] # Nothing
              /\ Answer(c, [kind |-> "conflict"])
              /\ UNCHANGED <<tasks, keyed>>
           \/ /\ ~KeyTaken(k, i)
              /\ tasks[i] = Nothing
              /\ tasks' = [tasks EXCEPT ![i] = [digest |-> d, key |-> k]]
              /\ keyed' = IF k = NoKey THEN keyed
                          ELSE [keyed EXCEPT ![k] = [digest |-> d, task |-> i]]
              /\ Answer(c, [kind |-> "created", task |-> i])
    /\ UNCHANGED <<request, lost>>

\* The answer is lost after the commit; the caller will send its request again.
LoseAnswer(c) ==
    /\ answer[c] # Nothing
    /\ lost' = [lost EXCEPT ![c] = @ \cup {answer[c]}]
    /\ answer' = [answer EXCEPT ![c] = Nothing]
    /\ UNCHANGED <<tasks, keyed, minted, request>>

Next ==
    \E c \in Callers :
        \/ \E r \in Request : Ask(c, r)
        \/ \E i \in Ids : CreateTask(c, i)
        \/ LoseAnswer(c)

Spec == Init /\ [][Next]_vars

-----------------------------------------------------------------------------
(* Properties *)

TypeOK ==
    /\ tasks \in [Ids -> [digest : Ids \X Contents, key : Keys \cup {NoKey}] \cup {Nothing}]
    /\ keyed \in [Keys -> [digest : Ids \X Contents, task : Ids] \cup {Nothing}]
    /\ minted \subseteq Minted
    /\ request \in [Callers -> Request \cup {Nothing}]
    /\ answer \in [Callers -> Answers \cup {Nothing}]
    /\ lost \in [Callers -> SUBSET Answers]

Heard(c) == lost[c] \cup ({answer[c]} \ {Nothing})
Accepted(c) == {a \in Heard(c) : a.kind # "conflict"}

\* An idempotency key stands for one task and one task only, and for the request it
\* was created by.
OneTaskPerKey ==
    \A i \in Ids : tasks[i] # Nothing /\ tasks[i].key # NoKey =>
        /\ keyed[tasks[i].key] # Nothing
        /\ keyed[tasks[i].key].task = i
        /\ keyed[tasks[i].key].digest = tasks[i].digest

\* Every task a caller was told of, in whichever of its attempts, holds what the
\* caller asked for; and callers that share a key were told of the same task.
AcceptedIsAsked ==
    \A c \in Callers : \A a \in Accepted(c) :
        /\ tasks[a.task] # Nothing
        /\ tasks[a.task].digest[2] = request[c].content
        /\ \A e \in Callers : \A b \in Accepted(e) :
               request[c].key = request[e].key /\ request[c].key # NoKey => b.task = a.task

\* Once accepted, a request is never refused: the two answers exclude each other.
NeverBoth(c) == [kind |-> "conflict"] \in Heard(c) => Accepted(c) = {}
Keyed(c) == request[c] # Nothing /\ request[c].key # NoKey

\* A caller that names its task and its key may replay the request as often as it
\* likes and is answered with the task it was first told of.
NamedReplayIsFound ==
    \A c \in Callers : Keyed(c) /\ request[c].name # NoName => NeverBoth(c)

\* A caller that gives a key may replay its request, whether it names the task or
\* leaves the task_id to the system.
ReplayIsFound == \A c \in Callers : Keyed(c) => NeverBoth(c)

\* Admission is sound: whoever asks, under which key or name, and however many answers
\* are lost, a key is one task, and callers are only told of what they asked for.
AdmissionSound == TypeOK /\ OneTaskPerKey /\ AcceptedIsAsked /\ NamedReplayIsFound
=============================================================================
