------------------------ MODULE TaskAdmissionProofs ------------------------
(***************************************************************************)
(* Proofs about what answers a repeated call by its key: TaskAdmission, for*)
(* every set of callers, keys, names, minted ids and contents, ArtifactStore,*)
(* for every set of processes, keys and contents, and ApplicationRuns, for *)
(* every set of runs, keys and engines.                                    *)
(*                                                                         *)
(* What callers were told says nothing of rows by itself.  AdmissionInv    *)
(* ties an acceptance to the row it named, which is never written again,   *)
(* and a refusal to the row or the key that stood in its way.              *)
(*                                                                         *)
(* What the tables of artifacts say of files is kept by processes that     *)
(* have looked at a file or a row some steps ago.  AsInv says what each    *)
(* process still knows of them, and that one process writes at a time.     *)
(*                                                                         *)
(* A run of the application is moved by its thread, by callers that cancel *)
(* it and by its engine.  ApInv says at each place of the thread what the  *)
(* others may have done to the record by then.                             *)
(***************************************************************************)
EXTENDS TaskAdmission, ArtifactStore, ApplicationRuns, FiniteSetTheorems, SequenceTheorems, TLAPS

Row == [digest : Ids \X Contents, key : Keys \cup {NoKey}]
Entry == [digest : Ids \X Contents, task : Ids]
Conflict == [kind |-> "conflict"]

\* A key leads to the row that was created with it.
KeysLeadToRows ==
    \A k \in Keys : keyed[k] # Nothing =>
        /\ tasks[keyed[k].task] # Nothing
        /\ tasks[keyed[k].task].key = k
        /\ tasks[keyed[k].task].digest = keyed[k].digest
        /\ keyed[k].digest[1] = keyed[k].task

\* Only callers that have asked were told anything.
AskedFirst == \A c \in Callers : request[c] = Nothing => Heard(c) = {}

\* Who was accepted was told of a row with its own content and key, and name if it
\* gave one.
Grants(c, a) ==
    /\ a.task \in Ids /\ tasks[a.task] # Nothing
    /\ tasks[a.task].digest = <<a.task, request[c].content>>
    /\ tasks[a.task].key = request[c].key
    /\ request[c].name # NoName => a.task = request[c].name
Granted == \A c \in Callers : \A a \in Accepted(c) : Grants(c, a)

\* Who was refused, with a name and a key of its own, finds the name under another
\* key or the key on another request, now and for ever.
InTheWay(r) ==
    \/ tasks[r.name] # Nothing /\ tasks[r.name].key # r.key
    \/ keyed[r.key] # Nothing /\ keyed[r.key].digest # Digest(r.name, r.content)
Refused == \A c \in Callers :
    Keyed(c) /\ request[c].name # NoName /\ Conflict \in Heard(c) => InTheWay(request[c])

AdmissionInv ==
    TypeOK /\ OneTaskPerKey /\ KeysLeadToRows /\ AskedFirst /\ Granted /\ Refused

-----------------------------------------------------------------------------
(* Answers *)

\* An answer that says "conflict" is the conflict; the others name a task.
LEMMA AnswerKinds ==
    ASSUME NEW a \in Answers
    PROVE  /\ a.kind = "conflict" <=> a = Conflict
           /\ a.kind # "conflict" => a.task \in Ids
<1>1. CASE a \in [kind : {"created", "existing"}, task : Ids]
  <2>1. a.kind # "conflict" /\ a.task \in Ids
    BY <1>1
  <2> QED BY <2>1 DEF Conflict
<1>2. CASE a \in [kind : {"conflict"}]
  <2>1. a = Conflict
    BY <1>2 DEF Conflict
  <2> QED BY <2>1 DEF Conflict
<1> QED BY <1>1, <1>2 DEF Answers

\* The invariant says everything callers rely on.
LEMMA InvIsSound == AdmissionInv => AdmissionSound
<1> SUFFICES ASSUME AdmissionInv PROVE AdmissionSound
  OBVIOUS
<1>1. TypeOK /\ OneTaskPerKey /\ KeysLeadToRows /\ Granted /\ Refused /\ AskedFirst
  BY DEF AdmissionInv
<1>2. ASSUME NEW c \in Callers, NEW a \in Accepted(c)
      PROVE  Grants(c, a) /\ request[c] # Nothing /\ request[c] \in Request
  <2>1. request[c] # Nothing
    BY <1>1 DEF AskedFirst, Accepted
  <2> QED BY <1>1, <2>1 DEF Granted, TypeOK
<1>3. ASSUME NEW c \in Callers, NEW a \in Accepted(c), request[c].key # NoKey
      PROVE  /\ request[c].key \in Keys /\ keyed[request[c].key] # Nothing
             /\ keyed[request[c].key].task = a.task
             /\ keyed[request[c].key].digest = <<a.task, request[c].content>>
  BY <1>1, <1>2, <1>3 DEF Grants, OneTaskPerKey, Request
<1>4. AcceptedIsAsked
  <2> SUFFICES ASSUME NEW c \in Callers, NEW a \in Accepted(c)
               PROVE  /\ tasks[a.task] # Nothing
                      /\ tasks[a.task].digest[2] = request[c].content
                      /\ \A e \in Callers : \A b \in Accepted(e) :
                             request[c].key = request[e].key /\ request[c].key # NoKey
                                 => b.task = a.task
    BY DEF AcceptedIsAsked
  <2>1. tasks[a.task] # Nothing /\ tasks[a.task].digest = <<a.task, request[c].content>>
    BY <1>2 DEF Grants
  <2>2. tasks[a.task].digest[2] = request[c].content
    BY <2>1
  <2>3. ASSUME NEW e \in Callers, NEW b \in Accepted(e),
               request[c].key = request[e].key, request[c].key # NoKey
        PROVE  b.task = a.task
    <3>1. keyed[request[c].key].task = a.task
      BY <1>3, <2>3
    <3>2. keyed[request[e].key].task = b.task
      BY <1>3, <2>3
    <3> QED BY <2>3, <3>1, <3>2
  <2> QED BY <2>1, <2>2, <2>3
<1>5. NamedReplayIsFound
  <2> SUFFICES ASSUME NEW c \in Callers, Keyed(c), request[c].name # NoName,
                      Conflict \in Heard(c), NEW a \in Accepted(c)
               PROVE  FALSE
    BY DEF NamedReplayIsFound, NeverBoth, Conflict
  <2>1. InTheWay(request[c])
    BY <1>1 DEF Refused
  <2>2. Grants(c, a) /\ request[c] \in Request /\ request[c].key # NoKey
    BY <1>2 DEF Keyed
  <2>3. keyed[request[c].key].task = a.task
        /\ keyed[request[c].key].digest = <<a.task, request[c].content>>
    BY <1>3, <2>2
  <2> QED BY <2>1, <2>2, <2>3 DEF InTheWay, Grants, Digest
<1> QED BY <1>1, <1>4, <1>5 DEF AdmissionSound

-----------------------------------------------------------------------------
(* The inductive invariant *)

\* Before anybody has asked there is nothing to keep.
LEMMA InitAdmission == Init => AdmissionInv
<1> SUFFICES ASSUME Init PROVE AdmissionInv
  OBVIOUS
<1>1. \A c \in Callers : Heard(c) = {}
  BY DEF Init, Heard
<1>2. TypeOK
  BY DEF Init, TypeOK
<1>3. OneTaskPerKey /\ KeysLeadToRows
  BY DEF Init, OneTaskPerKey, KeysLeadToRows
<1>4. AskedFirst /\ Granted /\ Refused
  BY <1>1 DEF AskedFirst, Granted, Refused, Accepted
<1> QED BY <1>2, <1>3, <1>4 DEF AdmissionInv

\* A caller that asks has heard nothing yet.
LEMMA AskKeeps ==
    ASSUME AdmissionInv, NEW c \in Callers, NEW r \in Request, Ask(c, r)
    PROVE  AdmissionInv'
<1> USE DEF AdmissionInv
<1>1. tasks' = tasks /\ keyed' = keyed
  BY DEF Ask
<1>2. \A e \in Callers : Heard(e)' = Heard(e) /\ Accepted(e)' = Accepted(e)
  BY DEF Ask, Heard, Accepted
<1>3. r # Nothing
  BY NothingAssumption
<1>4. \A e \in Callers : request'[e] = IF e = c THEN r ELSE request[e]
  BY DEF Ask, TypeOK
<1>5. Heard(c) = {} /\ Accepted(c) = {}
  BY DEF Ask, AskedFirst, Accepted
<1>6. TypeOK'
  BY DEF Ask, TypeOK
<1>7. OneTaskPerKey' /\ KeysLeadToRows'
  BY <1>1 DEF OneTaskPerKey, KeysLeadToRows
<1>8. AskedFirst'
  BY <1>2, <1>3, <1>4 DEF AskedFirst
<1>9. Granted'
  BY <1>1, <1>2, <1>4, <1>5 DEF Granted, Grants
<1>10. Refused'
  BY <1>1, <1>2, <1>4, <1>5 DEF Refused, Keyed, InTheWay
<1> QED BY <1>6, <1>7, <1>8, <1>9, <1>10

\* A lost answer is one the caller was sent all the same.
LEMMA LoseKeeps ==
    ASSUME AdmissionInv, NEW c \in Callers, LoseAnswer(c)
    PROVE  AdmissionInv'
<1> USE DEF AdmissionInv
<1>1. tasks' = tasks /\ keyed' = keyed /\ request' = request
  BY DEF LoseAnswer
<1>2. answer[c] \in Answers /\ answer[c] # Nothing
  BY DEF LoseAnswer, TypeOK
<1>3. \A e \in Callers : Heard(e)' = Heard(e) /\ Accepted(e)' = Accepted(e)
  <2>1. \A e \in Callers :
          /\ lost'[e] = IF e = c THEN lost[c] \cup {answer[c]} ELSE lost[e]
          /\ answer'[e] = IF e = c THEN Nothing ELSE answer[e]
    BY DEF LoseAnswer, TypeOK
  <2>2. \A e \in Callers : Heard(e)' = Heard(e)
    BY <1>2, <2>1 DEF Heard
  <2> QED BY <2>2 DEF Accepted
<1>4. TypeOK'
  BY <1>2 DEF LoseAnswer, TypeOK
<1>5. OneTaskPerKey' /\ KeysLeadToRows'
  BY <1>1 DEF OneTaskPerKey, KeysLeadToRows
<1>6. AskedFirst' /\ Granted' /\ Refused'
  BY <1>1, <1>3 DEF AskedFirst, Granted, Grants, Refused, Keyed, InTheWay
<1> QED BY <1>4, <1>5, <1>6

\* What one call of create_task does to the rows and the keys: nothing, or it adds a
\* row under an id that was free, with a key that was free.
Added(i, d, k) ==
    /\ tasks[i] = Nothing /\ (k # NoKey => keyed[k] = Nothing)
    /\ tasks' = [tasks EXCEPT ![i] = [digest |-> d, key |-> k]]
    /\ keyed' = IF k = NoKey THEN keyed
                ELSE [keyed EXCEPT ![k] = [digest |-> d, task |-> i]]

\* Rows and keys that are there stay as they are.
LEMMA AddedKeepsOld ==
    ASSUME TypeOK, NEW i \in Ids, NEW x \in Contents, NEW k \in Keys \cup {NoKey},
           Added(i, Digest(i, x), k)
    PROVE  /\ \A j \in Ids : tasks'[j] = IF j = i THEN [digest |-> Digest(i, x), key |-> k]
                                         ELSE tasks[j]
           /\ \A q \in Keys : keyed'[q] = IF q = k THEN [digest |-> Digest(i, x), task |-> i]
                                          ELSE keyed[q]
           /\ [digest |-> Digest(i, x), key |-> k] # Nothing
           /\ [digest |-> Digest(i, x), task |-> i] # Nothing
           /\ tasks' \in [Ids -> Row \cup {Nothing}]
           /\ keyed' \in [Keys -> Entry \cup {Nothing}]
<1>1. Digest(i, x) \in Ids \X Contents
  BY DEF Digest
<1>2. [digest |-> Digest(i, x), key |-> k] \in Row /\ [digest |-> Digest(i, x), task |-> i] \in Entry
  BY <1>1 DEF Row, Entry
<1>3. tasks \in [Ids -> Row \cup {Nothing}] /\ keyed \in [Keys -> Entry \cup {Nothing}]
  BY DEF TypeOK, Row, Entry
<1>4. Nothing \notin Row /\ Nothing \notin Entry
  BY NothingAssumption DEF Row, Entry
<1>5. k = NoKey => \A q \in Keys : q # k
  BY NamesAssumption
<1> HIDE DEF Row, Entry
<1>6. tasks' \in [Ids -> Row \cup {Nothing}]
      /\ \A j \in Ids : tasks'[j] = IF j = i THEN [digest |-> Digest(i, x), key |-> k]
                                    ELSE tasks[j]
  BY <1>2, <1>3 DEF Added
<1>7. CASE k = NoKey
  BY <1>2, <1>3, <1>4, <1>5, <1>6, <1>7 DEF Added
<1>8. CASE k # NoKey
  <2>1. k \in Keys
    BY <1>8
  <2>2. keyed' \in [Keys -> Entry \cup {Nothing}]
        /\ \A q \in Keys : keyed'[q] = IF q = k THEN [digest |-> Digest(i, x), task |-> i]
                                       ELSE keyed[q]
    BY <1>2, <1>3, <1>8, <2>1 DEF Added
  <2> QED BY <1>2, <1>4, <1>6, <2>2
<1> QED BY <1>7, <1>8

\* The new row is what was asked for.
LEMMA AddedRow ==
    ASSUME TypeOK, NEW i \in Ids, NEW x \in Contents, NEW k \in Keys \cup {NoKey},
           Added(i, Digest(i, x), k)
    PROVE  tasks'[i] # Nothing /\ tasks'[i].digest = Digest(i, x) /\ tasks'[i].key = k
<1> DEFINE new == [digest |-> Digest(i, x), key |-> k]
           entry == [digest |-> Digest(i, x), task |-> i]
<1>1. /\ \A j \in Ids : tasks'[j] = IF j = i THEN new ELSE tasks[j]
      /\ \A q \in Keys : keyed'[q] = IF q = k THEN entry ELSE keyed[q]
      /\ new # Nothing /\ entry # Nothing
  BY AddedKeepsOld
<1>2. new.digest = Digest(i, x) /\ new.key = k
  OBVIOUS
<1> HIDE DEF new
<1> QED BY <1>1, <1>2

\* A new row keeps what is said of rows, keys and earlier answers.
LEMMA AddedKeeps ==
    ASSUME AdmissionInv, NEW i \in Ids, NEW x \in Contents, NEW k \in Keys \cup {NoKey},
           Added(i, Digest(i, x), k), request' = request
    PROVE  /\ OneTaskPerKey' /\ KeysLeadToRows'
           /\ \A c \in Callers, a \in Answers : Grants(c, a) => Grants(c, a)'
           /\ \A r \in Request : r.name \in Ids /\ r.key \in Keys /\ InTheWay(r) => InTheWay(r)'
<1> USE DEF AdmissionInv
<1> DEFINE row == [digest |-> Digest(i, x), key |-> k]
           entry == [digest |-> Digest(i, x), task |-> i]
<1>1. /\ \A j \in Ids : tasks'[j] = IF j = i THEN row ELSE tasks[j]
      /\ \A q \in Keys : keyed'[q] = IF q = k THEN entry ELSE keyed[q]
      /\ row # Nothing /\ entry # Nothing
  BY AddedKeepsOld
<1>2. tasks[i] = Nothing /\ (k \in Keys => keyed[k] = Nothing)
  BY NamesAssumption DEF Added
<1>3. row.key = k /\ row.digest = Digest(i, x) /\ entry.task = i /\ entry.digest = Digest(i, x)
      /\ Digest(i, x)[1] = i
  BY DEF Digest
<1>4. \A q \in Keys : keyed[q] # Nothing => keyed[q].task \in Ids
  BY DEF TypeOK
<1>5. \A j \in Ids : tasks[j] # Nothing => tasks[j].key \in Keys \cup {NoKey}
  BY DEF TypeOK
<1> HIDE DEF row, entry
<1>6. OneTaskPerKey'
  <2> SUFFICES ASSUME NEW j \in Ids, tasks'[j] # Nothing, tasks'[j].key # NoKey
               PROVE  /\ keyed'[tasks'[j].key] # Nothing
                      /\ keyed'[tasks'[j].key].task = j
                      /\ keyed'[tasks'[j].key].digest = tasks'[j].digest
    BY DEF OneTaskPerKey
  <2>1. CASE j = i
    BY <1>1, <1>3, <2>1
  <2>2. CASE j # i
    <3>1. tasks'[j] = tasks[j] /\ tasks[j].key \in Keys
      BY <1>1, <1>5, <2>2
    <3>2. tasks[j].key # k
      BY <1>2, <3>1 DEF OneTaskPerKey
    <3> QED BY <1>1, <3>1, <3>2 DEF OneTaskPerKey
  <2> QED BY <2>1, <2>2
<1>7. KeysLeadToRows'
  <2> SUFFICES ASSUME NEW q \in Keys, keyed'[q] # Nothing
               PROVE  /\ tasks'[keyed'[q].task] # Nothing
                      /\ tasks'[keyed'[q].task].key = q
                      /\ tasks'[keyed'[q].task].digest = keyed'[q].digest
                      /\ keyed'[q].digest[1] = keyed'[q].task
    BY DEF KeysLeadToRows
  <2>1. CASE q = k
    BY <1>1, <1>3, <2>1
  <2>2. CASE q # k
    <3>1. keyed'[q] = keyed[q] /\ keyed[q].task \in Ids /\ keyed[q].task # i
      BY <1>1, <1>2, <1>4, <2>2 DEF KeysLeadToRows
    <3> QED BY <1>1, <3>1, <2>2 DEF KeysLeadToRows
  <2> QED BY <2>1, <2>2
<1>8. \A c \in Callers, a \in Answers : Grants(c, a) => Grants(c, a)'
  BY <1>1, <1>2 DEF Grants
<1>9. \A r \in Request : r.name \in Ids /\ r.key \in Keys /\ InTheWay(r) => InTheWay(r)'
  BY <1>1, <1>2 DEF InTheWay
<1> QED BY <1>6, <1>7, <1>8, <1>9

\* A call of create_task keeps the invariant, whatever it answers.
LEMMA CreateKeeps ==
    ASSUME AdmissionInv, NEW c \in Callers, NEW i \in Ids, CreateTask(c, i)
    PROVE  AdmissionInv'
<1> USE DEF AdmissionInv
<1> DEFINE r == request[c]
           k == r.key
           x == r.content
           d == Digest(i, x)
           existing == [kind |-> "existing", task |-> keyed[k].task]
           created == [kind |-> "created", task |-> i]
<1>1. r \in Request /\ k \in Keys \cup {NoKey} /\ x \in Contents /\ r.name \in Names \cup {NoName}
  BY DEF CreateTask, TypeOK, Request
<1>2. request' = request /\ lost' = lost /\ answer[c] = Nothing
      /\ minted' \subseteq Minted
  BY DEF CreateTask, TypeOK
<1>3. r.name # NoName => i = r.name
  BY DEF CreateTask, TaskId
<1>4. PICK a \in Answers :
        /\ answer' = [answer EXCEPT ![c] = a]
        /\ \/ /\ k \in Keys /\ keyed[k] # Nothing /\ keyed[k].digest = d /\ a = existing
              /\ UNCHANGED <<tasks, keyed>>
           \/ /\ k \in Keys /\ keyed[k] # Nothing /\ keyed[k].digest # d /\ a = Conflict
              /\ UNCHANGED <<tasks, keyed>>
           \/ /\ ~KeyTaken(k, i) /\ tasks[i] # Nothing /\ a = Conflict
              /\ UNCHANGED <<tasks, keyed>>
           \/ Added(i, d, k) /\ a = created
  <2>1. CASE KeyTaken(k, i)
    <3>1. k \in Keys /\ keyed[k] # Nothing /\ UNCHANGED <<tasks, keyed>>
          /\ Answer(c, IF Replayed(k, d) THEN existing ELSE Conflict)
      BY <1>1, <2>1 DEF CreateTask, KeyTaken, Conflict
    <3>2. keyed[k].task \in Ids
      BY <3>1 DEF TypeOK
    <3>3. existing \in Answers /\ Conflict \in Answers
      BY <3>2 DEF Answers, Conflict
    <3> QED BY <3>1, <3>3 DEF Answer, Replayed
  <2>2. CASE ~KeyTaken(k, i) /\ tasks[i] # Nothing
    <3>1. UNCHANGED <<tasks, keyed>> /\ Answer(c, Conflict)
      BY <2>2 DEF CreateTask, Conflict
    <3>2. Conflict \in Answers
      BY DEF Answers, Conflict
    <3> QED BY <2>2, <3>1, <3>2 DEF Answer
  <2>3. CASE ~KeyTaken(k, i) /\ tasks[i] = Nothing
    <3>1. Added(i, d, k) /\ Answer(c, created)
      BY <2>3 DEF CreateTask, Added, KeyTaken
    <3>2. created \in Answers
      BY DEF Answers
    <3> QED BY <3>1, <3>2 DEF Answer
  <2> QED BY <2>1, <2>2, <2>3
<1>5. a # Nothing
  BY NothingAssumption
<1>6. \A e \in Callers : Heard(e)' = IF e = c THEN Heard(c) \cup {a} ELSE Heard(e)
  <2>1. \A e \in Callers : answer'[e] = IF e = c THEN a ELSE answer[e]
    BY <1>4 DEF TypeOK
  <2> QED BY <1>2, <1>5, <2>1 DEF Heard
<1>7. TypeOK'
  <2>1. tasks' \in [Ids -> Row \cup {Nothing}] /\ keyed' \in [Keys -> Entry \cup {Nothing}]
    <3>1. CASE UNCHANGED <<tasks, keyed>>
      BY <3>1 DEF TypeOK, Row, Entry
    <3>2. CASE Added(i, d, k)
      BY <1>1, <3>2, AddedKeepsOld
    <3> QED BY <1>4, <3>1, <3>2
  <2>2. answer' \in [Callers -> Answers \cup {Nothing}]
    BY <1>4 DEF TypeOK
  <2> QED BY <1>2, <2>1, <2>2 DEF TypeOK, Row, Entry
<1>8. /\ OneTaskPerKey' /\ KeysLeadToRows'
      /\ \A e \in Callers, b \in Answers : Grants(e, b) => Grants(e, b)'
      /\ \A q \in Request : q.name \in Ids /\ q.key \in Keys /\ InTheWay(q) => InTheWay(q)'
  <2>1. CASE UNCHANGED <<tasks, keyed>>
    BY <1>2, <2>1 DEF OneTaskPerKey, KeysLeadToRows, Grants, InTheWay
  <2>2. CASE Added(i, d, k)
    BY <1>1, <1>2, <2>2, AddedKeeps
  <2> QED BY <1>4, <2>1, <2>2
<1>9. AskedFirst'
  <2>1. request[c] # Nothing
    BY DEF CreateTask
  <2> QED BY <1>2, <1>6, <2>1 DEF AskedFirst
<1>10. \A e \in Callers : Heard(e) \subseteq Answers
  BY DEF Heard, TypeOK
<1>11. a.kind # "conflict" => Grants(c, a)'
  <2>1. CASE /\ k \in Keys /\ keyed[k] # Nothing /\ keyed[k].digest = d /\ a = existing
             /\ UNCHANGED <<tasks, keyed>>
    <3>1. keyed[k].task = i /\ a.task = i
      <4>1. keyed[k].digest[1] = keyed[k].task /\ d[1] = i
        BY <2>1 DEF KeysLeadToRows, Digest
      <4> QED BY <2>1, <4>1
    <3>2. tasks[i] # Nothing /\ tasks[i].key = k /\ tasks[i].digest = d
      BY <2>1, <3>1 DEF KeysLeadToRows
    <3> QED BY <1>2, <1>3, <2>1, <3>1, <3>2 DEF Grants, Digest
  <2>2. CASE a = Conflict
    BY <2>2 DEF Conflict
  <2>3. CASE Added(i, d, k) /\ a = created
    <3>1. tasks'[i] # Nothing /\ tasks'[i].digest = d /\ tasks'[i].key = k
      BY <1>1, <2>3, AddedRow
    <3>2. a.task = i
      BY <2>3
    <3> QED BY <1>2, <1>3, <3>1, <3>2 DEF Grants, Digest
  <2> QED BY <1>4, <2>1, <2>2, <2>3
<1>12. Granted'
  <2> SUFFICES ASSUME NEW e \in Callers, NEW b \in Accepted(e)'
               PROVE  Grants(e, b)'
    BY DEF Granted
  <2>1. b.kind # "conflict" /\ (b \in Heard(e) \/ (e = c /\ b = a))
    BY <1>6 DEF Accepted
  <2>2. CASE b \in Heard(e)
    BY <1>8, <1>10, <2>1, <2>2 DEF Granted, Accepted
  <2> QED BY <1>11, <2>1, <2>2
<1>13. Keyed(c) /\ r.name # NoName /\ a = Conflict => InTheWay(r)'
  <2> SUFFICES ASSUME Keyed(c), r.name # NoName, a = Conflict
               PROVE  InTheWay(r)'
    OBVIOUS
  <2>1. k \in Keys /\ i = r.name
    BY <1>1, <1>3 DEF Keyed
  <2>2. a # existing /\ a # created
    BY DEF Conflict
  <2>3. UNCHANGED <<tasks, keyed>>
    BY <1>4, <2>2
  <2>4. CASE keyed[k] # Nothing /\ keyed[k].digest # d
    BY <1>2, <2>1, <2>3, <2>4 DEF InTheWay
  <2>5. CASE ~KeyTaken(k, i) /\ tasks[i] # Nothing
    <3>1. keyed[k] = Nothing
      BY <2>1, <2>5, NamesAssumption DEF KeyTaken
    <3>2. tasks[i].key # k
      BY <2>1, <2>5, <3>1, NamesAssumption DEF OneTaskPerKey
    <3> QED BY <1>2, <2>1, <2>3, <2>5, <3>2 DEF InTheWay
  <2> QED BY <1>4, <2>2, <2>4, <2>5
<1>14. Refused'
  <2> SUFFICES ASSUME NEW e \in Callers, Keyed(e), request[e].name # NoName,
                      Conflict \in Heard(e)'
               PROVE  InTheWay(request[e])'
    BY <1>2 DEF Refused, Keyed
  <2>1. CASE Conflict \in Heard(e)
    <3>1. request[e] \in Request /\ request[e].key \in Keys /\ request[e].name \in Ids
      BY DEF Keyed, TypeOK, Request, Ids
    <3> QED BY <1>2, <1>8, <2>1, <3>1 DEF Refused
  <2>2. CASE e = c /\ a = Conflict
    BY <1>2, <1>13, <2>2
  <2> QED BY <1>6, <2>1, <2>2
<1> QED BY <1>7, <1>8, <1>9, <1>12, <1>14

-----------------------------------------------------------------------------
(* Theorems *)

\* The invariant holds in every reachable state.
THEOREM AdmissionInvariant == Spec => []AdmissionInv
<1>1. AdmissionInv /\ [Next]_vars => AdmissionInv'
  <2> SUFFICES ASSUME AdmissionInv, [Next]_vars PROVE AdmissionInv'
    OBVIOUS
  <2>1. CASE Next
    BY <2>1, AskKeeps, CreateKeeps, LoseKeeps DEF Next
  <2>2. CASE UNCHANGED vars
    BY <2>2 DEF vars, AdmissionInv, TypeOK, OneTaskPerKey, KeysLeadToRows, AskedFirst,
                Granted, Grants, Refused, Keyed, InTheWay, Heard, Accepted
  <2> QED BY <2>1, <2>2
<1> QED BY InitAdmission, <1>1, PTL DEF Spec

\* A key is one task, callers are told of what they asked for, and a caller that names
\* its task may replay its request, however many answers are lost.
THEOREM AdmissionIsSound == Spec => []AdmissionSound
BY InvIsSound, AdmissionInvariant, PTL

-----------------------------------------------------------------------------
(* Artifacts: what the state holds *)

Writing == {"blob", "filling", "verify", "commit"}
WriteRequests == Creates \cup Revises
Asked == WriteRequests \cup [kind : {"bundle"}, artifact : Nat] \cup [kind : {"export"}, overwrite : BOOLEAN]
                       \cup {[kind |-> "none"]}
Works == [at : Writing \cup {"idle", "bundle", "has bundle", "export", "writing"}, request : Asked,
          seen : Nat, got : Seq(ArtifactContents)]
Bindings == [digest : ArtifactContents \X Summaries, result : Nat \X Nat]

\* What a process knows at its step: a call that writes was begun when its key or its artifact
\* was there, and what it is about to commit is complete in its file.
WorkFits(w) ==
    /\ w.at \in Writing => /\ w.request \in WriteRequests
                           /\ ScopeKey(w.request) \in DOMAIN bound \/ w.request.kind = "create"
                                                                   \/ w.request.artifact \in DOMAIN artifacts
    /\ w.at = "filling" => ~links /\ blob[w.request.content] # "whole"
    /\ w.at = "commit" => blob[w.request.content] = "whole"
    /\ w.at \in {"bundle", "has bundle"} => w.request.artifact \in DOMAIN revisions
    /\ w.at = "has bundle" =>
          /\ w.seen = Len(w.got)
          /\ w.seen <= Len(revisions[w.request.artifact])
          /\ \A i \in 1..Len(w.got) : w.got[i] = revisions[w.request.artifact][i]
    /\ w.at \in {"export", "writing"} => w.got[1] \in ArtifactContents
    /\ w.at = "writing" => ~links

TablesTyped ==
    /\ links \in BOOLEAN /\ stops \in Nat
    /\ artifacts \in Seq(Nat) /\ revisions \in Seq(Seq(ArtifactContents))
    /\ bound \in [DOMAIN bound -> Bindings]
    /\ blob \in [ArtifactContents -> {"absent", "partial", "whole"}]
    /\ work \in [Processes -> Works]

\* A key is bound to one revision, which has the content of its digest.
BoundTo(k, a, n) == bound[k].result = <<a, n>>
KeyFits(k) ==
    \E a, n \in Nat : /\ BoundTo(k, a, n) /\ a \in DOMAIN revisions /\ n \in DOMAIN revisions[a]
                      /\ revisions[a][n] = bound[k].digest[1]

KeysAndRevisions ==
    /\ \A k \in DOMAIN bound : KeyFits(k)
    /\ \A a \in DOMAIN revisions : \A n \in DOMAIN revisions[a] : \E k \in DOMAIN bound : BoundTo(k, a, n)
    /\ \A k, l \in DOMAIN bound : bound[k].result = bound[l].result => k = l

OneWrites == \A p, q \in Processes : work[p].at \in Writing /\ work[q].at \in Writing => p = q

AsInv ==
    /\ TablesTyped /\ NumbersAgree /\ ContentsAreThere /\ KeysAndRevisions
    /\ OneWrites /\ (\A p \in Processes : WorkFits(work[p]))
    /\ TargetIsWhole

-----------------------------------------------------------------------------
(* Artifacts: what follows from the invariant *)

\* What the property says of keys and bundles follows from the invariant.
LEMMA ArtifactsFollow ==
    ASSUME AsInv
    PROVE  ArtifactsSound
<1>1. OneKeyEach
  <2>1. ASSUME NEW a \in DOMAIN revisions, NEW n \in DOMAIN revisions[a]
        PROVE  Cardinality({k \in DOMAIN bound : bound[k].result = <<a, n>>}) = 1
    <3>1. PICK k \in DOMAIN bound : BoundTo(k, a, n)
      BY <2>1 DEF AsInv, KeysAndRevisions
    <3>2. \A l \in DOMAIN bound : bound[l].result = <<a, n>> => l = k
      BY <3>1 DEF AsInv, KeysAndRevisions, BoundTo
    <3>3. {l \in DOMAIN bound : bound[l].result = <<a, n>>} = {k}
      BY <3>1, <3>2 DEF BoundTo
    <3> QED BY <3>3, FS_Singleton
  <2>2. ASSUME NEW k \in DOMAIN bound
        PROVE  LET at == bound[k].result
               IN  at[1] \in DOMAIN revisions /\ at[2] \in DOMAIN revisions[at[1]] /\ revisions[at[1]][at[2]] = bound[k].digest[1]
    <3>1. PICK a, n \in Nat : /\ bound[k].result = <<a, n>> /\ a \in DOMAIN revisions /\ n \in DOMAIN revisions[a]
                              /\ revisions[a][n] = bound[k].digest[1]
      BY <2>2 DEF AsInv, KeysAndRevisions, KeyFits, BoundTo
    <3>2. bound[k].result[1] = a /\ bound[k].result[2] = n
      BY <3>1
    <3> QED BY <3>1, <3>2
  <2> QED BY <2>1, <2>2 DEF OneKeyEach
<1>2. BundlesWere
  <2>1. SUFFICES ASSUME NEW p \in Processes, work[p].at = "has bundle"
                 PROVE  /\ work[p].seen = Len(work[p].got)
                        /\ work[p].got = SubSeq(revisions[work[p].request.artifact], 1, work[p].seen)
    BY DEF BundlesWere
  <2> DEFINE got == work[p].got
             rows == revisions[work[p].request.artifact]
             n == work[p].seen
  <2>2. /\ n = Len(got) /\ n <= Len(rows)
        /\ \A i \in 1..n : got[i] = rows[i]
        /\ work[p].request.artifact \in DOMAIN revisions
    BY <2>1 DEF AsInv, WorkFits
  <2>3. got \in Seq(ArtifactContents) /\ n \in Nat
    BY DEF AsInv, TablesTyped, Works
  <2>4. rows \in Seq(ArtifactContents)
    BY <2>2 DEF AsInv, TablesTyped
  <2> HIDE DEF got, rows, n
  <2>5. /\ SubSeq(rows, 1, n) \in Seq(ArtifactContents) /\ Len(SubSeq(rows, 1, n)) = n
        /\ \A i \in 1..n : SubSeq(rows, 1, n)[i] = rows[i]
    <3>1. \A i \in 1..n : rows[i] \in ArtifactContents
      BY <2>2, <2>3, <2>4
    <3> QED BY <2>3, <3>1, SubSeqProperties
  <2>6. got = SubSeq(rows, 1, n)
    BY <2>2, <2>5, <2>3, SeqEqual
  <2> QED BY <2>2, <2>6 DEF got, rows, n
<1> QED BY <1>1, <1>2 DEF AsInv, ArtifactsSound

-----------------------------------------------------------------------------
(* Artifacts: steps *)

\* Rows are only added, revisions only appended, and a complete file stays complete.
TablesGrow ==
    /\ links' = links
    /\ DOMAIN bound \subseteq DOMAIN bound' /\ DOMAIN artifacts \subseteq DOMAIN artifacts'
    /\ \A a \in DOMAIN revisions :
          /\ a \in DOMAIN revisions' /\ Len(revisions'[a]) \in Nat /\ Len(revisions[a]) <= Len(revisions'[a])
          /\ \A i \in 1..Len(revisions[a]) : revisions'[a][i] = revisions[a][i]

TablesSound ==
    /\ links \in BOOLEAN /\ stops \in Nat
    /\ artifacts \in Seq(Nat) /\ revisions \in Seq(Seq(ArtifactContents))
    /\ bound \in [DOMAIN bound -> Bindings]
    /\ blob \in [ArtifactContents -> {"absent", "partial", "whole"}]
    /\ NumbersAgree /\ ContentsAreThere /\ KeysAndRevisions

\* What a process knows stays true as the tables grow, when nobody touches its file.
LEMMA WorkStays ==
    ASSUME AsInv, NEW w \in Works, WorkFits(w), TablesGrow, w.at \in Writing => blob' = blob
    PROVE  WorkFits(w)'
<1>1. w.at \in Writing => blob'[w.request.content] = blob[w.request.content]
  OBVIOUS
<1>2. (w.at \in Writing => /\ w.request \in WriteRequests
                           /\ ScopeKey(w.request) \in DOMAIN bound \/ w.request.kind = "create"
                                                                   \/ w.request.artifact \in DOMAIN artifacts)'
  BY DEF WorkFits, TablesGrow
<1>3. (w.at = "filling" => ~links /\ blob[w.request.content] # "whole")'
  BY <1>1 DEF WorkFits, TablesGrow, Writing
<1>4. (w.at = "commit" => blob[w.request.content] = "whole")'
  BY <1>1 DEF WorkFits, Writing
<1>5. (w.at \in {"bundle", "has bundle"} => w.request.artifact \in DOMAIN revisions)'
  BY DEF WorkFits, TablesGrow
<1>6. (w.at = "has bundle" =>
          /\ w.seen = Len(w.got) /\ w.seen <= Len(revisions[w.request.artifact])
          /\ \A i \in 1..Len(w.got) : w.got[i] = revisions[w.request.artifact][i])'
  <2>1. SUFFICES ASSUME w.at = "has bundle"
                 PROVE  /\ w.seen = Len(w.got) /\ w.seen <= Len(revisions'[w.request.artifact])
                        /\ \A i \in 1..Len(w.got) : w.got[i] = revisions'[w.request.artifact][i]
    OBVIOUS
  <2> DEFINE a == w.request.artifact
  <2>2. /\ a \in DOMAIN revisions /\ w.seen = Len(w.got) /\ w.seen <= Len(revisions[a])
        /\ \A i \in 1..Len(w.got) : w.got[i] = revisions[a][i]
    BY <2>1 DEF WorkFits
  <2>3. /\ Len(revisions[a]) <= Len(revisions'[a]) /\ Len(revisions'[a]) \in Nat
        /\ \A i \in 1..Len(revisions[a]) : revisions'[a][i] = revisions[a][i]
    BY <2>2 DEF TablesGrow
  <2>4. Len(revisions[a]) \in Nat /\ w.seen \in Nat
    <3>1. revisions[a] \in Seq(ArtifactContents)
      BY <2>2 DEF AsInv, TablesTyped
    <3>2. Len(revisions[a]) \in Nat
      BY <3>1
    <3>3. w.seen \in Nat
      BY DEF Works
    <3> QED BY <3>2, <3>3
  <2> HIDE DEF a
  <2>5. w.seen <= Len(revisions'[a])
    BY <2>2, <2>3, <2>4
  <2> QED BY <2>2, <2>3, <2>4, <2>5 DEF a
<1>7. (w.at \in {"export", "writing"} => w.got[1] \in ArtifactContents)' /\ (w.at = "writing" => ~links)'
  BY DEF WorkFits, TablesGrow
<1> QED BY <1>2, <1>3, <1>4, <1>5, <1>6, <1>7 DEF WorkFits

\* One process moves: the others keep what they know.
LEMMA WorkMoves ==
    ASSUME AsInv, NEW p \in Processes, NEW w \in Works, work' = [work EXCEPT ![p] = w],
           TablesGrow, TablesSound', WorkFits(w)', TargetIsWhole',
           w.at \in Writing => work[p].at \in Writing \/ ~Locked,
           blob' = blob \/ work[p].at \in Writing
    PROVE  AsInv'
<1>1. \A q \in Processes : work'[q] = IF q = p THEN w ELSE work[q]
  BY DEF AsInv, TablesTyped
<1>2. work' \in [Processes -> Works]
  BY DEF AsInv, TablesTyped
<1>3. OneWrites'
  BY <1>1 DEF AsInv, OneWrites, Locked, Writing
<1>4. \A q \in Processes : WorkFits(work[q])'
  <2>1. SUFFICES ASSUME NEW q \in Processes, q # p PROVE WorkFits(work[q])'
    BY <1>1 DEF WorkFits
  <2>2. PICK v \in Works : v = work[q] /\ WorkFits(v)
    BY DEF AsInv, TablesTyped
  <2>3. v.at \in Writing => blob' = blob
    BY <2>1, <2>2 DEF AsInv, OneWrites
  <2>4. WorkFits(v)'
    BY <2>2, <2>3, WorkStays
  <2>5. work'[q] = v
    BY <1>1, <2>1, <2>2
  <2> QED BY <2>4, <2>5 DEF WorkFits
<1>5. TablesTyped' /\ NumbersAgree' /\ ContentsAreThere' /\ KeysAndRevisions'
  BY <1>2 DEF TablesTyped, TablesSound
<1>6. (\A q \in Processes : WorkFits(work[q]))'
  BY <1>4
<1> QED BY <1>3, <1>5, <1>6 DEF AsInv

\* Steps that leave the tables and the files of contents alone.
LEMMA TablesStay ==
    ASSUME AsInv, UNCHANGED <<links, artifacts, revisions, bound, blob>>, stops' \in Nat
    PROVE  TablesGrow /\ TablesSound'
<1>1. TablesGrow
  BY DEF TablesGrow, AsInv, TablesTyped
<1>2. KeysAndRevisions'
  BY DEF AsInv, KeysAndRevisions, KeyFits, BoundTo
<1>3. NumbersAgree' /\ ContentsAreThere'
  BY DEF AsInv, NumbersAgree, ContentsAreThere
<1> QED BY <1>1, <1>2, <1>3 DEF AsInv, TablesTyped, TablesSound

\* A file that is being written keeps its writer, or has been left by one that stopped.
LEMMA TargetStays ==
    ASSUME AsInv, NEW p \in Processes, NEW w \in Works, work' = [work EXCEPT ![p] = w],
           UNCHANGED <<links, target>>, stops' \in Nat, stops' >= stops,
           work[p].at = "writing" => stops' > 0
    PROVE  TargetIsWhole'
<1>1. \A q \in Processes : q # p => work'[q] = work[q]
  BY DEF AsInv, TablesTyped
<1>2. stops \in Nat
  BY DEF AsInv, TablesTyped
<1>3. SUFFICES ASSUME target' = "partial" PROVE ~links' /\ (stops' > 0 \/ \E q \in Processes : work'[q].at = "writing")
  BY DEF TargetIsWhole
<1>4. ~links /\ (stops > 0 \/ \E q \in Processes : work[q].at = "writing")
  BY <1>3 DEF AsInv, TargetIsWhole
<1> QED BY <1>1, <1>2, <1>4

\* A step that writes nothing takes its process to w.
LEMMA ReaderMoves ==
    ASSUME AsInv, NEW p \in Processes, NEW w \in Works, work' = [work EXCEPT ![p] = w],
           UNCHANGED <<links, artifacts, revisions, bound, blob, target>>, stops' \in Nat, stops' >= stops,
           work[p].at = "writing" => stops' > 0, WorkFits(w),
           w.at \in Writing => work[p].at \in Writing \/ ~Locked
    PROVE  AsInv'
<1>1. TablesGrow /\ TablesSound'
  BY TablesStay
<1>2. WorkFits(w)'
  BY <1>1, WorkStays
<1>3. TargetIsWhole'
  BY TargetStays
<1> QED BY <1>1, <1>2, <1>3, WorkMoves

\* The same of a process that does not stop.
LEMMA LivingMoves ==
    ASSUME AsInv, NEW p \in Processes, NEW w \in Works, work' = [work EXCEPT ![p] = w],
           UNCHANGED <<links, artifacts, revisions, bound, blob, target, stops>>,
           work[p].at # "writing", WorkFits(w),
           w.at \notin Writing \/ work[p].at \in Writing \/ ~Locked
    PROVE  AsInv'
<1>1. stops' \in Nat /\ stops' >= stops
  BY DEF AsInv, TablesTyped
<1> QED BY <1>1, ReaderMoves

\* A process without work knows nothing.
LEMMA NoWorkFits == NoWork \in Works /\ WorkFits(NoWork) /\ NoWork.at \notin Writing
  BY DEF NoWork, Works, Asked, WorkFits, Writing

\* A write begins when nobody else writes, and its key or its artifact is there.
LEMMA BeginWriteKeeps ==
    ASSUME AsInv, NEW p \in Processes, NEW r \in WriteRequests, BeginWrite(p, r)
    PROVE  AsInv'
<1> DEFINE w == [NoWork EXCEPT !.at = "blob", !.request = r]
<1>1. /\ work' = [work EXCEPT ![p] = w] /\ work[p].at = "idle" /\ ~Locked
      /\ UNCHANGED <<links, artifacts, revisions, bound, blob, target, stops>> /\ stops \in Nat
  BY DEF BeginWrite, AsInv, TablesTyped
<1>2. w \in Works /\ w.at = "blob" /\ w.request = r
  BY NoWorkFits DEF Works, Asked, Writing
<1>3. ScopeKey(r) \in DOMAIN bound \/ r.kind = "create" \/ r.artifact \in DOMAIN artifacts
  BY DEF BeginWrite
<1> HIDE DEF w
<1>4. WorkFits(w)
  BY <1>3, <1>2 DEF WorkFits, Writing
<1> QED BY <1>1, <1>4, <1>2, LivingMoves

\* What goes on to its commit has seen its file complete.
LEMMA VerifyBlobKeeps ==
    ASSUME AsInv, NEW p \in Processes, VerifyBlob(p)
    PROVE  AsInv'
<1>1. PICK v \in Works : v = work[p] /\ WorkFits(v)
  BY DEF AsInv, TablesTyped
<1>2. /\ v.at = "verify" /\ stops \in Nat /\ UNCHANGED <<links, artifacts, revisions, bound, blob, target, stops>>
  BY <1>1 DEF VerifyBlob, AsInv, TablesTyped
<1>3. CASE blob[v.request.content] = "whole"
  <2> DEFINE w == [v EXCEPT !.at = "commit"]
  <2>1. work' = [work EXCEPT ![p] = w]
    BY <1>1, <1>3 DEF VerifyBlob, Goes
  <2>2. w \in Works /\ w.at = "commit" /\ w.request = v.request
    BY DEF Works, Writing
  <2> HIDE DEF w
  <2>3. WorkFits(w)
    BY <1>1, <1>2, <1>3, <2>2 DEF WorkFits, Writing
  <2> QED BY <1>1, <1>2, <2>1, <2>2, <2>3, LivingMoves DEF Writing
<1>4. CASE blob[v.request.content] # "whole"
  <2>1. work' = [work EXCEPT ![p] = NoWork]
    BY <1>1, <1>4 DEF VerifyBlob, EndsWork
  <2> QED BY <1>1, <1>2, <2>1, NoWorkFits, LivingMoves
<1> QED BY <1>3, <1>4

\* A bundle remembers how many revisions its artifact had.
LEMMA StartBundleKeeps ==
    ASSUME AsInv, NEW p \in Processes, NEW a \in DOMAIN artifacts, StartBundle(p, a)
    PROVE  AsInv'
<1> DEFINE w == [at |-> "bundle", request |-> [kind |-> "bundle", artifact |-> a], seen |-> artifacts[a], got |-> <<>>]
<1>1. /\ work' = [work EXCEPT ![p] = w] /\ work[p].at = "idle" /\ stops \in Nat
      /\ UNCHANGED <<links, artifacts, revisions, bound, blob, target, stops>>
  BY DEF StartBundle, AsInv, TablesTyped
<1>2. a \in Nat /\ a \in DOMAIN revisions /\ artifacts[a] \in Nat
  BY DEF AsInv, TablesTyped, NumbersAgree
<1>3. w \in Works /\ w.at = "bundle" /\ w.request.artifact = a
  BY <1>2 DEF Works, Asked
<1> HIDE DEF w
<1>4. WorkFits(w)
  BY <1>2, <1>3 DEF WorkFits, Writing
<1> QED BY <1>1, <1>3, <1>4, LivingMoves DEF Writing

\* A bundle is handed out only when that many are still all there are.
LEMMA EndBundleKeeps ==
    ASSUME AsInv, NEW p \in Processes, EndBundle(p)
    PROVE  AsInv'
<1>1. PICK v \in Works : v = work[p] /\ WorkFits(v)
  BY DEF AsInv, TablesTyped
<1>2. /\ v.at = "bundle" /\ stops \in Nat /\ UNCHANGED <<links, artifacts, revisions, bound, blob, target, stops>>
  BY <1>1 DEF EndBundle, AsInv, TablesTyped
<1> DEFINE rows == revisions[v.request.artifact]
<1>3. v.request.artifact \in DOMAIN revisions /\ rows \in Seq(ArtifactContents) /\ Len(rows) \in Nat
  <2>1. v.request.artifact \in DOMAIN revisions
    BY <1>1, <1>2 DEF WorkFits
  <2>2. rows \in Seq(ArtifactContents)
    BY <2>1 DEF AsInv, TablesTyped
  <2> QED BY <2>1, <2>2
<1>4. CASE Len(rows) # v.seen
  <2>1. work' = [work EXCEPT ![p] = NoWork]
    BY <1>1, <1>4 DEF EndBundle, EndsWork
  <2> QED BY <1>1, <1>2, <2>1, NoWorkFits, LivingMoves
<1>5. CASE Len(rows) = v.seen
  <2> DEFINE w == [v EXCEPT !.at = "has bundle", !.got = rows]
  <2>1. work' = [work EXCEPT ![p] = w]
    BY <1>1, <1>5 DEF EndBundle, AsInv, TablesTyped
  <2>2. w \in Works /\ w.at = "has bundle" /\ w.request = v.request /\ w.seen = v.seen /\ w.got = rows
    BY <1>3 DEF Works
  <2> HIDE DEF w
  <2>3. WorkFits(w)
    <3>1. revisions[w.request.artifact] = w.got /\ w.request.artifact \in DOMAIN revisions
      BY <1>3, <2>2
    <3>2. w.seen = Len(w.got) /\ Len(w.got) \in Nat
      BY <1>3, <1>5, <2>2
    <3>3. w.seen <= Len(w.got)
      BY <3>2
    <3> QED BY <2>2, <3>1, <3>2, <3>3 DEF WorkFits, Writing
  <2> QED BY <1>1, <1>2, <2>1, <2>2, <2>3, LivingMoves DEF Writing
<1> QED BY <1>4, <1>5

\* An export carries a content that was read.
LEMMA StartExportKeeps ==
    ASSUME AsInv, NEW p \in Processes, NEW a \in DOMAIN artifacts, NEW n \in DOMAIN revisions[a],
           NEW overwrite \in BOOLEAN, StartExport(p, a, n, overwrite)
    PROVE  AsInv'
<1> DEFINE w == [at |-> "export", request |-> [kind |-> "export", overwrite |-> overwrite], seen |-> 0, got |-> <<revisions[a][n]>>]
<1>1. /\ work' = [work EXCEPT ![p] = w] /\ work[p].at = "idle" /\ stops \in Nat
      /\ UNCHANGED <<links, artifacts, revisions, bound, blob, target, stops>>
  BY DEF StartExport, AsInv, TablesTyped
<1>2. revisions[a] \in Seq(ArtifactContents)
  BY DEF AsInv, TablesTyped, NumbersAgree
<1>3. revisions[a][n] \in ArtifactContents
  BY <1>2
<1>4. w \in Works /\ w.at = "export" /\ w.got[1] \in ArtifactContents
  BY <1>3 DEF Works, Asked
<1> HIDE DEF w
<1>5. WorkFits(w)
  BY <1>4 DEF WorkFits, Writing
<1> QED BY <1>1, <1>4, <1>5, LivingMoves DEF Writing

\* A process that is done or stops forgets its work; a file it was writing is left to the stop.
LEMMA RestKeeps ==
    ASSUME AsInv, NEW p \in Processes, Rest(p) \/ StopProcess(p)
    PROVE  AsInv'
<1>1. /\ work' = [work EXCEPT ![p] = NoWork]
      /\ UNCHANGED <<links, artifacts, revisions, bound, blob, target>>
      /\ stops' = stops + 1 \/ (stops' = stops /\ work[p].at = "has bundle")
  BY DEF Rest, StopProcess, EndsWork
<1>2. stops \in Nat
  BY DEF AsInv, TablesTyped
<1>3. stops' \in Nat /\ stops' >= stops /\ (work[p].at = "writing" => stops' > 0)
  <2>1. CASE stops' = stops + 1
    BY <1>2, <2>1
  <2>2. CASE stops' = stops /\ work[p].at = "has bundle"
    <3>1. work[p].at # "writing"
      BY <2>2
    <3>2. stops' = stops
      BY <2>2
    <3>3. stops' \in Nat /\ stops' >= stops
      BY <1>2, <3>2
    <3> QED BY <3>1, <3>3
  <2> QED BY <1>1, <2>1, <2>2
<1> QED BY <1>1, <1>3, NoWorkFits, ReaderMoves

\* The file of an export is replaced whole, created or completed.
LEMMA ExportKeeps ==
    ASSUME AsInv, NEW p \in Processes, Install(p) \/ \E fails \in BOOLEAN : FillTarget(p, fails)
    PROVE  AsInv'
<1>1. PICK v \in Works : v = work[p] /\ WorkFits(v)
  BY DEF AsInv, TablesTyped
<1>2. /\ v.at \in {"export", "writing"} /\ v.got[1] \in ArtifactContents
      /\ UNCHANGED <<links, artifacts, revisions, bound, blob, stops>>
  BY <1>1 DEF Install, FillTarget, WorkFits
<1>3. TablesGrow /\ TablesSound'
  BY <1>2, TablesStay DEF AsInv, TablesTyped
<1>4. v.got[1] # "partial"
  BY <1>2, ArtifactAssumption
<1>5. CASE work' = [work EXCEPT ![p] = NoWork] /\ (target' # "partial" \/ (target' = target /\ v.at = "export"))
  <2>1. \A q \in Processes : q # p => work'[q] = work[q]
    BY <1>5 DEF AsInv, TablesTyped
  <2>2. SUFFICES ASSUME target' = "partial" PROVE ~links' /\ (stops' > 0 \/ \E q \in Processes : work'[q].at = "writing")
    BY <1>3, <1>5, <2>1, NoWorkFits, WorkStays, WorkMoves, <1>2 DEF TargetIsWhole
  <2>3. target = "partial" /\ v.at = "export"
    BY <1>5, <2>2
  <2>4. ~links /\ (stops > 0 \/ \E q \in Processes : work[q].at = "writing")
    BY <2>3 DEF AsInv, TargetIsWhole
  <2> QED BY <1>1, <1>2, <2>1, <2>3, <2>4
<1>6. CASE work' = [work EXCEPT ![p].at = "writing"] /\ target' = "partial" /\ v.at = "export" /\ ~links
  <2> DEFINE w == [v EXCEPT !.at = "writing"]
  <2>1. work' = [work EXCEPT ![p] = w]
    BY <1>1, <1>6
  <2>2. w \in Works /\ w.at = "writing" /\ w.got = v.got
    BY DEF Works
  <2>3. work'[p].at = "writing"
    BY <2>1, <2>2 DEF AsInv, TablesTyped
  <2>4. TargetIsWhole'
    BY <1>2, <1>6, <2>3 DEF TargetIsWhole
  <2> HIDE DEF w
  <2>5. WorkFits(w)
    BY <1>2, <1>6, <2>2 DEF WorkFits, Writing
  <2>6. WorkFits(w)'
    BY <1>2, <1>3, <2>2, <2>5, WorkStays
  <2>7. w.at \notin Writing
    BY <2>2 DEF Writing
  <2> QED BY <1>2, <1>3, <2>1, <2>2, <2>4, <2>6, <2>7, WorkMoves
<1> QED
  <2>8. CASE Install(p)
    BY <1>1, <1>2, <1>4, <1>5, <1>6, <2>8 DEF Install, EndsWork, Goes, AsInv, TablesTyped
  <2>9. CASE \E fails \in BOOLEAN : FillTarget(p, fails)
    BY <1>1, <1>2, <1>4, <1>5, <2>9 DEF FillTarget, EndsWork
  <2> QED BY <2>8, <2>9

\* The file of a content is created, filled or removed by the one process that writes.
LEMMA BlobKeeps ==
    ASSUME AsInv, NEW p \in Processes, EnsureBlob(p) \/ \E fails \in BOOLEAN : FillBlob(p, fails)
    PROVE  AsInv'
<1>1. PICK v \in Works : v = work[p] /\ WorkFits(v)
  BY DEF AsInv, TablesTyped
<1> DEFINE content == v.request.content
<1>2. /\ v.at \in Writing /\ v.request \in WriteRequests /\ content \in ArtifactContents
      /\ UNCHANGED <<links, artifacts, revisions, bound, target, stops>>
      /\ v.at # "writing" /\ v.at \in {"blob", "filling"}
  BY <1>1 DEF EnsureBlob, FillBlob, WorkFits, Writing, WriteRequests, Creates, Revises
<1>3. stops' \in Nat /\ stops' >= stops /\ UNCHANGED <<links, target>>
  <2>1. stops \in Nat
    BY DEF AsInv, TablesTyped
  <2>2. stops' = stops
    BY <1>2
  <2> QED BY <1>2, <2>1, <2>2
<1>4. ASSUME NEW x \in {"absent", "partial", "whole"}, blob' = [blob EXCEPT ![content] = x],
             blob[content] # "whole"
      PROVE  TablesGrow /\ TablesSound'
  <2>1. TablesGrow
    BY <1>2 DEF TablesGrow, AsInv, TablesTyped
  <2>2. KeysAndRevisions'
    BY <1>2 DEF AsInv, KeysAndRevisions, KeyFits, BoundTo
  <2>3. \A c \in ArtifactContents : blob[c] = "whole" => blob'[c] = "whole"
    BY <1>4 DEF AsInv, TablesTyped
  <2>4. \A a \in DOMAIN revisions : \A n \in DOMAIN revisions[a] : revisions[a][n] \in ArtifactContents
    BY DEF AsInv, TablesTyped
  <2>5. NumbersAgree' /\ ContentsAreThere'
    BY <1>2, <2>3, <2>4 DEF AsInv, NumbersAgree, ContentsAreThere
  <2> QED BY <1>2, <1>4, <2>1, <2>2, <2>5 DEF AsInv, TablesTyped, TablesSound
<1>5. ASSUME NEW w \in Works, w.request = v.request, w.at \in {"verify", "filling"}, w.at = "filling" => ~links /\ blob'[content] # "whole",
             work' = [work EXCEPT ![p] = w], TablesGrow, TablesSound'
      PROVE  AsInv'
  <2>1. WorkFits(w)'
    <3>1. /\ v.request \in WriteRequests
          /\ ScopeKey(v.request) \in DOMAIN bound \/ v.request.kind = "create" \/ v.request.artifact \in DOMAIN artifacts
      BY <1>1, <1>2 DEF WorkFits
    <3>2. bound' = bound /\ artifacts' = artifacts /\ links' = links
      BY <1>2
    <3>3. (w.request \in WriteRequests)' /\ (ScopeKey(w.request) \in DOMAIN bound \/ w.request.kind = "create"
                                                                 \/ w.request.artifact \in DOMAIN artifacts)'
      BY <1>5, <3>1, <3>2
    <3>4. (w.at = "filling" => ~links /\ blob[w.request.content] # "whole")'
      BY <1>5, <3>2
    <3> QED BY <1>5, <3>3, <3>4 DEF WorkFits, Writing
  <2>2. TargetIsWhole'
    BY <1>1, <1>2, <1>5, <1>3, TargetStays
  <2> QED BY <1>1, <1>2, <1>5, <2>1, <2>2, WorkMoves
<1>6. ASSUME work' = [work EXCEPT ![p] = NoWork], TablesGrow, TablesSound'
      PROVE  AsInv'
  <2>1. WorkFits(NoWork)'
    BY DEF NoWork, WorkFits, Writing
  <2>2. TargetIsWhole'
    BY <1>1, <1>2, <1>6, <1>3, NoWorkFits, TargetStays
  <2> QED BY <1>1, <1>2, <1>6, <2>1, <2>2, NoWorkFits, WorkMoves
<1>7. ASSUME NEW at \in {"verify", "filling"}, work' = [work EXCEPT ![p].at = at], TablesGrow, TablesSound',
             at = "filling" => ~links /\ blob'[content] # "whole"
      PROVE  AsInv'
  <2> DEFINE w == [v EXCEPT !.at = at]
  <2>1. work' = [work EXCEPT ![p] = w]
    BY <1>1, <1>7
  <2>2. w \in Works /\ w.at = at /\ w.request = v.request
    BY DEF Works, Writing
  <2> HIDE DEF w
  <2> QED BY <1>5, <1>7, <2>1, <2>2
<1>8. CASE EnsureBlob(p)
  <2>1. CASE blob[content] # "absent"
    <3>1. work' = [work EXCEPT ![p].at = "verify"] /\ UNCHANGED blob
      BY <1>1, <1>8, <2>1 DEF EnsureBlob, Goes
    <3>2. TablesGrow /\ TablesSound'
      BY <1>2, <3>1, TablesStay DEF AsInv, TablesTyped
    <3> QED BY <1>7, <3>1, <3>2
  <2>2. CASE blob[content] = "absent" /\ links
    <3>1. work' = [work EXCEPT ![p].at = "verify"] /\ blob' = [blob EXCEPT ![content] = "whole"]
      BY <1>1, <1>8, <2>2 DEF EnsureBlob, Goes
    <3>2. TablesGrow /\ TablesSound'
      BY <1>4, <2>2, <3>1
    <3> QED BY <1>7, <3>1, <3>2
  <2>3. CASE blob[content] = "absent" /\ ~links
    <3>1. work' = [work EXCEPT ![p].at = "filling"] /\ blob' = [blob EXCEPT ![content] = "partial"]
      BY <1>1, <1>8, <2>3 DEF EnsureBlob, Goes
    <3>2. TablesGrow /\ TablesSound'
      BY <1>4, <2>3, <3>1
    <3>3. blob'[content] # "whole"
      BY <1>2, <3>1 DEF AsInv, TablesTyped
    <3> QED BY <1>7, <2>3, <3>1, <3>2, <3>3
  <2> QED BY <2>1, <2>2, <2>3
<1>9. CASE \E fails \in BOOLEAN : FillBlob(p, fails)
  <2>1. v.at = "filling" /\ blob[content] # "whole"
    BY <1>1, <1>9 DEF FillBlob, WorkFits
  <2>2. CASE FillBlob(p, TRUE)
    <3>1. work' = [work EXCEPT ![p] = NoWork] /\ blob' = [blob EXCEPT ![content] = "absent"]
      BY <1>1, <2>2 DEF FillBlob, EndsWork
    <3>2. TablesGrow /\ TablesSound'
      BY <1>4, <2>1, <3>1
    <3> QED BY <1>6, <3>1, <3>2
  <2>3. CASE FillBlob(p, FALSE)
    <3>1. work' = [work EXCEPT ![p].at = "verify"] /\ blob' = [blob EXCEPT ![content] = "whole"]
      BY <1>1, <2>3 DEF FillBlob, Goes
    <3>2. TablesGrow /\ TablesSound'
      BY <1>4, <2>1, <3>1
    <3> QED BY <1>7, <3>1, <3>2
  <2> QED BY <1>9, <2>2, <2>3
<1> QED BY <1>8, <1>9

\* The elements of a sequence are of its kind.
LEMMA ElementIn ==
    ASSUME NEW S, NEW s \in Seq(S), NEW i \in DOMAIN s
    PROVE  s[i] \in S
  OBVIOUS

\* A commit adds one revision and the key that made it.
LEMMA RevisionAdded ==
    ASSUME AsInv, NEW r \in WriteRequests, NEW a \in Nat, NEW n \in Nat, blob[r.content] = "whole",
           ScopeKey(r) \notin DOMAIN bound, UNCHANGED <<links, blob, stops>>,
           bound' = [k \in DOMAIN bound \cup {ScopeKey(r)} |->
                        IF k = ScopeKey(r) THEN [digest |-> DigestOf(r), result |-> <<a, n>>] ELSE bound[k]],
           artifacts' \in Seq(Nat), revisions' \in Seq(Seq(ArtifactContents)), NumbersAgree',
           DOMAIN artifacts \subseteq DOMAIN artifacts',
           a \in DOMAIN revisions', DOMAIN revisions' = DOMAIN revisions \cup {a},
           \A b \in DOMAIN revisions : b # a => revisions'[b] = revisions[b],
           DOMAIN revisions'[a] = 1..n, revisions'[a][n] = r.content, n > 0,
           a \in DOMAIN revisions => Len(revisions[a]) = n - 1,
           a \notin DOMAIN revisions => n = 1,
           a \in DOMAIN revisions => \A i \in 1..n - 1 : revisions'[a][i] = revisions[a][i]
    PROVE  TablesGrow /\ TablesSound'
<1> DEFINE key == ScopeKey(r)
<1>1. r.content \in ArtifactContents /\ r.message \in Summaries
  BY DEF WriteRequests, Creates, Revises
<1>2. /\ DOMAIN bound' = DOMAIN bound \cup {key} /\ key \notin DOMAIN bound
      /\ \A k \in DOMAIN bound : bound'[k] = bound[k]
      /\ bound'[key].digest = <<r.content, r.message>> /\ bound'[key].result = <<a, n>>
      /\ bound' \in [DOMAIN bound' -> Bindings]
  BY <1>1 DEF AsInv, TablesTyped, DigestOf, Bindings
<1> HIDE DEF key
<1>3. \A b \in DOMAIN revisions : revisions[b] \in Seq(ArtifactContents) /\ DOMAIN revisions[b] = 1..Len(revisions[b])
                                  /\ Len(revisions[b]) \in Nat
  BY DEF AsInv, TablesTyped
<1>4. \A b \in DOMAIN revisions : \A i \in DOMAIN revisions[b] : i \in DOMAIN revisions'[b] /\ revisions'[b][i] = revisions[b][i]
  <2>1. SUFFICES ASSUME NEW b \in DOMAIN revisions, NEW i \in DOMAIN revisions[b]
                 PROVE  i \in DOMAIN revisions'[b] /\ revisions'[b][i] = revisions[b][i]
    OBVIOUS
  <2>2. CASE b # a
    BY <2>2
  <2>3. CASE b = a
    <3>1. DOMAIN revisions[a] = 1..n - 1
      BY <1>3, <2>3
    <3> QED BY <2>3, <3>1
  <2> QED BY <2>2, <2>3
<1>5. \A b \in DOMAIN revisions' : \A i \in DOMAIN revisions'[b] :
         (b \in DOMAIN revisions /\ i \in DOMAIN revisions[b]) \/ (b = a /\ i = n)
  <2>1. SUFFICES ASSUME NEW i \in 1..n PROVE (a \in DOMAIN revisions /\ i \in DOMAIN revisions[a]) \/ i = n
    OBVIOUS
  <2>2. CASE a \in DOMAIN revisions
    <3>1. DOMAIN revisions[a] = 1..n - 1
      BY <1>3, <2>2
    <3> QED BY <2>1, <2>2, <3>1
  <2>3. CASE a \notin DOMAIN revisions
    BY <2>1, <2>3
  <2> QED BY <2>2, <2>3
<1>6. ~(a \in DOMAIN revisions /\ n \in DOMAIN revisions[a])
  BY <1>3
<1>7. TablesGrow
  <2>1. \A b \in DOMAIN revisions :
           /\ b \in DOMAIN revisions' /\ Len(revisions'[b]) \in Nat /\ Len(revisions[b]) <= Len(revisions'[b])
           /\ \A i \in 1..Len(revisions[b]) : revisions'[b][i] = revisions[b][i]
    <3>1. SUFFICES ASSUME NEW b \in DOMAIN revisions
                   PROVE  /\ b \in DOMAIN revisions' /\ Len(revisions'[b]) \in Nat /\ Len(revisions[b]) <= Len(revisions'[b])
                          /\ \A i \in 1..Len(revisions[b]) : revisions'[b][i] = revisions[b][i]
      OBVIOUS
    <3>2. b \in DOMAIN revisions' /\ revisions'[b] \in Seq(ArtifactContents)
      <4>1. b \in DOMAIN revisions'
        BY <3>1
      <4>2. revisions' \in Seq(Seq(ArtifactContents))
        OBVIOUS
      <4> QED BY <4>1, <4>2, ElementIn
    <3>3. Len(revisions'[b]) \in Nat /\ DOMAIN revisions'[b] = 1..Len(revisions'[b])
      BY <3>2
    <3>4. CASE b = a
      <4>1. Len(revisions'[b]) = n
        BY <3>3, <3>4
      <4> QED BY <1>3, <1>4, <3>2, <3>3, <3>4, <4>1
    <3>5. CASE b # a
      BY <1>3, <1>4, <3>2, <3>3, <3>5
    <3> QED BY <3>4, <3>5
  <2> QED BY <1>2, <2>1 DEF TablesGrow
<1>8. ContentsAreThere'
  <2>1. SUFFICES ASSUME NEW b \in DOMAIN revisions', NEW i \in DOMAIN revisions'[b]
                 PROVE  blob'[revisions'[b][i]] = "whole"
    BY DEF ContentsAreThere
  <2>2. CASE b \in DOMAIN revisions /\ i \in DOMAIN revisions[b]
    BY <1>4, <2>2 DEF AsInv, ContentsAreThere
  <2>3. CASE b = a /\ i = n
    BY <2>3
  <2> QED BY <1>5, <2>2, <2>3
<1>9. KeysAndRevisions'
  <2>1. ASSUME NEW k \in DOMAIN bound' PROVE KeyFits(k)'
    <3>1. CASE k \in DOMAIN bound
      <4>1. PICK b, i \in Nat : /\ bound[k].result = <<b, i>> /\ b \in DOMAIN revisions /\ i \in DOMAIN revisions[b]
                                /\ revisions[b][i] = bound[k].digest[1]
        BY <3>1 DEF AsInv, KeysAndRevisions, KeyFits, BoundTo
      <4>2. b \in DOMAIN revisions' /\ i \in DOMAIN revisions'[b] /\ revisions'[b][i] = revisions[b][i]
        BY <1>4, <1>7, <4>1 DEF TablesGrow
      <4>3. bound'[k] = bound[k]
        BY <1>2, <3>1
      <4>4. bound'[k].result = <<b, i>> /\ revisions'[b][i] = bound'[k].digest[1]
        BY <4>1, <4>2, <4>3
      <4> QED BY <4>2, <4>4 DEF KeyFits, BoundTo
    <3>2. CASE k = key
      <4>1. bound'[k].digest = <<r.content, r.message>> /\ bound'[k].result = <<a, n>>
        BY <1>2, <3>2
      <4>2. bound'[k].digest[1] = r.content
        <5>1. <<r.content, r.message>>[1] = r.content
          OBVIOUS
        <5> QED BY <4>1, <5>1, Zenon
      <4>3. n \in 1..n /\ DOMAIN revisions'[a] = 1..n
        OBVIOUS
      <4>4. n \in DOMAIN revisions'[a] /\ a \in DOMAIN revisions' /\ revisions'[a][n] = bound'[k].digest[1]
        BY <4>2, <4>3
      <4> QED BY <4>1, <4>4 DEF KeyFits, BoundTo
    <3> QED BY <1>2, <3>1, <3>2
  <2>2. ASSUME NEW b \in DOMAIN revisions', NEW i \in DOMAIN revisions'[b] PROVE \E k \in DOMAIN bound' : BoundTo(k, b, i)'
    <3>1. CASE b \in DOMAIN revisions /\ i \in DOMAIN revisions[b]
      <4>1. PICK k \in DOMAIN bound : bound[k].result = <<b, i>>
        BY <3>1 DEF AsInv, KeysAndRevisions, BoundTo
      <4> QED BY <1>2, <4>1 DEF BoundTo
    <3>2. CASE b = a /\ i = n
      BY <1>2, <3>2 DEF BoundTo
    <3> QED BY <1>5, <3>1, <3>2
  <2>3. ASSUME NEW k \in DOMAIN bound PROVE bound[k].result # <<a, n>>
    <3>1. PICK b, i \in Nat : bound[k].result = <<b, i>> /\ b \in DOMAIN revisions /\ i \in DOMAIN revisions[b]
      BY DEF AsInv, KeysAndRevisions, KeyFits, BoundTo
    <3>2. <<b, i>> # <<a, n>>
      BY <1>6, <3>1
    <3> QED BY <3>1, <3>2
  <2>4. ASSUME NEW k \in DOMAIN bound', NEW l \in DOMAIN bound', bound'[k].result = bound'[l].result PROVE k = l
    <3>1. CASE k \in DOMAIN bound /\ l \in DOMAIN bound
      BY <1>2, <2>4, <3>1 DEF AsInv, KeysAndRevisions
    <3>2. CASE k = key \/ l = key
      BY <1>2, <2>3, <2>4, <3>2
    <3> QED BY <1>2, <3>1, <3>2
  <2> QED BY <2>1, <2>2, <2>4 DEF KeysAndRevisions
<1> QED BY <1>2, <1>7, <1>8, <1>9 DEF TablesSound, AsInv, TablesTyped

\* A commit finds its key, creates an artifact or appends a revision.
LEMMA CommitKeeps ==
    ASSUME AsInv, NEW p \in Processes, Commit(p)
    PROVE  AsInv'
<1>1. PICK v \in Works : v = work[p] /\ WorkFits(v)
  BY DEF AsInv, TablesTyped
<1> DEFINE r == v.request
           key == ScopeKey(r)
<1>2. /\ v.at = "commit" /\ v.at \in Writing /\ work' = [work EXCEPT ![p] = NoWork]
      /\ UNCHANGED <<links, blob, target, stops>>
  BY <1>1 DEF Commit, EndsWork, Writing
<1>3. /\ r \in WriteRequests /\ blob[r.content] = "whole" /\ r.content \in ArtifactContents
      /\ key \in DOMAIN bound \/ r.kind = "create" \/ r.artifact \in DOMAIN artifacts
  BY <1>1, <1>2 DEF WorkFits, WriteRequests, Creates, Revises
<1>4. stops' \in Nat /\ stops' >= stops /\ UNCHANGED <<links, target>> /\ stops' = stops
  <2>1. stops \in Nat
    BY DEF AsInv, TablesTyped
  <2>2. stops' = stops
    BY <1>2
  <2> QED BY <1>2, <2>1, <2>2
<1>5. SUFFICES TablesGrow /\ TablesSound'
  <2>1. TargetIsWhole'
    BY <1>1, <1>2, <1>4, NoWorkFits, TargetStays
  <2>2. WorkFits(NoWork)'
    BY DEF NoWork, WorkFits, Writing
  <2> QED BY <1>2, <1>5, <2>1, <2>2, NoWorkFits, WorkMoves
<1>6. /\ artifacts \in Seq(Nat) /\ revisions \in Seq(Seq(ArtifactContents)) /\ Len(artifacts) = Len(revisions)
      /\ \A a \in DOMAIN artifacts : artifacts[a] = Len(revisions[a])
  BY DEF AsInv, TablesTyped, NumbersAgree
<1>7. CASE key \in DOMAIN bound
  BY <1>1, <1>2, <1>4, <1>7, TablesStay DEF Commit
<1>8. CASE key \notin DOMAIN bound /\ r.kind = "create"
  <2> DEFINE a == Len(artifacts) + 1
  <2>1. /\ artifacts' = Append(artifacts, 1) /\ revisions' = Append(revisions, <<r.content>>)
        /\ bound' = [k \in DOMAIN bound \cup {key} |-> IF k = key THEN [digest |-> DigestOf(r), result |-> <<a, 1>>] ELSE bound[k]]
    BY <1>1, <1>8 DEF Commit
  <2>2. a \in Nat /\ <<r.content>> \in Seq(ArtifactContents) /\ a \notin DOMAIN revisions
    BY <1>3, <1>6
  <2>3. /\ artifacts' \in Seq(Nat) /\ Len(artifacts') = a /\ DOMAIN artifacts' = 1..a
        /\ artifacts'[a] = 1 /\ \A b \in DOMAIN artifacts : b \in DOMAIN artifacts' /\ artifacts'[b] = artifacts[b]
    BY <1>6, <2>1
  <2>4. /\ revisions' \in Seq(Seq(ArtifactContents)) /\ Len(revisions') = a
        /\ DOMAIN revisions' = DOMAIN revisions \cup {a} /\ revisions'[a] = <<r.content>>
        /\ \A b \in DOMAIN revisions : revisions'[b] = revisions[b]
    BY <1>6, <2>1, <2>2
  <2>5. NumbersAgree'
    <3>1. Len(artifacts') = Len(revisions')
      BY <2>3, <2>4
    <3>2. ASSUME NEW b \in DOMAIN artifacts' PROVE artifacts'[b] = Len(revisions'[b])
      <4>1. CASE b = a
        BY <2>3, <2>4, <4>1
      <4>2. CASE b # a
        <5>1. b \in DOMAIN artifacts /\ b \in DOMAIN revisions
          BY <1>6, <2>3, <3>2, <4>2
        <5> QED BY <1>6, <2>3, <2>4, <5>1
      <4> QED BY <4>1, <4>2
    <3> QED BY <3>1, <3>2 DEF NumbersAgree
  <2>6. DOMAIN revisions'[a] = 1..1 /\ revisions'[a][1] = r.content
    BY <2>4
  <2>7. DOMAIN artifacts \subseteq DOMAIN artifacts'
    BY <2>3
  <2>8. /\ r \in WriteRequests /\ blob[r.content] = "whole" /\ ScopeKey(r) \notin DOMAIN bound
        /\ UNCHANGED <<links, blob, stops>>
    BY <1>2, <1>3, <1>8
  <2>9. a \in DOMAIN revisions' /\ \A b \in DOMAIN revisions : b # a => revisions'[b] = revisions[b]
    BY <2>4
  <2> DEFINE n == 1
  <2>10. DOMAIN revisions'[a] = 1..n /\ revisions'[a][n] = r.content
    BY <2>6
  <2>11. bound' = [k \in DOMAIN bound \cup {key} |-> IF k = key THEN [digest |-> DigestOf(r), result |-> <<a, n>>] ELSE bound[k]]
    BY <2>1
  <2>12. n \in Nat /\ n > 0 /\ a \notin DOMAIN revisions /\ n = 1
    BY <2>2
  <2> HIDE DEF a, n, r
  <2> QED BY <2>2, <2>3, <2>4, <2>5, <2>7, <2>8, <2>9, <2>10, <2>11, <2>12, RevisionAdded
<1>9. CASE key \notin DOMAIN bound /\ r.kind = "revise"
  <2> DEFINE a == r.artifact
             n == artifacts[a] + 1
  <2>1. a \in DOMAIN artifacts /\ a \in DOMAIN revisions /\ a \in Nat /\ artifacts[a] \in Nat /\ n \in Nat
    BY <1>3, <1>6, <1>9
  <2>2. /\ artifacts' = [artifacts EXCEPT ![a] = n] /\ revisions' = [revisions EXCEPT ![a] = Append(revisions[a], r.content)]
        /\ bound' = [k \in DOMAIN bound \cup {key} |-> IF k = key THEN [digest |-> DigestOf(r), result |-> <<a, n>>] ELSE bound[k]]
    BY <1>1, <1>9 DEF Commit
  <2>3. /\ artifacts' \in Seq(Nat) /\ Len(artifacts') = Len(artifacts) /\ DOMAIN artifacts' = DOMAIN artifacts
        /\ \A b \in DOMAIN artifacts : artifacts'[b] = IF b = a THEN n ELSE artifacts[b]
    BY <1>6, <2>1, <2>2
  <2>4. revisions[a] \in Seq(ArtifactContents) /\ Len(revisions[a]) = n - 1
    BY <1>6, <2>1
  <2>5. /\ Append(revisions[a], r.content) \in Seq(ArtifactContents) /\ Len(Append(revisions[a], r.content)) = n
        /\ Append(revisions[a], r.content)[n] = r.content
        /\ \A i \in 1..n - 1 : Append(revisions[a], r.content)[i] = revisions[a][i]
    BY <1>3, <2>1, <2>4
  <2>6. /\ revisions' \in Seq(Seq(ArtifactContents)) /\ Len(revisions') = Len(revisions) /\ DOMAIN revisions' = DOMAIN revisions
        /\ \A b \in DOMAIN revisions : revisions'[b] = IF b = a THEN Append(revisions[a], r.content) ELSE revisions[b]
    BY <1>6, <2>1, <2>2, <2>5
  <2>7. NumbersAgree'
    <3>1. Len(artifacts') = Len(revisions')
      BY <1>6, <2>3, <2>6
    <3>2. ASSUME NEW b \in DOMAIN artifacts' PROVE artifacts'[b] = Len(revisions'[b])
      <4>1. b \in DOMAIN artifacts /\ b \in DOMAIN revisions
        BY <1>6, <2>3, <3>2
      <4>2. CASE b = a
        BY <2>3, <2>5, <2>6, <4>1, <4>2
      <4>3. CASE b # a
        BY <1>6, <2>3, <2>6, <4>1, <4>3
      <4> QED BY <4>2, <4>3
    <3> QED BY <3>1, <3>2 DEF NumbersAgree
  <2>8. DOMAIN revisions'[a] = 1..n /\ revisions'[a][n] = r.content /\ n > 0
    BY <2>1, <2>5, <2>6
  <2>9. /\ r \in WriteRequests /\ blob[r.content] = "whole" /\ ScopeKey(r) \notin DOMAIN bound
        /\ UNCHANGED <<links, blob, stops>>
    BY <1>2, <1>3, <1>9
  <2>10. /\ DOMAIN artifacts \subseteq DOMAIN artifacts' /\ a \in DOMAIN revisions'
         /\ DOMAIN revisions' = DOMAIN revisions \cup {a}
         /\ \A b \in DOMAIN revisions : b # a => revisions'[b] = revisions[b]
    BY <2>1, <2>3, <2>6
  <2>11. \A i \in 1..n - 1 : revisions'[a][i] = revisions[a][i]
    BY <2>1, <2>5, <2>6
  <2> HIDE DEF a, n, r
  <2> QED BY <2>1, <2>2, <2>3, <2>4, <2>6, <2>7, <2>8, <2>9, <2>10, <2>11, RevisionAdded
<1> QED BY <1>3, <1>7, <1>8, <1>9 DEF WriteRequests, Creates, Revises

\* AsInv is an invariant, for any processes, keys, contents and stops.
THEOREM ArtifactInvariant == AsSpec => []AsInv
<1>1. AsInit => AsInv
  <2> SUFFICES ASSUME AsInit PROVE AsInv
    OBVIOUS
  <2>1. /\ DOMAIN artifacts = {} /\ DOMAIN revisions = {} /\ DOMAIN bound = {} /\ Len(artifacts) = Len(revisions)
        /\ artifacts \in Seq(Nat) /\ revisions \in Seq(Seq(ArtifactContents)) /\ bound \in [DOMAIN bound -> Bindings]
    BY DEF AsInit
  <2>2. work \in [Processes -> Works] /\ \A p \in Processes : work[p] = NoWork
    BY NoWorkFits DEF AsInit
  <2>3. TablesTyped
    BY <2>1, <2>2 DEF AsInit, TablesTyped
  <2>4. \A p \in Processes : WorkFits(work[p])
    <3>1. SUFFICES ASSUME NEW p \in Processes PROVE WorkFits(work[p])
      OBVIOUS
    <3>2. work[p] = NoWork /\ WorkFits(NoWork)
      BY <2>2, NoWorkFits
    <3> QED BY <3>2
  <2>5. OneWrites
    BY <2>2 DEF OneWrites, NoWork, Writing
  <2> QED BY <2>1, <2>3, <2>4, <2>5 DEF AsInit, AsInv, NumbersAgree, ContentsAreThere, KeysAndRevisions, TargetIsWhole
<1>2. AsInv /\ UNCHANGED atVars => AsInv'
  <2>1. SUFFICES ASSUME AsInv, UNCHANGED atVars PROVE AsInv'
    OBVIOUS
  <2>2. UNCHANGED <<links, artifacts, revisions, bound, blob, target, work, stops>>
    BY <2>1 DEF atVars
  <2>3. TablesGrow /\ TablesSound'
    BY <2>1, <2>2, TablesStay DEF AsInv, TablesTyped
  <2>4. ASSUME NEW p \in Processes PROVE WorkFits(work[p])'
    <3>1. PICK v \in Works : v = work[p] /\ WorkFits(v)
      BY <2>1 DEF AsInv, TablesTyped
    <3>2. WorkFits(v)' /\ work'[p] = v
      BY <2>1, <2>2, <2>3, <3>1, WorkStays
    <3> QED BY <3>2 DEF WorkFits
  <2>5. TablesTyped' /\ OneWrites' /\ TargetIsWhole'
    BY <2>1, <2>2, <2>3 DEF AsInv, TablesTyped, TablesSound, OneWrites, TargetIsWhole
  <2> QED BY <2>3, <2>4, <2>5 DEF AsInv, TablesSound
<1>3. AsInv /\ AsNext => AsInv'
  BY BeginWriteKeeps, VerifyBlobKeeps, StartBundleKeeps, EndBundleKeeps, StartExportKeeps, RestKeeps, ExportKeeps,
     BlobKeeps, CommitKeeps DEF AsNext, WriteRequests
<1> QED BY <1>1, <1>2, <1>3, PTL DEF AsSpec

\* An artifact is the bytes that were stored: ArtifactsSound is an invariant, wherever processes stop
\* and whether or not the file system has hard links.
THEOREM ArtifactsAreSound == AsSpec => []ArtifactsSound
  BY ArtifactInvariant, ArtifactsFollow, PTL

-----------------------------------------------------------------------------
(* The application: what the state holds *)

BeforeEnd == {"queued", "make", "submit", "start", "stop", "announce", "run", "end"}
AfterEnd == {"return", "finish", "over"}
Begun == {"stop", "announce", "run", "end"}

RunRecords ==
    [status : ActiveRuns \cup Reports \cup {"none"}, key : RequestKeys \cup {"none"}, digest : Digests \cup {"none"},
     asked : BOOLEAN, engine : BOOLEAN, known : BOOLEAN, last : Nat, ends : SUBSET Nat,
     at : BeforeEnd \cup AfterEnd \cup {"none"}, token : {"none", "open", "set"}, stopping : Nat, announcing : BOOLEAN,
     emitted : Nat, verdict : Reports \cup {"none"}, cancels : Nat]

\* Where a run is says what of it is known, open and reported.
PlaceFits(c) ==
    /\ c.at = "none" => c.status = "none" /\ c.key = "none" /\ c.ends = {} /\ c.last = 0
    /\ c.at \in BeforeEnd => c.status \in ActiveRuns /\ c.ends = {}
    /\ c.at \in AfterEnd => c.status \in Reports /\ c.ends # {}
    /\ c.at \in Begun \cup {"submit", "start"} => c.engine
    /\ c.at \in Begun => c.known
    /\ c.known => c.at \in Begun \cup AfterEnd
    /\ c.at \in BeforeEnd \ (Begun \cup {"start"}) => c.token = "none"
    /\ c.at \in Begun \cup {"start"} => c.token # "none"
    /\ c.at \in BeforeEnd \ {"end"} => c.verdict = "none"
    /\ c.at \in {"end", "return", "finish"} => c.verdict # "none"
    /\ c.at = "over" => c.verdict \in {"none", c.status}

\* After the terminal event only the announcement of a stop may come.
EndFits(c) ==
    /\ c.ends \subseteq 1..c.last
    /\ \A n \in c.ends : c.last = n \/ (c.last = n + 1 /\ ~c.announcing /\ c.token # "open")
    /\ c.announcing => c.token # "open" /\ c.at \in Begun \cup AfterEnd
    /\ \A m, n \in c.ends : m = n

\* A cancellation finds its way to the token.
StopFits(c) ==
    /\ c.at = "announce" => c.token = "set"
    /\ c.asked /\ c.at \in {"run", "end"} => c.token = "set" \/ c.stopping > 0
    /\ c.stopping > 0 => c.at \in Begun \cup AfterEnd

RunFits(c) == PlaceFits(c) /\ EndFits(c) /\ StopFits(c)

KeysFit ==
    /\ runOfKey \in [RequestKeys -> ServiceRunIds \cup {0}]
    /\ \A k \in RequestKeys : runOfKey[k] # 0 => record[runOfKey[k]].key = k
    /\ \A r \in ServiceRunIds : record[r].key \in RequestKeys => runOfKey[record[r].key] = r

AnswersGiven ==
    /\ answered \subseteq Digests \X ServiceRunIds
    /\ \A a \in answered : record[a[2]].digest = a[1] /\ record[a[2]].status # "none"

StreamFits ==
    /\ stream \in [at : {"wait", "check", "over"}, cursor : Nat, sawEnd : BOOLEAN]
    /\ stream.cursor <= record[1].last
    /\ \A n \in record[1].ends : n <= stream.cursor => stream.sawEnd
    /\ stream.at # "wait" => stream.sawEnd

ApInv ==
    /\ record \in [ServiceRunIds -> RunRecords] /\ (\A r \in ServiceRunIds : RunFits(record[r]))
    /\ KeysFit /\ AnswersGiven /\ StreamFits /\ LimitsHold

-----------------------------------------------------------------------------
(* The application: what follows from the invariant *)

\* A set whose elements are all equal has one at most.
LEMMA OneAtMost ==
    ASSUME NEW S, \A m, n \in S : m = n
    PROVE  Cardinality(S) <= 1
<1>1. CASE S = {}
  BY <1>1, FS_EmptySet
<1>2. CASE S # {}
  <2>1. PICK n : n \in S
    BY <1>2
  <2>2. S = {n}
    BY <2>1
  <2>3. Cardinality(S) = 1
    BY <2>2, FS_Singleton
  <2> QED BY <2>3
<1> QED BY <1>1, <1>2

\* What the property says of runs, streams and answers follows from the invariant.
LEMMA ApplicationFollows ==
    ASSUME ApInv
    PROVE  ApplicationSound
<1>1. \A r \in ServiceRunIds : record[r] \in RunRecords /\ PlaceFits(record[r]) /\ EndFits(record[r]) /\ StopFits(record[r])
  BY DEF ApInv, RunFits
<1>2. ApTypeOK
  <2>1. \A r \in ServiceRunIds : /\ record[r].status \in ActiveRuns \union Reports \union {"none"}
                                 /\ record[r].token \in {"none", "open", "set"}
                                 /\ record[r].ends \subseteq 1..record[r].last
    BY <1>1 DEF RunRecords, EndFits
  <2> QED BY <2>1 DEF ApTypeOK, ApInv, KeysFit, AnswersGiven
<1>3. CancelIsPassedOn
  BY <1>1 DEF CancelIsPassedOn, StopFits
<1>4. OneTerminalEvent
  <2>1. \A r \in ServiceRunIds : Cardinality(record[r].ends) <= 1
    BY <1>1, OneAtMost DEF EndFits
  <2>2. ASSUME NEW r \in ServiceRunIds PROVE record[r].status \in Reports <=> record[r].ends # {}
    <3>1. PICK c \in RunRecords : c = record[r] /\ PlaceFits(c)
      BY <1>1
    <3>2. c.at \in BeforeEnd \/ c.at \in AfterEnd \/ c.at = "none"
      BY DEF RunRecords
    <3>3. \A s \in Reports : s \notin ActiveRuns /\ s # "none"
      BY DEF Reports, ActiveRuns
    <3> QED BY <3>1, <3>2, <3>3 DEF PlaceFits
  <2> QED BY <2>1, <2>2 DEF OneTerminalEvent
<1>5. ReportIsKept
  BY <1>1 DEF ReportIsKept, Where, PlaceFits
<1>6. StreamEndsInformed
  BY DEF ApInv, StreamFits, StreamEndsInformed
<1>7. AnswersFit
  BY DEF ApInv, KeysFit, AnswersGiven, AnswersFit
<1> QED BY <1>2, <1>3, <1>4, <1>5, <1>6, <1>7 DEF ApInv, ApplicationSound

-----------------------------------------------------------------------------
(* The application: one run moves *)

OnThreadAt == (BeforeEnd \cup AfterEnd) \ {"queued", "over"}

\* The record of r becomes w: what it was asked for stays, its events only grow.
LEMMA RunMoves ==
    ASSUME ApInv, NEW r \in ServiceRunIds, NEW w \in RunRecords, record' = [record EXCEPT ![r] = w],
           RunFits(w), UNCHANGED <<runOfKey, answered, stream>>,
           w.key = record[r].key, w.digest = record[r].digest, record[r].status # "none" => w.status # "none",
           w.last >= record[r].last, \A n \in w.ends : n \in record[r].ends \/ n > record[r].last,
           LimitsHold'
    PROVE  ApInv'
<1>1. /\ record' \in [ServiceRunIds -> RunRecords]
      /\ \A q \in ServiceRunIds : record'[q] = IF q = r THEN w ELSE record[q]
  BY DEF ApInv
<1>2. \A q \in ServiceRunIds : RunFits(record'[q])
  BY <1>1 DEF ApInv
<1>3. \A q \in ServiceRunIds : /\ record'[q].key = record[q].key /\ record'[q].digest = record[q].digest
                               /\ record[q].status # "none" => record'[q].status # "none"
                               /\ record'[q].last >= record[q].last
                               /\ \A n \in record'[q].ends : n \in record[q].ends \/ n > record[q].last
  <2>1. \A q \in ServiceRunIds : record[q].last \in Nat
    BY DEF ApInv, RunRecords
  <2> QED BY <1>1, <2>1
<1>4. KeysFit'
  BY <1>3 DEF ApInv, KeysFit
<1>5. AnswersGiven'
  BY <1>3 DEF ApInv, AnswersGiven
<1>6. StreamFits'
  <2>1. 1 \in ServiceRunIds /\ record[1].last \in Nat /\ record'[1].last \in Nat /\ record'[1].ends \subseteq Nat
    BY <1>1, ServiceAssumption DEF ApInv, RunRecords
  <2>2. stream.cursor \in Nat /\ stream.cursor <= record[1].last
    BY DEF ApInv, StreamFits
  <2>3. stream.cursor <= record'[1].last
    BY <1>3, <2>1, <2>2
  <2>4. ASSUME NEW n \in record'[1].ends, n <= stream.cursor PROVE stream.sawEnd
    <3>1. n \in record[1].ends
      BY <1>3, <2>1, <2>2, <2>4
    <3> QED BY <2>4, <3>1 DEF ApInv, StreamFits
  <2> QED BY <2>3, <2>4 DEF ApInv, StreamFits
<1> QED BY <1>1, <1>2, <1>4, <1>5, <1>6 DEF ApInv, RunFits, PlaceFits, EndFits, StopFits

\* The limits hold still when a run does not become active nor takes a thread.
LEMMA LimitsStay ==
    ASSUME ApInv, NEW r \in ServiceRunIds, NEW w \in RunRecords, record' = [record EXCEPT ![r] = w],
           w.status \in ActiveRuns => record[r].status \in ActiveRuns,
           w.at \in OnThreadAt => record[r].at \in OnThreadAt
    PROVE  LimitsHold'
<1> DEFINE active == {q \in ServiceRunIds : record[q].status \in ActiveRuns}
           thread == {q \in ServiceRunIds : record[q].at \in OnThreadAt}
<1>1. \A q \in ServiceRunIds : record'[q] = IF q = r THEN w ELSE record[q]
  BY DEF ApInv
<1>2. active' \subseteq active /\ thread' \subseteq thread
  BY <1>1
<1>3. OnThread = thread /\ OnThread' = thread'
  <2>1. \A c \in RunRecords : c.at \notin {"none", "queued", "over"} <=> c.at \in OnThreadAt
    BY DEF RunRecords, OnThreadAt, BeforeEnd, AfterEnd
  <2>2. \A q \in ServiceRunIds : record[q] \in RunRecords /\ record'[q] \in RunRecords
    BY <1>1 DEF ApInv
  <2> QED BY <2>1, <2>2 DEF OnThread
<1>4. IsFiniteSet(active) /\ IsFiniteSet(thread)
  BY ServiceAssumption, FS_Subset
<1> HIDE DEF active, thread
<1>5. /\ Cardinality(active') <= Cardinality(active) /\ Cardinality(thread') <= Cardinality(thread)
      /\ Cardinality(active) \in Nat /\ Cardinality(thread) \in Nat
      /\ Cardinality(active') \in Nat /\ Cardinality(thread') \in Nat
  BY <1>2, <1>4, FS_Subset, FS_CardinalityType
<1>6. Cardinality(active) <= MaxActiveRuns /\ Cardinality(thread) <= MaxActiveRuns
  BY <1>3 DEF ApInv, LimitsHold, active
<1>7. Cardinality(active') <= MaxActiveRuns /\ Cardinality(thread') <= MaxActiveRuns
  BY <1>5, <1>6, ServiceAssumption
<1> QED BY <1>3, <1>7 DEF LimitsHold, active

\* w may follow c in a step that takes no place of another run.
Follows(c, w) ==
    /\ w.key = c.key /\ w.digest = c.digest /\ w.status # "none"
    /\ w.status \in ActiveRuns => c.status \in ActiveRuns
    /\ w.at \in OnThreadAt => c.at \in OnThreadAt
    /\ w.last >= c.last /\ \A n \in w.ends : n \in c.ends \/ n > c.last

\* A step of one run that takes no place of another.
LEMMA RunSteps ==
    ASSUME ApInv, NEW r \in ServiceRunIds, NEW w \in RunRecords, Put(r, w), RunFits(w), Follows(record[r], w)
    PROVE  ApInv'
  BY RunMoves, LimitsStay DEF Put, Follows

\* An event is added to the record, as its end or not.
LEMMA AppendedIs ==
    ASSUME NEW c \in RunRecords, NEW terminal \in BOOLEAN
    PROVE  LET w == Appended(c, terminal)
           IN  /\ w \in RunRecords /\ w.last = c.last + 1 /\ w.ends = IF terminal THEN c.ends \cup {c.last + 1} ELSE c.ends
               /\ w.status = c.status /\ w.key = c.key /\ w.digest = c.digest /\ w.asked = c.asked /\ w.engine = c.engine
               /\ w.known = c.known /\ w.at = c.at /\ w.token = c.token /\ w.stopping = c.stopping
               /\ w.announcing = c.announcing /\ w.verdict = c.verdict
<1> DEFINE l == c.last + 1
           e == IF terminal THEN c.ends \cup {c.last + 1} ELSE c.ends
           w == [c EXCEPT !.last = l, !.ends = e]
<1>1. c.last \in Nat /\ c.ends \in SUBSET Nat
  BY DEF RunRecords
<1>2. l \in Nat /\ e \in SUBSET Nat
  BY <1>1
<1>3. Appended(c, terminal) = w
  BY DEF Appended
<1> HIDE DEF l, e
<1>4. w \in RunRecords
  BY <1>2 DEF RunRecords
<1>5. w.last = l /\ w.ends = e
  BY DEF RunRecords
<1>6. /\ w.status = c.status /\ w.key = c.key /\ w.digest = c.digest /\ w.asked = c.asked /\ w.engine = c.engine
      /\ w.known = c.known /\ w.at = c.at /\ w.token = c.token /\ w.stopping = c.stopping
      /\ w.announcing = c.announcing /\ w.verdict = c.verdict
  BY DEF RunRecords
<1> HIDE DEF w
<1> QED BY <1>3, <1>4, <1>5, <1>6 DEF l, e

\* The record of a run is one of those, and fits.
LEMMA RecordFits ==
    ASSUME ApInv, NEW r \in ServiceRunIds
    PROVE  \E c \in RunRecords : /\ c = record[r] /\ PlaceFits(c) /\ EndFits(c) /\ StopFits(c)
                                 /\ c.last \in Nat /\ c.last + 1 \in Nat /\ c.ends \subseteq Nat /\ \A n \in c.ends : n <= c.last
                                 /\ c.stopping \in Nat /\ c.last + 1 > c.last
<1>1. PICK c \in RunRecords : c = record[r] /\ PlaceFits(c) /\ EndFits(c) /\ StopFits(c)
  BY DEF ApInv, RunFits
<1>2. c.last \in Nat /\ c.ends \subseteq Nat /\ c.stopping \in Nat
  BY DEF RunRecords
<1>3. \A n \in c.ends : n <= c.last
  BY <1>1, <1>2 DEF EndFits
<1> QED BY <1>1, <1>2, <1>3

\* The engine is made.
LEMMA KeepEngineKeeps ==
    ASSUME ApInv, NEW r \in ServiceRunIds, KeepEngine(r)
    PROVE  ApInv'
<1>1. PICK c \in RunRecords : /\ c = record[r] /\ PlaceFits(c) /\ EndFits(c) /\ StopFits(c)
                              /\ c.last \in Nat /\ c.last + 1 \in Nat /\ c.ends \subseteq Nat /\ \A n \in c.ends : n <= c.last
                              /\ c.stopping \in Nat /\ c.last + 1 > c.last
  BY RecordFits
<1>2. c.at = "make"
  BY <1>1 DEF KeepEngine, Where
<1>3. c.status \in ActiveRuns /\ c.ends = {} /\ ~c.known /\ c.token = "none" /\ c.verdict = "none"
  BY <1>1, <1>2 DEF PlaceFits, EndFits, StopFits, RunRecords, ActiveRuns, Reports, BeforeEnd, AfterEnd, Begun
<1> DEFINE s == IF c.status = "accepted" THEN "running" ELSE c.status
           w == [c EXCEPT !.engine = TRUE, !.at = "submit", !.status = s]
<1>4. Put(r, w)
  BY <1>1, <1>2, <1>3 DEF KeepEngine
<1>5. s \in ActiveRuns /\ (c.status = "cancelling" => s = "cancelling")
  BY <1>1, <1>2, <1>3 DEF ActiveRuns, Reports, BeforeEnd, AfterEnd, Begun
<1> HIDE DEF s
<1>6. w \in RunRecords
  BY <1>5 DEF RunRecords, BeforeEnd
<1>7. /\ w.status = s /\ w.key = c.key /\ w.digest = c.digest /\ w.asked = c.asked
      /\ w.engine = TRUE /\ w.known = c.known /\ w.last = c.last /\ w.ends = c.ends
      /\ w.at = "submit" /\ w.token = c.token /\ w.stopping = c.stopping
      /\ w.announcing = c.announcing /\ w.verdict = c.verdict
  BY DEF RunRecords
<1> HIDE DEF w
<1>8. PlaceFits(w)
  BY <1>1, <1>2, <1>3, <1>5, <1>6, <1>7 DEF PlaceFits, ActiveRuns, Reports, BeforeEnd, AfterEnd, Begun
<1>9. EndFits(w)
  BY <1>1, <1>2, <1>3, <1>5, <1>6, <1>7 DEF EndFits, ActiveRuns, Reports, BeforeEnd, AfterEnd, Begun
<1>10. StopFits(w)
  BY <1>1, <1>2, <1>3, <1>5, <1>6, <1>7 DEF StopFits, ActiveRuns, Reports, BeforeEnd, AfterEnd, Begun
<1>11. Follows(c, w)
  BY <1>1, <1>2, <1>3, <1>5, <1>6, <1>7 DEF Follows, PlaceFits, OnThreadAt, ActiveRuns, Reports, BeforeEnd, AfterEnd, Begun
<1> QED BY <1>1, <1>4, <1>6, <1>7, <1>8, <1>9, <1>10, <1>11, RunSteps DEF RunFits

\* The engine makes its stop token.
LEMMA EngineBeginsKeeps ==
    ASSUME ApInv, NEW r \in ServiceRunIds, EngineBegins(r)
    PROVE  ApInv'
<1>1. PICK c \in RunRecords : /\ c = record[r] /\ PlaceFits(c) /\ EndFits(c) /\ StopFits(c)
                              /\ c.last \in Nat /\ c.last + 1 \in Nat /\ c.ends \subseteq Nat /\ \A n \in c.ends : n <= c.last
                              /\ c.stopping \in Nat /\ c.last + 1 > c.last
  BY RecordFits
<1>2. c.at = "submit"
  BY <1>1 DEF EngineBegins, Where
<1>3. c.status \in ActiveRuns /\ c.ends = {} /\ ~c.known /\ c.token = "none" /\ c.verdict = "none"
  BY <1>1, <1>2 DEF PlaceFits, EndFits, StopFits, RunRecords, ActiveRuns, Reports, BeforeEnd, AfterEnd, Begun
<1> DEFINE w == [c EXCEPT !.token = "open", !.at = "start"]
<1>4. Put(r, w)
  BY <1>1, <1>2, <1>3 DEF EngineBegins
<1>5. w \in RunRecords
  BY  DEF RunRecords, BeforeEnd
<1>6. /\ w.status = c.status /\ w.key = c.key /\ w.digest = c.digest /\ w.asked = c.asked
      /\ w.engine = c.engine /\ w.known = c.known /\ w.last = c.last /\ w.ends = c.ends
      /\ w.at = "start" /\ w.token = "open" /\ w.stopping = c.stopping
      /\ w.announcing = c.announcing /\ w.verdict = c.verdict
  BY DEF RunRecords
<1> HIDE DEF w
<1>7. PlaceFits(w)
  BY <1>1, <1>2, <1>3, <1>5, <1>6 DEF PlaceFits, ActiveRuns, Reports, BeforeEnd, AfterEnd, Begun
<1>8. EndFits(w)
  BY <1>1, <1>2, <1>3, <1>5, <1>6 DEF EndFits, ActiveRuns, Reports, BeforeEnd, AfterEnd, Begun
<1>9. StopFits(w)
  BY <1>1, <1>2, <1>3, <1>5, <1>6 DEF StopFits, ActiveRuns, Reports, BeforeEnd, AfterEnd, Begun
<1>10. Follows(c, w)
  BY <1>1, <1>2, <1>3, <1>5, <1>6 DEF Follows, PlaceFits, OnThreadAt, ActiveRuns, Reports, BeforeEnd, AfterEnd, Begun
<1> QED BY <1>1, <1>4, <1>5, <1>6, <1>7, <1>8, <1>9, <1>10, RunSteps DEF RunFits

\* The run has started; a cancellation that came before is passed on.
LEMMA RunStartedKeeps ==
    ASSUME ApInv, NEW r \in ServiceRunIds, RunStarted(r)
    PROVE  ApInv'
<1>1. PICK c \in RunRecords : /\ c = record[r] /\ PlaceFits(c) /\ EndFits(c) /\ StopFits(c)
                              /\ c.last \in Nat /\ c.last + 1 \in Nat /\ c.ends \subseteq Nat /\ \A n \in c.ends : n <= c.last
                              /\ c.stopping \in Nat /\ c.last + 1 > c.last
  BY RecordFits
<1>2. c.at = "start"
  BY <1>1 DEF RunStarted, Where
<1>3. c.status \in ActiveRuns /\ c.ends = {} /\ c.token # "none" /\ c.verdict = "none"
  BY <1>1, <1>2 DEF PlaceFits, EndFits, StopFits, RunRecords, ActiveRuns, Reports, BeforeEnd, AfterEnd, Begun
<1> DEFINE s == IF c.asked THEN "cancelling" ELSE "running"
           a == IF c.asked THEN "stop" ELSE "run"
           u == [c EXCEPT !.known = TRUE, !.status = s, !.at = a]
           w == Appended(u, FALSE)
<1>4. Put(r, w)
  BY <1>1, <1>2, <1>3 DEF RunStarted
<1>5. s \in ActiveRuns /\ a \in {"stop", "run"} /\ (c.asked => s = "cancelling" /\ a = "stop")
  BY <1>1, <1>2, <1>3 DEF ActiveRuns, Reports, BeforeEnd, AfterEnd, Begun
<1> HIDE DEF s, a
<1>6. u \in RunRecords
  BY <1>5 DEF RunRecords, BeforeEnd
<1>7. /\ u.status = s /\ u.key = c.key /\ u.digest = c.digest /\ u.asked = c.asked
      /\ u.engine = c.engine /\ u.known = TRUE /\ u.last = c.last /\ u.ends = c.ends /\ u.at = a
      /\ u.token = c.token /\ u.stopping = c.stopping /\ u.announcing = c.announcing
      /\ u.verdict = c.verdict
  BY DEF RunRecords
<1> HIDE DEF u
<1>8. /\ w \in RunRecords
      /\ w.status = s /\ w.key = c.key /\ w.digest = c.digest /\ w.asked = c.asked
      /\ w.engine = c.engine /\ w.known = TRUE /\ w.last = c.last + 1 /\ w.ends = c.ends
      /\ w.at = a /\ w.token = c.token /\ w.stopping = c.stopping /\ w.announcing = c.announcing
      /\ w.verdict = c.verdict
  <2>1. /\ w \in RunRecords
        /\ w.status = u.status /\ w.key = u.key /\ w.digest = u.digest /\ w.asked = u.asked
        /\ w.engine = u.engine /\ w.known = u.known /\ w.last = u.last + 1 /\ w.ends = u.ends
        /\ w.at = u.at /\ w.token = u.token /\ w.stopping = u.stopping
        /\ w.announcing = u.announcing /\ w.verdict = u.verdict
    BY <1>6, AppendedIs
  <2> QED BY <1>7, <2>1
<1> HIDE DEF w
<1>9. PlaceFits(w)
  BY <1>1, <1>2, <1>3, <1>5, <1>8 DEF PlaceFits, ActiveRuns, Reports, BeforeEnd, AfterEnd, Begun
<1>10. EndFits(w)
  BY <1>1, <1>2, <1>3, <1>5, <1>8 DEF EndFits, ActiveRuns, Reports, BeforeEnd, AfterEnd, Begun
<1>11. StopFits(w)
  BY <1>1, <1>2, <1>3, <1>5, <1>8 DEF StopFits, ActiveRuns, Reports, BeforeEnd, AfterEnd, Begun
<1>12. Follows(c, w)
  BY <1>1, <1>2, <1>3, <1>5, <1>8 DEF Follows, PlaceFits, OnThreadAt, ActiveRuns, Reports, BeforeEnd, AfterEnd, Begun
<1> QED BY <1>1, <1>4, <1>8, <1>9, <1>10, <1>11, <1>12, RunSteps DEF RunFits

\* The thread of the engine stops it.
LEMMA StopSelfKeeps ==
    ASSUME ApInv, NEW r \in ServiceRunIds, StopSelf(r)
    PROVE  ApInv'
<1>1. PICK c \in RunRecords : /\ c = record[r] /\ PlaceFits(c) /\ EndFits(c) /\ StopFits(c)
                              /\ c.last \in Nat /\ c.last + 1 \in Nat /\ c.ends \subseteq Nat /\ \A n \in c.ends : n <= c.last
                              /\ c.stopping \in Nat /\ c.last + 1 > c.last
  BY RecordFits
<1>2. c.at = "stop"
  BY <1>1 DEF StopSelf, Where
<1>3. c.status \in ActiveRuns /\ c.ends = {} /\ c.engine /\ c.known /\ c.verdict = "none"
  BY <1>1, <1>2 DEF PlaceFits, EndFits, StopFits, RunRecords, ActiveRuns, Reports, BeforeEnd, AfterEnd, Begun
<1> DEFINE a == IF c.token = "open" THEN "announce" ELSE "run"
           w == [c EXCEPT !.token = "set", !.at = a]
<1>4. Put(r, w)
  BY <1>1, <1>2, <1>3 DEF StopSelf
<1>5. a \in {"announce", "run"}
  BY <1>1, <1>2, <1>3 DEF ActiveRuns, Reports, BeforeEnd, AfterEnd, Begun
<1> HIDE DEF a
<1>6. w \in RunRecords
  BY <1>5 DEF RunRecords, BeforeEnd
<1>7. /\ w.status = c.status /\ w.key = c.key /\ w.digest = c.digest /\ w.asked = c.asked
      /\ w.engine = c.engine /\ w.known = c.known /\ w.last = c.last /\ w.ends = c.ends
      /\ w.at = a /\ w.token = "set" /\ w.stopping = c.stopping /\ w.announcing = c.announcing
      /\ w.verdict = c.verdict
  BY DEF RunRecords
<1> HIDE DEF w
<1>8. PlaceFits(w)
  BY <1>1, <1>2, <1>3, <1>5, <1>6, <1>7 DEF PlaceFits, ActiveRuns, Reports, BeforeEnd, AfterEnd, Begun
<1>9. EndFits(w)
  BY <1>1, <1>2, <1>3, <1>5, <1>6, <1>7 DEF EndFits, ActiveRuns, Reports, BeforeEnd, AfterEnd, Begun
<1>10. StopFits(w)
  BY <1>1, <1>2, <1>3, <1>5, <1>6, <1>7 DEF StopFits, ActiveRuns, Reports, BeforeEnd, AfterEnd, Begun
<1>11. Follows(c, w)
  BY <1>1, <1>2, <1>3, <1>5, <1>6, <1>7 DEF Follows, PlaceFits, OnThreadAt, ActiveRuns, Reports, BeforeEnd, AfterEnd, Begun
<1> QED BY <1>1, <1>4, <1>6, <1>7, <1>8, <1>9, <1>10, <1>11, RunSteps DEF RunFits

\* It says so.
LEMMA AnnounceSelfKeeps ==
    ASSUME ApInv, NEW r \in ServiceRunIds, AnnounceSelf(r)
    PROVE  ApInv'
<1>1. PICK c \in RunRecords : /\ c = record[r] /\ PlaceFits(c) /\ EndFits(c) /\ StopFits(c)
                              /\ c.last \in Nat /\ c.last + 1 \in Nat /\ c.ends \subseteq Nat /\ \A n \in c.ends : n <= c.last
                              /\ c.stopping \in Nat /\ c.last + 1 > c.last
  BY RecordFits
<1>2. c.at = "announce"
  BY <1>1 DEF AnnounceSelf, Where
<1>3. c.status \in ActiveRuns /\ c.ends = {} /\ c.engine /\ c.known /\ c.verdict = "none" /\ c.token # "none"
  BY <1>1, <1>2 DEF PlaceFits, EndFits, StopFits, RunRecords, ActiveRuns, Reports, BeforeEnd, AfterEnd, Begun
<1> DEFINE u == [c EXCEPT !.at = "run"]
           w == Appended(u, FALSE)
<1>4. Put(r, w)
  BY <1>1, <1>2, <1>3 DEF AnnounceSelf
<1>5. u \in RunRecords
  BY  DEF RunRecords, BeforeEnd
<1>6. /\ u.status = c.status /\ u.key = c.key /\ u.digest = c.digest /\ u.asked = c.asked
      /\ u.engine = c.engine /\ u.known = c.known /\ u.last = c.last /\ u.ends = c.ends
      /\ u.at = "run" /\ u.token = c.token /\ u.stopping = c.stopping
      /\ u.announcing = c.announcing /\ u.verdict = c.verdict
  BY DEF RunRecords
<1> HIDE DEF u
<1>7. /\ w \in RunRecords
      /\ w.status = c.status /\ w.key = c.key /\ w.digest = c.digest /\ w.asked = c.asked
      /\ w.engine = c.engine /\ w.known = c.known /\ w.last = c.last + 1 /\ w.ends = c.ends
      /\ w.at = "run" /\ w.token = c.token /\ w.stopping = c.stopping
      /\ w.announcing = c.announcing /\ w.verdict = c.verdict
  <2>1. /\ w \in RunRecords
        /\ w.status = u.status /\ w.key = u.key /\ w.digest = u.digest /\ w.asked = u.asked
        /\ w.engine = u.engine /\ w.known = u.known /\ w.last = u.last + 1 /\ w.ends = u.ends
        /\ w.at = u.at /\ w.token = u.token /\ w.stopping = u.stopping
        /\ w.announcing = u.announcing /\ w.verdict = u.verdict
    BY <1>5, AppendedIs
  <2> QED BY <1>6, <2>1
<1> HIDE DEF w
<1>8. PlaceFits(w)
  BY <1>1, <1>2, <1>3, <1>7 DEF PlaceFits, ActiveRuns, Reports, BeforeEnd, AfterEnd, Begun
<1>9. EndFits(w)
  BY <1>1, <1>2, <1>3, <1>7 DEF EndFits, ActiveRuns, Reports, BeforeEnd, AfterEnd, Begun
<1>10. StopFits(w)
  BY <1>1, <1>2, <1>3, <1>7 DEF StopFits, ActiveRuns, Reports, BeforeEnd, AfterEnd, Begun
<1>11. Follows(c, w)
  BY <1>1, <1>2, <1>3, <1>7 DEF Follows, PlaceFits, OnThreadAt, ActiveRuns, Reports, BeforeEnd, AfterEnd, Begun
<1> QED BY <1>1, <1>4, <1>7, <1>8, <1>9, <1>10, <1>11, RunSteps DEF RunFits

\* Any other event of the engine.
LEMMA EngineEmitsKeeps ==
    ASSUME ApInv, NEW r \in ServiceRunIds, EngineEmits(r)
    PROVE  ApInv'
<1>1. PICK c \in RunRecords : /\ c = record[r] /\ PlaceFits(c) /\ EndFits(c) /\ StopFits(c)
                              /\ c.last \in Nat /\ c.last + 1 \in Nat /\ c.ends \subseteq Nat /\ \A n \in c.ends : n <= c.last
                              /\ c.stopping \in Nat /\ c.last + 1 > c.last
  BY RecordFits
<1>2. c.at = "run"
  BY <1>1 DEF EngineEmits, Where
<1>3. c.status \in ActiveRuns /\ c.ends = {} /\ c.emitted \in Nat
  BY <1>1, <1>2 DEF PlaceFits, EndFits, StopFits, RunRecords, ActiveRuns, Reports, BeforeEnd, AfterEnd, Begun
<1> DEFINE m == c.emitted + 1
           u == [c EXCEPT !.emitted = m]
           w == Appended(u, FALSE)
<1>4. Put(r, w)
  BY <1>1, <1>2, <1>3 DEF EngineEmits
<1>5. m \in Nat
  BY <1>1, <1>2, <1>3 DEF ActiveRuns, Reports, BeforeEnd, AfterEnd, Begun
<1> HIDE DEF m
<1>6. u \in RunRecords
  BY <1>5 DEF RunRecords
<1>7. /\ u.status = c.status /\ u.key = c.key /\ u.digest = c.digest /\ u.asked = c.asked
      /\ u.engine = c.engine /\ u.known = c.known /\ u.last = c.last /\ u.ends = c.ends
      /\ u.at = c.at /\ u.token = c.token /\ u.stopping = c.stopping
      /\ u.announcing = c.announcing /\ u.verdict = c.verdict
  BY DEF RunRecords
<1> HIDE DEF u
<1>8. /\ w \in RunRecords
      /\ w.status = c.status /\ w.key = c.key /\ w.digest = c.digest /\ w.asked = c.asked
      /\ w.engine = c.engine /\ w.known = c.known /\ w.last = c.last + 1 /\ w.ends = c.ends
      /\ w.at = c.at /\ w.token = c.token /\ w.stopping = c.stopping
      /\ w.announcing = c.announcing /\ w.verdict = c.verdict
  <2>1. /\ w \in RunRecords
        /\ w.status = u.status /\ w.key = u.key /\ w.digest = u.digest /\ w.asked = u.asked
        /\ w.engine = u.engine /\ w.known = u.known /\ w.last = u.last + 1 /\ w.ends = u.ends
        /\ w.at = u.at /\ w.token = u.token /\ w.stopping = u.stopping
        /\ w.announcing = u.announcing /\ w.verdict = u.verdict
    BY <1>6, AppendedIs
  <2> QED BY <1>7, <2>1
<1> HIDE DEF w
<1>9. PlaceFits(w)
  BY <1>1, <1>2, <1>3, <1>5, <1>8 DEF PlaceFits, ActiveRuns, Reports, BeforeEnd, AfterEnd, Begun
<1>10. EndFits(w)
  BY <1>1, <1>2, <1>3, <1>5, <1>8 DEF EndFits, ActiveRuns, Reports, BeforeEnd, AfterEnd, Begun
<1>11. StopFits(w)
  BY <1>1, <1>2, <1>3, <1>5, <1>8 DEF StopFits, ActiveRuns, Reports, BeforeEnd, AfterEnd, Begun
<1>12. Follows(c, w)
  BY <1>1, <1>2, <1>3, <1>5, <1>8 DEF Follows, PlaceFits, OnThreadAt, ActiveRuns, Reports, BeforeEnd, AfterEnd, Begun
<1> QED BY <1>1, <1>4, <1>8, <1>9, <1>10, <1>11, <1>12, RunSteps DEF RunFits

\* The engine sends the event of its end.
LEMMA TerminalEventKeeps ==
    ASSUME ApInv, NEW r \in ServiceRunIds, TerminalEvent(r)
    PROVE  ApInv'
<1>1. PICK c \in RunRecords : /\ c = record[r] /\ PlaceFits(c) /\ EndFits(c) /\ StopFits(c)
                              /\ c.last \in Nat /\ c.last + 1 \in Nat /\ c.ends \subseteq Nat /\ \A n \in c.ends : n <= c.last
                              /\ c.stopping \in Nat /\ c.last + 1 > c.last
  BY RecordFits
<1>2. c.at = "end"
  BY <1>1 DEF TerminalEvent, Where
<1>3. c.status \in ActiveRuns /\ c.ends = {} /\ c.verdict # "none" /\ c.engine /\ c.known
  BY <1>1, <1>2 DEF PlaceFits, EndFits, StopFits, RunRecords, ActiveRuns, Reports, BeforeEnd, AfterEnd, Begun
<1> DEFINE s == ShownAs(c.verdict)
           u == [c EXCEPT !.status = s, !.at = "return"]
           w == Appended(u, TRUE)
<1>4. Put(r, w)
  BY <1>1, <1>2, <1>3 DEF TerminalEvent
<1>5. /\ s \in ActiveRuns \cup Reports \cup {"none"}
      /\ s \in Reports
  <2>1. s \in ActiveRuns \cup Reports \cup {"none"}
    BY <1>1, <1>2, <1>3 DEF ActiveRuns, Reports, BeforeEnd, AfterEnd, Begun, ShownAs
  <2>2. s \in Reports
    BY <1>1, <1>2, <1>3 DEF ActiveRuns, Reports, BeforeEnd, AfterEnd, Begun, ShownAs
  <2> QED BY <2>1, <2>2
<1> HIDE DEF s
<1>6. u \in RunRecords
  BY <1>5 DEF RunRecords, AfterEnd
<1>7. /\ u.status = s /\ u.key = c.key /\ u.digest = c.digest /\ u.asked = c.asked
      /\ u.engine = c.engine /\ u.known = c.known /\ u.last = c.last /\ u.ends = c.ends
      /\ u.at = "return" /\ u.token = c.token /\ u.stopping = c.stopping
      /\ u.announcing = c.announcing /\ u.verdict = c.verdict
  BY DEF RunRecords
<1> HIDE DEF u
<1>8. /\ w \in RunRecords
      /\ w.status = s /\ w.key = c.key /\ w.digest = c.digest /\ w.asked = c.asked
      /\ w.engine = c.engine /\ w.known = c.known /\ w.last = c.last + 1
      /\ w.ends = c.ends \cup {c.last + 1} /\ w.at = "return" /\ w.token = c.token
      /\ w.stopping = c.stopping /\ w.announcing = c.announcing /\ w.verdict = c.verdict
  <2>1. /\ w \in RunRecords
        /\ w.status = u.status /\ w.key = u.key /\ w.digest = u.digest /\ w.asked = u.asked
        /\ w.engine = u.engine /\ w.known = u.known /\ w.last = u.last + 1
        /\ w.ends = u.ends \cup {u.last + 1} /\ w.at = u.at /\ w.token = u.token
        /\ w.stopping = u.stopping /\ w.announcing = u.announcing /\ w.verdict = u.verdict
    BY <1>6, AppendedIs
  <2> QED BY <1>7, <2>1
<1> HIDE DEF w
<1>9. PlaceFits(w)
  BY <1>1, <1>2, <1>3, <1>5, <1>8 DEF PlaceFits, ActiveRuns, Reports, BeforeEnd, AfterEnd, Begun
<1>10. EndFits(w)
  BY <1>1, <1>2, <1>3, <1>5, <1>8 DEF EndFits, ActiveRuns, Reports, BeforeEnd, AfterEnd, Begun
<1>11. StopFits(w)
  BY <1>1, <1>2, <1>3, <1>5, <1>8 DEF StopFits, ActiveRuns, Reports, BeforeEnd, AfterEnd, Begun
<1>12. Follows(c, w)
  BY <1>1, <1>2, <1>3, <1>5, <1>8 DEF Follows, PlaceFits, OnThreadAt, ActiveRuns, Reports, BeforeEnd, AfterEnd, Begun
<1> QED BY <1>1, <1>4, <1>8, <1>9, <1>10, <1>11, <1>12, RunSteps DEF RunFits

\* The engine returns, and its token is gone.
LEMMA EngineReturnsKeeps ==
    ASSUME ApInv, NEW r \in ServiceRunIds, EngineReturns(r)
    PROVE  ApInv'
<1>1. PICK c \in RunRecords : /\ c = record[r] /\ PlaceFits(c) /\ EndFits(c) /\ StopFits(c)
                              /\ c.last \in Nat /\ c.last + 1 \in Nat /\ c.ends \subseteq Nat /\ \A n \in c.ends : n <= c.last
                              /\ c.stopping \in Nat /\ c.last + 1 > c.last
  BY RecordFits
<1>2. c.at = "return"
  BY <1>1 DEF EngineReturns, Where
<1>3. c.status \in Reports /\ c.ends # {} /\ c.verdict # "none"
  BY <1>1, <1>2 DEF PlaceFits, EndFits, StopFits, RunRecords, ActiveRuns, Reports, BeforeEnd, AfterEnd, Begun
<1> DEFINE w == [c EXCEPT !.token = "none", !.at = "finish"]
<1>4. Put(r, w)
  BY <1>1, <1>2, <1>3 DEF EngineReturns
<1>5. w \in RunRecords
  BY  DEF RunRecords, AfterEnd
<1>6. /\ w.status = c.status /\ w.key = c.key /\ w.digest = c.digest /\ w.asked = c.asked
      /\ w.engine = c.engine /\ w.known = c.known /\ w.last = c.last /\ w.ends = c.ends
      /\ w.at = "finish" /\ w.token = "none" /\ w.stopping = c.stopping
      /\ w.announcing = c.announcing /\ w.verdict = c.verdict
  BY DEF RunRecords
<1> HIDE DEF w
<1>7. PlaceFits(w)
  BY <1>1, <1>2, <1>3, <1>5, <1>6 DEF PlaceFits, ActiveRuns, Reports, BeforeEnd, AfterEnd, Begun
<1>8. EndFits(w)
  BY <1>1, <1>2, <1>3, <1>5, <1>6 DEF EndFits, ActiveRuns, Reports, BeforeEnd, AfterEnd, Begun
<1>9. StopFits(w)
  BY <1>1, <1>2, <1>3, <1>5, <1>6 DEF StopFits, ActiveRuns, Reports, BeforeEnd, AfterEnd, Begun
<1>10. Follows(c, w)
  BY <1>1, <1>2, <1>3, <1>5, <1>6 DEF Follows, PlaceFits, OnThreadAt, ActiveRuns, Reports, BeforeEnd, AfterEnd, Begun
<1> QED BY <1>1, <1>4, <1>5, <1>6, <1>7, <1>8, <1>9, <1>10, RunSteps DEF RunFits

\* No engine is made, and the service sends the event of the end.
LEMMA FactoryRaisesKeeps ==
    ASSUME ApInv, NEW r \in ServiceRunIds, FactoryRaises(r)
    PROVE  ApInv'
<1>1. PICK c \in RunRecords : /\ c = record[r] /\ PlaceFits(c) /\ EndFits(c) /\ StopFits(c)
                              /\ c.last \in Nat /\ c.last + 1 \in Nat /\ c.ends \subseteq Nat /\ \A n \in c.ends : n <= c.last
                              /\ c.stopping \in Nat /\ c.last + 1 > c.last
  BY RecordFits
<1>2. c.at = "make"
  BY <1>1 DEF FactoryRaises, Where
<1>3. c.status \in ActiveRuns /\ c.ends = {} /\ c.verdict = "none" /\ ~c.announcing /\ c.token = "none" /\ ~(c.stopping > 0) /\ ~c.known
  BY <1>1, <1>2 DEF PlaceFits, EndFits, StopFits, RunRecords, ActiveRuns, Reports, BeforeEnd, AfterEnd, Begun
<1> DEFINE u == [c EXCEPT !.status = "failed", !.at = "over"]
           w == Appended(u, TRUE)
<1>4. Put(r, w)
  <2>1. Put(r, Closing(u))
    BY <1>1, <1>2 DEF FactoryRaises
  <2>2. u.ends = c.ends
    BY DEF RunRecords
  <2> QED BY <1>3, <2>1, <2>2 DEF Closing
<1>5. u \in RunRecords
  BY  DEF RunRecords, Reports, AfterEnd
<1>6. /\ u.status = "failed" /\ u.key = c.key /\ u.digest = c.digest /\ u.asked = c.asked
      /\ u.engine = c.engine /\ u.known = c.known /\ u.last = c.last /\ u.ends = c.ends
      /\ u.at = "over" /\ u.token = c.token /\ u.stopping = c.stopping
      /\ u.announcing = c.announcing /\ u.verdict = c.verdict
  BY DEF RunRecords
<1> HIDE DEF u
<1>7. /\ w \in RunRecords
      /\ w.status = "failed" /\ w.key = c.key /\ w.digest = c.digest /\ w.asked = c.asked
      /\ w.engine = c.engine /\ w.known = c.known /\ w.last = c.last + 1
      /\ w.ends = c.ends \cup {c.last + 1} /\ w.at = "over" /\ w.token = c.token
      /\ w.stopping = c.stopping /\ w.announcing = c.announcing /\ w.verdict = c.verdict
  <2>1. /\ w \in RunRecords
        /\ w.status = u.status /\ w.key = u.key /\ w.digest = u.digest /\ w.asked = u.asked
        /\ w.engine = u.engine /\ w.known = u.known /\ w.last = u.last + 1
        /\ w.ends = u.ends \cup {u.last + 1} /\ w.at = u.at /\ w.token = u.token
        /\ w.stopping = u.stopping /\ w.announcing = u.announcing /\ w.verdict = u.verdict
    BY <1>5, AppendedIs
  <2> QED BY <1>6, <2>1
<1> HIDE DEF w
<1>8. PlaceFits(w)
  BY <1>1, <1>2, <1>3, <1>7 DEF PlaceFits, ActiveRuns, Reports, BeforeEnd, AfterEnd, Begun
<1>9. EndFits(w)
  BY <1>1, <1>2, <1>3, <1>7 DEF EndFits, ActiveRuns, Reports, BeforeEnd, AfterEnd, Begun
<1>10. StopFits(w)
  BY <1>1, <1>2, <1>3, <1>7 DEF StopFits, ActiveRuns, Reports, BeforeEnd, AfterEnd, Begun
<1>11. Follows(c, w)
  BY <1>1, <1>2, <1>3, <1>7 DEF Follows, PlaceFits, OnThreadAt, ActiveRuns, Reports, BeforeEnd, AfterEnd, Begun
<1> QED BY <1>1, <1>4, <1>7, <1>8, <1>9, <1>10, <1>11, RunSteps DEF RunFits

\* The service sends no second event of the end.
LEMMA EndServiceRunKeeps ==
    ASSUME ApInv, NEW r \in ServiceRunIds, EndServiceRun(r)
    PROVE  ApInv'
<1>1. PICK c \in RunRecords : /\ c = record[r] /\ PlaceFits(c) /\ EndFits(c) /\ StopFits(c)
                              /\ c.last \in Nat /\ c.last + 1 \in Nat /\ c.ends \subseteq Nat /\ \A n \in c.ends : n <= c.last
                              /\ c.stopping \in Nat /\ c.last + 1 > c.last
  BY RecordFits
<1>2. c.at = "finish"
  BY <1>1 DEF EndServiceRun, Where
<1>3. c.ends # {} /\ c.verdict \in Reports
  BY <1>1, <1>2 DEF PlaceFits, EndFits, StopFits, RunRecords, ActiveRuns, Reports, BeforeEnd, AfterEnd, Begun
<1> DEFINE v == c.verdict
           w == [c EXCEPT !.status = v, !.at = "over"]
<1>4. Put(r, w)
  <2>1. Put(r, Closing(w))
    BY <1>1, <1>2 DEF EndServiceRun
  <2>2. w.ends = c.ends
    BY DEF RunRecords
  <2> QED BY <1>3, <2>1, <2>2 DEF Closing
<1>5. v \in Reports /\ v = c.verdict
  BY <1>1, <1>2, <1>3 DEF ActiveRuns, Reports, BeforeEnd, AfterEnd, Begun
<1> HIDE DEF v
<1>6. w \in RunRecords
  BY <1>5 DEF RunRecords, AfterEnd
<1>7. /\ w.status = v /\ w.key = c.key /\ w.digest = c.digest /\ w.asked = c.asked
      /\ w.engine = c.engine /\ w.known = c.known /\ w.last = c.last /\ w.ends = c.ends
      /\ w.at = "over" /\ w.token = c.token /\ w.stopping = c.stopping
      /\ w.announcing = c.announcing /\ w.verdict = c.verdict
  BY DEF RunRecords
<1> HIDE DEF w
<1>8. PlaceFits(w)
  BY <1>1, <1>2, <1>3, <1>5, <1>6, <1>7 DEF PlaceFits, ActiveRuns, Reports, BeforeEnd, AfterEnd, Begun
<1>9. EndFits(w)
  BY <1>1, <1>2, <1>3, <1>5, <1>6, <1>7 DEF EndFits, ActiveRuns, Reports, BeforeEnd, AfterEnd, Begun
<1>10. StopFits(w)
  BY <1>1, <1>2, <1>3, <1>5, <1>6, <1>7 DEF StopFits, ActiveRuns, Reports, BeforeEnd, AfterEnd, Begun
<1>11. Follows(c, w)
  BY <1>1, <1>2, <1>3, <1>5, <1>6, <1>7 DEF Follows, PlaceFits, OnThreadAt, ActiveRuns, Reports, BeforeEnd, AfterEnd, Begun
<1> QED BY <1>1, <1>4, <1>6, <1>7, <1>8, <1>9, <1>10, <1>11, RunSteps DEF RunFits

\* A caller notes its cancellation, and is about to stop an engine that has started.
LEMMA AskCancelKeeps ==
    ASSUME ApInv, NEW r \in ServiceRunIds, AskCancel(r)
    PROVE  ApInv'
<1>1. PICK c \in RunRecords : /\ c = record[r] /\ PlaceFits(c) /\ EndFits(c) /\ StopFits(c)
                              /\ c.last \in Nat /\ c.last + 1 \in Nat /\ c.ends \subseteq Nat /\ \A n \in c.ends : n <= c.last
                              /\ c.stopping \in Nat /\ c.last + 1 > c.last
  BY RecordFits
<1>2. c.status \in ActiveRuns
  BY <1>1 DEF AskCancel, Where
<1>3. /\ c.at \in BeforeEnd /\ c.ends = {} /\ c.cancels \in Nat
      /\ c.at \in Begun => c.engine /\ c.known
      /\ c.known => c.at \in Begun
      /\ c.stopping > 0 => c.at \in Begun
  BY <1>1, <1>2 DEF PlaceFits, EndFits, StopFits, RunRecords, ActiveRuns, Reports, BeforeEnd, AfterEnd, Begun
<1> DEFINE m == c.cancels + 1
           n == IF c.engine /\ c.known THEN c.stopping + 1 ELSE c.stopping
           u == [c EXCEPT !.asked = TRUE, !.status = "cancelling", !.cancels = m, !.stopping = n]
           w == Appended(u, FALSE)
<1>4. Put(r, w)
  BY <1>1, <1>2, <1>3 DEF AskCancel
<1>5. /\ m \in Nat
      /\ n \in Nat
      /\ n >= c.stopping
      /\ c.engine /\ c.known => n > 0
      /\ ~(c.engine /\ c.known) => n = c.stopping
  <2>1. m \in Nat
    BY <1>1, <1>2, <1>3 DEF ActiveRuns, Reports, BeforeEnd, AfterEnd, Begun
  <2>2. n \in Nat
    BY <1>1, <1>2, <1>3 DEF ActiveRuns, Reports, BeforeEnd, AfterEnd, Begun
  <2>3. n >= c.stopping
    BY <1>1, <1>2, <1>3 DEF ActiveRuns, Reports, BeforeEnd, AfterEnd, Begun
  <2>4. c.engine /\ c.known => n > 0
    BY <1>1, <1>2, <1>3 DEF ActiveRuns, Reports, BeforeEnd, AfterEnd, Begun
  <2>5. ~(c.engine /\ c.known) => n = c.stopping
    BY <1>1, <1>2, <1>3 DEF ActiveRuns, Reports, BeforeEnd, AfterEnd, Begun
  <2> QED BY <2>1, <2>2, <2>3, <2>4, <2>5
<1> HIDE DEF m, n
<1>6. u \in RunRecords
  BY <1>5 DEF RunRecords, ActiveRuns
<1>7. /\ u.status = "cancelling" /\ u.key = c.key /\ u.digest = c.digest /\ u.asked = TRUE
      /\ u.engine = c.engine /\ u.known = c.known /\ u.last = c.last /\ u.ends = c.ends
      /\ u.at = c.at /\ u.token = c.token /\ u.stopping = n /\ u.announcing = c.announcing
      /\ u.verdict = c.verdict
  BY DEF RunRecords
<1> HIDE DEF u
<1>8. /\ w \in RunRecords
      /\ w.status = "cancelling" /\ w.key = c.key /\ w.digest = c.digest /\ w.asked = TRUE
      /\ w.engine = c.engine /\ w.known = c.known /\ w.last = c.last + 1 /\ w.ends = c.ends
      /\ w.at = c.at /\ w.token = c.token /\ w.stopping = n /\ w.announcing = c.announcing
      /\ w.verdict = c.verdict
  <2>1. /\ w \in RunRecords
        /\ w.status = u.status /\ w.key = u.key /\ w.digest = u.digest /\ w.asked = u.asked
        /\ w.engine = u.engine /\ w.known = u.known /\ w.last = u.last + 1 /\ w.ends = u.ends
        /\ w.at = u.at /\ w.token = u.token /\ w.stopping = u.stopping
        /\ w.announcing = u.announcing /\ w.verdict = u.verdict
    BY <1>6, AppendedIs
  <2> QED BY <1>7, <2>1
<1> HIDE DEF w
<1>9. PlaceFits(w)
  BY <1>1, <1>2, <1>3, <1>5, <1>8 DEF PlaceFits, ActiveRuns, Reports, BeforeEnd, AfterEnd, Begun
<1>10. EndFits(w)
  BY <1>1, <1>2, <1>3, <1>5, <1>8 DEF EndFits, ActiveRuns, Reports, BeforeEnd, AfterEnd, Begun
<1>11. StopFits(w)
  BY <1>1, <1>2, <1>3, <1>5, <1>8 DEF StopFits, ActiveRuns, Reports, BeforeEnd, AfterEnd, Begun
<1>12. Follows(c, w)
  BY <1>1, <1>2, <1>3, <1>5, <1>8 DEF Follows, PlaceFits, OnThreadAt, ActiveRuns, Reports, BeforeEnd, AfterEnd, Begun
<1> QED BY <1>1, <1>4, <1>8, <1>9, <1>10, <1>11, <1>12, RunSteps DEF RunFits

\* A caller stops the engine, before its end or after.
LEMMA StopEngineKeeps ==
    ASSUME ApInv, NEW r \in ServiceRunIds, StopEngine(r)
    PROVE  ApInv'
<1>1. PICK c \in RunRecords : /\ c = record[r] /\ PlaceFits(c) /\ EndFits(c) /\ StopFits(c)
                              /\ c.last \in Nat /\ c.last + 1 \in Nat /\ c.ends \subseteq Nat /\ \A n \in c.ends : n <= c.last
                              /\ c.stopping \in Nat /\ c.last + 1 > c.last
  BY RecordFits
<1>2. c.stopping > 0
  BY <1>1 DEF StopEngine, Where
<1>3. c.at \in Begun \cup AfterEnd /\ (c.at \in Begun => c.token # "none") /\ c.token \in {"none", "open", "set"}
  BY <1>1, <1>2 DEF PlaceFits, EndFits, StopFits, RunRecords, ActiveRuns, Reports, BeforeEnd, AfterEnd, Begun
<1> DEFINE n == c.stopping - 1
           t == IF c.token = "open" THEN "set" ELSE c.token
           b == c.announcing \/ c.token = "open"
           w == [c EXCEPT !.stopping = n, !.token = t, !.announcing = b]
<1>4. Put(r, w)
  BY <1>1, <1>2, <1>3 DEF StopEngine
<1>5. /\ n \in Nat
      /\ t \in {"none", "set"}
      /\ c.token # "open" => t = c.token
      /\ c.token = "open" => t = "set"
      /\ b \in BOOLEAN
      /\ c.token # "open" => (b <=> c.announcing)
  <2>1. n \in Nat
    BY <1>1, <1>2, <1>3 DEF ActiveRuns, Reports, BeforeEnd, AfterEnd, Begun
  <2>2. t \in {"none", "set"}
    BY <1>1, <1>2, <1>3 DEF ActiveRuns, Reports, BeforeEnd, AfterEnd, Begun
  <2>3. c.token # "open" => t = c.token
    BY <1>1, <1>2, <1>3 DEF ActiveRuns, Reports, BeforeEnd, AfterEnd, Begun
  <2>4. c.token = "open" => t = "set"
    BY <1>1, <1>2, <1>3 DEF ActiveRuns, Reports, BeforeEnd, AfterEnd, Begun
  <2>5. b \in BOOLEAN
    BY <1>1, <1>2, <1>3 DEF ActiveRuns, Reports, BeforeEnd, AfterEnd, Begun
  <2>6. c.token # "open" => (b <=> c.announcing)
    BY <1>1, <1>2, <1>3 DEF ActiveRuns, Reports, BeforeEnd, AfterEnd, Begun
  <2> QED BY <2>1, <2>2, <2>3, <2>4, <2>5, <2>6
<1> HIDE DEF n, t, b
<1>6. w \in RunRecords
  BY <1>5 DEF RunRecords, ActiveRuns
<1>7. /\ w.status = c.status /\ w.key = c.key /\ w.digest = c.digest /\ w.asked = c.asked
      /\ w.engine = c.engine /\ w.known = c.known /\ w.last = c.last /\ w.ends = c.ends
      /\ w.at = c.at /\ w.token = t /\ w.stopping = n /\ w.announcing = b
      /\ w.verdict = c.verdict
  BY DEF RunRecords
<1> HIDE DEF w
<1>8. PlaceFits(w)
  BY <1>1, <1>2, <1>3, <1>5, <1>6, <1>7 DEF PlaceFits, ActiveRuns, Reports, BeforeEnd, AfterEnd, Begun
<1>9. EndFits(w)
  BY <1>1, <1>2, <1>3, <1>5, <1>6, <1>7 DEF EndFits, ActiveRuns, Reports, BeforeEnd, AfterEnd, Begun
<1>10. StopFits(w)
  BY <1>1, <1>2, <1>3, <1>5, <1>6, <1>7 DEF StopFits, ActiveRuns, Reports, BeforeEnd, AfterEnd, Begun
<1>11. Follows(c, w)
  BY <1>1, <1>2, <1>3, <1>5, <1>6, <1>7 DEF Follows, PlaceFits, OnThreadAt, ActiveRuns, Reports, BeforeEnd, AfterEnd, Begun
<1> QED BY <1>1, <1>4, <1>6, <1>7, <1>8, <1>9, <1>10, <1>11, RunSteps DEF RunFits

\* The stop is announced, maybe after the end.
LEMMA AnnounceStoppedKeeps ==
    ASSUME ApInv, NEW r \in ServiceRunIds, AnnounceStopped(r)
    PROVE  ApInv'
<1>1. PICK c \in RunRecords : /\ c = record[r] /\ PlaceFits(c) /\ EndFits(c) /\ StopFits(c)
                              /\ c.last \in Nat /\ c.last + 1 \in Nat /\ c.ends \subseteq Nat /\ \A n \in c.ends : n <= c.last
                              /\ c.stopping \in Nat /\ c.last + 1 > c.last
  BY RecordFits
<1>2. c.announcing
  BY <1>1 DEF AnnounceStopped, Where
<1>3. c.token # "open" /\ (\A n \in c.ends : c.last = n) /\ c.at \in Begun \cup AfterEnd
  BY <1>1, <1>2 DEF PlaceFits, EndFits, StopFits, RunRecords, ActiveRuns, Reports, BeforeEnd, AfterEnd, Begun
<1> DEFINE u == [c EXCEPT !.announcing = FALSE]
           w == Appended(u, FALSE)
<1>4. Put(r, w)
  BY <1>1, <1>2, <1>3 DEF AnnounceStopped
<1>5. u \in RunRecords
  BY  DEF RunRecords
<1>6. /\ u.status = c.status /\ u.key = c.key /\ u.digest = c.digest /\ u.asked = c.asked
      /\ u.engine = c.engine /\ u.known = c.known /\ u.last = c.last /\ u.ends = c.ends
      /\ u.at = c.at /\ u.token = c.token /\ u.stopping = c.stopping /\ u.announcing = FALSE
      /\ u.verdict = c.verdict
  BY DEF RunRecords
<1> HIDE DEF u
<1>7. /\ w \in RunRecords
      /\ w.status = c.status /\ w.key = c.key /\ w.digest = c.digest /\ w.asked = c.asked
      /\ w.engine = c.engine /\ w.known = c.known /\ w.last = c.last + 1 /\ w.ends = c.ends
      /\ w.at = c.at /\ w.token = c.token /\ w.stopping = c.stopping /\ w.announcing = FALSE
      /\ w.verdict = c.verdict
  <2>1. /\ w \in RunRecords
        /\ w.status = u.status /\ w.key = u.key /\ w.digest = u.digest /\ w.asked = u.asked
        /\ w.engine = u.engine /\ w.known = u.known /\ w.last = u.last + 1 /\ w.ends = u.ends
        /\ w.at = u.at /\ w.token = u.token /\ w.stopping = u.stopping
        /\ w.announcing = u.announcing /\ w.verdict = u.verdict
    BY <1>5, AppendedIs
  <2> QED BY <1>6, <2>1
<1> HIDE DEF w
<1>8. PlaceFits(w)
  BY <1>1, <1>2, <1>3, <1>7 DEF PlaceFits, ActiveRuns, Reports, BeforeEnd, AfterEnd, Begun
<1>9. EndFits(w)
  BY <1>1, <1>2, <1>3, <1>7 DEF EndFits, ActiveRuns, Reports, BeforeEnd, AfterEnd, Begun
<1>10. StopFits(w)
  BY <1>1, <1>2, <1>3, <1>7 DEF StopFits, ActiveRuns, Reports, BeforeEnd, AfterEnd, Begun
<1>11. Follows(c, w)
  BY <1>1, <1>2, <1>3, <1>7 DEF Follows, PlaceFits, OnThreadAt, ActiveRuns, Reports, BeforeEnd, AfterEnd, Begun
<1> QED BY <1>1, <1>4, <1>7, <1>8, <1>9, <1>10, <1>11, RunSteps DEF RunFits

\* The engine reports a status.
LEMMA EngineReportsKeeps ==
    ASSUME ApInv, NEW r \in ServiceRunIds, NEW v \in Reports, Where(r, "run"), Put(r, [record[r] EXCEPT !.verdict = v, !.at = "end"])
    PROVE  ApInv'
<1>1. PICK c \in RunRecords : /\ c = record[r] /\ PlaceFits(c) /\ EndFits(c) /\ StopFits(c)
                              /\ c.last \in Nat /\ c.last + 1 \in Nat /\ c.ends \subseteq Nat /\ \A n \in c.ends : n <= c.last
                              /\ c.stopping \in Nat /\ c.last + 1 > c.last
  BY RecordFits
<1>2. c.at = "run"
  BY <1>1 DEF Where
<1>3. c.status \in ActiveRuns /\ c.ends = {} /\ c.engine /\ c.known /\ c.token # "none"
  BY <1>1, <1>2 DEF PlaceFits, EndFits, StopFits, RunRecords, ActiveRuns, Reports, BeforeEnd, AfterEnd, Begun
<1> DEFINE w == [c EXCEPT !.verdict = v, !.at = "end"]
<1>4. Put(r, w)
  BY <1>1, <1>2, <1>3 DEF Where
<1>5. w \in RunRecords
  BY  DEF RunRecords, BeforeEnd
<1>6. /\ w.status = c.status /\ w.key = c.key /\ w.digest = c.digest /\ w.asked = c.asked
      /\ w.engine = c.engine /\ w.known = c.known /\ w.last = c.last /\ w.ends = c.ends
      /\ w.at = "end" /\ w.token = c.token /\ w.stopping = c.stopping
      /\ w.announcing = c.announcing /\ w.verdict = v
  BY DEF RunRecords
<1> HIDE DEF w
<1>7. PlaceFits(w)
  BY <1>1, <1>2, <1>3, <1>5, <1>6 DEF PlaceFits, ActiveRuns, Reports, BeforeEnd, AfterEnd, Begun
<1>8. EndFits(w)
  BY <1>1, <1>2, <1>3, <1>5, <1>6 DEF EndFits, ActiveRuns, Reports, BeforeEnd, AfterEnd, Begun
<1>9. StopFits(w)
  BY <1>1, <1>2, <1>3, <1>5, <1>6 DEF StopFits, ActiveRuns, Reports, BeforeEnd, AfterEnd, Begun
<1>10. Follows(c, w)
  BY <1>1, <1>2, <1>3, <1>5, <1>6 DEF Follows, PlaceFits, OnThreadAt, ActiveRuns, Reports, BeforeEnd, AfterEnd, Begun
<1> QED BY <1>1, <1>4, <1>5, <1>6, <1>7, <1>8, <1>9, <1>10, RunSteps DEF RunFits

\* The numbers of the limits: sets of runs are finite.
LEMMA OneMore ==
    ASSUME NEW S \in SUBSET ServiceRunIds, NEW T \in SUBSET ServiceRunIds, NEW r \in ServiceRunIds, T \subseteq S \cup {r},
           Cardinality(S) < MaxActiveRuns
    PROVE  Cardinality(T) <= MaxActiveRuns
<1>1. IsFiniteSet(S) /\ IsFiniteSet(S \cup {r})
  BY ServiceAssumption, FS_Subset, FS_AddElement
<1>2. Cardinality(S \cup {r}) \in Nat /\ Cardinality(S) \in Nat /\ Cardinality(S \cup {r}) <= Cardinality(S) + 1
  BY <1>1, FS_AddElement, FS_CardinalityType
<1>3. IsFiniteSet(T) /\ Cardinality(T) <= Cardinality(S \cup {r})
  BY <1>1, FS_Subset
<1>4. Cardinality(T) \in Nat
  BY <1>3, FS_CardinalityType
<1> QED BY <1>2, <1>3, <1>4, ServiceAssumption

\* A thread of the pool takes a run, when there is one left.
LEMMA TakeUpKeeps ==
    ASSUME ApInv, NEW r \in ServiceRunIds, TakeUp(r)
    PROVE  ApInv'
<1>1. PICK c \in RunRecords : /\ c = record[r] /\ PlaceFits(c) /\ EndFits(c) /\ StopFits(c)
                              /\ c.last \in Nat /\ c.last + 1 \in Nat /\ c.ends \subseteq Nat /\ \A n \in c.ends : n <= c.last
                              /\ c.stopping \in Nat /\ c.last + 1 > c.last
  BY RecordFits
<1> DEFINE w == [c EXCEPT !.at = "make"]
<1>2. c.at = "queued" /\ Put(r, w) /\ Cardinality(OnThread) < MaxActiveRuns
  BY <1>1 DEF TakeUp, Where
<1>3. w \in RunRecords
  BY DEF RunRecords, BeforeEnd
<1>4. /\ w.status = c.status /\ w.key = c.key /\ w.digest = c.digest /\ w.asked = c.asked
      /\ w.engine = c.engine /\ w.known = c.known /\ w.last = c.last /\ w.ends = c.ends /\ w.at = "make"
      /\ w.token = c.token /\ w.stopping = c.stopping /\ w.announcing = c.announcing /\ w.verdict = c.verdict
  BY DEF RunRecords
<1> HIDE DEF w
<1>5. RunFits(w)
  BY <1>1, <1>2, <1>4 DEF RunFits, PlaceFits, EndFits, StopFits, BeforeEnd, AfterEnd, Begun
<1>6. record' = [record EXCEPT ![r] = w] /\ \A q \in ServiceRunIds : record'[q] = IF q = r THEN w ELSE record[q]
  BY <1>2 DEF Put, ApInv
<1>7. OnThread' \subseteq OnThread \cup {r} /\ OnThread \subseteq ServiceRunIds /\ OnThread' \subseteq ServiceRunIds
  BY <1>6 DEF OnThread
<1>8. Cardinality(OnThread') <= MaxActiveRuns
  BY <1>2, <1>7, OneMore
<1>9. {q \in ServiceRunIds : record'[q].status \in ActiveRuns} = {q \in ServiceRunIds : record[q].status \in ActiveRuns}
  BY <1>1, <1>4, <1>6
<1>10. LimitsHold'
  BY <1>8, <1>9 DEF LimitsHold, ApInv
<1>11. c.status # "none"
  BY <1>1, <1>2 DEF PlaceFits, BeforeEnd, ActiveRuns
<1>12. /\ w.key = record[r].key /\ w.digest = record[r].digest /\ w.status # "none"
       /\ w.last >= record[r].last /\ \A n \in w.ends : n \in record[r].ends \/ n > record[r].last
  BY <1>1, <1>4, <1>11
<1>13. UNCHANGED <<runOfKey, answered, stream>>
  BY <1>2 DEF Put
<1> QED BY <1>3, <1>5, <1>6, <1>10, <1>12, <1>13, RunMoves

\* A submission makes the next run, under a key that has none.
LEMMA SubmitKeeps ==
    ASSUME ApInv, NEW r \in ServiceRunIds, NEW key \in RequestKeys \cup {"none"}, NEW digest \in Digests, Create(r, key, digest)
    PROVE  ApInv'
<1>1. PICK c \in RunRecords : c = record[r] /\ PlaceFits(c)
  BY RecordFits
<1> DEFINE u == [Unmade EXCEPT !.status = "accepted", !.key = key, !.digest = digest, !.at = "queued"]
           w == Appended(u, FALSE)
           active == {q \in ServiceRunIds : record[q].status \in ActiveRuns}
<1>2. /\ c.status = "none" /\ (key \in RequestKeys => runOfKey[key] = 0) /\ Cardinality(active) < MaxActiveRuns
      /\ record' = [record EXCEPT ![r] = w] /\ runOfKey' = [k \in RequestKeys |-> IF k = key THEN r ELSE runOfKey[k]]
      /\ answered' = answered \cup {<<digest, r>>} /\ UNCHANGED stream
  BY <1>1 DEF Create
<1>3. c.at = "none" /\ c.key = "none" /\ c.last = 0
  <2>1. c.at \in BeforeEnd \/ c.at \in AfterEnd \/ c.at = "none"
    BY DEF RunRecords
  <2>2. c.at = "none"
    BY <1>1, <1>2, <2>1 DEF PlaceFits, ActiveRuns, Reports
  <2> QED BY <1>1, <2>2 DEF PlaceFits
<1>4. u \in RunRecords
  BY DEF RunRecords, Unmade, ActiveRuns, BeforeEnd
<1>5. /\ u.status = "accepted" /\ u.key = key /\ u.digest = digest /\ ~u.asked /\ ~u.known /\ u.last = 0 /\ u.ends = {}
      /\ u.at = "queued" /\ u.token = "none" /\ u.stopping = 0 /\ ~u.announcing /\ u.verdict = "none"
  BY DEF Unmade
<1> HIDE DEF u
<1>6. /\ w \in RunRecords
      /\ w.status = "accepted" /\ w.key = key /\ w.digest = digest /\ ~w.asked /\ ~w.known /\ w.last = 1 /\ w.ends = {}
      /\ w.at = "queued" /\ w.token = "none" /\ w.stopping = 0 /\ ~w.announcing /\ w.verdict = "none"
  <2>1. /\ w \in RunRecords
        /\ w.status = u.status /\ w.key = u.key /\ w.digest = u.digest /\ w.asked = u.asked /\ w.known = u.known
        /\ w.last = u.last + 1 /\ w.ends = u.ends /\ w.at = u.at /\ w.token = u.token /\ w.stopping = u.stopping
        /\ w.announcing = u.announcing /\ w.verdict = u.verdict
    BY <1>4, AppendedIs
  <2> HIDE DEF w
  <2> QED BY <1>5, <2>1
<1> HIDE DEF w
<1>7. RunFits(w)
  BY <1>6 DEF RunFits, PlaceFits, EndFits, StopFits, BeforeEnd, AfterEnd, Begun, ActiveRuns
<1>8. record' \in [ServiceRunIds -> RunRecords] /\ \A q \in ServiceRunIds : record'[q] = IF q = r THEN w ELSE record[q]
  BY <1>2, <1>6 DEF ApInv
<1>9. \A q \in ServiceRunIds : RunFits(record'[q])
  BY <1>7, <1>8 DEF ApInv
<1>10. KeysFit'
  <2>1. /\ 0 \notin ServiceRunIds /\ "none" \notin RequestKeys /\ record[r].key = "none"
        /\ runOfKey \in [RequestKeys -> ServiceRunIds \cup {0}]
    BY <1>1, <1>3, ServiceAssumption DEF ApInv, KeysFit
  <2>2. runOfKey' \in [RequestKeys -> ServiceRunIds \cup {0}]
    BY <1>2, <2>1
  <2>3. ASSUME NEW k \in RequestKeys, runOfKey'[k] # 0 PROVE record'[runOfKey'[k]].key = k
    <3>1. CASE k = key
      BY <1>2, <1>6, <1>8, <3>1
    <3>2. CASE k # key
      <4>1. runOfKey'[k] = runOfKey[k] /\ runOfKey[k] \in ServiceRunIds /\ record[runOfKey[k]].key = k
        BY <1>2, <2>1, <2>3, <3>2 DEF ApInv, KeysFit
      <4>2. runOfKey[k] # r
        BY <2>1, <4>1
      <4> QED BY <1>8, <4>1, <4>2
    <3> QED BY <3>1, <3>2
  <2>4. ASSUME NEW q \in ServiceRunIds, record'[q].key \in RequestKeys PROVE runOfKey'[record'[q].key] = q
    <3>1. CASE q = r
      BY <1>2, <1>6, <1>8, <2>4, <3>1
    <3>2. CASE q # r
      <4>1. record'[q] = record[q] /\ runOfKey[record[q].key] = q
        BY <1>8, <2>4, <3>2 DEF ApInv, KeysFit
      <4>2. record[q].key # key
        BY <1>2, <2>1, <2>4, <4>1
      <4> QED BY <1>2, <2>4, <4>1, <4>2
    <3> QED BY <3>1, <3>2
  <2> QED BY <2>2, <2>3, <2>4 DEF KeysFit
<1>11. AnswersGiven'
  <2>1. answered' \subseteq Digests \X ServiceRunIds
    BY <1>2 DEF ApInv, AnswersGiven
  <2>2. ASSUME NEW a \in answered' PROVE record'[a[2]].digest = a[1] /\ record'[a[2]].status # "none"
    <3>1. CASE a \in answered
      <4>1. a[2] \in ServiceRunIds /\ record[a[2]].digest = a[1] /\ record[a[2]].status # "none"
        BY <3>1 DEF ApInv, AnswersGiven
      <4>2. a[2] # r
        BY <1>1, <1>2, <4>1
      <4> QED BY <1>8, <4>1, <4>2
    <3>2. CASE a = <<digest, r>>
      BY <1>6, <1>8, <3>2
    <3> QED BY <1>2, <3>1, <3>2
  <2> QED BY <2>1, <2>2 DEF AnswersGiven
<1>12. StreamFits'
  <2>1. 1 \in ServiceRunIds
    BY ServiceAssumption
  <2>2. CASE r = 1
    <3>1. record'[1].last = 1 /\ record'[1].ends = {} /\ record[1].last = 0
      BY <1>1, <1>3, <1>6, <1>8, <2>2
    <3>2. stream.cursor \in Nat /\ stream.cursor <= 0
      BY <3>1 DEF ApInv, StreamFits
    <3>3. stream'.cursor <= record'[1].last
      BY <1>2, <3>1, <3>2
    <3> QED BY <1>2, <3>1, <3>3 DEF ApInv, StreamFits
  <2>3. CASE r # 1
    BY <1>2, <1>8, <2>1, <2>3 DEF ApInv, StreamFits
  <2> QED BY <2>2, <2>3
<1>13. LimitsHold'
  <2>1. active' \subseteq active \cup {r} /\ active \subseteq ServiceRunIds /\ active' \subseteq ServiceRunIds
    BY <1>8
  <2>2. Cardinality(active') <= MaxActiveRuns
    <3> HIDE DEF active
    <3> QED BY <1>2, <2>1, OneMore
  <2>3. OnThread' = OnThread
    BY <1>1, <1>3, <1>6, <1>8 DEF OnThread
  <2>4. Cardinality(OnThread) <= MaxActiveRuns
    BY DEF ApInv, LimitsHold
  <2> QED BY <2>2, <2>3, <2>4 DEF LimitsHold
<1>14. (\A q \in ServiceRunIds : RunFits(record[q]))'
  BY <1>9 DEF RunFits, PlaceFits, EndFits, StopFits
<1> QED BY <1>8, <1>10, <1>11, <1>12, <1>13, <1>14 DEF ApInv

\* A call that changes neither runs nor keys, and answers with runs that are there.
LEMMA RecordsStay ==
    ASSUME ApInv, UNCHANGED <<record, runOfKey>>, AnswersGiven', StreamFits'
    PROVE  ApInv'
<1>1. (\A q \in ServiceRunIds : RunFits(record[q]))'
  BY DEF ApInv, RunFits, PlaceFits, EndFits, StopFits
<1>2. LimitsHold' /\ KeysFit'
  BY DEF ApInv, LimitsHold, KeysFit, OnThread
<1> QED BY <1>1, <1>2 DEF ApInv

\* A submission that is repeated gets the run of its key.
LEMMA SubmitAgainKeeps ==
    ASSUME ApInv, NEW key \in RequestKeys, NEW digest \in Digests, SubmitAgain(key, digest)
    PROVE  ApInv'
<1> DEFINE q == runOfKey[key]
<1>1. /\ q # 0 /\ record[q].digest = digest /\ answered' = answered \cup {<<digest, q>>}
      /\ UNCHANGED <<record, runOfKey, stream>>
  BY DEF SubmitAgain
<1>2. q \in ServiceRunIds /\ record[q].key = key
  BY <1>1 DEF ApInv, KeysFit
<1>3. record[q].status # "none"
  <2>1. PICK c \in RunRecords : c = record[q] /\ PlaceFits(c)
    BY <1>2, RecordFits
  <2>2. c.at \in BeforeEnd \/ c.at \in AfterEnd \/ c.at = "none"
    BY DEF RunRecords
  <2>3. c.key # "none"
    BY <1>2, <2>1, ServiceAssumption
  <2> QED BY <2>1, <2>2, <2>3 DEF PlaceFits, ActiveRuns, Reports
<1> HIDE DEF q
<1>4. AnswersGiven'
  BY <1>1, <1>2, <1>3 DEF ApInv, AnswersGiven
<1>5. StreamFits'
  BY <1>1 DEF ApInv, StreamFits
<1> QED BY <1>1, <1>4, <1>5, RecordsStay

\* What the stream has of run 1: an end that its history holds is not missed.
LEMMA StreamKeeps ==
    ASSUME ApInv, Receive \/ CheckOver
    PROVE  ApInv'
<1>1. PICK c \in RunRecords : /\ c = record[1] /\ PlaceFits(c) /\ EndFits(c) /\ StopFits(c)
                              /\ c.last \in Nat /\ c.last + 1 \in Nat /\ c.ends \subseteq Nat /\ \A n \in c.ends : n <= c.last
                              /\ c.stopping \in Nat /\ c.last + 1 > c.last
  BY RecordFits, ServiceAssumption
<1>2. UNCHANGED <<record, runOfKey, answered>>
  BY DEF Receive, CheckOver
<1>3. /\ stream \in [at : {"wait", "check", "over"}, cursor : Nat, sawEnd : BOOLEAN]
      /\ stream.cursor \in Nat /\ stream.cursor <= c.last
      /\ \A n \in c.ends : n <= stream.cursor => stream.sawEnd
      /\ stream.at # "wait" => stream.sawEnd
  BY <1>1 DEF ApInv, StreamFits
<1>4. CASE Receive
  <2> DEFINE over == IF Over THEN "check" ELSE "wait"
             cursor == IF News = {} THEN stream.cursor ELSE c.last
             saw == stream.sawEnd \/ News \cap c.ends # {}
  <2>1. stream' = [at |-> over, cursor |-> cursor, sawEnd |-> saw]
    BY <1>1, <1>4 DEF Receive
  <2>2. \A n \in c.ends : n > stream.cursor => n \in News
    <3>1. SUFFICES ASSUME NEW n \in c.ends, n > stream.cursor PROVE n \in News
      OBVIOUS
    <3>2. n \in 1..c.last /\ (c.last = n \/ c.last = n + 1)
      BY <1>1 DEF EndFits
    <3>3. n > c.last - EventCapacity
      BY <1>1, <3>2, ServiceAssumption
    <3> QED BY <1>1, <3>1, <3>2, <3>3 DEF News, InHistory
  <2>3. \A n \in c.ends : saw
    BY <1>1, <1>3, <2>2
  <2>4. Over => c.ends # {}
    <3>1. c.at \in BeforeEnd \/ c.at \in AfterEnd \/ c.at = "none"
      BY DEF RunRecords
    <3> QED BY <1>1, <3>1 DEF Over, PlaceFits
  <2>5. over \in {"wait", "check"} /\ (over # "wait" => c.ends # {})
    BY <2>4
  <2>6. cursor \in Nat /\ cursor <= c.last
    BY <1>1, <1>3
  <2>7. saw \in BOOLEAN
    BY <1>3
  <2> HIDE DEF over, cursor, saw
  <2>8. StreamFits'
    <3>1. stream' \in [at : {"wait", "check", "over"}, cursor : Nat, sawEnd : BOOLEAN]
      BY <2>1, <2>5, <2>6, <2>7
    <3>2. stream'.at = over /\ stream'.cursor = cursor /\ stream'.sawEnd = saw
      BY <2>1
    <3>3. record'[1] = c
      BY <1>1, <1>2
    <3> QED BY <2>3, <2>5, <2>6, <3>1, <3>2, <3>3 DEF StreamFits
  <2>9. AnswersGiven'
    BY <1>2 DEF ApInv, AnswersGiven
  <2> QED BY <1>2, <2>8, <2>9, RecordsStay
<1>5. CASE CheckOver
  <2>1. stream.at = "check" /\ stream.sawEnd
    BY <1>3, <1>5 DEF CheckOver
  <2>2. stream' = [stream EXCEPT !.at = "over"] \/ stream' = [stream EXCEPT !.at = "wait"]
    BY <1>5 DEF CheckOver
  <2>3. /\ stream' \in [at : {"wait", "check", "over"}, cursor : Nat, sawEnd : BOOLEAN]
        /\ stream'.cursor = stream.cursor /\ stream'.sawEnd
    BY <1>3, <2>1, <2>2
  <2>4. StreamFits' /\ AnswersGiven'
    BY <1>1, <1>2, <1>3, <2>3 DEF ApInv, StreamFits, AnswersGiven
  <2> QED BY <1>2, <2>4, RecordsStay
<1> QED BY <1>4, <1>5

\* Nothing but a flag, or nothing.
LEMMA NothingMoves ==
    ASSUME ApInv, ShutDown \/ UNCHANGED apVars
    PROVE  ApInv'
<1>1. UNCHANGED <<record, runOfKey, answered, stream>>
  BY DEF ShutDown, apVars
<1>2. AnswersGiven' /\ StreamFits'
  BY <1>1 DEF ApInv, AnswersGiven, StreamFits
<1> QED BY <1>1, <1>2, RecordsStay

\* ApInv is an invariant, for any runs, keys, engines, cancellations and capacities.
THEOREM ApplicationInvariant == ApSpec => []ApInv
<1>1. ApInit => ApInv
  <2> SUFFICES ASSUME ApInit PROVE ApInv
    OBVIOUS
  <2>1. Unmade \in RunRecords
    BY DEF Unmade, RunRecords
  <2>2. RunFits(Unmade)
    BY DEF Unmade, RunFits, PlaceFits, EndFits, StopFits, BeforeEnd, AfterEnd, Begun
  <2>3. record \in [ServiceRunIds -> RunRecords] /\ \A r \in ServiceRunIds : record[r] = Unmade
    BY <2>1 DEF ApInit
  <2>4. \A r \in ServiceRunIds : RunFits(record[r])
    BY <2>2, <2>3
  <2>5. KeysFit
    BY <2>3, ServiceAssumption DEF ApInit, KeysFit, Unmade
  <2>6. AnswersGiven
    BY DEF ApInit, AnswersGiven
  <2>7. StreamFits
    BY <2>3, ServiceAssumption DEF ApInit, StreamFits, Unmade
  <2>8. LimitsHold
    <3>1. {r \in ServiceRunIds : record[r].status \in ActiveRuns} = {} /\ OnThread = {}
      BY <2>3 DEF OnThread, Unmade, ActiveRuns
    <3>2. Cardinality({}) <= MaxActiveRuns
      BY FS_EmptySet, ServiceAssumption
    <3> QED BY <3>1, <3>2 DEF LimitsHold
  <2> QED BY <2>3, <2>4, <2>5, <2>6, <2>7, <2>8 DEF ApInv
<1>2. ASSUME ApInv, ApNext PROVE ApInv'
  <2>1. ASSUME NEW r \in ServiceRunIds, EngineReports(r) PROVE ApInv'
    <3>1. PICK v \in ReportsTried : Where(r, "run") /\ Put(r, [record[r] EXCEPT !.verdict = v, !.at = "end"])
      BY <2>1 DEF EngineReports
    <3>2. v \in Reports
      BY ServiceAssumption DEF Reports
    <3> QED BY <1>2, <3>1, <3>2, EngineReportsKeeps
  <2> QED BY <1>2, <2>1, SubmitKeeps, TakeUpKeeps, FactoryRaisesKeeps, KeepEngineKeeps, EngineBeginsKeeps, RunStartedKeeps, StopSelfKeeps,
             AnnounceSelfKeeps, EngineEmitsKeeps, TerminalEventKeeps, EngineReturnsKeeps, EndServiceRunKeeps, AskCancelKeeps,
             StopEngineKeeps, AnnounceStoppedKeeps, SubmitAgainKeeps, StreamKeeps, NothingMoves DEF ApNext
<1> QED BY <1>1, <1>2, NothingMoves, PTL DEF ApSpec

\* The service keeps its runs, their ends and their streams in step: ApplicationSound is an invariant,
\* whatever order cancellations, engines, threads and streams take their steps in.
THEOREM ApplicationIsSound == ApSpec => []ApplicationSound
  BY ApplicationInvariant, ApplicationFollows, PTL
=============================================================================
