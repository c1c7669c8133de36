------------------------------- MODULE Memory -------------------------------
(***************************************************************************)
(* The memory (src/src/paperclaw/memory/), which has two stores that share   *)
(* nothing.                                                                  *)
(*                                                                          *)
(* The file-backed one (store.py, scoped.py): one MEMORY.md that several     *)
(* processes rewrite under a lock file.  A lock file older than a minute is  *)
(* taken away by whoever waits for it; a process may die or be suspended at  *)
(* any point.  The text of an entry is the set of its words, and a search    *)
(* text matches the entries that hold all its words.                         *)
(*                                                                          *)
(* The structured one (service.py over context/repository.py, runtime.py):   *)
(* items that are only ever appended, each superseding another; the active   *)
(* projection; decisions on conflicts, carried out in several steps; the     *)
(* snapshot of pinned items that is frozen for a conversation.  Each SQL     *)
(* statement is one step.  Between the check that an item is active and the  *)
(* row that supersedes it other processes append rows of their own.          *)
(***************************************************************************)
EXTENDS Integers, FiniteSets, Sequences, SequencesExt

CONSTANTS  \* of the file-backed memory
    Writers,        \* processes with a store on this directory
    Texts,          \* what an entry may say: sets of words
    MaxEntries,     \* MemoryPolicy.max_entries
    CharLimit,      \* MemoryPolicy.limit_for, in words
    MaxDeaths,      \* processes that die at work
    MaxEntryId      \* entries ever made

CONSTANTS  \* of the structured memory
    Users,          \* processes with a service on the database
    Seeds,          \* number of items in the scope to begin with
    MaxItems,       \* rows ever appended
    PinnedBudget,   \* MemoryBudget: pinned items that fit a snapshot
    MaxDecisions,   \* decisions recorded before the last one begins
    MaxFalls        \* processes that die

VARIABLES  \* of the file-backed memory
    lock,       \* the lock file: who made it (Nobody: no file) and its age
    tmp,        \* the temporary file: a list of entries, or NoFile
    memfile,    \* MEMORY.md: a list of entries, each with its id and text
    wr,         \* each process: what it does, was asked for and has read
    promised,   \* history: ids of the entries whose add or replace returned, less the removed
    robbed,     \* history: the lock file of a living holder was taken away
    deaths, made

VARIABLES  \* of the structured memory
    items,      \* memory_items, in the order of their ids
    decided,    \* memory_conflict_decisions
    snaps,      \* memory_snapshots of one conversation, oldest first
    us,         \* each process: what it does and what it has read
    raced,      \* history: a row superseded an item that was no longer active
    falls,
    work        \* what the processes of this behaviour do besides: decisions, or snapshots

mfVars == <<lock, tmp, memfile, wr, promised, robbed, deaths, made>>

Nobody == "nobody"

\* Nobody is no process, a text has finitely many words, and the limits are numbers.
ASSUME MemoryAssumption ==
    /\ Nobody \notin Writers
    /\ \A t \in Texts : IsFiniteSet(t)
    /\ MaxEntries \in Nat /\ CharLimit \in Nat
    /\ Seeds \in Nat

NoFile == "no file"
Unlocked == [by |-> Nobody, old |-> FALSE]
Resting == [pc |-> "idle", op |-> "none", list |-> <<>>, id |-> 0]

Holding == {"locked", "read", "temp"}
Matches(list, text) == {i \in 1..Len(list) : text \subseteq list[i].text}
TotalWords(list) == SumFunction([i \in DOMAIN list |-> Cardinality(list[i].text)])
Step(p, pc) == wr' = [wr EXCEPT ![p].pc = pc]
RobbedBy(p) == robbed' = (robbed \/ (lock.by \notin {Nobody, p} /\ wr[lock.by].pc \in Holding))

-----------------------------------------------------------------------------
(* The lock file *)

AskWrite(p) ==
    /\ wr[p].pc = "idle"
    /\ Step(p, "want")
    /\ UNCHANGED <<lock, tmp, memfile, promised, robbed, deaths, made>>

TakeLock(p) ==
    /\ wr[p].pc = "want" /\ lock.by = Nobody
    /\ lock' = [by |-> p, old |-> FALSE]
    /\ Step(p, "locked")
    /\ UNCHANGED <<tmp, memfile, promised, robbed, deaths, made>>

\* A minute passes over the lock file.
LockAges ==
    /\ lock.by # Nobody /\ ~lock.old
    /\ lock' = [lock EXCEPT !.old = TRUE]
    /\ UNCHANGED <<tmp, memfile, wr, promised, robbed, deaths, made>>

\* The age is read in one call and the file removed in the next.
SeeOld(p) ==
    /\ wr[p].pc = "want" /\ lock.by # Nobody /\ lock.old
    /\ Step(p, "break")
    /\ UNCHANGED <<lock, tmp, memfile, promised, robbed, deaths, made>>

BreakLock(p) ==
    /\ wr[p].pc = "break"
    /\ RobbedBy(p)
    /\ lock' = Unlocked
    /\ Step(p, "want")
    /\ UNCHANGED <<tmp, memfile, promised, deaths, made>>

\* MemoryLockTimeout after five seconds.
LockTimesOut(p) ==
    /\ wr[p].pc = "want" /\ lock.by # Nobody
    /\ Step(p, "idle")
    /\ UNCHANGED <<lock, tmp, memfile, promised, robbed, deaths, made>>

-----------------------------------------------------------------------------
(* A write under the lock *)

\* What a request makes of the list that was read: the new list and the id it is about;
\* id 0 when it is refused or its text is there already.
Keep(list) == [list |-> <<>>, id |-> 0]

AddTo(list, text) ==
    LET new == Append(list, [id |-> made + 1, text |-> text])
    IN IF (\E i \in 1..Len(list) : list[i].text = text)
          \/ Len(list) >= MaxEntries \/ TotalWords(new) > CharLimit
       THEN Keep(list)
       ELSE [list |-> new, id |-> made + 1]

ReplaceIn(list, text, new) ==
    LET at == CHOOSE i \in Matches(list, text) : TRUE
        after == [list EXCEPT ![at].text = new]
    IN IF Cardinality(Matches(list, text)) # 1 \/ TotalWords(after) > CharLimit
       THEN Keep(list) ELSE [list |-> after, id |-> list[at].id]

RemoveFrom(list, text) ==
    IF Cardinality(Matches(list, text)) # 1 THEN Keep(list)
    ELSE LET at == CHOOSE i \in Matches(list, text) : TRUE
         IN [list |-> RemoveAt(list, at), id |-> list[at].id]

ReadMemory(p) ==
    /\ wr[p].pc = "locked"
    /\ \E op \in {"add", "replace", "remove"}, text \in Texts, new \in Texts :
        LET r == CASE op = "add" -> AddTo(memfile, text)
                   [] op = "replace" -> ReplaceIn(memfile, text, new)
                   [] OTHER -> RemoveFrom(memfile, text)
        IN /\ op # "replace" => new = text
           /\ made' = IF op = "add" /\ r.id # 0 THEN made + 1 ELSE made
           /\ made' <= MaxEntryId
           /\ wr' = [wr EXCEPT ![p] = [pc |-> IF r.id = 0 THEN "unlock" ELSE "read",
                                       op |-> op, list |-> r.list, id |-> r.id]]
    /\ UNCHANGED <<lock, tmp, memfile, promised, robbed, deaths>>

\* Mutant of WriteTemp: the memory file itself is opened for writing.
WriteInPlace(p) ==
    /\ wr[p].pc = "read"
    /\ tmp' = wr[p].list
    /\ memfile' = <<>>
    /\ wr' = [wr EXCEPT ![p] = [@ EXCEPT !.pc = "temp", !.list = <<>>]]
    /\ UNCHANGED <<lock, promised, robbed, deaths, made>>

WriteTemp(p) ==
    /\ wr[p].pc = "read"
    /\ tmp' = wr[p].list
    /\ wr' = [wr EXCEPT ![p] = [@ EXCEPT !.pc = "temp", !.list = <<>>]]
    /\ UNCHANGED <<lock, memfile, promised, robbed, deaths, made>>

\* The rename puts the temporary file, whoever wrote it last, in the place of the
\* memory file; it fails when another process has renamed it away.
RenameTemp(p) ==
    /\ wr[p].pc = "temp"
    /\ IF tmp = NoFile THEN UNCHANGED <<tmp, memfile, promised>>
       ELSE /\ memfile' = tmp
            /\ tmp' = NoFile
            /\ promised' = IF wr[p].op = "remove" THEN promised \ {wr[p].id}
                           ELSE promised \cup {wr[p].id}
    /\ Step(p, "unlock")
    /\ UNCHANGED <<lock, robbed, deaths, made>>

\* The finally clause removes the lock file by its name.
Unlock(p) ==
    /\ wr[p].pc = "unlock"
    /\ RobbedBy(p)
    /\ lock' = Unlocked
    /\ wr' = [wr EXCEPT ![p] = Resting]
    /\ UNCHANGED <<tmp, memfile, promised, deaths, made>>

DieWriting(p) ==
    /\ wr[p].pc # "idle" /\ deaths < MaxDeaths
    /\ deaths' = deaths + 1
    /\ wr' = [wr EXCEPT ![p] = Resting]
    /\ UNCHANGED <<lock, tmp, memfile, promised, robbed, made>>

-----------------------------------------------------------------------------
MfInit ==
    /\ lock = Unlocked /\ tmp = NoFile /\ memfile = <<>>
    /\ wr = [p \in Writers |-> Resting]
    /\ promised = {} /\ robbed = FALSE /\ deaths = 0 /\ made = 0

MfNext ==
    \/ LockAges
    \/ \E p \in Writers :
        \/ AskWrite(p) \/ TakeLock(p) \/ SeeOld(p) \/ BreakLock(p) \/ LockTimesOut(p)
        \/ ReadMemory(p) \/ WriteTemp(p) \/ RenameTemp(p) \/ Unlock(p) \/ DieWriting(p)

MfSpec == MfInit /\ [][MfNext]_mfVars

-----------------------------------------------------------------------------
(* Properties *)

\* While no living holder lost its lock file, one process at a time is between the
\* creation of the lock file and the rename.
OneWriter ==
    robbed \/ Cardinality({p \in Writers : wr[p].pc \in Holding}) <= 1

\* What add or replace returned to its caller is in the file until a remove of it
\* takes it out, through every crash and every lock file left behind, while no living
\* holder lost its lock file.
PromisesKept ==
    robbed \/ promised \subseteq {memfile[i].id : i \in 1..Len(memfile)}

\* The file keeps its bounds, whoever wrote over whom.
MemoryBounded ==
    Len(memfile) <= MaxEntries /\ TotalWords(memfile) <= CharLimit

\* The memory file is sound through crashes and broken locks: one writer, no promise
\* forgotten, the bounds kept.
MemoryFileSound == OneWriter /\ PromisesKept /\ MemoryBounded

-----------------------------------------------------------------------------
(* The structured memory *)

miVars == <<items, decided, snaps, us, raced, falls, work>>

None == 0
AtEase == [pc |-> "idle", kind |-> "none", cand |-> None, conf |-> None, todo |-> <<>>,
           result |-> None, pins |-> {}, stale |-> FALSE]
Item(of, tomb, root, pinned) == [of |-> of, tomb |-> tomb, root |-> root, pinned |-> pinned]
Ids == 1..Len(items)

\* list_active_memory: neither a tombstone nor superseded.
Active(i) == i \in Ids /\ ~items[i].tomb /\ \A j \in Ids : items[j].of # i

-----------------------------------------------------------------------------
(* Items *)

\* add_memory, and import_legacy_snapshot for an entry that is not there yet.
AddMemory(u) ==
    /\ us[u].pc = "idle" /\ Len(items) < MaxItems
    /\ items' = Append(items, Item(None, FALSE, Len(items) + 1, TRUE))
    /\ UNCHANGED <<decided, snaps, us, raced, falls, work>>

\* replace_memory and remove_memory begin with _require_active.
BeginChange(u) ==
    /\ us[u].pc = "idle"
    /\ \E i \in Ids, kind \in {"replace", "remove"} :
        /\ Active(i)
        /\ us' = [us EXCEPT ![u] = [AtEase EXCEPT !.pc = "write", !.todo = << <<kind, i>> >>]]
    /\ UNCHANGED <<items, decided, snaps, raced, falls, work>>

\* A new version keeps scope and pin of the one it supersedes, a tombstone is not pinned.
NewRow(kind, i) ==
    Item(i, kind = "remove", items[i].root, kind = "replace" /\ items[i].pinned)

\* insert_memory_item.
WriteRow(u) ==
    /\ us[u].pc = "write" /\ Len(items) < MaxItems
    /\ LET kind == Head(us[u].todo)[1]
           i == Head(us[u].todo)[2]
           rest == Tail(us[u].todo)
       IN /\ items' = Append(items, NewRow(kind, i))
          /\ raced' = (raced \/ ~Active(i))
          /\ us' = [us EXCEPT ![u] =
                        IF us[u].kind = "none" THEN AtEase
                        ELSE [@ EXCEPT !.pc = IF rest = <<>> THEN "record" ELSE "next", !.todo = rest,
                                       !.result = IF kind = "replace" THEN Len(items) + 1
                                                  ELSE us[u].result]]
    /\ UNCHANGED <<decided, snaps, falls, work>>

-----------------------------------------------------------------------------
(* Decisions on a conflict *)

\* The changes a decision makes, in their order.
ChangesOf(kind, cand, conf) ==
    CASE kind = "supersede" -> << <<"remove", conf>> >>
      [] kind = "reject" -> << <<"remove", cand>> >>
      [] OTHER -> << <<"replace", cand>>, <<"remove", conf>> >>

\* Mutant of BeginDecision: the decision is recorded first.
BeginRecorded(u) ==
    /\ us[u].pc = "idle" /\ work = "decisions" /\ Cardinality(decided) < MaxDecisions
    /\ \E cand, conf \in Ids, kind \in {"supersede", "reject", "merge"} :
        /\ cand # conf /\ Active(cand)
        /\ decided' = decided \cup {[kind |-> kind, cand |-> cand, conf |-> conf, result |-> None]}
        /\ us' = [us EXCEPT ![u] = [AtEase EXCEPT !.pc = "next", !.kind = kind, !.cand = cand,
                                                  !.conf = conf, !.todo = ChangesOf(kind, cand, conf)]]
    /\ UNCHANGED <<items, snaps, raced, falls, work>>

\* record_conflict_decision: the candidate must be active, the other only exist.
BeginDecision(u) ==
    /\ us[u].pc = "idle" /\ work = "decisions" /\ Cardinality(decided) < MaxDecisions
    /\ \E cand, conf \in Ids, kind \in {"supersede", "reject", "merge"} :
        /\ cand # conf /\ Active(cand)
        /\ us' = [us EXCEPT ![u] = [AtEase EXCEPT !.pc = "next", !.kind = kind, !.cand = cand,
                                                  !.conf = conf, !.todo = ChangesOf(kind, cand, conf)]]
    /\ UNCHANGED <<items, decided, snaps, raced, falls, work>>

\* Each change looks again whether its item is active.  A conflicting item that is not
\* is skipped; a candidate that is not raises, and nothing is recorded.
CheckNext(u) ==
    /\ us[u].pc = "next"
    /\ LET i == Head(us[u].todo)[2]
           rest == Tail(us[u].todo)
       IN us' = [us EXCEPT ![u] =
                   IF Active(i) THEN [@ EXCEPT !.pc = "write"]
                   ELSE IF i = us[u].cand THEN AtEase
                   ELSE [@ EXCEPT !.pc = IF rest = <<>> THEN "record" ELSE "next", !.todo = rest]]
    /\ UNCHANGED <<items, decided, snaps, raced, falls, work>>

\* The row is written last.
RecordDecision(u) ==
    /\ us[u].pc = "record"
    /\ decided' = decided \cup {[kind |-> us[u].kind, cand |-> us[u].cand,
                                 conf |-> us[u].conf, result |-> us[u].result]}
    /\ us' = [us EXCEPT ![u] = AtEase]
    /\ UNCHANGED <<items, snaps, raced, falls, work>>

-----------------------------------------------------------------------------
(* The snapshot of a conversation *)

\* As many as fit are taken, in an order of their own.
Fit(pins) == {s \in SUBSET pins : Cardinality(s) <= PinnedBudget
                /\ \A i \in pins \ s : Cardinality(s) = PinnedBudget}

\* build_memory_runtime finds no snapshot and capture_snapshot reads the pinned items;
\* those that fit the budget are taken.
ReadPinned(u) ==
    /\ us[u].pc = "idle" /\ work = "snapshots" /\ snaps = <<>>
    /\ \E pins \in Fit({i \in Ids : Active(i) /\ items[i].pinned}) :
        us' = [us EXCEPT ![u] = [AtEase EXCEPT !.pc = "capture", !.pins = pins,
                                                  !.stale = \E i \in pins : ~Active(i)]]
    /\ UNCHANGED <<items, decided, snaps, raced, falls, work>>

\* insert_memory_snapshot: another row when another process was first.
InsertSnapshot(u) ==
    /\ us[u].pc = "capture"
    /\ snaps' = Append(snaps, [pins |-> us[u].pins, stale |-> us[u].stale])
    /\ us' = [us EXCEPT ![u] = AtEase]
    /\ UNCHANGED <<items, decided, raced, falls, work>>

Fall(u) ==
    /\ us[u].pc # "idle" /\ falls < MaxFalls
    /\ falls' = falls + 1
    /\ us' = [us EXCEPT ![u] = AtEase]
    /\ UNCHANGED <<items, decided, snaps, raced, work>>

-----------------------------------------------------------------------------
MiInit ==
    /\ items = [i \in 1..Seeds |-> Item(None, FALSE, i, TRUE)]
    /\ decided = {} /\ snaps = <<>>
    /\ us = [u \in Users |-> AtEase]
    /\ raced = FALSE /\ falls = 0 /\ work \in {"decisions", "snapshots"}

MiNext == \E u \in Users :
    \/ AddMemory(u) \/ BeginChange(u) \/ WriteRow(u)
    \/ BeginDecision(u) \/ CheckNext(u) \/ RecordDecision(u)
    \/ ReadPinned(u) \/ InsertSnapshot(u) \/ Fall(u)

MiSpec == MiInit /\ [][MiNext]_miVars

-----------------------------------------------------------------------------
(* Properties *)

\* A memory that was replaced any number of times has one active version at most,
\* unless a row superseded an item another process had superseded first.
OneHead ==
    raced \/ \A r \in Ids : Cardinality({i \in Ids : Active(i) /\ items[i].root = r}) <= 1

\* Only a race makes a second version: however the service is used, the versions of a
\* memory form a chain.
HeadsNeverFork ==
    \A r \in Ids : Cardinality({i \in Ids : Active(i) /\ items[i].root = r}) <= 1

\* A recorded decision has been carried out, whoever else was at work and whoever died:
\* what it set aside is not active, and a merge has its result.
DecisionsApplied ==
    \A d \in decided :
        /\ d.kind # "reject" => ~Active(d.conf)
        /\ d.kind # "supersede" => ~Active(d.cand)
        /\ d.kind = "merge" => d.result # None /\ items[d.result].of = d.cand

\* No snapshot, of whichever process, freezes a memory that had been removed or replaced
\* before the process looked, and none exceeds the budget.
SnapshotsAreCurrent ==
    \A s \in 1..Len(snaps) : ~snaps[s].stale /\ Cardinality(snaps[s].pins) <= PinnedBudget

\* The items are sound for users that propose, decide and take snapshots at the same time
\* and fall in between.
MemoryItemsSound == OneHead /\ DecisionsApplied /\ SnapshotsAreCurrent
=============================================================================
