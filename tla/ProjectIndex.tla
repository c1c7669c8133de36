---------------------------- MODULE ProjectIndex ----------------------------
(***************************************************************************)
(* The knowledge index of a project: builders that read the knowledge files, *)
(* replace the database and then write what it was built from                *)
(* (src/src/paperclaw/projects/indexing.py), the inspection that compares    *)
(* the two with the files, a host that opens a retriever under its policy,   *)
(* and the watcher that polls and rebuilds (runtime.py).                     *)
(*                                                                          *)
(* A file is its content, "absent", or "bad" when it is too large or no      *)
(* text.  A database is the files it holds and the build that made it, which *)
(* is all its hash can tell apart.                                           *)
(***************************************************************************)
EXTENDS Integers, Sequences, FiniteSets

CONSTANTS
    Files,              \* knowledge files, in the order they are read
    Declared,           \* files the manifest names itself, the others lie in a directory
    FileTexts,
    Builders, Host, Watcher,
    Policy,             \* index policy of the host
    MaxSaves, MaxVisits \* changes of files; builds, openings and polls together

VARIABLES
    files,      \* the knowledge files as they are
    database,   \* the index database in the data directory
    metadata,   \* the metadata file beside it
    actor,      \* each builder, the host and the watcher: step, files read, metadata read
    opened,     \* the database the host opened, and whether it is what was inspected
    watch,      \* _last of the watcher, and how it came about
    saves, visits,
    mixed       \* history: two builds overlapped between replacing and writing metadata

pxVars == <<files, database, metadata, actor, opened, watch, saves, visits, mixed>>

Actors == Builders \cup {Host, Watcher}
FileState == FileTexts \cup {"absent", "bad"}
FileRange == 1..Len(Files)
Missing == [build |-> 0, holds |-> <<>>]
NoMetadata == [of |-> Missing, fingerprint |-> <<>>]
NotRead == <<>>
Status(reason, expected, indexed) == [reason |-> reason, expected |-> expected, indexed |-> indexed]
NoStatus == Status("none", NotRead, NotRead)
AtHome == [pc |-> "idle", goal |-> "none", read |-> <<>>, meta |-> NoMetadata, build |-> 0, overtaken |-> FALSE]

\* Reading the files raises on a declared path that is gone and on a file out of bounds.
Readable(f) == files[f] # "bad" /\ ~(files[f] = "absent" /\ Files[f] \in Declared)

MoveTo(a, pc) == actor' = [actor EXCEPT ![a].pc = pc]
\* A file or the database changed while the watcher is rebuilding.
Overtaking(a, new) ==
    IF a # Watcher /\ actor[Watcher].goal \in {"rebuild", "recheck"}
    THEN [new EXCEPT ![Watcher].overtaken = TRUE] ELSE new
Visit(a, goal, pc) ==
    /\ actor[a].pc = "idle" /\ visits < MaxVisits
    /\ visits' = visits + 1
    /\ actor' = [actor EXCEPT ![a] = [AtHome EXCEPT !.goal = goal, !.pc = pc, !.build = visits + 1]]

-----------------------------------------------------------------------------
(* build_project_index *)

StartBuild(a) ==
    /\ a \in Builders
    /\ Visit(a, "build", "collect")
    /\ UNCHANGED <<files, database, metadata, opened, watch, saves, mixed>>

\* collect_project_knowledge_files reads one file after the other.
CollectFile(a) ==
    LET f == Len(actor[a].read) + 1
    IN  /\ actor[a].pc \in {"collect", "compare"} /\ f \in FileRange
        /\ actor' = [actor EXCEPT ![a] =
              IF Readable(f) THEN [@ EXCEPT !.read = Append(@, files[f])]
              ELSE IF actor[a].pc = "collect" THEN AtHome
              ELSE [@ EXCEPT !.pc = "judge", !.read = NotRead]]
        /\ UNCHANGED <<files, database, metadata, opened, watch, saves, visits, mixed>>

ReadAll(a, pc) == actor[a].pc = pc /\ Len(actor[a].read) = Len(Files)

\* The temporary database takes the place of the target.
ReplaceDatabase(a) ==
    /\ ReadAll(a, "collect")
    /\ database' = [build |-> actor[a].build, holds |-> actor[a].read]
    /\ actor' = Overtaking(a, [actor EXCEPT ![a].pc = "hash"])
    /\ mixed' = (mixed \/ \E b \in Actors \ {a} : actor[b].pc \in {"hash", "write"})
    /\ UNCHANGED <<files, metadata, opened, watch, saves, visits>>

\* The report takes the hash of the target as it is now.
HashTarget(a) ==
    /\ actor[a].pc = "hash"
    /\ actor' = [actor EXCEPT ![a].pc = "write", ![a].meta = [of |-> database, fingerprint |-> actor[a].read]]
    /\ UNCHANGED <<files, database, metadata, opened, watch, saves, visits, mixed>>

\* A watcher goes on to inspect what it built.
WriteMetadata(a) ==
    /\ actor[a].pc = "write"
    /\ metadata' = actor[a].meta
    /\ actor' = [actor EXCEPT ![a] = IF actor[a].goal = "rebuild"
                                     THEN [@ EXCEPT !.pc = "inspect", !.goal = "recheck", !.read = <<>>]
                                     ELSE AtHome]
    /\ UNCHANGED <<files, database, opened, watch, saves, visits, mixed>>

\* A process that ends leaves what it wrote; the next one starts afresh.
Crash(a) ==
    /\ a \in Builders /\ actor[a].pc # "idle"
    /\ actor' = [actor EXCEPT ![a] = AtHome]
    /\ UNCHANGED <<files, database, metadata, opened, watch, saves, visits, mixed>>

-----------------------------------------------------------------------------
(* inspect_project_index *)

\* Both files are there, and what the metadata says.
ReadMetadata(a) ==
    /\ actor[a].pc = "inspect"
    /\ actor' = [actor EXCEPT ![a] = IF database = Missing \/ metadata = NoMetadata
                                     THEN [@ EXCEPT !.pc = "judge", !.meta = NoMetadata]
                                     ELSE [@ EXCEPT !.pc = "rehash", !.meta = metadata]]
    /\ UNCHANGED <<files, database, metadata, opened, watch, saves, visits, mixed>>

\* Mutant of HashMatches: the hash of the database is not compared.
AnyDatabase(meta) == TRUE

HashMatches(meta) == meta.of = database

CompareHash(a) ==
    /\ actor[a].pc = "rehash"
    /\ MoveTo(a, IF HashMatches(actor[a].meta) THEN "compare" ELSE "mismatch")
    /\ UNCHANGED <<files, database, metadata, opened, watch, saves, visits, mixed>>

\* What the inspection of a returns.
Found(a) ==
    LET x == actor[a]
        indexed == x.meta.fingerprint
    IN  IF x.pc = "mismatch" THEN Status("mismatch", NotRead, indexed)
        ELSE IF x.meta = NoMetadata THEN Status("missing", NotRead, NotRead)
        ELSE IF x.pc = "judge" THEN Status("invalid", NotRead, indexed)
        ELSE Status(IF x.read = indexed THEN "current" ELSE "stale", x.read, indexed)
Inspected(a) == actor[a].pc \in {"judge", "mismatch"} \/ ReadAll(a, "compare")

\* The same on one view of everything.
StatusNow ==
    IF database = Missing \/ metadata = NoMetadata THEN "missing"
    ELSE IF ~HashMatches(metadata) THEN "mismatch"
    ELSE IF \E f \in FileRange : ~Readable(f) THEN "invalid"
    ELSE IF metadata.fingerprint = files THEN "current" ELSE "stale"

-----------------------------------------------------------------------------
(* The host and the watcher *)

\* _usable.
UsableStatus(reason) ==
    CASE Policy = "disabled" -> FALSE
      [] Policy = "require_current" -> reason = "current"
      [] OTHER -> reason \in {"current", "stale"}

\* create_retriever.
OpenRetriever ==
    /\ Policy # "disabled"
    /\ Visit(Host, "open", "inspect")
    /\ UNCHANGED <<files, database, metadata, opened, watch, saves, mixed>>

\* The database is opened by its path, after the inspection.
Opened ==
    /\ actor[Host].goal = "open" /\ Inspected(Host)
    /\ opened' = IF UsableStatus(Found(Host).reason)
                 THEN [what |-> database, of |-> actor[Host].meta, read |-> actor[Host].read]
                 ELSE [what |-> Missing, of |-> NoMetadata, read |-> <<>>]
    /\ actor' = [actor EXCEPT ![Host] = AtHome]
    /\ UNCHANGED <<files, database, metadata, watch, saves, visits, mixed>>

\* ProjectKnowledgeWatcher takes what it finds when it starts as seen; poll_once inspects.
StartWatcher ==
    /\ watch.how = "off" /\ Visit(Watcher, "first", "inspect")
    /\ UNCHANGED <<files, database, metadata, opened, watch, saves, mixed>>

Poll ==
    /\ watch.how # "off" /\ Visit(Watcher, "poll", "inspect")
    /\ UNCHANGED <<files, database, metadata, opened, watch, saves, mixed>>

Seen(how) ==
    /\ watch' = [how |-> how, last |-> Found(Watcher)]
    /\ actor' = [actor EXCEPT ![Watcher] = AtHome]

\* The status changed and the index is not current: rebuild, then inspect again.  A
\* rebuild that raises leaves _last as it was.
PollDecides ==
    /\ Inspected(Watcher)
    /\ CASE actor[Watcher].goal = "first" -> Seen("first")
         [] actor[Watcher].goal = "recheck" -> Seen(IF actor[Watcher].overtaken THEN "overtaken" ELSE "rebuilt")
         [] Found(Watcher) = watch.last -> watch' = watch /\ actor' = [actor EXCEPT ![Watcher] = AtHome]
         [] Found(Watcher).reason = "current" -> Seen("current")
         [] OTHER -> /\ actor' = [actor EXCEPT ![Watcher].pc = "collect", ![Watcher].goal = "rebuild",
                                               ![Watcher].read = <<>>]
                     /\ watch' = watch
    /\ UNCHANGED <<files, database, metadata, opened, saves, visits, mixed>>

\* Somebody saves, adds or removes a knowledge file.
SaveFile(f, text) ==
    /\ saves < MaxSaves /\ files[f] # text
    /\ files' = [files EXCEPT ![f] = text] /\ saves' = saves + 1
    /\ actor' = Overtaking(Host, actor)
    /\ UNCHANGED <<database, metadata, opened, watch, visits, mixed>>

PxInit ==
    /\ files \in {[f \in FileRange |-> t] : t \in FileTexts}
    /\ database = Missing /\ metadata = NoMetadata
    /\ actor = [a \in Actors |-> AtHome]
    /\ opened = [what |-> Missing, of |-> NoMetadata, read |-> <<>>]
    /\ watch = [how |-> "off", last |-> NoStatus]
    /\ saves = 0 /\ visits = 0 /\ mixed = FALSE

PxNext ==
    \/ \E a \in Actors :
          \/ StartBuild(a) \/ CollectFile(a) \/ ReplaceDatabase(a) \/ HashTarget(a) \/ WriteMetadata(a)
          \/ Crash(a) \/ ReadMetadata(a) \/ CompareHash(a)
    \/ OpenRetriever \/ Opened \/ StartWatcher \/ Poll \/ PollDecides
    \/ \E f \in FileRange, t \in FileState : SaveFile(f, t)

PxSpec == PxInit /\ [][PxNext]_pxVars

-----------------------------------------------------------------------------
(***************************************************************************)
(* As long as no two builds overlapped: an index that inspection calls        *)
(* current holds the files as they are, and a retriever opened under the      *)
(* policy that requires a current index reads the files its inspection read,  *)
(* unless a build replaced the database in between.  A watcher whose next poll would see no change has nothing to   *)
(* rebuild, unless it started that way, or a file or the database changed      *)
(* while it rebuilt.                                                          *)
(***************************************************************************)
CurrentHoldsTheFiles == StatusNow = "current" => database.holds = files
OpensCurrent ==
    Policy = "require_current" /\ opened.what # Missing /\ opened.what = opened.of.of =>
        opened.what.holds = opened.read
WatcherNotStuck ==
    actor[Watcher].pc = "idle" /\ watch.how \in {"rebuilt", "current"} => watch.last.reason = "current"
ProjectIndexSound == mixed \/ (CurrentHoldsTheFiles /\ OpensCurrent /\ WatcherNotStuck)
=============================================================================
