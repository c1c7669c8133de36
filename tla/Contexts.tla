------------------------------ MODULE Contexts ------------------------------
(***************************************************************************)
(* The contexts given to models (src/src/paperclaw/context/), of two kinds  *)
(* that share nothing.                                                       *)
(*                                                                          *)
(* The builder of role contexts (builder.py, with compaction.py): the items  *)
(* of a run are collected, filtered by trust, scope, validity and conflict,  *)
(* selected within the budget, and what is evicted is compacted into summary *)
(* items that go back to the table, before the snapshot is written.  An item *)
(* is known by the ids of the items it absorbs: the id of a summary is a     *)
(* digest of those, so two summaries of the same items have one id.  The     *)
(* builders of several roles share the table.                                *)
(*                                                                          *)
(* The assembly of one prompt (orchestration.py): what the repository and    *)
(* the request offer becomes candidates; duplicates and conflicts are        *)
(* resolved, the budget is shared out between buckets, and the rendered      *)
(* prompt is cut down until it fits.  A candidate is a record: its text      *)
(* stands for the content hash, its trust for the place in TRUST_ORDER (0 is *)
(* the system, 4 is external), fact for the kind that wins among equals.     *)
(***************************************************************************)
EXTENDS Integers, Sequences, FiniteSets, FiniteSetsExt, SequencesExt

CONSTANTS  \* of the builder of role contexts
    Texts0,         \* the originals, in the order they are written: what each item says
    Views,          \* the roles with a builder
    Usable,         \* ContextBudget.usable_input
    SummaryTokens,  \* estimated tokens of a summary
    ChunkSize,      \* _MAX_ITEMS_PER_SUMMARY
    MaxBuilds       \* builds of each role

CONSTANTS  \* of the assembly of a prompt
    Pool,          \* the candidates there may be; the runtime prompt is always one of them
    MessageLimit,  \* recent_message_limit
    ToolLimit,     \* recent_tool_result_limit
    Available,     \* available_input_tokens
    SingleLimit,   \* max_single_candidate_tokens
    Quota,         \* source_quotas: each bucket's share in percent
    HeaderTokens   \* what rendering adds to each supplemental candidate

VARIABLES  \* of the builder of role contexts
    table,      \* context_items: the set of items
    seqno,      \* the last committed sequence of the run
    builders,   \* each role: its build
    taken       \* context_snapshots: what the builds wrote

VARIABLES  \* of the assembly of a prompt
    offered,    \* what is there when the call is made
    cands,      \* the candidates still in the running
    picked,     \* those selected
    dropped,    \* the exclusion records: candidate and reason
    pcA         \* the stage of the assembly

cbVars == <<table, seqno, builders, taken>>
caVars == <<offered, cands, picked, dropped, pcA>>

Original(k) == [n |-> k, of |-> {}]
SummaryId(ids) == [n |-> 0, of |-> ids]
NoBuild == [pc |-> "idle", at |-> 0, keep |-> {}, evicted |-> {}, sums |-> {}, built |-> 0]

\* insert_context_item: the item of the next original, effective from its sequence.
Stored(k, from) ==
    [id |-> Original(k), from |-> from, kind |-> Texts0[k].kind, layer |-> Texts0[k].layer,
     external |-> Texts0[k].external, scope |-> Texts0[k].scope, tokens |-> Texts0[k].tokens,
     priority |-> Texts0[k].priority, until |-> Texts0[k].until, replaces |-> Texts0[k].replaces]

-----------------------------------------------------------------------------
(* What a build selects *)

\* _is_protected, in the builder and in the policy.
Shielded(i) == i.layer = "L0" \/ i.kind = "constraint"

\* _enforce_trust_boundary: external text is never in the first layers.
Barred(i) == i.external /\ i.layer = "L0"

\* _item_visible_to_view: an item may carry several scopes.
VisibleTo(i, v) == "shared" \in i.scope \/ v \in i.scope

\* is_active_at
ActiveAt(i, at) == i.from <= at /\ (i.until = 0 \/ at < i.until)

\* _resolve_conflicts: two facts of one layer and task with different content are both
\* left out.  The facts among the originals share their layer and task.
InConflict(S) == {i \in S : i.kind = "fact" /\ \E j \in S : j.kind = "fact" /\ j # i}

\* _apply_role_scope, then _remove_expired_and_superseded among what is left, then the conflicts.
Candidates(listed, v, at) ==
    LET scoped == {i \in listed : ~Barred(i) /\ VisibleTo(i, v)}
        current == {i \in scoped : ActiveAt(i, at) /\ \A j \in scoped : j.replaces # i.id.n \/ i.id.n = 0}
    IN current \ InConflict(current)

Weight(S) == MapThenSumSet(LAMBDA i : i.tokens, S)

\* _keep_key: observations go first; then priority, then age.  Ties fall to the digests.
Tier(i) == IF i.kind = "observation" THEN 0 ELSE 2
Before(i, j) ==
    \/ Tier(i) > Tier(j)
    \/ Tier(i) = Tier(j) /\ i.priority > j.priority
    \/ Tier(i) = Tier(j) /\ i.priority = j.priority /\ i.from > j.from

\* The items one after the other, each with none of the rest before it.
InTurn(S, before(_, _)) ==
    LET next(T) == CHOOSE i \in T : \A j \in T \ {i} : ~before(j, i)
        line[T \in SUBSET S] == IF T = {} THEN <<>> ELSE <<next(T)>> \o line[T \ {next(T)}]
    IN line[S]

\* _select_within_budget
Chosen(S) ==
    IF Weight(S) <= Usable THEN S
    ELSE FoldLeft(LAMBDA kept, i : IF Weight(kept) + i.tokens <= Usable THEN kept \union {i} ELSE kept,
                  {i \in S : Shielded(i)}, InTurn({i \in S : ~Shielded(i)}, Before))

-----------------------------------------------------------------------------
(* Summaries *)

Earlier(i, j) == i.from < j.from \/ (i.from = j.from /\ i.priority > j.priority)

\* The chunks of the evicted items, in the order of list_context_items.
Chunks(S) ==
    LET order == InTurn(S, Earlier)
        last(c) == IF c * ChunkSize > Len(order) THEN Len(order) ELSE c * ChunkSize
    IN {{order[p] : p \in ((c - 1) * ChunkSize + 1)..last(c)} : c \in {k \in 1..Len(order) : (k - 1) * ChunkSize < Len(order)}}

\* _build_summary_item
Summary(chunk, at) ==
    [id |-> SummaryId({i.id : i \in chunk}), from |-> at, kind |-> "observation", layer |-> "L4",
     external |-> FALSE, scope |-> {"shared"}, tokens |-> SummaryTokens, priority |-> 0,
     until |-> 0, replaces |-> 0]

\* Mutant of Summaries: the last chunk is lost when it is not full.
FullSummaries(S, at) == {Summary(c, at) : c \in {d \in Chunks(S) : Cardinality(d) = ChunkSize}}

\* CompactionPolicy.compact, of what is not protected.
Summaries(S, at) == {Summary(c, at) : c \in Chunks({i \in S : ~Shielded(i)})}

\* The originals a summary stands for, through the summaries it absorbed.
Absorbed[id \in {i.id : i \in table}] ==
    IF id.n # 0 THEN {id} ELSE UNION {Absorbed[s] : s \in id.of}

-----------------------------------------------------------------------------
(* Steps *)

\* Items of the run: the next original is written at a new sequence.
WriteItem ==
    /\ Len(Texts0) > seqno
    /\ seqno' = seqno + 1
    /\ table' = table \union {Stored(seqno + 1, seqno + 1)}
    /\ UNCHANGED <<builders, taken>>

\* _select_existing_context: the sequence of the build is read before the items are.
BeginBuild(v) ==
    /\ builders[v].pc = "idle" /\ builders[v].built < MaxBuilds
    /\ table # {}
    /\ builders' = [builders EXCEPT ![v].pc = "collect", ![v].at = seqno, ![v].built = @ + 1]
    /\ UNCHANGED <<table, seqno, taken>>

\* build, down to the selection.  Protected items that exceed the budget end the build.
CollectItems(v) ==
    /\ builders[v].pc = "collect"
    /\ LET at == builders[v].at
           S == Candidates(table, v, at)
       IN IF Weight(S) > Usable /\ Weight({i \in S : Shielded(i)}) > Usable
          THEN builders' = [builders EXCEPT ![v] = [NoBuild EXCEPT !.built = builders[v].built]]
          ELSE builders' = [builders EXCEPT ![v].keep = Chosen(S) \union {i \in S : Shielded(i)}, ![v].evicted = S \ Chosen(S),
                                            ![v].sums = Summaries(S \ Chosen(S), at),
                                            ![v].pc = IF S = Chosen(S) THEN "snapshot" ELSE "summaries"]
    /\ UNCHANGED <<table, seqno, taken>>

\* What a build has to store: the summaries whose ids are not among the items it selected.
NewSummaries(v) == {s \in builders[v].sums : s.id \notin {i.id : i \in builders[v].keep}}
IdsThere == {i.id : i \in table}

\* insert_context_items in one transaction: an id that is in the table, though not selected,
\* refuses them all and ends the build.
InsertSummaries(v) ==
    /\ builders[v].pc = "summaries"
    /\ IF \A s \in NewSummaries(v) : s.id \notin IdsThere
       THEN /\ table' = table \union NewSummaries(v)
            /\ builders' = [builders EXCEPT ![v].pc = "snapshot"]
       ELSE /\ builders' = [builders EXCEPT ![v] = [NoBuild EXCEPT !.built = builders[v].built]]
            /\ UNCHANGED table
    /\ UNCHANGED <<seqno, taken>>

\* insert_snapshot
StoreSnapshot(v) ==
    /\ builders[v].pc = "snapshot"
    /\ taken' = taken \union {[view |-> v, at |-> builders[v].at, items |-> builders[v].keep \union builders[v].sums,
                               sums |-> builders[v].sums]}
    /\ builders' = [builders EXCEPT ![v] = [NoBuild EXCEPT !.built = builders[v].built]]
    /\ UNCHANGED <<table, seqno>>

CbInit ==
    /\ table = {} /\ seqno = 0 /\ taken = {}
    /\ builders = [v \in Views |-> NoBuild]

CbNext ==
    \/ WriteItem
    \/ \E v \in Views : BeginBuild(v) \/ CollectItems(v) \/ InsertSummaries(v) \/ StoreSnapshot(v)

CbSpec == CbInit /\ [][CbNext]_cbVars

-----------------------------------------------------------------------------
(* Candidates of a prompt *)

External == 4

\* Mutant of Guarded: only the system protects.
GuardedBySystem(c) == c.trust = 0 /\ c.pinned

\* ContextCandidate.is_protected: external data cannot protect itself.
Guarded(c) == c.trust # External /\ c.pinned

\* _winner_order: trust, then facts, priority, freshness and the id.
Beats(a, b) ==
    LET ka == <<a.trust, IF a.fact THEN 0 ELSE 1, -a.priority, -a.fresh, a.id>>
        kb == <<b.trust, IF b.fact THEN 0 ELSE 1, -b.priority, -b.fresh, b.id>>
    IN \E i \in 1..5 : ka[i] < kb[i] /\ \A j \in 1..(i - 1) : ka[j] = kb[j]

Best(S) == CHOOSE c \in S : \A o \in S \ {c} : Beats(c, o)
Worst(S) == CHOOSE c \in S : \A o \in S \ {c} : Beats(o, c)
InOrder(S) == [k \in 1..Cardinality(S) |-> CHOOSE c \in S : Cardinality({o \in S : Beats(o, c)}) = k - 1]
Tokens(S) == MapThenSumSet(LAMBDA c : c.tokens, S)
Records(S, why) == {[id |-> c.id, why |-> why] : c \in S}

\* The last n of S, by their sequence.
Latest(S, n) == {c \in S : Cardinality({o \in S : o.fresh > c.fresh}) < n}

\* _tool_event_groups: a result whose start is not in the log says nothing; the two are one candidate.
ToolGroups(S) == {c \in S : c.source = "tool" /\ c.started}

\* _collect: the prompt itself, then the recent messages and tool results, and all the rest.
Collected(S) ==
    Latest({c \in S : c.source = "message"}, MessageLimit)
        \union Latest(ToolGroups(S), ToolLimit)
        \union {c \in S : c.source \notin {"message", "tool"}}

Collect ==
    /\ pcA = "collect"
    /\ cands' = Collected(offered)
    /\ pcA' = "dedup"
    /\ UNCHANGED <<offered, picked, dropped>>

SameText(c, S) == {o \in S : o.bucket = c.bucket /\ o.text = c.text}

\* The one candidate of each bucket and content that stays.
Distinct(S) == {c \in S : c = Best(SameText(c, S))}

\* _deduplicate
Deduplicate ==
    /\ pcA = "dedup"
    /\ cands' = Distinct(cands)
    /\ dropped' = Records(cands \ Distinct(cands), "duplicate")
    /\ pcA' = "conflicts"
    /\ UNCHANGED <<offered, picked>>

Rivals(c, S) == {o \in S : o.group = c.group}

\* The winner of each conflict group.
Undisputed(S) == {c \in S : c.group = 0 \/ c = Best(Rivals(c, S))}

\* _resolve_conflicts
ResolveConflicts ==
    /\ pcA = "conflicts"
    /\ cands' = Undisputed(cands)
    /\ dropped' = dropped \union Records(cands \ Undisputed(cands), "conflict")
    /\ pcA' = "allocate"
    /\ UNCHANGED <<offered, picked>>

-----------------------------------------------------------------------------
(* The budget *)

Protected(S) == {c \in S : Guarded(c)}

\* The share of a bucket in what the protected candidates leave; a bucket without a quota may take it all.
Share(bucket, left) == IF bucket \in DOMAIN Quota THEN (left * Quota[bucket]) \div 100 ELSE left

\* The three gates of an evictable candidate.
Fitting(c, kept, left) ==
    /\ c.tokens <= SingleLimit
    /\ Tokens({o \in kept : o.bucket = c.bucket}) + c.tokens <= Share(c.bucket, left)
    /\ Tokens(kept) + c.tokens <= left

\* _allocate: protected candidates first; they alone may exhaust the budget.
Allocate ==
    /\ pcA = "allocate"
    /\ LET first == Protected(cands)
           left == Available - Tokens(first)
           more == FoldLeft(LAMBDA kept, c : IF Fitting(c, kept, left) THEN kept \union {c} ELSE kept,
                            {}, InOrder(cands \ first))
       IN IF left < 0
          THEN pcA' = "exhausted" /\ UNCHANGED <<picked, dropped>>
          ELSE /\ picked' = first \union more
               /\ dropped' = dropped \union Records(cands \ (first \union more), "budget")
               /\ pcA' = "fit"
    /\ UNCHANGED <<offered, cands>>

\* PromptAssembler.assemble: the prompt alone is sent as it is; otherwise every other candidate has a header,
\* and what is sensitive is replaced by a line.
Rendered(S) ==
    IF Cardinality(S) = 1 THEN Tokens(S)
    ELSE MapThenSumSet(LAMBDA c : (IF c.sensitive THEN 0 ELSE c.tokens) + (IF c.source = "prompt" THEN 0 ELSE HeaderTokens), S)

\* A candidate taken out of the prompt, with its record.
Cut(c) == picked' = picked \ {c} /\ dropped' = dropped \union Records({c}, "rendered")

\* _fit_rendered_budget: the weakest evictable candidate goes, one at a time.
FitRendered ==
    /\ pcA = "fit"
    /\ LET weak == {c \in picked : ~Guarded(c)}
       IN CASE Rendered(picked) <= Available -> pcA' = "done" /\ UNCHANGED <<picked, dropped>>
            [] Rendered(picked) > Available /\ weak = {} -> pcA' = "exhausted" /\ UNCHANGED <<picked, dropped>>
            [] OTHER -> Cut(Worst(weak)) /\ UNCHANGED pcA
    /\ UNCHANGED <<offered, cands>>

CaInit ==
    /\ offered \in {S \union {c \in Pool : c.source = "prompt"} : S \in SUBSET {c \in Pool : c.source # "prompt"}}
    /\ cands = {} /\ picked = {} /\ dropped = {} /\ pcA = "collect"

CaNext == Collect \/ Deduplicate \/ ResolveConflicts \/ Allocate \/ FitRendered

CaSpec == CaInit /\ [][CaNext]_caVars

-----------------------------------------------------------------------------
(* Properties of the builder *)

\* The items of the table that a snapshot should know of: those its role may see, written by its sequence.
Due(s) == {i \in table : i.from <= s.at /\ i.id.n # 0 /\ ~Barred(i) /\ VisibleTo(i, s.view) /\ ActiveAt(i, s.at)}
Superseded(i) == \E j \in table : j.replaces = i.id.n

(* No hard constraint is dropped in silence: a snapshot that exists has every protected item of its role *)
(* in full, unless a newer item supersedes it, whatever was evicted, summarised or written meanwhile.    *)
ConstraintsKept ==
    \A s \in taken : \A i \in Due(s) : i.layer = "L0" \/ i.kind = "constraint" => i \in s.items \/ Superseded(i)

(* Provenance: what was evicted is still named by the snapshot, through summaries of summaries if need   *)
(* be; an item that is in neither is one that was superseded, or one of two facts in conflict.            *)
ProvenanceKept ==
    \A s \in taken : \A i \in Due(s) :
        \/ i.id \in UNION {Absorbed[j.id] : j \in s.items}
        \/ Superseded(i)
        \/ i.kind = "fact" /\ \E j \in Due(s) \ {i} : j.kind = "fact"

(* What the first pass selected fits the budget; only the summaries of this build may go over it.        *)
SelectionFits ==
    \A s \in taken : Weight(s.items \ s.sums) <= Usable

(* Summaries are stored "otherwise the next build would re-compact the same source items" (builder.py):  *)
(* no build is about to store a summary that the table already has.                                       *)
CompactedOnce ==
    \A v \in Views : builders[v].pc = "summaries" => \A s \in NewSummaries(v) : s.id \notin IdsThere

(* A scope is kept: what only one role may see reaches no snapshot of another, not even in a summary.     *)
ScopeKept ==
    \A s \in taken : \A i \in s.items : \A o \in Absorbed[i.id] :
        \A j \in table : j.id = o => VisibleTo(j, s.view)

(* Snapshots are sound: no constraint is dropped in silence, what was evicted can be traced, the budget   *)
(* is kept, over builds of several roles that summarise each other's summaries.                           *)
SnapshotsSound == ConstraintsKept /\ ProvenanceKept /\ SelectionFits

-----------------------------------------------------------------------------
(* Properties of the assembly *)

(* The trace of an assembly accounts for every candidate that was collected, once: it is selected, or it  *)
(* is excluded for one reason.                                                                            *)
Accounted ==
    pcA = "done" => \A c \in Collected(offered) :
        Cardinality({d \in dropped : d.id = c.id}) = IF c \in picked THEN 0 ELSE 1

(* A finished prompt fits: the rendering within the budget, each bucket of evictable candidates in its     *)
(* share of what the protected ones left.                                                                 *)
PromptFits ==
    pcA = "done" =>
        /\ Rendered(picked) <= Available
        /\ \A b \in DOMAIN Quota :
              Tokens({c \in picked : ~Guarded(c) /\ c.bucket = b}) <= Share(b, Available - Tokens({c \in picked : Guarded(c)}))

(* Nothing protected is lost to the budget: it may only have a duplicate or lose a conflict.               *)
ProtectedSurvive ==
    pcA = "done" => \A c \in Collected(offered) :
        c.pinned /\ c.trust # External => c \in picked \/ \E d \in dropped : d.id = c.id /\ d.why \in {"duplicate", "conflict"}

(* One voice: of the candidates in conflict, and of those that say the same, at most one is in the prompt. *)
OneVoice ==
    pcA = "done" => \A c, o \in picked :
        c # o => ~(c.group # 0 /\ c.group = o.group) /\ ~(c.bucket = o.bucket /\ c.text = o.text)

(* "protected content cannot fit without silent deletion" is an error (ContextAssemblyBudgetExhausted): a   *)
(* prompt that is sent says what every protected candidate said, unless it lost a conflict.                *)
ProtectedTextSaid ==
    pcA = "done" => \A c \in Collected(offered) :
        c.pinned /\ c.trust # External => \/ SameText(c, picked) # {}
                                           \/ \E o \in SameText(c, Collected(offered)) : [id |-> o.id, why |-> "conflict"] \in dropped

(* A prompt is sound: it fits, what is protected survives, it contradicts and repeats nothing, and its     *)
(* trace accounts for every candidate.                                                                    *)
PromptSound == Accounted /\ PromptFits /\ ProtectedSurvive /\ OneVoice
=============================================================================
