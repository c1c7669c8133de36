---------------------------- MODULE DocumentIndex ----------------------------
(***************************************************************************)
(* The index of documents that retrieval reads: indexers that project the    *)
(* manifest a change leads to and then commit both                           *)
(* (src/src/paperclaw/retrieval/incremental.py, _store.py, registry.py), the *)
(* maintainer that inspects and rebuilds the search rows (integrity.py),     *)
(* and readers that turn matches into cited evidence (query.py,              *)
(* context_source.py).                                                       *)
(*                                                                          *)
(* A content is the set of paragraphs a source holds; a version of a         *)
(* document is the document with a content; a hash is what it is the hash   *)
(* of, so a manifest's corpus_hash is the set of the active chunks.          *)
(***************************************************************************)
EXTENDS Integers, Sequences, FiniteSets

CONSTANTS
    Docs, Contents,
    Parser,         \* the parser a document's media type selects
    Indexers,
    ConfigOf,       \* the chunk configuration of an indexer, "whole" or "split"
    TopK, PoolSize, MinCandidates, MinDocuments,
    MaxTries        \* calls of the indexers and the maintainer, queries and damages together

VARIABLES
    store,         \* documents, versions, chunks, search rows and manifests
    ix,         \* each indexer between its reads and its transaction
    keeper,     \* the maintainer: step and what it inspected
    reader,     \* a query of the context source
    harmed,     \* history: the search rows were damaged, and not rebuilt
    tries       \* how many of them there were

ixVars == <<store, ix, keeper, reader, harmed, tries>>
restVars == <<store, keeper, reader, harmed>>
indexVars == <<store, ix, harmed, tries>>

Version == Docs \X Contents
\* parse and build_chunks: the blocks of the source grouped up to the limit of the
\* configuration; a source with no text has no chunks.
Chunk(v, k, t) == [doc |-> v[1], content |-> v[2], config |-> k, text |-> t]
ChunksOf(v, k) ==
    {Chunk(v, k, t) : t \in IF k = "whole" THEN {v[2]} \ {{}} ELSE {{p} : p \in v[2]}}

ParserOf(v) == Parser[v[1]]
VersionOf(c) == <<c.doc, c.content>>
Live(d) == store.docs[d] = "live"
ActiveOf(d) == {v \in store.active : v[1] = d}

NoManifest == [config |-> "none", parsers |-> {}, counts |-> <<0, 0, 0>>, corpus |-> {}]
LatestManifest(list) == IF list = <<>> THEN NoManifest ELSE list[Len(list)]

\* IndexManifest.create: the id is the hash of all of it.
Manifest(config, parsers, documents, versions, corpus) ==
    [config |-> config, parsers |-> parsers,
     counts |-> <<documents, versions, Cardinality(corpus)>>, corpus |-> corpus]

\* A manifest with the same id moves to the end.
Recorded(list, mf) == Append(SelectSeq(list, LAMBDA x : x # mf), mf)

-----------------------------------------------------------------------------
(* An indexer: reads outside a transaction, then one transaction *)

NoPlan == [pc |-> "idle", op |-> "none", ver |-> <<>>, seen |-> FALSE, corpus |-> {}, mf |-> NoManifest]

Another == tries < MaxTries /\ tries' = tries + 1

\* index_bytes up to get_active_version: the content that is active already is a noop.
IndexBytes(i, v) ==
    /\ ix[i].pc = "idle" /\ Another
    /\ v \notin store.active
    /\ ix' = [ix EXCEPT ![i] = [NoPlan EXCEPT !.pc = "look", !.op = "put", !.ver = v]]
    /\ UNCHANGED restVars

LookForDocument(i) ==
    /\ ix[i].pc = "look"
    /\ ix' = [ix EXCEPT ![i].pc = "entries", ![i].seen = store.docs[ix[i].ver[1]] # "none"]
    /\ UNCHANGED <<restVars, tries>>

\* delete_document; which content is written here plays no part.
DeleteDocument(i, d) ==
    /\ ix[i].pc = "idle" /\ Another
    /\ store.docs[d] # "none"
    /\ ix' = [ix EXCEPT ![i] = [NoPlan EXCEPT !.pc = "entries", !.op = "delete", !.ver = <<d, {}>>]]
    /\ UNCHANGED restVars

NewChunks(i) == IF ix[i].op = "put" THEN ChunksOf(ix[i].ver, ConfigOf[i]) ELSE {}

\* project_manifest, first half: the chunks of the other documents and the new ones.
\* Mixed configurations, or a configuration that is not the corpus's, end the call.
ProjectEntries(i) ==
    /\ ix[i].pc = "entries"
    /\ LET corpus == {c \in store.chunks : c.doc # ix[i].ver[1]} \cup NewChunks(i)
       IN  ix' = [ix EXCEPT ![i] = IF Cardinality({c.config : c \in corpus}) > 1 THEN NoPlan
                                   ELSE [@ EXCEPT !.pc = "counts", !.corpus = corpus]]
    /\ UNCHANGED <<restVars, tries>>

\* The configuration of the corpus, or the caller's when there is no chunk.
ConfigFor(corpus, otherwise) ==
    IF corpus = {} THEN otherwise ELSE (CHOOSE c \in corpus : TRUE).config

\* project_manifest, second half: parsers and counts, read after the entries.
ProjectCounts(i) ==
    /\ ix[i].pc = "counts"
    /\ LET d == ix[i].ver[1]
           others == {v \in store.active : v[1] # d}
           more == IF ix[i].op = "put" THEN 1 ELSE 0
           parsers == {ParserOf(v) : v \in others} \cup (IF ix[i].op = "put" THEN {Parser[d]} ELSE {})
       IN  ix' = [ix EXCEPT ![i].pc = "commit",
                            ![i].mf = Manifest(ConfigFor(ix[i].corpus, ConfigOf[i]), parsers,
                                               Cardinality({x \in Docs \ {d} : Live(x)}) + more,
                                               Cardinality(others) + more, ix[i].corpus)]
    /\ UNCHANGED <<restVars, tries>>

\* Mutant of CorpusMatches: the corpus hash is not compared.
CorpusIgnored(new, mf) == TRUE

\* _active_corpus_hash, as the transaction has left the database.
CorpusMatches(new, mf) == mf.corpus = new.chunks

\* _insert_manifest_after_count_check.
ManifestHolds(new, mf) ==
    /\ mf.counts = <<Cardinality({d \in Docs : new.docs[d] = "live"}), Cardinality(new.active),
                     Cardinality(new.chunks)>>
    /\ Cardinality(new.fts) = mf.counts[3]
    /\ {c.config : c \in new.chunks} \subseteq {mf.config}
    /\ mf.parsers = {ParserOf(v) : v \in new.active}
    /\ CorpusMatches(new, mf)

\* What a document loses when it is replaced or deleted.
Without(d) ==
    [store EXCEPT !.active = {v \in @ : v[1] # d}, !.chunks = {c \in @ : c.doc # d},
               !.fts = {r \in @ : r[1].doc # d}]

\* _insert_version_bundle.
WithVersion(base, v, chunks) ==
    [base EXCEPT !.docs[v[1]] = "live", !.ever = @ \cup {v}, !.active = @ \cup {v},
                 !.chunks = @ \cup chunks, !.fts = @ \cup {<<c, 1>> : c \in chunks}]

\* add_document for a document that is there, update_document with a version that was
\* ever stored, and delete_document of what is not live raise.
Refused(i) ==
    LET v == ix[i].ver
    IN  IF ix[i].op = "delete" THEN ~Live(v[1])
        ELSE IF ix[i].seen THEN v \in store.ever
        ELSE store.docs[v[1]] # "none"

\* update_document takes the search rows of the active versions away, delete_document
\* those of the document; what add_document would take away is not there.
Changed(i) ==
    LET d == ix[i].ver[1]
    IN  IF ix[i].op = "delete" THEN [Without(d) EXCEPT !.docs[d] = "deleted"]
        ELSE WithVersion(IF ix[i].seen THEN [Without(d) EXCEPT !.fts = {r \in store.fts : VersionOf(r[1]) \notin ActiveOf(d)}]
                         ELSE store, ix[i].ver, NewChunks(i))

\* add_document, update_document or delete_document: all of it or nothing.
CommitChange(i) ==
    /\ ix[i].pc = "commit"
    /\ LET new == Changed(i)
       IN  store' = IF Refused(i) \/ ~ManifestHolds(new, ix[i].mf) THEN store
                 ELSE [new EXCEPT !.manifests = Recorded(@, ix[i].mf)]
    /\ ix' = [ix EXCEPT ![i] = NoPlan]
    /\ reader' = [reader EXCEPT !.overtaken = @ \/ (store' # store /\ reader.pc = "manifest")]
    /\ UNCHANGED <<keeper, harmed, tries>>

-----------------------------------------------------------------------------
(* The maintainer *)

AtRest == [pc |-> "idle", rows |-> <<>>, intact |-> TRUE, said |-> "none"]

\* Rows of the search table that are missing, stale or there twice.
Intact == store.fts = {<<c, 1>> : c \in store.chunks}

\* inspect reads chunks and search rows first, counts and manifest later.
InspectRows(step) ==
    /\ keeper' = [keeper EXCEPT !.pc = step, !.rows = store.chunks, !.intact = Intact]
    /\ UNCHANGED <<store, ix, reader, harmed>>

Broken ==
    \/ ~keeper.intact
    \/ store.manifests = <<>>
    \/ LatestManifest(store.manifests).counts # <<Cardinality({d \in Docs : Live(d)}), Cardinality(store.active),
                                   Cardinality(store.chunks)>>
    \/ LatestManifest(store.manifests).corpus # keeper.rows

Inspect == keeper.pc = "idle" /\ Another /\ InspectRows("before")

\* rebuild, not forced, leaves an index alone that is not broken.
InspectManifest ==
    /\ keeper.pc = "before"
    /\ keeper' = IF Broken THEN [keeper EXCEPT !.pc = "rebuild"] ELSE [AtRest EXCEPT !.said = "healthy"]
    /\ UNCHANGED <<indexVars, reader>>

\* current_manifest and the transaction that writes the search rows anew.
Rebuild ==
    /\ keeper.pc = "rebuild"
    /\ LET config == ConfigFor(store.chunks, IF store.manifests = <<>> THEN "whole" ELSE LatestManifest(store.manifests).config)
           mf == Manifest(config, {ParserOf(v) : v \in store.active}, Cardinality({d \in Docs : Live(d)}),
                          Cardinality(store.active), store.chunks)
       IN  store' = [store EXCEPT !.fts = {<<c, 1>> : c \in store.chunks}, !.manifests = Recorded(@, mf)]
    /\ keeper' = [keeper EXCEPT !.pc = "rebuilt"]
    /\ harmed' = FALSE
    /\ reader' = [reader EXCEPT !.overtaken = @ \/ (store' # store /\ reader.pc = "manifest")]
    /\ UNCHANGED <<ix, tries>>

InspectAgain == keeper.pc = "rebuilt" /\ InspectRows("after") /\ UNCHANGED tries

\* A rebuilt index that looks broken, because a writer came between, raises.
Report ==
    /\ keeper.pc = "after"
    /\ keeper' = [AtRest EXCEPT !.said = IF Broken THEN "raised" ELSE "rebuilt"]
    /\ UNCHANGED <<indexVars, reader>>

\* Search rows are lost, doubled, or left from a version that is not active.
Damage ==
    /\ Another
    /\ \/ \E r \in store.fts : store' = [store EXCEPT !.fts = @ \ {r}]
       \/ \E r \in store.fts : store' = [store EXCEPT !.fts = @ \cup {<<r[1], 2>>}]
       \/ \E v \in store.ever \ store.active : \E c \in ChunksOf(v, "whole") :
              store' = [store EXCEPT !.fts = @ \cup {<<c, 1>>}]
    /\ store' # store
    /\ harmed' = TRUE
    /\ UNCHANGED <<ix, keeper, reader>>

-----------------------------------------------------------------------------
(* The context source and its query: two reads, no transaction *)

NoQuery == [pc |-> "idle", mf |-> NoManifest, anchors |-> {}, overtaken |-> FALSE]
Answered(status, found) == [reader EXCEPT !.pc = status, !.anchors = found]

\* _current_manifest: without one, an empty corpus answers nothing and another is broken.
ReadManifest ==
    /\ reader.pc = "idle" /\ Another
    /\ reader' = IF store.manifests # <<>> THEN [reader EXCEPT !.pc = "manifest", !.mf = LatestManifest(store.manifests)]
                 ELSE Answered(IF store.chunks = {} THEN "insufficient" ELSE "broken", {})
    /\ UNCHANGED <<store, ix, harmed, keeper>>

\* _row_is_active: a row whose chunk, version and document are active.
RowIsActive(r) == r[1] \in store.chunks /\ VersionOf(r[1]) \in store.active /\ Live(r[1].doc)

\* The rows of the pool that are active, one for each text, up to top_k, in some rank.
Pools == {P \in SUBSET store.fts : Cardinality(P) <= PoolSize /\ (Cardinality(P) = PoolSize \/ P = store.fts)}
Unrepeated(A) == \A a, b \in A : a.text = b.text => a = b
Selections(P) ==
    LET found == {r[1] : r \in {x \in P : RowIsActive(x)}}
    IN  {A \in SUBSET found :
            /\ Unrepeated(A) /\ Cardinality(A) <= TopK
            /\ Cardinality(A) = TopK \/ {a.text : a \in A} = {c.text : c \in found}}

\* RetrievalGroundingPolicy: too little evidence is an instruction to abstain.
Enough(A) == Cardinality(A) >= MinCandidates /\ Cardinality({a.doc : a \in A}) >= MinDocuments

\* query's join and collect, which anchors each candidate to the manifest read before.
ReadRows ==
    /\ reader.pc = "manifest"
    /\ \E P \in Pools : \E A \in Selections(P) :
           reader' = IF Enough(A) THEN Answered("answerable", A) ELSE Answered("insufficient", {})
    /\ UNCHANGED <<indexVars, keeper>>

QueryAgain ==
    /\ reader.pc \in {"answerable", "insufficient", "broken"}
    /\ reader' = NoQuery
    /\ UNCHANGED <<indexVars, keeper>>

-----------------------------------------------------------------------------
IxInit ==
    /\ store = [docs |-> [d \in Docs |-> "none"], ever |-> {}, active |-> {}, chunks |-> {}, fts |-> {},
             manifests |-> <<>>]
    /\ ix = [i \in Indexers |-> NoPlan]
    /\ keeper = AtRest
    /\ reader = NoQuery
    /\ harmed = FALSE
    /\ tries = 0

IxNext ==
    \/ \E i \in Indexers :
          \/ \E v \in Version : IndexBytes(i, v)
          \/ \E d \in Docs : DeleteDocument(i, d)
          \/ LookForDocument(i) \/ ProjectEntries(i) \/ ProjectCounts(i) \/ CommitChange(i)
    \/ Inspect \/ InspectManifest \/ Rebuild \/ InspectAgain \/ Report \/ Damage
    \/ ReadManifest \/ ReadRows \/ QueryAgain

IxSpec == IxInit /\ [][IxNext]_ixVars

-----------------------------------------------------------------------------
(***************************************************************************)
(* However two indexers, a rebuild and a query cross: a live document has     *)
(* exactly one active version and any other none; the active chunks are       *)
(* those of the active versions, whole and of one configuration; the latest   *)
(* manifest is the manifest of the active corpus; a search table nobody       *)
(* damaged holds each active chunk once; and an answer that nothing overtook  *)
(* cites only chunks of the corpus it names.                                  *)
(***************************************************************************)
OneActiveVersion == \A d \in Docs : Cardinality(ActiveOf(d)) = (IF Live(d) THEN 1 ELSE 0)
ChunksAreOfActive ==
    \/ store.chunks = {} /\ \A v \in store.active : v[2] = {}
    \/ \E k \in {"whole", "split"} : store.chunks = UNION {ChunksOf(v, k) : v \in store.active}
ManifestIsCurrent ==
    store.manifests # <<>> =>
        /\ LatestManifest(store.manifests).corpus = store.chunks
        /\ LatestManifest(store.manifests).parsers = {ParserOf(v) : v \in store.active}
        /\ LatestManifest(store.manifests).counts[1] = Cardinality({d \in Docs : Live(d)})
SearchIsComplete == harmed \/ Intact
CitedFromCorpus ==
    reader.pc = "answerable" => (reader.overtaken \/ reader.anchors \subseteq reader.mf.corpus)
IndexSound ==
    OneActiveVersion /\ ChunksAreOfActive /\ ManifestIsCurrent /\ SearchIsComplete /\ CitedFromCorpus
=============================================================================
