--------------------------- MODULE ArtifactStore ---------------------------
(***************************************************************************)
(* Artifacts of a workspace (src/src/paperclaw/artifacts/store.py): their      *)
(* revisions and idempotency keys in a database that several processes share,  *)
(* their contents in files named by hash, and exports to other files           *)
(* (src/src/paperclaw/storage_safety.py).  A process may stop between any two  *)
(* steps; a write transaction that was open is then rolled back.               *)
(*                                                                          *)
(* Artifacts are numbered in the order they were created, and a content is its *)
(* own hash.  Not every file system has hard links, without which a new file   *)
(* is seen before it is complete.                                             *)
(***************************************************************************)
EXTENDS Integers, Sequences, FiniteSets

CONSTANTS
    Processes, ArtifactKeys, ArtifactContents,
    Summaries,       \* what else the digest of a request covers
    MaxArtifacts, MaxRevisions, MaxStops, MaxExports

\* What a file is while it is not written is no content.
ASSUME ArtifactAssumption == "absent" \notin ArtifactContents /\ "partial" \notin ArtifactContents

VARIABLES
    links,      \* the file system has hard links
    artifacts,  \* product_artifacts: their latest numbers
    revisions,  \* product_artifact_revisions: the contents of every artifact
    bound,      \* product_artifact_idempotency: scope key -> digest and result
    blob,       \* content -> its file
    target,     \* the file an export writes
    work,       \* every process: its call, and how far it is
    stops, exports

atVars == <<links, artifacts, revisions, bound, blob, target, work, stops, exports>>

NoWork == [at |-> "idle", request |-> [kind |-> "none"], seen |-> 0, got |-> <<>>]
Creates == [kind : {"create"}, key : ArtifactKeys, content : ArtifactContents, message : Summaries]
Revises == [kind : {"revise"}, artifact : 1..MaxArtifacts, key : ArtifactKeys, content : ArtifactContents, message : Summaries]

ScopeKey(r) == IF r.kind = "create" THEN <<"create", r.key>> ELSE <<"revise", r.artifact, r.key>>
DigestOf(r) == <<r.content, r.message>>
Locked == \E p \in Processes : work[p].at \in {"blob", "filling", "verify", "commit"}

Goes(p, at) == work' = [work EXCEPT ![p].at = at]
EndsWork(p) == work' = [work EXCEPT ![p] = NoWork]

-----------------------------------------------------------------------------
(* create_artifact and add_revision: BEGIN IMMEDIATE, and then step by step. *)

\* A key that is bound to another digest, or an artifact that is not there, ends the call.
BeginWrite(p, r) ==
    /\ work[p].at = "idle" /\ ~Locked
    /\ IF ScopeKey(r) \in DOMAIN bound THEN bound[ScopeKey(r)].digest = DigestOf(r)
       ELSE IF r.kind = "create" THEN Len(artifacts) < MaxArtifacts
       ELSE r.artifact \in DOMAIN artifacts /\ artifacts[r.artifact] < MaxRevisions
    /\ work' = [work EXCEPT ![p] = [NoWork EXCEPT !.at = "blob", !.request = r]]
    /\ UNCHANGED <<links, artifacts, revisions, bound, blob, target, stops, exports>>

\* _ensure_blob over atomic_write_bytes without overwriting
EnsureBlob(p) ==
    /\ work[p].at = "blob"
    /\ LET content == work[p].request.content
       IN  IF blob[content] # "absent" THEN Goes(p, "verify") /\ UNCHANGED blob
           ELSE /\ Goes(p, IF links THEN "verify" ELSE "filling")
                /\ blob' = [blob EXCEPT ![content] = IF links THEN "whole" ELSE "partial"]
    /\ UNCHANGED <<links, artifacts, revisions, bound, target, stops, exports>>

\* The write fails, and the file is removed again.
FillBlob(p, fails) ==
    /\ work[p].at = "filling"
    /\ blob' = [blob EXCEPT ![work[p].request.content] = IF fails THEN "absent" ELSE "whole"]
    /\ IF fails THEN EndsWork(p) ELSE Goes(p, "verify")
    /\ UNCHANGED <<links, artifacts, revisions, bound, target, stops, exports>>

\* Mutant of VerifyBlob: a file that exists is taken for the content.
TrustBlob(p) ==
    /\ work[p].at = "verify"
    /\ Goes(p, "commit")
    /\ UNCHANGED <<links, artifacts, revisions, bound, blob, target, stops, exports>>

VerifyBlob(p) ==
    /\ work[p].at = "verify"
    /\ IF blob[work[p].request.content] = "whole" THEN Goes(p, "commit") ELSE EndsWork(p)
    /\ UNCHANGED <<links, artifacts, revisions, bound, blob, target, stops, exports>>

\* Of a repeated call nothing is written.
Commit(p) ==
    /\ work[p].at = "commit"
    /\ LET r == work[p].request  key == ScopeKey(r)
           bind(result) == bound' = [k \in DOMAIN bound \cup {key} |-> IF k = key THEN [digest |-> DigestOf(r), result |-> result] ELSE bound[k]]
       IN  CASE key \in DOMAIN bound -> UNCHANGED <<artifacts, revisions, bound>>
             [] key \notin DOMAIN bound /\ r.kind = "create" ->
                    /\ artifacts' = Append(artifacts, 1) /\ revisions' = Append(revisions, <<r.content>>)
                    /\ bind(<<Len(artifacts) + 1, 1>>)
             [] key \notin DOMAIN bound /\ r.kind = "revise" ->
                    LET number == artifacts[r.artifact] + 1
                    IN  /\ artifacts' = [artifacts EXCEPT ![r.artifact] = number]
                        /\ revisions' = [revisions EXCEPT ![r.artifact] = Append(@, r.content)]
                        /\ bind(<<r.artifact, number>>)
    /\ EndsWork(p)
    /\ UNCHANGED <<links, blob, target, stops, exports>>

-----------------------------------------------------------------------------
(* Reading: two selects are two snapshots. *)

StartBundle(p, a) ==
    /\ work[p].at = "idle" /\ a \in DOMAIN artifacts
    /\ work' = [work EXCEPT ![p] = [at |-> "bundle", request |-> [kind |-> "bundle", artifact |-> a], seen |-> artifacts[a], got |-> <<>>]]
    /\ UNCHANGED <<links, artifacts, revisions, bound, blob, target, stops, exports>>

\* get_bundle; ArtifactBundle refuses revisions that are not as many as the record says.
EndBundle(p) ==
    /\ work[p].at = "bundle"
    /\ LET rows == revisions[work[p].request.artifact]
       IN  IF Len(rows) # work[p].seen THEN EndsWork(p)
           ELSE work' = [work EXCEPT ![p].at = "has bundle", ![p].got = rows]
    /\ UNCHANGED <<links, artifacts, revisions, bound, blob, target, stops, exports>>

\* read_revision for an export: a blob that is missing or not its hash ends the call.
StartExport(p, a, n, overwrite) ==
    /\ work[p].at = "idle" /\ exports < MaxExports
    /\ a \in DOMAIN artifacts /\ n \in DOMAIN revisions[a] /\ blob[revisions[a][n]] = "whole"
    /\ exports' = exports + 1
    /\ work' = [work EXCEPT ![p] = [at |-> "export", request |-> [kind |-> "export", overwrite |-> overwrite], seen |-> 0, got |-> <<revisions[a][n]>>]]
    /\ UNCHANGED <<links, artifacts, revisions, bound, blob, target, stops>>

\* atomic_write_bytes into the destination
Install(p) ==
    /\ work[p].at = "export"
    /\ IF work[p].request.overwrite \/ (links /\ target = "absent")
       THEN target' = work[p].got[1] /\ EndsWork(p)
       ELSE IF target # "absent" THEN EndsWork(p) /\ UNCHANGED target
       ELSE target' = "partial" /\ Goes(p, "writing")
    /\ UNCHANGED <<links, artifacts, revisions, bound, blob, stops, exports>>

\* What is written is the file that was created, though another may be there by now;
\* when the write fails, whatever is there is removed.
FillTarget(p, fails) ==
    /\ work[p].at = "writing"
    /\ target' = IF fails THEN "absent" ELSE IF target = "partial" THEN work[p].got[1] ELSE target
    /\ EndsWork(p)
    /\ UNCHANGED <<links, artifacts, revisions, bound, blob, stops, exports>>

Rest(p) ==
    /\ work[p].at = "has bundle"
    /\ EndsWork(p)
    /\ UNCHANGED <<links, artifacts, revisions, bound, blob, target, stops, exports>>

StopProcess(p) ==
    /\ work[p].at # "idle" /\ stops < MaxStops
    /\ stops' = stops + 1
    /\ EndsWork(p)
    /\ UNCHANGED <<links, artifacts, revisions, bound, blob, target, exports>>

-----------------------------------------------------------------------------
AsInit ==
    /\ links \in BOOLEAN
    /\ artifacts = <<>> /\ revisions = <<>> /\ bound = <<>>
    /\ blob = [c \in ArtifactContents |-> "absent"] /\ target = "absent"
    /\ work = [p \in Processes |-> NoWork] /\ stops = 0 /\ exports = 0

AsNext ==
    \E p \in Processes :
       \/ \E r \in Creates \cup Revises : BeginWrite(p, r)
       \/ EnsureBlob(p) \/ VerifyBlob(p) \/ Commit(p) \/ EndBundle(p) \/ Install(p) \/ Rest(p) \/ StopProcess(p)
       \/ \E fails \in BOOLEAN : FillBlob(p, fails) \/ FillTarget(p, fails)
       \/ \E a \in DOMAIN artifacts : \/ StartBundle(p, a)
                                      \/ \E n \in DOMAIN revisions[a], overwrite \in BOOLEAN : StartExport(p, a, n, overwrite)

AsSpec == AsInit /\ [][AsNext]_atVars

-----------------------------------------------------------------------------
(***************************************************************************)
(* Wherever a process stops: every revision's content is complete in its file; *)
(* the revisions of an artifact are 1, 2, ..., each made by one key, whose      *)
(* digest it has, so that a repeated call makes nothing new; a bundle is a      *)
(* state the artifact was in, and has not changed but by revisions after it;   *)
(* the file of an export is complete, or being written, or was left by a        *)
(* process that stopped where there are no hard links.                         *)
(***************************************************************************)
ContentsAreThere == \A a \in DOMAIN revisions : \A n \in DOMAIN revisions[a] : blob[revisions[a][n]] = "whole"
NumbersAgree == Len(artifacts) = Len(revisions) /\ \A a \in DOMAIN artifacts : artifacts[a] = Len(revisions[a])
OneKeyEach ==
    /\ \A a \in DOMAIN revisions : \A n \in DOMAIN revisions[a] :
          Cardinality({k \in DOMAIN bound : bound[k].result = <<a, n>>}) = 1
    /\ \A k \in DOMAIN bound : LET at == bound[k].result
                               IN  at[1] \in DOMAIN revisions /\ at[2] \in DOMAIN revisions[at[1]] /\ revisions[at[1]][at[2]] = bound[k].digest[1]
BundlesWere ==
    \A p \in Processes : work[p].at = "has bundle" =>
        LET rows == revisions[work[p].request.artifact]
        IN  work[p].seen = Len(work[p].got) /\ work[p].got = SubSeq(rows, 1, work[p].seen)
TargetIsWhole ==
    target = "partial" => ~links /\ (stops > 0 \/ \E p \in Processes : work[p].at = "writing")
ArtifactsSound == ContentsAreThere /\ NumbersAgree /\ OneKeyEach /\ BundlesWere /\ TargetIsWhole
=============================================================================
