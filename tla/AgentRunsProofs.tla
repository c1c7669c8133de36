-------------------------- MODULE AgentRunsProofs ----------------------------
(***************************************************************************)
(* Proofs about one agent at work: the tools of workers that share files    *)
(* write what they may and lose nothing, a run of the agent loop reports    *)
(* only what is so, plan mode executes what was approved, and the answers of*)
(* MCP and LSP servers reach the calls they are of. Workers, files, scopes, *)
(* goals, budgets, planners, answers, and the tools and threads of a        *)
(* connection are arbitrary.                                                *)
(***************************************************************************)
EXTENDS ScopedTools, AgentRuns, PlanMode, McpClient, LspClient, FiniteSetTheorems, TLAPS

-----------------------------------------------------------------------------
(* The workers' tools: what the state holds *)

\* Whoever can have written a file, the calls workers ask for, and the rows of workers.
Hands == Workers \cup {"outside", "unchecked"}
Asked == [kind : {"none", "dangerous", "unknown", "shell", "file_write", "file_edit"},
          targets : SUBSET Files, hash : {"none", "new", "fresh", "stale"}, keyed : BOOLEAN]
Working == {"lease", "verify", "replace", "spawn", "shell"}
WorkerRows == [pc : Working \cup {"idle", "ended"}, call : Asked, calls : Nat, hard : BOOLEAN,
               status : {"none", "completed", "failed", "cancelled"}, wrote : SUBSET Files]

\* Every variable has its type.
WsTypes ==
    /\ file \in [Files -> [exists : BOOLEAN, by : Hands]]
    /\ leased \in [Files -> Workers \cup {Nobody}]
    /\ seen \in [Workers -> [Files -> {"never", "fresh", "stale"}]]
    /\ w \in [Workers -> WorkerRows]
    /\ ledger \in [Workers -> {"empty", "refused", "result"}]
    /\ stop \subseteq Workers
    /\ ran \in [Workers -> 0..1]

\* What a worker has in hand is a call it may make, with a single file when it is an edit;
\* one that has ended has a status.
CallInHand ==
    \A t \in Workers :
        /\ w[t].pc \in Working =>
              /\ w[t].call.kind # "none" /\ w[t].calls < MaxCalls[t] /\ w[t].status = "none"
              /\ w[t].call.kind = "unknown" => t \in FullScope
              /\ IsEdit(w[t].call) => \E f \in Files : w[t].call.targets = {f}
        /\ w[t].pc \in {"verify", "replace"} => IsEdit(w[t].call)
        /\ w[t].pc \notin Working => w[t].call = NoCall
        /\ w[t].pc = "ended" <=> w[t].status # "none"
        /\ w[t].calls <= MaxCalls[t]

\* Past the leases a call holds all its targets, and a lease is only ever of a file
\* its task may write.
TargetsHeld ==
    /\ \A t \in Workers : w[t].pc \in Working \ {"lease"} =>
           \A f \in w[t].call.targets : leased[f] = t
    /\ \A f \in Files : leased[f] # Nobody =>
           f \in Writable[leased[f]] /\ w[leased[f]].pc # "ended"

\* A worker that is about to replace a file whose hash has changed since the comparison
\* replaces what came from outside the team.
OnlyOthersBetween ==
    \A t \in Workers, f \in Files :
        w[t].pc = "replace" /\ f \in w[t].call.targets /\ w[t].call.hash = "stale" =>
            file[f].by \notin Workers

\* A keyed call that ran is in the ledger or still in hand.
KeyIsKept ==
    \A t \in Workers : ran[t] = 1 => ledger[t] # "empty" \/ w[t].call.keyed

\* The inductive invariant of the workers' tools.
WsInv == /\ WsTypes /\ CallInHand /\ TargetsHeld /\ OnlyOthersBetween /\ KeyIsKept /\ NoPaperedRefusal

-----------------------------------------------------------------------------
(* The workers' tools: operations *)

\* The end of a call frees its worker and changes no other one.
LEMMA CallOverShape ==
    ASSUME WsTypes, NEW t \in Workers, NEW error
    PROVE  /\ CallOver(t, error) \in [Workers -> WorkerRows]
           /\ \A u \in Workers \ {t} : CallOver(t, error)[u] = w[u]
           /\ CallOver(t, error)[t].pc = "idle" /\ CallOver(t, error)[t].call = NoCall
           /\ CallOver(t, error)[t].status = w[t].status
           /\ CallOver(t, error)[t].calls = w[t].calls + 1
<1>1. NoCall \in Asked
  BY DEF NoCall, Asked
<1>2. w \in [Workers -> WorkerRows] /\ w[t] \in WorkerRows
  BY DEF WsTypes
<1> DEFINE hard == w[t].hard \/ error \in HardErrors
           calls == w[t].calls + 1
           row == [w[t] EXCEPT !.pc = "idle", !.calls = calls, !.hard = hard,
                               !.call = NoCall, !.wrote = {}]
<1>3. CallOver(t, error) = [w EXCEPT ![t] = row]
  BY DEF CallOver
<1>4. hard \in BOOLEAN
  <2>1. \A a \in BOOLEAN : (a \/ error \in HardErrors) \in BOOLEAN
    OBVIOUS
  <2>2. w[t].hard \in BOOLEAN
    BY <1>2 DEF WorkerRows
  <2> QED BY <2>1, <2>2, Zenon
<1>5. calls \in Nat /\ calls = w[t].calls + 1
  BY <1>2 DEF WorkerRows
<1> HIDE DEF hard, calls
<1>6. row \in WorkerRows
  BY <1>1, <1>2, <1>4, <1>5 DEF WorkerRows
<1>7. row.pc = "idle" /\ row.call = NoCall /\ row.status = w[t].status /\ row.calls = calls
  BY <1>2 DEF WorkerRows
<1> HIDE DEF row
<1> QED BY <1>2, <1>3, <1>5, <1>6, <1>7

\* So does a call that ends with an error or a result: the ledger keeps a keyed one.
LEMMA OverShape ==
    ASSUME WsTypes, NEW t \in Workers, NEW error, Over(t, error)
    PROVE  /\ w' \in [Workers -> WorkerRows] /\ ledger' \in [Workers -> {"empty", "refused", "result"}]
           /\ \A u \in Workers \ {t} : w'[u] = w[u] /\ ledger'[u] = ledger[u]
           /\ w'[t].pc = "idle" /\ w'[t].call = NoCall
           /\ w'[t].status = w[t].status /\ w'[t].calls = w[t].calls + 1
           /\ w[t].call.keyed => ledger'[t] # "empty"
           /\ ~w[t].call.keyed => ledger'[t] = ledger[t]
<1>1. Kept(error) \in {"refused", "result"}
  BY DEF Kept
<1>2. w' = CallOver(t, error)
  BY DEF Over
<1>3. ledger' = [ledger EXCEPT ![t] = IF w[t].call.keyed THEN Kept(error) ELSE @]
  BY DEF Over, Recorded
<1>4. ledger \in [Workers -> {"empty", "refused", "result"}]
  BY DEF WsTypes
<1> QED BY <1>1, <1>2, <1>3, <1>4, CallOverShape

\* A write gives the file its writer, and turns fresh hashes of it stale, those of calls
\* in hand included.
LEMMA WriteShape ==
    ASSUME WsTypes, NEW f \in Files, NEW who \in Hands, NEW ws \in [Workers -> WorkerRows],
           WriteFile(f, who, ws)
    PROVE  /\ file' \in [Files -> [exists : BOOLEAN, by : Hands]]
           /\ file'[f].by = who /\ \A g \in Files \ {f} : file'[g] = file[g]
           /\ seen' \in [Workers -> [Files -> {"never", "fresh", "stale"}]]
           /\ w' \in [Workers -> WorkerRows]
           /\ \A t \in Workers :
                /\ w'[t].pc = ws[t].pc /\ w'[t].calls = ws[t].calls /\ w'[t].hard = ws[t].hard
                /\ w'[t].status = ws[t].status
                /\ w'[t].call.kind = ws[t].call.kind /\ w'[t].call.targets = ws[t].call.targets
                /\ w'[t].call.keyed = ws[t].call.keyed
                /\ f \notin ws[t].call.targets => w'[t] = ws[t]
<1>1. file' = [file EXCEPT ![f] = [exists |-> TRUE, by |-> who]]
  BY DEF WriteFile
<1>2. file' \in [Files -> [exists : BOOLEAN, by : Hands]] /\ file'[f].by = who
      /\ \A g \in Files \ {f} : file'[g] = file[g]
  BY <1>1 DEF WsTypes
<1>3. seen' \in [Workers -> [Files -> {"never", "fresh", "stale"}]]
  <2>1. \A t \in Workers : seen[t] \in [Files -> {"never", "fresh", "stale"}]
    BY DEF WsTypes
  <2>2. \A t \in Workers : [seen[t] EXCEPT ![f] = IF @ = "fresh" THEN "stale" ELSE @]
                               \in [Files -> {"never", "fresh", "stale"}]
    BY <2>1
  <2> QED BY <2>2 DEF WriteFile
<1>4. w' = [t \in Workers |->
                IF f \in ws[t].call.targets /\ ws[t].call.hash = "fresh"
                THEN [ws[t] EXCEPT !.call.hash = "stale"] ELSE ws[t]]
  BY DEF WriteFile
<1>5. ASSUME NEW t \in Workers
      PROVE  LET r == [ws[t] EXCEPT !.call.hash = "stale"]
             IN  /\ r \in WorkerRows
                 /\ r.pc = ws[t].pc /\ r.calls = ws[t].calls /\ r.hard = ws[t].hard
                 /\ r.status = ws[t].status
                 /\ r.call.kind = ws[t].call.kind /\ r.call.targets = ws[t].call.targets
                 /\ r.call.keyed = ws[t].call.keyed
  BY DEF WorkerRows, Asked
<1>6. w' \in [Workers -> WorkerRows]
  BY <1>4, <1>5
<1> QED BY <1>2, <1>3, <1>4, <1>5, <1>6

-----------------------------------------------------------------------------
(* The workers' tools: steps *)

\* A worker that is idle or has ended has no call, and one with a call has no status.
LEMMA OverKeeps ==
    ASSUME WsInv, NEW t \in Workers, w[t].pc \in Working, NEW error, Over(t, error),
           stop' \subseteq Workers, UNCHANGED <<file, leased, seen, ran>>
    PROVE  WsInv'
<1>1. WsTypes
  BY DEF WsInv
<1>2. /\ w' \in [Workers -> WorkerRows] /\ ledger' \in [Workers -> {"empty", "refused", "result"}]
      /\ \A u \in Workers \ {t} : w'[u] = w[u] /\ ledger'[u] = ledger[u]
      /\ w'[t].pc = "idle" /\ w'[t].call = NoCall
      /\ w'[t].status = w[t].status /\ w'[t].calls = w[t].calls + 1
      /\ w[t].call.keyed => ledger'[t] # "empty"
      /\ ~w[t].call.keyed => ledger'[t] = ledger[t]
  BY <1>1, OverShape
<1>3. WsTypes'
  BY <1>1, <1>2 DEF WsTypes
<1>4. CallInHand'
  <2>1. w[t].status = "none" /\ w[t].calls < MaxCalls[t] /\ w[t].calls \in Nat /\ MaxCalls[t] \in Nat
    BY <1>1, WsAssumption DEF WsInv, CallInHand, WsTypes, WorkerRows
  <2>2. w'[t].calls <= MaxCalls[t]
    BY <2>1, <1>2
  <2> QED BY <1>2, <2>1, <2>2 DEF WsInv, CallInHand, Working, IsEdit, NoCall
<1>5. TargetsHeld'
  <2>1. \A f \in Files : leased[f] # Nobody => leased[f] \in Workers
    BY <1>1 DEF WsTypes
  <2> QED BY <1>2, <2>1 DEF WsInv, TargetsHeld, Working
<1>6. OnlyOthersBetween'
  BY <1>2 DEF WsInv, OnlyOthersBetween
<1>7. KeyIsKept'
  BY <1>2 DEF WsInv, KeyIsKept
<1>8. NoPaperedRefusal'
  BY <1>2 DEF WsInv, NoPaperedRefusal, CallInHand
<1> QED BY <1>3, <1>4, <1>5, <1>6, <1>7, <1>8 DEF WsInv

\* A new phase of the call in hand changes nothing else of its worker.
LEMMA PhaseKeeps ==
    ASSUME WsInv, NEW t \in Workers, w[t].pc \in Working, NEW pc \in Working,
           w' = [w EXCEPT ![t].pc = pc],
           leased' \in [Files -> Workers \cup {Nobody}],
           pc \in {"verify", "replace"} => IsEdit(w[t].call),
           pc # "lease" => \A f \in w[t].call.targets : leased'[f] = t,
           \A f \in Files : \/ leased'[f] = leased[f]
                            \/ leased[f] = Nobody /\ leased'[f] = t /\ f \in Writable[t],
           pc = "replace" => w[t].call.hash # "stale",
           UNCHANGED <<file, seen, ledger, stop, ran>>
    PROVE  WsInv'
<1>1. w \in [Workers -> WorkerRows] /\ w[t] \in WorkerRows
  BY DEF WsInv, WsTypes
<1>2. [w[t] EXCEPT !.pc = pc] \in WorkerRows
  BY <1>1 DEF WorkerRows
<1>3. /\ w' \in [Workers -> WorkerRows]
      /\ \A u \in Workers \ {t} : w'[u] = w[u]
      /\ w'[t].pc = pc /\ w'[t].call = w[t].call /\ w'[t].status = w[t].status
      /\ w'[t].calls = w[t].calls /\ w'[t].hard = w[t].hard
  <2>1. w' = [w EXCEPT ![t] = [w[t] EXCEPT !.pc = pc]]
    BY <1>1 DEF WorkerRows
  <2>2. LET r == [w[t] EXCEPT !.pc = pc]
        IN  /\ r.pc = pc /\ r.call = w[t].call /\ r.status = w[t].status
            /\ r.calls = w[t].calls /\ r.hard = w[t].hard
    BY <1>1 DEF WorkerRows
  <2> QED BY <1>1, <1>2, <2>1, <2>2
<1>4. WsTypes'
  BY <1>3 DEF WsInv, WsTypes
<1>5. CallInHand'
  BY <1>3 DEF WsInv, CallInHand, Working
<1>6. TargetsHeld'
  <2>1. ASSUME NEW u \in Workers, w'[u].pc \in Working \ {"lease"}, NEW f \in w'[u].call.targets
        PROVE  leased'[f] = u
    <3>1. CASE u = t
      BY <3>1, <2>1, <1>3
    <3>2. CASE u # t
      <4>1. f \in w[u].call.targets /\ leased[f] = u /\ f \in Files
        BY <3>2, <2>1, <1>1, <1>3 DEF WsInv, TargetsHeld, WorkerRows, Asked
      <4>2. u # Nobody
        BY WsAssumption
      <4> QED BY <4>1, <4>2
    <3> QED BY <3>1, <3>2
  <2>2. ASSUME NEW f \in Files, leased'[f] # Nobody
        PROVE  f \in Writable[leased'[f]] /\ w'[leased'[f]].pc # "ended"
    <3>1. CASE leased'[f] = leased[f]
      <4>1. leased[f] \in Workers
        BY <3>1, <2>2 DEF WsInv, WsTypes
      <4> QED BY <3>1, <4>1, <2>2, <1>3 DEF WsInv, TargetsHeld, Working
    <3>2. CASE leased'[f] = t /\ f \in Writable[t]
      BY <3>2, <1>3 DEF Working
    <3> QED BY <3>1, <3>2
  <2> QED BY <2>1, <2>2 DEF TargetsHeld
<1>7. OnlyOthersBetween'
  BY <1>3 DEF WsInv, OnlyOthersBetween
<1>8. KeyIsKept'
  BY <1>3 DEF WsInv, KeyIsKept
<1>9. NoPaperedRefusal'
  BY <1>3 DEF WsInv, NoPaperedRefusal
<1> QED BY <1>4, <1>5, <1>6, <1>7, <1>8, <1>9 DEF WsInv

\* A write by a worker that holds the file, by an unchecked command or from outside.
LEMMA WriteKeeps ==
    ASSUME WsInv, NEW f \in Files, NEW who \in Hands, NEW ws \in [Workers -> WorkerRows],
           WriteFile(f, who, ws),
           who \in Workers => leased[f] = who /\ w[who].pc # "replace",
           \A t \in Workers : /\ ws[t].pc = w[t].pc /\ ws[t].calls = w[t].calls /\ ws[t].hard = w[t].hard
                              /\ ws[t].status = w[t].status /\ ws[t].call = w[t].call,
           UNCHANGED <<leased, ledger, stop, ran>>
    PROVE  WsInv'
<1>1. WsTypes /\ \A t \in Workers : w[t] \in WorkerRows
  BY DEF WsInv, WsTypes
<1>2. /\ file' \in [Files -> [exists : BOOLEAN, by : Hands]]
      /\ file'[f].by = who /\ \A g \in Files \ {f} : file'[g] = file[g]
      /\ seen' \in [Workers -> [Files -> {"never", "fresh", "stale"}]]
      /\ w' \in [Workers -> WorkerRows]
      /\ \A t \in Workers :
            /\ w'[t].pc = w[t].pc /\ w'[t].calls = w[t].calls /\ w'[t].hard = w[t].hard
            /\ w'[t].status = w[t].status
            /\ w'[t].call.kind = w[t].call.kind /\ w'[t].call.targets = w[t].call.targets
            /\ w'[t].call.keyed = w[t].call.keyed
            /\ f \notin w[t].call.targets => w'[t].call = w[t].call
  BY <1>1, WriteShape
<1>3. WsTypes'
  BY <1>1, <1>2 DEF WsTypes
<1>4. CallInHand'
  <2> SUFFICES ASSUME NEW t \in Workers
               PROVE  /\ w'[t].pc \in Working =>
                            /\ w'[t].call.kind # "none" /\ w'[t].calls < MaxCalls[t] /\ w'[t].status = "none"
                            /\ w'[t].call.kind = "unknown" => t \in FullScope
                            /\ IsEdit(w'[t].call) => \E g \in Files : w'[t].call.targets = {g}
                      /\ w'[t].pc \in {"verify", "replace"} => IsEdit(w'[t].call)
                      /\ w'[t].pc \notin Working => w'[t].call = NoCall
                      /\ w'[t].pc = "ended" <=> w'[t].status # "none"
                      /\ w'[t].calls <= MaxCalls[t]
    BY DEF CallInHand, IsEdit
  <2>1. IsEdit(w'[t].call) <=> IsEdit(w[t].call)
    BY <1>2 DEF IsEdit
  <2>2. w[t].pc \notin Working => f \notin w[t].call.targets
    BY DEF WsInv, CallInHand, NoCall
  <2>3. ASSUME w[t].pc \in Working
        PROVE  /\ w'[t].call.kind # "none" /\ w'[t].calls < MaxCalls[t] /\ w'[t].status = "none"
               /\ w'[t].call.kind = "unknown" => t \in FullScope
               /\ IsEdit(w'[t].call) => \E g \in Files : w'[t].call.targets = {g}
    <3>1. /\ w[t].call.kind # "none" /\ w[t].calls < MaxCalls[t] /\ w[t].status = "none"
          /\ w[t].call.kind = "unknown" => t \in FullScope
          /\ IsEdit(w[t].call) => \E g \in Files : w[t].call.targets = {g}
      BY <2>3 DEF WsInv, CallInHand
    <3> QED BY <1>2, <2>1, <3>1
  <2>4. w[t].pc \in {"verify", "replace"} => IsEdit(w'[t].call)
    BY <2>1 DEF WsInv, CallInHand
  <2>5. w[t].pc \notin Working => w'[t].call = NoCall
    BY <1>2, <2>2 DEF WsInv, CallInHand
  <2>6. w'[t].pc = "ended" <=> w'[t].status # "none"
    BY <1>2 DEF WsInv, CallInHand
  <2>7. w'[t].calls <= MaxCalls[t]
    BY <1>2 DEF WsInv, CallInHand
  <2>8. w'[t].pc = w[t].pc
    BY <1>2
  <2> QED BY <2>3, <2>4, <2>5, <2>6, <2>7, <2>8
<1>5. TargetsHeld'
  <2>1. \A g \in Files : leased[g] # Nobody => leased[g] \in Workers
    BY <1>1 DEF WsTypes
  <2> QED BY ZenonT(40), <1>2, <2>1 DEF WsInv, TargetsHeld
<1>6. OnlyOthersBetween'
  <2>1. ASSUME NEW t \in Workers, w[t].pc = "replace", f \in w[t].call.targets
        PROVE  who \notin Workers
    <3>1. leased[f] = t
      BY <2>1 DEF WsInv, TargetsHeld, Working
    <3> QED BY <2>1, <3>1
  <2>2. ASSUME NEW t \in Workers, w[t].pc = "replace", NEW g \in w[t].call.targets, g # f
        PROVE  f \notin w[t].call.targets
    BY <2>2 DEF WsInv, CallInHand, Working
  <2> SUFFICES ASSUME NEW t \in Workers, NEW g \in Files, w'[t].pc = "replace",
                      g \in w'[t].call.targets, w'[t].call.hash = "stale"
               PROVE  file'[g].by \notin Workers
    BY DEF OnlyOthersBetween
  <2>3. w[t].pc = "replace" /\ g \in w[t].call.targets
    BY <1>2
  <2>4. CASE g = f
    BY <2>1, <2>3, <2>4, <1>2
  <2>5. CASE g # f
    <3>1. w'[t].call = w[t].call
      BY <2>2, <2>3, <2>5, <1>2
    <3> QED BY <2>3, <2>5, <3>1, <1>2 DEF WsInv, OnlyOthersBetween
  <2> QED BY <2>4, <2>5
<1>7. KeyIsKept'
  BY <1>2 DEF WsInv, KeyIsKept
<1>8. NoPaperedRefusal'
  BY <1>2 DEF WsInv, NoPaperedRefusal
<1> QED BY <1>3, <1>4, <1>5, <1>6, <1>7, <1>8 DEF WsInv

\* Nothing but the hashes a worker has read changes.
LEMMA ReadKeeps ==
    ASSUME WsInv, NEW t \in Workers, NEW f \in Files, ReadFile(t, f)
    PROVE  WsInv'
<1>1. seen' = [seen EXCEPT ![t][f] = "fresh"] /\ seen \in [Workers -> [Files -> {"never", "fresh", "stale"}]]
  BY DEF ReadFile, WsInv, WsTypes
<1>2. seen' \in [Workers -> [Files -> {"never", "fresh", "stale"}]]
  <2>1. [seen[t] EXCEPT ![f] = "fresh"] \in [Files -> {"never", "fresh", "stale"}]
    BY <1>1
  <2> QED BY <1>1, <2>1
<1>3. UNCHANGED <<file, leased, w, ledger, stop, ran>>
  BY DEF ReadFile
<1>4. WsTypes'
  BY <1>2, <1>3 DEF WsInv, WsTypes
<1>5. CallInHand' /\ TargetsHeld' /\ OnlyOthersBetween' /\ KeyIsKept' /\ NoPaperedRefusal'
  BY <1>3 DEF WsInv, CallInHand, TargetsHeld, OnlyOthersBetween, KeyIsKept, NoPaperedRefusal
<1> QED BY <1>4, <1>5 DEF WsInv

\* A call that ends as it is asked: replayed from the ledger, or refused.
LEMMA AnsweredKeeps ==
    ASSUME WsInv, NEW t \in Workers, w[t].pc = "idle", w[t].calls < MaxCalls[t],
           NEW error, w' = CallOver(t, error),
           ledger' \in [Workers -> {"empty", "refused", "result"}], ran' \in [Workers -> 0..1],
           \A u \in Workers \ {t} : ledger'[u] = ledger[u] /\ ran'[u] = ran[u],
           ran'[t] = 1 => ledger'[t] # "empty",
           UNCHANGED <<file, leased, seen, stop>>
    PROVE  WsInv'
<1>1. WsTypes
  BY DEF WsInv
<1>2. /\ w' \in [Workers -> WorkerRows]
      /\ \A u \in Workers \ {t} : w'[u] = w[u]
      /\ w'[t].pc = "idle" /\ w'[t].call = NoCall
      /\ w'[t].status = w[t].status /\ w'[t].calls = w[t].calls + 1
  BY <1>1, CallOverShape
<1>3. WsTypes'
  BY <1>1, <1>2 DEF WsTypes
<1>4. CallInHand'
  <2>1. w[t].status = "none" /\ w[t].calls \in Nat /\ MaxCalls[t] \in Nat
    BY <1>1, WsAssumption DEF WsInv, CallInHand, WsTypes, WorkerRows
  <2>2. w'[t].calls <= MaxCalls[t]
    BY <2>1, <1>2
  <2> QED BY <1>2, <2>1, <2>2 DEF WsInv, CallInHand, Working, IsEdit, NoCall
<1>5. TargetsHeld'
  <2>1. \A f \in Files : leased[f] # Nobody => leased[f] \in Workers
    BY <1>1 DEF WsTypes
  <2> QED BY <1>2, <2>1 DEF WsInv, TargetsHeld, Working
<1>6. OnlyOthersBetween'
  BY <1>2 DEF WsInv, OnlyOthersBetween
<1>7. KeyIsKept'
  BY <1>2 DEF WsInv, KeyIsKept
<1>8. NoPaperedRefusal'
  BY <1>2 DEF WsInv, NoPaperedRefusal, CallInHand
<1> QED BY <1>3, <1>4, <1>5, <1>6, <1>7, <1>8 DEF WsInv

\* A call that is asked while the ledger has no answer and is allowed.
LEMMA AllowedKeeps ==
    ASSUME WsInv, NEW t \in Workers, w[t].pc = "idle", w[t].calls < MaxCalls[t],
           NEW call \in Asked, w' = [w EXCEPT ![t].call = call, ![t].pc = "lease"],
           call.kind # "none", call.kind = "unknown" => t \in FullScope,
           IsEdit(call) => \E f \in Files : call.targets = {f},
           ran' \in [Workers -> 0..1], \A u \in Workers \ {t} : ran'[u] = ran[u],
           ~call.keyed => ran'[t] = ran[t],
           UNCHANGED <<file, leased, seen, ledger, stop>>
    PROVE  WsInv'
<1>1. WsTypes /\ w[t] \in WorkerRows /\ w \in [Workers -> WorkerRows]
  BY DEF WsInv, WsTypes
<1> DEFINE row == [w[t] EXCEPT !.call = call, !.pc = "lease"]
<1>2. /\ row \in WorkerRows /\ row.pc = "lease" /\ row.call = call /\ row.calls = w[t].calls
      /\ row.hard = w[t].hard /\ row.status = w[t].status
  BY <1>1 DEF WorkerRows, Working
<1>3. w' = [w EXCEPT ![t] = row]
  BY <1>1 DEF WorkerRows
<1> HIDE DEF row
<1>4. /\ w' \in [Workers -> WorkerRows] /\ w'[t] = row
      /\ \A u \in Workers \ {t} : w'[u] = w[u]
  BY ZenonT(40), <1>1, <1>2, <1>3
<1>5. WsTypes'
  BY <1>1, <1>4 DEF WsTypes
<1>6. w[t].status = "none" /\ w[t].call = NoCall
  BY DEF WsInv, CallInHand, Working
<1>7. CallInHand'
  <2> SUFFICES ASSUME NEW u \in Workers
               PROVE  /\ w'[u].pc \in Working =>
                            /\ w'[u].call.kind # "none" /\ w'[u].calls < MaxCalls[u] /\ w'[u].status = "none"
                            /\ w'[u].call.kind = "unknown" => u \in FullScope
                            /\ IsEdit(w'[u].call) => \E f \in Files : w'[u].call.targets = {f}
                      /\ w'[u].pc \in {"verify", "replace"} => IsEdit(w'[u].call)
                      /\ w'[u].pc \notin Working => w'[u].call = NoCall
                      /\ w'[u].pc = "ended" <=> w'[u].status # "none"
                      /\ w'[u].calls <= MaxCalls[u]
    BY DEF CallInHand, IsEdit
  <2>1. CASE u = t
    <3>1. w[t].calls <= MaxCalls[t]
      BY DEF WsInv, CallInHand
    <3> QED BY <2>1, <3>1, <1>2, <1>4, <1>6 DEF Working
  <2>2. CASE u # t
    <3>1. w'[u] = w[u]
      BY <2>2, <1>4
    <3> QED BY <3>1 DEF WsInv, CallInHand
  <2> QED BY <2>1, <2>2
<1>8. TargetsHeld'
  <2>1. \A f \in Files : leased[f] # Nobody => leased[f] \in Workers
    BY <1>1 DEF WsTypes
  <2> QED BY <1>2, <1>4, <2>1 DEF WsInv, TargetsHeld, Working
<1>9. OnlyOthersBetween'
  BY <1>2, <1>4 DEF WsInv, OnlyOthersBetween
<1>10. KeyIsKept'
  BY <1>2, <1>4, <1>6 DEF WsInv, KeyIsKept, NoCall
<1>11. NoPaperedRefusal'
  BY <1>2, <1>4 DEF WsInv, NoPaperedRefusal
<1> QED BY <1>5, <1>7, <1>8, <1>9, <1>10, <1>11 DEF WsInv

\* A worker asks: the call is replayed, refused, or allowed.
LEMMA AskKeeps ==
    ASSUME WsInv, NEW t \in Workers, Ask(t)
    PROVE  WsInv'
<1>1. w[t].pc = "idle" /\ w[t].calls < MaxCalls[t] /\ UNCHANGED <<file, leased, seen, stop>>
  BY DEF Ask
<1>2. /\ ledger \in [Workers -> {"empty", "refused", "result"}] /\ ran \in [Workers -> 0..1]
      /\ seen[t] \in [Files -> {"never", "fresh", "stale"}]
  BY DEF WsInv, WsTypes
<1>3. ran[t] = 1 => ledger[t] # "empty"
  BY <1>1 DEF WsInv, KeyIsKept, CallInHand, Working, NoCall
<1>4. PICK c \in Menu[t] : \E hash \in Hashes(t, c) :
        LET call == [kind |-> c.kind, targets |-> c.targets, hash |-> hash, keyed |-> c.keyed]
        IN  IF c.keyed /\ Replayed(t)
            THEN /\ \E error \in HardErrors \cup {"none"} :
                        Kept(error) = ledger[t] /\ w' = CallOver(t, error)
                 /\ UNCHANGED <<ledger, ran>>
            ELSE /\ ran' = [ran EXCEPT ![t] = IF c.keyed THEN @ + 1 ELSE @]
                 /\ IF Allowed(t, c)
                    THEN w' = [w EXCEPT ![t].call = call, ![t].pc = "lease"] /\ UNCHANGED ledger
                    ELSE LET error == IF c.kind = "dangerous" THEN "dangerous_command"
                                      ELSE "scope_violation"
                         IN  /\ w' = CallOver(t, error)
                             /\ ledger' = [ledger EXCEPT ![t] = IF c.keyed THEN Kept(error) ELSE @]
  BY DEF Ask
<1>5. PICK hash \in Hashes(t, c) :
        LET call == [kind |-> c.kind, targets |-> c.targets, hash |-> hash, keyed |-> c.keyed]
        IN  IF c.keyed /\ Replayed(t)
            THEN /\ \E error \in HardErrors \cup {"none"} :
                        Kept(error) = ledger[t] /\ w' = CallOver(t, error)
                 /\ UNCHANGED <<ledger, ran>>
            ELSE /\ ran' = [ran EXCEPT ![t] = IF c.keyed THEN @ + 1 ELSE @]
                 /\ IF Allowed(t, c)
                    THEN w' = [w EXCEPT ![t].call = call, ![t].pc = "lease"] /\ UNCHANGED ledger
                    ELSE LET error == IF c.kind = "dangerous" THEN "dangerous_command"
                                      ELSE "scope_violation"
                         IN  /\ w' = CallOver(t, error)
                             /\ ledger' = [ledger EXCEPT ![t] = IF c.keyed THEN Kept(error) ELSE @]
  BY <1>4
<1> DEFINE call == [kind |-> c.kind, targets |-> c.targets, hash |-> hash, keyed |-> c.keyed]
<1>6. /\ c \in [kind : {"dangerous", "unknown", "shell", "file_write", "file_edit"},
                targets : SUBSET Files, keyed : BOOLEAN]
      /\ IsEdit(c) => \E f \in Files : c.targets = {f}
  BY WsAssumption
<1>7. hash \in {"none", "new", "fresh", "stale"}
  BY <1>2, <1>6 DEF Hashes
<1>8. call \in Asked
  BY <1>6, <1>7 DEF Asked
<1>9. CASE c.keyed /\ Replayed(t)
  <2>1. PICK error : w' = CallOver(t, error)
    BY <1>5, <1>9
  <2>2. UNCHANGED <<ledger, ran>>
    BY <1>5, <1>9
  <2> QED BY <1>1, <1>2, <1>3, <2>1, <2>2, AnsweredKeeps
<1>10. CASE ~(c.keyed /\ Replayed(t))
  <2>1. ran' = [ran EXCEPT ![t] = IF c.keyed THEN @ + 1 ELSE @]
    BY <1>5, <1>10
  <2>2. c.keyed => ran[t] = 0
    BY <1>2, <1>3, <1>10 DEF Replayed
  <2>3. /\ ran' \in [Workers -> 0..1] /\ \A u \in Workers \ {t} : ran'[u] = ran[u]
        /\ ~c.keyed => ran'[t] = ran[t]
    BY <1>2, <2>1, <2>2
  <2>4. CASE Allowed(t, c)
    <3>1. w' = [w EXCEPT ![t].call = call, ![t].pc = "lease"] /\ ledger' = ledger
      BY <1>5, <1>10, <2>4
    <3>2. call.kind # "none" /\ (call.kind = "unknown" => t \in FullScope)
      BY <1>6, <2>4 DEF Allowed, IsEdit
    <3>3. IsEdit(call) => \E f \in Files : call.targets = {f}
      BY <1>6 DEF IsEdit
    <3>4. ~call.keyed => ran'[t] = ran[t]
      BY <2>3
    <3> HIDE DEF call
    <3> QED BY <1>1, <1>8, <2>3, <3>1, <3>2, <3>3, <3>4, AllowedKeeps
  <2>5. CASE ~Allowed(t, c)
    <3>1. PICK error : /\ w' = CallOver(t, error)
                       /\ ledger' = [ledger EXCEPT ![t] = IF c.keyed THEN Kept(error) ELSE @]
      BY <1>5, <1>10, <2>5
    <3>2. Kept(error) \in {"refused", "result"}
      BY DEF Kept
    <3>3. /\ ledger' \in [Workers -> {"empty", "refused", "result"}]
          /\ \A u \in Workers \ {t} : ledger'[u] = ledger[u]
          /\ c.keyed => ledger'[t] # "empty"
          /\ ~c.keyed => ledger'[t] = ledger[t]
      BY <1>2, <3>1, <3>2
    <3>4. ran'[t] = 1 => ledger'[t] # "empty"
      BY <1>3, <2>3, <3>3
    <3> QED BY <1>1, <2>3, <3>1, <3>3, <3>4, AnsweredKeeps
  <2> QED BY <2>4, <2>5
<1> QED BY <1>9, <1>10

\* All leases of a call, or none of them and a refusal.
LEMMA AcquireKeeps ==
    ASSUME WsInv, NEW t \in Workers, Acquire(t)
    PROVE  WsInv'
<1>1. w[t].pc \in Working /\ UNCHANGED <<file, seen, stop, ran>> /\ leased \in [Files -> Workers \cup {Nobody}]
  BY DEF Acquire, Working, WsInv, WsTypes
<1> DEFINE missing == {f \in w[t].call.targets : leased[f] # t}
<1>2. w[t].call.targets \subseteq Files
  BY DEF WsInv, WsTypes, WorkerRows, Asked
<1>3. CASE missing = {}
  <2>1. \A f \in w[t].call.targets : leased[f] = t
    BY <1>3
  <2>2. leased' = leased /\ ledger' = ledger
        /\ w' = [w EXCEPT ![t].pc = IF IsEdit(w[t].call) THEN "verify" ELSE "spawn"]
    BY <1>3 DEF Acquire
  <2>3. CASE IsEdit(w[t].call)
    <3>1. w' = [w EXCEPT ![t].pc = "verify"]
      BY <2>2, <2>3
    <3> QED BY <1>1, <2>1, <2>2, <2>3, <3>1, PhaseKeeps DEF Working
  <2>4. CASE ~IsEdit(w[t].call)
    <3>1. w' = [w EXCEPT ![t].pc = "spawn"]
      BY <2>2, <2>4
    <3> QED BY <1>1, <2>1, <2>2, <3>1, PhaseKeeps DEF Working
  <2> QED BY <2>3, <2>4
<1>4. CASE missing # {}
  <2>1. PICK f \in missing :
          IF f \notin Writable[t] THEN Over(t, "scope_violation") /\ UNCHANGED leased
          ELSE IF leased[f] = Nobody
          THEN leased' = [leased EXCEPT ![f] = t] /\ UNCHANGED <<w, ledger>>
          ELSE Over(t, "lease_conflict") /\ UNCHANGED leased
    BY <1>4 DEF Acquire
  <2>2. CASE f \in Writable[t] /\ leased[f] = Nobody
    <3>1. leased' = [leased EXCEPT ![f] = t] /\ UNCHANGED <<w, ledger>>
      BY <2>1, <2>2
    <3>2. w[t].pc = "lease" /\ w \in [Workers -> WorkerRows]
      BY DEF Acquire, WsInv, WsTypes
    <3>3. w' = [w EXCEPT ![t].pc = "lease"]
      BY <3>1, <3>2 DEF WorkerRows
    <3>4. /\ leased' \in [Files -> Workers \cup {Nobody}]
          /\ \A g \in Files : \/ leased'[g] = leased[g]
                              \/ leased[g] = Nobody /\ leased'[g] = t /\ g \in Writable[t]
      BY <1>1, <1>2, <2>2, <3>1
    <3> QED BY <1>1, <3>1, <3>3, <3>4, PhaseKeeps DEF Working
  <2>3. CASE ~(f \in Writable[t] /\ leased[f] = Nobody)
    <3>1. PICK error : Over(t, error) /\ UNCHANGED leased
      BY <2>1, <2>3
    <3>2. stop' \subseteq Workers
      BY <1>1 DEF WsInv, WsTypes
    <3> QED BY <1>1, <3>1, <3>2, OverKeeps
  <2> QED BY <2>2, <2>3
<1> QED BY <1>3, <1>4

\* The comparison of a file with the hash its worker read.
LEMMA VerifyKeeps ==
    ASSUME WsInv, NEW t \in Workers, Verify(t)
    PROVE  WsInv'
<1>1. w[t].pc = "verify" /\ w[t].pc \in Working /\ stop' \subseteq Workers
      /\ UNCHANGED <<file, leased, seen, stop, ran>>
  BY DEF Verify, Working, WsInv, WsTypes
<1>2. PICK f \in w[t].call.targets :
        LET error == HashError(w[t].call.kind, file[f].exists, w[t].call.hash)
        IN  IF error = "none"
            THEN \/ w' = [w EXCEPT ![t].pc = "replace"] /\ UNCHANGED ledger
                 \/ w[t].call.kind = "file_edit" /\ Over(t, "conflict")
            ELSE Over(t, error)
  BY DEF Verify
<1>3. CASE /\ HashError(w[t].call.kind, file[f].exists, w[t].call.hash) = "none"
           /\ w' = [w EXCEPT ![t].pc = "replace"] /\ UNCHANGED ledger
  <2>1. IsEdit(w[t].call)
    BY <1>1 DEF WsInv, CallInHand
  <2>2. w[t].call.hash # "stale"
    <3>1. file[f].exists \in BOOLEAN /\ w[t].call.kind \in {"file_write", "file_edit"}
      BY <2>1, <1>2 DEF WsInv, WsTypes, WorkerRows, Asked, IsEdit
    <3> QED BY <1>3, <3>1 DEF HashError
  <2>3. \A g \in w[t].call.targets : leased[g] = t
    BY <1>1 DEF WsInv, TargetsHeld
  <2>4. leased' \in [Files -> Workers \cup {Nobody}] /\ leased' = leased
    BY <1>1 DEF WsInv, WsTypes
  <2> QED BY <1>1, <1>3, <2>1, <2>2, <2>3, <2>4, PhaseKeeps DEF Working
<1>4. CASE \E error : Over(t, error)
  BY <1>1, <1>4, OverKeeps
<1> QED BY <1>2, <1>3, <1>4

\* The replacement of the file and the end of its call are one step.
LEMMA ReplaceKeeps ==
    ASSUME WsInv, NEW t \in Workers, Replace(t)
    PROVE  WsInv'
<1>1. /\ w[t].pc = "replace" /\ w[t].pc \in Working /\ stop' \subseteq Workers
      /\ UNCHANGED <<leased, stop, ran>> /\ WsTypes
  BY DEF Replace, Working, WsInv, WsTypes
<1>2. CASE Over(t, "internal_error") /\ UNCHANGED <<file, seen>>
  BY <1>1, <1>2, OverKeeps
<1>3. CASE /\ \E f \in w[t].call.targets : WriteFile(f, t, CallOver(t, "none"))
           /\ ledger' = Recorded(t, "none")
  <2>1. PICK f \in w[t].call.targets : WriteFile(f, t, CallOver(t, "none"))
    BY <1>3
  <2>2. f \in Files /\ leased[f] = t
    BY <1>1 DEF WsInv, WsTypes, WorkerRows, Asked, TargetsHeld, Working
  <2> DEFINE ws == CallOver(t, "none")
  <2>3. /\ ws \in [Workers -> WorkerRows]
        /\ \A u \in Workers \ {t} : ws[u] = w[u]
        /\ ws[t].pc = "idle" /\ ws[t].call = NoCall
        /\ ws[t].status = w[t].status /\ ws[t].calls = w[t].calls + 1
    BY <1>1, CallOverShape
  <2>4. t \in Hands
    BY DEF Hands
  <2>5. WriteFile(f, t, ws)
    BY <2>1
  <2> HIDE DEF ws
  <2>6. /\ file' \in [Files -> [exists : BOOLEAN, by : Hands]]
        /\ \A g \in Files \ {f} : file'[g] = file[g]
        /\ seen' \in [Workers -> [Files -> {"never", "fresh", "stale"}]]
        /\ w' \in [Workers -> WorkerRows]
        /\ \A u \in Workers :
              /\ w'[u].pc = ws[u].pc /\ w'[u].calls = ws[u].calls /\ w'[u].hard = ws[u].hard
              /\ w'[u].status = ws[u].status
              /\ w'[u].call.kind = ws[u].call.kind /\ w'[u].call.targets = ws[u].call.targets
              /\ w'[u].call.keyed = ws[u].call.keyed
              /\ f \notin ws[u].call.targets => w'[u] = ws[u]
    BY <1>1, <2>2, <2>3, <2>4, <2>5, WriteShape
  <2>7. w'[t] = ws[t]
    BY <2>3, <2>6 DEF NoCall
  <2>8. ASSUME NEW u \in Workers, u # t, w[u].pc \in Working \ {"lease"}
        PROVE  f \notin w[u].call.targets
    BY <2>2, <2>8 DEF WsInv, TargetsHeld
  <2>9. ASSUME NEW u \in Workers, u # t, w[u].pc # "lease"
        PROVE  w'[u] = w[u]
    <3>1. f \notin w[u].call.targets
      BY <2>8, <2>9 DEF WsInv, CallInHand, NoCall, Working
    <3> QED BY <2>3, <2>6, <2>9, <3>1
  <2>10. /\ ledger' \in [Workers -> {"empty", "refused", "result"}]
         /\ \A u \in Workers \ {t} : ledger'[u] = ledger[u]
         /\ w[t].call.keyed => ledger'[t] # "empty"
         /\ ~w[t].call.keyed => ledger'[t] = ledger[t]
    <3>1. Kept("none") \in {"refused", "result"}
      BY DEF Kept
    <3> QED BY <1>1, <1>3, <3>1 DEF Recorded, WsTypes
  <2>11. WsTypes'
    BY <1>1, <2>6, <2>10 DEF WsTypes
  <2>12. CallInHand'
    <3> SUFFICES ASSUME NEW u \in Workers
                 PROVE  /\ w'[u].pc \in Working =>
                              /\ w'[u].call.kind # "none" /\ w'[u].calls < MaxCalls[u] /\ w'[u].status = "none"
                              /\ w'[u].call.kind = "unknown" => u \in FullScope
                              /\ IsEdit(w'[u].call) => \E g \in Files : w'[u].call.targets = {g}
                        /\ w'[u].pc \in {"verify", "replace"} => IsEdit(w'[u].call)
                        /\ w'[u].pc \notin Working => w'[u].call = NoCall
                        /\ w'[u].pc = "ended" <=> w'[u].status # "none"
                        /\ w'[u].calls <= MaxCalls[u]
      BY DEF CallInHand, IsEdit
    <3>1. CASE u = t
      <4>1. w[t].status = "none" /\ w[t].calls < MaxCalls[t] /\ w[t].calls \in Nat /\ MaxCalls[t] \in Nat
        BY <1>1, WsAssumption DEF WsInv, CallInHand, WsTypes, WorkerRows
      <4>2. w'[t].calls <= MaxCalls[t]
        BY <4>1, <2>3, <2>7
      <4> QED BY <3>1, <4>1, <4>2, <2>3, <2>7 DEF Working
    <3>2. CASE u # t /\ w[u].pc # "lease"
      <4>1. w'[u] = w[u]
        BY <2>9, <3>2
      <4> QED BY <4>1 DEF WsInv, CallInHand
    <3>3. CASE u # t /\ w[u].pc = "lease"
      <4>1. /\ w[u].call.kind # "none" /\ w[u].calls < MaxCalls[u] /\ w[u].status = "none"
            /\ w[u].call.kind = "unknown" => u \in FullScope
            /\ w[u].call.kind \in {"file_write", "file_edit"} => \E g \in Files : w[u].call.targets = {g}
            /\ w[u].calls <= MaxCalls[u]
        BY <3>3 DEF WsInv, CallInHand, Working, IsEdit
      <4>2. /\ w'[u].pc = "lease" /\ w'[u].status = w[u].status /\ w'[u].calls = w[u].calls
            /\ w'[u].call.kind = w[u].call.kind /\ w'[u].call.targets = w[u].call.targets
        BY <2>3, <2>6, <3>3
      <4> QED BY <4>1, <4>2 DEF IsEdit, Working
    <3> QED BY <3>1, <3>2, <3>3
  <2>13. TargetsHeld'
    <3>1. \A g \in Files : leased[g] # Nobody => leased[g] \in Workers
      BY <1>1 DEF WsTypes
    <3>2. \A u \in Workers \ {t} : /\ w'[u].pc = w[u].pc /\ w'[u].call.targets = w[u].call.targets
      BY <2>3, <2>6
    <3>3. w'[t].pc = "idle"
      BY <2>3, <2>7
    <3> QED BY <1>1, <3>1, <3>2, <3>3 DEF WsInv, TargetsHeld, Working
  <2>14. OnlyOthersBetween'
    <3> SUFFICES ASSUME NEW u \in Workers, NEW g \in Files, w'[u].pc = "replace",
                        g \in w'[u].call.targets, w'[u].call.hash = "stale"
                 PROVE  file'[g].by \notin Workers
      BY DEF OnlyOthersBetween
    <3>1. u # t /\ w[u].pc = "replace"
      BY <2>3, <2>6
    <3>2. w'[u] = w[u] /\ f \notin w[u].call.targets
      BY <2>8, <2>9, <3>1 DEF Working
    <3>3. g # f
      BY <3>2
    <3> QED BY <2>6, <3>1, <3>2, <3>3 DEF WsInv, OnlyOthersBetween
  <2>15. KeyIsKept'
    <3>1. \A u \in Workers \ {t} : w'[u].call.keyed = w[u].call.keyed
      BY <2>3, <2>6
    <3> QED BY <1>1, <2>10, <3>1 DEF WsInv, KeyIsKept
  <2>16. NoPaperedRefusal'
    <3>1. \A u \in Workers \ {t} : w'[u].hard = w[u].hard /\ w'[u].status = w[u].status
      BY <2>3, <2>6
    <3>2. w'[t].status = "none"
      BY <1>1, <2>3, <2>7 DEF WsInv, CallInHand
    <3> QED BY <3>1, <3>2 DEF WsInv, NoPaperedRefusal
  <2> QED BY <2>11, <2>12, <2>13, <2>14, <2>15, <2>16 DEF WsInv
<1> QED BY <1>2, <1>3 DEF Replace

\* A shell call starts its process, writes files it holds, ends, or is cancelled.
LEMMA ShellKeeps ==
    ASSUME WsInv, NEW t \in Workers,
           Register(t) \/ ShellWrites(t) \/ ShellEnds(t) \/ CancelWorker(t)
    PROVE  WsInv'
<1>1. WsTypes /\ w \in [Workers -> WorkerRows] /\ w[t] \in WorkerRows
  BY DEF WsInv, WsTypes
<1>2. CASE Register(t)
  <2>1. /\ w[t].pc \in Working /\ w' = [w EXCEPT ![t].pc = "shell"]
        /\ UNCHANGED <<file, leased, seen, ledger, stop, ran>>
    BY <1>2 DEF Register, Working
  <2>2. \A f \in w[t].call.targets : leased[f] = t
    BY <1>2 DEF Register, WsInv, TargetsHeld, Working
  <2>3. leased' \in [Files -> Workers \cup {Nobody}]
    BY <1>1, <2>1 DEF WsTypes
  <2> QED BY <2>1, <2>2, <2>3, PhaseKeeps DEF Working
<1>3. CASE ShellWrites(t)
  <2>1. PICK f \in (IF w[t].call.kind = "unknown" THEN Files ELSE w[t].call.targets) \ w[t].wrote :
            WriteFile(f, IF w[t].call.kind = "unknown" THEN "unchecked" ELSE t,
                      [w EXCEPT ![t].wrote = @ \cup {f}])
    BY <1>3 DEF ShellWrites
  <2> DEFINE who == IF w[t].call.kind = "unknown" THEN "unchecked" ELSE t
             ws == [w EXCEPT ![t].wrote = @ \cup {f}]
  <2>2. f \in Files
    BY <1>1, <2>1 DEF WorkerRows, Asked
  <2>3. w[t].pc \in {"spawn", "shell"} /\ UNCHANGED <<leased, ledger, stop, ran>>
    BY <1>3 DEF ShellWrites
  <2>4. who \in Hands
    BY DEF Hands
  <2>5. who \in Workers => leased[f] = who /\ w[who].pc # "replace"
    BY <2>1, <2>3, WsAssumption DEF WsInv, TargetsHeld, Working
  <2>6. /\ ws \in [Workers -> WorkerRows]
        /\ \A u \in Workers : /\ ws[u].pc = w[u].pc /\ ws[u].calls = w[u].calls /\ ws[u].hard = w[u].hard
                              /\ ws[u].status = w[u].status /\ ws[u].call = w[u].call
    <3>1. LET r == [w[t] EXCEPT !.wrote = @ \cup {f}]
          IN  /\ r \in WorkerRows /\ r.pc = w[t].pc /\ r.calls = w[t].calls /\ r.hard = w[t].hard
              /\ r.status = w[t].status /\ r.call = w[t].call
      BY <1>1, <2>2 DEF WorkerRows
    <3>2. ws = [w EXCEPT ![t] = [w[t] EXCEPT !.wrote = @ \cup {f}]]
      BY <1>1 DEF WorkerRows
    <3> HIDE DEF ws
    <3> QED BY <1>1, <3>1, <3>2
  <2>7. WriteFile(f, who, ws)
    BY <2>1
  <2> HIDE DEF who, ws
  <2> QED BY <2>2, <2>3, <2>4, <2>5, <2>6, <2>7, WriteKeeps
<1>4. CASE \E error : w[t].pc = "shell" /\ Over(t, error)
                      /\ UNCHANGED <<file, leased, seen, ran>> /\ stop' \subseteq Workers
  BY <1>4, OverKeeps DEF Working
<1>5. CASE UNCHANGED <<file, leased, seen, w, ledger, ran>> /\ stop' \subseteq Workers
  <2>1. WsTypes'
    BY <1>1, <1>5 DEF WsTypes
  <2>2. CallInHand' /\ TargetsHeld' /\ OnlyOthersBetween' /\ KeyIsKept' /\ NoPaperedRefusal'
    BY <1>5 DEF WsInv, CallInHand, TargetsHeld, OnlyOthersBetween, KeyIsKept, NoPaperedRefusal
  <2> QED BY <2>1, <2>2 DEF WsInv
<1>6. stop \subseteq Workers
  BY <1>1 DEF WsTypes
<1>7. CASE ShellEnds(t)
  BY <1>4, <1>6, <1>7 DEF ShellEnds
<1>8. CASE CancelWorker(t)
  <2>1. stop' \subseteq Workers /\ UNCHANGED <<file, leased, seen, ran>>
    BY <1>6, <1>8 DEF CancelWorker
  <2>2. CASE w[t].pc = "shell"
    BY <1>4, <1>8, <2>1, <2>2 DEF CancelWorker
  <2>3. CASE w[t].pc # "shell"
    BY <1>5, <1>8, <2>1, <2>3 DEF CancelWorker
  <2> QED BY <2>2, <2>3
<1> QED BY <1>2, <1>3, <1>7, <1>8

\* A worker ends between two calls, with what its refusals allow, and gives its leases back.
LEMMA EndKeeps ==
    ASSUME WsInv, NEW t \in Workers, WorkerEnds(t)
    PROVE  WsInv'
<1>1. WsTypes /\ w \in [Workers -> WorkerRows] /\ w[t] \in WorkerRows /\ w[t].pc = "idle"
  BY DEF WsInv, WsTypes, WorkerEnds
<1>2. PICK st \in {WorkerStatus(t), "failed"} :
        w' = [w EXCEPT ![t].status = st, ![t].pc = "ended"]
  BY DEF WorkerEnds
<1>3. st \in {"completed", "failed", "cancelled"} /\ (st = "completed" => ~w[t].hard)
  BY DEF WorkerStatus
<1> DEFINE row == [w[t] EXCEPT !.status = st, !.pc = "ended"]
<1>4. /\ row \in WorkerRows /\ row.pc = "ended" /\ row.status = st /\ row.calls = w[t].calls
      /\ row.hard = w[t].hard /\ row.call = w[t].call
  BY <1>1, <1>3 DEF WorkerRows
<1>5. w' = [w EXCEPT ![t] = row]
  BY <1>1, <1>2 DEF WorkerRows
<1> HIDE DEF row
<1>6. /\ w' \in [Workers -> WorkerRows] /\ w'[t] = row /\ \A u \in Workers \ {t} : w'[u] = w[u]
  BY <1>1, <1>4, <1>5
<1>7. leased' = [f \in Files |-> IF leased[f] = t THEN Nobody ELSE leased[f]]
      /\ UNCHANGED <<file, seen, ledger, stop, ran>>
  BY DEF WorkerEnds
<1>8. /\ leased' \in [Files -> Workers \cup {Nobody}]
      /\ \A f \in Files : /\ leased[f] = t => leased'[f] = Nobody
                          /\ leased[f] # t => leased'[f] = leased[f]
  BY <1>1, <1>7 DEF WsTypes
<1>9. WsTypes'
  BY <1>1, <1>6, <1>7, <1>8 DEF WsTypes
<1>10. CallInHand'
  <2>1. w[t].call = NoCall /\ w[t].calls <= MaxCalls[t]
    BY <1>1 DEF WsInv, CallInHand, Working
  <2> QED BY <1>3, <1>4, <1>6, <2>1 DEF WsInv, CallInHand, Working, IsEdit, NoCall
<1>11. TargetsHeld'
  <2>1. \A f \in Files : leased[f] # Nobody => leased[f] \in Workers
    BY <1>1 DEF WsTypes
  <2>2. ASSUME NEW u \in Workers, w'[u].pc \in Working \ {"lease"}, NEW f \in w'[u].call.targets
        PROVE  leased'[f] = u
    <3>1. u # t
      BY <1>4, <1>6, <2>2 DEF Working
    <3>2. leased[f] = u /\ f \in Files
      BY <3>1, <1>1, <1>6, <2>2 DEF WsInv, TargetsHeld, WorkerRows, Asked
    <3> QED BY <3>1, <3>2, <1>8
  <2>3. ASSUME NEW f \in Files, leased'[f] # Nobody
        PROVE  f \in Writable[leased'[f]] /\ w'[leased'[f]].pc # "ended"
    BY <1>6, <1>8, <2>1, <2>3 DEF WsInv, TargetsHeld
  <2> QED BY <2>2, <2>3 DEF TargetsHeld
<1>12. OnlyOthersBetween'
  BY <1>4, <1>6, <1>7 DEF WsInv, OnlyOthersBetween
<1>13. KeyIsKept'
  BY <1>4, <1>6, <1>7 DEF WsInv, KeyIsKept
<1>14. NoPaperedRefusal'
  BY <1>3, <1>4, <1>6 DEF WsInv, NoPaperedRefusal
<1> QED BY <1>9, <1>10, <1>11, <1>12, <1>13, <1>14 DEF WsInv

\* Every step keeps the invariant.
LEMMA WsStep ==
    ASSUME WsInv, WsNext
    PROVE  WsInv'
<1>1. ASSUME NEW t \in Workers, ToolStep(t)
      PROVE  WsInv'
  BY <1>1, AcquireKeeps, VerifyKeeps, ReplaceKeeps, ShellKeeps, EndKeeps DEF ToolStep
<1>2. ASSUME NEW t \in Workers, Ask(t) \/ ShellWrites(t) \/ CancelWorker(t)
      PROVE  WsInv'
  BY <1>2, AskKeeps, ShellKeeps
<1>3. ASSUME NEW t \in Workers, NEW f \in Files, ReadFile(t, f)
      PROVE  WsInv'
  BY <1>3, ReadKeeps
<1>4. ASSUME NEW f \in Files, OutsideEdit(f)
      PROVE  WsInv'
  <2>1. WriteFile(f, "outside", w) /\ UNCHANGED <<leased, ledger, stop, ran>>
    BY <1>4 DEF OutsideEdit
  <2>2. w \in [Workers -> WorkerRows] /\ "outside" \in Hands /\ "outside" \notin Workers
    BY WsAssumption DEF WsInv, WsTypes, Hands
  <2> QED BY <2>1, <2>2, WriteKeeps
<1> QED BY <1>1, <1>2, <1>3, <1>4 DEF WsNext

\* The initial states.
LEMMA WsStart == WsInit => WsInv
<1> SUFFICES ASSUME WsInit PROVE WsInv
  OBVIOUS
<1>1. NoCall \in Asked
  BY DEF NoCall, Asked
<1>2. file \in [Files -> [exists : BOOLEAN, by : Hands]]
  BY DEF WsInit, Hands
<1>3. \A t \in Workers : w[t] = [pc |-> "idle", call |-> NoCall, calls |-> 0,
                                 hard |-> FALSE, status |-> "none", wrote |-> {}]
  BY DEF WsInit
<1>4. w \in [Workers -> WorkerRows]
  BY <1>1 DEF WsInit, WorkerRows
<1>5. WsTypes
  <2>1. leased \in [Files -> Workers \cup {Nobody}]
    BY DEF WsInit
  <2>2. seen \in [Workers -> [Files -> {"never", "fresh", "stale"}]]
    BY DEF WsInit
  <2>3. ledger \in [Workers -> {"empty", "refused", "result"}] /\ stop \subseteq Workers
        /\ ran \in [Workers -> 0..1]
    BY DEF WsInit
  <2> QED BY <1>2, <1>4, <2>1, <2>2, <2>3 DEF WsTypes
<1>6. CallInHand
  <2>1. \A t \in Workers : /\ w[t].pc = "idle" /\ w[t].call = NoCall /\ w[t].calls = 0
                           /\ w[t].status = "none"
    BY <1>3
  <2>2. \A t \in Workers : 0 <= MaxCalls[t]
    BY WsAssumption
  <2> QED BY <2>1, <2>2 DEF CallInHand, Working
<1>7. TargetsHeld /\ OnlyOthersBetween /\ KeyIsKept /\ NoPaperedRefusal
  BY <1>3 DEF WsInit, TargetsHeld, OnlyOthersBetween, KeyIsKept, NoPaperedRefusal, Working
<1> QED BY <1>5, <1>6, <1>7 DEF WsInv

\* WsInv is an invariant, for any number of workers, files, scopes and budgets of calls, and for
\* writers outside the team.
THEOREM WorkersInvariant == WsSpec => []WsInv
<1>1. WsInv /\ [WsNext]_wsVars => WsInv'
  <2> SUFFICES ASSUME WsInv, [WsNext]_wsVars PROVE WsInv'
    OBVIOUS
  <2>1. CASE UNCHANGED wsVars
    BY <2>1 DEF wsVars, WsInv, WsTypes, CallInHand, TargetsHeld, OnlyOthersBetween, KeyIsKept, NoPaperedRefusal
  <2> QED BY <2>1, WsStep
<1> QED BY <1>1, WsStart, PTL DEF WsSpec

\* WorkersSound is an invariant (src/src/paperclaw/multiagent/scoped_tools.py): a call with an
\* idempotency key takes effect once, because a keyed call that ran is in the ledger or still in
\* hand; a worker that was refused a file does not report success; and a worker that has ended,
\* however it ended, holds no lease.
THEOREM WorkersAreSound == WsSpec => []WorkersSound
<1>1. WsInv => WorkersSound
  <2> SUFFICES ASSUME WsInv PROVE WorkersSound
    OBVIOUS
  <2>1. WsTypes /\ CallInHand /\ TargetsHeld /\ NoPaperedRefusal
    BY DEF WsInv
  <2>2. WsTypeOK
    <3>1. ASSUME NEW f \in Files
          PROVE  file[f].exists \in BOOLEAN /\ leased[f] \in Workers \cup {Nobody}
      BY <2>1 DEF WsTypes
    <3>2. ASSUME NEW t \in Workers
          PROVE  /\ w[t].pc \in {"idle", "lease", "verify", "replace", "spawn", "shell", "ended"}
                 /\ w[t].pc \in {"idle", "ended"} <=> w[t].call = NoCall
                 /\ w[t].calls \in 0..MaxCalls[t]
                 /\ w[t].status \in {"none", "completed", "failed", "cancelled"}
      <4>1. w[t] \in WorkerRows /\ MaxCalls[t] \in Nat
        BY <2>1, WsAssumption DEF WsTypes
      <4>2. w[t].pc \in Working \cup {"idle", "ended"} /\ w[t].calls \in Nat
            /\ w[t].status \in {"none", "completed", "failed", "cancelled"}
        BY <4>1 DEF WorkerRows
      <4>3. w[t].calls <= MaxCalls[t] /\ (w[t].pc \notin Working => w[t].call = NoCall)
            /\ (w[t].pc \in Working => w[t].call.kind # "none")
        BY <2>1 DEF CallInHand
      <4>4. NoCall.kind = "none"
        BY DEF NoCall
      <4>5. w[t].pc \in {"idle", "ended"} <=> w[t].call = NoCall
        BY <4>2, <4>3, <4>4 DEF Working
      <4> QED BY <4>1, <4>2, <4>3, <4>5 DEF Working
    <3> QED BY <3>1, <3>2 DEF WsTypeOK
  <2>3. KeyedOnce
    BY <2>1 DEF WsTypes, KeyedOnce
  <2>4. LeasesReturn
    BY <2>1, WsAssumption DEF TargetsHeld, LeasesReturn
  <2> QED BY <2>1, <2>2, <2>3, <2>4 DEF WorkersSound
<1> QED BY <1>1, WorkersInvariant, PTL

\* One step of a worker or of somebody else, as the action property says it.
WriteIsSafe(f) ==
    /\ InScope(f)
    /\ \A t \in Workers : LostNothing(t, f) /\ (file'[f].by = t => leased[f] = t)

\* A file that a write changes is the one it writes.
LEMMA OneWritten ==
    ASSUME WsTypes, NEW f \in Files, NEW g \in Files, NEW who, NEW ws, WriteFile(g, who, ws),
           file'[f] # file[f]
    PROVE  f = g /\ file'[f].by = who
<1>1. file' = [file EXCEPT ![g] = [exists |-> TRUE, by |-> who]]
  BY DEF WriteFile
<1> QED BY <1>1 DEF WsTypes

\* Every step that changes a file is a write the property allows.
LEMMA WritesSafe ==
    ASSUME WsInv, WsNext, NEW f \in Files, file'[f] # file[f]
    PROVE  WriteIsSafe(f)
<1>1. WsTypes
  BY DEF WsInv
<1>2. ASSUME NEW t \in Workers, Replace(t)
      PROVE  WriteIsSafe(f)
  <2>1. PICK g \in w[t].call.targets : WriteFile(g, t, CallOver(t, "none"))
    BY <1>2 DEF Replace
  <2>2. w[t].pc = "replace" /\ g \in Files
    BY <1>1, <1>2 DEF Replace, WsTypes, WorkerRows, Asked
  <2>3. f = g /\ file'[f].by = t
    BY <1>1, <2>1, <2>2, OneWritten
  <2>4. leased[f] = t /\ f \in Writable[t]
    BY <2>1, <2>2, <2>3, WsAssumption DEF WsInv, TargetsHeld, Working
  <2>5. w[t].call.hash = "stale" => file[f].by \notin Workers
    BY <2>1, <2>2, <2>3 DEF WsInv, OnlyOthersBetween
  <2> QED BY <2>3, <2>4, <2>5 DEF WriteIsSafe, InScope, LostNothing, Replaces, Tracked
<1>3. ASSUME NEW t \in Workers, ShellWrites(t)
      PROVE  WriteIsSafe(f)
  <2>1. PICK g \in (IF w[t].call.kind = "unknown" THEN Files ELSE w[t].call.targets) \ w[t].wrote :
            WriteFile(g, IF w[t].call.kind = "unknown" THEN "unchecked" ELSE t,
                      [w EXCEPT ![t].wrote = @ \cup {g}])
    BY <1>3 DEF ShellWrites
  <2>2. w[t].pc \in {"spawn", "shell"} /\ g \in Files
    BY <1>1, <1>3, <2>1 DEF ShellWrites, WsTypes, WorkerRows, Asked
  <2>3. f = g /\ file'[f].by = IF w[t].call.kind = "unknown" THEN "unchecked" ELSE t
    BY <1>1, <2>1, <2>2, OneWritten
  <2>4. CASE w[t].call.kind = "unknown"
    <3>1. t \in FullScope /\ "unchecked" \notin Workers /\ file'[f].by = "unchecked"
      BY <2>2, <2>3, <2>4, WsAssumption DEF WsInv, CallInHand, Working
    <3> QED BY <2>4, <3>1 DEF WriteIsSafe, InScope, LostNothing, Replaces
  <2>5. CASE w[t].call.kind # "unknown"
    <3>1. leased[f] = t /\ f \in Writable[t] /\ file'[f].by = t
      BY <2>1, <2>2, <2>3, <2>5, WsAssumption DEF WsInv, TargetsHeld, Working
    <3>2. w[t].pc # "replace"
      BY <2>2
    <3> QED BY <3>1, <3>2 DEF WriteIsSafe, InScope, LostNothing, Replaces
  <2> QED BY <2>4, <2>5
<1>4. ASSUME NEW g \in Files, OutsideEdit(g)
      PROVE  WriteIsSafe(f)
  <2>1. file'[f].by = "outside" /\ "outside" \notin Workers
    BY <1>1, <1>4, OneWritten, WsAssumption DEF OutsideEdit
  <2> QED BY <2>1 DEF WriteIsSafe, InScope, LostNothing, Replaces
<1>5. ASSUME NEW t \in Workers,
             \/ Acquire(t) \/ Verify(t) \/ Register(t) \/ ShellEnds(t) \/ WorkerEnds(t)
             \/ Ask(t) \/ CancelWorker(t) \/ \E g \in Files : ReadFile(t, g)
      PROVE  FALSE
  BY <1>5 DEF Acquire, Verify, Register, ShellEnds, WorkerEnds, Ask, CancelWorker, ReadFile
<1> QED BY <1>2, <1>3, <1>4, <1>5 DEF WsNext, ToolStep

\* WritesAreSafe holds of every step: a file changes only within the scope of the worker that
\* writes it, while that worker holds its lease, and no replacement loses what another worker
\* wrote since its own worker read the file. Only a call of a tool that declares no paths, which
\* the team allows to workers of full scope, writes unchecked.
THEOREM ToolsWriteSafely == WsSpec => WritesAreSafe
<1>1. WsInv /\ [WsNext]_wsVars =>
        [\A f \in Files : file'[f] # file[f] =>
          /\ InScope(f)
          /\ \A t \in Workers : LostNothing(t, f) /\ (file'[f].by = t => leased[f] = t)]_wsVars
  <2> SUFFICES ASSUME WsInv, WsNext
               PROVE  \A f \in Files : file'[f] # file[f] => WriteIsSafe(f)
    BY DEF WriteIsSafe
  <2> QED BY WritesSafe
<1> QED BY <1>1, WorkersInvariant, PTL DEF WsSpec, WritesAreSafe

-----------------------------------------------------------------------------
(* The agent loop: what the state holds *)

\* The calls, places of the graph, ends and reasons, and the rows of the engine, of the
\* counters, of files, reports and of the graph's state.
Kinds == {"file_write", "file_edit", "bash", "file_read"}
ToolCalls == [tool : Kinds, path : Paths, text : Writings, relevant : BOOLEAN] \cup {[tool |-> "none"]}
NodePlaces == {"decide", "ask", "startModel", "model", "askTool", "startTool", "tool", "verify", "reflect"}
Texts == Writings \cup {0}
Unmet == ({"exists", "contains", "hash"} \X Paths) \cup {<<"command", 0>>}

Statuses == {"none", "running", "completed", "failed", "blocked", "stopped", "budget_exhausted"}
Stops == {"none", "done", "max_steps", "cancelled", "invalid_model_output", "completed_verified",
          "verification_failed", "internal_error"}
Reasons == Stops \cup {"requested", "max_model_calls", "max_tool_calls", "runtime_failed"}

EngRows == [pc : {"idle", "start", "run", "terminal", "return"}, submits : Nat, active : BOOLEAN, status : Statuses]
UsedRows == [model : Nat, tool : Nat, open : SUBSET {"model", "tool"}, late : Nat]
FileRows == [text : Texts, clean : BOOLEAN]
Reports == [status : Statuses, reason : Reasons]
AgRows == [at : NodePlaces, steps : Nat, invalid : Nat, rounds : Nat, failure : SUBSET Unmet, same : Nat,
           stop : Stops, asks : {"decide", "reflect"}, written : [Paths -> Texts], exact : SUBSET Paths,
           lastWrite : Nat, command : [step : Nat, ok : BOOLEAN],
           checked : {"none", "passed", "failed"}, call : ToolCalls]

\* Every variable has its type.
ArTypes ==
    /\ eng \in EngRows
    /\ token \in {"none", "open", "set"}
    /\ ag \in AgRows
    /\ used \in UsedRows
    /\ files \in [Paths -> FileRows]
    /\ report \in Reports

\* While a tool runs its call is known.
CallKnown == eng.pc = "run" /\ ag.at \in {"askTool", "startTool", "tool"} => ag.call.tool \in Kinds

\* Between verification and reflection nothing touches the workspace; what reflection asks the model about has
\* not passed.
StillVerified ==
    /\ eng.pc = "run" /\ ag.at = "reflect" => ag.checked # "none" /\ (ag.checked = "passed" => Failed = {})
    /\ eng.pc = "run" /\ ag.asks = "reflect" /\ ag.at \in {"ask", "startModel", "model"} => ag.checked = "failed"

\* The open calls are those the runner is in; a call whose checks are done is within its budget.
CallsCounted ==
    /\ used.open = IF eng.pc = "run" /\ ag.at \in {"model", "tool"} THEN {ag.at} ELSE {}
    /\ used.model <= MaxModelCalls /\ used.tool <= MaxToolCalls
    /\ eng.pc = "run" /\ ag.at = "startModel" => used.model < MaxModelCalls
    /\ eng.pc = "run" /\ ag.at = "startTool" => used.tool < MaxToolCalls

\* No call has begun after a stop while the checks of another one are still to be used.
LateCounted ==
    /\ used.late <= 1
    /\ eng.pc = "run" /\ (token # "set" \/ ag.at \in {"startModel", "startTool"}) => used.late = 0

\* The inductive invariant of the agent loop.
ArInv == ArTypes /\ CallKnown /\ StillVerified /\ CallsCounted /\ LateCounted /\ CompletedIsVerified

-----------------------------------------------------------------------------
(* The agent loop: steps *)

\* The query engine begins, ends and closes a run.
LEMMA EngineKeeps ==
    ASSUME ArInv, Submit \/ BeginRun \/ EmitTerminal \/ Close \/ RequestStop \/ AnnounceStop
    PROVE  ArInv'
<1>1. ArTypes
  BY DEF ArInv
<1>2. CASE Submit
  <2>1. /\ eng.pc = "idle" /\ eng'.pc = "start" /\ token' = "open" /\ UNCHANGED <<ag, used, files>>
        /\ eng' \in EngRows
    <3>1. eng.submits + 1 \in Nat /\ eng.pc = "idle"
      BY <1>1, <1>2 DEF ArTypes, EngRows, Submit
    <3> DEFINE n == eng.submits + 1
    <3>2. eng' = [eng EXCEPT !.pc = "start", !.submits = n, !.active = TRUE, !.status = "running"]
      BY <1>2 DEF Submit
    <3> HIDE DEF n
    <3> QED BY <1>1, <1>2, <3>1, <3>2 DEF ArTypes, Submit, EngRows, Statuses
  <2>2. report' \in Reports
    BY <1>2 DEF Submit, NoReport, Reports, Reasons, Stops, Statuses
  <2>3. ArTypes'
    BY <1>1, <2>1, <2>2 DEF ArTypes
  <2> QED BY <2>1, <2>3 DEF ArInv, CallKnown, StillVerified, CallsCounted, LateCounted, CompletedIsVerified
<1>3. CASE BeginRun
  <2>1. /\ eng'.pc = "run" /\ ag' = Fresh /\ used' = Unused /\ UNCHANGED <<token, files, report>>
        /\ eng' \in EngRows
    BY <1>1, <1>3 DEF ArTypes, BeginRun, EngRows
  <2>2. Fresh \in AgRows /\ Fresh.at = "decide"
    BY DEF Fresh, AgRows, NodePlaces, ToolCalls, Texts, Stops
  <2>3. ArTypes'
    BY <1>1, <2>1, <2>2 DEF ArTypes, Unused, UsedRows
  <2> QED BY <2>1, <2>2, <2>3, ArAssumption
          DEF ArInv, CallKnown, StillVerified, CallsCounted, LateCounted, CompletedIsVerified, Unused
<1>4. CASE EmitTerminal
  <2>1. /\ eng.pc = "terminal" /\ eng'.pc = "return" /\ UNCHANGED <<token, ag, used, files, report>>
        /\ eng' \in EngRows
    BY <1>1, <1>4 DEF ArTypes, EmitTerminal, EngRows
  <2>2. ArTypes'
    BY <1>1, <2>1 DEF ArTypes
  <2> QED BY <2>1, <2>2 DEF ArInv, CallKnown, StillVerified, CallsCounted, LateCounted, CompletedIsVerified
<1>5. CASE Close
  <2>1. /\ eng.pc = "return" /\ eng'.pc = "idle" /\ token' = "none" /\ UNCHANGED <<ag, used, files, report>>
        /\ eng' \in EngRows
    BY <1>1, <1>5 DEF ArTypes, Close, EngRows
  <2>2. ArTypes'
    BY <1>1, <2>1 DEF ArTypes
  <2> QED BY <2>1, <2>2 DEF ArInv, CallKnown, StillVerified, CallsCounted, LateCounted, CompletedIsVerified
<1>6. CASE RequestStop \/ AnnounceStop
  <2>1. /\ token' \in {token, "set"} /\ UNCHANGED <<eng, ag, used, files, report>>
    BY <1>6 DEF RequestStop, AnnounceStop
  <2>2. ArTypes'
    BY <1>1, <2>1 DEF ArTypes
  <2>3. Failed' = Failed
    BY <2>1 DEF Failed, Relevant
  <2> QED BY <2>1, <2>2, <2>3 DEF ArInv, CallKnown, StillVerified, CallsCounted, LateCounted, CompletedIsVerified
<1> QED BY <1>2, <1>3, <1>4, <1>5, <1>6

\* What CompletedIsVerified asks of the state and the files of a graph.
Verified(a, fs) ==
    /\ \A p \in Paths : a.written[p] # 0 => fs[p].text = a.written[p]
    /\ \A p \in a.exact : fs[p].clean
    /\ a.lastWrite > 0 => a.command.ok /\ a.command.step >= a.lastWrite

\* The run ends with a report: no call is open, and what completes is verified.
LEMMA ReportKeeps ==
    ASSUME ArInv, eng.pc = "run", NEW s \in Statuses, NEW r \in Reasons, Reported(s, r),
           token' = token, ag' \in AgRows, used' \in UsedRows, files' \in [Paths -> FileRows],
           used'.open = {}, used'.model = used.model, used'.tool = used.tool, used'.late = used.late,
           s = "completed" => Verified(ag', files')
    PROVE  ArInv'
<1>1. /\ eng' \in EngRows /\ eng'.pc = "terminal" /\ report' \in Reports /\ report'.status = s
  BY DEF ArInv, ArTypes, EngRows, Reports, Reported
<1>2. ArTypes'
  BY <1>1 DEF ArInv, ArTypes
<1>3. CompletedIsVerified'
  BY <1>1 DEF CompletedIsVerified, Verified
<1> QED BY <1>1, <1>2, <1>3 DEF ArInv, CallKnown, StillVerified, CallsCounted, LateCounted

\* The graph goes on: what its next place needs holds there.
LEMMA MoveKeeps ==
    ASSUME ArInv, eng.pc = "run", UNCHANGED <<eng, token, report>>,
           ag' \in AgRows, used' \in UsedRows, files' \in [Paths -> FileRows],
           used'.open = IF ag'.at \in {"model", "tool"} THEN {ag'.at} ELSE {},
           used'.model <= MaxModelCalls, used'.tool <= MaxToolCalls,
           ag'.at = "startModel" => used'.model < MaxModelCalls,
           ag'.at = "startTool" => used'.tool < MaxToolCalls,
           used'.late <= 1,
           token # "set" \/ ag'.at \in {"startModel", "startTool"} => used'.late = 0,
           ag'.at \in {"askTool", "startTool", "tool"} => ag'.call.tool \in Kinds,
           ag'.at = "reflect" => ag'.checked # "none" /\ (ag'.checked = "passed" => Failed' = {}),
           ag'.asks = "reflect" /\ ag'.at \in {"ask", "startModel", "model"} => ag'.checked = "failed"
    PROVE  ArInv'
<1>1. ArTypes'
  BY DEF ArInv, ArTypes
<1> QED BY <1>1 DEF ArInv, CallKnown, StillVerified, CallsCounted, LateCounted, CompletedIsVerified

\* The decision whether the graph stops, asks or verifies.
LEMMA DecideKeeps ==
    ASSUME ArInv, Decide
    PROVE  ArInv'
<1>1. /\ eng.pc = "run" /\ ag.at = "decide" /\ ag \in AgRows /\ used \in UsedRows
      /\ files \in [Paths -> FileRows] /\ UNCHANGED <<token, used, files>>
  BY DEF Decide, Running, ArInv, ArTypes
<1>2. used.open = {} /\ used.model <= MaxModelCalls /\ used.tool <= MaxToolCalls /\ used.late <= 1
      /\ (token # "set" => used.late = 0)
  BY <1>1 DEF ArInv, CallsCounted, LateCounted
<1>3. CASE ag.steps >= StepLimit \/ Cancelled
  <2> DEFINE why == IF ag.steps >= StepLimit THEN (IF ag.stop = "none" THEN "max_steps" ELSE ag.stop) ELSE "cancelled"
  <2>1. /\ ag' = [ag EXCEPT !.stop = why]
        /\ Reported(IF why = "cancelled" THEN "stopped" ELSE "budget_exhausted", why)
    BY <1>3 DEF Decide
  <2>2. why \in Stops
    BY <1>1 DEF AgRows, Stops
  <2> HIDE DEF why
  <2>3. ag' \in AgRows
    BY <1>1, <2>1, <2>2 DEF AgRows
  <2> DEFINE s == IF why = "cancelled" THEN "stopped" ELSE "budget_exhausted"
  <2>4. s \in Statuses /\ s # "completed" /\ why \in Reasons /\ Reported(s, why)
    BY <2>1, <2>2 DEF Statuses, Reasons
  <2> HIDE DEF s
  <2> QED BY <1>1, <1>2, <2>3, <2>4, ReportKeeps
<1>4. CASE ~(ag.steps >= StepLimit \/ Cancelled)
  <2>1. ag' = [ag EXCEPT !.at = "ask", !.asks = "decide"] /\ UNCHANGED <<eng, report>>
    BY <1>4 DEF Decide
  <2>2. ag' \in AgRows /\ ag'.at = "ask" /\ ag'.asks = "decide"
    BY <1>1, <2>1 DEF AgRows, NodePlaces
  <2> QED BY <1>1, <1>2, <2>1, <2>2, MoveKeeps
<1> QED BY <1>3, <1>4

\* The checks before a call of the model or of a tool.
LEMMA ChecksKeep ==
    ASSUME ArInv, CheckModel \/ CheckTool
    PROVE  ArInv'
<1>1. /\ eng.pc = "run" /\ ag.at \in {"ask", "askTool"} /\ ag \in AgRows /\ used \in UsedRows
      /\ files \in [Paths -> FileRows] /\ UNCHANGED <<token, used, files>>
  BY DEF CheckModel, CheckTool, Running, ArInv, ArTypes
<1>2. used.open = {} /\ used.model <= MaxModelCalls /\ used.tool <= MaxToolCalls /\ used.late <= 1
      /\ (token # "set" => used.late = 0)
  BY <1>1 DEF ArInv, CallsCounted, LateCounted
<1>3. /\ ag.at = "askTool" => ag.call.tool \in Kinds
      /\ ag.at = "ask" /\ ag.asks = "reflect" => ag.checked = "failed"
  BY <1>1 DEF ArInv, CallKnown, StillVerified
<1>4. CASE \E s \in {"stopped", "budget_exhausted"}, r \in {"requested", "max_model_calls", "max_tool_calls"} :
              Reported(s, r) /\ UNCHANGED ag
  <2>1. PICK s \in {"stopped", "budget_exhausted"}, r \in {"requested", "max_model_calls", "max_tool_calls"} :
              Reported(s, r) /\ UNCHANGED ag
    BY <1>4
  <2>2. s \in Statuses /\ r \in Reasons /\ s # "completed"
    BY DEF Statuses, Reasons
  <2> QED BY <1>1, <1>2, <2>1, <2>2, ReportKeeps
<1>5. CASE CheckModel /\ MayCall(used.model, MaxModelCalls)
  <2>1. ag' = [ag EXCEPT !.at = "startModel"] /\ UNCHANGED <<eng, report>> /\ ag.at = "ask"
        /\ used.model < MaxModelCalls /\ token # "set"
    BY <1>5 DEF CheckModel, MayCall, Cancelled, Running
  <2>2. ag' \in AgRows /\ ag'.at = "startModel" /\ ag'.asks = ag.asks /\ ag'.checked = ag.checked
    BY <1>1, <2>1 DEF AgRows, NodePlaces
  <2> QED BY <1>1, <1>2, <1>3, <2>1, <2>2, MoveKeeps
<1>6. CASE CheckTool /\ MayCall(used.tool, MaxToolCalls)
  <2>1. ag' = [ag EXCEPT !.at = "startTool"] /\ UNCHANGED <<eng, report>> /\ ag.at = "askTool"
        /\ used.tool < MaxToolCalls /\ token # "set"
    BY <1>6 DEF CheckTool, MayCall, Cancelled, Running
  <2>2. ag' \in AgRows /\ ag'.at = "startTool" /\ ag'.call = ag.call
    BY <1>1, <2>1 DEF AgRows, NodePlaces
  <2> QED BY <1>1, <1>2, <1>3, <2>1, <2>2, MoveKeeps
<1>7. CASE CheckModel /\ ~MayCall(used.model, MaxModelCalls)
  BY <1>4, <1>7 DEF CheckModel
<1>8. CASE CheckTool /\ ~MayCall(used.tool, MaxToolCalls)
  BY <1>4, <1>8 DEF CheckTool
<1> QED BY <1>5, <1>6, <1>7, <1>8

\* What the wrappers count when a call begins and when it ends.
LEMMA BegunShape ==
    ASSUME used \in UsedRows, NEW kind \in {"model", "tool"}
    PROVE  /\ Begun(kind) \in UsedRows /\ Begun(kind).open = used.open \cup {kind}
           /\ Begun(kind).model = used.model + (IF kind = "model" THEN 1 ELSE 0)
           /\ Begun(kind).tool = used.tool + (IF kind = "tool" THEN 1 ELSE 0)
           /\ Begun(kind).late = used.late + (IF Cancelled THEN 1 ELSE 0)
<1> DEFINE late == used.late + (IF Cancelled THEN 1 ELSE 0)
           model == used.model + 1
           tool == used.tool + 1
<1>1. late \in Nat /\ model \in Nat /\ tool \in Nat
  BY DEF UsedRows
<1>2. CASE kind = "model"
  <2>1. Begun(kind) = [used EXCEPT !.model = model, !.open = @ \cup {"model"}, !.late = late]
    BY <1>2 DEF Begun
  <2>2. Begun(kind).model = model /\ Begun(kind).late = late
    <3> HIDE DEF model, late
    <3> QED BY <2>1 DEF UsedRows
  <2>3. Begun(kind) \in UsedRows /\ Begun(kind).open = used.open \cup {"model"} /\ Begun(kind).tool = used.tool
    <3> HIDE DEF model, late
    <3> QED BY <1>1, <2>1 DEF UsedRows
  <2> QED BY <1>2, <2>2, <2>3 DEF UsedRows
<1>3. CASE kind = "tool"
  <2>1. Begun(kind) = [used EXCEPT !.tool = tool, !.open = @ \cup {"tool"}, !.late = late]
    BY <1>3 DEF Begun
  <2>2. Begun(kind).tool = tool /\ Begun(kind).late = late
    <3> HIDE DEF tool, late
    <3> QED BY <2>1 DEF UsedRows
  <2>3. Begun(kind) \in UsedRows /\ Begun(kind).open = used.open \cup {"tool"} /\ Begun(kind).model = used.model
    <3> HIDE DEF tool, late
    <3> QED BY <1>1, <2>1 DEF UsedRows
  <2> QED BY <1>3, <2>2, <2>3 DEF UsedRows
<1> QED BY <1>2, <1>3

\* The end of a call closes it and leaves the counts.
LEMMA EndedShape ==
    ASSUME used \in UsedRows, NEW kind \in {"model", "tool"}, used.open = {kind}, NEW raised,
           used' = CallEnded(kind, raised)
    PROVE  /\ used' \in UsedRows /\ used'.open = {}
           /\ used'.model = used.model /\ used'.tool = used.tool /\ used'.late = used.late
BY DEF CallEnded, UsedRows

\* A call starts after its checks, counted against its budget.
LEMMA StartsKeep ==
    ASSUME ArInv, StartModel \/ StartTool
    PROVE  ArInv'
<1>1. /\ eng.pc = "run" /\ ag.at \in {"startModel", "startTool"} /\ ag \in AgRows /\ used \in UsedRows
      /\ files \in [Paths -> FileRows] /\ UNCHANGED <<eng, token, files, report>>
  BY DEF StartModel, StartTool, Running, ArInv, ArTypes
<1>2. used.open = {} /\ used.model <= MaxModelCalls /\ used.tool <= MaxToolCalls /\ used.late = 0
      /\ (ag.at = "startModel" => used.model < MaxModelCalls)
      /\ (ag.at = "startTool" => used.tool < MaxToolCalls)
  BY <1>1 DEF ArInv, CallsCounted, LateCounted
<1>3. /\ ag.at = "startTool" => ag.call.tool \in Kinds
      /\ ag.at = "startModel" /\ ag.asks = "reflect" => ag.checked = "failed"
  BY <1>1 DEF ArInv, CallKnown, StillVerified
<1>4. used.model \in Nat /\ used.tool \in Nat /\ used.late \in Nat
  BY <1>1 DEF UsedRows
<1>5. CASE StartModel
  <2>1. used' = Begun("model") /\ ag' = [ag EXCEPT !.at = "model"] /\ ag.at = "startModel"
    BY <1>5 DEF StartModel, Running
  <2>2. ag' \in AgRows /\ ag'.at = "model" /\ ag'.asks = ag.asks /\ ag'.checked = ag.checked
    BY <1>1, <2>1 DEF AgRows, NodePlaces
  <2>3. /\ used' \in UsedRows /\ used'.open = used.open \cup {"model"}
        /\ used'.model = used.model + 1 /\ used'.tool = used.tool
        /\ used'.late = used.late + (IF Cancelled THEN 1 ELSE 0)
    BY <1>1, <1>4, <2>1, BegunShape
  <2>4. /\ used'.model <= MaxModelCalls /\ used'.tool <= MaxToolCalls /\ used'.late <= 1
        /\ token # "set" => used'.late = 0
    BY <1>2, <1>4, <2>1, <2>3, ArAssumption DEF Cancelled
  <2>5. used'.open = {"model"}
    BY <1>2, <2>3
  <2> QED BY <1>1, <1>3, <2>1, <2>2, <2>3, <2>4, <2>5, MoveKeeps
<1>6. CASE StartTool
  <2>1. used' = Begun("tool") /\ ag' = [ag EXCEPT !.at = "tool"] /\ ag.at = "startTool"
    BY <1>6 DEF StartTool, Running
  <2>2. ag' \in AgRows /\ ag'.at = "tool" /\ ag'.call = ag.call
    BY <1>1, <2>1 DEF AgRows, NodePlaces
  <2>3. /\ used' \in UsedRows /\ used'.open = used.open \cup {"tool"}
        /\ used'.tool = used.tool + 1 /\ used'.model = used.model
        /\ used'.late = used.late + (IF Cancelled THEN 1 ELSE 0)
    BY <1>1, <1>4, <2>1, BegunShape
  <2>4. /\ used'.model <= MaxModelCalls /\ used'.tool <= MaxToolCalls /\ used'.late <= 1
        /\ token # "set" => used'.late = 0
    BY <1>2, <1>4, <2>1, <2>3, ArAssumption DEF Cancelled
  <2>5. used'.open = {"tool"}
    BY <1>2, <2>3
  <2> QED BY <1>1, <1>3, <2>1, <2>2, <2>3, <2>4, <2>5, MoveKeeps
<1> QED BY <1>5, <1>6

\* The answers of the model, and its failure.
LEMMA AnswersKeep ==
    ASSUME ArInv, ModelRaises \/ InvalidOutput \/ ChooseTool \/ ProposeDone
    PROVE  ArInv'
<1>1. /\ eng.pc = "run" /\ ag.at = "model" /\ ag \in AgRows /\ used \in UsedRows
      /\ files \in [Paths -> FileRows] /\ UNCHANGED <<token, files>>
      /\ \E raised : used' = CallEnded("model", raised)
  BY DEF ModelRaises, InvalidOutput, ChooseTool, ProposeDone, Answered, Running, ArInv, ArTypes
<1>2. used.open = {"model"} /\ used.model <= MaxModelCalls /\ used.tool <= MaxToolCalls /\ used.late <= 1
      /\ (token # "set" => used.late = 0)
  BY <1>1 DEF ArInv, CallsCounted, LateCounted
<1>3. /\ used' \in UsedRows /\ used'.open = {}
      /\ used'.model = used.model /\ used'.tool = used.tool /\ used'.late = used.late
  BY <1>1, <1>2, EndedShape
<1>4. CASE ModelRaises
  <2>1. ag' = ag /\ \E s \in {"stopped", "failed"}, r \in {"requested", "runtime_failed"} : Reported(s, r)
    BY <1>4 DEF ModelRaises
  <2>2. PICK s \in {"stopped", "failed"}, r \in {"requested", "runtime_failed"} : Reported(s, r)
    BY <2>1
  <2>3. s \in Statuses /\ r \in Reasons /\ s # "completed"
    BY DEF Statuses, Reasons
  <2> QED BY <1>1, <1>3, <2>1, <2>2, <2>3, ReportKeeps
<1>5. CASE InvalidOutput
  <2> DEFINE steps == ag.steps + 1
             invalid == ag.invalid + 1
             ended == IF ag.invalid + 1 >= MaxInvalid THEN "invalid_model_output" ELSE ag.stop
  <2>1. ag' = [ag EXCEPT !.steps = steps, !.invalid = invalid, !.at = "decide", !.stop = ended]
    BY <1>5 DEF InvalidOutput
  <2>2. steps \in Nat /\ invalid \in Nat /\ ended \in Stops
    BY <1>1 DEF AgRows, Stops
  <2>3. \/ Reported("failed", "invalid_model_output") \/ UNCHANGED <<eng, report>>
    BY <1>5 DEF InvalidOutput
  <2> HIDE DEF steps, invalid, ended
  <2>4. ag' \in AgRows /\ ag'.at = "decide"
    BY <1>1, <2>1, <2>2 DEF AgRows, NodePlaces
  <2>5. CASE Reported("failed", "invalid_model_output")
    <3>1. "failed" \in Statuses /\ "invalid_model_output" \in Reasons
      BY DEF Statuses, Reasons, Stops
    <3> QED BY <1>1, <1>3, <2>4, <2>5, <3>1, ReportKeeps
  <2>6. CASE UNCHANGED <<eng, report>>
    BY <1>1, <1>2, <1>3, <2>4, <2>6, MoveKeeps
  <2> QED BY <2>3, <2>5, <2>6
<1>6. CASE ChooseTool
  <2>1. PICK tool \in Kinds, p \in Paths, t \in Writings, relevant \in BOOLEAN :
          ag' = [ag EXCEPT !.steps = @ + 1, !.invalid = 0, !.at = "askTool",
                           !.call = [tool |-> tool, path |-> p, text |-> t, relevant |-> relevant]]
    BY <1>6 DEF ChooseTool, Kinds
  <2> DEFINE steps == ag.steps + 1
             call == [tool |-> tool, path |-> p, text |-> t, relevant |-> relevant]
  <2>2. ag' = [ag EXCEPT !.steps = steps, !.invalid = 0, !.at = "askTool", !.call = call]
    BY <2>1
  <2>3. steps \in Nat /\ call \in ToolCalls /\ call.tool \in Kinds
    BY <1>1 DEF AgRows, ToolCalls
  <2> HIDE DEF steps, call
  <2>4. ag' \in AgRows /\ ag'.at = "askTool" /\ ag'.call = call
    BY <1>1, <2>2, <2>3 DEF AgRows, NodePlaces
  <2>5. UNCHANGED <<eng, report>>
    BY <1>6 DEF ChooseTool
  <2> QED BY <1>1, <1>2, <1>3, <2>3, <2>4, <2>5, MoveKeeps
<1>7. CASE ProposeDone
  <2> DEFINE steps == ag.steps + 1
  <2>1. ag' = [ag EXCEPT !.steps = steps, !.invalid = 0, !.stop = "done", !.at = "verify"]
        /\ UNCHANGED <<eng, report>>
    BY <1>7 DEF ProposeDone
  <2>2. steps \in Nat
    BY <1>1 DEF AgRows
  <2> HIDE DEF steps
  <2>3. ag' \in AgRows /\ ag'.at = "verify"
    BY <1>1, <2>1, <2>2 DEF AgRows, NodePlaces, Stops
  <2> QED BY <1>1, <1>2, <1>3, <2>1, <2>3, MoveKeeps
<1> QED BY <1>4, <1>5, <1>6, <1>7

\* What a tool does to the files, and what the history keeps of it.
LEMMA EffectShape ==
    ASSUME files \in [Paths -> FileRows],
           ag.call \in [tool : Kinds, path : Paths, text : Writings, relevant : BOOLEAN], Effect
    PROVE  files' \in [Paths -> FileRows]
<1>1. \A p \in Paths : files[p] \in FileRows
  OBVIOUS
<1>2. Absent \in FileRows
  BY DEF Absent, FileRows, Texts
<1>3. CASE ag.call.tool \in {"file_write", "file_edit"}
  <2>1. PICK c \in BOOLEAN : files' = [files EXCEPT ![ag.call.path] = [text |-> ag.call.text, clean |-> c]]
    BY <1>3 DEF Effect
  <2>2. [text |-> ag.call.text, clean |-> c] \in FileRows
    BY DEF FileRows, Texts
  <2> QED BY <2>1, <2>2
<1>4. CASE ag.call.tool = "bash"
  <2>1. \/ UNCHANGED files
        \/ \E p \in Paths : files' = [files EXCEPT ![p] = Absent]
        \/ \E p \in Paths : files' = [files EXCEPT ![p].clean = FALSE]
    BY <1>4 DEF Effect
  <2>2. ASSUME NEW p \in Paths, files' = [files EXCEPT ![p].clean = FALSE]
        PROVE  files' \in [Paths -> FileRows]
    <3>1. [files[p] EXCEPT !.clean = FALSE] \in FileRows
      BY <1>1 DEF FileRows
    <3> QED BY <2>2, <3>1
  <2> QED BY <1>2, <2>1, <2>2
<1>5. CASE ag.call.tool = "file_read"
  BY <1>5 DEF Effect
<1> QED BY <1>3, <1>4, <1>5 DEF Kinds

\* The history of a tool call keeps its types.
LEMMA NotedShape ==
    ASSUME ag \in AgRows, NEW ok \in BOOLEAN,
           ag.call \in [tool : Kinds, path : Paths, text : Writings, relevant : BOOLEAN]
    PROVE  Noted(ok) \in AgRows /\ Noted(ok).at = "decide"
<1> DEFINE write == ok /\ ag.call.tool \in {"file_write", "file_edit"}
           written == IF write THEN [ag.written EXCEPT ![ag.call.path] = ag.call.text] ELSE ag.written
           exact == IF ~write THEN ag.exact ELSE IF ag.call.tool = "file_write" THEN ag.exact \union {ag.call.path}
                    ELSE ag.exact \ {ag.call.path}
           last == IF write THEN ag.steps ELSE ag.lastWrite
           command == IF ag.call.tool = "bash" /\ ag.call.relevant THEN [step |-> ag.steps, ok |-> ok] ELSE ag.command
           none == [tool |-> "none"]
<1>1. Noted(ok) = [ag EXCEPT !.at = "decide", !.call = none, !.written = written, !.exact = exact,
                             !.lastWrite = last, !.command = command]
  BY DEF Noted
<1>2. written \in [Paths -> Texts]
  BY DEF AgRows, Texts
<1>3. exact \in SUBSET Paths
  BY DEF AgRows
<1>4. last \in Nat /\ command \in [step : Nat, ok : BOOLEAN] /\ none \in ToolCalls
  BY DEF AgRows, ToolCalls
<1> HIDE DEF written, exact, last, command, none
<1> QED BY ZenonT(40), <1>1, <1>2, <1>3, <1>4 DEF AgRows, NodePlaces

\* A tool call succeeds or fails.
LEMMA ToolsKeep ==
    ASSUME ArInv, ToolSucceeds \/ ToolFails
    PROVE  ArInv'
<1>1. /\ eng.pc = "run" /\ ag.at = "tool" /\ ag \in AgRows /\ used \in UsedRows
      /\ files \in [Paths -> FileRows] /\ UNCHANGED token
      /\ \E raised : used' = CallEnded("tool", raised)
  BY DEF ToolSucceeds, ToolFails, Running, ArInv, ArTypes
<1>2. used.open = {"tool"} /\ used.model <= MaxModelCalls /\ used.tool <= MaxToolCalls /\ used.late <= 1
      /\ (token # "set" => used.late = 0)
  BY <1>1 DEF ArInv, CallsCounted, LateCounted
<1>3. /\ used' \in UsedRows /\ used'.open = {}
      /\ used'.model = used.model /\ used'.tool = used.tool /\ used'.late = used.late
  BY <1>1, <1>2, EndedShape
<1>4. ag.call \in [tool : Kinds, path : Paths, text : Writings, relevant : BOOLEAN]
  <2>1. ag.call \in ToolCalls /\ ag.call.tool \in Kinds
    BY <1>1 DEF ArInv, CallKnown, AgRows
  <2> QED BY <2>1 DEF ToolCalls, Kinds
<1>5. files' \in [Paths -> FileRows]
  <2>1. Effect \/ UNCHANGED files
    BY DEF ToolSucceeds, ToolFails
  <2> QED BY <1>1, <1>4, <2>1, EffectShape
<1>6. CASE ToolSucceeds
  <2>1. ag' = Noted(TRUE) /\ UNCHANGED <<eng, report>>
    BY <1>6 DEF ToolSucceeds
  <2>2. ag' \in AgRows /\ ag'.at = "decide"
    BY <1>1, <1>4, <2>1, NotedShape
  <2> QED BY <1>1, <1>2, <1>3, <1>5, <2>1, <2>2, MoveKeeps
<1>7. CASE ToolFails
  <2>1. \/ Reported("stopped", "requested") /\ UNCHANGED ag
        \/ ag' = Noted(FALSE) /\ UNCHANGED <<eng, report>>
    BY <1>7 DEF ToolFails
  <2>2. CASE Reported("stopped", "requested") /\ UNCHANGED ag
    <3>1. "stopped" \in Statuses /\ "requested" \in Reasons
      BY DEF Statuses, Reasons
    <3> QED BY <1>1, <1>3, <1>5, <2>2, <3>1, ReportKeeps
  <2>3. CASE ag' = Noted(FALSE) /\ UNCHANGED <<eng, report>>
    <3>1. ag' \in AgRows /\ ag'.at = "decide"
      BY <1>1, <1>4, <2>3, NotedShape
    <3> QED BY <1>1, <1>2, <1>3, <1>5, <2>3, <3>1, MoveKeeps
  <2> QED BY <2>1, <2>2, <2>3
<1> QED BY <1>6, <1>7

-----------------------------------------------------------------------------
(* The agent loop: verification and reflection *)

\* What verification finds depends on the history and on the files only.
LEMMA FailedSame ==
    ASSUME ag'.written = ag.written, ag'.exact = ag.exact, ag'.lastWrite = ag.lastWrite,
           ag'.command = ag.command, files' = files
    PROVE  Failed' = Failed
BY DEF Failed, Relevant

\* When verification finds nothing that failed, no claim is unmet.
LEMMA NothingFailed ==
    ASSUME Failed = {}, ag.exact \subseteq Paths
    PROVE  Verified(ag, files)
<1>1. \A p \in Paths : ag.written[p] # 0 => files[p].text = ag.written[p]
  <2> SUFFICES ASSUME NEW p \in Paths, ag.written[p] # 0, files[p].text # ag.written[p]
               PROVE  FALSE
    OBVIOUS
  <2>1. <<"contains", p>> \in Failed
    BY DEF Failed
  <2> QED BY <2>1
<1>2. \A p \in ag.exact : files[p].clean
  <2> SUFFICES ASSUME NEW p \in ag.exact, ~files[p].clean
               PROVE  FALSE
    OBVIOUS
  <2>1. <<"hash", p>> \in Failed
    BY DEF Failed
  <2> QED BY <2>1
<1>3. ag.lastWrite > 0 => ag.command.ok /\ ag.command.step >= ag.lastWrite
  <2> SUFFICES ASSUME ag.lastWrite > 0, ~(Relevant /\ ag.command.ok)
               PROVE  FALSE
    BY DEF Relevant
  <2>1. <<"command", 0>> \in Failed
    BY DEF Failed
  <2> QED BY <2>1
<1> QED BY <1>1, <1>2, <1>3 DEF Verified

\* What failed is a claim of the goal or the command.
LEMMA UnmetClaims ==
    ASSUME ag \in AgRows
    PROVE  Failed \in SUBSET Unmet
<1>1. ag.exact \subseteq Paths
  BY DEF AgRows
<1> QED BY <1>1 DEF Failed, Unmet

\* Verification of what the model proposed as done.
LEMMA VerifyKeepsAr ==
    ASSUME ArInv, VerifyProposal
    PROVE  ArInv'
<1>1. /\ eng.pc = "run" /\ ag.at = "verify" /\ ag \in AgRows /\ used \in UsedRows
      /\ files \in [Paths -> FileRows] /\ UNCHANGED <<eng, token, used, files, report>>
  BY DEF VerifyProposal, Running, ArInv, ArTypes
<1>2. used.open = {} /\ used.model <= MaxModelCalls /\ used.tool <= MaxToolCalls /\ used.late <= 1
      /\ (token # "set" => used.late = 0)
  BY <1>1 DEF ArInv, CallsCounted, LateCounted
<1> DEFINE found == IF Failed = {} THEN "passed" ELSE "failed"
<1>3. ag' = [ag EXCEPT !.at = "reflect", !.checked = found]
  BY DEF VerifyProposal
<1>4. found \in {"passed", "failed"} /\ (found = "passed" => Failed = {})
  OBVIOUS
<1> HIDE DEF found
<1>5. ag' \in AgRows /\ ag'.at = "reflect" /\ ag'.checked = found
      /\ ag'.written = ag.written /\ ag'.exact = ag.exact /\ ag'.lastWrite = ag.lastWrite /\ ag'.command = ag.command
  BY <1>1, <1>3, <1>4 DEF AgRows, NodePlaces
<1>6. ag'.checked = "passed" => Failed' = {}
  BY <1>1, <1>4, <1>5, FailedSame
<1> QED BY <1>1, <1>2, <1>4, <1>5, <1>6, MoveKeeps

\* Reflection on a failed verification: asked of the model, given up, or passed.
LEMMA ReflectKeeps ==
    ASSUME ArInv, Reflect
    PROVE  ArInv'
<1>1. /\ eng.pc = "run" /\ ag.at = "reflect" /\ ag \in AgRows /\ used \in UsedRows
      /\ files \in [Paths -> FileRows] /\ UNCHANGED <<token, used, files>>
  BY DEF Reflect, Running, ArInv, ArTypes
<1>2. used.open = {} /\ used.model <= MaxModelCalls /\ used.tool <= MaxToolCalls /\ used.late <= 1
      /\ (token # "set" => used.late = 0)
  BY <1>1 DEF ArInv, CallsCounted, LateCounted
<1> DEFINE again == IF ag.failure = Failed THEN ag.same + 1 ELSE 1
           rounds == ag.rounds + 1
<1>3. again \in Nat /\ rounds \in Nat /\ Failed \in SUBSET Unmet
  BY <1>1, UnmetClaims DEF AgRows
<1>4. CASE ag.checked = "passed"
  <2>1. Reported("completed", "completed_verified") /\ ag' = [ag EXCEPT !.stop = "completed_verified"]
    BY <1>4 DEF Reflect
  <2>2. ag' \in AgRows /\ ag'.written = ag.written /\ ag'.exact = ag.exact
        /\ ag'.lastWrite = ag.lastWrite /\ ag'.command = ag.command
    BY <1>1, <2>1 DEF AgRows, Stops
  <2>3. Failed = {} /\ ag.exact \subseteq Paths
    BY <1>1, <1>4 DEF ArInv, StillVerified, AgRows
  <2>4. Verified(ag', files')
    BY <1>1, <2>2, <2>3, NothingFailed DEF Verified
  <2>5. "completed" \in Statuses /\ "completed_verified" \in Reasons
    BY DEF Statuses, Reasons, Stops
  <2> QED BY <1>1, <1>2, <2>1, <2>2, <2>4, <2>5, ReportKeeps
<1>5. CASE ag.checked # "passed"
  <2>1. \/ /\ Reported("blocked", "verification_failed")
           /\ ag' = [ag EXCEPT !.rounds = rounds, !.stop = "verification_failed"]
        \/ /\ Reported("blocked", "verification_failed")
           /\ ag' = [ag EXCEPT !.rounds = rounds, !.failure = Failed, !.same = again, !.stop = "verification_failed"]
        \/ /\ ag' = [ag EXCEPT !.rounds = rounds, !.failure = Failed, !.same = again, !.at = "ask", !.asks = "reflect"]
           /\ UNCHANGED <<eng, report>>
    BY <1>5 DEF Reflect
  <2> HIDE DEF again, rounds
  <2>2. CASE Reported("blocked", "verification_failed") /\ ag' \in AgRows
    <3>1. "blocked" \in Statuses /\ "verification_failed" \in Reasons
      BY DEF Statuses, Reasons, Stops
    <3> QED BY <1>1, <1>2, <2>2, <3>1, ReportKeeps
  <2>3. CASE /\ ag' = [ag EXCEPT !.rounds = rounds, !.failure = Failed, !.same = again, !.at = "ask", !.asks = "reflect"]
             /\ UNCHANGED <<eng, report>>
    <3>1. ag' \in AgRows /\ ag'.at = "ask" /\ ag'.checked = ag.checked
      BY <1>1, <1>3, <2>3 DEF AgRows, NodePlaces
    <3>2. ag.checked = "failed"
      BY <1>1, <1>5 DEF ArInv, StillVerified, AgRows
    <3> QED BY <1>1, <1>2, <2>3, <3>1, <3>2, MoveKeeps
  <2>4. [ag EXCEPT !.rounds = rounds, !.stop = "verification_failed"] \in AgRows
    BY <1>1, <1>3 DEF AgRows, Stops
  <2>5. [ag EXCEPT !.rounds = rounds, !.failure = Failed, !.same = again, !.stop = "verification_failed"] \in AgRows
    BY <1>1, <1>3 DEF AgRows, Stops
  <2> QED BY <2>1, <2>2, <2>3, <2>4, <2>5
<1> QED BY <1>4, <1>5

\* The answer of the reflection.
LEMMA ReflectedKeeps ==
    ASSUME ArInv, Reflected
    PROVE  ArInv'
<1>1. /\ eng.pc = "run" /\ ag.at = "model" /\ ag.asks = "reflect" /\ ag \in AgRows /\ used \in UsedRows
      /\ files \in [Paths -> FileRows] /\ UNCHANGED <<token, files>>
      /\ used' = CallEnded("model", FALSE)
  BY DEF Reflected, Answered, Running, ArInv, ArTypes
<1>2. used.open = {"model"} /\ used.model <= MaxModelCalls /\ used.tool <= MaxToolCalls /\ used.late <= 1
      /\ (token # "set" => used.late = 0)
  BY <1>1 DEF ArInv, CallsCounted, LateCounted
<1>3. /\ used' \in UsedRows /\ used'.open = {}
      /\ used'.model = used.model /\ used'.tool = used.tool /\ used'.late = used.late
  BY <1>1, <1>2, EndedShape
\* What was asked about has not passed, so it cannot be accepted.
<1>4. ag.checked = "failed"
  BY <1>1 DEF ArInv, StillVerified
<1>5. \/ Reported("failed", "internal_error") /\ ag' = [ag EXCEPT !.stop = "internal_error"]
      \/ Reported("blocked", "verification_failed") /\ ag' = [ag EXCEPT !.stop = "verification_failed"]
      \/ ag' = [ag EXCEPT !.stop = "none", !.at = "decide"] /\ UNCHANGED <<eng, report>>
      \/ ag' = [ag EXCEPT !.at = "verify"] /\ UNCHANGED <<eng, report>>
  <2>1. PICK d \in {"accept", "repair", "reverify", "blocked", "unreadable"} :
          IF d = "unreadable" \/ ~ValidDecision(d)
          THEN Reported("failed", "internal_error") /\ ag' = [ag EXCEPT !.stop = "internal_error"]
          ELSE CASE d = "accept" -> Reported("completed", "completed_verified") /\ ag' = [ag EXCEPT !.stop = "completed_verified"]
                 [] d = "repair" -> ag' = [ag EXCEPT !.stop = "none", !.at = "decide"] /\ UNCHANGED <<eng, report>>
                 [] d = "reverify" -> ag' = [ag EXCEPT !.at = "verify"] /\ UNCHANGED <<eng, report>>
                 [] OTHER -> Reported("blocked", "verification_failed") /\ ag' = [ag EXCEPT !.stop = "verification_failed"]
    BY DEF Reflected
  <2>2. d = "accept" => ~ValidDecision(d)
    BY <1>4 DEF ValidDecision
  <2> QED BY <2>1, <2>2
<1>6. "failed" \in Statuses /\ "blocked" \in Statuses /\ "internal_error" \in Reasons /\ "verification_failed" \in Reasons
  BY DEF Statuses, Reasons, Stops
<1>7. /\ [ag EXCEPT !.stop = "internal_error"] \in AgRows /\ [ag EXCEPT !.stop = "verification_failed"] \in AgRows
      /\ [ag EXCEPT !.stop = "none", !.at = "decide"] \in AgRows /\ [ag EXCEPT !.at = "verify"] \in AgRows
      /\ [ag EXCEPT !.stop = "none", !.at = "decide"].at = "decide" /\ [ag EXCEPT !.at = "verify"].at = "verify"
  BY <1>1 DEF AgRows, NodePlaces, Stops
<1>8. CASE Reported("failed", "internal_error") /\ ag' = [ag EXCEPT !.stop = "internal_error"]
  BY <1>1, <1>3, <1>6, <1>7, <1>8, ReportKeeps
<1>9. CASE Reported("blocked", "verification_failed") /\ ag' = [ag EXCEPT !.stop = "verification_failed"]
  BY <1>1, <1>3, <1>6, <1>7, <1>9, ReportKeeps
<1>10. CASE ag' = [ag EXCEPT !.stop = "none", !.at = "decide"] /\ UNCHANGED <<eng, report>>
  BY <1>1, <1>2, <1>3, <1>7, <1>10, MoveKeeps
<1>11. CASE ag' = [ag EXCEPT !.at = "verify"] /\ UNCHANGED <<eng, report>>
  BY <1>1, <1>2, <1>3, <1>7, <1>11, MoveKeeps
<1> QED BY <1>5, <1>8, <1>9, <1>10, <1>11

\* The initial states.
LEMMA ArStart == ArInit => ArInv
<1> SUFFICES ASSUME ArInit PROVE ArInv
  OBVIOUS
<1>1. eng \in EngRows /\ token = "none" /\ used \in UsedRows /\ report \in Reports
  BY DEF ArInit, EngRows, UsedRows, Unused, Reports, NoReport, Statuses, Reasons, Stops
<1>2. files \in [Paths -> FileRows]
  BY DEF ArInit, Absent, FileRows, Texts
<1>3. ag \in AgRows
  BY DEF ArInit, Fresh, AgRows, NodePlaces, ToolCalls, Texts, Stops
<1>4. ArTypes
  BY <1>1, <1>2, <1>3 DEF ArTypes
<1>5. eng.pc = "idle" /\ used = Unused
  BY DEF ArInit
<1> QED BY <1>4, <1>5, ArAssumption
        DEF ArInv, CallKnown, StillVerified, CallsCounted, LateCounted, CompletedIsVerified, Unused

\* ArInv is an invariant, for any goal, any files and texts, and any budget of calls, steps, and
\* rounds, whenever a stop is asked for.
THEOREM AgentInvariant == ArSpec => []ArInv
<1>1. ArInv /\ [ArNext]_arVars => ArInv'
  <2> SUFFICES ASSUME ArInv, [ArNext]_arVars PROVE ArInv'
    OBVIOUS
  <2>1. CASE Submit \/ RequestStop \/ AnnounceStop \/ BeginRun \/ EmitTerminal \/ Close
    BY <2>1, EngineKeeps
  <2>2. CASE Decide \/ CheckModel \/ CheckTool \/ StartModel \/ StartTool
    BY <2>2, DecideKeeps, ChecksKeep, StartsKeep
  <2>3. CASE ModelRaises \/ InvalidOutput \/ ChooseTool \/ ProposeDone
    BY <2>3, AnswersKeep
  <2>4. CASE ToolSucceeds \/ ToolFails
    BY <2>4, ToolsKeep
  <2>5. CASE VerifyProposal \/ Reflect \/ Reflected
    BY <2>5, VerifyKeepsAr, ReflectKeeps, ReflectedKeeps
  <2>6. CASE UNCHANGED arVars
    <3>1. Failed' = Failed
      BY <2>6 DEF arVars, Failed, Relevant
    <3>2. ArTypes'
      BY <2>6 DEF arVars, ArInv, ArTypes
    <3> QED BY <2>6, <3>1, <3>2
            DEF arVars, ArInv, CallKnown, StillVerified, CallsCounted, LateCounted, CompletedIsVerified
  <2> QED BY <2>1, <2>2, <2>3, <2>4, <2>5, <2>6 DEF ArNext, RunnerStep
<1> QED BY <1>1, ArStart, PTL DEF ArSpec

\* RunSound is an invariant (src/src/paperclaw/agent/graph.py, src/src/paperclaw/agent/runtime.py,
\* src/src/paperclaw/harness/query_engine.py): a run that reports completed is verified on the files
\* as they are, every call that was begun has ended within its budget, and after an accepted
\* stop at most one more call begins, the one whose checks were already done.
THEOREM AgentRunsAreSound == ArSpec => []RunSound
<1>1. ArInv => RunSound
  <2> SUFFICES ASSUME ArInv PROVE RunSound
    OBVIOUS
  <2>1. CallsEnd
    BY DEF ArInv, CallsCounted, CallsEnd
  <2> QED BY <2>1 DEF ArInv, LateCounted, RunSound, StopHeard
<1> QED BY <1>1, AgentInvariant, PTL

-----------------------------------------------------------------------------
(* Plan mode: what the state holds *)

\* The texts of answers, and the rows of plans, questions and calls in hand.
AnswerTexts == Options \cup FreeTexts
PlanStatuses == {"awaiting_approval", "executing", "rejected"}
PlanRow == [status : PlanStatuses, version : Nat, approved : BOOLEAN, rejected : BOOLEAN]
QuestionRow == [options : SUBSET Options, free : BOOLEAN, status : {"pending", "answered"},
                answer : AnswerTexts \cup {"none"}]
PlanCalls == [tool : {"none", "answer", "told", "write"}, id : Nat, answer : AnswerTexts \cup {"none"},
              told : AnswerTexts \cup {"none"}]

\* Every variable has its type.
PmTypes ==
    /\ scope \in [phase : Phases, active : Nat]
    /\ plans \in Seq(PlanRow) /\ questions \in Seq(QuestionRow)
    /\ asker \in [Planners -> PlanCalls]
    /\ lastBy \in Planners \cup {"nobody"}
    /\ writes \in Nat

\* An answer in hand is one its question accepts, and who is told is told of an answered one.
AnswersInHand ==
    \A p \in Planners :
        /\ asker[p].tool \in {"answer", "told"} => asker[p].id \in DOMAIN questions
        /\ asker[p].tool = "answer" => asker[p].answer # "none" /\ Acceptable(asker[p].id, asker[p].answer)
        /\ asker[p].tool = "told" => questions[asker[p].id].status = "answered"

\* A plan that awaits approval was neither approved nor rejected before.
Undecided == \A n \in Awaiting : ~plans[n].approved /\ ~plans[n].rejected

\* The inductive invariant of plan mode.
PmInv == PmTypes /\ AnswersInHand /\ Undecided /\ PlanSound

-----------------------------------------------------------------------------
(* Plan mode: steps *)

\* A step of the plans, which leaves questions and calls alone.
LEMMA PlansKeep ==
    ASSUME PmInv, UNCHANGED <<questions, asker>>, PmTypes', OneAwaits', ExecutesApproved', DecidedOnce',
           Undecided', WritesWereAllowed'
    PROVE  PmInv'
<1>1. OneAnswer'
  BY DEF PmInv, PlanSound, OneAnswer
<1>2. AnswersInHand'
  BY DEF PmInv, AnswersInHand, Acceptable
<1>3. scope'.phase \in Phases
  BY DEF PmTypes
<1> QED BY <1>1, <1>2, <1>3 DEF PmInv, PlanSound

\* Plan mode is entered: no plan awaits approval then.
LEMMA EnterKeeps ==
    ASSUME PmInv, NEW p \in Planners, Enter(p)
    PROVE  PmInv'
<1>1. PmTypes'
  BY DEF PmInv, PmTypes, Enter, Phases
<1>2. Awaiting = {} /\ scope'.phase = "planning" /\ plans' = plans
  BY DEF PmInv, PlanSound, OneAwaits, Enter
<1>3. OneAwaits' /\ ExecutesApproved' /\ DecidedOnce' /\ Undecided'
  BY <1>2 DEF PmInv, Undecided, PlanSound, OneAwaits, Awaiting, ExecutesApproved, DecidedOnce
<1>4. WritesWereAllowed'
  BY DEF PmInv, PlanSound, WritesWereAllowed, Enter
<1> QED BY <1>1, <1>3, <1>4, PlansKeep DEF Enter

\* A plan is presented, the only one that awaits approval.
LEMMA CreateKeeps ==
    ASSUME PmInv, NEW p \in Planners, CreateArtifact(p)
    PROVE  PmInv'
<1> DEFINE new == [status |-> "awaiting_approval", version |-> 0, approved |-> FALSE, rejected |-> FALSE]
           n == Len(plans) + 1
<1>1. new \in PlanRow
  BY DEF PlanRow, PlanStatuses
<1>2. plans' \in Seq(PlanRow) /\ Len(plans') = n /\ n \in Nat
      /\ plans'[n] = new /\ \A i \in 1..Len(plans) : plans'[i] = plans[i]
  BY <1>1 DEF CreateArtifact, PmInv, PmTypes
<1>3. scope' = [phase |-> "awaiting_approval", active |-> n]
  BY DEF CreateArtifact
<1>4. DOMAIN plans' = DOMAIN plans \cup {n} /\ DOMAIN plans = 1..Len(plans) /\ n \notin DOMAIN plans
  BY <1>2 DEF PmInv, PmTypes
<1>5. PmTypes'
  BY <1>2, <1>3 DEF PmInv, PmTypes, CreateArtifact, Phases
<1>6. Awaiting = {} /\ new.status = "awaiting_approval" /\ new.version = 0 /\ ~new.approved /\ ~new.rejected
  BY DEF PmInv, PlanSound, OneAwaits, CreateArtifact
<1> HIDE DEF n, new
<1>7. Awaiting' = {n}
  BY <1>2, <1>4, <1>6 DEF Awaiting
<1>8. OneAwaits' /\ ExecutesApproved'
  BY <1>3, <1>7 DEF OneAwaits, ExecutesApproved
<1>9. DecidedOnce' /\ Undecided'
  BY <1>2, <1>4, <1>6, <1>7 DEF DecidedOnce, Undecided, PmInv, PlanSound
<1>10. WritesWereAllowed'
  BY DEF PmInv, PlanSound, WritesWereAllowed, CreateArtifact
<1> QED BY <1>5, <1>8, <1>9, <1>10, PlansKeep DEF CreateArtifact

\* A plan that awaits approval is approved or rejected, for the first time.
LEMMA DecidePlanKeeps ==
    ASSUME PmInv, NEW p \in Planners, NEW n \in DOMAIN plans, NEW approve \in BOOLEAN,
           DecidePlan(p, n, approve)
    PROVE  PmInv'
<1> DEFINE next == IF approve THEN "executing" ELSE "rejected"
           new == [plans[n] EXCEPT !.status = next, !.version = 1, !.approved = approve, !.rejected = ~approve]
<1>1. plans[n] \in PlanRow /\ Awaiting = {n} /\ plans[n].status = "awaiting_approval" /\ n \in Nat
      /\ DOMAIN plans = 1..Len(plans) /\ n # 0
  BY DEF PmInv, PlanSound, OneAwaits, DecidePlan, Decidable, PmTypes, Awaiting
<1>2. plans[n].version = 0 /\ ~plans[n].approved /\ ~plans[n].rejected
  BY <1>1 DEF PmInv, PlanSound, DecidedOnce, Undecided
<1>3. plans' = [plans EXCEPT ![n] = new]
  <2>1. plans' = [plans EXCEPT ![n].status = next, ![n].version = @ + 1,
                               ![n].approved = @ \/ approve, ![n].rejected = @ \/ ~approve]
    BY DEF DecidePlan
  <2>2. plans[n].version + 1 = 1 /\ (plans[n].approved \/ approve) = approve
        /\ (plans[n].rejected \/ ~approve) = ~approve
    BY <1>1, <1>2 DEF PlanRow
  <2> QED BY <2>1, <2>2
<1>4. new \in PlanRow /\ new.status = next /\ new.version = 1 /\ ~(new.approved /\ new.rejected)
  BY <1>1 DEF PlanRow, PlanStatuses
<1>5. next \in {"executing", "rejected"} /\ scope' = [phase |-> next, active |-> IF approve THEN n ELSE 0]
      /\ (next = "executing" => approve)
  BY DEF DecidePlan
<1> HIDE DEF new, next
<1>6. plans' \in Seq(PlanRow) /\ DOMAIN plans' = DOMAIN plans /\ plans'[n] = new
      /\ \A i \in DOMAIN plans : i # n => plans'[i] = plans[i]
  BY <1>1, <1>3, <1>4 DEF PmInv, PmTypes
<1>7. PmTypes'
  BY <1>1, <1>5, <1>6 DEF PmInv, PmTypes, DecidePlan, Phases
<1>8. Awaiting' = {}
  BY <1>1, <1>4, <1>5, <1>6 DEF Awaiting
<1>9. OneAwaits' /\ ExecutesApproved'
  BY <1>1, <1>4, <1>5, <1>6, <1>8 DEF OneAwaits, ExecutesApproved
<1>10. DecidedOnce' /\ Undecided'
  BY <1>1, <1>4, <1>6, <1>8 DEF DecidedOnce, Undecided, PmInv, PlanSound
<1>11. WritesWereAllowed'
  BY DEF PmInv, PlanSound, WritesWereAllowed, DecidePlan
<1> QED BY <1>7, <1>9, <1>10, <1>11, PlansKeep DEF DecidePlan

\* A step of calls and questions, which leaves plans and phase alone.
LEMMA CallsKeep ==
    ASSUME PmInv, UNCHANGED <<scope, plans, lastBy>>, PmTypes', AnswersInHand', OneAnswer', WritesWereAllowed'
    PROVE  PmInv'
<1>1. OneAwaits' /\ ExecutesApproved' /\ DecidedOnce' /\ Undecided'
  BY DEF PmInv, PlanSound, OneAwaits, Awaiting, ExecutesApproved, DecidedOnce, Undecided
<1> QED BY <1>1 DEF PmInv, PlanSound, PmTypes

\* A question is asked, open or of options.
LEMMA AskUserKeeps ==
    ASSUME PmInv, NEW p \in Planners, NEW offers \in {{}, Options}, NEW free \in BOOLEAN, AskUser(p, offers, free)
    PROVE  PmInv'
<1> DEFINE new == [options |-> offers, free |-> free, status |-> "pending", answer |-> "none"]
           n == Len(questions) + 1
<1>1. new \in QuestionRow /\ new.status = "pending" /\ new.answer = "none"
  BY DEF QuestionRow
<1>2. questions' \in Seq(QuestionRow) /\ Len(questions') = n /\ n \in Nat /\ questions'[n] = new
      /\ \A i \in 1..Len(questions) : questions'[i] = questions[i]
  BY <1>1 DEF AskUser, PmInv, PmTypes
<1>3. DOMAIN questions' = DOMAIN questions \cup {n} /\ DOMAIN questions = 1..Len(questions) /\ n \notin DOMAIN questions
  BY <1>2 DEF PmInv, PmTypes
<1> HIDE DEF new, n
<1>4. PmTypes'
  BY <1>2 DEF AskUser, PmInv, PmTypes
<1>5. AnswersInHand'
  BY <1>2, <1>3 DEF AskUser, PmInv, AnswersInHand, Acceptable
<1>6. OneAnswer'
  BY <1>1, <1>2, <1>3 DEF AskUser, PmInv, PlanSound, OneAnswer, AnswersInHand
<1>7. WritesWereAllowed'
  BY DEF PmInv, PlanSound, WritesWereAllowed, AskUser
<1> QED BY <1>4, <1>5, <1>6, <1>7, CallsKeep DEF AskUser

\* A planner takes another call or goes on with one, and no question changes.
LEMMA HandKeeps ==
    ASSUME PmInv, NEW p \in Planners, UNCHANGED <<scope, plans, questions, lastBy>>, writes' \in Nat,
           NEW c \in PlanCalls, asker' = [asker EXCEPT ![p] = c], c.tool \in {"none", "answer", "write"},
           c.tool = "answer" => c.id \in DOMAIN questions /\ c.answer # "none" /\ Acceptable(c.id, c.answer),
           c.tool = "write" => scope.phase \notin Denied
    PROVE  PmInv'
<1>1. \A q \in Planners : asker'[q] = IF q = p THEN c ELSE asker[q]
  BY DEF PmInv, PmTypes
<1>2. PmTypes'
  BY DEF PmInv, PmTypes
<1>3. AnswersInHand'
  BY <1>1 DEF PmInv, AnswersInHand, Acceptable
<1>4. OneAnswer' /\ WritesWereAllowed'
  BY <1>1 DEF PmInv, PlanSound, OneAnswer, WritesWereAllowed
<1> QED BY <1>2, <1>3, <1>4, CallsKeep

\* An answer is checked, told, or a write checked and done.
LEMMA StepsInHandKeep ==
    ASSUME PmInv, NEW p \in Planners,
           \/ \E n \in DOMAIN questions, text \in AnswerTexts : CheckAnswer(p, n, text)
           \/ Told(p) \/ CheckWrite(p) \/ Write(p)
    PROVE  PmInv'
<1>1. ASSUME NEW n \in DOMAIN questions, NEW text \in AnswerTexts, CheckAnswer(p, n, text)
      PROVE  PmInv'
  <2> DEFINE c == [tool |-> "answer", id |-> n, answer |-> text, told |-> "none"]
  <2>1. c \in PlanCalls /\ c.tool = "answer" /\ c.id = n /\ c.answer = text
    BY DEF PlanCalls, PmInv, PmTypes
  <2>2. asker' = [asker EXCEPT ![p] = c] /\ UNCHANGED <<scope, plans, questions, lastBy, writes>> /\ Acceptable(n, text)
    BY <1>1 DEF CheckAnswer
  <2>3. text # "none" /\ writes' \in Nat
    BY <2>2, PmAssumption DEF AnswerTexts, PmInv, PmTypes
  <2> HIDE DEF c
  <2> QED BY <2>1, <2>2, <2>3, HandKeeps
<1>2. NoPlanCall \in PlanCalls /\ NoPlanCall.tool = "none"
  BY DEF NoPlanCall, PlanCalls
<1>3. CASE Told(p) \/ Write(p)
  BY <1>2, <1>3, HandKeeps DEF Told, Write, PmInv, PmTypes
<1>4. CASE CheckWrite(p)
  <2> DEFINE c == [NoPlanCall EXCEPT !.tool = "write"]
  <2>1. c \in PlanCalls /\ c.tool = "write"
    BY DEF NoPlanCall, PlanCalls
  <2>2. asker' = [asker EXCEPT ![p] = c] /\ UNCHANGED <<scope, plans, questions, lastBy>> /\ writes' = writes + 1
        /\ scope.phase \notin Denied
    BY <1>4 DEF CheckWrite
  <2>3. writes' \in Nat
    BY <2>2 DEF PmInv, PmTypes
  <2> HIDE DEF c
  <2> QED BY <2>1, <2>2, <2>3, HandKeeps
<1> QED BY <1>1, <1>3, <1>4

\* An answer is stored when none is yet; who gave it is told what is stored.
LEMMA StoreKeeps ==
    ASSUME PmInv, NEW p \in Planners, StoreAnswer(p)
    PROVE  PmInv'
<1> DEFINE n == asker[p].id
           new == [questions[n] EXCEPT !.status = "answered", !.answer = asker[p].answer]
           stored == IF questions[n].status = "pending" THEN new ELSE questions[n]
           c == [asker[p] EXCEPT !.tool = "told", !.told = stored.answer]
<1>1. /\ asker[p].tool = "answer" /\ n \in DOMAIN questions /\ asker[p] \in PlanCalls /\ questions[n] \in QuestionRow
      /\ asker[p].answer # "none" /\ Acceptable(n, asker[p].answer) /\ asker[p].answer \in AnswerTexts
  BY DEF PmInv, PmTypes, AnswersInHand, StoreAnswer, PlanCalls
<1>2. /\ new \in QuestionRow /\ new.status = "answered" /\ new.answer = asker[p].answer
      /\ new.options = questions[n].options /\ new.free = questions[n].free
  BY <1>1 DEF QuestionRow
<1>3. questions' = [questions EXCEPT ![n] = stored] /\ asker' = [asker EXCEPT ![p] = c]
  <2>1. /\ questions' = [questions EXCEPT ![n] = stored]
        /\ asker' = [asker EXCEPT ![p].tool = "told", ![p].told = stored.answer]
    BY DEF StoreAnswer
  <2> DEFINE text == stored.answer
  <2>2. asker' = [asker EXCEPT ![p].tool = "told", ![p].told = text]
    BY <2>1
  <2>3. c = [asker[p] EXCEPT !.tool = "told", !.told = text]
    OBVIOUS
  <2> HIDE DEF text, c, stored, new
  <2>4. asker' = [asker EXCEPT ![p] = c]
    BY <2>2, <2>3
  <2> QED BY <2>1, <2>4
<1>4. /\ stored \in QuestionRow /\ stored.status = "answered" /\ stored.answer # "none"
      /\ stored.options = questions[n].options /\ stored.free = questions[n].free
      /\ stored.answer \in Options \cup (IF stored.free \/ stored.options = {} THEN FreeTexts ELSE {}) \cup {"none"}
      /\ questions[n].status = "answered" => stored = questions[n]
  <2>1. CASE questions[n].status = "pending"
    <3>1. stored = new /\ new.answer \in AnswerTexts /\ new.answer # "none"
      BY <1>1, <1>2, <2>1
    <3>2. new.answer \in Options \/ new.options = {} \/ new.free
      BY <1>1, <1>2 DEF Acceptable, QuestionRow
    <3> HIDE DEF new, stored
    <3> QED BY <1>2, <2>1, <3>1, <3>2 DEF AnswerTexts
  <2>2. CASE questions[n].status # "pending"
    <3>1. stored = questions[n] /\ questions[n].status = "answered"
      BY <1>1, <2>2 DEF QuestionRow
    <3> HIDE DEF new, stored
    <3> QED BY <1>1, <3>1 DEF PmInv, PlanSound, OneAnswer
  <2> QED BY <2>1, <2>2
<1>5. c \in PlanCalls /\ c.tool = "told" /\ c.id = n /\ c.told = stored.answer
  BY <1>1, <1>4 DEF PlanCalls, QuestionRow
<1> HIDE DEF n, new, stored, c
<1>6. /\ questions' \in Seq(QuestionRow) /\ DOMAIN questions' = DOMAIN questions
      /\ \A i \in DOMAIN questions : questions'[i] = IF i = n THEN stored ELSE questions[i]
  BY <1>1, <1>3, <1>4 DEF PmInv, PmTypes
<1>7. \A q \in Planners : asker'[q] = IF q = p THEN c ELSE asker[q]
  BY <1>3 DEF PmInv, PmTypes
<1>8. PmTypes'
  <2>1. asker' \in [Planners -> PlanCalls]
    BY <1>3, <1>5 DEF PmInv, PmTypes
  <2>2. UNCHANGED <<scope, plans, lastBy, writes>>
    BY DEF StoreAnswer
  <2> QED BY <1>6, <2>1, <2>2 DEF PmInv, PmTypes
<1>9. AnswersInHand'
  <2> SUFFICES ASSUME NEW q \in Planners
               PROVE  /\ asker'[q].tool \in {"answer", "told"} => asker'[q].id \in DOMAIN questions'
                      /\ asker'[q].tool = "answer" =>
                            asker'[q].answer # "none" /\ Acceptable(asker[q].id, asker[q].answer)'
                      /\ asker'[q].tool = "told" => questions'[asker'[q].id].status = "answered"
    BY DEF AnswersInHand
  <2>1. CASE q = p
    BY <1>1, <1>4, <1>5, <1>6, <1>7, <2>1
  <2>2. CASE q # p
    BY <1>4, <1>6, <1>7, <2>2 DEF PmInv, AnswersInHand, Acceptable
  <2> QED BY <2>1, <2>2
<1>10. OneAnswer'
  <2> SUFFICES ASSUME NEW i \in DOMAIN questions
               PROVE  /\ (questions'[i].status = "answered") <=> (questions'[i].answer # "none")
                      /\ questions'[i].answer \in Options \cup
                             (IF questions'[i].free \/ questions'[i].options = {} THEN FreeTexts ELSE {}) \cup {"none"}
                      /\ \A q \in Planners : asker'[q].tool = "told" /\ asker'[q].id = i =>
                             asker'[q].told = questions'[i].answer
    BY <1>6 DEF OneAnswer
  <2>1. /\ (questions[i].status = "answered") <=> (questions[i].answer # "none")
        /\ questions[i].answer \in Options \cup
               (IF questions[i].free \/ questions[i].options = {} THEN FreeTexts ELSE {}) \cup {"none"}
        /\ \A q \in Planners : asker[q].tool = "told" /\ asker[q].id = i =>
               asker[q].told = questions[i].answer /\ questions[i].status = "answered"
    BY DEF PmInv, PlanSound, OneAnswer, AnswersInHand
  <2>2. CASE i = n
    BY <1>4, <1>5, <1>6, <1>7, <2>1, <2>2
  <2>3. CASE i # n
    BY <1>5, <1>6, <1>7, <2>1, <2>3
  <2> QED BY <2>2, <2>3
<1>11. WritesWereAllowed'
  BY <1>5, <1>7 DEF PmInv, PlanSound, WritesWereAllowed, StoreAnswer
<1> QED BY <1>8, <1>9, <1>10, <1>11, CallsKeep DEF StoreAnswer

-----------------------------------------------------------------------------
(* Plan mode: the theorems *)

\* PmInv is an invariant, for any number of planners, plans, questions and texts of answers.
THEOREM PlanInvariant == PmSpec => []PmInv
<1>1. PmInit => PmInv
  <2> SUFFICES ASSUME PmInit PROVE PmInv
    OBVIOUS
  <2>1. NoPlanCall \in PlanCalls /\ NoPlanCall.tool = "none"
    BY DEF NoPlanCall, PlanCalls
  <2>2. DOMAIN plans = {} /\ DOMAIN questions = {} /\ scope.phase = "idle" /\ \A p \in Planners : asker[p].tool = "none"
    BY <2>1 DEF PmInit
  <2>3. PmTypes
    BY <2>1 DEF PmInit, PmTypes, Phases
  <2> QED BY <2>2, <2>3 DEF PmInv, AnswersInHand, Undecided, PlanSound, OneAwaits, Awaiting, ExecutesApproved,
             DecidedOnce, WritesWereAllowed, OneAnswer, Phases
<1>2. PmInv /\ [PmNext]_pmVars => PmInv'
  <2> SUFFICES ASSUME PmInv, [PmNext]_pmVars PROVE PmInv'
    OBVIOUS
  <2>1. CASE PmNext
    BY <2>1, EnterKeeps, CreateKeeps, DecidePlanKeeps, AskUserKeeps, StepsInHandKeep, StoreKeeps DEF PmNext, AnswerTexts
  <2>2. CASE UNCHANGED pmVars
    BY <2>2 DEF pmVars, PmInv, PmTypes, AnswersInHand, Acceptable, Undecided, PlanSound, OneAwaits, Awaiting,
       ExecutesApproved, DecidedOnce, WritesWereAllowed, OneAnswer
  <2> QED BY <2>1, <2>2
<1> QED BY <1>1, <1>2, PTL DEF PmSpec

\* PlanSound is an invariant (src/src/paperclaw/planning/runtime.py, tools.py): however
\* planners interleave the check of a phase, a plan or an answer with the store of it, one plan
\* at most awaits approval and what executes is the plan that was approved; a plan is decided
\* once; an agent writes in a phase that forbids it only when another changed the phase after
\* its check; and a question has one answer, which its options allow and which is the one told
\* to everyone who answered.
THEOREM PlansAreSound == PmSpec => []PlanSound
<1>1. PmInv => PlanSound
  BY DEF PmInv
<1> QED BY <1>1, PlanInvariant, PTL

-----------------------------------------------------------------------------
(* MCP connections: what the state holds *)

\* What a line says, how a call ends, the names of tools, and the rows of lines, callers and
\* workers.
Says == {"ok", "protocol error", "invalid response", "invalid result", "garbled", "note", "stray", "eof"}
Outcomes == Says \cup TransportErrors \cup {"none", "denied", "closed", "cancelled", "refused"}
Named == AllRemote \cup {"setup", "none"}
Lines == [id : Nat, says : Says, tool : Named]
CallerRows == [pc : {"idle", "lock", "poll"}, tool : Named, result : Outcomes]
CallWorkers == [pc : {"none", "call", "wait", "over"}, id : Nat, tool : Named, got : Outcomes, from : Named]

\* Every variable has its type.
McTypes ==
    /\ requests \subseteq [id : Nat, tool : Named] /\ inbox \in Seq(Lines) /\ tclosed \in BOOLEAN
    /\ session \in [state : {"new", "connected", "initialized", "failed", "closed"}, next : Nat, tools : SUBSET AllRemote]
    /\ setup \in [pc : {"start", "ask", "wait", "register", "done", "failed"}, id : Nat, pages : Nat]
    /\ conn \in [made : BOOLEAN, closed : BOOLEAN, lock : Callers \cup {"free"}]
    /\ caller \in [Callers -> CallerRows] /\ worker \in [Callers -> CallWorkers]

\* Every id that is about is one that was given out; one message at most has it.
IdsGiven ==
    /\ session.next > 0 /\ setup.id < session.next
    /\ \A r \in requests : 0 < r.id /\ r.id < session.next
    /\ \A k \in DOMAIN inbox : inbox[k].id < session.next
    /\ \A v \in Callers : worker[v].id < session.next
IdsOnce ==
    /\ \A r, s \in requests : r.id = s.id => r = s
    /\ \A r \in requests, k \in DOMAIN inbox : r.id # inbox[k].id
    /\ \A j, k \in DOMAIN inbox : inbox[j].id = inbox[k].id => j = k \/ inbox[j].id = 0

\* What has the id of a request that a worker waits for is about its tool.
AboutTheTool ==
    \A v \in Callers : worker[v].pc = "wait" =>
        /\ worker[v].id > 0
        /\ \A r \in requests : r.id = worker[v].id => r.tool = worker[v].tool
        /\ \A k \in DOMAIN inbox : inbox[k].id = worker[v].id => inbox[k].tool = worker[v].tool

\* Who has the lock polls for its worker; a worker that nobody polls for works on a closed connection.
Threads ==
    /\ \A x \in Callers : caller[x].pc = "poll" => conn.lock = x
    /\ \A v \in AtWork : conn.closed \/ caller[v].pc = "poll"
    /\ conn.made => setup.pc = "done"
    /\ ~conn.made => /\ ~conn.closed /\ session.state # "failed"
                     /\ \A x \in Callers : caller[x].pc = "idle" /\ worker[x].pc = "none"

\* Until the connection fails or closes, whatever is on its way is waited for.
Awaited(id) == (setup.pc = "wait" /\ setup.id = id) \/ \E v \in Callers : worker[v].pc = "wait" /\ worker[v].id = id
Open == ~conn.closed /\ setup.pc # "failed" /\ session.state # "failed"
NothingStray ==
    Open => /\ \A r \in requests : Awaited(r.id)
            /\ \A k \in DOMAIN inbox : inbox[k].id = 0 \/ Awaited(inbox[k].id)

\* The inductive invariant of a connection to an MCP server.
McInv == /\ McTypes /\ IdsGiven /\ IdsOnce /\ AboutTheTool /\ Threads /\ NothingStray
         /\ ResultIsOfTheCall /\ NothingLeft /\ AllOrNone

-----------------------------------------------------------------------------
(* MCP connections: the wire *)

\* A message is queued, as the answer to a request or to none.
LEMMA WireKeeps ==
    ASSUME McInv, NEW line \in Lines, Queue(line),
           \/ line.id = 0 /\ requests' \subseteq requests
           \/ \E r \in requests : line.id = r.id /\ line.tool = r.tool /\ requests' = requests \ {r},
           UNCHANGED <<tclosed, session, setup, registry, conn, caller, worker>>
    PROVE  McInv'
<1>1. requests' \subseteq requests
  OBVIOUS
<1>2. inbox' = inbox \/ inbox' = Append(inbox, line)
  BY DEF Queue
<1>3. /\ inbox' \in Seq(Lines)
      /\ \A k \in DOMAIN inbox' : (k \in DOMAIN inbox /\ inbox'[k] = inbox[k]) \/ (k \notin DOMAIN inbox /\ inbox'[k] = line)
      /\ \A j, k \in DOMAIN inbox' : j \notin DOMAIN inbox /\ k \notin DOMAIN inbox => j = k
  <2>1. CASE inbox' = inbox
    BY <2>1 DEF McInv, McTypes
  <2>2. CASE inbox' = Append(inbox, line)
    <3>1. /\ inbox' \in Seq(Lines) /\ Len(inbox) \in Nat /\ DOMAIN inbox = 1..Len(inbox)
          /\ DOMAIN inbox' = 1..Len(inbox) + 1 /\ inbox'[Len(inbox) + 1] = line
          /\ \A k \in 1..Len(inbox) : inbox'[k] = inbox[k]
      BY <2>2 DEF McInv, McTypes
    <3> QED BY <3>1
  <2> QED BY <1>2, <2>1, <2>2
<1>4. line.id = 0 \/ (/\ \E r \in requests : line.id = r.id /\ line.tool = r.tool
                      /\ \A r \in requests' : r.id # line.id
                      /\ \A k \in DOMAIN inbox : inbox[k].id # line.id)
  BY DEF McInv, IdsOnce
<1>5. McTypes'
  BY <1>1, <1>3 DEF McInv, McTypes
<1>6. IdsGiven'
  BY <1>1, <1>3, <1>4 DEF McInv, IdsGiven
<1>7. IdsOnce'
  BY <1>1, <1>3, <1>4 DEF McInv, IdsOnce, IdsGiven
<1>8. AboutTheTool'
  BY <1>1, <1>3, <1>4 DEF McInv, AboutTheTool
<1>9. Threads' /\ ResultIsOfTheCall' /\ NothingLeft' /\ AllOrNone'
  BY DEF McInv, Threads, AtWork, ResultIsOfTheCall, NothingLeft, AllOrNone
<1>10. NothingStray'
  <2>1. Open' = Open /\ \A id : Awaited(id)' = Awaited(id)
    BY DEF Open, Awaited
  <2> QED BY <1>1, <1>3, <1>4, <2>1 DEF McInv, NothingStray
<1> QED BY <1>5, <1>6, <1>7, <1>8, <1>9, <1>10 DEF McInv

\* The oldest message is taken from the queue; the others move up by one.
LEMMA Dequeued ==
    ASSUME McTypes, inbox # <<>>, inbox' = Tail(inbox)
    PROVE  /\ inbox' \in Seq(Lines) /\ Head(inbox) = inbox[1] /\ Head(inbox) \in Lines /\ 1 \in DOMAIN inbox
           /\ \A k \in DOMAIN inbox' : k \in Nat /\ k > 0 /\ k + 1 \in DOMAIN inbox /\ inbox'[k] = inbox[k + 1]
BY DEF McTypes

\* A step that asks nothing and takes one message at most.
LEMMA WaitsKeep ==
    ASSUME McInv, requests' \subseteq requests, inbox' = inbox \/ (inbox # <<>> /\ inbox' = Tail(inbox)),
           session'.next = session.next, setup'.id = setup.id,
           \A v \in Callers : worker'[v].id \in {0, worker[v].id},
           \A v \in Callers : worker'[v].pc = "wait" => worker'[v] = worker[v],
           Open' => Open /\ \A id : Awaited(id) => Awaited(id)' \/ (inbox # <<>> /\ inbox' = Tail(inbox) /\ id = Head(inbox).id)
    PROVE  IdsGiven' /\ IdsOnce' /\ AboutTheTool' /\ NothingStray' /\ inbox' \in Seq(Lines)
<1>1. CASE inbox' = inbox
  <2>1. IdsGiven' /\ inbox' \in Seq(Lines)
    BY <1>1 DEF McInv, McTypes, IdsGiven
  <2>2. IdsOnce'
    BY <1>1 DEF McInv, IdsOnce
  <2>3. AboutTheTool'
    BY <1>1 DEF McInv, AboutTheTool
  <2>4. ~(inbox # <<>> /\ inbox' = Tail(inbox))
    BY <1>1 DEF McInv, McTypes
  <2>5. NothingStray'
    BY <1>1, <2>4 DEF McInv, NothingStray
  <2> QED BY <2>1, <2>2, <2>3, <2>5
<1>2. CASE inbox # <<>> /\ inbox' = Tail(inbox)
  <2>1. /\ inbox' \in Seq(Lines) /\ Head(inbox) = inbox[1] /\ Head(inbox) \in Lines /\ 1 \in DOMAIN inbox
        /\ \A k \in DOMAIN inbox' : k \in Nat /\ k > 0 /\ k + 1 \in DOMAIN inbox /\ inbox'[k] = inbox[k + 1]
    BY <1>2, Dequeued DEF McInv
  <2>2. IdsGiven'
    BY <2>1 DEF McInv, McTypes, IdsGiven
  <2>3. IdsOnce'
    <3>1. \A j, k \in DOMAIN inbox' : inbox'[j].id = inbox'[k].id => j = k \/ inbox'[j].id = 0
      <4> SUFFICES ASSUME NEW j \in DOMAIN inbox', NEW k \in DOMAIN inbox', inbox'[j].id = inbox'[k].id
                   PROVE  j = k \/ inbox'[j].id = 0
        OBVIOUS
      <4>1. j + 1 = k + 1 \/ inbox[j + 1].id = 0
        BY <2>1 DEF McInv, IdsOnce
      <4> QED BY <2>1, <4>1
    <3> QED BY <2>1, <3>1 DEF McInv, IdsOnce
  <2>4. AboutTheTool'
    <3> SUFFICES ASSUME NEW v \in Callers, worker'[v].pc = "wait"
                 PROVE  /\ worker'[v].id > 0
                        /\ \A r \in requests' : r.id = worker'[v].id => r.tool = worker'[v].tool
                        /\ \A k \in DOMAIN inbox' : inbox'[k].id = worker'[v].id => inbox'[k].tool = worker'[v].tool
      BY DEF AboutTheTool
    <3>1. worker'[v] = worker[v]
      OBVIOUS
    <3>2. /\ worker[v].id > 0
          /\ \A r \in requests : r.id = worker[v].id => r.tool = worker[v].tool
          /\ \A k \in DOMAIN inbox : inbox[k].id = worker[v].id => inbox[k].tool = worker[v].tool
      BY <3>1 DEF McInv, AboutTheTool
    <3>3. ASSUME NEW k \in DOMAIN inbox', inbox'[k].id = worker[v].id PROVE inbox'[k].tool = worker[v].tool
      <4>1. PICK n \in DOMAIN inbox : inbox'[k] = inbox[n]
        BY <2>1, <3>3
      <4> QED BY ONLY <3>2, <3>3, <4>1
    <3> QED BY <3>1, <3>2, <3>3
  <2>5. ASSUME Open' PROVE \A r \in requests' : Awaited(r.id)'
    <3> SUFFICES ASSUME NEW r \in requests' PROVE Awaited(r.id)'
      OBVIOUS
    <3>1. Awaited(r.id) /\ r.id # Head(inbox).id
      BY <2>1, <2>5 DEF McInv, IdsOnce, NothingStray
    <3> QED BY <2>5, <3>1
  <2>6. \A k \in DOMAIN inbox' : Open' => inbox'[k].id = 0 \/ Awaited(inbox[k].id)'
    <3> SUFFICES ASSUME NEW k \in DOMAIN inbox', Open' PROVE inbox'[k].id = 0 \/ Awaited(inbox[k].id)'
      OBVIOUS
    <3>0. k \in Nat /\ k > 0 /\ k + 1 \in DOMAIN inbox /\ inbox'[k] = inbox[k + 1]
      BY <2>1
    <3>1. PICK id : id = inbox'[k].id
      OBVIOUS
    <3>2. id = 0 \/ (Awaited(id) /\ id # Head(inbox).id)
      <4>1. inbox[k + 1].id = id /\ k + 1 # 1
        BY <3>0, <3>1
      <4>2. id = 0 \/ id # Head(inbox).id
        BY <2>1, <3>0, <4>1 DEF McInv, IdsOnce
      <4> QED BY <3>0, <4>1, <4>2 DEF McInv, NothingStray
    <3>3. id = 0 \/ Awaited(id)'
      BY <3>2
    <3>4. Awaited(id)' => Awaited(inbox[k].id)'
      BY <3>1 DEF Awaited
    <3> QED BY <3>1, <3>3, <3>4
  <2>7. NothingStray'
    BY <2>5, <2>6 DEF NothingStray
  <2> QED BY <2>1, <2>2, <2>3, <2>4, <2>7
<1> QED BY <1>1, <1>2

\* A request is sent under a new id, which the one who asks waits for.
LEMMA AskingKeeps ==
    ASSUME McInv, NEW tool \in Named, NEW n \in Nat, n = session.next,
           requests' = requests \cup {[id |-> n, tool |-> tool]}, inbox' = inbox,
           session'.next = n + 1, setup'.id \in {setup.id, n},
           \A v \in Callers : worker'[v].id \in {worker[v].id, n},
           \A v \in Callers : worker'[v].pc = "wait" => worker'[v] = worker[v] \/ (worker'[v].id = n /\ worker'[v].tool = tool),
           Open' => Open, Awaited(n)', \A id : Awaited(id) => Awaited(id)'
    PROVE  IdsGiven' /\ IdsOnce' /\ AboutTheTool' /\ NothingStray' /\ requests' \subseteq [id : Nat, tool : Named]
<1> DEFINE new == [id |-> n, tool |-> tool]
<1>1. new \in [id : Nat, tool : Named] /\ new.id = n /\ new.tool = tool /\ requests' = requests \cup {new}
  OBVIOUS
<1> HIDE DEF new
<1>2. /\ \A r \in requests : r.id < n /\ r.id \in Nat
      /\ \A k \in DOMAIN inbox : inbox[k].id < n /\ inbox[k].id \in Nat
      /\ \A v \in Callers : worker[v].id < n /\ worker[v].id \in Nat
      /\ setup.id < n /\ setup.id \in Nat /\ n > 0
  <2>1. \A r \in requests : r.id < n /\ r.id \in Nat
    BY DEF McInv, McTypes, IdsGiven
  <2>2. \A k \in DOMAIN inbox : inbox[k].id < n /\ inbox[k].id \in Nat
    <3>1. \A k \in DOMAIN inbox : inbox[k] \in Lines
      BY DEF McInv, McTypes
    <3> QED BY <3>1 DEF McInv, IdsGiven, Lines
  <2>3. \A v \in Callers : worker[v].id < n /\ worker[v].id \in Nat
    BY DEF McInv, McTypes, IdsGiven, CallWorkers
  <2>4. setup.id < n /\ setup.id \in Nat /\ n > 0
    BY DEF McInv, McTypes, IdsGiven
  <2> QED BY <2>1, <2>2, <2>3, <2>4
<1>3. IdsGiven'
  <2>1. session'.next > 0 /\ setup'.id < session'.next
    BY <1>2
  <2>2. \A r \in requests' : 0 < r.id /\ r.id < session'.next
    BY <1>1, <1>2 DEF McInv, IdsGiven
  <2>3. \A k \in DOMAIN inbox' : inbox'[k].id < session'.next
    BY <1>2
  <2>4. \A v \in Callers : worker'[v].id < session'.next
    <3> SUFFICES ASSUME NEW v \in Callers PROVE worker'[v].id < n + 1
      OBVIOUS
    <3> QED BY <1>2
  <2> QED BY <2>1, <2>2, <2>3, <2>4 DEF IdsGiven
<1>4. IdsOnce'
  BY <1>1, <1>2 DEF McInv, IdsOnce
<1>5. AboutTheTool'
  BY <1>1, <1>2 DEF McInv, AboutTheTool
<1>6. NothingStray'
  BY <1>1, <1>2 DEF McInv, NothingStray
<1>7. requests' \subseteq [id : Nat, tool : Named]
  BY <1>1 DEF McInv, McTypes
<1> QED BY <1>3, <1>4, <1>5, <1>6, <1>7

\* What a line is heard as.
LEMMA HeardIs ==
    ASSUME NEW line \in Lines, NEW id
    PROVE  /\ Heard(line, id) \in Outcomes
           /\ Heard(line, id) = "ok" => line.says = "ok" /\ line.id = id
           /\ Heard(line, id) \in Terminal \/ line.says = "note" \/ line.id = id
BY DEF Heard, Lines, Says, Outcomes, Terminal, TransportErrors

-----------------------------------------------------------------------------
(* MCP connections: the setup *)

\* Before the tools are registered there is no connection, and no call.
LEMMA NotYetMade ==
    ASSUME McInv, setup.pc # "done"
    PROVE  /\ ~conn.made /\ ~conn.closed /\ AtWork = {} /\ registry = Local /\ session.state # "failed"
           /\ \A x \in Callers : worker[x].pc = "none" /\ caller[x].pc = "idle"
BY DEF McInv, Threads, AtWork, AllOrNone

\* The setup is given up.
LEMMA GiveUpKeeps ==
    ASSUME McInv, setup.pc # "done", GiveUpSetup, UNCHANGED <<requests, registry, conn, caller, worker>>,
           inbox' = inbox \/ (inbox # <<>> /\ inbox' = Tail(inbox))
    PROVE  McInv'
<1> DEFINE s == [session EXCEPT !.state = "closed", !.tools = {}]
           u == [setup EXCEPT !.pc = "failed"]
<1>1. /\ session' = s /\ s \in [state : {"new", "connected", "initialized", "failed", "closed"}, next : Nat, tools : SUBSET AllRemote]
      /\ s.next = session.next /\ s.state = "closed"
      /\ setup' = u /\ u \in [pc : {"start", "ask", "wait", "register", "done", "failed"}, id : Nat, pages : Nat]
      /\ u.pc = "failed" /\ u.id = setup.id /\ tclosed' = TRUE
  BY DEF GiveUpSetup, CloseSession, McInv, McTypes
<1> HIDE DEF s, u
<1>2. ~Open'
  BY <1>1 DEF Open
<1>3. IdsGiven' /\ IdsOnce' /\ AboutTheTool' /\ NothingStray' /\ inbox' \in Seq(Lines)
  BY <1>1, <1>2, WaitsKeep
<1>4. McTypes'
  BY <1>1, <1>3 DEF McInv, McTypes
<1>5. Threads' /\ AllOrNone'
  BY <1>1, NotYetMade DEF McInv, Threads, AtWork, AllOrNone
<1>6. NothingLeft' /\ ResultIsOfTheCall'
  BY <1>1 DEF McInv, NothingLeft, ResultIsOfTheCall
<1> QED BY <1>3, <1>4, <1>5, <1>6 DEF McInv

\* The setup goes on: nothing but its own variables, and one message at most.
LEMMA SetupGoesOn ==
    ASSUME McInv, setup.pc \notin {"done", "failed"},
           NEW s \in [state : {"new", "connected", "initialized", "failed", "closed"}, next : Nat, tools : SUBSET AllRemote],
           NEW u \in [pc : {"start", "ask", "wait", "register"}, id : Nat, pages : Nat],
           session' = s, setup' = u, s.state # "failed", UNCHANGED <<tclosed, registry, conn, caller, worker>>,
           IdsGiven', IdsOnce', AboutTheTool', NothingStray', inbox' \in Seq(Lines),
           requests' \subseteq [id : Nat, tool : Named]
    PROVE  McInv'
<1>1. McTypes'
  BY DEF McInv, McTypes
<1>2. Threads' /\ AllOrNone'
  BY NotYetMade DEF McInv, Threads, AtWork, AllOrNone
<1>3. NothingLeft' /\ ResultIsOfTheCall'
  BY NotYetMade DEF McInv, NothingLeft, ResultIsOfTheCall
<1> QED BY <1>1, <1>2, <1>3 DEF McInv

\* The server is started, initialized and asked for its pages, and the tools are registered.
LEMMA SetupKeeps ==
    ASSUME McInv, Connect \/ SetupAsks \/ SetupHears \/ SetupRefused \/ RegisterTools
    PROVE  McInv'
<1> DEFINE SessionRows == [state : {"new", "connected", "initialized", "failed", "closed"}, next : Nat, tools : SUBSET AllRemote]
           SetupRows == [pc : {"start", "ask", "wait", "register"}, id : Nat, pages : Nat]
<1>1. setup.pc \notin {"done", "failed"}
  BY DEF Connect, SetupAsks, SetupHears, SetupRefused, RegisterTools
<1>2. setup \in SetupRows /\ session \in SessionRows /\ requests \subseteq [id : Nat, tool : Named] /\ inbox \in Seq(Lines)
  BY <1>1 DEF McInv, McTypes
<1>3. /\ \A v \in Callers : worker[v].pc = "none"
      /\ \A id : Awaited(id) => setup.pc = "wait" /\ setup.id = id
      /\ Open /\ session.state # "failed"
  BY <1>1, NotYetMade DEF Awaited, Open
<1>4. CASE GiveUpSetup /\ UNCHANGED <<requests, registry, conn, caller, worker>>
           /\ (inbox' = inbox \/ (inbox # <<>> /\ inbox' = Tail(inbox)))
  BY <1>1, <1>4, GiveUpKeeps
<1>5. CASE Connect /\ ~GiveUpSetup
  <2> DEFINE s == [session EXCEPT !.state = "connected"]
             u == [setup EXCEPT !.pc = "ask"]
  <2>1. /\ s \in SessionRows /\ s.next = session.next /\ session' = s /\ s.state = "connected"
        /\ u \in SetupRows /\ setup' = u /\ u.id = setup.id /\ u.pc = "ask"
        /\ setup.pc = "start" /\ UNCHANGED <<requests, inbox, tclosed, registry, conn, caller, worker>>
    BY <1>2, <1>5 DEF Connect, callVars
  <2> HIDE DEF s, u
  <2>2. IdsGiven' /\ IdsOnce' /\ AboutTheTool' /\ NothingStray' /\ inbox' \in Seq(Lines)
    BY <1>3, <2>1, WaitsKeep
  <2> QED BY <1>1, <1>2, <2>1, <2>2, SetupGoesOn
<1>6. CASE SetupAsks /\ ~GiveUpSetup
  <2>1. PICK n \in Nat : n = session.next
    BY <1>2
  <2> DEFINE s == [session EXCEPT !.next = n + 1]
             u == [setup EXCEPT !.pc = "wait", !.id = n]
  <2>2. /\ s \in SessionRows /\ s.next = n + 1 /\ session' = s /\ s.state = session.state
        /\ u \in SetupRows /\ setup' = u /\ u.id = n /\ u.pc = "wait" /\ setup.pc = "ask"
        /\ requests' = requests \cup {[id |-> n, tool |-> "setup"]}
        /\ UNCHANGED <<inbox, tclosed, registry, conn, caller, worker>>
    <3>1. /\ session' = s /\ setup' = u /\ setup.pc = "ask"
          /\ requests' = requests \cup {[id |-> n, tool |-> "setup"]}
          /\ UNCHANGED <<inbox, tclosed, registry, conn, caller, worker>>
      BY <1>6, <2>1 DEF SetupAsks, callVars
    <3>2. s \in SessionRows /\ s.next = n + 1 /\ s.state = session.state
      BY <1>2
    <3>3. u \in SetupRows /\ u.id = n /\ u.pc = "wait"
      BY <1>2
    <3> QED BY <3>1, <3>2, <3>3
  <2> HIDE DEF s, u
  <2>3. Awaited(n)' /\ (\A id : Awaited(id) => Awaited(id)')
    BY <1>3, <2>2 DEF Awaited
  <2>4. "setup" \in Named
    BY DEF Named
  <2>5. IdsGiven' /\ IdsOnce' /\ AboutTheTool' /\ NothingStray' /\ requests' \subseteq [id : Nat, tool : Named]
    BY <1>3, <2>1, <2>2, <2>3, <2>4, AskingKeeps
  <2> QED BY <1>1, <1>2, <1>3, <2>2, <2>5, SetupGoesOn
<1>7. CASE SetupHears /\ ~GiveUpSetup
  <2> DEFINE line == Head(inbox)
             more == setup.pages + 1 < Len(Remote)
  <2>1. /\ setup.pc = "wait" /\ inbox # <<>> /\ inbox' = Tail(inbox)
        /\ UNCHANGED <<requests, registry, conn, caller, worker>>
    BY <1>7 DEF SetupHears, callVars
  <2>2. line \in Lines
    BY <2>1, Dequeued DEF McInv
  <2>3. CASE line.says = "note"
    <3>1. UNCHANGED <<setup, session, tclosed>>
      BY <1>7, <2>3 DEF SetupHears, Heard
    <3>2. IdsGiven' /\ IdsOnce' /\ AboutTheTool' /\ NothingStray' /\ inbox' \in Seq(Lines)
      <4>1. \A id : Awaited(id)' = Awaited(id)
        BY <2>1, <3>1 DEF Awaited
      <4> QED BY <1>3, <2>1, <3>1, <4>1, WaitsKeep
    <3> QED BY <1>1, <1>2, <1>3, <2>1, <3>1, <3>2, SetupGoesOn
  <2>4. CASE line.says # "note"
    <3>1. Heard(line, setup.id) = "ok" /\ tclosed' = tclosed
      BY <1>7, <2>4 DEF SetupHears
    <3>2. \E s \in SessionRows, u \in SetupRows :
             session' = s /\ setup' = u /\ s.next = session.next /\ s.state # "failed" /\ u.id = setup.id
      <4>1. CASE session.state = "connected"
        <5> DEFINE s == [session EXCEPT !.state = "initialized"]
                   u == [setup EXCEPT !.pc = "ask"]
        <5>1. session' = s /\ setup' = u
          BY <1>7, <2>4, <3>1, <4>1 DEF SetupHears
        <5>2. s \in SessionRows /\ u \in SetupRows /\ s.next = session.next /\ s.state # "failed" /\ u.id = setup.id
          BY <1>2
        <5> HIDE DEF s, u
        <5> QED BY <5>1, <5>2
      <4>2. CASE session.state # "connected"
        <5> DEFINE pages == setup.pages + 1
                   s == IF more THEN session ELSE [session EXCEPT !.tools = AllRemote]
                   u == [setup EXCEPT !.pc = IF more THEN "ask" ELSE "register", !.pages = pages]
        <5>1. session' = s /\ setup' = u
          BY <1>7, <2>4, <3>1, <4>2 DEF SetupHears
        <5>2. pages \in Nat
          BY <1>2
        <5> HIDE DEF more, pages
        <5>3. s \in SessionRows /\ u \in SetupRows /\ s.next = session.next /\ s.state # "failed" /\ u.id = setup.id
          BY <1>2, <1>3, <5>2
        <5> HIDE DEF s, u
        <5> QED BY <5>1, <5>3
      <4> QED BY <4>1, <4>2
    <3>3. PICK s \in SessionRows, u \in SetupRows :
             session' = s /\ setup' = u /\ s.next = session.next /\ s.state # "failed" /\ u.id = setup.id
      BY <3>2
    <3>4. \A id : Awaited(id) => id = line.id
      BY <1>3, <2>2, <3>1, HeardIs
    <3>5. IdsGiven' /\ IdsOnce' /\ AboutTheTool' /\ NothingStray' /\ inbox' \in Seq(Lines)
      BY <1>3, <2>1, <3>3, <3>4, WaitsKeep
    <3> QED BY <1>1, <1>2, <2>1, <3>1, <3>3, <3>5, SetupGoesOn
  <2> QED BY <2>3, <2>4
<1>8. CASE RegisterTools /\ ~GiveUpSetup
  <2> DEFINE h == [conn EXCEPT !.made = TRUE]
             u == [setup EXCEPT !.pc = "done"]
  <2>1. /\ h \in [made : BOOLEAN, closed : BOOLEAN, lock : Callers \cup {"free"}] /\ conn' = h /\ h.made /\ ~h.closed
        /\ u \in [pc : {"start", "ask", "wait", "register", "done", "failed"}, id : Nat, pages : Nat]
        /\ setup' = u /\ u.pc = "done" /\ u.id = setup.id /\ setup.pc = "register"
        /\ registry' = registry \cup AllRemote
        /\ UNCHANGED <<requests, inbox, tclosed, session, caller, worker>>
    BY <1>1, <1>2, <1>8, NotYetMade DEF RegisterTools, callVars, McInv, McTypes
  <2> HIDE DEF h, u
  <2>2. IdsGiven' /\ IdsOnce' /\ AboutTheTool' /\ NothingStray' /\ inbox' \in Seq(Lines)
    BY <1>3, <2>1, WaitsKeep
  <2>3. McTypes'
    BY <2>1, <2>2 DEF McInv, McTypes
  <2>4. Threads' /\ AllOrNone'
    BY <1>1, <2>1, NotYetMade DEF McInv, Threads, AtWork, AllOrNone
  <2>5. NothingLeft' /\ ResultIsOfTheCall'
    BY <2>1 DEF McInv, NothingLeft, ResultIsOfTheCall
  <2> QED BY <2>2, <2>3, <2>4, <2>5 DEF McInv
<1>9. CASE GiveUpSetup
  <2>1. setup'.pc = "failed"
    BY <1>2, <1>9 DEF GiveUpSetup
  <2>2. CASE Connect
    BY <1>2, <1>4, <1>9, <2>1, <2>2 DEF Connect, callVars
  <2>3. CASE SetupAsks
    BY <1>2, <1>4, <1>9, <2>1, <2>3 DEF SetupAsks, callVars
  <2>4. CASE SetupHears \/ SetupRefused
    BY <1>4, <1>9, <2>4 DEF SetupHears, SetupRefused, callVars
  <2>5. CASE RegisterTools
    BY <1>2, <1>4, <1>9, <2>1, <2>5 DEF RegisterTools, callVars
  <2> QED BY <2>2, <2>3, <2>4, <2>5
<1>10. CASE ~GiveUpSetup
  BY <1>5, <1>6, <1>7, <1>8, <1>10 DEF SetupRefused
<1> QED BY <1>9, <1>10

\* The values of the session and of the connection.
SessionStates == [state : {"new", "connected", "initialized", "failed", "closed"}, next : Nat, tools : SUBSET AllRemote]
Connections == [made : BOOLEAN, closed : BOOLEAN, lock : Callers \cup {"free"}]

-----------------------------------------------------------------------------
(* MCP connections: calls *)

\* A step of a call through the connection, of the thread that makes it or of its worker.
LEMMA CallKeeps ==
    ASSUME McInv, conn.made, NEW x \in Callers, NEW a \in CallerRows, NEW b \in CallWorkers,
           NEW s \in SessionStates, NEW h \in Connections,
           caller' = [caller EXCEPT ![x] = a], worker' = [worker EXCEPT ![x] = b], session' = s, conn' = h,
           UNCHANGED <<setup, registry>>, h.made, tclosed' \in BOOLEAN, conn.closed => h.closed,
           tclosed => tclosed', h.closed => tclosed',
           h.lock = conn.lock \/ conn.lock \in {x, "free"}, a.pc = "poll" => h.lock = x,
           b.pc \in {"call", "wait"} => h.closed \/ a.pc = "poll",
           b.got = "ok" => b.from = b.tool,
           IdsGiven', IdsOnce', AboutTheTool', NothingStray', inbox' \in Seq(Lines),
           requests' \subseteq [id : Nat, tool : Named]
    PROVE  McInv'
<1>1. /\ \A y \in Callers : caller'[y] = IF y = x THEN a ELSE caller[y]
      /\ \A y \in Callers : worker'[y] = IF y = x THEN b ELSE worker[y]
  BY DEF McInv, McTypes
<1>2. McTypes'
  BY DEF McInv, McTypes, SessionStates, Connections
<1>3. Threads'
  <2>1. \A y \in Callers : caller'[y].pc = "poll" => conn'.lock = y
    BY <1>1, McAssumption DEF McInv, Threads
  <2>2. \A v \in AtWork' : conn'.closed \/ caller'[v].pc = "poll"
    <3> SUFFICES ASSUME NEW v \in Callers, worker'[v].pc \in {"call", "wait"} PROVE conn'.closed \/ caller'[v].pc = "poll"
      BY DEF AtWork
    <3> QED BY <1>1 DEF McInv, Threads, AtWork
  <2> QED BY <2>1, <2>2 DEF McInv, Threads
<1>4. ResultIsOfTheCall'
  BY <1>1 DEF McInv, ResultIsOfTheCall
<1>5. NothingLeft' /\ AllOrNone'
  BY DEF McInv, NothingLeft, AllOrNone
<1> QED BY <1>2, <1>3, <1>4, <1>5 DEF McInv

\* A step of a call that asks nothing of the server.
LEMMA RepliesKeep ==
    ASSUME McInv, conn.made, NEW x \in Callers, NEW a \in CallerRows, NEW b \in CallWorkers,
           NEW s \in SessionStates, NEW h \in Connections,
           caller' = [caller EXCEPT ![x] = a], worker' = [worker EXCEPT ![x] = b], session' = s, conn' = h,
           UNCHANGED <<setup, registry>>, h.made, tclosed' \in BOOLEAN, conn.closed => h.closed,
           tclosed => tclosed', h.closed => tclosed',
           h.lock = conn.lock \/ conn.lock \in {x, "free"}, a.pc = "poll" => h.lock = x,
           b.pc \in {"call", "wait"} => h.closed \/ a.pc = "poll",
           b.got = "ok" => b.from = b.tool,
           requests' \subseteq requests, inbox' = inbox \/ (inbox # <<>> /\ inbox' = Tail(inbox)),
           b.id \in {0, worker[x].id}, b.pc = "wait" => b = worker[x], s.next = session.next,
           ~h.closed /\ s.state # "failed" => session.state # "failed",
           ~h.closed /\ s.state # "failed" /\ worker[x].pc = "wait" =>
               b.pc = "wait" \/ (inbox # <<>> /\ inbox' = Tail(inbox) /\ worker[x].id = Head(inbox).id)
    PROVE  McInv'
<1>1. \A y \in Callers : worker'[y] = IF y = x THEN b ELSE worker[y]
  BY DEF McInv, McTypes
<1>2. setup.pc = "done"
  BY DEF McInv, Threads
<1>3. Open' => Open
  BY DEF Open
<1>4. Open' => \A id : Awaited(id) => Awaited(id)' \/ (inbox # <<>> /\ inbox' = Tail(inbox) /\ id = Head(inbox).id)
  <2> SUFFICES ASSUME Open', NEW id, Awaited(id)
               PROVE  Awaited(id)' \/ (inbox # <<>> /\ inbox' = Tail(inbox) /\ id = Head(inbox).id)
    OBVIOUS
  <2>1. PICK v \in Callers : worker[v].pc = "wait" /\ worker[v].id = id
    BY <1>2 DEF Awaited
  <2>2. CASE worker'[v] = worker[v]
    BY <2>1, <2>2 DEF Awaited
  <2>3. CASE worker'[v] # worker[v]
    BY <1>1, <2>1, <2>3 DEF Open
  <2> QED BY <2>2, <2>3
<1>5. IdsGiven' /\ IdsOnce' /\ AboutTheTool' /\ NothingStray' /\ inbox' \in Seq(Lines)
  <2>1. \A v \in Callers : worker'[v].id \in {0, worker[v].id}
    BY <1>1
  <2>2. \A v \in Callers : worker'[v].pc = "wait" => worker'[v] = worker[v]
    BY <1>1
  <2> QED BY <1>3, <1>4, <2>1, <2>2, WaitsKeep
<1>6. requests' \subseteq [id : Nat, tool : Named]
  BY DEF McInv, McTypes
<1> QED BY <1>5, <1>6, CallKeeps

\* What the invariant says of one thread and its worker.
LEMMA CallFacts ==
    ASSUME McInv, NEW x \in Callers
    PROVE  /\ caller[x] \in CallerRows /\ worker[x] \in CallWorkers /\ session \in SessionStates /\ conn \in Connections
           /\ caller = [caller EXCEPT ![x] = caller[x]] /\ worker = [worker EXCEPT ![x] = worker[x]]
           /\ tclosed \in BOOLEAN /\ (conn.closed => tclosed)
           /\ worker[x].got = "ok" => worker[x].from = worker[x].tool
           /\ caller[x].pc = "poll" => conn.lock = x
           /\ worker[x].pc \in {"call", "wait"} => conn.closed \/ caller[x].pc = "poll"
           /\ x # "free" /\ (conn.made \/ (caller[x].pc = "idle" /\ worker[x].pc = "none"))
BY McAssumption DEF McInv, McTypes, SessionStates, Connections, ResultIsOfTheCall, NothingLeft, Threads, AtWork

\* The rows of a thread whose call ends, and of the connection then.
LEMMA EndsRows ==
    ASSUME McInv, NEW x \in Callers, NEW result \in Outcomes
    PROVE  /\ [Resting EXCEPT !.result = result] \in CallerRows /\ [Resting EXCEPT !.result = result].pc = "idle"
           /\ Ends(x, result) =>
                 \E h \in Connections : /\ conn' = h /\ h.made = conn.made /\ h.closed = conn.closed
                                        /\ h.lock = conn.lock \/ conn.lock = x
           /\ EndsClosing(x, result) =>
                 \E h \in Connections, s \in SessionStates :
                    /\ conn' = h /\ h.made = conn.made /\ h.closed /\ (h.lock = conn.lock \/ conn.lock = x)
                    /\ session' = s /\ s.next = session.next /\ tclosed'
<1>1. [Resting EXCEPT !.result = result] \in CallerRows /\ [Resting EXCEPT !.result = result].pc = "idle"
  BY DEF Resting, CallerRows, Named
<1>2. conn \in Connections /\ session \in SessionStates
  BY CallFacts
<1> DEFINE lock == IF conn.lock = x THEN "free" ELSE conn.lock
<1>3. lock \in Callers \cup {"free"} /\ (lock = conn.lock \/ conn.lock = x)
  BY <1>2 DEF Connections
<1>4. ASSUME Ends(x, result)
      PROVE  \E h \in Connections : /\ conn' = h /\ h.made = conn.made /\ h.closed = conn.closed
                                    /\ h.lock = conn.lock \/ conn.lock = x
  <2> DEFINE h == [conn EXCEPT !.lock = lock]
  <2>1. conn' = h
    BY <1>4 DEF Ends
  <2> HIDE DEF lock
  <2>2. h \in Connections /\ h.made = conn.made /\ h.closed = conn.closed /\ h.lock = lock
    BY <1>2, <1>3 DEF Connections
  <2> HIDE DEF h
  <2> QED BY <1>3, <2>1, <2>2
<1>5. ASSUME EndsClosing(x, result)
      PROVE  \E h \in Connections, s \in SessionStates :
                    /\ conn' = h /\ h.made = conn.made /\ h.closed /\ (h.lock = conn.lock \/ conn.lock = x)
                    /\ session' = s /\ s.next = session.next /\ tclosed'
  <2> DEFINE h == [conn EXCEPT !.lock = lock, !.closed = TRUE]
             s == IF conn.closed THEN session ELSE [session EXCEPT !.state = "closed", !.tools = {}]
  <2>1. conn' = h
    BY <1>5 DEF EndsClosing
  <2>2. session' = s /\ tclosed'
    BY <1>5, CallFacts DEF EndsClosing, CloseSession
  <2>3. s \in SessionStates /\ s.next = session.next
    BY <1>2 DEF SessionStates
  <2> HIDE DEF lock, s
  <2>4. h \in Connections /\ h.made = conn.made /\ h.closed /\ h.lock = lock
    BY <1>2, <1>3 DEF Connections
  <2> HIDE DEF h
  <2> QED BY <1>3, <2>1, <2>2, <2>3, <2>4
<1> QED BY <1>1, <1>4, <1>5

\* A thread asks for a call, takes the lock, or ends its call with an answer, at its deadline or
\* when stopped.
LEMMA ThreadsKeep ==
    ASSUME McInv, NEW x \in Callers,
           (\E t \in AllRemote : Invoke(x, t)) \/ TakeLock(x) \/ CallerTimesOut(x) \/ CallerCancelled(x) \/ CallerHears(x)
    PROVE  McInv'
<1>1. /\ caller[x] \in CallerRows /\ worker[x] \in CallWorkers /\ session \in SessionStates /\ conn \in Connections
      /\ worker = [worker EXCEPT ![x] = worker[x]]
      /\ tclosed \in BOOLEAN /\ (conn.closed => tclosed)
      /\ (worker[x].got = "ok" => worker[x].from = worker[x].tool)
      /\ (caller[x].pc = "poll" => conn.lock = x)
      /\ (worker[x].pc \in {"call", "wait"} => conn.closed \/ caller[x].pc = "poll")
      /\ x # "free"
  BY CallFacts
<1>2. conn.made
  BY CallFacts DEF Invoke, TakeLock, CallerTimesOut, CallerCancelled, CallerHears
\* The call ends; its worker, if any, goes on only behind a closed connection.
<1>3. ASSUME NEW result \in Outcomes, Ends(x, result), worker' = worker, worker[x].pc \notin {"call", "wait"} \/ conn.closed,
             UNCHANGED <<requests, inbox, tclosed, session, setup, registry>>
      PROVE  McInv'
  <2> DEFINE a == [Resting EXCEPT !.result = result]
  <2>1. a \in CallerRows /\ a.pc = "idle" /\ caller' = [caller EXCEPT ![x] = a]
    BY <1>3, EndsRows DEF Ends
  <2>2. PICK h \in Connections : /\ conn' = h /\ h.made = conn.made /\ h.closed = conn.closed
                                 /\ h.lock = conn.lock \/ conn.lock = x
    BY <1>3, EndsRows
  <2> HIDE DEF a
  <2>3. tclosed' \in BOOLEAN /\ (tclosed => tclosed') /\ (h.closed => tclosed')
    BY <1>1, <1>3, <2>2
  <2> QED BY <1>1, <1>2, <1>3, <2>1, <2>2, <2>3, RepliesKeep
<1>4. ASSUME NEW result \in Outcomes, EndsClosing(x, result), UNCHANGED <<requests, inbox, worker, setup, registry>>
      PROVE  McInv'
  <2> DEFINE a == [Resting EXCEPT !.result = result]
  <2>1. a \in CallerRows /\ a.pc = "idle" /\ caller' = [caller EXCEPT ![x] = a]
    BY <1>4, EndsRows DEF EndsClosing
  <2>2. PICK h \in Connections, s \in SessionStates :
                /\ conn' = h /\ h.made = conn.made /\ h.closed /\ (h.lock = conn.lock \/ conn.lock = x)
                /\ session' = s /\ s.next = session.next /\ tclosed'
    BY <1>4, EndsRows
  <2> HIDE DEF a
  <2>3. tclosed' \in BOOLEAN
    BY <1>1, <1>4, <2>2 DEF EndsClosing, CloseSession
  <2> QED BY <1>1, <1>2, <1>4, <2>1, <2>2, <2>3, RepliesKeep
<1>5. ASSUME NEW t \in AllRemote, Invoke(x, t) PROVE McInv'
  <2>1. /\ caller[x].pc = "idle" /\ worker' = worker /\ worker[x].pc = "none"
        /\ UNCHANGED <<requests, inbox, tclosed, session, setup, registry>>
    BY <1>5 DEF Invoke, wireVars
  <2>2. CASE Ends(x, "denied") \/ Ends(x, "closed")
    <3>1. "denied" \in Outcomes /\ "closed" \in Outcomes
      BY DEF Outcomes
    <3> QED BY <1>3, <2>1, <2>2, <3>1
  <2>3. CASE caller' = [caller EXCEPT ![x] = [pc |-> "lock", tool |-> t, result |-> "none"]] /\ UNCHANGED conn
    <3> DEFINE a == [pc |-> "lock", tool |-> t, result |-> "none"]
    <3>1. a \in CallerRows /\ a.pc = "lock" /\ caller' = [caller EXCEPT ![x] = a]
      BY <2>3 DEF CallerRows, Outcomes, Named
    <3> HIDE DEF a
    <3> QED BY ZenonT(40), <1>1, <1>2, <2>1, <2>3, <3>1, RepliesKeep
  <2> QED BY <1>5, <2>2, <2>3 DEF Invoke
<1>6. CASE TakeLock(x)
  <2>1. /\ caller[x].pc = "lock" /\ conn.lock = "free"
        /\ UNCHANGED <<requests, inbox, tclosed, session, setup, registry>>
    BY <1>6 DEF TakeLock, wireVars
  <2>2. CASE conn.closed
    <3>1. "closed" \in Outcomes
      BY DEF Outcomes
    <3> QED BY <1>3, <1>6, <2>1, <2>2, <3>1 DEF TakeLock
  <2>3. CASE ~conn.closed
    <3> DEFINE a == [caller[x] EXCEPT !.pc = "poll"]
               h == [conn EXCEPT !.lock = x]
               b == [Quiet EXCEPT !.pc = "call", !.tool = caller[x].tool]
    <3>1. caller' = [caller EXCEPT ![x] = a] /\ conn' = h /\ worker' = [worker EXCEPT ![x] = b]
      BY <1>6, <2>3 DEF TakeLock
    <3>2. a \in CallerRows /\ a.pc = "poll"
      BY <1>1 DEF CallerRows
    <3>3. h \in Connections /\ h.made = conn.made /\ h.closed = conn.closed /\ h.lock = x
      BY <1>1 DEF Connections
    <3>4. b \in CallWorkers /\ b.pc = "call" /\ b.got = "none" /\ b.id = 0
      BY <1>1 DEF CallWorkers, Quiet, CallerRows, Outcomes, Named
    <3>5. worker[x].pc # "wait"
      BY <1>1, <2>1, <2>3
    <3> HIDE DEF a, h, b
    <3> QED BY <1>1, <1>2, <2>1, <2>3, <3>1, <3>2, <3>3, <3>4, <3>5, RepliesKeep
  <2> QED BY <2>2, <2>3
<1>7. CASE CallerTimesOut(x) \/ CallerCancelled(x)
  <2>1. "timeout" \in Outcomes /\ "cancelled" \in Outcomes
    BY DEF Outcomes, TransportErrors
  <2> QED BY <1>4, <1>7, <2>1 DEF CallerTimesOut, CallerCancelled, Deadline
<1>8. CASE CallerHears(x)
  <2>1. worker[x].got \in Outcomes /\ worker[x].pc = "over" /\ UNCHANGED <<requests, inbox, setup, registry, worker>>
    BY <1>1, <1>8 DEF CallWorkers, CallerHears
  <2> QED BY <1>3, <1>4, <1>8, <2>1 DEF CallerHears
<1> QED BY <1>5, <1>6, <1>7, <1>8

\* A worker sends the request, hears the answer, times out, or is gone.
LEMMA WorkersKeep ==
    ASSUME McInv, NEW x \in Callers, WorkerAsks(x) \/ WorkerHears(x) \/ WorkerTimesOut(x) \/ WorkerGone(x)
    PROVE  McInv'
<1>1. /\ caller[x] \in CallerRows /\ worker[x] \in CallWorkers /\ session \in SessionStates /\ conn \in Connections
      /\ caller = [caller EXCEPT ![x] = caller[x]] /\ worker = [worker EXCEPT ![x] = worker[x]]
      /\ tclosed \in BOOLEAN /\ (conn.closed => tclosed)
      /\ (worker[x].got = "ok" => worker[x].from = worker[x].tool)
      /\ (caller[x].pc = "poll" => conn.lock = x)
      /\ (worker[x].pc \in {"call", "wait"} => conn.closed \/ caller[x].pc = "poll")
  BY CallFacts
<1>2. conn.made
  BY CallFacts DEF WorkerAsks, WorkerHears, WorkerTimesOut, WorkerGone
<1>3. ASSUME NEW got \in Outcomes, NEW from \in Named, CallEnds(x, got, from), got = "ok" => from = worker[x].tool,
             UNCHANGED <<caller, conn, setup, registry>>, requests' \subseteq requests,
             inbox' = inbox \/ (inbox # <<>> /\ inbox' = Tail(inbox)),
             Fails(got) \/ (UNCHANGED <<session, tclosed>> /\ worker[x].pc # "wait"),
             got \notin Terminal /\ worker[x].pc = "wait" =>
                 inbox # <<>> /\ inbox' = Tail(inbox) /\ worker[x].id = Head(inbox).id
      PROVE  McInv'
  <2> DEFINE b == [worker[x] EXCEPT !.pc = "over", !.got = got, !.from = from]
             s == IF got \in Terminal /\ Fails(got) THEN [session EXCEPT !.state = "failed"] ELSE session
  <2>1. worker' = [worker EXCEPT ![x] = b]
    BY <1>3 DEF CallEnds
  <2>2. b \in CallWorkers /\ b.pc = "over" /\ b.got = got /\ b.from = from /\ b.tool = worker[x].tool /\ b.id = worker[x].id
    BY <1>1, <1>3 DEF CallWorkers
  <2>3. PICK n \in SessionStates :
           /\ session' = n /\ n.next = session.next /\ (n.state = "failed" \/ n = session)
           /\ got \in Terminal /\ worker[x].pc = "wait" => n.state = "failed"
    <3>1. CASE got \in Terminal /\ Fails(got)
      <4> DEFINE n == [session EXCEPT !.state = "failed"]
      <4>1. session' = n
        BY <3>1 DEF Fails
      <4>2. n \in SessionStates /\ n.next = session.next /\ n.state = "failed"
        BY <1>1 DEF SessionStates
      <4> HIDE DEF n
      <4> QED BY <4>1, <4>2
    <3>2. CASE ~(got \in Terminal /\ Fails(got))
      BY <1>1, <1>3, <3>2 DEF Fails
    <3> QED BY <3>1, <3>2
  <2>4. tclosed' \in BOOLEAN /\ (tclosed => tclosed')
    <3>1. tclosed' = TRUE \/ tclosed' = tclosed
      BY <1>3 DEF Fails
    <3>2. tclosed \in BOOLEAN
      BY <1>1
    <3>3. CASE tclosed' = TRUE
      BY <3>3, Zenon
    <3>4. CASE tclosed' = tclosed
      BY <3>2, <3>4, Zenon
    <3> QED BY <3>1, <3>3, <3>4
  <2> HIDE DEF b, s
  <2>5. conn.closed => tclosed'
    BY <1>1, <2>4
  <2> QED BY ZenonT(40), <1>1, <1>2, <1>3, <2>1, <2>2, <2>3, <2>4, <2>5, RepliesKeep
<1>4. {"refused", "disconnected", "timeout"} \subseteq Outcomes /\ "none" \in Named
      /\ "disconnected" \in Terminal /\ "timeout" \in Terminal
  BY DEF Outcomes, Named, TransportErrors, Terminal
<1>5. CASE WorkerHears(x)
  <2>1. /\ worker[x].pc = "wait" /\ inbox # <<>> /\ inbox' = Tail(inbox)
        /\ UNCHANGED <<requests, setup, registry, conn, caller>>
    BY <1>5 DEF WorkerHears
  <2>2. Head(inbox) \in Lines /\ Head(inbox) = inbox[1] /\ 1 \in DOMAIN inbox
    BY <2>1, Dequeued DEF McInv
  <2>3. CASE Head(inbox).says = "note"
    <3>1. UNCHANGED <<worker, session, tclosed>>
      BY <1>5, <2>3 DEF WorkerHears
    <3> QED BY <1>1, <1>2, <2>1, <3>1, RepliesKeep
  <2>4. CASE Head(inbox).says # "note"
    <3>1. PICK said : said = Heard(Head(inbox), worker[x].id)
      OBVIOUS
    <3>2. CallEnds(x, said, Head(inbox).tool) /\ Fails(said)
      BY <1>5, <2>4, <3>1 DEF WorkerHears
    <3>3. said \in Outcomes /\ (said = "ok" => Head(inbox).id = worker[x].id)
          /\ (said \in Terminal \/ Head(inbox).id = worker[x].id)
      BY <2>2, <2>4, <3>1, HeardIs
    <3>4. Head(inbox).tool \in Named
      BY <2>2 DEF Lines
    <3>5. said = "ok" => Head(inbox).tool = worker[x].tool
      BY <2>1, <2>2, <3>3 DEF McInv, AboutTheTool
    <3> QED BY <1>3, <2>1, <3>2, <3>3, <3>4, <3>5
  <2> QED BY <2>3, <2>4
<1>6. CASE WorkerTimesOut(x)
  <2>1. CallEnds(x, "timeout", "none") /\ Fails("timeout") /\ requests' \subseteq requests
        /\ UNCHANGED <<inbox, setup, registry, conn, caller>>
    BY <1>6 DEF WorkerTimesOut
  <2> QED BY <1>3, <1>4, <2>1
<1>7. CASE WorkerGone(x)
  <2>1. Quiet \in CallWorkers /\ Quiet.pc = "none" /\ Quiet.got = "none" /\ Quiet.id = 0
    BY DEF Quiet, CallWorkers, Outcomes, Named
  <2>2. /\ worker' = [worker EXCEPT ![x] = Quiet] /\ worker[x].pc = "over"
        /\ UNCHANGED <<requests, inbox, tclosed, session, setup, registry, conn, caller>>
    BY <1>7 DEF WorkerGone, wireVars
  <2> QED BY <1>1, <1>2, <2>1, <2>2, RepliesKeep
<1>8. CASE WorkerAsks(x)
  <2>1. worker[x].pc = "call" /\ UNCHANGED <<inbox, setup, registry, conn, caller>>
    BY <1>8 DEF WorkerAsks
  <2>2. CASE CallEnds(x, "refused", "none") /\ UNCHANGED <<requests, session, tclosed>>
    BY <1>3, <1>4, <2>1, <2>2
  <2>3. CASE CallEnds(x, "disconnected", "none") /\ Fails("disconnected") /\ UNCHANGED requests
    BY <1>3, <1>4, <2>1, <2>3
  <2>4. CASE /\ requests' = requests \cup {[id |-> session.next, tool |-> worker[x].tool]}
             /\ worker' = [worker EXCEPT ![x].pc = "wait", ![x].id = session.next]
             /\ session' = [session EXCEPT !.next = @ + 1]
             /\ UNCHANGED tclosed
    <3>1. PICK n \in Nat : n = session.next
      BY <1>1 DEF SessionStates
    <3> DEFINE b == [worker[x] EXCEPT !.pc = "wait", !.id = n]
               s == [session EXCEPT !.next = n + 1]
    <3>2. /\ worker' = [worker EXCEPT ![x] = b] /\ session' = s
          /\ requests' = requests \cup {[id |-> n, tool |-> worker[x].tool]}
      BY <2>4, <3>1
    <3>3. s \in SessionStates /\ s.next = n + 1 /\ s.state = session.state
      BY <1>1 DEF SessionStates
    <3>4. b \in CallWorkers /\ b.pc = "wait" /\ b.id = n /\ b.tool = worker[x].tool /\ b.got = worker[x].got
          /\ b.from = worker[x].from /\ worker[x].tool \in Named
      BY <1>1 DEF CallWorkers
    <3> HIDE DEF b, s
    <3>5. \A y \in Callers : worker'[y] = IF y = x THEN b ELSE worker[y]
      BY <3>2 DEF McInv, McTypes
    <3>6. /\ \A v \in Callers : worker'[v].id \in {worker[v].id, n}
          /\ \A v \in Callers : worker'[v].pc = "wait" =>
                 worker'[v] = worker[v] \/ (worker'[v].id = n /\ worker'[v].tool = worker[x].tool)
      BY <3>4, <3>5
    <3>7. (Open' => Open) /\ Awaited(n)' /\ \A id : Awaited(id) => Awaited(id)'
      BY <2>1, <3>2, <3>3, <3>4, <3>5 DEF Open, Awaited
    <3>8. IdsGiven' /\ IdsOnce' /\ AboutTheTool' /\ NothingStray' /\ requests' \subseteq [id : Nat, tool : Named]
      BY <2>1, <3>1, <3>2, <3>3, <3>4, <3>6, <3>7, AskingKeeps
    <3>9. tclosed' \in BOOLEAN /\ inbox' \in Seq(Lines)
      BY <1>1, <2>1, <2>4 DEF McInv, McTypes
    <3>10. PICK a \in CallerRows, h \in Connections :
             /\ caller' = [caller EXCEPT ![x] = a] /\ conn' = h /\ a = caller[x] /\ h = conn
      BY <1>1, <2>1
    <3>11. tclosed' = tclosed
      BY <2>4
    <3>12. /\ h.made /\ (conn.closed => h.closed) /\ (tclosed => tclosed') /\ (h.closed => tclosed')
           /\ (h.lock = conn.lock \/ conn.lock \in {x, "free"}) /\ (a.pc = "poll" => h.lock = x)
           /\ (b.pc \in {"call", "wait"} => h.closed \/ a.pc = "poll") /\ (b.got = "ok" => b.from = b.tool)
      BY <1>1, <1>2, <2>1, <3>4, <3>10, <3>11
    <3>13. worker' = [worker EXCEPT ![x] = b] /\ session' = s /\ UNCHANGED <<setup, registry>>
      BY <2>1, <3>2
    <3> QED BY <1>2, <3>3, <3>4, <3>8, <3>9, <3>10, <3>12, <3>13, CallKeeps
  <2> QED BY <1>8, <2>2, <2>3, <2>4 DEF WorkerAsks
<1> QED BY <1>5, <1>6, <1>7, <1>8

\* The host closes the connection.
LEMMA ClosingKeeps ==
    ASSUME McInv, CloseConnection
    PROVE  McInv'
<1> DEFINE h == [conn EXCEPT !.closed = TRUE]
           s == [session EXCEPT !.state = "closed", !.tools = {}]
<1>1. /\ conn' = h /\ session' = s /\ tclosed' = TRUE /\ conn.made
      /\ UNCHANGED <<requests, inbox, setup, registry, caller, worker>>
  BY DEF CloseConnection, CloseSession, callVars
<1>2. h \in Connections /\ h.made = conn.made /\ h.closed /\ h.lock = conn.lock
  BY DEF Connections, McInv, McTypes
<1>3. s \in SessionStates /\ s.next = session.next
  BY DEF SessionStates, McInv, McTypes
<1> HIDE DEF h, s
<1>4. ~Open'
  BY <1>1, <1>2 DEF Open
<1>5. IdsGiven' /\ IdsOnce' /\ AboutTheTool' /\ NothingStray' /\ inbox' \in Seq(Lines)
  BY <1>1, <1>3, <1>4, WaitsKeep
<1>6. McTypes'
  BY <1>1, <1>2, <1>3, <1>5 DEF McInv, McTypes, SessionStates, Connections
<1>7. Threads' /\ ResultIsOfTheCall' /\ NothingLeft' /\ AllOrNone'
  BY <1>1, <1>2 DEF McInv, Threads, AtWork, ResultIsOfTheCall, NothingLeft, AllOrNone
<1> QED BY <1>5, <1>6, <1>7 DEF McInv

\* The server answers, says something nobody asked, or ends.
LEMMA ServerKeeps ==
    ASSUME McInv, (\E r \in requests : Answer(r)) \/ Chatter \/ ServerEnds
    PROVE  McInv'
<1>1. ASSUME NEW r \in requests, Answer(r) PROVE McInv'
  <2>1. PICK says \in Says : Queue(Line(r.id, says, r.tool))
    BY <1>1 DEF Answer, Says
  <2> DEFINE line == Line(r.id, says, r.tool)
  <2>2. line \in Lines /\ line.id = r.id /\ line.tool = r.tool
    BY DEF Line, Lines, McInv, McTypes
  <2>3. /\ UNCHANGED <<tclosed, session, setup, registry, conn, caller, worker>>
        /\ requests' = requests \ {r} /\ Queue(line)
    BY <1>1, <2>1 DEF Answer, callVars
  <2> HIDE DEF line
  <2>4. \E q \in requests : line.id = q.id /\ line.tool = q.tool /\ requests' = requests \ {q}
    BY <2>2, <2>3
  <2> QED BY <2>2, <2>3, <2>4, WireKeeps
<1>2. ASSUME NEW says \in Says, Queue(Line(0, says, "none")), requests' \subseteq requests,
             UNCHANGED <<tclosed, session, setup, registry, conn, caller, worker>>
      PROVE  McInv'
  <2>1. Line(0, says, "none") \in Lines /\ Line(0, says, "none").id = 0
    BY DEF Line, Lines, Named
  <2> QED BY <1>2, <2>1, WireKeeps
<1>3. CASE Chatter
  BY <1>2, <1>3 DEF Chatter, Says, callVars
<1>4. CASE ServerEnds
  BY <1>2, <1>4 DEF ServerEnds, Says, Eof, callVars
<1> QED BY <1>1, <1>3, <1>4

-----------------------------------------------------------------------------
(* MCP connections: the theorems *)

\* McInv is an invariant, for any pages of tools, any threads, and whatever the server does
\* when.
THEOREM ConnectionInvariant == McSpec => []McInv
<1>1. McInit => McInv
  <2> SUFFICES ASSUME McInit PROVE McInv
    OBVIOUS
  <2>1. Quiet \in CallWorkers /\ Quiet.pc = "none" /\ Quiet.got = "none" /\ Quiet.id = 0
        /\ Resting \in CallerRows /\ Resting.pc = "idle"
    BY DEF Quiet, CallWorkers, Resting, CallerRows, Outcomes, Named
  <2>2. /\ session \in SessionStates /\ session.next = 1 /\ session.state = "new"
        /\ setup.pc = "start" /\ setup.id = 0 /\ conn \in Connections /\ ~conn.made /\ ~conn.closed
    BY DEF McInit, SessionStates, Connections
  <2>3. \A x \in Callers : caller[x] = Resting /\ worker[x] = Quiet
    BY DEF McInit
  <2>4. McTypes
    <3>1. requests \subseteq [id : Nat, tool : Named] /\ inbox \in Seq(Lines)
      BY DEF McInit
    <3>6. tclosed \in BOOLEAN
      BY DEF McInit
    <3>2. session \in [state : {"new", "connected", "initialized", "failed", "closed"}, next : Nat, tools : SUBSET AllRemote]
      BY DEF McInit
    <3>3. setup \in [pc : {"start", "ask", "wait", "register", "done", "failed"}, id : Nat, pages : Nat]
      BY DEF McInit
    <3>4. conn \in [made : BOOLEAN, closed : BOOLEAN, lock : Callers \cup {"free"}]
      BY DEF McInit
    <3>5. caller \in [Callers -> CallerRows] /\ worker \in [Callers -> CallWorkers]
      BY <2>1 DEF McInit
    <3> QED BY <3>1, <3>2, <3>3, <3>4, <3>5, <3>6 DEF McTypes
  <2>5. IdsGiven /\ IdsOnce /\ AboutTheTool /\ Threads /\ NothingStray /\ ResultIsOfTheCall /\ NothingLeft /\ AllOrNone
    BY <2>1, <2>2, <2>3 DEF McInit, IdsGiven, IdsOnce, AboutTheTool, Threads, AtWork, NothingStray, ResultIsOfTheCall,
       NothingLeft, AllOrNone
  <2> QED BY <2>4, <2>5 DEF McInv
<1>2. McInv /\ [McNext]_mcVars => McInv'
  <2> SUFFICES ASSUME McInv, [McNext]_mcVars PROVE McInv'
    OBVIOUS
  <2>1. CASE McNext
    BY <2>1, ServerKeeps, SetupKeeps, ClosingKeeps, ThreadsKeep, WorkersKeep DEF McNext
  <2>2. CASE UNCHANGED mcVars
    BY <2>2 DEF mcVars, McInv, McTypes, IdsGiven, IdsOnce, AboutTheTool, Threads, AtWork, NothingStray, Open, Awaited,
       ResultIsOfTheCall, NothingLeft, AllOrNone
  <2> QED BY <2>1, <2>2
<1> QED BY <1>1, <1>2, PTL DEF McSpec

\* ConnectionSound is an invariant (src/src/paperclaw/mcp/runtime.py, session.py, transport.py,
\* registration.py): a result is of the tool that was called, though workers outlive the calls
\* that timed out or were stopped; an open connection has one request under way at most and,
\* without any, nothing on the wire that could answer the next; a connection that is closed or
\* never came about has told its server to end; and the tools of a server are registered all or
\* none.
THEOREM ConnectionsAreSound == McSpec => []ConnectionSound
<1>1. McInv => ConnectionSound
  <2> SUFFICES ASSUME McInv, conn.made, ~conn.closed
               PROVE  /\ Cardinality(AtWork) <= 1
                      /\ AtWork = {} => /\ requests = {} \/ session.state = "failed"
                                        /\ \A k \in DOMAIN inbox : inbox[k].id = 0 \/ session.state = "failed"
    BY DEF McInv, ConnectionSound, OneRequest
  <2>1. \A v \in AtWork : v = conn.lock
    BY DEF McInv, Threads, AtWork
  <2>2. AtWork = {} \/ AtWork = {conn.lock}
    BY <2>1
  <2>3. Cardinality(AtWork) <= 1
    <3>1. CASE AtWork = {}
      <4>1. Cardinality(AtWork) = 0
        BY <3>1, FS_EmptySet
      <4> QED BY <4>1
    <3>2. CASE AtWork = {conn.lock}
      <4>1. Cardinality({conn.lock}) = 1
        BY FS_Singleton
      <4> QED BY <3>2, <4>1
    <3> QED BY <2>2, <3>1, <3>2
  <2>4. ASSUME AtWork = {}, session.state # "failed"
        PROVE  requests = {} /\ \A k \in DOMAIN inbox : inbox[k].id = 0
    <3>1. Open /\ \A id : ~Awaited(id)
      BY <2>4 DEF McInv, Threads, Open, Awaited, AtWork
    <3> QED BY <3>1 DEF McInv, NothingStray
  <2> QED BY <2>3, <2>4
<1> QED BY <1>1, ConnectionInvariant, PTL

-----------------------------------------------------------------------------
(* LSP clients: what the state holds *)

\* The rows of clients and of threads, and what the thread that closes the manager is at.
ClientRows == [runs : BOOLEAN, reads : BOOLEAN, closed : BOOLEAN, next : Nat, pending : SUBSET [id : Nat, who : Users],
               asked : SUBSET Nat, opened : Nat, sent : Nat, shown : Nat, publishes : Nat]
Resting0 == {"idle", "resolve"}
Locking == {"replace", "start", "init"}
Opening == {"note", "open", "send text", "look", "ask"}
UserRows == [pc : Resting0 \cup Locking \cup Opening \cup {"send", "wait"}, op : Ops \cup {"none"}, on : Nat, id : Nat,
             version : Nat, seen : Nat, got : {"none", "result", "error", "nothing"}, answers : Nat]
Closers == [pc : {"start", "close", "fail", "over"}, on : Nat]

\* Every variable has its type.
LspTypes ==
    /\ DOMAIN client = 1..Cardinality(DOMAIN client) /\ Cardinality(DOMAIN client) \in Nat
    /\ client \in [DOMAIN client -> ClientRows]
    /\ current \in DOMAIN client \cup {0} /\ mlock \in Users \cup {"free"} /\ closer \in Closers
    /\ user \in [Users -> UserRows]

\* Where threads are: the client each is on, and the client that is closed at the end.
OnClients ==
    /\ \A u \in Users : /\ user[u].on \in DOMAIN client \cup {0}
                        /\ user[u].pc \in Resting0 => user[u].on = 0
                        /\ user[u].pc \notin Resting0 \cup {"start"} => user[u].on \in DOMAIN client
    /\ closer.pc \in {"close", "fail"} => closer.on \in DOMAIN client

\* Ids are given out once.
RequestIds ==
    /\ \A g \in DOMAIN client : client[g].next > 1 /\ \A e \in client[g].pending : 0 < e.id /\ e.id < client[g].next
    /\ \A u \in Users : /\ user[u].on # 0 => user[u].id < client[user[u].on].next
                        /\ user[u].pc \in Resting0 \cup {"replace", "start"} => user[u].id = 0
    /\ \A u, x \in Users : Waiting(u) /\ Waiting(x) /\ user[u].on = user[x].on /\ user[u].id = user[x].id => u = x

\* Who is in the table waits, unanswered; who does not wait has no answer.
Unanswered ==
    \A u \in Users : /\ \A g \in DOMAIN client : Listed(u, g) => Waiting(u) /\ user[u].got = "none"
                     /\ ~Waiting(u) => user[u].got = "none"

\* Neither the client in the table nor the one that is just started is closed by the manager's
\* closing.
StartedOpen ==
    /\ closer.pc \in {"close", "fail"} => closer.on # current /\ \A u \in Users : user[u].pc = "init" => user[u].on # closer.on
    /\ \A u \in Users : user[u].pc = "init" => ~client[user[u].on].closed

\* The inductive invariant of the clients of an LSP server and the threads that use them.
LspInv == LspTypes /\ OnClients /\ RequestIds /\ Unanswered /\ StartedOpen /\ LspSound

-----------------------------------------------------------------------------
(* LSP clients: requests *)

\* The server, its reader or whoever closes the client: who loses the entry of the table is
\* answered.
LEMMA ServerSideKeeps ==
    ASSUME LspInv, NEW g \in DOMAIN client, NEW c \in ClientRows, client' = [client EXCEPT ![g] = c],
           c.pending \subseteq client[g].pending, c.next = client[g].next,
           c.runs => client[g].runs, client[g].closed => c.closed,
           c.closed => client[g].closed \/ (closer.pc = "close" /\ closer.on = g),
           user' \in [Users -> UserRows],
           \A u \in Users : \/ user'[u] = user[u] /\ (Listed(u, g) => Entry(u) \in c.pending)
                            \/ /\ Listed(u, g) /\ Entry(u) \notin c.pending
                               /\ user'[u].pc = user[u].pc /\ user'[u].on = user[u].on /\ user'[u].id = user[u].id
                               /\ user'[u].got # "none" /\ (user'[u].got = "result" => user'[u].answers = user[u].id)
                            \/ /\ user[u].pc = "replace" /\ current' = 0 /\ user'[u].pc = "start"
                               /\ user'[u].on = user[u].on /\ user'[u].id = user[u].id /\ user'[u].got = user[u].got,
           closer' \in Closers, closer'.pc \in {"close", "fail"} => closer.pc \in {"close", "fail"} /\ closer'.on = closer.on,
           current' \in {0, current}, UNCHANGED mlock
    PROVE  LspInv'
<1> USE DEF LspInv
<1>1. /\ DOMAIN client' = DOMAIN client
      /\ \A h \in DOMAIN client : client'[h] = IF h = g THEN c ELSE client[h]
  BY DEF LspTypes
<1>2. \A u \in Users : /\ user'[u].pc = user[u].pc \/ (user[u].pc = "replace" /\ current' = 0 /\ user'[u].pc = "start")
                       /\ user'[u].on = user[u].on /\ user'[u].id = user[u].id
                       /\ user'[u].got = user[u].got \/ (Listed(u, g) /\ Entry(u) \notin c.pending /\ user'[u].got # "none")
  OBVIOUS
<1>3. \A u \in Users : Waiting(u)' = Waiting(u) /\ Entry(u)' = Entry(u)
  BY <1>2 DEF Waiting, Entry
<1>4. \A h \in DOMAIN client : client'[h].pending \subseteq client[h].pending
  BY <1>1
<1>5. \A u \in Users, h \in DOMAIN client :
         /\ Listed(u, h)' => Listed(u, h)
         /\ Listed(u, h) => Listed(u, h)' \/ (h = g /\ Entry(u) \notin c.pending)
  BY <1>1, <1>2, <1>3, <1>4 DEF Listed
<1>6. LspTypes'
  BY <1>1 DEF LspTypes
<1>7. OnClients'
  BY <1>1, <1>2 DEF OnClients, Resting0
<1>8. RequestIds'
  <2>1. \A h \in DOMAIN client : client'[h].next = client[h].next
    BY <1>1
  <2>2. \A h \in DOMAIN client' : client'[h].next > 1 /\ \A e \in client'[h].pending : 0 < e.id /\ e.id < client'[h].next
    BY <1>1, <1>4, <2>1 DEF RequestIds
  <2>3. \A u \in Users : /\ user'[u].on # 0 => user'[u].id < client'[user'[u].on].next
                         /\ user'[u].pc \in Resting0 \cup {"replace", "start"} => user'[u].id = 0
    BY <1>2, <2>1 DEF RequestIds, OnClients, Resting0
  <2>4. \A u, x \in Users : Waiting(u)' /\ Waiting(x)' /\ user'[u].on = user'[x].on /\ user'[u].id = user'[x].id => u = x
    BY <1>2, <1>3 DEF RequestIds
  <2> QED BY <2>2, <2>3, <2>4 DEF RequestIds
<1>9. Unanswered'
  <2>1. ASSUME NEW u \in Users, NEW h \in DOMAIN client, Listed(u, h)' PROVE Waiting(u)' /\ user'[u].got = "none"
    <3>1. Listed(u, h) /\ Waiting(u) /\ user[u].got = "none"
      BY <1>5, <2>1 DEF Unanswered
    <3>2. CASE user'[u].got = user[u].got
      BY <1>3, <3>1, <3>2
    <3>3. CASE Listed(u, g) /\ Entry(u) \notin c.pending
      <4>1. h = g
        BY <3>1, <3>3 DEF Listed
      <4> QED BY <1>1, <1>3, <2>1, <3>3, <4>1 DEF Listed
    <3> QED BY <1>2, <3>2, <3>3
  <2>2. ASSUME NEW u \in Users, ~Waiting(u)' PROVE user'[u].got = "none"
    BY <1>2, <1>3, <2>2 DEF Unanswered
  <2> QED BY <1>1, <2>1, <2>2 DEF Unanswered
<1>10. \A h \in DOMAIN client : client'[h].closed => client[h].closed \/ (closer.pc = "close" /\ closer.on = h)
  BY <1>1
<1>11. StartedOpen'
  <2>1. closer'.pc \in {"close", "fail"} => closer'.on # 0 /\ closer'.on # current
    BY DEF StartedOpen, OnClients, LspTypes
  <2>2. \A u \in Users : user'[u].pc = "init" =>
           user[u].pc = "init" /\ user'[u].on = user[u].on /\ user[u].on \in DOMAIN client /\ ~client[user[u].on].closed
    BY <1>2 DEF StartedOpen, OnClients, Resting0
  <2> QED BY <1>10, <2>1, <2>2 DEF StartedOpen
<1>12. HeardOf'
  <2> SUFFICES ASSUME NEW u \in Users, Waiting(u), user'[u].got = "none" PROVE Listed(u, user[u].on)'
    BY <1>2, <1>3 DEF HeardOf
  <2>1. user[u].on \in DOMAIN client
    BY DEF OnClients, Waiting, Resting0
  <2>2. user'[u] = user[u] /\ (Listed(u, g) => Entry(u) \in c.pending)
    BY DEF Waiting
  <2>3. Listed(u, user[u].on)
    BY <2>2 DEF LspSound, HeardOf
  <2> QED BY <1>5, <2>1, <2>2, <2>3
<1>13. NoneForgotten'
  <2> SUFFICES ASSUME NEW h \in DOMAIN client, Answerable(h)', NEW e \in client'[h].pending
               PROVE  Waiting(e.who)' /\ Listed(e.who, h)' /\ user'[e.who].id = e.id
    BY <1>1 DEF NoneForgotten
  <2>1. Answerable(h) /\ e \in client[h].pending
    BY <1>1, <1>4 DEF Answerable
  <2>2. e \in [id : Nat, who : Users]
    BY <2>1 DEF LspTypes, ClientRows
  <2>3. Waiting(e.who) /\ Listed(e.who, h) /\ user[e.who].id = e.id
    BY <2>1 DEF LspSound, NoneForgotten
  <2>4. Entry(e.who) = e
    BY <2>2, <2>3 DEF Entry
  <2>5. Listed(e.who, h)'
    BY <1>1, <1>5, <2>2, <2>3, <2>4
  <2> QED BY <1>2, <1>3, <2>2, <2>3, <2>5
<1>14. OwnResponse'
  <2>1. \A u \in Users : Waiting(u) => user[u].pc # "replace"
    BY DEF Waiting
  <2> QED BY <1>2, <1>3, <2>1 DEF LspSound, OwnResponse
<1>15. OneLockHolder' /\ InTheTable'
  BY <1>1, <1>2, <1>10 DEF LspSound, OneLockHolder, InTheTable, StartedOpen, LspTypes
<1> QED BY <1>6, <1>7, <1>8, <1>9, <1>11, <1>12, <1>13, <1>14, <1>15 DEF LspSound

\* A step of one thread that takes no id.
LEMMA CallerKeeps ==
    ASSUME LspInv, NEW u \in Users, NEW a \in UserRows, user' = [user EXCEPT ![u] = a],
           client' \in [DOMAIN client -> ClientRows],
           \A g \in DOMAIN client :
              /\ client'[g].pending \subseteq client[g].pending /\ client'[g].next = client[g].next
              /\ client'[g].runs => client[g].runs
              /\ client[g].closed => client'[g].closed
              /\ client'[g].closed => client[g].closed \/ (g = current /\ mlock = "free" /\ a.pc = "replace")
              /\ \A x \in Users \ {u} : Listed(x, g) => Entry(x) \in client'[g].pending
              /\ Answerable(g) /\ Listed(u, g) => Entry(u) \notin client'[g].pending,
           a.pc \notin {"init", "wait", "send"}, a.got = "none", a.on \in DOMAIN client \cup {0},
           \/ a.id = 0
           \/ a.pc \in Opening /\ a.on = user[u].on /\ a.id = user[u].id /\ ~Listed(u, a.on),
           a.pc \in Resting0 => a.on = 0, a.pc \notin Resting0 \cup {"start"} => a.on # 0,
           (a.pc \in Locking) <=> mlock' = u, mlock' \in Users \cup {"free"},
           \A x \in Users \ {u} : mlock' = x <=> mlock = x,
           current' = current \/ (user[u].pc = "init" /\ current' = user[u].on), user[u].pc # "replace",
           UNCHANGED closer
    PROVE  LspInv'
<1> USE DEF LspInv
<1>1. DOMAIN client' = DOMAIN client /\ \A x \in Users : user'[x] = IF x = u THEN a ELSE user[x]
  BY DEF LspTypes
<1>2. /\ ~Waiting(u)'
      /\ \A x \in Users \ {u} : Waiting(x)' = Waiting(x) /\ Entry(x)' = Entry(x)
  BY <1>1 DEF Waiting, Entry
<1>3. \A x \in Users \ {u}, h \in DOMAIN client : Listed(x, h)' = Listed(x, h)
  BY <1>1, <1>2 DEF Listed
<1>4. \A h \in DOMAIN client : ~Listed(u, h)'
  <2> SUFFICES ASSUME NEW h \in DOMAIN client, Listed(u, h)' PROVE FALSE
    OBVIOUS
  <2>1. a.on = h /\ [id |-> a.id, who |-> u] \in client[h].pending
    BY <1>1 DEF Listed, Entry
  <2>2. a.id # 0
    BY <2>1 DEF RequestIds
  <2> QED BY <2>1, <2>2 DEF Listed, Entry
<1>5. LspTypes'
  <2>1. current' \in DOMAIN client \cup {0}
    BY DEF LspTypes, OnClients
  <2>2. user' \in [Users -> UserRows]
    BY DEF LspTypes
  <2> QED BY <1>1, <2>1, <2>2 DEF LspTypes
<1>6. OnClients'
  BY <1>1 DEF OnClients
<1>7. RequestIds'
  <2>1. \A h \in DOMAIN client' : client'[h].next > 1 /\ \A e \in client'[h].pending : 0 < e.id /\ e.id < client'[h].next
    BY <1>1 DEF RequestIds
  <2>2. a.on # 0 => a.id < client'[a.on].next
    <3>1. a.on # 0 => client'[a.on].next = client[a.on].next /\ client[a.on].next > 1 /\ client[a.on].next \in Nat
      BY DEF RequestIds, LspTypes, ClientRows
    <3>2. a.on # 0 /\ a.on = user[u].on => user[u].id < client[a.on].next
      BY DEF RequestIds
    <3> QED BY <3>1, <3>2
  <2>3. a.pc \in Resting0 \cup {"replace", "start"} => a.id = 0
    BY DEF Resting0, Opening
  <2>4. \A x \in Users : /\ user'[x].on # 0 => user'[x].id < client'[user'[x].on].next
                         /\ user'[x].pc \in Resting0 \cup {"replace", "start"} => user'[x].id = 0
    BY <1>1, <2>2, <2>3 DEF RequestIds, OnClients
  <2>5. \A x, y \in Users : Waiting(x)' /\ Waiting(y)' /\ user'[x].on = user'[y].on /\ user'[x].id = user'[y].id => x = y
    BY <1>1, <1>2 DEF RequestIds
  <2> QED BY <2>1, <2>4, <2>5 DEF RequestIds
<1>8. Unanswered'
  BY <1>1, <1>2, <1>3, <1>4 DEF Unanswered
<1>9. \A x \in Users : user[x].pc = "init" => mlock = x /\ x # "free"
  BY LspAssumption DEF LspSound, OneLockHolder
<1>10. StartedOpen'
  <2>1. \A x \in Users : user'[x].pc = "init" => user[x].pc = "init" /\ user'[x].on = user[x].on /\ user[x].on \in DOMAIN client /\ mlock # "free"
    BY <1>1, <1>9 DEF OnClients, Resting0
  <2>2. \A x \in Users : user'[x].pc = "init" => ~client'[user'[x].on].closed
    BY <2>1 DEF StartedOpen
  <2>3. closer'.pc \in {"close", "fail"} => closer'.on # current'
    BY DEF StartedOpen
  <2> QED BY <2>1, <2>2, <2>3 DEF StartedOpen
<1>11. HeardOf'
  BY <1>1, <1>2, <1>3 DEF LspSound, HeardOf, OnClients, Waiting, Resting0
<1>12. NoneForgotten'
  <2> SUFFICES ASSUME NEW h \in DOMAIN client, Answerable(h)', NEW e \in client'[h].pending
               PROVE  Waiting(e.who)' /\ Listed(e.who, h)' /\ user'[e.who].id = e.id
    BY <1>1 DEF NoneForgotten
  <2>1. Answerable(h) /\ e \in client[h].pending
    BY DEF Answerable
  <2>2. e \in [id : Nat, who : Users]
    BY <2>1 DEF LspTypes, ClientRows
  <2>3. Waiting(e.who) /\ Listed(e.who, h) /\ user[e.who].id = e.id
    BY <2>1 DEF LspSound, NoneForgotten
  <2>4. Entry(e.who) = e
    BY <2>2, <2>3 DEF Entry
  <2>5. e.who # u
    BY <2>1, <2>3, <2>4
  <2> QED BY <1>1, <1>2, <1>3, <2>2, <2>3, <2>5
<1>13. OwnResponse'
  BY <1>1, <1>2 DEF LspSound, OwnResponse
<1>14. OneLockHolder'
  BY <1>1 DEF LspSound, OneLockHolder, Locking
<1>15. InTheTable'
  <2>1. CASE current' = user[u].on /\ user[u].pc = "init"
    <3>1. ~client[user[u].on].closed /\ user[u].on \in DOMAIN client /\ mlock # "free"
      BY <1>9, <2>1 DEF StartedOpen, OnClients, Resting0
    <3> QED BY <2>1, <3>1 DEF InTheTable
  <2>2. CASE current' = current
    <3>1. \A x \in Users : user[x].pc = "replace" => user'[x].pc = "replace"
      BY <1>1
    <3>2. a.pc = "replace" => user'[u].pc = "replace"
      BY <1>1
    <3> QED BY <2>2, <3>1, <3>2 DEF InTheTable, LspSound, LspTypes
  <2> QED BY <2>1, <2>2
<1> QED BY <1>5, <1>6, <1>7, <1>8, <1>10, <1>11, <1>12, <1>13, <1>14, <1>15 DEF LspSound

\* Who is between requests is in no table.
LEMMA NotListed ==
    ASSUME LspInv, NEW u \in Users, ~Waiting(u) \/ user[u].got # "none"
    PROVE  \A g \in DOMAIN client : ~Listed(u, g)
BY DEF LspInv, Unanswered

\* What the invariant says of one thread.
LEMMA RowsOfLsp ==
    ASSUME LspInv, NEW u \in Users
    PROVE  /\ user[u] \in UserRows /\ user[u].on \in DOMAIN client \cup {0} /\ DOMAIN client \subseteq Nat \ {0}
           /\ client \in [DOMAIN client -> ClientRows] /\ current \in DOMAIN client \cup {0}
           /\ user[u].pc \in Resting0 => user[u].on = 0
           /\ user[u].pc \notin Resting0 \cup {"start"} => user[u].on \in DOMAIN client
           /\ user[u].pc \in Resting0 \cup {"replace", "start"} => user[u].id = 0
           /\ user[u].pc \in Locking <=> mlock = u
           /\ mlock \in Users \cup {"free"} /\ u # "free"
           /\ \A x \in Users \ {u} : x # "free" /\ (mlock = u => mlock # x)
           /\ ~Waiting(u) => user[u].got = "none"
BY LspAssumption DEF LspInv, LspTypes, OnClients, RequestIds, LspSound, OneLockHolder, Locking, Unanswered

\* A thread between requests moves on, on a client that is not closed by it.
LEMMA MovesKeep ==
    ASSUME LspInv, NEW u \in Users, NEW a \in UserRows, user' = [user EXCEPT ![u] = a],
           client' \in [DOMAIN client -> ClientRows],
           \A g \in DOMAIN client :
              /\ client'[g].pending = client[g].pending /\ client'[g].next = client[g].next
              /\ client'[g].runs = client[g].runs /\ client'[g].closed = client[g].closed
              /\ Answerable(g) => ~Listed(u, g),
           a.pc \notin {"init", "wait", "send"}, a.got = "none", a.on \in DOMAIN client \cup {0},
           \/ a.id = 0
           \/ a.pc \in Opening /\ a.on = user[u].on /\ a.id = user[u].id /\ ~Listed(u, a.on),
           a.pc \in Resting0 => a.on = 0, a.pc \notin Resting0 \cup {"start"} => a.on # 0,
           (a.pc \in Locking) <=> mlock' = u, mlock' \in Users \cup {"free"},
           \A x \in Users \ {u} : mlock' = x <=> mlock = x,
           current' = current \/ (user[u].pc = "init" /\ current' = user[u].on), user[u].pc # "replace",
           UNCHANGED closer
    PROVE  LspInv'
<1>1. \A g \in DOMAIN client :
              /\ client'[g].pending \subseteq client[g].pending /\ client'[g].next = client[g].next
              /\ client'[g].runs => client[g].runs
              /\ client[g].closed => client'[g].closed
              /\ client'[g].closed => client[g].closed \/ (g = current /\ mlock = "free" /\ a.pc = "replace")
              /\ \A x \in Users \ {u} : Listed(x, g) => Entry(x) \in client'[g].pending
              /\ Answerable(g) /\ Listed(u, g) => Entry(u) \notin client'[g].pending
  BY DEF Listed
<1> QED BY <1>1, CallerKeeps

\* A request ends: its thread is at rest again.
LEMMA FinishKeeps ==
    ASSUME LspInv, NEW u \in Users, Finish(u), user[u].pc # "replace",
           \A g \in DOMAIN client : Answerable(g) => ~Listed(u, g),
           UNCHANGED <<client, current, closer>>,
           mlock' = IF user[u].pc \in Locking THEN "free" ELSE mlock
    PROVE  LspInv'
<1>1. AtRest \in UserRows /\ AtRest.pc = "idle" /\ AtRest.got = "none" /\ AtRest.on = 0 /\ AtRest.id = 0
  BY DEF AtRest, UserRows, Resting0
<1>2. /\ mlock' # u /\ mlock' \in Users \cup {"free"}
      /\ \A x \in Users \ {u} : mlock' = x <=> mlock = x
  BY RowsOfLsp
<1>3. client' \in [DOMAIN client -> ClientRows]
  BY RowsOfLsp
<1>4. "idle" \notin Locking /\ "idle" \in Resting0 /\ "idle" \notin {"init", "wait", "send"}
  BY DEF Locking, Resting0
<1>5. user' = [user EXCEPT ![u] = AtRest]
  BY DEF Finish
<1> HIDE DEF AtRest
<1> QED BY <1>1, <1>2, <1>3, <1>4, <1>5, MovesKeep

-----------------------------------------------------------------------------
(* LSP clients: threads *)

\* A thread asks for the client of the table, with the manager's lock where it has to.
LEMMA ResolvingKeeps ==
    ASSUME LspInv, NEW u \in Users,
           (\E op \in Ops : AskServer(u, op)) \/ UseClient(u) \/ TakeManager(u)
    PROVE  LspInv'
<1>0. /\ user[u] \in UserRows /\ user[u].on \in DOMAIN client \cup {0} /\ DOMAIN client \subseteq Nat \ {0}
      /\ client \in [DOMAIN client -> ClientRows] /\ current \in DOMAIN client \cup {0}
      /\ (user[u].pc \in Resting0 => user[u].on = 0)
      /\ (user[u].pc \notin Resting0 \cup {"start"} => user[u].on \in DOMAIN client)
      /\ (user[u].pc \in Resting0 \cup {"replace", "start"} => user[u].id = 0)
      /\ (user[u].pc \in Locking <=> mlock = u)
      /\ mlock \in Users \cup {"free"} /\ u # "free"
      /\ (\A x \in Users \ {u} : x # "free" /\ (mlock = u => mlock # x))
      /\ (~Waiting(u) => user[u].got = "none")
  BY RowsOfLsp
<1>1. ~Waiting(u) /\ \A g \in DOMAIN client : ~Listed(u, g)
  BY NotListed DEF AskServer, UseClient, TakeManager, Waiting
<1>2. ASSUME NEW op \in Ops, AskServer(u, op) PROVE LspInv'
  <2>1. user[u].pc = "idle" /\ UNCHANGED <<client, current, mlock, closer>>
    BY <1>0, <1>2 DEF AskServer
  <2>2. CASE Finish(u)
    BY <1>0, <1>1, <2>1, <2>2, FinishKeeps DEF Locking
  <2>3. CASE user' = [user EXCEPT ![u] = [AtRest EXCEPT !.pc = "resolve", !.op = op]]
    <3> DEFINE a == [AtRest EXCEPT !.pc = "resolve", !.op = op]
    <3>1. a \in UserRows /\ a.pc = "resolve" /\ a.got = "none" /\ a.on = 0 /\ a.id = 0
      BY DEF AtRest, UserRows, Resting0
    <3>2. user' = [user EXCEPT ![u] = a]
      BY <1>0, <2>3
    <3> HIDE DEF a
    <3> QED BY <1>0, <1>1, <2>1, <3>1, <3>2, MovesKeep DEF Locking, Resting0
  <2> QED BY <1>2, <2>2, <2>3 DEF AskServer
<1>3. CASE UseClient(u)
  <2>1. /\ user[u].pc = "resolve" /\ UNCHANGED <<client, current, mlock, closer>> /\ current \in DOMAIN client
        /\ Resolved(u, current) /\ mlock = "free"
    BY <1>0, <1>3 DEF UseClient
  <2> DEFINE a == [user[u] EXCEPT !.pc = AfterResolve(user[u].op), !.on = current]
  <2>2. user' = [user EXCEPT ![u] = a]
    BY <1>0, <2>1 DEF Resolved
  <2>3. AfterResolve(user[u].op) \in Opening
    BY DEF AfterResolve, Opening
  <2>4. a \in UserRows /\ a.pc \in Opening /\ a.got = "none" /\ a.on = current /\ a.id = 0
    BY <1>0, <1>1, <2>1, <2>3 DEF UserRows, Resting0
  <2> HIDE DEF a
  <2>5. a.pc \notin Locking /\ a.pc \notin Resting0 /\ a.pc \notin {"init", "wait", "send"}
    BY <1>0, <2>4 DEF Opening, Locking, Resting0
  <2> QED BY <1>0, <1>1, <2>1, <2>2, <2>4, <2>5, MovesKeep
<1>4. CASE TakeManager(u)
  <2>1. /\ user[u].pc = "resolve" /\ UNCHANGED <<client, current, closer>> /\ mlock = "free" /\ mlock' = u
        /\ user' = [user EXCEPT ![u].pc = "start"]
    BY <1>0, <1>4 DEF TakeManager
  <2> DEFINE a == [user[u] EXCEPT !.pc = "start"]
  <2>2. user' = [user EXCEPT ![u] = a]
    BY <1>0, <2>1
  <2>4. a \in UserRows /\ a.pc = "start" /\ a.got = "none" /\ a.on = 0 /\ a.id = 0
    BY <1>0, <1>1, <2>1 DEF UserRows, Resting0, Locking
  <2> HIDE DEF a
  <2>5. "start" \in Locking /\ "start" \notin Resting0 /\ "start" \notin {"init", "wait", "send"}
    BY DEF Locking, Resting0
  <2>6. \A x \in Users \ {u} : mlock' = x <=> mlock = x
    BY <1>0, <2>1
  <2>7. client' \in [DOMAIN client -> ClientRows] /\ mlock' \in Users \cup {"free"} /\ user[u].pc # "replace"
    BY <1>0, <2>1
  <2> QED BY <1>0, <1>1, <2>1, <2>2, <2>4, <2>5, <2>6, <2>7, MovesKeep
<1> QED BY <1>2, <1>3, <1>4

\* A thread gives up its request at the deadline, and takes it off the table.
LEMMA TimeoutKeeps ==
    ASSUME LspInv, NEW u \in Users, TimesOut(u), user[u].pc \in {"init", "wait"}, UNCHANGED <<current, closer>>,
           mlock' = IF user[u].pc \in Locking THEN "free" ELSE mlock
    PROVE  LspInv'
<1>1. user[u].on \in DOMAIN client /\ DOMAIN client \subseteq Nat \ {0} /\ client \in [DOMAIN client -> ClientRows]
  BY RowsOfLsp DEF Resting0
<1>2. PICK n \in DOMAIN client, i \in Nat : n = user[u].on /\ i = user[u].id
  BY <1>1, RowsOfLsp DEF UserRows
<1> DEFINE c == [client[n] EXCEPT !.pending = Unlisted(n, i)]
<1>3. client' = [client EXCEPT ![n] = c] /\ user' = [user EXCEPT ![u] = AtRest]
  BY <1>2 DEF TimesOut, Finish
<1>4. /\ c \in ClientRows /\ c.pending = {e \in client[n].pending : e.id # i} /\ c.next = client[n].next
      /\ c.runs = client[n].runs /\ c.closed = client[n].closed
  BY <1>1 DEF ClientRows, Unlisted
<1> HIDE DEF c
<1>5. AtRest \in UserRows /\ AtRest.pc = "idle" /\ AtRest.got = "none" /\ AtRest.on = 0 /\ AtRest.id = 0
  BY DEF AtRest, UserRows, Resting0
<1>6. /\ mlock' # u /\ mlock' \in Users \cup {"free"}
      /\ \A x \in Users \ {u} : mlock' = x <=> mlock = x
  BY RowsOfLsp
<1>7. "idle" \notin Locking /\ "idle" \in Resting0 /\ "idle" \notin {"init", "wait", "send"}
  BY DEF Locking, Resting0
<1>8. client' \in [DOMAIN client -> ClientRows]
  BY <1>1, <1>3, <1>4
<1>9. \A g \in DOMAIN client :
         /\ client'[g].pending \subseteq client[g].pending /\ client'[g].next = client[g].next
         /\ client'[g].runs => client[g].runs
         /\ client[g].closed => client'[g].closed
         /\ client'[g].closed => client[g].closed \/ (g = current /\ mlock = "free" /\ AtRest.pc = "replace")
         /\ \A x \in Users \ {u} : Listed(x, g) => Entry(x) \in client'[g].pending
         /\ Answerable(g) /\ Listed(u, g) => Entry(u) \notin client'[g].pending
  <2> SUFFICES ASSUME NEW g \in DOMAIN client
               PROVE  /\ client'[g].pending \subseteq client[g].pending /\ client'[g].next = client[g].next
                      /\ client'[g].runs = client[g].runs /\ client[g].closed = client'[g].closed
                      /\ \A x \in Users \ {u} : Listed(x, g) => Entry(x) \in client'[g].pending
                      /\ Listed(u, g) => Entry(u) \notin client'[g].pending
    OBVIOUS
  <2>1. client'[g] = IF g = n THEN c ELSE client[g]
    BY <1>1, <1>3
  <2>2. ASSUME NEW x \in Users \ {u}, Listed(x, g) PROVE Entry(x) \in client'[g].pending
    <3>1. CASE g = n
      <4>1. Waiting(x) /\ Waiting(u) /\ user[x].on = n
        BY <2>2, <3>1 DEF LspInv, Unanswered, Listed, Waiting
      <4>2. user[x].id # i
        BY <1>2, <4>1 DEF LspInv, RequestIds
      <4> QED BY <1>4, <2>1, <2>2, <3>1, <4>2 DEF Listed, Entry
    <3>2. CASE g # n
      BY <2>1, <2>2, <3>2 DEF Listed
    <3> QED BY <3>1, <3>2
  <2>3. Listed(u, g) => Entry(u) \notin client'[g].pending
    BY <1>2, <1>4, <2>1 DEF Listed, Entry
  <2> QED BY <1>4, <2>1, <2>2, <2>3
<1> HIDE DEF AtRest
<1> QED BY <1>3, <1>5, <1>6, <1>7, <1>8, <1>9, CallerKeeps

\* The thread that starts a client hears the answer to its first request, or gives up.
LEMMA LockedKeeps ==
    ASSUME LspInv, NEW u \in Users, ReplaceClient(u) \/ Initialized(u) \/ InitTimesOut(u)
    PROVE  LspInv'
<1>0. /\ user[u] \in UserRows /\ user[u].on \in DOMAIN client \cup {0} /\ DOMAIN client \subseteq Nat \ {0}
      /\ client \in [DOMAIN client -> ClientRows] /\ current \in DOMAIN client \cup {0}
      /\ (user[u].pc \in Resting0 => user[u].on = 0)
      /\ (user[u].pc \notin Resting0 \cup {"start"} => user[u].on \in DOMAIN client)
      /\ (user[u].pc \in Resting0 \cup {"replace", "start"} => user[u].id = 0)
      /\ (user[u].pc \in Locking <=> mlock = u)
      /\ mlock \in Users \cup {"free"} /\ u # "free"
      /\ (\A x \in Users \ {u} : x # "free" /\ (mlock = u => mlock # x))
      /\ (~Waiting(u) => user[u].got = "none")
  BY RowsOfLsp
<1>1. CASE ReplaceClient(u)
  <2>1. /\ user[u].pc = "resolve" /\ mlock = "free" /\ mlock' = u /\ current \in DOMAIN client
        /\ UNCHANGED <<current, closer>> /\ ~Waiting(u)
    BY <1>0, <1>1 DEF ReplaceClient, Waiting
  <2> DEFINE a == [user[u] EXCEPT !.pc = "replace", !.on = current]
             c == Stop(client[current])
  <2>2. user' = [user EXCEPT ![u] = a] /\ client' = [client EXCEPT ![current] = c]
    BY <1>0, <1>1 DEF ReplaceClient
  <2>3. a \in UserRows /\ a.pc = "replace" /\ a.got = "none" /\ a.on = current /\ a.id = 0
    BY <1>0, <2>1 DEF UserRows, Resting0, Locking
  <2>4. c \in ClientRows /\ c.pending = client[current].pending /\ c.next = client[current].next /\ ~c.runs /\ c.closed
    BY <1>0, <2>1 DEF ClientRows, Stop
  <2> HIDE DEF a, c
  <2>5. \A g \in DOMAIN client :
           /\ client'[g].pending \subseteq client[g].pending /\ client'[g].next = client[g].next
           /\ client'[g].runs => client[g].runs
           /\ client[g].closed => client'[g].closed
           /\ client'[g].closed => client[g].closed \/ (g = current /\ mlock = "free" /\ a.pc = "replace")
           /\ \A x \in Users \ {u} : Listed(x, g) => Entry(x) \in client'[g].pending
           /\ Answerable(g) /\ Listed(u, g) => Entry(u) \notin client'[g].pending
    <3> SUFFICES ASSUME NEW g \in DOMAIN client
                 PROVE  /\ client'[g].pending = client[g].pending /\ client'[g].next = client[g].next
                        /\ client'[g].runs => client[g].runs
                        /\ client[g].closed => client'[g].closed
                        /\ client'[g].closed => client[g].closed \/ g = current
                        /\ ~Listed(u, g)
      BY <1>0, <2>1, <2>3 DEF Listed
    <3>1. ~Listed(u, g)
      BY <1>0, <2>1, NotListed
    <3>2. client'[g] = IF g = current THEN c ELSE client[g]
      BY <1>0, <2>2
    <3> QED BY <2>4, <3>1, <3>2
  <2>6. client' \in [DOMAIN client -> ClientRows]
    BY <1>0, <2>2, <2>4
  <2>7. "replace" \in Locking /\ "replace" \notin Resting0 /\ "replace" \notin {"init", "wait", "send"}
    BY DEF Locking, Resting0
  <2>8. (\A x \in Users \ {u} : mlock' = x <=> mlock = x) /\ mlock' \in Users \cup {"free"} /\ user[u].pc # "replace" /\ current # 0
    BY <1>0, <2>1
  <2>9. /\ a.pc \notin {"init", "wait", "send"} /\ a.got = "none" /\ a.on \in DOMAIN client \cup {0} /\ a.id = 0
        /\ (a.pc \in Resting0 => a.on = 0) /\ (a.pc \notin Resting0 \cup {"start"} => a.on # 0)
        /\ (a.pc \in Locking <=> mlock' = u)
    BY <2>1, <2>3, <2>7, <2>8
  <2> QED BY <2>1, <2>2, <2>3, <2>5, <2>6, <2>8, <2>9, CallerKeeps
<1>2. CASE Initialized(u)
  <2>1. /\ user[u].pc = "init" /\ user[u].got # "none" /\ mlock' = "free" /\ UNCHANGED <<client, closer>>
        /\ user[u].pc \in Locking /\ user[u].on \in DOMAIN client /\ mlock = u
    BY <1>0, <1>2 DEF Initialized, Locking, Resting0
  <2>2. \A g \in DOMAIN client : ~Listed(u, g)
    BY <1>0, <2>1, NotListed
  <2>3. CASE Finish(u) /\ UNCHANGED current
    BY <1>0, <2>1, <2>2, <2>3, FinishKeeps
  <2>4. CASE /\ current' = user[u].on
             /\ user' = [user EXCEPT ![u].pc = AfterResolve(user[u].op), ![u].got = "none"]
    <3> DEFINE a == [user[u] EXCEPT !.pc = AfterResolve(user[u].op), !.got = "none"]
    <3>1. user' = [user EXCEPT ![u] = a]
      BY <1>0, <2>4
    <3>2. AfterResolve(user[u].op) \in Opening
      BY DEF AfterResolve, Opening
    <3>3. a \in UserRows /\ a.pc \in Opening /\ a.got = "none" /\ a.on = user[u].on /\ a.id = user[u].id
      BY <1>0, <3>2 DEF UserRows
    <3> HIDE DEF a
    <3>4. a.pc \notin Locking /\ a.pc \notin Resting0 /\ a.pc \notin {"init", "wait", "send"}
      BY <1>0, <3>3 DEF Opening, Locking, Resting0
    <3>5. \A x \in Users \ {u} : mlock' = x <=> mlock = x
      BY <1>0, <2>1
    <3>6. mlock' # u /\ mlock' \in Users \cup {"free"} /\ client' \in [DOMAIN client -> ClientRows]
      BY <1>0, <2>1
    <3> QED BY <1>0, <2>1, <2>2, <2>4, <3>1, <3>3, <3>4, <3>5, <3>6, MovesKeep
  <2> QED BY <1>2, <2>3, <2>4 DEF Initialized
<1>3. CASE InitTimesOut(u)
  <2>1. user[u].pc = "init" /\ TimesOut(u) /\ mlock' = "free" /\ UNCHANGED <<current, closer>>
    BY <1>3 DEF InitTimesOut
  <2>2. mlock' = IF user[u].pc \in Locking THEN "free" ELSE mlock
    BY <2>1 DEF Locking
  <2> QED BY <2>1, <2>2, TimeoutKeeps
<1> QED BY <1>1, <1>2, <1>3

\* The steps that bring a document to the server.
LEMMA OpeningKeeps ==
    ASSUME LspInv, NEW u \in Users, NotePublications(u) \/ CountVersion(u) \/ SendText(u) \/ Look(u)
    PROVE  LspInv'
<1>1. user[u].pc \in Opening /\ UNCHANGED <<current, mlock, closer>> /\ ~Waiting(u)
  BY DEF NotePublications, CountVersion, SendText, Look, Opening, Waiting
<1>2. user[u].pc \notin Locking /\ user[u].pc \notin Resting0 \cup {"start"} /\ user[u].pc # "replace"
  BY <1>1 DEF Opening, Locking, Resting0
<1>3. PICK n \in DOMAIN client : n = user[u].on
  BY <1>2, RowsOfLsp
<1>4. /\ user[u] \in UserRows /\ n # 0 /\ client \in [DOMAIN client -> ClientRows]
      /\ mlock # u /\ mlock \in Users \cup {"free"} /\ user[u].got = "none"
  BY <1>1, <1>2, RowsOfLsp
<1>5. \A g \in DOMAIN client : ~Listed(u, g)
  BY <1>1, NotListed
<1>6. ASSUME NEW a \in UserRows, user' = [user EXCEPT ![u] = a], a.pc \in Opening, a.got = "none", a.on = n, a.id = user[u].id,
             NEW c \in ClientRows, client' = [client EXCEPT ![n] = c],
             c.pending = client[n].pending, c.next = client[n].next, c.runs = client[n].runs, c.closed = client[n].closed
      PROVE  LspInv'
  <2>1. client' \in [DOMAIN client -> ClientRows] /\ \A g \in DOMAIN client : client'[g] = IF g = n THEN c ELSE client[g]
    BY <1>4, <1>6
  <2>2. \A g \in DOMAIN client :
              /\ client'[g].pending = client[g].pending /\ client'[g].next = client[g].next
              /\ client'[g].runs = client[g].runs /\ client'[g].closed = client[g].closed
              /\ Answerable(g) => ~Listed(u, g)
    BY <1>5, <1>6, <2>1
  <2>3. a.pc \notin Locking /\ a.pc \notin Resting0 /\ a.pc \notin {"init", "wait", "send"}
    BY <1>6 DEF Opening, Locking, Resting0
  <2>4. mlock' # u /\ mlock' \in Users \cup {"free"} /\ \A x \in Users \ {u} : mlock' = x <=> mlock = x
    BY <1>1, <1>4
  <2> QED BY <1>1, <1>2, <1>3, <1>4, <1>5, <1>6, <2>1, <2>2, <2>3, <2>4, MovesKeep
<1>7. ASSUME Finish(u), UNCHANGED client PROVE LspInv'
  <2>1. mlock' = IF user[u].pc \in Locking THEN "free" ELSE mlock
    BY <1>1, <1>2
  <2> QED BY <1>1, <1>2, <1>5, <1>7, <2>1, FinishKeeps
<1>8. client = [client EXCEPT ![n] = client[n]] /\ client[n] \in ClientRows
  BY <1>4
<1>9. CASE NotePublications(u)
  <2> DEFINE a == [user[u] EXCEPT !.pc = "open", !.seen = client[n].publishes]
  <2>1. user' = [user EXCEPT ![u] = a] /\ client' = [client EXCEPT ![n] = client[n]]
    BY <1>3, <1>8, <1>9 DEF NotePublications
  <2>2. a \in UserRows /\ a.pc \in Opening /\ a.got = "none" /\ a.on = n /\ a.id = user[u].id
    BY <1>3, <1>4, <1>8 DEF UserRows, Opening, ClientRows
  <2> HIDE DEF a
  <2> QED BY <1>6, <1>8, <2>1, <2>2
<1>10. CASE CountVersion(u)
  <2>1. PICK v \in Nat : v = client[n].opened + 1
    BY <1>8 DEF ClientRows
  <2> DEFINE a == [user[u] EXCEPT !.pc = "send text", !.version = v]
             c == [client[n] EXCEPT !.opened = v]
  <2>2. user' = [user EXCEPT ![u] = a] /\ client' = [client EXCEPT ![n] = c]
    BY <1>3, <1>10, <2>1 DEF CountVersion
  <2>3. a \in UserRows /\ a.pc \in Opening /\ a.got = "none" /\ a.on = n /\ a.id = user[u].id
    BY <1>3, <1>4 DEF UserRows, Opening
  <2>4. c \in ClientRows /\ c.pending = client[n].pending /\ c.next = client[n].next /\ c.runs = client[n].runs /\ c.closed = client[n].closed
    BY <1>8 DEF ClientRows
  <2> HIDE DEF a, c
  <2> QED BY <1>6, <2>2, <2>3, <2>4
<1>11. CASE SendText(u)
  <2>1. CASE Answerable(n)
    <3> DEFINE a == [user[u] EXCEPT !.pc = IF user[u].op = "diagnostics" THEN "look" ELSE "ask"]
               c == [client[n] EXCEPT !.sent = user[u].version]
    <3>2. user' = [user EXCEPT ![u] = a] /\ client' = [client EXCEPT ![n] = c]
      BY <1>3, <1>11, <2>1 DEF SendText
    <3>3. a \in UserRows /\ a.pc \in Opening /\ a.got = "none" /\ a.on = n /\ a.id = user[u].id
      BY <1>3, <1>4 DEF UserRows, Opening
    <3>4. c \in ClientRows /\ c.pending = client[n].pending /\ c.next = client[n].next /\ c.runs = client[n].runs /\ c.closed = client[n].closed
      BY <1>4, <1>8 DEF ClientRows, UserRows
    <3> HIDE DEF a, c
    <3> QED BY <1>6, <3>2, <3>3, <3>4
  <2>2. CASE ~Answerable(n)
    BY <1>3, <1>7, <1>11, <2>2 DEF SendText
  <2> QED BY <2>1, <2>2
<1>12. CASE Look(u)
  BY <1>7, <1>12 DEF Look
<1> QED BY <1>9, <1>10, <1>11, <1>12

\* A request is listed under a new id.
LEMMA AskedKeeps ==
    ASSUME LspInv, NEW u \in Users, NEW a \in UserRows, ~Waiting(u), user' = [user EXCEPT ![u] = a],
           a.on # 0, a.id # 0, a.got = "none", LspTypes',
           \A h \in DOMAIN client : h # a.on => client'[h] = client[h],
           DOMAIN client' = DOMAIN client \cup {a.on},
           a.id < client'[a.on].next, 1 < client'[a.on].next, a.pc = "init" <=> mlock = u,
           \/ /\ a.on \in DOMAIN client /\ a.pc = "send" /\ client[a.on].next = a.id
              /\ client'[a.on].pending = client[a.on].pending \cup {[id |-> a.id, who |-> u]}
              /\ client'[a.on].runs = client[a.on].runs /\ client'[a.on].closed = client[a.on].closed
           \/ /\ a.on \notin DOMAIN client /\ a.pc = "init" /\ client'[a.on].pending = {[id |-> a.id, who |-> u]}
              /\ ~client'[a.on].closed,
           user[u].pc # "replace", UNCHANGED <<current, mlock, closer>>
    PROVE  LspInv'
<1>a. a.on \in Nat \ {0} /\ a.id \in Nat \ {0}
  BY DEF UserRows
<1>b. client'[a.on] \in ClientRows
  BY DEF LspTypes
<1>c. PICK g \in Nat \ {0}, i \in Nat \ {0}, c \in ClientRows : g = a.on /\ i = a.id /\ c = client'[a.on]
  BY <1>a, <1>b
<1>d. /\ a.on = g /\ a.id = i /\ client'[g] = c /\ (\A h \in DOMAIN client : h # g => client'[h] = client[h])
      /\ DOMAIN client' = DOMAIN client \cup {g} /\ i < c.next /\ 1 < c.next
      /\ \/ /\ g \in DOMAIN client /\ a.pc = "send" /\ client[g].next = i
            /\ c.pending = client[g].pending \cup {[id |-> i, who |-> u]} /\ c.runs = client[g].runs /\ c.closed = client[g].closed
         \/ /\ g \notin DOMAIN client /\ a.pc = "init" /\ c.pending = {[id |-> i, who |-> u]} /\ ~c.closed
  BY <1>c
<1> USE <1>d
<1> USE DEF LspInv
<1>1. \A x \in Users : user'[x] = IF x = u THEN a ELSE user[x]
  BY DEF LspTypes
<1>2. /\ Waiting(u)' /\ Entry(u)' = [id |-> i, who |-> u]
      /\ \A x \in Users \ {u} : Waiting(x)' = Waiting(x) /\ Entry(x)' = Entry(x) /\ Entry(x).who = x
  BY <1>1 DEF Waiting, Entry
<1>3. \A x \in Users \ {u}, h \in DOMAIN client : Listed(x, h)' = Listed(x, h)
  BY <1>1, <1>2 DEF Listed
<1>4. \A x \in Users \ {u} : ~Listed(x, g)' \/ g \in DOMAIN client
  BY <1>1, <1>2 DEF Listed
<1>5. Listed(u, g)' /\ \A h : h # g => ~Listed(u, h)'
  BY <1>1, <1>2 DEF Listed
<1>6. OnClients'
  BY <1>1 DEF OnClients, Resting0
<1>7. RequestIds'
  <2>1. \A h \in DOMAIN client' : client'[h].next > 1 /\ \A e \in client'[h].pending : 0 < e.id /\ e.id < client'[h].next
    <3> SUFFICES ASSUME NEW h \in DOMAIN client' PROVE client'[h].next > 1 /\ \A e \in client'[h].pending : 0 < e.id /\ e.id < client'[h].next
      OBVIOUS
    <3>1. CASE h # g
      BY <3>1 DEF RequestIds
    <3>2. CASE h = g /\ g \in DOMAIN client
      <4>1. \A e \in client[g].pending : e.id \in Nat /\ 0 < e.id /\ e.id < i
        BY <3>2 DEF RequestIds, LspTypes, ClientRows
      <4>2. c.next \in Nat
        BY DEF ClientRows
      <4> QED BY <3>2, <4>1, <4>2
    <3>3. CASE h = g /\ g \notin DOMAIN client
      BY <3>3
    <3> QED BY <3>1, <3>2, <3>3
  <2>2. \A x \in Users \ {u} : user[x].on # 0 => user[x].on \in DOMAIN client /\ user[x].id < client[user[x].on].next
    BY DEF RequestIds, OnClients
  <2>3. \A x \in Users \ {u} : user[x].on = g => user[x].id < i
    BY <2>2
  <2>4. \A x \in Users \ {u} : user[x].id \in Nat
    BY DEF LspTypes, UserRows
  <2>5. \A x \in Users : user'[x].on # 0 => user'[x].id < client'[user'[x].on].next
    <3> SUFFICES ASSUME NEW x \in Users \ {u}, user[x].on # 0 PROVE user[x].id < client'[user[x].on].next
      BY <1>1
    <3>1. CASE user[x].on = g
      <4>1. c.next \in Nat
        BY DEF ClientRows
      <4> QED BY <2>3, <2>4, <3>1, <4>1
    <3>2. CASE user[x].on # g
      BY <2>2, <3>2
    <3> QED BY <3>1, <3>2
  <2>6. \A x \in Users : user'[x].pc \in Resting0 \cup {"replace", "start"} => user'[x].id = 0
    BY <1>1 DEF RequestIds, Resting0
  <2>7. \A x, y \in Users : Waiting(x)' /\ Waiting(y)' /\ user'[x].on = user'[y].on /\ user'[x].id = user'[y].id => x = y
    <3> SUFFICES ASSUME NEW x \in Users, NEW y \in Users, x # y, Waiting(x)', Waiting(y)',
                        user'[x].on = user'[y].on, user'[x].id = user'[y].id
                 PROVE  FALSE
      OBVIOUS
    <3>1. CASE x # u /\ y # u
      BY <1>1, <1>2, <3>1 DEF RequestIds
    <3>2. CASE x = u \/ y = u
      BY <1>1, <2>3, <2>4, <3>2
    <3> QED BY <3>1, <3>2
  <2> QED BY <2>1, <2>5, <2>6, <2>7 DEF RequestIds
<1>8. Unanswered'
  BY <1>1, <1>2, <1>3, <1>4, <1>5 DEF Unanswered
<1>9. StartedOpen'
  <2>1. a.pc = "init" => ~c.closed /\ g \notin DOMAIN client
    OBVIOUS
  <2>2. \A x \in Users \ {u} : user[x].pc = "init" => user[x].on \in DOMAIN client /\ ~client[user[x].on].closed
    BY DEF StartedOpen, OnClients, Resting0
  <2>3. \A h \in DOMAIN client : client'[h].closed => client[h].closed
    OBVIOUS
  <2> QED BY <1>1, <2>1, <2>2, <2>3 DEF StartedOpen, OnClients
<1>10. HeardOf'
  BY <1>1, <1>2, <1>3, <1>5 DEF LspSound, HeardOf, OnClients, Waiting, Resting0
<1>11. NoneForgotten'
  <2> SUFFICES ASSUME NEW h \in DOMAIN client', Answerable(h)', NEW e \in client'[h].pending
               PROVE  Waiting(e.who)' /\ Listed(e.who, h)' /\ user'[e.who].id = e.id
    BY DEF NoneForgotten
  <2>1. CASE h = g /\ e = [id |-> i, who |-> u]
    BY <1>1, <1>2, <1>5, <2>1
  <2>2. CASE h \in DOMAIN client /\ e \in client[h].pending
    <3>1. Answerable(h)
      <4>1. CASE h # g
        BY <2>2, <4>1 DEF Answerable
      <4>2. CASE h = g
        BY <2>2, <4>2 DEF Answerable
      <4> QED BY <4>1, <4>2
    <3>2. e.who \in Users
      <4>1. client[h] \in ClientRows
        BY <2>2 DEF LspTypes
      <4>2. client[h].pending \subseteq [id : Nat, who : Users]
        BY <4>1 DEF ClientRows
      <4> QED BY <2>2, <4>2
    <3>3. Waiting(e.who) /\ Listed(e.who, h) /\ user[e.who].id = e.id
      BY <2>2, <3>1 DEF LspSound, NoneForgotten
    <3>4. e.who # u
      BY <3>3
    <3> QED BY <1>1, <1>2, <1>3, <2>2, <3>2, <3>3, <3>4
  <2> QED BY <2>1, <2>2
<1>12. OwnResponse'
  BY <1>1, <1>2 DEF LspSound, OwnResponse
<1>13. OneLockHolder'
  BY <1>1 DEF LspSound, OneLockHolder, Waiting
<1>14. InTheTable'
  BY <1>1 DEF LspSound, InTheTable, LspTypes
<1> QED BY <1>6, <1>7, <1>8, <1>9, <1>10, <1>11, <1>12, <1>13, <1>14 DEF LspSound

\* A request is listed, sent, heard and given up.
LEMMA RequestKeeps ==
    ASSUME LspInv, NEW u \in Users, ListRequest(u) \/ SendRequest(u) \/ HearResponse(u) \/ RequestTimesOut(u)
    PROVE  LspInv'
<1>1. user[u].pc \in {"ask", "send", "wait"} /\ UNCHANGED <<current, mlock, closer>>
  BY DEF ListRequest, SendRequest, HearResponse, RequestTimesOut
<1>2. user[u].pc \notin Locking /\ user[u].pc \notin Resting0 \cup {"start"} /\ user[u].pc # "replace"
  BY <1>1 DEF Locking, Resting0
<1>3. PICK n \in DOMAIN client : n = user[u].on
  BY <1>2, RowsOfLsp
<1>4. /\ user[u] \in UserRows /\ n \in Nat \ {0} /\ client \in [DOMAIN client -> ClientRows] /\ mlock # u
      /\ client[n] \in ClientRows
  BY <1>2, RowsOfLsp
<1>5. ASSUME Finish(u), UNCHANGED client, \A g \in DOMAIN client : Answerable(g) => ~Listed(u, g) PROVE LspInv'
  <2>1. mlock' = IF user[u].pc \in Locking THEN "free" ELSE mlock
    BY <1>1, <1>2
  <2> QED BY <1>1, <1>2, <1>5, <2>1, FinishKeeps
<1>6. CASE ListRequest(u)
  <2>1. PICK i \in Nat \ {0} : i = client[n].next
    BY <1>3, <1>4 DEF LspInv, RequestIds, ClientRows
  <2>9. PICK j \in Nat : j = i + 1
    OBVIOUS
  <2>10. PICK q \in SUBSET [id : Nat, who : Users] : q = client[n].pending \cup {[id |-> i, who |-> u]}
    <3>1. client[n].pending \in SUBSET [id : Nat, who : Users]
      BY <1>4 DEF ClientRows
    <3>2. [id |-> i, who |-> u] \in [id : Nat, who : Users]
      OBVIOUS
    <3> QED BY <3>1, <3>2
  <2> DEFINE a == [user[u] EXCEPT !.pc = "send", !.id = i]
             c == [client[n] EXCEPT !.pending = q, !.next = j]
  <2>2. user[u].pc = "ask" /\ user' = [user EXCEPT ![u] = a] /\ client' = [client EXCEPT ![n] = c]
    BY <1>3, <1>6, <2>1, <2>9, <2>10 DEF ListRequest
  <2>3. ~Waiting(u) /\ user[u].got = "none"
    BY <2>2, RowsOfLsp DEF Waiting
  <2>4. a \in UserRows /\ a.pc = "send" /\ a.got = "none" /\ a.on = n /\ a.id = i
    BY <1>3, <1>4, <2>3 DEF UserRows
  <2>5. c \in ClientRows /\ c.pending = q /\ c.next = j /\ c.runs = client[n].runs /\ c.closed = client[n].closed
    BY <1>4 DEF ClientRows
  <2> HIDE DEF a, c
  <2>6. /\ DOMAIN client' = DOMAIN client \cup {n} /\ client'[n] = c /\ \A h \in DOMAIN client : h # n => client'[h] = client[h]
        /\ client' \in [DOMAIN client -> ClientRows] /\ DOMAIN client' = DOMAIN client
    BY <1>4, <2>2, <2>5
  <2>7. LspTypes'
    BY <1>1, <2>2, <2>4, <2>6 DEF LspInv, LspTypes
  <2>8. a.id < client'[a.on].next /\ 1 < client'[a.on].next
    BY <2>1, <2>4, <2>5, <2>6, <2>9
  <2>11. /\ a.on \in DOMAIN client /\ a.pc = "send" /\ client[a.on].next = a.id
         /\ client'[a.on].pending = client[a.on].pending \cup {[id |-> a.id, who |-> u]}
         /\ client'[a.on].runs = client[a.on].runs /\ client'[a.on].closed = client[a.on].closed
    BY <2>1, <2>4, <2>5, <2>6, <2>10
  <2>12. (a.pc = "init" <=> mlock = u) /\ UNCHANGED <<current, mlock, closer>> /\ user[u].pc # "replace" /\ a.on # 0 /\ a.id # 0
    BY <1>1, <1>2, <1>4, <2>4
  <2>13. DOMAIN client' = DOMAIN client \cup {a.on} /\ \A h \in DOMAIN client : h # a.on => client'[h] = client[h]
    BY <2>4, <2>6
  <2> QED BY <2>2, <2>3, <2>4, <2>7, <2>8, <2>11, <2>12, <2>13, AskedKeeps
<1>7. CASE SendRequest(u)
  <2>1. CASE Answerable(n)
    <3> DEFINE a == [user[u] EXCEPT !.pc = "wait"]
               c == [client[n] EXCEPT !.asked = @ \cup {user[u].id}]
    <3>1. user[u].pc = "send" /\ user' = [user EXCEPT ![u] = a] /\ client' = [client EXCEPT ![n] = c]
      BY <1>3, <1>7, <2>1 DEF SendRequest
    <3>2. a \in UserRows /\ a.pc = "wait" /\ a.got = user[u].got /\ a.on = user[u].on /\ a.id = user[u].id /\ a.answers = user[u].answers
      BY <1>4 DEF UserRows
    <3>3. /\ c \in ClientRows /\ c.pending = client[n].pending /\ c.next = client[n].next /\ c.runs = client[n].runs
          /\ c.closed = client[n].closed
      BY <1>4 DEF ClientRows, UserRows
    <3> HIDE DEF a, c
    <3>4. /\ DOMAIN client' = DOMAIN client /\ client' \in [DOMAIN client -> ClientRows]
          /\ \A h \in DOMAIN client : /\ client'[h].pending = client[h].pending /\ client'[h].next = client[h].next
                                      /\ client'[h].runs = client[h].runs /\ client'[h].closed = client[h].closed
      BY <1>4, <3>1, <3>3
    <3>5. \A x \in Users : user'[x] = IF x = u THEN a ELSE user[x]
      BY <3>1 DEF LspInv, LspTypes
    <3>6. \A x \in Users : /\ Waiting(x)' = Waiting(x) /\ Entry(x)' = Entry(x) /\ user'[x].on = user[x].on /\ user'[x].id = user[x].id
                           /\ user'[x].got = user[x].got /\ user'[x].answers = user[x].answers
                           /\ user'[x].pc = user[x].pc \/ (user[x].pc = "send" /\ user'[x].pc = "wait")
      BY <3>1, <3>2, <3>5 DEF Waiting, Entry
    <3>7. \A x \in Users, h \in DOMAIN client : Listed(x, h)' = Listed(x, h)
      BY <3>4, <3>6 DEF Listed
    <3>8. LspTypes'
      BY <1>1, <3>1, <3>2, <3>4 DEF LspInv, LspTypes
    <3>9. OnClients' /\ StartedOpen'
      BY <1>1, <3>4, <3>6 DEF LspInv, OnClients, StartedOpen, Resting0
    <3>10. RequestIds'
      BY <1>1, <3>4, <3>6 DEF LspInv, RequestIds, OnClients, Resting0
    <3>11. Unanswered'
      BY <3>4, <3>6, <3>7 DEF LspInv, Unanswered
    <3>12. HeardOf' /\ OwnResponse' /\ OneLockHolder' /\ InTheTable'
      <4>1. HeardOf'
        <5>1. \A x \in Users : Waiting(x) => user[x].on \in DOMAIN client
          BY DEF LspInv, OnClients, Waiting, Resting0
        <5> QED BY <3>6, <3>7, <5>1 DEF LspInv, LspSound, HeardOf
      <4>2. OwnResponse'
        BY <3>6 DEF LspInv, LspSound, OwnResponse
      <4>3. OneLockHolder'
        BY <1>1, <3>6 DEF LspInv, LspSound, OneLockHolder
      <4>4. \A x \in Users : user[x].pc = "replace" => user'[x].pc = "replace"
        BY <3>6
      <4>5. InTheTable'
        BY <1>1, <3>4, <4>4 DEF LspInv, LspTypes, LspSound, InTheTable
      <4> QED BY <4>1, <4>2, <4>3, <4>5
    <3>13. NoneForgotten'
      <4>1. \A h \in DOMAIN client : \A e : e \in client[h].pending => e.who \in Users
        BY <1>4 DEF ClientRows
      <4>2. \A h \in DOMAIN client : Answerable(h)' = Answerable(h)
        BY <3>4 DEF Answerable
      <4> QED BY <3>4, <3>6, <3>7, <4>1, <4>2 DEF LspInv, LspSound, NoneForgotten
    <3> QED BY <3>8, <3>9, <3>10, <3>11, <3>12, <3>13 DEF LspInv, LspSound
  <2>2. CASE ~Answerable(n)
    <3>1. \A g \in DOMAIN client : Answerable(g) => ~Listed(u, g)
      BY <1>3, <2>2 DEF Listed
    <3> QED BY <1>3, <1>5, <1>7, <2>2, <3>1 DEF SendRequest
  <2> QED BY <2>1, <2>2
<1>8. CASE HearResponse(u)
  BY <1>5, <1>8, NotListed DEF HearResponse
<1>9. CASE RequestTimesOut(u)
  <2>1. user[u].pc = "wait" /\ TimesOut(u)
    BY <1>9 DEF RequestTimesOut
  <2>2. mlock' = IF user[u].pc \in Locking THEN "free" ELSE mlock
    BY <1>1, <1>2
  <2> QED BY <1>1, <2>1, <2>2, TimeoutKeeps
<1> QED BY <1>6, <1>7, <1>8, <1>9

\* A server is started under the manager's lock.
LEMMA StartKeeps ==
    ASSUME LspInv, NEW u \in Users, StartServer(u)
    PROVE  LspInv'
<1>1. user[u].pc = "start" /\ UNCHANGED <<current, closer>>
  BY DEF StartServer
<1>2. mlock = u /\ user[u].pc \in Locking /\ ~Waiting(u) /\ user[u].got = "none" /\ user[u] \in UserRows
  BY <1>1, RowsOfLsp DEF Locking, Waiting
<1>3. PICK n \in Nat : n = Cardinality(DOMAIN client)
  BY DEF LspInv, LspTypes
<1>4. DOMAIN client = 1..n /\ DOMAIN client \cup {n + 1} = 1..n + 1 /\ n + 1 \notin DOMAIN client /\ client \in [DOMAIN client -> ClientRows]
  BY <1>3 DEF LspInv, LspTypes
<1>5. CASE Finish(u) /\ mlock' = "free" /\ UNCHANGED client
  <2>1. \A g \in DOMAIN client : Answerable(g) => ~Listed(u, g)
    BY <1>2, NotListed
  <2> QED BY <1>1, <1>2, <1>5, <2>1, FinishKeeps
<1>6. CASE /\ client' = [k \in DOMAIN client \cup {n + 1} |-> IF k = n + 1 THEN Started0(u) ELSE client[k]]
           /\ user' = [user EXCEPT ![u].pc = "init", ![u].on = n + 1, ![u].id = 1]
           /\ UNCHANGED mlock
  <2>10. PICK m \in Nat \ {0} : m = n + 1
    BY <1>3
  <2> DEFINE a == [user[u] EXCEPT !.pc = "init", !.on = m, !.id = 1]
             c == Started0(u)
  <2>1. user' = [user EXCEPT ![u] = a]
    BY <1>6, <2>10
  <2>2. a \in UserRows /\ a.pc = "init" /\ a.got = "none" /\ a.on = m /\ a.id = 1
    BY <1>2 DEF UserRows, Locking
  <2>3. c \in ClientRows /\ c.pending = {[id |-> 1, who |-> u]} /\ c.next = 2 /\ ~c.closed
    BY DEF Started0, ClientRows
  <2>4. client' = [k \in DOMAIN client \cup {m} |-> IF k = m THEN c ELSE client[k]]
    BY <1>6, <2>10
  <2> HIDE DEF a, c
  <2>5. /\ DOMAIN client' = DOMAIN client \cup {m} /\ client'[m] = c
        /\ \A h \in DOMAIN client : h # m => client'[h] = client[h]
        /\ client' \in [DOMAIN client' -> ClientRows]
    BY <1>4, <2>3, <2>4
  <2>6. Cardinality(1..m) = m
    BY <1>3, <2>10, FS_Interval
  <2>7. DOMAIN client' = 1..Cardinality(DOMAIN client') /\ Cardinality(DOMAIN client') \in Nat
    <3>1. DOMAIN client' = 1..m
      BY <1>4, <2>5, <2>10
    <3>2. Cardinality(DOMAIN client') = m
      BY <2>6, <3>1
    <3> QED BY <3>1, <3>2
  <2>8. LspTypes'
    <3>1. current' \in DOMAIN client' \cup {0} /\ mlock' \in Users \cup {"free"} /\ closer' \in Closers
      BY <1>1, <1>6, <2>5 DEF LspInv, LspTypes
    <3>2. user' \in [Users -> UserRows]
      BY <2>1, <2>2 DEF LspInv, LspTypes
    <3> QED BY <2>5, <2>7, <3>1, <3>2 DEF LspTypes
  <2>9. user[u].pc # "replace" /\ (a.pc = "init" <=> mlock = u) /\ UNCHANGED <<current, mlock, closer>> /\ a.on # 0 /\ a.id # 0
    BY <1>1, <1>2, <1>6, <2>2
  <2>11. /\ a.on \notin DOMAIN client /\ a.pc = "init" /\ client'[a.on].pending = {[id |-> a.id, who |-> u]} /\ ~client'[a.on].closed
         /\ a.id < client'[a.on].next /\ 1 < client'[a.on].next
    BY <1>4, <2>2, <2>3, <2>5, <2>10
  <2>12. DOMAIN client' = DOMAIN client \cup {a.on} /\ \A h \in DOMAIN client : h # a.on => client'[h] = client[h]
    BY <2>2, <2>5
  <2> QED BY <1>2, <2>1, <2>2, <2>8, <2>9, <2>11, <2>12, AskedKeeps
<1> QED BY <1>3, <1>5, <1>6 DEF StartServer

-----------------------------------------------------------------------------
(* LSP clients: the server and the manager *)

\* The server answers, asks, publishes or ends.
LEMMA ServerKeepsLsp ==
    ASSUME LspInv, NEW g \in DOMAIN client,
           (\E id \in client[g].asked : ServerAnswers(g, id)) \/ ServerRequests(g) \/ Publishes(g) \/ ReaderStops(g) \/ ExitsUnread(g)
    PROVE  LspInv'
<1>1. /\ client[g] \in ClientRows /\ user \in [Users -> UserRows] /\ closer \in Closers /\ client \in [DOMAIN client -> ClientRows]
  BY DEF LspInv, LspTypes
<1>2. UNCHANGED <<current, mlock, closer>>
  BY DEF ServerAnswers, ServerRequests, Publishes, ReaderStops, ExitsUnread
\* A step that gives no answer.
<1>3. ASSUME NEW c \in ClientRows, client' = [client EXCEPT ![g] = c], UNCHANGED user,
             c.pending = client[g].pending, c.next = client[g].next, c.closed = client[g].closed, c.runs => client[g].runs
      PROVE  LspInv'
  <2>1. \A u \in Users : user'[u] = user[u] /\ (Listed(u, g) => Entry(u) \in c.pending)
    BY <1>3 DEF Listed
  <2> QED BY <1>1, <1>2, <1>3, <2>1, ServerSideKeeps
\* A response for whoever waits for the id.
<1>4. ASSUME NEW id \in Nat, NEW says \in {"result", "error", "nothing"}, NEW answers \in Nat, Deliver(g, id, says, answers),
             says = "result" => answers = id,
             NEW c \in ClientRows, client' = [client EXCEPT ![g] = c], c.pending = {e \in client[g].pending : e.id # id},
             c.next = client[g].next, c.closed = client[g].closed, c.runs = client[g].runs
      PROVE  LspInv'
  <2>1. user' \in [Users -> UserRows]
    <3> SUFFICES ASSUME NEW u \in Users PROVE [user[u] EXCEPT !.got = says, !.answers = answers] \in UserRows
      BY <1>1, <1>4 DEF Deliver
    <3> QED BY <1>1, <1>4 DEF UserRows
  <2>2. ASSUME NEW u \in Users
        PROVE  \/ user'[u] = user[u] /\ (Listed(u, g) => Entry(u) \in c.pending)
               \/ /\ Listed(u, g) /\ Entry(u) \notin c.pending
                  /\ user'[u].pc = user[u].pc /\ user'[u].on = user[u].on /\ user'[u].id = user[u].id
                  /\ user'[u].got # "none" /\ (user'[u].got = "result" => user'[u].answers = user[u].id)
    <3>1. CASE Listed(u, g) /\ user[u].id = id
      <4> DEFINE a == [user[u] EXCEPT !.got = says, !.answers = answers]
      <4>1. user'[u] = a
        BY <1>4, <3>1 DEF Deliver
      <4>2. /\ a.pc = user[u].pc /\ a.on = user[u].on /\ a.id = user[u].id /\ a.got = says /\ a.answers = answers
        BY <1>1 DEF UserRows
      <4> HIDE DEF a
      <4>3. Entry(u) \notin c.pending
        BY <1>4, <3>1 DEF Entry
      <4> QED BY <1>4, <3>1, <4>1, <4>2, <4>3
    <3>2. CASE ~(Listed(u, g) /\ user[u].id = id)
      <4>1. user'[u] = user[u]
        BY <1>4, <3>2 DEF Deliver
      <4>2. Listed(u, g) => Entry(u) \in c.pending
        BY <1>4, <3>2 DEF Listed, Entry
      <4> QED BY <4>1, <4>2
    <3> QED BY <3>1, <3>2
  <2>3. /\ c.pending \subseteq client[g].pending /\ (c.runs => client[g].runs) /\ (client[g].closed => c.closed)
        /\ (c.closed => client[g].closed \/ (closer.pc = "close" /\ closer.on = g))
        /\ c.next = client[g].next /\ client' = [client EXCEPT ![g] = c]
    BY <1>4
  <2>4. /\ closer' \in Closers /\ (closer'.pc \in {"close", "fail"} => closer.pc \in {"close", "fail"} /\ closer'.on = closer.on)
        /\ current' \in {0, current} /\ UNCHANGED mlock
    BY <1>1, <1>2
  <2> QED BY <2>1, <2>2, <2>3, <2>4, ServerSideKeeps
<1>5. ASSUME NEW id \in client[g].asked, ServerAnswers(g, id) PROVE LspInv'
  <2>1. id \in Nat
    BY <1>1 DEF ClientRows
  <2>2. PICK q \in SUBSET [id : Nat, who : Users] : q = {e \in client[g].pending : e.id # id}
    BY <1>1 DEF ClientRows
  <2> DEFINE c == [client[g] EXCEPT !.asked = client[g].asked \ {id}, !.pending = q]
  <2>3. client' = [client EXCEPT ![g] = c]
    BY <1>5, <2>2 DEF ServerAnswers, Unlisted
  <2>4. c \in ClientRows /\ c.pending = q /\ c.next = client[g].next /\ c.closed = client[g].closed /\ c.runs = client[g].runs
    BY <1>1 DEF ClientRows
  <2> HIDE DEF c
  <2>5. Deliver(g, id, "result", id) \/ Deliver(g, id, "error", id)
    BY <1>5 DEF ServerAnswers
  <2> QED BY <1>4, <2>1, <2>2, <2>3, <2>4, <2>5
<1>6. CASE ServerRequests(g)
  <2>1. PICK id \in 1..client[g].next : Deliver(g, id, "nothing", 0) /\ client' = [client EXCEPT ![g].pending = Unlisted(g, id)]
    BY <1>6 DEF ServerRequests
  <2>2. PICK q \in SUBSET [id : Nat, who : Users] : q = {e \in client[g].pending : e.id # id}
    BY <1>1 DEF ClientRows
  <2> DEFINE c == [client[g] EXCEPT !.pending = q]
  <2>3. client' = [client EXCEPT ![g] = c]
    BY <2>1, <2>2 DEF Unlisted
  <2>4. c \in ClientRows /\ c.pending = q /\ c.next = client[g].next /\ c.closed = client[g].closed /\ c.runs = client[g].runs
    BY <1>1 DEF ClientRows
  <2> HIDE DEF c
  <2>5. id \in Nat /\ 0 \in Nat
    BY <1>1, <2>1 DEF ClientRows
  <2> QED BY <1>4, <2>1, <2>2, <2>3, <2>4, <2>5
<1>7. CASE Publishes(g)
  <2>1. PICK v \in client[g].shown + 1..client[g].sent : client' = [client EXCEPT ![g].shown = v, ![g].publishes = @ + 1]
    BY <1>7 DEF Publishes
  <2>2. PICK j \in Nat : j = client[g].publishes + 1
    BY <1>1 DEF ClientRows
  <2>3. v \in Nat
    BY <1>1, <2>1 DEF ClientRows
  <2> DEFINE c == [client[g] EXCEPT !.shown = v, !.publishes = j]
  <2>4. client' = [client EXCEPT ![g] = c] /\ UNCHANGED user
    BY <1>7, <2>1, <2>2 DEF Publishes
  <2>5. /\ c \in ClientRows /\ c.pending = client[g].pending /\ c.next = client[g].next /\ c.closed = client[g].closed
        /\ c.runs = client[g].runs
    BY <1>1, <2>3 DEF ClientRows
  <2> HIDE DEF c
  <2> QED BY <1>3, <2>4, <2>5
<1>8. CASE ReaderStops(g)
  <2>1. FailPending(g)
    BY <1>8 DEF ReaderStops
  <2>2. user' \in [Users -> UserRows]
    <3> SUFFICES ASSUME NEW u \in Users PROVE [user[u] EXCEPT !.got = "error"] \in UserRows
      BY <1>1, <2>1 DEF FailPending
    <3> QED BY <1>1 DEF UserRows
  <2>3. ASSUME NEW u \in Users
        PROVE  \/ user'[u] = user[u] /\ ~Listed(u, g)
               \/ /\ Listed(u, g)
                  /\ user'[u].pc = user[u].pc /\ user'[u].on = user[u].on /\ user'[u].id = user[u].id
                  /\ user'[u].got = "error"
    BY <1>1, <2>1 DEF FailPending, UserRows
  <2>4. ASSUME NEW c \in ClientRows, client' = [client EXCEPT ![g] = c], c.pending = {}, c.next = client[g].next,
               c.closed = client[g].closed, c.runs => client[g].runs
        PROVE  LspInv'
    <3>1. \A u \in Users :
              \/ user'[u] = user[u] /\ (Listed(u, g) => Entry(u) \in c.pending)
              \/ /\ Listed(u, g) /\ Entry(u) \notin c.pending
                 /\ user'[u].pc = user[u].pc /\ user'[u].on = user[u].on /\ user'[u].id = user[u].id
                 /\ user'[u].got # "none" /\ (user'[u].got = "result" => user'[u].answers = user[u].id)
      BY <2>3, <2>4
    <3> QED BY <1>1, <1>2, <2>2, <2>4, <3>1, ServerSideKeeps
  <2>5. CASE client' = [client EXCEPT ![g].reads = FALSE, ![g].pending = {}]
    <3> DEFINE c == [client[g] EXCEPT !.reads = FALSE, !.pending = {}]
    <3>1. c \in ClientRows /\ c.pending = {} /\ c.next = client[g].next /\ c.closed = client[g].closed /\ c.runs = client[g].runs
      BY <1>1 DEF ClientRows
    <3>2. client' = [client EXCEPT ![g] = c]
      BY <2>5
    <3> HIDE DEF c
    <3> QED BY <2>4, <3>1, <3>2
  <2>6. CASE client' = [client EXCEPT ![g].reads = FALSE, ![g].pending = {}, ![g].runs = FALSE]
    <3> DEFINE c == [client[g] EXCEPT !.reads = FALSE, !.pending = {}, !.runs = FALSE]
    <3>1. c \in ClientRows /\ c.pending = {} /\ c.next = client[g].next /\ c.closed = client[g].closed /\ ~c.runs
      BY <1>1 DEF ClientRows
    <3>2. client' = [client EXCEPT ![g] = c]
      BY <2>6
    <3> HIDE DEF c
    <3> QED BY <2>4, <3>1, <3>2
  <2> QED BY <1>8, <2>5, <2>6 DEF ReaderStops
<1>9. CASE ExitsUnread(g)
  <2> DEFINE c == [client[g] EXCEPT !.runs = FALSE]
  <2>1. client' = [client EXCEPT ![g] = c] /\ UNCHANGED user
    BY <1>9 DEF ExitsUnread
  <2>2. c \in ClientRows /\ c.pending = client[g].pending /\ c.next = client[g].next /\ c.closed = client[g].closed /\ ~c.runs
    BY <1>1 DEF ClientRows
  <2> HIDE DEF c
  <2> QED BY <1>3, <2>1, <2>2
<1> QED BY <1>5, <1>6, <1>7, <1>8, <1>9

\* The exited client has been closed: nobody is in its table, and the manager has none.
LEMMA ReplacedKeeps ==
    ASSUME LspInv, NEW u \in Users, Replaced(u)
    PROVE  LspInv'
<1>1. /\ user[u].pc = "replace" /\ current' = 0 /\ UNCHANGED <<mlock, closer>> /\ user \in [Users -> UserRows]
      /\ closer \in Closers /\ client \in [DOMAIN client -> ClientRows]
  BY DEF Replaced, LspInv, LspTypes
<1>2. PICK n \in DOMAIN client : n = user[u].on
  BY <1>1, RowsOfLsp DEF Resting0
<1> DEFINE c == [client[n] EXCEPT !.pending = {}]
<1>3. client' = [client EXCEPT ![n] = c]
  BY <1>2 DEF Replaced
<1>4. c \in ClientRows /\ c.pending = {} /\ c.next = client[n].next /\ c.closed = client[n].closed /\ c.runs = client[n].runs
  BY <1>1 DEF ClientRows
<1> HIDE DEF c
<1>5. \A x \in Users : user'[x] = IF x = u THEN [user[u] EXCEPT !.pc = "start"]
                                  ELSE IF Listed(x, n) THEN [user[x] EXCEPT !.got = "error"] ELSE user[x]
  BY <1>2 DEF Replaced
<1>6. user' \in [Users -> UserRows]
  <2>1. \A x \in Users : [user[x] EXCEPT !.got = "error"] \in UserRows /\ [user[x] EXCEPT !.pc = "start"] \in UserRows
    BY <1>1 DEF UserRows, Locking
  <2>2. \A x \in Users : user'[x] \in UserRows
    BY <1>1, <1>5, <2>1
  <2>3. user' = [x \in Users |-> user'[x]]
    BY DEF Replaced
  <2> QED BY <2>2, <2>3
<1>7. ASSUME NEW x \in Users
      PROVE  \/ user'[x] = user[x] /\ (Listed(x, n) => Entry(x) \in c.pending)
             \/ /\ Listed(x, n) /\ Entry(x) \notin c.pending
                /\ user'[x].pc = user[x].pc /\ user'[x].on = user[x].on /\ user'[x].id = user[x].id
                /\ user'[x].got # "none" /\ (user'[x].got = "result" => user'[x].answers = user[x].id)
             \/ /\ user[x].pc = "replace" /\ current' = 0 /\ user'[x].pc = "start"
                /\ user'[x].on = user[x].on /\ user'[x].id = user[x].id /\ user'[x].got = user[x].got
  <2>1. CASE x = u
    BY <1>1, <1>5, <2>1 DEF UserRows
  <2>2. CASE x # u /\ Listed(x, n)
    <3>1. /\ user'[x].pc = user[x].pc /\ user'[x].on = user[x].on /\ user'[x].id = user[x].id /\ user'[x].got = "error"
      BY ZenonT(40), <1>1, <1>5, <2>2 DEF UserRows
    <3> QED BY <1>4, <2>2, <3>1
  <2>3. CASE x # u /\ ~Listed(x, n)
    BY <1>5, <2>3
  <2> QED BY <2>1, <2>2, <2>3
<1>8. /\ c.pending \subseteq client[n].pending /\ (c.runs => client[n].runs) /\ (client[n].closed => c.closed)
      /\ (c.closed => client[n].closed \/ (closer.pc = "close" /\ closer.on = n))
      /\ closer' \in Closers /\ (closer'.pc \in {"close", "fail"} => closer.pc \in {"close", "fail"} /\ closer'.on = closer.on)
      /\ current' \in {0, current} /\ UNCHANGED mlock
  BY <1>1, <1>4
<1>9. /\ c \in ClientRows /\ c.next = client[n].next
      /\ \A x \in Users :
           \/ user'[x] = user[x] /\ (Listed(x, n) => Entry(x) \in c.pending)
           \/ /\ Listed(x, n) /\ Entry(x) \notin c.pending
              /\ user'[x].pc = user[x].pc /\ user'[x].on = user[x].on /\ user'[x].id = user[x].id
              /\ user'[x].got # "none" /\ (user'[x].got = "result" => user'[x].answers = user[x].id)
           \/ /\ user[x].pc = "replace" /\ current' = 0 /\ user'[x].pc = "start"
              /\ user'[x].on = user[x].on /\ user'[x].id = user[x].id /\ user'[x].got = user[x].got
  BY <1>4, <1>7
<1> QED BY ONLY LspInv, <1>3, <1>6, <1>8, <1>9, ServerSideKeeps

\* The manager takes the client out of its table, closes it, and fails whoever is in its table.
LEMMA ManagerKeeps ==
    ASSUME LspInv, TakeTable \/ CloseTransport \/ Closed
    PROVE  LspInv'
<1>1. /\ closer \in Closers /\ client \in [DOMAIN client -> ClientRows] /\ user \in [Users -> UserRows]
      /\ current \in DOMAIN client \cup {0}
  BY DEF LspInv, LspTypes
<1>2. CASE TakeTable
  <2>1. /\ mlock = "free" /\ closer.pc = "start" /\ UNCHANGED <<client, mlock, user>> /\ current' = 0
        /\ closer' = [pc |-> IF current = 0 THEN "over" ELSE "close", on |-> current]
    BY <1>2 DEF TakeTable
  <2>2. \A u \in Users : user[u].pc # "init"
    BY <2>1, LspAssumption DEF LspInv, LspSound, OneLockHolder
  <2>3. /\ closer' \in Closers /\ (closer'.pc \in {"close", "fail"} => closer'.on \in DOMAIN client /\ closer'.on # 0)
    <3>1. DOMAIN client \subseteq Nat \ {0}
      BY DEF LspInv, LspTypes
    <3>2. CASE current = 0
      BY <2>1, <3>2 DEF Closers
    <3>3. CASE current # 0
      BY <1>1, <2>1, <3>1, <3>3 DEF Closers
    <3> QED BY <3>2, <3>3
  <2>4. LspTypes'
    BY <2>1, <2>3 DEF LspInv, LspTypes
  <2>5. OnClients' /\ StartedOpen'
    BY <2>1, <2>2, <2>3 DEF LspInv, OnClients, StartedOpen
  <2>6. (\A u \in Users : Waiting(u)' = Waiting(u)) /\ \A u \in Users, g \in DOMAIN client : Listed(u, g)' = Listed(u, g)
    BY <2>1 DEF Waiting, Listed, Entry
  <2>7. RequestIds' /\ Unanswered'
    BY <2>1, <2>6 DEF LspInv, RequestIds, Unanswered
  <2>8. HeardOf' /\ NoneForgotten' /\ OwnResponse' /\ OneLockHolder' /\ InTheTable'
    BY <2>1 DEF LspInv, LspSound, HeardOf, NoneForgotten, OwnResponse, OneLockHolder, InTheTable, Waiting, Listed, Entry, Answerable
  <2> QED BY <2>4, <2>5, <2>7, <2>8 DEF LspInv, LspSound
<1>3. CASE CloseTransport
  <2>1. PICK n \in DOMAIN client : n = closer.on
    BY <1>3 DEF CloseTransport, LspInv, OnClients
  <2> DEFINE c == Stop(client[n])
             k == [closer EXCEPT !.pc = "fail"]
  <2>2. closer.pc = "close" /\ client' = [client EXCEPT ![n] = c] /\ closer' = k /\ UNCHANGED <<current, mlock, user>>
    BY <1>3, <2>1 DEF CloseTransport
  <2>3. c \in ClientRows /\ c.pending = client[n].pending /\ c.next = client[n].next /\ c.closed /\ ~c.runs
    BY <1>1 DEF ClientRows, Stop
  <2>4. k \in Closers /\ k.on = closer.on
    BY <1>1 DEF Closers
  <2> HIDE DEF c, k
  <2>5. \A x \in Users : user'[x] = user[x] /\ (Listed(x, n) => Entry(x) \in c.pending)
    BY <2>2, <2>3 DEF Listed
  <2>6. /\ c.pending \subseteq client[n].pending /\ (c.runs => client[n].runs) /\ (client[n].closed => c.closed)
        /\ (c.closed => client[n].closed \/ (closer.pc = "close" /\ closer.on = n))
        /\ closer' \in Closers /\ (closer'.pc \in {"close", "fail"} => closer.pc \in {"close", "fail"} /\ closer'.on = closer.on)
        /\ current' \in {0, current} /\ UNCHANGED mlock /\ user' \in [Users -> UserRows]
    BY <1>1, <2>1, <2>2, <2>3, <2>4
  <2> QED BY <2>2, <2>3, <2>5, <2>6, ServerSideKeeps
<1>4. CASE Closed
  <2>1. PICK n \in DOMAIN client : n = closer.on
    BY <1>4 DEF Closed, LspInv, OnClients
  <2> DEFINE c == [client[n] EXCEPT !.pending = {}]
             k == [closer EXCEPT !.pc = "over"]
  <2>2. closer.pc = "fail" /\ client' = [client EXCEPT ![n] = c] /\ closer' = k /\ UNCHANGED <<current, mlock>> /\ FailPending(n)
    BY <1>4, <2>1 DEF Closed
  <2>3. c \in ClientRows /\ c.pending = {} /\ c.next = client[n].next /\ c.closed = client[n].closed /\ c.runs = client[n].runs
    BY <1>1 DEF ClientRows
  <2>4. k \in Closers /\ k.pc = "over"
    BY <1>1 DEF Closers
  <2> HIDE DEF c, k
  <2>5. user' \in [Users -> UserRows]
    <3> SUFFICES ASSUME NEW u \in Users PROVE [user[u] EXCEPT !.got = "error"] \in UserRows
      BY <1>1, <2>2 DEF FailPending
    <3> QED BY <1>1 DEF UserRows
  <2>6. ASSUME NEW x \in Users
        PROVE  \/ user'[x] = user[x] /\ (Listed(x, n) => Entry(x) \in c.pending)
               \/ /\ Listed(x, n) /\ Entry(x) \notin c.pending
                  /\ user'[x].pc = user[x].pc /\ user'[x].on = user[x].on /\ user'[x].id = user[x].id
                  /\ user'[x].got # "none" /\ (user'[x].got = "result" => user'[x].answers = user[x].id)
    <3>1. CASE Listed(x, n)
      <4>1. user'[x].pc = user[x].pc /\ user'[x].on = user[x].on /\ user'[x].id = user[x].id /\ user'[x].got = "error"
        BY <1>1, <2>2, <3>1 DEF FailPending, UserRows
      <4> QED BY <2>3, <3>1, <4>1
    <3>2. CASE ~Listed(x, n)
      BY <2>2, <3>2 DEF FailPending
    <3> QED BY <3>1, <3>2
  <2>7. /\ c.pending \subseteq client[n].pending /\ (c.runs => client[n].runs) /\ (client[n].closed => c.closed)
        /\ (c.closed => client[n].closed \/ (closer.pc = "close" /\ closer.on = n))
        /\ closer' \in Closers /\ (closer'.pc \in {"close", "fail"} => closer.pc \in {"close", "fail"} /\ closer'.on = closer.on)
        /\ current' \in {0, current} /\ UNCHANGED mlock
    BY <1>1, <2>2, <2>3, <2>4
  <2> QED BY ZenonT(40), <2>2, <2>3, <2>5, <2>6, <2>7, ServerSideKeeps
<1> QED BY <1>2, <1>3, <1>4

-----------------------------------------------------------------------------
(* LSP clients: the theorems *)

\* LspInv is an invariant, for any threads and operations, and whatever the server does when.
THEOREM LspInvariant == LspSpec => []LspInv
<1>1. LspInit => LspInv
  <2> SUFFICES ASSUME LspInit PROVE LspInv
    OBVIOUS
  <2>1. DOMAIN client = {} /\ current = 0 /\ mlock = "free" /\ closer.pc = "start" /\ closer \in Closers
    BY DEF LspInit, Closers
  <2>2. AtRest \in UserRows /\ AtRest.pc = "idle" /\ AtRest.got = "none" /\ AtRest.on = 0 /\ AtRest.id = 0
    BY DEF AtRest, UserRows, Resting0
  <2>3. user \in [Users -> UserRows] /\ \A u \in Users : user[u].pc = "idle" /\ user[u].got = "none" /\ user[u].on = 0 /\ user[u].id = 0
    BY <2>2 DEF LspInit
  <2>4. client \in [DOMAIN client -> ClientRows]
    BY <2>1 DEF LspInit
  <2>5. Cardinality(DOMAIN client) = 0
    BY <2>1, FS_EmptySet
  <2>6. LspTypes
    BY <2>1, <2>3, <2>4, <2>5 DEF LspTypes
  <2>7. \A u \in Users : ~Waiting(u)
    BY <2>3 DEF Waiting
  <2>8. OnClients /\ RequestIds /\ Unanswered /\ StartedOpen
    BY <2>1, <2>3, <2>7 DEF OnClients, RequestIds, Unanswered, StartedOpen, Resting0
  <2>9. LspSound
    BY LspAssumption, <2>1, <2>3, <2>7 DEF LspSound, HeardOf, NoneForgotten, OwnResponse, OneLockHolder, InTheTable
  <2> QED BY <2>6, <2>8, <2>9 DEF LspInv
<1>2. LspInv /\ [LspNext]_lspVars => LspInv'
  <2> SUFFICES ASSUME LspInv, [LspNext]_lspVars PROVE LspInv'
    OBVIOUS
  <2>1. CASE LspNext
    BY <2>1, ServerKeepsLsp, ResolvingKeeps, LockedKeeps, OpeningKeeps, RequestKeeps, StartKeeps, ReplacedKeeps, ManagerKeeps
       DEF LspNext
  <2>2. CASE UNCHANGED lspVars
    BY <2>2 DEF lspVars, LspInv, LspTypes, OnClients, RequestIds, Unanswered, StartedOpen, LspSound, HeardOf, NoneForgotten,
       OwnResponse, OneLockHolder, InTheTable, Waiting, Listed, Entry, Answerable
  <2> QED BY <2>1, <2>2
<1> QED BY <1>1, <1>2, PTL DEF LspSpec

\* LspSound is an invariant (src/src/paperclaw/lsp/client.py, manager.py): a thread that waits
\* is in the pending table of its client or has its answer; on an open client whose server runs
\* nobody is left in the table who no longer waits; a result answers the request of the thread
\* that gets it; the manager's lock is held by the thread that starts or replaces a client; and
\* the client in the manager's table is open, or is just being replaced.
THEOREM LspIsSound == LspSpec => []LspSound
<1>1. LspInv => LspSound
  BY DEF LspInv
<1> QED BY <1>1, LspInvariant, PTL
=============================================================================
