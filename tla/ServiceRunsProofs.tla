-------------------------- MODULE ServiceRunsProofs --------------------------
(***************************************************************************)
(* Proofs about ServiceRuns, for every set of runs, services and drainers, *)
(* and every number of services alive at a time: RunsSound, and the action *)
(* property NothingRepeated. The second half is about WorkerGateway, for   *)
(* any handles, requests and lost calls: GatewaySound.                      *)
(*                                                                         *)
(* A recovery is bounded because a candidate decides only as long as the   *)
(* row has the version it was read at, and versions rise with every step   *)
(* of a claimed run (FoundOK): so the attempts counted in a row bound its  *)
(* claims (RowOK).  That an attempt never starts on a run whose action was *)
(* reserved needs more, and holds without stalls only: a drainer that      *)
(* works on a running run holds its lease live (WorkersHold), so a start   *)
(* reads as abandoned only what nobody works on, and the receipts it has   *)
(* counted stay (AbandonedOK, FreshOK).                                    *)
(*                                                                         *)
(* The second part is about WorkerGateway, for every set of callers,       *)
(* executions and requests, and any number of lives of the gateway: its    *)
(* records and children (TablesFit), and what handles and requests on      *)
(* their way know of them (HandleFits, MessageFits), make GatewaySound.    *)
(***************************************************************************)
EXTENDS ServiceRuns, WorkerGateway, FiniteSetTheorems, TLAPS

Active == {"running", "cancelling"}
Working == {"begin", "engine", "acting", "finalize", "refuse"}

\* The values of the variables.
Names == Services \cup {NoService}
States == Terminal \cup Active \cup {"none", "queued"}
Reasons == {"none", "user_requested", "run_timeout"}
Births == {Cardinality(S) : S \in SUBSET Runs}
RunRow == [st : States, ver : Nat, rec : Nat, why : Reasons, born : Births,
           author : Names]
LeaseRow == [by : Names, live : BOOLEAN]
Candidate ==
    [r : Runs, st : Active, ver : Nat, rec : Nat, acts : {"unread", "none", "some"}]
Slot == [pc : {"off", "claim", "leave", "release"} \cup Working,
         r : Runs \cup {NoService},
         result : Results \cup {"none", "failed"},
         beat : Nat \cup {-1}]
ClaimCount == [n : Nat, by : Names]

RowTypes ==
    /\ run \in [Runs -> RunRow]
    /\ lease \in [Runs -> LeaseRow]
    /\ receipt \in [Runs -> {"none", "pending", "completed", "failed"}]
    /\ claims \in [Runs -> ClaimCount]
    /\ acted \in [Runs -> Nat]
    /\ stalls \in BOOLEAN
ServiceTypes ==
    /\ service \in [Services -> {"down", "starting", "up", "dead"}]
    /\ found \in [Services -> SUBSET Candidate]
    /\ leaving \in [Services -> SUBSET Drainers]
    /\ noting \in [Services -> SUBSET Runs]
DrainerTypes == drainer \in [Services -> [Drainers -> Slot]]

\* A drainer that works has a run, has a verdict when it comes to write one, and
\* beats only around its engine; only the drainers of a service that is up are on.
SlotOK(x) ==
    /\ x.pc \in Working \cup {"release"} => x.r \in Runs
    /\ x.pc \in {"finalize", "refuse"} => x.result # "none"
    /\ x.beat # -1 => x.pc \in {"engine", "acting", "finalize"}
SlotsOK ==
    \A s \in Services, d \in Drainers :
        SlotOK(drainer[s][d]) /\ (drainer[s][d].pc # "off" => service[s] = "up")

TypesOK == RowTypes /\ ServiceTypes /\ DrainerTypes /\ SlotsOK

\* One slot changes, every other is as it was.
SlotIs(s, d, new) ==
    \A t \in Services, e \in Drainers :
        drainer'[t][e] = IF t = s /\ e = d THEN new ELSE drainer[t][e]
LEMMA SlotStep ==
    ASSUME DrainerTypes, SlotsOK, NEW s \in Services, NEW d \in Drainers, service[s] = "up",
           UNCHANGED service, NEW new \in Slot, SlotOK(new),
           drainer' = [drainer EXCEPT ![s] = [drainer[s] EXCEPT ![d] = new]]
    PROVE  DrainerTypes' /\ SlotsOK' /\ SlotIs(s, d, new)
<1>1. drainer[s] \in [Drainers -> Slot]
  BY DEF DrainerTypes
<1>2. [drainer[s] EXCEPT ![d] = new] \in [Drainers -> Slot]
  BY <1>1
<1>3. DrainerTypes'
  BY <1>2 DEF DrainerTypes
<1>4. SlotIs(s, d, new)
  BY <1>1 DEF DrainerTypes, SlotIs
<1>5. SlotsOK'
  BY <1>4 DEF SlotsOK, SlotIs
<1> QED BY <1>3, <1>4, <1>5

\* What is in the two slots nobody works in.
Idle == [Free EXCEPT !.pc = "claim"]
LEMMA IdleSlots ==
    /\ Free \in Slot /\ SlotOK(Free) /\ Free.pc = "off" /\ Free.beat = -1
    /\ Idle \in Slot /\ SlotOK(Idle) /\ Idle.pc = "claim" /\ Idle.beat = -1
  BY DEF Free, Idle, Slot, SlotOK, Working

\* Drainers are scheduled in the free slots of a service that is up.
Scheduled(s) ==
    \A t \in Services, e \in Drainers :
        drainer'[t][e] = IF t = s /\ drainer[t][e].pc = "off" THEN Idle ELSE drainer[t][e]
LEMMA ScheduleStep ==
    ASSUME DrainerTypes, SlotsOK, NEW s \in Services, service'[s] = "up",
           \A t \in Services : t # s => service'[t] = service[t],
           drainer' = Schedule(s)
    PROVE  DrainerTypes' /\ SlotsOK' /\ Scheduled(s)
<1>1. drainer[s] \in [Drainers -> Slot]
  BY DEF DrainerTypes
<1> DEFINE new == [d \in Drainers |-> IF d \in Slots(s) THEN drainer[s][d] ELSE Idle]
<1>2. new \in [Drainers -> Slot]
  BY <1>1, IdleSlots
<1>3. drainer' = [drainer EXCEPT ![s] = new]
  BY DEF Schedule, Idle
<1>4. \A e \in Drainers : new[e] = IF drainer[s][e].pc = "off" THEN Idle ELSE drainer[s][e]
  BY DEF Slots
<1> HIDE DEF new
<1>5. DrainerTypes'
  BY <1>2, <1>3 DEF DrainerTypes
<1>6. Scheduled(s)
  BY <1>3, <1>4 DEF DrainerTypes, Scheduled
<1>7. SlotsOK'
  BY <1>6, IdleSlots DEF SlotsOK, Scheduled
<1> QED BY <1>5, <1>6, <1>7

\* The steps of a drainer and its heartbeat, and what they leave alone.
Turn(s, d) ==
    \/ Claim(s, d) \/ ClaimNothing(s, d) \/ GiveBack(s, d) \/ Begin(s, d) \/ Reject(s, d)
    \/ Act(s, d) \/ Acted(s, d) \/ EngineEnds(s, d) \/ Finalize(s, d) \/ Release(s, d)
    \/ BeatRead(s, d) \/ BeatRenew(s, d)
RowsStay == UNCHANGED <<run, lease, receipt, claims, acted, stalls>>

LEMMA TurnFrame ==
    ASSUME NEW s \in Services, NEW d \in Drainers, Turn(s, d)
    PROVE  /\ service[s] = "up" /\ UNCHANGED <<service, found, noting, stalls>>
           /\ GiveBack(s, d) \/ UNCHANGED leaving
<1>1. CASE Claim(s, d)
  BY <1>1 DEF Claim, At
<1>2. CASE ClaimNothing(s, d)
  BY <1>2 DEF ClaimNothing, At
<1>3. CASE GiveBack(s, d)
  BY <1>3 DEF GiveBack, At
<1>4. CASE Begin(s, d)
  BY <1>4 DEF Begin, At
<1>5. CASE Acted(s, d)
  BY <1>5 DEF Acted, At
<1>6. CASE EngineEnds(s, d)
  BY <1>6 DEF EngineEnds, At
<1>7. CASE Finalize(s, d)
  BY <1>7 DEF Finalize, At
<1>8. CASE Release(s, d)
  BY <1>8 DEF Release, At
<1>9. CASE Reject(s, d)
  BY <1>9 DEF Reject, At
<1>10. CASE Act(s, d)
  BY <1>10 DEF Act, At
<1>11. CASE BeatRead(s, d)
  BY <1>11 DEF BeatRead, Beats, Up
<1>12. CASE BeatRenew(s, d)
  BY <1>12 DEF BeatRenew, Beats, Up
<1> QED
  BY <1>1, <1>2, <1>3, <1>4, <1>5, <1>6, <1>7, <1>8, <1>9, <1>10, <1>11, <1>12 DEF Turn

LEMMA CancelFrame ==
    ASSUME NEW s \in Services, NEW r, NEW why, Cancel(s, r, why)
    PROVE  UNCHANGED <<service, found, drainer, leaving, noting, stalls>>
  BY DEF Cancel
LEMMA TimeOutFrame ==
    ASSUME NEW s \in Services, NEW d \in Drainers, TimeOut(s, d)
    PROVE  UNCHANGED <<service, found, drainer, leaving, noting, stalls>>
  BY CancelFrame DEF TimeOut
LEMMA LookAgainFrame ==
    ASSUME NEW s \in Services, NEW d \in Drainers, LookAgain(s, d)
    PROVE  /\ service[s] = "up" /\ UNCHANGED <<service, found, noting, stalls>>
           /\ drainer' = drainer \/ drainer' = Schedule(s)
  BY DEF LookAgain, Up

\* The steps of a drainer that touch no row.
QuietTurn(s, d) ==
    \/ ClaimNothing(s, d) \/ GiveBack(s, d) \/ LookAgain(s, d) \/ Begin(s, d) \/ Reject(s, d)
    \/ EngineEnds(s, d) \/ BeatRead(s, d)
LEMMA QuietFrame ==
    ASSUME NEW s \in Services, NEW d \in Drainers, QuietTurn(s, d)
    PROVE  RowsStay
<1>1. CASE ClaimNothing(s, d) \/ GiveBack(s, d) \/ LookAgain(s, d)
  BY <1>1 DEF ClaimNothing, GiveBack, LookAgain, RowsStay
<1>2. CASE Begin(s, d) \/ Reject(s, d)
  BY <1>2 DEF Begin, Reject, RowsStay
<1>3. CASE EngineEnds(s, d) \/ BeatRead(s, d)
  BY <1>3 DEF EngineEnds, BeatRead, RowsStay
<1> QED BY <1>1, <1>2, <1>3 DEF QuietTurn

LEMMA DrainerStep ==
    ASSUME TypesOK, NEW s \in Services, NEW d \in Drainers,
           Turn(s, d)
    PROVE  DrainerTypes' /\ SlotsOK' /\ SlotIs(s, d, drainer'[s][d])
<1>1. /\ DrainerTypes /\ SlotsOK
      /\ drainer[s] \in [Drainers -> Slot] /\ drainer[s][d] \in Slot
      /\ SlotOK(drainer[s][d]) /\ service[s] = "up" /\ UNCHANGED service
  BY TurnFrame DEF TypesOK, DrainerTypes, SlotsOK
<1> DEFINE x == drainer[s][d]
<1>2. ASSUME NEW new \in Slot, SlotOK(new),
             drainer' = [drainer EXCEPT ![s] = [drainer[s] EXCEPT ![d] = new]]
      PROVE  DrainerTypes' /\ SlotsOK' /\ SlotIs(s, d, drainer'[s][d])
  <2>1. DrainerTypes' /\ SlotsOK' /\ SlotIs(s, d, new)
    BY <1>1, <1>2, SlotStep
  <2>2. new = drainer'[s][d]
    BY <2>1 DEF SlotIs
  <2> QED BY <2>1, <2>2
<1>3. CASE Claim(s, d)
  <2>1. PICK r \in Runs : drainer' = [drainer EXCEPT ![s][d] = [Free EXCEPT !.pc = "begin", !.r = r]]
    BY <1>3 DEF Claim
  <2> DEFINE new == [Free EXCEPT !.pc = "begin", !.r = r]
  <2>2. new \in Slot /\ SlotOK(new)
    BY DEF Free, Slot, SlotOK, Working
  <2> QED BY <1>1, <1>2, <2>1, <2>2
<1>4. CASE ClaimNothing(s, d)
  <2> DEFINE new == [x EXCEPT !.pc = "leave"]
  <2>1. new \in Slot /\ SlotOK(new)
    BY <1>1, <1>4 DEF Slot, SlotOK, Working, ClaimNothing, At
  <2>2. drainer' = [drainer EXCEPT ![s] = [drainer[s] EXCEPT ![d] = new]]
    BY <1>4 DEF ClaimNothing
  <2> QED BY <1>2, <2>1, <2>2
<1>5. CASE GiveBack(s, d)
  BY <1>1, <1>2, <1>5, IdleSlots DEF GiveBack
<1>6. CASE Begin(s, d)
  <2> DEFINE new == [x EXCEPT !.pc = "engine", !.beat = 0]
  <2>1. new \in Slot /\ SlotOK(new)
    BY <1>1, <1>6 DEF Slot, SlotOK, Working, Begin, At
  <2>2. drainer' = [drainer EXCEPT ![s] = [drainer[s] EXCEPT ![d] = new]]
    BY <1>1, <1>6 DEF Begin, DrainerTypes, Slot
  <2> QED BY <1>2, <2>1, <2>2
<1>7. CASE Reject(s, d)
  <2> DEFINE new == [x EXCEPT !.pc = "refuse", !.result = "failed"]
  <2>1. new \in Slot /\ SlotOK(new)
    BY <1>1, <1>7 DEF Slot, SlotOK, Working, Reject, At
  <2>2. drainer' = [drainer EXCEPT ![s] = [drainer[s] EXCEPT ![d] = new]]
    BY <1>1, <1>7 DEF Reject, DrainerTypes, Slot
  <2> QED BY <1>2, <2>1, <2>2
<1>8. CASE Act(s, d)
  <2>1. x.pc = "engine"
    BY <1>8 DEF Act, At
  <2>2. CASE receipt[x.r] = "none"
    <3> DEFINE new == [x EXCEPT !.pc = "acting"]
    <3>1. new \in Slot /\ SlotOK(new)
      BY <1>1, <2>1 DEF Slot, SlotOK, Working
    <3>2. drainer' = [drainer EXCEPT ![s] = [drainer[s] EXCEPT ![d] = new]]
      BY <1>8, <2>2 DEF Act
    <3> QED BY <1>2, <3>1, <3>2
  <2>3. CASE receipt[x.r] = "completed"
    <3> DEFINE new == [x EXCEPT !.result = "completed"]
    <3>1. new \in Slot /\ SlotOK(new)
      BY <1>1, <2>1 DEF Slot, SlotOK, Working, Results
    <3>2. drainer' = [drainer EXCEPT ![s] = [drainer[s] EXCEPT ![d] = new]]
      BY <1>8, <2>3 DEF Act
    <3> QED BY <1>2, <3>1, <3>2
  <2>4. CASE receipt[x.r] \notin {"none", "completed"}
    <3> DEFINE new == [x EXCEPT !.pc = "finalize", !.result = "failed"]
    <3>1. new \in Slot /\ SlotOK(new)
      BY <1>1, <2>1 DEF Slot, SlotOK, Working, Results
    <3>2. drainer' = [drainer EXCEPT ![s][d].pc = "finalize", ![s][d].result = "failed"]
      BY <1>8, <2>4 DEF Act
    <3>3. drainer' = [drainer EXCEPT ![s] = [drainer[s] EXCEPT ![d] = new]]
      BY <1>1, <3>2 DEF DrainerTypes, Slot
    <3> QED BY <1>2, <3>1, <3>3
  <2> QED BY <2>2, <2>3, <2>4
<1>9. CASE Acted(s, d)
  <2>1. PICK status \in {"completed", "failed"} :
            drainer' = [drainer EXCEPT
                ![s][d].pc = IF status = "completed" THEN "engine" ELSE "finalize",
                ![s][d].result = status]
    BY <1>9 DEF Acted
  <2> DEFINE pc == IF status = "completed" THEN "engine" ELSE "finalize"
             new == [x EXCEPT !.pc = pc, !.result = status]
  <2>2. drainer' = [drainer EXCEPT ![s] = [drainer[s] EXCEPT ![d] = new]]
    BY <1>1, <2>1 DEF DrainerTypes, Slot
  <2>3. new \in Slot /\ SlotOK(new)
    BY <1>1, <1>9 DEF Slot, SlotOK, Working, Acted, At, Results
  <2> QED BY <1>2, <2>2, <2>3
<1>10. CASE EngineEnds(s, d)
  <2>1. PICK res \in Results \cup {"failed"} :
            drainer' = [drainer EXCEPT ![s][d].pc = "finalize", ![s][d].result = res]
    BY <1>10 DEF EngineEnds
  <2> DEFINE new == [x EXCEPT !.pc = "finalize", !.result = res]
  <2>2. drainer' = [drainer EXCEPT ![s] = [drainer[s] EXCEPT ![d] = new]]
    BY <1>1, <2>1 DEF DrainerTypes, Slot
  <2>3. new \in Slot /\ SlotOK(new)
    BY <1>1, <1>10, <2>1 DEF Slot, SlotOK, Working, EngineEnds, At, Results
  <2> QED BY <1>2, <2>2, <2>3
<1>11. CASE Finalize(s, d)
  <2>1. x.pc \in {"finalize", "refuse"}
    BY <1>11 DEF Finalize, At
  <2>2. drainer' = [drainer EXCEPT ![s][d] =
          IF @.pc = "refuse" THEN Idle ELSE [@ EXCEPT !.pc = "release", !.beat = -1]]
    BY <1>11 DEF Finalize, Idle
  <2>3. CASE x.pc = "refuse"
    <3>1. drainer' = [drainer EXCEPT ![s] = [drainer[s] EXCEPT ![d] = Idle]]
      BY <2>2, <2>3
    <3> QED BY <1>2, <3>1, IdleSlots
  <2>4. CASE x.pc # "refuse"
    <3> DEFINE new == [x EXCEPT !.pc = "release", !.beat = -1]
    <3>1. drainer' = [drainer EXCEPT ![s] = [drainer[s] EXCEPT ![d] = new]]
      BY <2>2, <2>4
    <3>2. new \in Slot /\ SlotOK(new)
      BY <1>1, <2>1 DEF Slot, SlotOK, Working
    <3> QED BY <1>2, <3>1, <3>2
  <2> QED BY <2>3, <2>4
<1>12. CASE Release(s, d)
  BY <1>1, <1>2, <1>12, IdleSlots DEF Release, Idle
<1>13. CASE BeatRead(s, d) \/ BeatRenew(s, d)
  <2>1. x.beat >= 0
    BY <1>13 DEF BeatRead, BeatRenew, Beats
  <2>2. x.pc \in {"engine", "acting", "finalize"} /\ x.r \in Runs
    BY <1>1, <2>1 DEF SlotOK, Working
  <2>3. run[x.r].ver \in Nat
    BY <2>2 DEF TypesOK, RowTypes, RunRow
  <2>4. ASSUME NEW b \in Nat \cup {-1}, drainer' = [drainer EXCEPT ![s][d].beat = b]
        PROVE  DrainerTypes' /\ SlotsOK' /\ SlotIs(s, d, drainer'[s][d])
    <3> DEFINE new == [x EXCEPT !.beat = b]
    <3>1. new \in Slot /\ SlotOK(new)
      BY <1>1, <2>2 DEF Slot, SlotOK, Working
    <3>2. drainer' = [drainer EXCEPT ![s] = [drainer[s] EXCEPT ![d] = new]]
      BY <1>1, <2>4
    <3> QED BY <1>2, <3>1, <3>2
  <2>5. CASE BeatRead(s, d)
    BY <2>3, <2>4, <2>5 DEF BeatRead
  <2>6. CASE BeatRenew(s, d)
    <3> DEFINE b == IF /\ run[x.r].ver = x.beat
                       /\ run[x.r].st \in {"running", "cancelling"}
                       /\ lease[x.r].by = s
                    THEN 0 ELSE -1
    <3>1. drainer' = [drainer EXCEPT ![s][d].beat = b]
      BY <2>6 DEF BeatRenew
    <3>2. b \in Nat \cup {-1}
      OBVIOUS
    <3> HIDE DEF b
    <3> QED BY <2>4, <3>1, <3>2
  <2> QED BY <1>13, <2>5, <2>6
<1> QED
  BY <1>3, <1>4, <1>5, <1>6, <1>7, <1>8, <1>9, <1>10, <1>11, <1>12, <1>13 DEF Turn

-----------------------------------------------------------------------------
(* The rows *)

\* What one step does to a row, its lease, its receipt and its history.
Works(s, d, r) == drainer[s][d].pc \in Working /\ drainer[s][d].r = r
ReceiptStays(r) == receipt'[r] = receipt[r] /\ acted'[r] = acted[r]
SameClaims(r) == claims'[r] = claims[r]

Created(r) ==
    /\ run[r].st = "none" /\ run'[r].st = "queued"
    /\ run'[r].ver = run[r].ver /\ run'[r].rec = run[r].rec
    /\ run'[r].author = run[r].author /\ lease'[r] = lease[r]
    /\ SameClaims(r) /\ ReceiptStays(r)
Claimed(r, s) ==
    /\ run[r].st = "queued" /\ run'[r].st = "running"
    /\ run'[r].ver = run[r].ver + 1 /\ run'[r].rec = run[r].rec
    /\ run'[r].author = run[r].author /\ lease'[r] = [by |-> s, live |-> TRUE]
    /\ claims'[r].n = claims[r].n + 1 /\ claims'[r].by = s /\ ReceiptStays(r)
Ended(r, s) ==
    /\ run[r].st \notin Terminal /\ Holds(s, r)
    /\ run'[r].st \in Terminal
    /\ run[r].st = "cancelling" =>
         run'[r].st = IF run[r].why = "run_timeout" THEN "failed" ELSE "stopped"
    /\ run'[r].ver = run[r].ver + 1 /\ run'[r].rec = run[r].rec
    /\ run'[r].author = s /\ lease'[r] = NoLease
    /\ SameClaims(r) /\ ReceiptStays(r)
Cancelled(r) ==
    /\ \/ run[r].st = "running" /\ run'[r].st = "cancelling" /\ lease'[r] = lease[r]
       \/ run[r].st = "queued" /\ run'[r].st = "stopped" /\ lease'[r] = NoLease
    /\ run'[r].ver = run[r].ver + 1 /\ run'[r].rec = run[r].rec
    /\ run'[r].author = run[r].author
    /\ SameClaims(r) /\ ReceiptStays(r)
Recovered(r) ==
    /\ \E s \in Services : \E c \in found[s] :
         /\ c.r = r /\ c.st = run[r].st /\ c.ver = run[r].ver
         /\ run'[r].st = "queued" => c.acts = "none"
    /\ run[r].st \in Active
    /\ \/ /\ run'[r].st = "queued" /\ run[r].st = "running"
          /\ run[r].rec = 0 /\ run'[r].rec = 1
       \/ run'[r].st = "recovery_required" /\ run'[r].rec = run[r].rec
    /\ run'[r].ver = run[r].ver + 1
    /\ run'[r].author = run[r].author /\ lease'[r] = NoLease
    /\ SameClaims(r) /\ ReceiptStays(r)
LeaseMoves(r) ==
    /\ run'[r] = run[r] /\ SameClaims(r) /\ ReceiptStays(r)
    /\ lease'[r].by \in {lease[r].by, NoService}
ReceiptMoves(r) ==
    /\ run'[r] = run[r] /\ lease'[r] = lease[r] /\ SameClaims(r)
    /\ \E s \in Services, d \in Drainers : Works(s, d, r)
    /\ \/ receipt[r] = "none" /\ receipt'[r] # "none" /\ acted'[r] = acted[r] + 1
       \/ (receipt'[r] = "none" <=> receipt[r] = "none") /\ acted'[r] = acted[r]

RowStep(r) ==
    \/ Created(r) \/ (\E s \in Services : Claimed(r, s) \/ Ended(r, s))
    \/ Cancelled(r) \/ Recovered(r) \/ LeaseMoves(r) \/ ReceiptMoves(r)

\* What a start has read is a row as it is, or as it was.
FoundOK ==
    \A s \in Services : \A c \in found[s] :
        /\ service[s] = "starting"
        /\ c.ver <= run[c.r].ver
        /\ c.ver = run[c.r].ver => c.st = run[c.r].st /\ c.rec = run[c.r].rec

LEMMA Counters ==
    ASSUME NEW x \in RunRow
    PROVE  x.ver \in Nat /\ x.rec \in Nat /\ x.ver + 1 \in Nat
  BY DEF RunRow
LEMMA Numbers == \A s \in Services : s \in Names /\ s # NoService
  BY ServicesAssumption DEF Names, NoService
LEMMA NoLeaseRow == NoLease \in LeaseRow /\ NoLease.by = NoService /\ NoLease.live = FALSE
  BY DEF NoLease, LeaseRow, Names
LEMMA OwnLeaseRow == \A s \in Services : [by |-> s, live |-> TRUE] \in LeaseRow
  BY DEF LeaseRow, Names

LEMMA StateNames ==
    /\ Terminal \subseteq States /\ Active \subseteq States
    /\ {"none", "queued", "running", "cancelling", "stopped", "recovery_required"} \subseteq States
    /\ \A st \in Terminal : st \notin Active \cup {"none", "queued", "running", "cancelling"}
    /\ {"stopped", "failed", "recovery_required"} \subseteq Terminal
  BY DEF States, Terminal, Active

LEMMA QuietRows ==
    ASSUME UNCHANGED <<run, receipt, claims, acted>>,
           \A r \in Runs : lease'[r].by \in {lease[r].by, NoService}
    PROVE  \A r \in Runs : RowStep(r)
  BY DEF RowStep, LeaseMoves, SameClaims, ReceiptStays

LEMMA RowSteps ==
    ASSUME TypesOK, FoundOK, [RunsNext]_runsVars
    PROVE  RowTypes' /\ \A r \in Runs : RowStep(r)
<1> USE DEF NoLease
<1>0. RowTypes
  BY DEF TypesOK
<1>1. ASSUME RowsStay
      PROVE  RowTypes' /\ \A r \in Runs : RowStep(r)
  BY <1>0, <1>1, QuietRows DEF RowsStay, RowTypes
<1>2. ASSUME NEW s \in Services, NEW r \in Runs, Submit(s, r)
      PROVE  RowTypes' /\ \A q \in Runs : RowStep(q)
  <2> DEFINE born == Cardinality({q \in Runs : run[q].st # "none"})
             new == [run[r] EXCEPT !.st = "queued", !.born = born]
  <2>1. run[r] \in RunRow /\ born \in Births /\ "queued" \in States
    BY <1>0, StateNames DEF RowTypes, Births
  <2>2. run' = [run EXCEPT ![r] = new]
    BY <1>2 DEF Submit
  <2> HIDE DEF born
  <2>a. /\ new \in RunRow /\ new.st = "queued" /\ new.ver = run[r].ver
        /\ new.rec = run[r].rec /\ new.author = run[r].author
    BY <2>1 DEF RunRow
  <2> HIDE DEF new
  <2>3. RowTypes'
    BY <1>0, <1>2, <2>a, <2>2, ZenonT(30) DEF Submit, RowTypes
  <2>4. ASSUME NEW q \in Runs PROVE RowStep(q)
    <3>1. CASE q = r
      <4>1. run'[r] = new /\ run[r].st = "none" /\ UNCHANGED <<lease, receipt, claims, acted>>
        BY <1>0, <1>2, <2>2 DEF Submit, RowTypes
      <4>2. Created(r)
        BY <2>a, <4>1 DEF Created, SameClaims, ReceiptStays
      <4> QED BY <3>1, <4>2 DEF RowStep
    <3>2. CASE q # r
      BY <1>0, <1>2, <2>2, <3>2
      DEF Submit, RowTypes, RowStep, LeaseMoves, SameClaims, ReceiptStays
    <3> QED BY <3>1, <3>2
  <2> QED BY <2>3, <2>4
<1>3. ASSUME NEW s \in Services, NEW d \in Drainers, Claim(s, d)
      PROVE  RowTypes' /\ \A q \in Runs : RowStep(q)
  <2>1. PICK r \in Runs :
          /\ run[r].st = "queued"
          /\ run' = Moved(r, "running")
          /\ lease' = [lease EXCEPT ![r] = [by |-> s, live |-> TRUE]]
          /\ claims' = [claims EXCEPT ![r].n = @ + 1, ![r].by = s]
    BY <1>3 DEF Claim, Oldest, Queued
  <2> DEFINE ver == run[r].ver + 1
             n == claims[r].n + 1
             new == [run[r] EXCEPT !.st = "running", !.ver = ver]
             more == [claims[r] EXCEPT !.n = n, !.by = s]
  <2>2. run[r] \in RunRow /\ claims[r] \in ClaimCount
    BY <1>0 DEF RowTypes
  <2>c. ver \in Nat /\ n \in Nat /\ s \in Names /\ "running" \in States
    BY <2>2, Counters, Numbers, StateNames DEF ClaimCount
  <2> HIDE DEF ver, n
  <2>a. /\ new \in RunRow /\ new.st = "running" /\ new.ver = ver
        /\ new.rec = run[r].rec /\ new.author = run[r].author
    BY <2>2, <2>c DEF RunRow
  <2>b. more \in ClaimCount /\ more.n = n /\ more.by = s
    BY <2>2, <2>c DEF ClaimCount
  <2>3. run' = [run EXCEPT ![r] = new] /\ claims' = [claims EXCEPT ![r] = more]
    BY <1>0, <2>1, <2>2 DEF Moved, RowTypes, RunRow, ClaimCount, ver, n
  <2> HIDE DEF new, more
  <2>4. RowTypes'
    <3>1. [by |-> s, live |-> TRUE] \in LeaseRow /\ UNCHANGED <<receipt, acted, stalls>>
      BY <1>3, OwnLeaseRow DEF Claim
    <3>2. run' \in [Runs -> RunRow]
      BY <1>0, <2>a, <2>3 DEF RowTypes
    <3>3. claims' \in [Runs -> ClaimCount]
      BY <1>0, <2>b, <2>3 DEF RowTypes
    <3>4. lease' \in [Runs -> LeaseRow]
      BY <1>0, <2>1, <3>1 DEF RowTypes
    <3> QED BY <1>0, <3>1, <3>2, <3>3, <3>4 DEF RowTypes
  <2>5. ASSUME NEW q \in Runs PROVE RowStep(q)
    <3>1. CASE q = r
      <4>1. Claimed(q, s)
        <5>1. /\ run'[r] = new /\ claims'[r] = more /\ lease'[r] = [by |-> s, live |-> TRUE]
              /\ UNCHANGED <<receipt, acted>>
          BY <1>0, <1>3, <2>1, <2>3 DEF Claim, RowTypes
        <5> QED BY <2>1, <2>a, <2>b, <3>1, <5>1 DEF Claimed, ReceiptStays, ver, n
      <4> QED BY <4>1 DEF RowStep
    <3>2. CASE q # r
      BY <1>0, <1>3, <2>1, <2>3, <3>2
      DEF Claim, RowTypes, RowStep, LeaseMoves, SameClaims, ReceiptStays
    <3> QED BY <3>1, <3>2
  <2> QED BY <2>4, <2>5
<1>4. ASSUME NEW s \in Services, NEW d \in Drainers, Act(s, d) \/ Acted(s, d)
      PROVE  RowTypes' /\ \A q \in Runs : RowStep(q)
  <2> DEFINE r == drainer[s][d].r
  <2>1. r \in Runs /\ Works(s, d, r)
    BY <1>4 DEF TypesOK, SlotsOK, SlotOK, Act, Acted, At, Works, Working
  <2>2. /\ UNCHANGED <<run, lease, claims>>
        /\ \A q \in Runs : q # r => receipt'[q] = receipt[q] /\ acted'[q] = acted[q]
    BY <1>0, <1>4 DEF Act, Acted, RowTypes
  <2>3. \/ receipt[r] = "none" /\ receipt'[r] # "none" /\ acted'[r] = acted[r] + 1
        \/ (receipt'[r] = "none" <=> receipt[r] = "none") /\ acted'[r] = acted[r]
    BY <1>0, <1>4, <2>1 DEF Act, Acted, RowTypes
  <2>4. RowTypes'
    <3>1. receipt' \in [Runs -> {"none", "pending", "completed", "failed"}]
      BY <1>0, <1>4, <2>1 DEF Act, Acted, RowTypes
    <3>2. acted' \in [Runs -> Nat]
      BY <1>0, <1>4, <2>1 DEF Act, Acted, RowTypes
    <3>3. stalls' = stalls
      BY <1>4 DEF Act, Acted
    <3> QED BY <1>0, <2>2, <3>1, <3>2, <3>3 DEF RowTypes
  <2>5. ReceiptMoves(r)
    BY <2>1, <2>2, <2>3 DEF ReceiptMoves, SameClaims
  <2>6. \A q \in Runs : q # r => LeaseMoves(q)
    BY <2>2 DEF LeaseMoves, SameClaims, ReceiptStays
  <2> QED BY <2>4, <2>5, <2>6 DEF RowStep
<1>5. ASSUME NEW s \in Services, NEW d \in Drainers, Finalize(s, d)
      PROVE  RowTypes' /\ \A q \in Runs : RowStep(q)
  <2> DEFINE r == drainer[s][d].r
             st == Verdict(r, drainer[s][d].result)
  <2>1. r \in Runs /\ drainer[s][d].result \in {"completed", "stopped", "failed"}
    BY <1>5 DEF TypesOK, DrainerTypes, SlotsOK, SlotOK, Slot, Finalize, At, Working, Results
  <2>2. st \in Terminal
    BY <2>1 DEF Verdict, Terminal
  <2>3. CASE run[r].st \notin Terminal /\ Holds(s, r)
    <3> DEFINE ver == run[r].ver + 1
               new == [run[r] EXCEPT !.st = st, !.ver = ver, !.author = s]
    <3> HIDE DEF st
    <3>a. run[r] \in RunRow /\ st \in States /\ ver \in Nat /\ s \in Names
      BY <1>0, <2>1, <2>2, StateNames, Counters, Numbers DEF RowTypes
    <3> HIDE DEF ver
    <3>1. /\ run[r] \in RunRow /\ new \in RunRow /\ new.st = st /\ new.ver = ver
          /\ new.rec = run[r].rec /\ new.author = s
      BY <3>a DEF RunRow
    <3>2. run' = [run EXCEPT ![r] = new] /\ lease' = [lease EXCEPT ![r] = NoLease]
      <4>1. /\ run' = [Moved(r, st) EXCEPT ![r].author = s]
            /\ lease' = [lease EXCEPT ![r] = NoLease]
        BY <1>5, <2>3 DEF Finalize, st
      <4>2. run' = [run EXCEPT ![r].st = st, ![r].ver = run[r].ver + 1, ![r].author = s]
        BY <1>0, <2>1, <4>1, SMTT(30) DEF Moved, RowTypes, RunRow
      <4>3. run' = [run EXCEPT ![r] = [run[r] EXCEPT !.st = st, !.ver = ver, !.author = s]]
        BY <4>2, ZenonT(30) DEF ver
      <4> QED BY <4>1, <4>3
    <3>3. RowTypes'
      <4>1. UNCHANGED <<receipt, claims, acted, stalls>>
        BY <1>5 DEF Finalize
      <4> HIDE DEF new
      <4> QED BY <1>0, <3>1, <3>2, <4>1, NoLeaseRow DEF RowTypes
    <3>4. Ended(r, s)
      <4>1. run'[r] = new /\ lease'[r] = NoLease
        BY <1>0, <2>1, <3>2 DEF RowTypes
      <4>3. run[r].st = "cancelling" =>
              st = IF run[r].why = "run_timeout" THEN "failed" ELSE "stopped"
        BY DEF st, Verdict
      <4>4. UNCHANGED <<receipt, claims, acted>>
        BY <1>5 DEF Finalize
      <4> HIDE DEF new
      <4> QED BY <2>2, <2>3, <3>1, <4>1, <4>3, <4>4 DEF Ended, SameClaims, ReceiptStays, ver
    <3>5. \A q \in Runs : q # r => LeaseMoves(q)
      <4>1. UNCHANGED <<receipt, claims, acted>>
        BY <1>5 DEF Finalize
      <4> HIDE DEF new
      <4> QED BY <1>0, <3>2, <4>1 DEF RowTypes, LeaseMoves, SameClaims, ReceiptStays
    <3> QED BY <3>3, <3>4, <3>5 DEF RowStep
  <2>4. CASE ~(run[r].st \notin Terminal /\ Holds(s, r))
    BY <1>1, <1>5, <2>4 DEF Finalize, RowsStay
  <2> QED BY <2>3, <2>4
<1>6. ASSUME NEW s \in Services, NEW d \in Drainers, Release(s, d)
      PROVE  RowTypes' /\ \A q \in Runs : RowStep(q)
  <2>1. RowTypes'
    BY <1>0, <1>6, NoLeaseRow DEF Release, RowTypes
  <2>2. \A q \in Runs : lease'[q].by \in {lease[q].by, NoService}
    BY <1>0, <1>6 DEF Release, RowTypes, LeaseRow
  <2> QED BY <1>6, <2>1, <2>2, QuietRows DEF Release
<1>7. ASSUME NEW s \in Services, NEW d \in Drainers, BeatRenew(s, d)
      PROVE  RowTypes' /\ \A q \in Runs : RowStep(q)
  <2> DEFINE r == drainer[s][d].r
  <2>1. PICK b : b \in BOOLEAN /\ lease' = [lease EXCEPT ![r].live = b]
    <3> DEFINE b == \/ lease[r].live
                    \/ /\ run[r].ver = drainer[s][d].beat
                       /\ run[r].st \in {"running", "cancelling"}
                       /\ lease[r].by = s
    <3>1. lease' = [lease EXCEPT ![r].live = b] /\ b \in BOOLEAN
      BY <1>7, ZenonT(30) DEF BeatRenew
    <3> QED BY <3>1
  <2> HIDE DEF r
  <2>a. lease' \in [Runs -> LeaseRow]
    BY <1>0, <2>1 DEF RowTypes, LeaseRow
  <2>2. \A q \in Runs : lease'[q].by = lease[q].by
    BY <1>0, <2>1 DEF RowTypes, LeaseRow
  <2>3. UNCHANGED <<run, receipt, claims, acted, stalls>>
    BY <1>7 DEF BeatRenew
  <2>4. RowTypes'
    BY <1>0, <2>a, <2>3 DEF RowTypes
  <2> QED BY <2>2, <2>3, <2>4, QuietRows
<1>8. ASSUME NEW s \in Services, NEW r \in Runs, NEW why \in {"user_requested", "run_timeout"},
             Cancel(s, r, why)
      PROVE  RowTypes' /\ \A q \in Runs : RowStep(q)
  <2> DEFINE st == IF run[r].st = "running" THEN "cancelling" ELSE "stopped"
             ver == run[r].ver + 1
             new == [run[r] EXCEPT !.st = st, !.ver = ver, !.why = why]
  <2>a. run[r] \in RunRow /\ st \in States /\ why \in Reasons /\ ver \in Nat
    BY <1>0, StateNames, Counters DEF RowTypes, Reasons
  <2>b. run' = [run EXCEPT ![r].st = st, ![r].ver = @ + 1, ![r].why = why]
    BY <1>0, <1>8, <2>a DEF Cancel, Moved, RowTypes, RunRow
  <2>3. lease' = [lease EXCEPT ![r] = IF st = "stopped" THEN NoLease ELSE lease[r]]
    BY <1>8 DEF Cancel
  <2>c. /\ \/ run[r].st = "running" /\ st = "cancelling"
           \/ run[r].st = "queued" /\ st = "stopped"
        /\ UNCHANGED <<receipt, claims, acted, stalls>>
    BY <1>8 DEF Cancel
  <2> HIDE DEF st
  <2>d. run' = [run EXCEPT ![r] = new]
    BY <1>0, <2>a, <2>b DEF RowTypes, RunRow
  <2> HIDE DEF ver
  <2>1. /\ run[r] \in RunRow /\ new \in RunRow /\ new.st = st /\ new.ver = ver
        /\ new.rec = run[r].rec /\ new.author = run[r].author
    BY <2>a DEF RunRow
  <2> HIDE DEF new
  <2>4. RowTypes'
    BY <1>0, <2>1, <2>3, <2>c, <2>d, NoLeaseRow DEF RowTypes
  <2>5. Cancelled(r)
    <3>1. run'[r] = new /\ lease'[r] = IF st = "stopped" THEN NoLease ELSE lease[r]
      BY <1>0, <2>d, <2>3 DEF RowTypes
    <3> QED BY <2>1, <2>c, <3>1 DEF Cancelled, SameClaims, ReceiptStays, ver
  <2>6. \A q \in Runs : q # r => LeaseMoves(q)
    BY <1>0, <2>c, <2>d, <2>3 DEF RowTypes, LeaseMoves, SameClaims, ReceiptStays
  <2> QED BY <2>4, <2>5, <2>6 DEF RowStep
<1>9. ASSUME NEW s \in Services, Reconcile(s)
      PROVE  RowTypes' /\ \A q \in Runs : RowStep(q)
  <2>1. PICK c \in found[s] :
          IF run[c.r].st = c.st /\ run[c.r].ver = c.ver
          THEN /\ run' = [Moved(c.r, Classify(c)) EXCEPT
                             ![c.r].rec = @ + IF Classify(c) = "queued" THEN 1 ELSE 0]
               /\ lease' = [lease EXCEPT ![c.r] = NoLease]
          ELSE UNCHANGED <<run, lease>>
    BY <1>9 DEF Reconcile
  <2>2. c \in Candidate /\ c.r \in Runs /\ c.st \in Active
    BY DEF TypesOK, ServiceTypes, Candidate
  <2>3. CASE run[c.r].st = c.st /\ run[c.r].ver = c.ver
    <3> DEFINE r == c.r
               st == Classify(c)
               rec == run[r].rec + IF st = "queued" THEN 1 ELSE 0
               ver == run[r].ver + 1
               new == [run[r] EXCEPT !.st = st, !.ver = ver, !.rec = rec]
    <3>1. st \in {"queued", "recovery_required"}
          /\ (st = "queued" => c.st = "running" /\ c.acts = "none" /\ c.rec = 0)
      BY DEF Classify
    <3>2. c.rec = run[r].rec
      BY <2>3 DEF FoundOK
    <3> HIDE DEF st
    <3>a. run[r] \in RunRow /\ st \in States
      BY <1>0, <2>2, <3>1, StateNames DEF RowTypes
    <3>b. rec \in Nat /\ ver \in Nat
      BY <3>a, Counters
    <3> HIDE DEF rec, ver
    <3>3. /\ run[r] \in RunRow /\ new \in RunRow /\ new.st = st /\ new.ver = ver
          /\ new.rec = rec /\ new.author = run[r].author
      BY <3>a, <3>b DEF RunRow
    <3>4. run' = [run EXCEPT ![r] = new] /\ lease' = [lease EXCEPT ![r] = NoLease]
      <4>1. run' = [Moved(r, st) EXCEPT ![r].rec = @ + IF st = "queued" THEN 1 ELSE 0]
            /\ lease' = [lease EXCEPT ![r] = NoLease]
        BY <2>1, <2>3 DEF st
      <4> QED BY <1>0, <2>2, <3>3, <4>1 DEF Moved, RowTypes, RunRow, rec, ver
    <3>5. RowTypes'
      BY <1>0, <1>9, <2>2, <3>3, <3>4, NoLeaseRow DEF Reconcile, RowTypes
    <3>6. Recovered(r)
      <4>1. run'[r] = new /\ lease'[r] = NoLease
        BY <1>0, <2>2, <3>4 DEF RowTypes
      <4>2. rec = run[r].rec + (IF st = "queued" THEN 1 ELSE 0) /\ run[r].rec \in Nat
        BY <3>a, Counters DEF rec
      <4>3. UNCHANGED <<receipt, claims, acted>>
        BY <1>9 DEF Reconcile
      <4> HIDE DEF new
      <4>4. /\ \E t \in Services : \E x \in found[t] :
                 /\ x.r = r /\ x.st = run[r].st /\ x.ver = run[r].ver
                 /\ run'[r].st = "queued" => x.acts = "none"
        BY <2>3, <3>1, <3>3, <4>1
      <4> QED BY <2>2, <2>3, <3>1, <3>2, <3>3, <4>1, <4>2, <4>3, <4>4
              DEF Recovered, SameClaims, ReceiptStays, ver
    <3>7. \A q \in Runs : q # r => LeaseMoves(q)
      BY <1>0, <1>9, <3>4 DEF Reconcile, RowTypes, LeaseMoves, SameClaims, ReceiptStays
    <3> QED BY <3>5, <3>6, <3>7 DEF RowStep
  <2>4. CASE ~(run[c.r].st = c.st /\ run[c.r].ver = c.ver)
    BY <1>1, <1>9, <2>1, <2>4 DEF Reconcile, RowsStay
  <2> QED BY <2>3, <2>4
<1>10. ASSUME NEW r \in Runs, Expire(r)
       PROVE  RowTypes' /\ \A q \in Runs : RowStep(q)
  <2>1. RowTypes'
    BY <1>0, <1>10 DEF Expire, RowTypes, LeaseRow
  <2>2. \A q \in Runs : lease'[q].by \in {lease[q].by, NoService}
    BY <1>0, <1>10 DEF Expire, RowTypes, LeaseRow
  <2> QED BY <1>10, <2>1, <2>2, QuietRows DEF Expire
<1>11. ASSUME NEW s \in Services,
              \/ Start(s) \/ CountReceipts(s) \/ Started(s) \/ Crash(s)
              \/ \E r \in Runs : Accept(s, r)
              \/ \E d \in Drainers : QuietTurn(s, d)
       PROVE  RowsStay
  BY <1>11, QuietFrame DEF RowsStay, Start, CountReceipts, Started, Crash, Accept
<1>12. ASSUME NEW s \in Services, NEW d \in Drainers, TimeOut(s, d)
       PROVE  drainer[s][d].r \in Runs /\ Cancel(s, drainer[s][d].r, "run_timeout")
  BY <1>12 DEF TypesOK, SlotsOK, SlotOK, TimeOut, At, Working
<1>13. ASSUME UNCHANGED runsVars PROVE RowsStay
  BY <1>13 DEF RowsStay, runsVars
<1> QED
  BY <1>1, <1>2, <1>3, <1>4, <1>5, <1>6, <1>7, <1>8, <1>9, <1>10, <1>11, <1>12, <1>13
  DEF RunsNext, Drain, QuietTurn

-----------------------------------------------------------------------------
(* The invariant *)

\* Counts, owners and authors of one run.
RowOK(r) ==
    /\ run[r].st \in {"none", "queued"} => claims[r].n <= run[r].rec
    /\ claims[r].n <= run[r].rec + 1 /\ run[r].rec <= 1
    /\ acted[r] <= 1 /\ (receipt[r] = "none" => acted[r] = 0)
    /\ lease[r].by # NoService => run[r].st \in Active /\ lease[r].by = claims[r].by
    /\ run[r].author # NoService => run[r].st \in Terminal /\ run[r].author = claims[r].by
RowsOK == \A r \in Runs : RowOK(r)

RunsIInv == TypesOK /\ FoundOK /\ RowsOK

LEMMA RowKept ==
    ASSUME RowTypes, RowTypes', NEW r \in Runs, RowStep(r), RowOK(r)
    PROVE  RowOK(r)'
<1>1. /\ run[r].rec \in Nat /\ run'[r].rec \in Nat /\ claims[r].n \in Nat
      /\ claims'[r].n \in Nat /\ acted[r] \in Nat /\ acted'[r] \in Nat
  BY DEF RowTypes, RunRow, ClaimCount
<1>2. CASE Created(r)
  BY <1>1, <1>2, StateNames DEF Created, RowOK, SameClaims, ReceiptStays, Active
<1>3. ASSUME NEW s \in Services, Claimed(r, s) PROVE RowOK(r)'
  BY <1>1, <1>3, StateNames DEF Claimed, RowOK, ReceiptStays, Active
<1>4. ASSUME NEW s \in Services, Ended(r, s) PROVE RowOK(r)'
  BY <1>1, <1>4, StateNames, NoLeaseRow, Numbers
  DEF Ended, RowOK, SameClaims, ReceiptStays, Active, Holds
<1>5. CASE Cancelled(r)
  BY <1>1, <1>5, StateNames, NoLeaseRow DEF Cancelled, RowOK, SameClaims, ReceiptStays, Active
<1>6. CASE Recovered(r)
  <2>1. run[r].st \notin Terminal
    BY <1>6, StateNames DEF Recovered
  <2> QED BY <1>1, <1>6, <2>1, StateNames, NoLeaseRow
          DEF Recovered, RowOK, SameClaims, ReceiptStays, Active
<1>7. CASE LeaseMoves(r)
  BY <1>7 DEF LeaseMoves, RowOK, SameClaims, ReceiptStays
<1>8. CASE ReceiptMoves(r)
  BY <1>1, <1>8 DEF ReceiptMoves, RowOK, SameClaims
<1> QED BY <1>2, <1>3, <1>4, <1>5, <1>6, <1>7, <1>8 DEF RowStep

\* Versions rise, and tell the states of a run apart once it is claimed.
LEMMA VersionsRise ==
    ASSUME RowTypes, NEW r \in Runs, RowStep(r)
    PROVE  /\ run[r].ver \in Nat /\ run'[r].ver \in Nat /\ run[r].ver <= run'[r].ver
           /\ run'[r].ver = run[r].ver => run'[r] = run[r] \/ run[r].st = "none"
<1>1. run[r].ver \in Nat
  BY Counters DEF RowTypes
<1>2. \/ run'[r] = run[r]
      \/ run[r].st = "none" /\ run'[r].ver = run[r].ver
      \/ run'[r].ver = run[r].ver + 1
  BY DEF RowStep, Created, Claimed, Ended, Cancelled, Recovered, LeaseMoves, ReceiptMoves
<1> QED BY <1>1, <1>2

LEMMA FoundRows ==
    ASSUME RowTypes, FoundOK, \A r \in Runs : RowStep(r), NEW s \in Services,
           NEW c \in Candidate, NEW x \in found[s], c.r = x.r, c.st = x.st, c.ver = x.ver, c.rec = x.rec
    PROVE  /\ c.ver <= run'[c.r].ver
           /\ c.ver = run'[c.r].ver => c.st = run'[c.r].st /\ c.rec = run'[c.r].rec
<1>1. /\ c.ver \in Nat /\ c.r \in Runs /\ c.st # "none" /\ c.ver <= run[c.r].ver
      /\ c.ver = run[c.r].ver => c.st = run[c.r].st /\ c.rec = run[c.r].rec
  BY DEF Candidate, FoundOK, Active
<1>2. /\ run[c.r].ver \in Nat /\ run'[c.r].ver \in Nat /\ run[c.r].ver <= run'[c.r].ver
      /\ run'[c.r].ver = run[c.r].ver => run'[c.r] = run[c.r] \/ run[c.r].st = "none"
  BY <1>1, VersionsRise
<1> QED BY <1>1, <1>2

LEMMA ServiceSteps ==
    ASSUME RunsIInv, [RunsNext]_runsVars, RowTypes', \A r \in Runs : RowStep(r)
    PROVE  ServiceTypes' /\ FoundOK'
<1>1. ServiceTypes /\ RowTypes /\ FoundOK
  BY DEF RunsIInv, TypesOK
<1>2. ASSUME UNCHANGED <<service, found>>, leaving' \in [Services -> SUBSET Drainers],
             noting' \in [Services -> SUBSET Runs]
      PROVE  ServiceTypes' /\ FoundOK'
  <2>1. ServiceTypes'
    BY <1>1, <1>2 DEF ServiceTypes
  <2>2. ASSUME NEW s \in Services, NEW c \in found[s]
        PROVE  /\ c.ver <= run'[c.r].ver
               /\ c.ver = run'[c.r].ver => c.st = run'[c.r].st /\ c.rec = run'[c.r].rec
    BY <1>1, FoundRows DEF ServiceTypes
  <2>3. FoundOK'
    BY <1>1, <1>2, <2>2 DEF FoundOK
  <2> QED BY <2>1, <2>3
<1>3. ASSUME UNCHANGED <<service, found, leaving, noting>> PROVE ServiceTypes' /\ FoundOK'
  BY <1>1, <1>2, <1>3 DEF ServiceTypes
<1>4. ASSUME NEW s \in Services, NEW r \in Runs, Submit(s, r) \/ Accept(s, r)
      PROVE  ServiceTypes' /\ FoundOK'
  BY <1>1, <1>2, <1>4 DEF ServiceTypes, Submit, Accept
<1>5. ASSUME NEW s \in Services, NEW d \in Drainers, GiveBack(s, d) \/ LookAgain(s, d)
      PROVE  ServiceTypes' /\ FoundOK'
  BY <1>1, <1>2, <1>5 DEF ServiceTypes, GiveBack, LookAgain
<1>6. ASSUME NEW s \in Services, NEW d \in Drainers, Turn(s, d) \/ TimeOut(s, d)
      PROVE  ServiceTypes' /\ FoundOK'
  BY <1>3, <1>5, <1>6, TurnFrame, TimeOutFrame
<1>7. ASSUME NEW s \in Services, NEW r \in Runs, Cancel(s, r, "user_requested")
      PROVE  ServiceTypes' /\ FoundOK'
  BY <1>3, <1>7 DEF Cancel
<1>8. ASSUME NEW r \in Runs, Expire(r) PROVE ServiceTypes' /\ FoundOK'
  BY <1>3, <1>8 DEF Expire
<1>9. ASSUME NEW s \in Services, UNCHANGED <<leaving, noting>>,
             NEW st \in {"down", "starting", "up", "dead"}, NEW F \in SUBSET Candidate,
             service' = [service EXCEPT ![s] = st], found' = [found EXCEPT ![s] = F],
             F # {} => st = "starting",
             \A c \in F : /\ c.ver <= run'[c.r].ver
                          /\ c.ver = run'[c.r].ver => c.st = run'[c.r].st /\ c.rec = run'[c.r].rec
      PROVE  ServiceTypes' /\ FoundOK'
  <2>1. ServiceTypes'
    BY <1>1, <1>9 DEF ServiceTypes
  <2>2. ASSUME NEW t \in Services, NEW c \in found'[t]
        PROVE  /\ service'[t] = "starting"
               /\ c.ver <= run'[c.r].ver
               /\ c.ver = run'[c.r].ver => c.st = run'[c.r].st /\ c.rec = run'[c.r].rec
    <3>1. CASE t = s
      BY <1>1, <1>9, <2>2, <3>1 DEF ServiceTypes
    <3>2. CASE t # s
      <4>1. c \in found[t] /\ service'[t] = service[t]
        BY <1>1, <1>9, <2>2, <3>2 DEF ServiceTypes
      <4>2. c \in Candidate
        BY <1>1, <4>1 DEF ServiceTypes
      <4> QED BY <1>1, <4>1, <4>2, FoundRows DEF FoundOK
    <3> QED BY <3>1, <3>2
  <2>3. FoundOK'
    BY <2>2 DEF FoundOK
  <2> QED BY <2>1, <2>3
<1>10. ASSUME NEW s \in Services, Start(s) PROVE ServiceTypes' /\ FoundOK'
  <2> DEFINE F == {[r |-> r, st |-> run[r].st, ver |-> run[r].ver, rec |-> run[r].rec,
                    acts |-> "unread"] : r \in Candidates}
  <2>1. F \in SUBSET Candidate
    <3>1. ASSUME NEW r \in Candidates
          PROVE  r \in Runs /\ run[r].st \in Active /\ run[r].ver \in Nat /\ run[r].rec \in Nat
      BY <1>1, <3>1 DEF Candidates, RowTypes, RunRow, Active
    <3> QED BY <3>1 DEF Candidate
  <2>2. \A c \in F : c.ver = run'[c.r].ver /\ c.st = run'[c.r].st /\ c.rec = run'[c.r].rec
                     /\ c.ver \in Nat
    <3>1. UNCHANGED run
      BY <1>10 DEF Start
    <3> QED BY <2>1, <3>1 DEF Candidate
  <2>3. \A c \in F : /\ c.ver <= run'[c.r].ver
                     /\ c.ver = run'[c.r].ver => c.st = run'[c.r].st /\ c.rec = run'[c.r].rec
    BY <2>2
  <2>4. /\ service' = [service EXCEPT ![s] = "starting"] /\ found' = [found EXCEPT ![s] = F]
        /\ UNCHANGED <<leaving, noting>>
    BY <1>10 DEF Start
  <2> HIDE DEF F
  <2> QED BY <1>9, <2>1, <2>3, <2>4
<1>11. ASSUME NEW s \in Services, CountReceipts(s) PROVE ServiceTypes' /\ FoundOK'
  <2>1. PICK x \in found[s] :
            found' = [found EXCEPT ![s] = (@ \ {x}) \cup
                {[x EXCEPT !.acts = IF receipt[x.r] = "none" THEN "none" ELSE "some"]}]
    BY <1>11 DEF CountReceipts
  <2> DEFINE new == [x EXCEPT !.acts = IF receipt[x.r] = "none" THEN "none" ELSE "some"]
             F == (found[s] \ {x}) \cup {new}
  <2>2. found[s] \in SUBSET Candidate /\ x \in Candidate
    BY <1>1 DEF ServiceTypes
  <2>3. /\ new \in Candidate /\ new.r = x.r /\ new.st = x.st /\ new.ver = x.ver
        /\ new.rec = x.rec
    BY <2>2 DEF Candidate
  <2>4. found' = [found EXCEPT ![s] = F] /\ service' = [service EXCEPT ![s] = service[s]]
        /\ service[s] = "starting" /\ UNCHANGED <<leaving, noting>>
    BY <1>1, <1>11, <2>1 DEF CountReceipts, ServiceTypes
  <2> HIDE DEF new
  <2>5. ASSUME NEW c \in F
        PROVE  /\ c.ver <= run'[c.r].ver
               /\ c.ver = run'[c.r].ver => c.st = run'[c.r].st /\ c.rec = run'[c.r].rec
    <3>1. CASE c = new
      BY <1>1, <2>3, <3>1, FoundRows
    <3>2. CASE c \in found[s]
      BY <1>1, <2>2, <3>2, FoundRows
    <3> QED BY <3>1, <3>2
  <2>6. F \in SUBSET Candidate
    BY <2>2, <2>3
  <2> HIDE DEF F
  <2> QED BY <1>9, <2>4, <2>5, <2>6
<1>12. ASSUME NEW s \in Services, Reconcile(s) PROVE ServiceTypes' /\ FoundOK'
  <2>1. PICK x \in found[s] : found' = [found EXCEPT ![s] = @ \ {x}]
    BY <1>12 DEF Reconcile
  <2> DEFINE F == found[s] \ {x}
  <2>2. found[s] \in SUBSET Candidate
    BY <1>1 DEF ServiceTypes
  <2>3. found' = [found EXCEPT ![s] = F] /\ service' = [service EXCEPT ![s] = service[s]]
        /\ service[s] = "starting" /\ UNCHANGED <<leaving, noting>>
    BY <1>1, <1>12, <2>1 DEF Reconcile, ServiceTypes
  <2>4. ASSUME NEW c \in F
        PROVE  /\ c.ver <= run'[c.r].ver
               /\ c.ver = run'[c.r].ver => c.st = run'[c.r].st /\ c.rec = run'[c.r].rec
    BY <1>1, <2>2, FoundRows
  <2>5. F \in SUBSET Candidate
    BY <2>2
  <2> HIDE DEF F
  <2> QED BY <1>9, <2>3, <2>4, <2>5
<1>13. ASSUME NEW s \in Services, Started(s) PROVE ServiceTypes' /\ FoundOK'
  <2>1. /\ service' = [service EXCEPT ![s] = "up"] /\ found' = [found EXCEPT ![s] = {}]
        /\ UNCHANGED <<leaving, noting>>
    BY <1>1, <1>13 DEF Started, ServiceTypes
  <2> DEFINE F == {}
  <2>2. /\ F \in SUBSET Candidate /\ F = {}
        /\ \A c \in F : /\ c.ver <= run'[c.r].ver
                        /\ c.ver = run'[c.r].ver => c.st = run'[c.r].st /\ c.rec = run'[c.r].rec
    OBVIOUS
  <2> HIDE DEF F
  <2>3. found' = [found EXCEPT ![s] = F]
    BY <2>1 DEF F
  <2> QED BY <1>9, <2>1, <2>2, <2>3
<1>14. ASSUME NEW s \in Services, Crash(s) PROVE ServiceTypes' /\ FoundOK'
  <2>1. ServiceTypes'
    BY <1>1, <1>14 DEF Crash, ServiceTypes
  <2>2. UNCHANGED run /\ \A t \in Services : found'[t] # {} => found'[t] = found[t] /\ service'[t] = service[t]
    BY <1>1, <1>14 DEF Crash, ServiceTypes
  <2>3. FoundOK'
    BY <1>1, <2>2 DEF FoundOK
  <2> QED BY <2>1, <2>3
<1>15. CASE UNCHANGED runsVars
  BY <1>3, <1>15 DEF runsVars
<1> QED
  BY <1>4, <1>5, <1>6, <1>7, <1>8, <1>10, <1>11, <1>12, <1>13, <1>14, <1>15
  DEF RunsNext, Drain, Turn

LEMMA DrainerSteps ==
    ASSUME TypesOK, [RunsNext]_runsVars
    PROVE  DrainerTypes' /\ SlotsOK'
<1>1. DrainerTypes /\ SlotsOK /\ ServiceTypes
  BY DEF TypesOK
<1>2. ASSUME UNCHANGED drainer, \A s \in Services : service[s] = "up" => service'[s] = "up"
      PROVE  DrainerTypes' /\ SlotsOK'
  BY <1>1, <1>2 DEF DrainerTypes, SlotsOK
<1>3. ASSUME NEW s \in Services, drainer' = Schedule(s), service'[s] = "up",
             \A t \in Services : t # s => service'[t] = service[t]
      PROVE  DrainerTypes' /\ SlotsOK'
  BY <1>1, <1>3, ScheduleStep
<1>4. ASSUME NEW s \in Services, Start(s) \/ CountReceipts(s) \/ Reconcile(s)
      PROVE  DrainerTypes' /\ SlotsOK'
  BY <1>1, <1>2, <1>4 DEF Start, CountReceipts, Reconcile, ServiceTypes
<1>5. ASSUME NEW s \in Services, Started(s) PROVE DrainerTypes' /\ SlotsOK'
  BY <1>1, <1>3, <1>5 DEF Started, ServiceTypes
<1>6. ASSUME NEW s \in Services, Crash(s) PROVE DrainerTypes' /\ SlotsOK'
  <2>1. DrainerTypes'
    BY <1>1, <1>6, IdleSlots DEF Crash, DrainerTypes
  <2>2. \A t \in Services, d \in Drainers :
          drainer'[t][d] = Free \/ (drainer'[t][d] = drainer[t][d] /\ service'[t] = service[t])
    <3>1. /\ drainer' = [drainer EXCEPT ![s] = [d \in Drainers |-> Free]]
          /\ service' = [service EXCEPT ![s] = "dead"]
      BY <1>6 DEF Crash
    <3>2. \A d \in Drainers : drainer'[s][d] = Free
      BY <1>1, <3>1 DEF DrainerTypes
    <3>3. \A t \in Services : t # s => drainer'[t] = drainer[t] /\ service'[t] = service[t]
      BY <1>1, <3>1 DEF DrainerTypes, ServiceTypes
    <3>4. ASSUME NEW t \in Services, NEW d \in Drainers
          PROVE  drainer'[t][d] = Free \/ (drainer'[t][d] = drainer[t][d] /\ service'[t] = service[t])
      <4>1. CASE t = s
        BY <3>2, <4>1
      <4>2. CASE t # s
        BY <3>3, <4>2
      <4> QED BY <4>1, <4>2
    <3> QED BY <3>4
  <2> QED BY <1>1, <2>1, <2>2, IdleSlots DEF SlotsOK
<1>7. ASSUME NEW s \in Services, NEW r \in Runs, Submit(s, r) \/ Cancel(s, r, "user_requested")
      PROVE  DrainerTypes' /\ SlotsOK'
  BY <1>2, <1>7 DEF Submit, Cancel
<1>8. ASSUME NEW s \in Services, NEW r \in Runs, Accept(s, r) PROVE DrainerTypes' /\ SlotsOK'
  BY <1>3, <1>8 DEF Accept, Up
<1>9. ASSUME NEW s \in Services, NEW d \in Drainers, LookAgain(s, d) \/ TimeOut(s, d)
      PROVE  DrainerTypes' /\ SlotsOK'
  BY <1>2, <1>3, <1>9, LookAgainFrame, TimeOutFrame
<1>10. ASSUME NEW r \in Runs, Expire(r) PROVE DrainerTypes' /\ SlotsOK'
  BY <1>2, <1>10 DEF Expire
<1>11. CASE UNCHANGED runsVars
  BY <1>2, <1>11 DEF runsVars
<1> QED
  BY <1>4, <1>5, <1>6, <1>7, <1>8, <1>9, <1>10, <1>11, DrainerStep DEF RunsNext, Drain, Turn

LEMMA RunsInductive ==
    ASSUME RunsIInv, [RunsNext]_runsVars
    PROVE  RunsIInv' /\ \A r \in Runs : RowStep(r)
<1>1. RowTypes' /\ \A r \in Runs : RowStep(r)
  BY RowSteps DEF RunsIInv
<1>2. ServiceTypes' /\ FoundOK'
  BY <1>1, ServiceSteps
<1>3. DrainerTypes' /\ SlotsOK'
  BY DrainerSteps DEF RunsIInv
<1>4. RowsOK'
  BY <1>1, RowKept DEF RunsIInv, TypesOK, RowsOK
<1> QED BY <1>1, <1>2, <1>3, <1>4 DEF RunsIInv, TypesOK

LEMMA RunsStart ==
    ASSUME RunsInit
    PROVE  RunsIInv
<1>1. RowTypes
  <2>1. 0 \in Births
    BY FS_EmptySet DEF Births
  <2>2. [st |-> "none", ver |-> 0, rec |-> 0, why |-> "none", born |-> 0,
         author |-> NoService] \in RunRow
    BY <2>1, StateNames DEF RunRow, Reasons, Names
  <2>3. [n |-> 0, by |-> NoService] \in ClaimCount
    BY DEF ClaimCount, Names
  <2> QED BY <2>2, <2>3, NoLeaseRow DEF RunsInit, RowTypes
<1>2. ServiceTypes
  BY DEF RunsInit, ServiceTypes
<1>3. DrainerTypes /\ SlotsOK
  BY IdleSlots DEF RunsInit, DrainerTypes, SlotsOK
<1>4. FoundOK
  BY DEF RunsInit, FoundOK
<1>5. RowsOK
  BY NoLeaseRow, StateNames DEF RunsInit, RowsOK, RowOK
<1> QED BY <1>1, <1>2, <1>3, <1>4, <1>5 DEF RunsIInv, TypesOK

\* The values of the variables, the counts of every run and the read candidates hold in
\* every state.
THEOREM RunsInvariant == RunsSpec => []RunsIInv
<1>1. RunsInit => RunsIInv
  BY RunsStart
<1>2. RunsIInv /\ [RunsNext]_runsVars => RunsIInv'
  BY RunsInductive
<1> QED BY <1>1, <1>2, PTL DEF RunsSpec

LEMMA IInvSound == RunsIInv => RunsSound
<1> SUFFICES ASSUME RunsIInv PROVE RunsSound
  OBVIOUS
<1>1. RunsTypeOK
  <2>1. ASSUME NEW r \in Runs
        PROVE  /\ run[r].st \in Terminal \cup {"none", "queued", "running", "cancelling"}
               /\ run[r].ver \in Nat /\ run[r].rec \in Nat
               /\ lease[r].by # NoService => run[r].st \in {"running", "cancelling"}
               /\ receipt[r] \in {"none", "pending", "completed", "failed"}
    BY DEF RunsIInv, TypesOK, RowTypes, RunRow, States, Active, RowsOK, RowOK
  <2>2. ASSUME NEW s \in Services
        PROVE  /\ found[s] # {} => service[s] = "starting"
               /\ \A d \in Drainers : drainer[s][d].pc # "off" => service[s] = "up"
    BY DEF RunsIInv, TypesOK, FoundOK, SlotsOK
  <2> QED BY <2>1, <2>2 DEF RunsTypeOK
<1>2. RerunOnce
  <2>1. ASSUME NEW r \in Runs PROVE claims[r].n <= 2 /\ run[r].rec <= 1
    <3>1. claims[r].n \in Nat /\ run[r].rec \in Nat
      BY DEF RunsIInv, TypesOK, RowTypes, RunRow, ClaimCount
    <3> QED BY <3>1 DEF RunsIInv, RowsOK, RowOK
  <2> QED BY <2>1 DEF RerunOnce
<1>3. ActionOnce
  BY DEF RunsIInv, RowsOK, RowOK, ActionOnce
<1>4. EndedByLastClaimer
  BY DEF RunsIInv, RowsOK, RowOK, EndedByLastClaimer
<1> QED BY <1>1, <1>2, <1>3, <1>4 DEF RunsSound

\* With services that reconcile together and crash at any step a run is repeated once at
\* most, its action performed once at most, and its end written by its last claimer.
THEOREM RecoveryIsSound == RunsSpec => []RunsSound
  BY RunsInvariant, IInvSound, PTL

-----------------------------------------------------------------------------
(* Without stalls: who works on a run holds its lease *)

Closed(r) == run[r].st \in Terminal \cup {"cancelling"}
Guarded(s, d, r) ==
    /\ lease[r] = [by |-> s, live |-> TRUE]
    /\ drainer[s][d].pc \in {"engine", "acting"} => drainer[s][d].beat \in {0, run[r].ver}
HeldOK(s, d, r) ==
    /\ Works(s, d, r) => Closed(r) \/ (run[r].st = "running" /\ Guarded(s, d, r))
    /\ drainer[s][d].pc = "release" /\ drainer[s][d].r = r => Closed(r)
WorkersHold == \A r \in Runs, s \in Services, d \in Drainers : HeldOK(s, d, r)

\* Nobody has reserved an action of a run that waits for a drainer.
FreshOK == \A r \in Runs : run[r].st \in {"none", "queued"} => receipt[r] = "none"

\* Nobody works on a run that a start has read as abandoned and that has not moved,
\* and its receipts are as they were counted.
AbandonedOK ==
    \A s \in Services : \A c \in found[s] :
        c.st = "running" /\ c.ver = run[c.r].ver =>
            /\ \A t \in Services, d \in Drainers : ~Works(t, d, c.r)
            /\ c.acts = "none" => receipt[c.r] = "none"

HoldIInv == RunsIInv /\ (~stalls => WorkersHold /\ FreshOK /\ AbandonedOK)

LEMMA ClosedStays ==
    ASSUME NEW r \in Runs, RowStep(r), Closed(r)
    PROVE  Closed(r)'
  BY StateNames
  DEF Closed, RowStep, Created, Claimed, Ended, Cancelled, Recovered, LeaseMoves, ReceiptMoves

\* How a slot goes on with its run: it works on it if it has worked on it, with a
\* heartbeat that waits or has read the row as it is.
GoesOn(s, d) ==
    LET x == drainer[s][d]
        y == drainer'[s][d]
    IN  /\ y.r = x.r
        /\ y.pc \in Working => x.pc \in Working
        /\ y.pc = "release" => x.pc = "release"
        /\ y.pc \in {"engine", "acting"} /\ run[x.r].st = "running" =>
              \/ y.beat \in {0, run[x.r].ver}
              \/ x.pc \in {"engine", "acting"} /\ y.beat = x.beat
Rests(s, d) == drainer'[s][d].pc \in {"off", "claim", "leave"}
SlotGoes(s, d) ==
    \/ GoesOn(s, d) \/ Rests(s, d) \/ Claim(s, d)
    \/ Finalize(s, d) /\ drainer[s][d].pc = "finalize"

LEMMA OwnSlot ==
    ASSUME TypesOK, WorkersHold, NEW s \in Services, NEW d \in Drainers,
           Turn(s, d)
    PROVE  SlotGoes(s, d)
<1> DEFINE x == drainer[s][d]
           y == drainer'[s][d]
<1>1. /\ drainer \in [Services -> [Drainers -> Slot]] /\ x \in Slot /\ SlotOK(x)
  BY DEF TypesOK, DrainerTypes, SlotsOK
<1>2. CASE Claim(s, d)
  BY <1>2 DEF SlotGoes
<1>3. CASE ClaimNothing(s, d)
  <2>1. y.pc = "leave"
    BY <1>1, <1>3 DEF ClaimNothing, Slot
  <2> QED BY <2>1 DEF SlotGoes, Rests
<1>4. CASE GiveBack(s, d) \/ Release(s, d)
  <2>1. y.pc \in {"off", "claim"}
    BY <1>1, <1>4 DEF GiveBack, Release, Free
  <2> QED BY <2>1 DEF SlotGoes, Rests
<1>5. CASE Begin(s, d)
  <2>1. x.pc = "begin" /\ y.pc = "engine" /\ y.beat = 0 /\ y.r = x.r
    BY <1>1, <1>5 DEF Begin, At, Slot
  <2> QED BY <2>1 DEF SlotGoes, GoesOn, Working
<1>6. CASE Reject(s, d) \/ EngineEnds(s, d)
  <2>1. x.pc \in Working /\ y.pc \in {"refuse", "finalize"} /\ y.r = x.r
    BY <1>1, <1>6 DEF Reject, EngineEnds, At, Slot, Working
  <2> QED BY <2>1 DEF SlotGoes, GoesOn
<1>7. CASE Acted(s, d)
  <2>1. PICK status \in {"completed", "failed"} :
            drainer' = [drainer EXCEPT
                ![s][d].pc = IF status = "completed" THEN "engine" ELSE "finalize",
                ![s][d].result = status]
    BY <1>7 DEF Acted
  <2>2. y.pc \in {"engine", "finalize"} /\ y.r = x.r /\ y.beat = x.beat
    BY <1>1, <2>1 DEF Slot
  <2>3. x.pc = "acting"
    BY <1>7 DEF Acted, At
  <2> QED BY <2>2, <2>3 DEF SlotGoes, GoesOn, Working
<1>8. CASE Act(s, d)
  <2>1. x.pc = "engine"
    BY <1>8 DEF Act, At
  <2>2. \/ drainer' = [drainer EXCEPT ![s][d].pc = "acting"]
        \/ drainer' = [drainer EXCEPT ![s][d].result = "completed"]
        \/ drainer' = [drainer EXCEPT ![s][d].pc = "finalize", ![s][d].result = "failed"]
    BY <1>8 DEF Act
  <2>3. y.pc \in {"acting", "engine", "finalize"} /\ y.r = x.r /\ y.beat = x.beat
    BY <1>1, <2>1, <2>2 DEF Slot
  <2> QED BY <2>1, <2>3 DEF SlotGoes, GoesOn, Working
<1>9. CASE Finalize(s, d)
  <2>1. CASE x.pc = "finalize"
    BY <1>9, <2>1 DEF SlotGoes
  <2>2. CASE x.pc # "finalize"
    <3>1. y.pc = "claim"
      BY <1>1, <1>9, <2>2 DEF Finalize, At, Free
    <3> QED BY <3>1 DEF SlotGoes, Rests
  <2> QED BY <2>1, <2>2
<1>10. CASE BeatRead(s, d) \/ BeatRenew(s, d)
  <2>1. /\ x.beat # -1 /\ x.pc \in {"engine", "acting", "finalize"} /\ x.r \in Runs
        /\ Works(s, d, x.r)
    BY <1>1, <1>10 DEF BeatRead, BeatRenew, Beats, SlotOK, Works, Working
  <2>2. HeldOK(s, d, x.r) /\ run[x.r].ver \in Nat
    BY <2>1, Counters DEF WorkersHold, TypesOK, RowTypes
  <2>3. y.pc = x.pc /\ y.r = x.r
    BY <1>1, <1>10 DEF BeatRead, BeatRenew, Slot
  <2>4. ASSUME x.pc \in {"engine", "acting"}, run[x.r].st = "running"
        PROVE  y.beat \in {0, run[x.r].ver}
    <3>1. ~Closed(x.r)
      BY <2>4, StateNames DEF Closed
    <3>2. lease[x.r].by = s /\ x.beat \in {0, run[x.r].ver}
      BY <2>1, <2>2, <2>4, <3>1 DEF HeldOK, Guarded
    <3>3. CASE BeatRead(s, d)
      BY <1>1, <2>4, <3>3 DEF BeatRead, Slot
    <3>4. CASE BeatRenew(s, d)
      <4>1. x.beat = run[x.r].ver
        BY <3>2, <3>4, <2>2 DEF BeatRenew
      <4> QED BY <1>1, <2>4, <3>2, <3>4, <4>1 DEF BeatRenew, Slot
    <3> QED BY <1>10, <3>3, <3>4
  <2> QED BY <2>1, <2>3, <2>4 DEF SlotGoes, GoesOn
<1> QED
  BY <1>2, <1>3, <1>4, <1>5, <1>6, <1>7, <1>8, <1>9, <1>10 DEF Turn

LEMMA SlotsGo ==
    ASSUME TypesOK, WorkersHold, [RunsNext]_runsVars, NEW s \in Services, NEW d \in Drainers
    PROVE  SlotGoes(s, d)
<1>1. DrainerTypes /\ SlotsOK /\ ServiceTypes
  BY DEF TypesOK
<1>2. ASSUME drainer'[s][d] = drainer[s][d] PROVE SlotGoes(s, d)
  BY <1>2 DEF SlotGoes, GoesOn
<1>3. ASSUME UNCHANGED drainer PROVE SlotGoes(s, d)
  BY <1>2, <1>3
<1>4. ASSUME NEW t \in Services, drainer' = Schedule(t), service'[t] = "up",
             \A u \in Services : u # t => service'[u] = service[u]
      PROVE  SlotGoes(s, d)
  <2>1. Scheduled(t)
    BY <1>1, <1>4, ScheduleStep
  <2> QED BY <1>2, <2>1, IdleSlots DEF Scheduled, SlotGoes, Rests
<1>5. ASSUME NEW t \in Services, NEW e \in Drainers, Turn(t, e)
      PROVE  SlotGoes(s, d)
  <2>1. CASE t = s /\ e = d
    BY <1>5, <2>1, OwnSlot
  <2>2. CASE ~(t = s /\ e = d)
    <3>1. SlotIs(t, e, drainer'[t][e])
      BY <1>5, DrainerStep
    <3>2. drainer'[s][d] = drainer[s][d]
      BY <2>2, <3>1 DEF SlotIs
    <3> QED BY <1>2, <3>2
  <2> QED BY <2>1, <2>2
<1>6. ASSUME NEW t \in Services, Start(t) \/ CountReceipts(t) \/ Reconcile(t) PROVE SlotGoes(s, d)
  BY <1>3, <1>6 DEF Start, CountReceipts, Reconcile
<1>7. ASSUME NEW t \in Services, Started(t) PROVE SlotGoes(s, d)
  BY <1>1, <1>4, <1>7 DEF Started, ServiceTypes
<1>8. ASSUME NEW t \in Services, Crash(t) PROVE SlotGoes(s, d)
  <2>1. CASE s = t
    <3>1. drainer'[s][d] = Free
      BY <1>1, <1>8, <2>1 DEF Crash, DrainerTypes
    <3> QED BY <3>1, IdleSlots DEF SlotGoes, Rests
  <2>2. CASE s # t
    BY <1>1, <1>2, <1>8, <2>2 DEF Crash, DrainerTypes
  <2> QED BY <2>1, <2>2
<1>9. ASSUME NEW t \in Services, NEW r \in Runs, Submit(t, r) \/ Cancel(t, r, "user_requested")
      PROVE  SlotGoes(s, d)
  BY <1>3, <1>9 DEF Submit, Cancel
<1>10. ASSUME NEW t \in Services, NEW r \in Runs, Accept(t, r) PROVE SlotGoes(s, d)
  BY <1>4, <1>10 DEF Accept, Up
<1>11. ASSUME NEW t \in Services, NEW e \in Drainers, LookAgain(t, e) \/ TimeOut(t, e)
       PROVE  SlotGoes(s, d)
  BY <1>3, <1>4, <1>11, LookAgainFrame, TimeOutFrame
<1>12. ASSUME NEW r \in Runs, Expire(r) PROVE SlotGoes(s, d)
  BY <1>3, <1>12 DEF Expire
<1>13. CASE UNCHANGED runsVars
  BY <1>3, <1>13 DEF runsVars
<1> QED
  BY <1>5, <1>6, <1>7, <1>8, <1>9, <1>10, <1>11, <1>12, <1>13 DEF RunsNext, Drain, Turn

\* Nobody takes the lease of a run on which a drainer works.
LEMMA LeaseKept ==
    ASSUME RunsIInv, WorkersHold, ~stalls, [RunsNext]_runsVars, NEW r \in Runs,
           NEW s \in Services, NEW d \in Drainers, Works(s, d, r), run[r].st = "running",
           LeaseMoves(r)
    PROVE  lease'[r] = lease[r]
<1>1. /\ lease \in [Runs -> LeaseRow] /\ run[r] \in RunRow /\ run[r].ver \in Nat
      /\ run \in [Runs -> RunRow] /\ drainer[s][d] \in Slot
  BY Counters DEF RunsIInv, TypesOK, RowTypes, DrainerTypes
<1>2. ~Closed(r) /\ Guarded(s, d, r) /\ HeldOK(s, d, r)
  BY StateNames DEF WorkersHold, HeldOK, Closed
<1>3. run'[r] = run[r]
  BY DEF LeaseMoves
<1>4. ASSUME UNCHANGED lease PROVE lease'[r] = lease[r]
  BY <1>4
<1>5. ASSUME NEW q \in Runs, run'[q].ver = run[q].ver + 1, NEW l, lease' = [lease EXCEPT ![q] = l]
      PROVE  lease'[r] = lease[r]
  BY <1>1, <1>3, <1>5
<1>6. ASSUME NEW t \in Services, NEW e \in Drainers, Claim(t, e) PROVE lease'[r] = lease[r]
  <2>1. PICK q \in Runs : run' = Moved(q, "running")
                         /\ lease' = [lease EXCEPT ![q] = [by |-> t, live |-> TRUE]]
    BY <1>6 DEF Claim
  <2>2. run'[q].ver = run[q].ver + 1
    BY <1>1, <2>1 DEF Moved, RunRow
  <2> QED BY <1>5, <2>1, <2>2
<1>7. ASSUME NEW t \in Services, NEW e \in Drainers, Finalize(t, e) PROVE lease'[r] = lease[r]
  <2> DEFINE q == drainer[t][e].r
  <2>1. CASE run[q].st \notin Terminal /\ Holds(t, q)
    <3>1. /\ \E st : run' = [Moved(q, st) EXCEPT ![q].author = t]
          /\ lease' = [lease EXCEPT ![q] = NoLease]
      BY <1>7, <2>1, SMTT(30) DEF Finalize
    <3>2. q \in Runs
      BY <1>7 DEF RunsIInv, TypesOK, SlotsOK, SlotOK, Finalize, At, Working
    <3> HIDE DEF q
    <3>3. run'[q].ver = run[q].ver + 1
      BY <1>1, <3>1, <3>2 DEF Moved, RunRow
    <3> QED BY <1>5, <3>1, <3>2, <3>3
  <2>2. CASE ~(run[q].st \notin Terminal /\ Holds(t, q))
    BY <1>7, <2>2 DEF Finalize
  <2> QED BY <2>1, <2>2
<1>8. ASSUME NEW t \in Services, NEW q \in Runs, NEW why, Cancel(t, q, why)
      PROVE  lease'[r] = lease[r]
  <2>1. run'[q].ver = run[q].ver + 1
    BY <1>1, <1>8 DEF Cancel, Moved, RunRow
  <2> QED BY <1>5, <1>8, <2>1 DEF Cancel
<1>9. ASSUME NEW t \in Services, NEW e \in Drainers, TimeOut(t, e) PROVE lease'[r] = lease[r]
  <2>1. drainer[t][e].r \in Runs
    BY <1>9 DEF RunsIInv, TypesOK, SlotsOK, SlotOK, TimeOut, At, Working
  <2> QED BY <1>8, <1>9, <2>1 DEF TimeOut
<1>10. ASSUME NEW t \in Services, Reconcile(t) PROVE lease'[r] = lease[r]
  <2>1. PICK c \in found[t] :
          IF run[c.r].st = c.st /\ run[c.r].ver = c.ver
          THEN /\ run' = [Moved(c.r, Classify(c)) EXCEPT
                             ![c.r].rec = @ + IF Classify(c) = "queued" THEN 1 ELSE 0]
               /\ lease' = [lease EXCEPT ![c.r] = NoLease]
          ELSE UNCHANGED <<run, lease>>
    BY <1>10 DEF Reconcile
  <2>2. c.r \in Runs
    BY DEF RunsIInv, TypesOK, ServiceTypes, Candidate
  <2>3. CASE run[c.r].st = c.st /\ run[c.r].ver = c.ver
    <3>1. run'[c.r].ver = run[c.r].ver + 1
      BY <1>1, <2>1, <2>2, <2>3 DEF Moved, RunRow
    <3> QED BY <1>5, <2>1, <2>2, <2>3, <3>1
  <2> QED BY <2>1, <2>3
<1>11. ASSUME NEW t \in Services, NEW e \in Drainers, Release(t, e) PROVE lease'[r] = lease[r]
  <2>1. drainer[t][e].pc = "release" /\ HeldOK(t, e, r)
    BY <1>11 DEF Release, At, WorkersHold
  <2>2. drainer[t][e].r # r
    BY <1>2, <2>1 DEF HeldOK
  <2> QED BY <1>11, <2>2 DEF Release
<1>12. ASSUME NEW t \in Services, NEW e \in Drainers, BeatRenew(t, e) PROVE lease'[r] = lease[r]
  <2>1. lease[r].live = TRUE
    BY <1>2 DEF Guarded
  <2> DEFINE q == drainer[t][e].r
             mine == /\ run[q].ver = drainer[t][e].beat
                     /\ run[q].st \in {"running", "cancelling"}
                     /\ lease[q].by = t
  <2>2. lease' = [lease EXCEPT ![q].live = @ \/ mine]
    BY <1>12 DEF BeatRenew
  <2> HIDE DEF mine
  <2>3. CASE q = r
    <3>1. lease'[r] = [lease[r] EXCEPT !.live = TRUE]
      BY <1>1, <2>1, <2>2, <2>3
    <3> QED BY <1>1, <2>1, <3>1 DEF LeaseRow
  <2>4. CASE q # r
    BY <2>2, <2>4
  <2> QED BY <2>3, <2>4
<1>13. ASSUME NEW q \in Runs, Expire(q) PROVE lease'[r] = lease[r]
  <2>1. CASE q = r
    <3>1. service[s] = "up" /\ s # NoService
      BY Numbers DEF RunsIInv, TypesOK, SlotsOK, Works, Working
    <3>2. /\ lease[r].by = s /\ drainer[s][d].r = r
          /\ drainer[s][d].pc \in {"begin", "refuse", "finalize"} \/ drainer[s][d].beat >= 0
      BY <1>1, <1>2 DEF Guarded, Works, Working
    <3>3. Kept(r)
      BY <3>1, <3>2 DEF Kept, Up
    <3> QED BY <1>13, <2>1, <3>3 DEF Expire
  <2>2. CASE q # r
    BY <1>13, <2>2 DEF Expire
  <2> QED BY <2>1, <2>2
<1>14. ASSUME NEW t \in Services,
              \/ Start(t) \/ CountReceipts(t) \/ Started(t) \/ Crash(t)
              \/ \E q \in Runs : Submit(t, q) \/ Accept(t, q)
              \/ \E e \in Drainers : QuietTurn(t, e) \/ Act(t, e) \/ Acted(t, e)
       PROVE  UNCHANGED lease
  <2>1. CASE Start(t) \/ CountReceipts(t) \/ Started(t) \/ Crash(t)
    BY <2>1 DEF Start, CountReceipts, Started, Crash
  <2>2. ASSUME NEW q \in Runs, Submit(t, q) \/ Accept(t, q) PROVE UNCHANGED lease
    BY <2>2 DEF Submit, Accept
  <2>3. ASSUME NEW e \in Drainers, QuietTurn(t, e) PROVE UNCHANGED lease
    BY <2>3, QuietFrame DEF RowsStay
  <2>4. ASSUME NEW e \in Drainers, Act(t, e) \/ Acted(t, e) PROVE UNCHANGED lease
    BY <2>4 DEF Act, Acted
  <2> QED BY <1>14, <2>1, <2>2, <2>3, <2>4
<1>15. CASE UNCHANGED runsVars
  BY <1>15 DEF runsVars
<1> QED
  BY <1>4, <1>6, <1>7, <1>8, <1>9, <1>10, <1>11, <1>12, <1>13, <1>14, <1>15
  DEF RunsNext, Drain, QuietTurn

LEMMA WorkersStep ==
    ASSUME RunsIInv, WorkersHold, AbandonedOK, ~stalls, [RunsNext]_runsVars,
           NEW r \in Runs, NEW s \in Services, NEW d \in Drainers
    PROVE  HeldOK(s, d, r)'
<1> DEFINE x == drainer[s][d]
           y == drainer'[s][d]
<1>1. /\ TypesOK /\ RowStep(r) /\ HeldOK(s, d, r) /\ SlotGoes(s, d)
      /\ lease \in [Runs -> LeaseRow] /\ run[r].ver \in Nat /\ x \in Slot
      /\ drainer \in [Services -> [Drainers -> Slot]]
  BY RunsInductive, SlotsGo, Counters DEF RunsIInv, TypesOK, RowTypes, DrainerTypes, WorkersHold
<1>2. CASE Closed(r)
  <2>1. Closed(r)'
    BY <1>1, <1>2, ClosedStays
  <2> QED BY <2>1 DEF HeldOK, Closed
<1>3. CASE Rests(s, d)
  BY <1>3 DEF Rests, HeldOK, Works, Working
<1>4. CASE GoesOn(s, d) /\ ~Closed(r)
  <2>1. CASE ~Works(s, d, r)
    <3>1. x.pc = "release" => x.r # r
      BY <1>1, <1>4 DEF HeldOK
    <3> QED BY <1>4, <2>1, <3>1 DEF GoesOn, HeldOK, Works
  <2>2. CASE Works(s, d, r)
    <3>1. run[r].st = "running" /\ Guarded(s, d, r) /\ x.r = r /\ x.pc # "release"
      BY <1>1, <1>4, <2>2 DEF HeldOK, Works, Working
    <3>2. ~Created(r) /\ \A t \in Services : ~Claimed(r, t)
      BY <3>1 DEF Created, Claimed
    <3>3. ASSUME NEW t \in Services, Ended(r, t) PROVE Closed(r)'
      BY <3>3 DEF Ended, Closed
    <3>4. CASE Cancelled(r)
      BY <3>1, <3>4 DEF Cancelled, HeldOK, Closed
    <3>5. CASE Recovered(r)
      BY <2>2, <3>1, <3>5 DEF Recovered, AbandonedOK
    <3>6. CASE LeaseMoves(r) \/ ReceiptMoves(r)
      <4>1. run'[r] = run[r] /\ lease'[r] = lease[r]
        BY <2>2, <3>1, <3>6, LeaseKept DEF LeaseMoves, ReceiptMoves
      <4>2. y.r = r /\ y.pc # "release"
        BY <1>4, <3>1 DEF GoesOn
      <4>3. y.pc \in {"engine", "acting"} => y.beat \in {0, run[r].ver}
        BY <1>4, <3>1 DEF GoesOn, Guarded
      <4> QED BY <3>1, <4>1, <4>2, <4>3 DEF HeldOK, Guarded
    <3> QED BY <1>1, <3>2, <3>3, <3>4, <3>5, <3>6 DEF RowStep, HeldOK, Closed
  <2> QED BY <2>1, <2>2
<1>5. CASE Claim(s, d)
  <2>1. PICK q \in Runs :
          /\ run' = Moved(q, "running")
          /\ lease' = [lease EXCEPT ![q] = [by |-> s, live |-> TRUE]]
          /\ drainer' = [drainer EXCEPT ![s][d] = [Free EXCEPT !.pc = "begin", !.r = q]]
    BY <1>5 DEF Claim
  <2>2. y.pc = "begin" /\ y.r = q
    BY <1>1, <2>1 DEF Free
  <2>3. CASE r = q
    <3>1. run'[r].st = "running" /\ lease'[r] = [by |-> s, live |-> TRUE]
      BY <1>1, <2>1, <2>3 DEF Moved, TypesOK, RowTypes, RunRow
    <3> QED BY <2>2, <3>1 DEF HeldOK, Guarded
  <2>4. CASE r # q
    BY <2>2, <2>4 DEF HeldOK, Works
  <2> QED BY <2>3, <2>4
<1>6. CASE Finalize(s, d) /\ x.pc = "finalize" /\ ~Closed(r)
  <2>1. y.pc = "release" /\ y.r = x.r
    BY <1>1, <1>6 DEF Finalize, Slot
  <2>2. CASE x.r = r
    <3>1. Works(s, d, r) /\ run[r].st = "running" /\ Guarded(s, d, r)
      BY <1>1, <1>6, <2>2 DEF HeldOK, Works, Working
    <3>2. run[r].st \notin Terminal /\ Holds(s, r)
      BY <3>1, StateNames DEF Guarded, Holds
    <3>3. run' = [Moved(r, Verdict(r, x.result)) EXCEPT ![r].author = s]
      BY <1>6, <2>2, <3>2 DEF Finalize
    <3>4. x.result \in {"completed", "stopped", "failed"}
      BY <1>1, <1>6 DEF TypesOK, SlotsOK, SlotOK, Slot, Results
    <3>5. run'[r].st = x.result
      BY <1>1, <3>1, <3>3 DEF Moved, Verdict, TypesOK, RowTypes, RunRow
    <3>6. Closed(r)'
      BY <3>4, <3>5 DEF Closed, Terminal
    <3> QED BY <3>6 DEF HeldOK, Closed
  <2>3. CASE x.r # r
    BY <2>1, <2>3 DEF HeldOK, Works
  <2> QED BY <2>2, <2>3
<1> QED
  BY <1>1, <1>2, <1>3, <1>4, <1>5, <1>6 DEF SlotGoes

\* A worker of the next state has worked on its run, or claims it in this step.
LEMMA NewWorkers ==
    ASSUME RunsIInv, WorkersHold, [RunsNext]_runsVars, NEW r \in Runs,
           NEW s \in Services, NEW d \in Drainers, Works(s, d, r)'
    PROVE  Works(s, d, r) \/ run'[r].ver = run[r].ver + 1
<1>1. SlotGoes(s, d) /\ run \in [Runs -> RunRow] /\ drainer \in [Services -> [Drainers -> Slot]]
  BY SlotsGo DEF RunsIInv, TypesOK, RowTypes, DrainerTypes
<1>2. CASE GoesOn(s, d)
  BY <1>2 DEF GoesOn, Works
<1>3. CASE Rests(s, d)
  BY <1>3 DEF Rests, Works, Working
<1>4. CASE Claim(s, d)
  <2>1. PICK q \in Runs :
          /\ run' = Moved(q, "running")
          /\ drainer' = [drainer EXCEPT ![s][d] = [Free EXCEPT !.pc = "begin", !.r = q]]
    BY <1>4 DEF Claim
  <2>2. r = q
    BY <1>1, <2>1 DEF Free, Works
  <2> QED BY <1>1, <2>1, <2>2 DEF Moved, RunRow
<1>5. CASE Finalize(s, d) /\ drainer[s][d].pc = "finalize"
  <2>1. drainer'[s][d].pc = "release"
    BY <1>1, <1>5 DEF Finalize, Slot
  <2> QED BY <2>1 DEF Works, Working
<1> QED BY <1>1, <1>2, <1>3, <1>4, <1>5 DEF SlotGoes

\* Where the candidates of the next state come from.
FoundBefore(s, c) ==
    \E x \in found[s] :
        /\ x.r = c.r /\ x.st = c.st /\ x.ver = c.ver
        /\ c.acts = "none" => x.acts = "none" \/ (receipt[c.r] = "none" /\ UNCHANGED receipt)
FoundNow(c) ==
    /\ UNCHANGED <<run, receipt, drainer>>
    /\ c.acts = "unread" /\ ~lease[c.r].live
LEMMA FoundFrom ==
    ASSUME RunsIInv, [RunsNext]_runsVars, NEW s \in Services, NEW c \in found'[s]
    PROVE  FoundBefore(s, c) \/ FoundNow(c)
<1>1. found \in [Services -> SUBSET Candidate]
  BY DEF RunsIInv, TypesOK, ServiceTypes
<1>2. ASSUME c \in found[s] PROVE FoundBefore(s, c)
  BY <1>2 DEF FoundBefore
<1>3. ASSUME NEW t \in Services, Start(t) PROVE FoundBefore(s, c) \/ FoundNow(c)
  <2>1. CASE s = t
    <3>1. PICK r \in Candidates :
            c = [r |-> r, st |-> run[r].st, ver |-> run[r].ver, rec |-> run[r].rec, acts |-> "unread"]
      BY <1>1, <1>3, <2>1 DEF Start
    <3> QED BY <1>3, <3>1 DEF Start, FoundNow, Candidates
  <2>2. CASE s # t
    BY <1>1, <1>2, <1>3, <2>2 DEF Start
  <2> QED BY <2>1, <2>2
<1>4. ASSUME NEW t \in Services, CountReceipts(t) PROVE FoundBefore(s, c) \/ FoundNow(c)
  <2>1. PICK x \in found[t] :
            found' = [found EXCEPT ![t] = (@ \ {x}) \cup
                {[x EXCEPT !.acts = IF receipt[x.r] = "none" THEN "none" ELSE "some"]}]
    BY <1>4 DEF CountReceipts
  <2>2. CASE s = t /\ c \notin found[s]
    <3>1. c = [x EXCEPT !.acts = IF receipt[x.r] = "none" THEN "none" ELSE "some"] /\ x \in Candidate
      BY <1>1, <2>1, <2>2
    <3>2. c.r = x.r /\ c.st = x.st /\ c.ver = x.ver /\ (c.acts = "none" => receipt[c.r] = "none")
      BY <3>1 DEF Candidate
    <3> QED BY <1>4, <2>2, <3>2 DEF FoundBefore, CountReceipts
  <2>3. CASE ~(s = t /\ c \notin found[s])
    BY <1>1, <1>2, <2>1, <2>3
  <2> QED BY <2>2, <2>3
<1>5. ASSUME NEW t \in Services, Reconcile(t) \/ Crash(t) PROVE c \in found[s]
  <2>1. found'[s] \subseteq found[s]
    BY <1>1, <1>5 DEF Reconcile, Crash
  <2> QED BY <2>1
<1>6. ASSUME UNCHANGED found PROVE FoundBefore(s, c)
  BY <1>2, <1>6
<1>7. ASSUME NEW t \in Services,
             \/ Started(t)
             \/ \E r \in Runs : Submit(t, r) \/ Accept(t, r) \/ Cancel(t, r, "user_requested")
             \/ \E d \in Drainers : Turn(t, d) \/ LookAgain(t, d) \/ TimeOut(t, d)
      PROVE  UNCHANGED found
  BY <1>7, TurnFrame, LookAgainFrame, TimeOutFrame, CancelFrame DEF Started, Submit, Accept
<1>8. ASSUME NEW r \in Runs, Expire(r) PROVE UNCHANGED found
  BY <1>8 DEF Expire
<1>9. CASE UNCHANGED runsVars
  BY <1>6, <1>9 DEF runsVars
<1> QED BY <1>2, <1>3, <1>4, <1>5, <1>6, <1>7, <1>8, <1>9 DEF RunsNext, Drain, Turn

LEMMA FreshStep ==
    ASSUME RunsIInv, WorkersHold, FreshOK, AbandonedOK, [RunsNext]_runsVars
    PROVE  FreshOK'
<1> SUFFICES ASSUME NEW r \in Runs, run'[r].st \in {"none", "queued"} PROVE receipt'[r] = "none"
  BY DEF FreshOK
<1>1. RowStep(r)
  BY RunsInductive
<1>2. CASE Created(r)
  BY <1>2 DEF Created, ReceiptStays, FreshOK
<1>3. \A s \in Services : ~Claimed(r, s) /\ ~Ended(r, s)
  BY StateNames DEF Claimed, Ended
<1>4. ~Cancelled(r)
  BY DEF Cancelled
<1>5. CASE Recovered(r)
  BY <1>5 DEF Recovered, ReceiptStays, AbandonedOK
<1>6. CASE LeaseMoves(r)
  BY <1>6 DEF LeaseMoves, ReceiptStays, FreshOK
<1>7. CASE ReceiptMoves(r)
  BY <1>7, StateNames DEF ReceiptMoves, WorkersHold, HeldOK, Closed
<1> QED BY <1>1, <1>2, <1>3, <1>4, <1>5, <1>6, <1>7 DEF RowStep

LEMMA AbandonedStep ==
    ASSUME RunsIInv, WorkersHold, FreshOK, AbandonedOK, [RunsNext]_runsVars
    PROVE  AbandonedOK'
<1> SUFFICES ASSUME NEW s \in Services, NEW c \in found'[s], c.st = "running",
                    c.ver = run'[c.r].ver
             PROVE  /\ \A t \in Services, d \in Drainers : ~Works(t, d, c.r)'
                    /\ c.acts = "none" => receipt'[c.r] = "none"
  BY DEF AbandonedOK
<1>1. RunsIInv' /\ \A r \in Runs : RowStep(r)
  BY RunsInductive
<1>2. c \in Candidate /\ c.r \in Runs /\ c.ver \in Nat
  BY <1>1 DEF RunsIInv, TypesOK, ServiceTypes, Candidate
<1>3. /\ run[c.r].ver \in Nat /\ run[c.r].ver <= c.ver
      /\ run[c.r].ver = c.ver => run'[c.r] = run[c.r] \/ run[c.r].st = "none"
  BY <1>1, <1>2, VersionsRise DEF RunsIInv, TypesOK
<1>4. CASE FoundBefore(s, c)
  <2>1. PICK x \in found[s] :
          /\ x.r = c.r /\ x.st = c.st /\ x.ver = c.ver
          /\ c.acts = "none" => x.acts = "none" \/ (receipt[c.r] = "none" /\ UNCHANGED receipt)
    BY <1>4 DEF FoundBefore
  <2>2. run[c.r].ver = c.ver
    BY <1>2, <1>3, <2>1 DEF RunsIInv, FoundOK
  <2>3. /\ \A t \in Services, d \in Drainers : ~Works(t, d, c.r)
        /\ x.acts = "none" => receipt[c.r] = "none"
    BY <2>1, <2>2 DEF AbandonedOK
  <2>4. \A t \in Services, d \in Drainers : ~Works(t, d, c.r)'
    <3>1. run'[c.r].ver # run[c.r].ver + 1
      BY <1>2, <2>2
    <3> QED BY <1>2, <2>3, <3>1, NewWorkers
  <2>5. receipt[c.r] = "none" => receipt'[c.r] = "none"
    <3>1. ~ReceiptMoves(c.r)
      BY <2>3 DEF ReceiptMoves
    <3> QED BY <1>1, <1>2, <3>1
            DEF RowStep, Created, Claimed, Ended, Cancelled, Recovered, LeaseMoves, ReceiptStays
  <2> QED BY <2>1, <2>3, <2>4, <2>5
<1>5. CASE FoundNow(c)
  <2>1. run[c.r].st = "running"
    <3>1. run'[c.r].st = "running"
      BY <1>1, <1>2 DEF RunsIInv, FoundOK
    <3> QED BY <1>5, <3>1 DEF FoundNow
  <2>2. ASSUME NEW t \in Services, NEW d \in Drainers, Works(t, d, c.r)' PROVE FALSE
    <3>1. Works(t, d, c.r)
      BY <1>5, <2>2 DEF FoundNow, Works
    <3>2. Guarded(t, d, c.r)
      BY <1>2, <2>1, <3>1, StateNames DEF WorkersHold, HeldOK, Closed
    <3> QED BY <1>5, <3>2 DEF FoundNow, Guarded
  <2> QED BY <1>5, <2>2 DEF FoundNow
<1> QED BY <1>4, <1>5, FoundFrom

LEMMA StallsStay == [RunsNext]_runsVars => UNCHANGED stalls
<1> SUFFICES ASSUME [RunsNext]_runsVars PROVE UNCHANGED stalls
  OBVIOUS
<1>1. ASSUME NEW s \in Services,
             Start(s) \/ CountReceipts(s) \/ Reconcile(s) \/ Started(s) \/ Crash(s)
      PROVE  UNCHANGED stalls
  BY <1>1 DEF Start, CountReceipts, Reconcile, Started, Crash
<1>2. ASSUME NEW s \in Services, NEW r \in Runs,
             Submit(s, r) \/ Accept(s, r) \/ Cancel(s, r, "user_requested")
      PROVE  UNCHANGED stalls
  BY <1>2 DEF Submit, Accept, Cancel
<1>3. ASSUME NEW s \in Services, NEW d \in Drainers, Turn(s, d) \/ LookAgain(s, d) \/ TimeOut(s, d)
      PROVE  UNCHANGED stalls
  BY <1>3, TurnFrame, LookAgainFrame, TimeOutFrame
<1>5. ASSUME NEW r \in Runs, Expire(r) PROVE UNCHANGED stalls
  BY <1>5 DEF Expire
<1>6. CASE UNCHANGED runsVars
  BY <1>6 DEF runsVars
<1> QED BY <1>1, <1>2, <1>3, <1>5, <1>6 DEF RunsNext, Drain, Turn

LEMMA HoldInductive ==
    ASSUME HoldIInv, [RunsNext]_runsVars
    PROVE  HoldIInv'
<1>1. RunsIInv'
  BY RunsInductive DEF HoldIInv
<1>2. stalls' = stalls
  BY StallsStay
<1>3. CASE stalls
  BY <1>1, <1>2, <1>3 DEF HoldIInv
<1>4. CASE ~stalls
  <2>1. RunsIInv /\ WorkersHold /\ FreshOK /\ AbandonedOK
    BY <1>4 DEF HoldIInv
  <2>2. WorkersHold'
    BY <1>4, <2>1, WorkersStep DEF WorkersHold
  <2>3. FreshOK' /\ AbandonedOK'
    BY <2>1, FreshStep, AbandonedStep
  <2> QED BY <1>1, <2>2, <2>3 DEF HoldIInv
<1> QED BY <1>3, <1>4

LEMMA HoldStart ==
    ASSUME RunsInit
    PROVE  HoldIInv
<1>1. WorkersHold
  <2>1. \A s \in Services, d \in Drainers : drainer[s][d] = Free
    BY DEF RunsInit
  <2> QED BY <2>1, IdleSlots DEF WorkersHold, HeldOK, Works, Working
<1>2. FreshOK /\ AbandonedOK
  BY DEF RunsInit, FreshOK, AbandonedOK
<1> QED BY <1>1, <1>2, RunsStart DEF HoldIInv

\* As long as no process stalls, a drainer that works on a running run holds its lease
\* live, and no start has read that run as abandoned at its present version.
THEOREM WorkersHoldLeases == RunsSpec => []HoldIInv
<1>1. RunsInit => HoldIInv
  BY HoldStart
<1>2. HoldIInv /\ [RunsNext]_runsVars => HoldIInv'
  BY HoldInductive
<1> QED BY <1>1, <1>2, PTL DEF RunsSpec

\* What a step may do to a row.
RowKeeps(r) ==
    /\ EndKept(r)
    /\ claims'[r].n > claims[r].n /\ ~stalls => receipt[r] = "none"

LEMMA StepKeeps ==
    ASSUME HoldIInv, [RunsNext]_runsVars, NEW r \in Runs
    PROVE  RowKeeps(r)
<1>1. RowStep(r) /\ claims[r].n \in Nat
  BY RunsInductive DEF HoldIInv, RunsIInv, TypesOK, RowTypes, ClaimCount
<1>2. CASE Created(r)
  BY <1>1, <1>2, StateNames DEF Created, RowKeeps, EndKept, SameClaims
<1>3. ASSUME NEW s \in Services, Claimed(r, s) PROVE RowKeeps(r)
  BY <1>1, <1>3, StateNames DEF Claimed, RowKeeps, EndKept, HoldIInv, FreshOK
<1>4. ASSUME NEW s \in Services, Ended(r, s) PROVE RowKeeps(r)
  BY <1>1, <1>4, StateNames DEF Ended, RowKeeps, EndKept, SameClaims, Transitions
<1>5. CASE Cancelled(r)
  BY <1>1, <1>5, StateNames DEF Cancelled, RowKeeps, EndKept, SameClaims
<1>6. CASE Recovered(r)
  BY <1>1, <1>6, StateNames DEF Recovered, RowKeeps, EndKept, SameClaims, Active, Transitions
<1>7. CASE LeaseMoves(r) \/ ReceiptMoves(r)
  BY <1>1, <1>7 DEF LeaseMoves, ReceiptMoves, RowKeeps, EndKept, SameClaims
<1> QED BY <1>1, <1>2, <1>3, <1>4, <1>5, <1>6, <1>7 DEF RowStep

\* Ended runs stay as they are, against late finalizations, cancellations, timeouts and
\* recoveries; and without stalls an attempt starts only when no action of its run was
\* reserved.
THEOREM EndsAreKept == RunsSpec => NothingRepeated
<1>1. HoldIInv /\ [RunsNext]_runsVars => [\A r \in Runs :
          /\ EndKept(r)
          /\ claims'[r].n > claims[r].n /\ ~stalls => receipt[r] = "none"]_runsVars
  BY StepKeeps DEF RowKeeps
<1> QED BY <1>1, WorkersHoldLeases, PTL DEF RunsSpec, NothingRepeated

-----------------------------------------------------------------------------
(* The gateway: what the state holds *)

\* The values of requests, records, children and handles.
Digests == {r.digest : r \in RemoteRequests}
Faults == {r.fault : r \in RemoteRequests} \cup {"none"}
ExecutionResults == Definite \cup {"none", "unknown_outcome"}
Messages == [op : {"submit", "get", "cancel"}, id : Executions, digest : Digests, fault : Faults, since : Nat]
Records == [digest : Digests \cup {"none"}, child : Nat, result : ExecutionResults]
ChildRows == [id : Executions, digest : Digests, life : Nat, verbose : BOOLEAN, running : BOOLEAN, stubborn : BOOLEAN,
              wrote : {"none", "succeeded"}, code : {0, 1}, result : ExecutionResults, closed : BOOLEAN, dir : BOOLEAN,
              by : Messages \cup {NoMessage}]
OwnHandles == [id : Executions, digest : Digests, since : Nat, result : ExecutionResults, told : SUBSET (ExecutionResults \ {"none"})]
Handles == OwnHandles \cup {NoHandle}

\* What a child and its handle are like, whichever life of the gateway it is from.
ChildSound(c) ==
    /\ c.life > 0
    /\ c.running => c.wrote = "none" /\ (c.result # "none" => c.stubborn /\ c.result = "unknown_outcome")
    /\ c.result = "succeeded" => c.wrote = "succeeded" /\ c.code = 0
    /\ c.closed => /\ c.running => c.stubborn /\ c.result = "unknown_outcome"
                   /\ c.dir => c.stubborn /\ c.wrote # "none"
    /\ c.result # "cancelled" => c.by = NoMessage
    /\ c.result = "cancelled" /\ c.by.since = c.life => c.by.digest = c.digest

\* What no step takes back of a child.
ChildGoesOn(c, d) ==
    /\ d \in ChildRows
    /\ d.id = c.id /\ d.digest = c.digest /\ d.life = c.life /\ d.verbose = c.verbose /\ d.stubborn = c.stubborn
    /\ ~c.running => ~d.running /\ d.wrote = c.wrote /\ d.code = c.code
    /\ c.result # "none" => d.result = c.result
    /\ c.closed => d.closed

\* What a record says of its child.
RecordFits(e, r, ch) ==
    /\ r.child \in DOMAIN ch /\ ch[r.child].id = e /\ ch[r.child].life = life /\ ch[r.child].digest = r.digest
    /\ (r.result # "none") <=> ch[r.child].closed
    /\ IF ch[r.child].result = "none" THEN r.result = "none" ELSE r.result = BoundResult(ch[r.child])

\* The records of this life of the gateway, and the children of all lives.
TablesFit(recs, ch) ==
    /\ recs \in [Executions -> Records] /\ ch \in Seq(ChildRows)
    /\ \A k \in DOMAIN ch : /\ ChildSound(ch[k]) /\ ch[k].life <= life
                            /\ ch[k].life = life => recs[ch[k].id].child = k
    /\ \A j, k \in DOMAIN ch : ch[j].id = ch[k].id /\ ch[j].life = ch[k].life => j = k
    /\ \A e \in Executions : recs[e] # NoRecord => RecordFits(e, recs[e], ch)
    /\ IsFiniteSet({e \in Executions : recs[e] # NoRecord})
    /\ Cardinality({e \in Executions : recs[e] # NoRecord}) <= MaxRecords

\* What a handle, a request and a caller with a request know of them.
EndedWell(h, ch) ==
    \E k \in DOMAIN ch : /\ ch[k].id = h.id /\ ch[k].digest = h.digest /\ ~ch[k].running
                         /\ ch[k].wrote = "succeeded" /\ ch[k].code = 0

HandleFits(h, recs, ch) ==
    /\ h.told \cap Definite \subseteq {h.result}
    /\ h.since <= life
    /\ h.since = life => /\ h.id \in Executions /\ recs[h.id] # NoRecord /\ recs[h.id].digest = h.digest
                         /\ h.result # "none" => recs[h.id].result = h.result
    /\ "succeeded" \in h.told => EndedWell(h, ch)

MessageFits(m, recs) ==
    /\ m.since <= life /\ (m.op = "submit" => m.since = life)
    /\ m.op # "submit" /\ m.since = life => recs[m.id] # NoRecord /\ recs[m.id].digest = m.digest

CallFits(m, h) ==
    m # NoMessage => IF m.op = "submit" THEN h = NoHandle
                     ELSE /\ h # NoHandle /\ h.id = m.id /\ h.digest = m.digest /\ h.since = m.since /\ h.result = "none"

\* The inductive invariant of executions on a gateway.
WgInv ==
    /\ life \in Nat \ {0}
    /\ call \in [Remotes -> Messages \cup {NoMessage}] /\ handle \in [Remotes -> Handles] /\ lateCalls \subseteq Messages
    /\ TablesFit(record, child)
    /\ \A c \in Remotes : /\ HandleFits(handle[c], record, child) /\ CallFits(call[c], handle[c])
                          /\ call[c] # NoMessage => MessageFits(call[c], record)
    /\ \A m \in lateCalls : MessageFits(m, record)

-----------------------------------------------------------------------------
(* The gateway: children *)

\* No request is the absence of one.
LEMMA ToNone == NoMessage \notin Messages /\ NoHandle \in Handles /\ NoRecord \in Records /\ NoMessage.since = 0
  BY DEF NoMessage, Messages, NoHandle, Handles, NoRecord, Records, ExecutionResults

\* What the signals leave of a child.
LEMMA TerminatedRows ==
    ASSUME NEW c \in ChildRows, ChildSound(c), NEW status \in {"timed_out", "cancelled"}, c.running, ~c.closed,
           NEW d \in Terminated(c, status)
    PROVE  /\ ChildGoesOn(c, d) /\ ChildSound(d) /\ d.result # "none" /\ ~d.closed /\ (d.running => d.stubborn)
           /\ d.result = "cancelled" => d.by = NoMessage /\ status = "cancelled"
<1>1. CASE c.result # "none"
  <2>1. d = c
    BY <1>1 DEF Terminated
  <2> QED BY <1>1, <2>1 DEF ChildSound, ChildGoesOn
<1>2. CASE c.result = "none" /\ c.stubborn
  <2>1. d = [c EXCEPT !.result = "unknown_outcome"]
    BY <1>2 DEF Terminated
  <2>2. /\ d \in ChildRows /\ d.id = c.id /\ d.digest = c.digest /\ d.life = c.life /\ d.verbose = c.verbose
        /\ d.stubborn = c.stubborn /\ d.running = c.running /\ d.wrote = c.wrote /\ d.code = c.code
        /\ d.result = "unknown_outcome" /\ d.closed = c.closed /\ d.dir = c.dir /\ d.by = c.by
    BY <2>1 DEF ChildRows, ExecutionResults, Definite
  <2> QED BY <1>2, <2>2 DEF ChildSound, ChildGoesOn
<1>3. CASE c.result = "none" /\ ~c.stubborn
  <2>1. PICK v \in {"none", "succeeded"} : d = [c EXCEPT !.running = FALSE, !.code = 1, !.result = status, !.wrote = v]
    <3>1. \A v : [c EXCEPT !.running = FALSE, !.code = IF c.running THEN 1 ELSE @, !.result = status, !.wrote = v]
                 = [c EXCEPT !.running = FALSE, !.code = 1, !.result = status, !.wrote = v]
      BY DEF ChildRows
    <3>2. c.wrote = "none"
      BY DEF ChildSound
    <3> QED BY <1>3, <3>1, <3>2 DEF Terminated
  <2>2. /\ d \in ChildRows /\ d.id = c.id /\ d.digest = c.digest /\ d.life = c.life /\ d.verbose = c.verbose
        /\ d.stubborn = c.stubborn /\ d.running = FALSE /\ d.wrote = v /\ d.code = 1
        /\ d.result = status /\ d.closed = c.closed /\ d.dir = c.dir /\ d.by = c.by
    BY <2>1 DEF ChildRows, ExecutionResults, Definite
  <2>3. c.by = NoMessage /\ d.life > 0
    BY <1>3, <2>2 DEF ChildSound
  <2> HIDE <2>1
  <2> QED BY <1>3, <2>2, <2>3, ToNone DEF ChildSound, ChildGoesOn
<1> QED BY <1>1, <1>2, <1>3

\* What a poll leaves of one.
LEMMA PolledRows ==
    ASSUME NEW c \in ChildRows, ChildSound(c), ~c.closed, NEW d \in Polled(c)
    PROVE  /\ ChildGoesOn(c, d) /\ ChildSound(d) /\ ~d.closed /\ (d.result = "none" => d = c /\ c.running)
           /\ d.result = "cancelled" => c.result = "cancelled"
<1>1. CASE c.result # "none"
  <2>1. d = c
    BY <1>1 DEF Polled
  <2> QED BY <1>1, <2>1 DEF ChildSound, ChildGoesOn
<1>2. CASE c.result = "none" /\ c.running
  <2>1. d = c \/ d \in Terminated(c, "timed_out")
    BY <1>2 DEF Polled
  <2>2. CASE d = c
    BY <1>2, <2>2 DEF ChildSound, ChildGoesOn
  <2>3. CASE d \in Terminated(c, "timed_out")
    BY <1>2, <2>3, TerminatedRows
  <2> QED BY <2>1, <2>2, <2>3
<1>3. CASE c.result = "none" /\ ~c.running
  <2>1. d = [c EXCEPT !.result = FromFile(c)]
    BY <1>3 DEF Polled
  <2>2. /\ FromFile(c) \in {"crashed", "succeeded"}
        /\ FromFile(c) = "succeeded" => c.wrote = "succeeded" /\ c.code = 0
    BY DEF FromFile, ChildRows
  <2>3. /\ d \in ChildRows /\ d.id = c.id /\ d.digest = c.digest /\ d.life = c.life /\ d.verbose = c.verbose
        /\ d.stubborn = c.stubborn /\ d.running = c.running /\ d.wrote = c.wrote /\ d.code = c.code
        /\ d.result = FromFile(c) /\ d.closed = c.closed /\ d.dir = c.dir /\ d.by = c.by
    BY <2>1, <2>2 DEF ChildRows, ExecutionResults, Definite
  <2> QED BY <1>3, <2>2, <2>3 DEF ChildSound, ChildGoesOn
<1> QED BY <1>1, <1>2, <1>3

\* A cancellation polls first; what it ends has a result then.
LEMMA CancelledRows ==
    ASSUME NEW c \in ChildRows, ChildSound(c), ~c.closed, c.result = "none", NEW d \in CancelledChild(c)
    PROVE  /\ ChildGoesOn(c, d) /\ ChildSound(d) /\ ~d.closed /\ d.result # "none" /\ d.by = NoMessage
<1>1. PICK e \in Polled(c) : d \in IF e.result # "none" THEN {e} ELSE Terminated(e, "cancelled")
  BY DEF CancelledChild
<1>2. /\ ChildGoesOn(c, e) /\ ChildSound(e) /\ ~e.closed /\ (e.result = "none" => e = c /\ c.running)
      /\ e.result = "cancelled" => c.result = "cancelled"
  BY PolledRows
<1>3. CASE e.result # "none"
  BY <1>1, <1>2, <1>3 DEF ChildSound
<1>4. CASE e.result = "none"
  <2>1. d \in Terminated(c, "cancelled") /\ c.running
    BY <1>1, <1>2, <1>4
  <2>2. /\ ChildGoesOn(c, d) /\ ChildSound(d) /\ d.result # "none" /\ ~d.closed
        /\ d.result = "cancelled" => d.by = NoMessage
    BY <2>1, TerminatedRows
  <2> QED BY <2>2 DEF ChildSound
<1> QED BY <1>3, <1>4

\* The handle of a child is closed.
LEMMA HandleClosedRows ==
    ASSUME NEW c \in ChildRows, ChildSound(c), NEW d \in HandleClosed(c)
    PROVE  ChildGoesOn(c, d) /\ ChildSound(d) /\ d.closed
<1>1. CASE c.closed
  <2>1. d = c
    BY <1>1 DEF HandleClosed
  <2> QED BY <1>1, <2>1 DEF ChildGoesOn
<1>2. CASE ~c.closed
  <2>1. PICK e \in IF c.running THEN Terminated(c, "cancelled") ELSE {c} : d = [e EXCEPT !.closed = TRUE, !.dir = FALSE]
    BY <1>2 DEF HandleClosed
  <2>2. ChildGoesOn(c, e) /\ ChildSound(e) /\ (e.running => e.stubborn /\ e.result # "none")
    <3>1. CASE c.running
      BY <1>2, <2>1, <3>1, TerminatedRows
    <3>2. CASE ~c.running
      BY <2>1, <3>2 DEF ChildGoesOn
    <3> QED BY <3>1, <3>2
  <2>3. /\ d \in ChildRows /\ d.id = e.id /\ d.digest = e.digest /\ d.life = e.life /\ d.verbose = e.verbose
        /\ d.stubborn = e.stubborn /\ d.running = e.running /\ d.wrote = e.wrote /\ d.code = e.code
        /\ d.result = e.result /\ d.closed = TRUE /\ d.dir = FALSE /\ d.by = e.by
    BY <2>1, <2>2 DEF ChildRows, ChildGoesOn
  <2> HIDE <2>1
  <2> QED BY <2>2, <2>3 DEF ChildSound, ChildGoesOn
<1> QED BY <1>1, <1>2

-----------------------------------------------------------------------------
(* The gateway: the records and their answers *)

\* An answer about an execution says what the record says, or nothing.
Answered(a, e, recs) ==
    \/ a \in {Refused, Uncertain}
    \/ a.as = "ok" /\ recs[e] # NoRecord /\ a.digest = recs[e].digest /\ a.result = recs[e].result

\* What no step within one life takes back of the tables.
TablesMove(recs, ch) ==
    /\ \A k \in DOMAIN child : k \in DOMAIN ch /\ ChildGoesOn(child[k], ch[k])
    /\ \A e \in Executions : record[e] # NoRecord => /\ recs[e] # NoRecord /\ recs[e].digest = record[e].digest
                                                     /\ record[e].result # "none" => recs[e] = record[e]

\* A request is served: the tables move on, and the answer is from them.
ServedWell(e, o) ==
    TablesFit(o.record, o.child) /\ TablesMove(o.record, o.child) /\ Answered(o.answer, e, o.record)

\* The parts of an outcome.
LEMMA OutcomeIs ==
    ASSUME NEW r, NEW ch, NEW a
    PROVE  Outcome(r, ch, a).record = r /\ Outcome(r, ch, a).child = ch /\ Outcome(r, ch, a).answer = a
  BY DEF Outcome

\* The tables stay.
LEMMA NothingMoves ==
    ASSUME TablesFit(record, child)
    PROVE  TablesMove(record, child)
<1>1. \A k \in DOMAIN child : child[k] \in ChildRows
  BY DEF TablesFit
<1> QED BY <1>1 DEF TablesMove, ChildGoesOn

\* One record and its child are written back.
LEMMA PutBack ==
    ASSUME TablesFit(record, child), NEW e \in Executions, record[e] # NoRecord, NEW k \in DOMAIN child, k = record[e].child,
           NEW r \in Records, r.digest = record[e].digest, r.child = k, record[e].result # "none" => r = record[e],
           NEW d \in ChildRows, ChildGoesOn(child[k], d), ChildSound(d), (r.result # "none") <=> d.closed,
           IF d.result = "none" THEN r.result = "none" ELSE r.result = BoundResult(d)
    PROVE  LET recs == [record EXCEPT ![e] = r]
               ch == [child EXCEPT ![k] = d]
           IN  TablesFit(recs, ch) /\ TablesMove(recs, ch) /\ recs[e] = r /\ r # NoRecord
<1> DEFINE recs == [record EXCEPT ![e] = r]
           ch == [child EXCEPT ![k] = d]
<1>1. /\ recs \in [Executions -> Records] /\ ch \in Seq(ChildRows) /\ DOMAIN ch = DOMAIN child
      /\ \A f \in Executions : recs[f] = IF f = e THEN r ELSE record[f]
      /\ \A j \in DOMAIN child : ch[j] = IF j = k THEN d ELSE child[j]
  BY DEF TablesFit
<1>2. \A j \in DOMAIN child : child[j] \in ChildRows
  BY DEF TablesFit
<1>3. k # 0 /\ r # NoRecord
  <2>1. k \in Nat \ {0}
    BY DEF TablesFit
  <2> QED BY <2>1 DEF NoRecord
<1>4. RecordFits(e, record[e], child)
  BY DEF TablesFit
<1> HIDE DEF recs, ch
<1>5. \A j \in DOMAIN child : ChildGoesOn(child[j], ch[j])
  BY <1>1, <1>2 DEF ChildGoesOn
<1>6. \A j \in DOMAIN child : ch[j].id = child[j].id /\ ch[j].life = child[j].life /\ ch[j].digest = child[j].digest
  BY <1>5 DEF ChildGoesOn
<1>7. \A f \in Executions : recs[f] # NoRecord <=> record[f] # NoRecord
  BY <1>1, <1>3
<1>8. {f \in Executions : recs[f] # NoRecord} = {f \in Executions : record[f] # NoRecord}
  BY <1>7
<1>9. \A j \in DOMAIN ch : /\ ChildSound(ch[j]) /\ ch[j].life <= life
                           /\ ch[j].life = life => recs[ch[j].id].child = j
  <2>1. \A j \in DOMAIN child : ChildSound(ch[j])
    BY <1>1 DEF TablesFit
  <2>2. \A j \in DOMAIN child : child[j].life <= life /\ (child[j].life = life => record[child[j].id].child = j)
    BY DEF TablesFit
  <2>3. \A f \in Executions : recs[f].child = record[f].child
    BY <1>1
  <2>4. \A j \in DOMAIN child : child[j].id \in Executions
    BY <1>2 DEF ChildRows
  <2> QED BY <1>1, <1>6, <2>1, <2>2, <2>3, <2>4
<1>10. \A i, j \in DOMAIN ch : ch[i].id = ch[j].id /\ ch[i].life = ch[j].life => i = j
  BY <1>1, <1>6 DEF TablesFit
<1>11. ASSUME NEW f \in Executions, recs[f] # NoRecord PROVE RecordFits(f, recs[f], ch)
  <2>1. RecordFits(f, record[f], child)
    BY <1>7, <1>11 DEF TablesFit
  <2>2. CASE f = e
    BY <1>1, <1>4, <1>6, <2>2 DEF RecordFits
  <2>3. CASE f # e
    <3>1. record[f].child # k
      BY <1>4, <2>1, <2>3 DEF RecordFits
    <3> QED BY <1>1, <2>1, <2>3, <3>1 DEF RecordFits
  <2> QED BY <2>2, <2>3
<1>12. TablesFit(recs, ch)
  BY <1>1, <1>8, <1>9, <1>10, <1>11 DEF TablesFit
<1>13. TablesMove(recs, ch)
  BY <1>1, <1>3, <1>5 DEF TablesMove
<1> QED BY <1>1, <1>3, <1>12, <1>13 DEF recs, ch

\* What is kept of a record's child.
LEMMA ChildOfRecord ==
    ASSUME TablesFit(record, child), NEW e \in Executions, record[e] # NoRecord
    PROVE  LET k == record[e].child
           IN  /\ k \in DOMAIN child /\ child[k] \in ChildRows /\ ChildSound(child[k]) /\ RecordFits(e, record[e], child)
               /\ record[e] \in Records /\ (record[e].result = "none" => ~child[k].closed /\ child[k].result = "none")
               /\ child[k].life = life /\ child[k].digest = record[e].digest
<1>1. RecordFits(e, record[e], child) /\ record[e] \in Records
  BY DEF TablesFit
<1>2. record[e].child \in DOMAIN child /\ child[record[e].child] \in ChildRows
  BY <1>1 DEF TablesFit, RecordFits
<1>3. \A k \in DOMAIN child : ChildSound(child[k])
  BY DEF TablesFit
<1>4. child[record[e].child].result # "none" => BoundResult(child[record[e].child]) # "none"
  BY DEF BoundResult
<1> QED BY <1>1, <1>2, <1>3, <1>4 DEF RecordFits

\* _snapshot_locked, of the handle as it was left.
LEMMA SeenKeeps ==
    ASSUME TablesFit(record, child), NEW e \in Executions, record[e] # NoRecord, record[e].result = "none",
           NEW c, ChildGoesOn(child[record[e].child], c), ChildSound(c), ~c.closed, NEW o \in Seen(e, c)
    PROVE  ServedWell(e, o)
<1> DEFINE k == record[e].child
<1>1. /\ k \in DOMAIN child /\ record[e] \in Records /\ child[k] \in ChildRows
      /\ record \in [Executions -> Records]
  BY ChildOfRecord DEF TablesFit
<1>2. c \in ChildRows
  BY DEF ChildGoesOn
<1>3. CASE c.result = "none"
  <2> DEFINE a == [as |-> "ok", digest |-> record[e].digest, result |-> "none"]
             ch == [child EXCEPT ![k] = c]
  <2>1. o = Outcome(record, ch, a)
    BY <1>3 DEF Seen
  <2>2. record = [record EXCEPT ![e] = record[e]]
    BY <1>1
  <2>3. TablesFit(record, ch) /\ TablesMove(record, ch)
    <3>1. LET recs == [record EXCEPT ![e] = record[e]]
          IN  TablesFit(recs, ch) /\ TablesMove(recs, ch) /\ recs[e] = record[e] /\ record[e] # NoRecord
      BY <1>1, <1>2, <1>3, PutBack
    <3> QED BY <2>2, <3>1
  <2>4. Answered(a, e, record)
    BY DEF Answered
  <2> HIDE DEF ch, a
  <2> QED BY <2>1, <2>3, <2>4, OutcomeIs DEF ServedWell
<1>4. CASE c.result # "none"
  <2> DEFINE x == BoundResult(c)
             a == [as |-> "ok", digest |-> record[e].digest, result |-> x]
             r == [record[e] EXCEPT !.result = x]
             recs == [record EXCEPT ![e] = r]
  <2>1. PICK d \in HandleClosed(c) : o = Outcome([record EXCEPT ![e].result = x], [child EXCEPT ![k] = d], a)
    BY <1>4 DEF Seen
  <2>2. [record EXCEPT ![e].result = x] = recs
    BY <1>1
  <2>3. ChildGoesOn(c, d) /\ ChildSound(d) /\ d.closed
    BY <1>2, HandleClosedRows
  <2>4. d \in ChildRows /\ ChildGoesOn(child[k], d)
    BY <2>3 DEF ChildGoesOn
  <2>5. d.result = c.result /\ BoundResult(d) = x /\ x \in ExecutionResults /\ x # "none"
    <3>1. d.result = c.result /\ d.verbose = c.verbose
      BY <1>4, <2>3 DEF ChildGoesOn
    <3>2. c.result \in ExecutionResults
      BY <1>2 DEF ChildRows
    <3> QED BY <1>4, <3>1, <3>2 DEF BoundResult, ExecutionResults, Definite
  <2> HIDE DEF x
  <2>6. r \in Records /\ r.digest = record[e].digest /\ r.child = k /\ r.result = x
    BY <1>1, <2>5 DEF Records
  <2> DEFINE ch == [child EXCEPT ![k] = d]
  <2>7. TablesFit(recs, ch) /\ TablesMove(recs, ch) /\ recs[e] = r /\ r # NoRecord
    <3> HIDE DEF r
    <3> QED BY ZenonT(40), <1>1, <1>4, <2>3, <2>4, <2>5, <2>6, PutBack
  <2>8. Answered(a, e, recs)
    BY <2>6, <2>7 DEF Answered
  <2>9. o = Outcome(recs, ch, a)
    BY <2>1, <2>2
  <2> HIDE DEF ch, a, recs
  <2> QED BY <2>7, <2>8, <2>9, OutcomeIs DEF ServedWell
<1> QED BY <1>3, <1>4

\* A record with a result answers from it; another one polls its child.
LEMMA SnapshotKeeps ==
    ASSUME TablesFit(record, child), NEW e \in Executions, record[e] # NoRecord, NEW o \in Snapshot(e)
    PROVE  ServedWell(e, o)
<1>1. CASE record[e].result # "none"
  <2> DEFINE a == [as |-> "ok", digest |-> record[e].digest, result |-> record[e].result]
  <2>1. o = Outcome(record, child, a)
    BY <1>1 DEF Snapshot, Unchanged
  <2>2. Answered(a, e, record)
    BY DEF Answered
  <2> HIDE DEF a
  <2> QED BY <2>1, <2>2, NothingMoves, OutcomeIs DEF ServedWell
<1>2. CASE record[e].result = "none"
  <2>1. PICK c \in Polled(child[record[e].child]) : o \in Seen(e, c)
    BY <1>2 DEF Snapshot
  <2>2. ChildGoesOn(child[record[e].child], c) /\ ChildSound(c) /\ ~c.closed
    BY <1>2, ChildOfRecord, PolledRows
  <2> QED BY <1>2, <2>1, <2>2, SeenKeeps
<1> QED BY <1>1, <1>2

\* A request that changes nothing.
LEMMA UnchangedKeeps ==
    ASSUME TablesFit(record, child), NEW e \in Executions, NEW a \in {Refused, Uncertain}, NEW o \in Unchanged(a)
    PROVE  ServedWell(e, o)
<1>1. o = Outcome(record, child, a)
  BY DEF Unchanged
<1> QED BY <1>1, NothingMoves, OutcomeIs DEF ServedWell, Answered

\* A cancellation is of the child that its record is about.
LEMMA CancelKeeps ==
    ASSUME TablesFit(record, child), NEW m \in Messages, m.op = "cancel", MessageFits(m, record), NEW o \in CancelledFor(m)
    PROVE  ServedWell(m.id, o)
<1>0. m.id \in Executions
  BY DEF Messages
<1>1. CASE record[m.id] = NoRecord
  BY <1>0, <1>1, UnchangedKeeps DEF CancelledFor
<1>2. CASE record[m.id] # NoRecord /\ record[m.id].result # "none"
  BY <1>0, <1>2, SnapshotKeeps DEF CancelledFor
<1>3. CASE record[m.id] # NoRecord /\ record[m.id].result = "none"
  <2> DEFINE b == child[record[m.id].child]
  <2>1. PICK c \in CancelledChild(b) : o \in Seen(m.id, [c EXCEPT !.by = IF c.result = "cancelled" THEN m ELSE @])
    BY <1>3 DEF CancelledFor
  <2>2. b \in ChildRows /\ ChildSound(b) /\ ~b.closed /\ b.result = "none" /\ b.life = life /\ b.digest = record[m.id].digest
    BY <1>0, <1>3, ChildOfRecord
  <2>3. ChildGoesOn(b, c) /\ ChildSound(c) /\ ~c.closed /\ c.by = NoMessage /\ c \in ChildRows
    <3> HIDE DEF b
    <3> QED BY <2>1, <2>2, CancelledRows DEF ChildGoesOn
  <2>4. c.life = life /\ c.digest = record[m.id].digest
    BY <2>2, <2>3 DEF ChildGoesOn
  <2> DEFINE d == [c EXCEPT !.by = IF c.result = "cancelled" THEN m ELSE @]
  <2>5. /\ d \in ChildRows /\ d.id = c.id /\ d.digest = c.digest /\ d.life = c.life /\ d.verbose = c.verbose
        /\ d.stubborn = c.stubborn /\ d.running = c.running /\ d.wrote = c.wrote /\ d.code = c.code
        /\ d.result = c.result /\ d.closed = c.closed /\ d.dir = c.dir
        /\ d.by = (IF c.result = "cancelled" THEN m ELSE c.by)
    BY <2>3 DEF ChildRows
  <2>6. o \in Seen(m.id, d)
    BY <2>1
  <2> HIDE DEF d, b
  <2>7. m.since = life => m.digest = c.digest
    BY <2>4 DEF MessageFits
  <2>8. ChildSound(d)
    BY <2>3, <2>4, <2>5, <2>7 DEF ChildSound
  <2>9. ChildGoesOn(b, d)
    BY <2>3, <2>5 DEF ChildGoesOn
  <2> QED BY <1>0, <1>3, <2>3, <2>5, <2>6, <2>8, <2>9, SeenKeeps DEF b
<1> QED BY <1>1, <1>2, <1>3

\* A child is started for an execution that has no record.
LEMMA ChildStarts ==
    ASSUME life \in Nat \ {0}, TablesFit(record, child), NEW m \in Messages, record[m.id] = NoRecord, NEW s \in BOOLEAN,
           ~(Cardinality({e \in Executions : record[e] # NoRecord}) >= MaxRecords)
    PROVE  LET r == [digest |-> m.digest, child |-> Len(child) + 1, result |-> "none"]
               recs == [record EXCEPT ![m.id] = r]
               ch == Append(child, NewChild(m, s))
           IN  TablesFit(recs, ch) /\ TablesMove(recs, ch) /\ recs[m.id] = r /\ r # NoRecord
<1> DEFINE n == Len(child) + 1
           r == [digest |-> m.digest, child |-> n, result |-> "none"]
           c == NewChild(m, s)
           recs == [record EXCEPT ![m.id] = r]
           ch == Append(child, c)
           S == {e \in Executions : record[e] # NoRecord}
<1>0. m.id \in Executions /\ m.digest \in Digests /\ m.fault \in Faults
  BY DEF Messages
<1>1. /\ c \in ChildRows /\ c.id = m.id /\ c.digest = m.digest /\ c.life = life /\ c.running /\ c.wrote = "none"
      /\ c.result = "none" /\ ~c.closed /\ c.by = NoMessage /\ c.code = 0
  BY <1>0 DEF NewChild, ChildRows, ExecutionResults
<1> HIDE DEF c
<1>2. ChildSound(c)
  BY <1>1 DEF ChildSound
<1>3. child \in Seq(ChildRows) /\ record \in [Executions -> Records] /\ n \in Nat /\ n > 0 /\ n \notin DOMAIN child
  BY DEF TablesFit
<1>4. /\ ch \in Seq(ChildRows) /\ DOMAIN ch = DOMAIN child \cup {n} /\ ch[n] = c
      /\ \A k \in DOMAIN child : ch[k] = child[k] /\ child[k] \in ChildRows
  BY <1>1, <1>3
<1>5. r \in Records /\ r # NoRecord /\ r.child = n /\ r.digest = m.digest /\ r.result = "none"
  BY <1>0, <1>3 DEF Records, NoRecord, ExecutionResults
<1> HIDE DEF r, n
<1>6. recs \in [Executions -> Records] /\ \A e \in Executions : recs[e] = IF e = m.id THEN r ELSE record[e]
  BY <1>0, <1>3, <1>5
<1> HIDE DEF ch, recs
<1>7. \A k \in DOMAIN child : child[k].life = life => child[k].id # m.id
  <2> SUFFICES ASSUME NEW k \in DOMAIN child, child[k].life = life, child[k].id = m.id PROVE FALSE
    OBVIOUS
  <2>1. NoRecord.child = k
    BY DEF TablesFit
  <2>2. k \in Nat \ {0}
    BY <1>3
  <2> QED BY <2>1, <2>2 DEF NoRecord
<1>8. \A k \in DOMAIN ch : /\ ChildSound(ch[k]) /\ ch[k].life <= life
                           /\ ch[k].life = life => recs[ch[k].id].child = k
  <2>1. \A k \in DOMAIN child : ChildSound(child[k]) /\ child[k].life <= life /\ child[k].id \in Executions
                                /\ (child[k].life = life => record[child[k].id].child = k)
    BY <1>4 DEF TablesFit, ChildRows
  <2>2. \A k \in DOMAIN child : child[k].life = life => recs[child[k].id] = record[child[k].id]
    BY <1>6, <1>7, <2>1
  <2>3. recs[m.id].child = n
    BY <1>0, <1>5, <1>6
  <2> QED BY <1>1, <1>2, <1>4, <2>1, <2>2, <2>3
<1>9. \A j, k \in DOMAIN ch : ch[j].id = ch[k].id /\ ch[j].life = ch[k].life => j = k
  <2>1. \A j, k \in DOMAIN child : child[j].id = child[k].id /\ child[j].life = child[k].life => j = k
    BY DEF TablesFit
  <2> QED BY <1>1, <1>4, <1>7, <2>1
<1>10. ASSUME NEW e \in Executions, recs[e] # NoRecord PROVE RecordFits(e, recs[e], ch)
  <2>1. CASE e = m.id
    BY <1>1, <1>4, <1>5, <1>6, <2>1 DEF RecordFits
  <2>2. CASE e # m.id
    <3>1. RecordFits(e, record[e], child)
      BY <1>6, <1>10, <2>2 DEF TablesFit
    <3> QED BY <1>4, <1>6, <2>2, <3>1 DEF RecordFits
  <2> QED BY <2>1, <2>2
<1>11. {e \in Executions : recs[e] # NoRecord} = S \cup {m.id} /\ m.id \notin S
  BY <1>0, <1>5, <1>6
<1>12. IsFiniteSet(S) /\ Cardinality(S) \in Nat /\ Cardinality(S) < MaxRecords
  BY FS_CardinalityType, WgAssumption DEF TablesFit
<1> HIDE DEF S
<1>13. IsFiniteSet(S \cup {m.id}) /\ Cardinality(S \cup {m.id}) <= MaxRecords
  <2>1. IsFiniteSet(S \cup {m.id}) /\ Cardinality(S \cup {m.id}) = Cardinality(S) + 1
    BY ONLY <1>11, <1>12, FS_AddElement
  <2>2. MaxRecords \in Nat
    BY WgAssumption
  <2> QED BY ONLY <1>12, <2>1, <2>2
<1>14. TablesFit(recs, ch)
  BY <1>4, <1>6, <1>8, <1>9, <1>10, <1>11, <1>13 DEF TablesFit
<1>15. TablesMove(recs, ch)
  BY <1>4, <1>6 DEF TablesMove, ChildGoesOn
<1> QED BY <1>0, <1>5, <1>6, <1>14, <1>15 DEF recs, ch, r, n, c

\* A submission that starts a child.
StartsWith(m, s) ==
    Outcome([record EXCEPT ![m.id] = [digest |-> m.digest, child |-> Len(child) + 1, result |-> "none"]],
            Append(child, NewChild(m, s)), [as |-> "ok", digest |-> m.digest, result |-> "none"])

\* A repeated submission finds the record; another content for it is refused.
LEMMA SubmitKeeps ==
    ASSUME life \in Nat \ {0}, TablesFit(record, child), NEW m \in Messages, NEW o \in Submitted(m)
    PROVE  ServedWell(m.id, o)
<1>0. m.id \in Executions
  BY DEF Messages
<1>1. CASE o \in Unchanged(Refused) \/ o \in Unchanged(Uncertain)
  BY <1>0, <1>1, UnchangedKeeps
<1>2. CASE record[m.id] # NoRecord /\ o \in Snapshot(m.id)
  BY <1>0, <1>2, SnapshotKeeps
<1>3. CASE /\ record[m.id] = NoRecord /\ ~(Cardinality({e \in Executions : record[e] # NoRecord}) >= MaxRecords)
           /\ \E s \in BOOLEAN : o = StartsWith(m, s)
  <2>1. PICK s \in BOOLEAN : o = StartsWith(m, s)
    BY <1>3
  <2> DEFINE r == [digest |-> m.digest, child |-> Len(child) + 1, result |-> "none"]
             recs == [record EXCEPT ![m.id] = r]
             ch == Append(child, NewChild(m, s))
             a == [as |-> "ok", digest |-> m.digest, result |-> "none"]
  <2>2. TablesFit(recs, ch) /\ TablesMove(recs, ch) /\ recs[m.id] = r /\ r # NoRecord
    BY <1>3, ChildStarts
  <2>3. o = Outcome(recs, ch, a)
    BY <2>1 DEF StartsWith
  <2>4. Answered(a, m.id, recs)
    BY <2>2 DEF Answered
  <2> HIDE DEF recs, ch, a
  <2> QED BY <2>2, <2>3, <2>4, OutcomeIs DEF ServedWell
<1>4. \/ o \in Unchanged(Refused) \/ o \in Unchanged(Uncertain)
      \/ record[m.id] # NoRecord /\ o \in Snapshot(m.id)
      \/ /\ record[m.id] = NoRecord /\ ~(Cardinality({e \in Executions : record[e] # NoRecord}) >= MaxRecords)
         /\ \E s \in BOOLEAN : o = StartsWith(m, s)
  BY DEF Submitted, StartsWith
<1> QED BY <1>1, <1>2, <1>3, <1>4

\* Whatever a request asks.
LEMMA ServedKeeps ==
    ASSUME life \in Nat \ {0}, TablesFit(record, child), NEW m \in Messages, MessageFits(m, record), NEW o \in ServedRemote(m)
    PROVE  ServedWell(m.id, o)
<1>0. m.id \in Executions /\ m.op \in {"submit", "get", "cancel"}
  BY DEF Messages
<1>1. CASE m.op = "submit"
  BY <1>1, SubmitKeeps DEF ServedRemote
<1>2. CASE m.op = "get"
  <2>1. CASE record[m.id] = NoRecord
    BY <1>0, <1>2, <2>1, UnchangedKeeps DEF ServedRemote, Got
  <2>2. CASE record[m.id] # NoRecord
    BY <1>0, <1>2, <2>2, SnapshotKeeps DEF ServedRemote, Got
  <2> QED BY <2>1, <2>2
<1>3. CASE m.op = "cancel"
  BY <1>3, CancelKeeps DEF ServedRemote
<1> QED BY <1>0, <1>1, <1>2, <1>3

-----------------------------------------------------------------------------
(* The gateway: callers and restarts *)

\* Handles and requests go on beside a step of the gateway.
LEMMA HandleKeeps ==
    ASSUME NEW recs, NEW ch, TablesMove(recs, ch), NEW h \in Handles, HandleFits(h, record, child)
    PROVE  HandleFits(h, recs, ch)
<1>1. EndedWell(h, child) => EndedWell(h, ch)
  BY DEF EndedWell, TablesMove, ChildGoesOn
<1> QED BY <1>1 DEF HandleFits, TablesMove

LEMMA MessageKeeps ==
    ASSUME NEW recs, NEW ch, TablesMove(recs, ch), NEW m \in Messages, MessageFits(m, record)
    PROVE  MessageFits(m, recs)
<1>1. m.id \in Executions
  BY DEF Messages
<1> QED BY <1>1 DEF MessageFits, TablesMove

\* A caller hears an answer, or nothing.
LEMMA HearsKeeps ==
    ASSUME NEW recs, NEW ch, TablesFit(recs, ch), TablesMove(recs, ch), NEW h \in Handles, HandleFits(h, record, child),
           NEW m \in Messages, CallFits(m, h), MessageFits(m, record), NEW a, Answered(a, m.id, recs)
    PROVE  Hears(h, m, a) \in Handles /\ HandleFits(Hears(h, m, a), recs, ch)
<1>0. m.id \in Executions /\ m.digest \in Digests /\ m.since \in Nat /\ m # NoMessage
  BY ToNone DEF Messages
<1>1. CASE Own(m, a)
  <2>1. a.as = "ok" /\ a.digest = m.digest
    BY <1>1 DEF Own
  <2>2. a \notin {Refused, Uncertain}
    BY <2>1 DEF Refused, Uncertain, NoAnswer
  <2>3. recs[m.id] # NoRecord /\ recs[m.id].digest = m.digest /\ a.result = recs[m.id].result
    BY <2>1, <2>2 DEF Answered
  <2>4. a.result \in ExecutionResults
    BY <1>0, <2>3 DEF TablesFit, Records
  <2> DEFINE g == IF m.op = "submit" THEN [NoHandle EXCEPT !.id = m.id, !.digest = m.digest, !.since = m.since] ELSE h
  <2>5. g \in OwnHandles /\ g.id = m.id /\ g.digest = m.digest /\ g.since = m.since /\ g.result = "none" /\ g.told \cap Definite = {}
    <3>1. CASE m.op = "submit"
      BY <1>0, <3>1 DEF NoHandle, OwnHandles, ExecutionResults
    <3>2. CASE m.op # "submit"
      BY <1>0, <3>2 DEF CallFits, HandleFits, Handles, Definite
    <3> QED BY <3>1, <3>2
  <2> DEFINE k == Hears(h, m, a)
  <2>6. k = Taken(g, a.result)
    BY <1>1 DEF Hears
  <2> HIDE DEF g
  <2>7. /\ k \in Handles /\ k.id = m.id /\ k.digest = m.digest /\ k.since = m.since /\ k.result = a.result
        /\ k.told = g.told \cup ({a.result} \ {"none"})
    BY <2>4, <2>5, <2>6 DEF Taken, OwnHandles, Handles
  <2> HIDE DEF k
  <2>8. k.told \cap Definite \subseteq {k.result}
    BY <2>5, <2>7
  <2>9. "succeeded" \in k.told => EndedWell(k, ch)
    <3> SUFFICES ASSUME "succeeded" \in k.told PROVE EndedWell(k, ch)
      OBVIOUS
    <3>1. a.result = "succeeded"
      BY <2>5, <2>7 DEF Definite
    <3> DEFINE j == recs[m.id].child
    <3>2. RecordFits(m.id, recs[m.id], ch)
      BY <1>0, <2>3 DEF TablesFit
    <3>3. /\ j \in DOMAIN ch /\ ch[j].id = m.id /\ ch[j].digest = m.digest /\ ChildSound(ch[j]) /\ BoundResult(ch[j]) = "succeeded"
      BY <2>3, <3>1, <3>2 DEF RecordFits, TablesFit
    <3>4. ch[j].result = "succeeded"
      BY <3>3 DEF BoundResult
    <3>5. ch[j].wrote = "succeeded" /\ ch[j].code = 0 /\ ~ch[j].running
      BY <3>3, <3>4 DEF ChildSound
    <3> HIDE DEF j
    <3> QED BY <2>7, <3>3, <3>5 DEF EndedWell
  <2>10. HandleFits(k, recs, ch)
    BY <1>0, <2>3, <2>7, <2>8, <2>9 DEF HandleFits, MessageFits
  <2> QED BY <2>7, <2>10 DEF k
<1>2. CASE ~Own(m, a) /\ m.op = "cancel" /\ a # Refused
  <2> DEFINE k == [h EXCEPT !.told = @ \cup {"unknown_outcome"}]
  <2>1. /\ k \in Handles /\ k.id = h.id /\ k.digest = h.digest /\ k.since = h.since /\ k.result = h.result
        /\ k.told = h.told \cup {"unknown_outcome"}
    <3>1. h \in OwnHandles
      BY <1>0, <1>2 DEF CallFits, Handles
    <3> QED BY <3>1 DEF OwnHandles, Handles, ExecutionResults
  <2>2. HandleFits(h, recs, ch)
    BY HandleKeeps
  <2> HIDE DEF k
  <2>3. HandleFits(k, recs, ch)
    BY <2>1, <2>2 DEF HandleFits, EndedWell, Definite
  <2>4. Hears(h, m, a) = k
    BY <1>2 DEF Hears, k
  <2> QED BY <2>1, <2>3, <2>4
<1>3. CASE ~Own(m, a) /\ ~(m.op = "cancel" /\ a # Refused)
  <2>1. Hears(h, m, a) = h
    BY <1>3 DEF Hears
  <2> QED BY <2>1, HandleKeeps
<1> QED BY <1>1, <1>2, <1>3

\* A step of the gateway, of its children or of callers, in one life of the gateway.
LEMMA LifeGoesOn ==
    ASSUME WgInv, life' = life, NEW recs, NEW ch, TablesFit(recs, ch), TablesMove(recs, ch), record' = recs, child' = ch,
           call' \in [Remotes -> Messages \cup {NoMessage}], handle' \in [Remotes -> Handles], lateCalls' \subseteq Messages,
           \A c \in Remotes : handle'[c] = handle[c] \/ HandleFits(handle'[c], recs, ch),
           \A c \in Remotes : CallFits(call'[c], handle'[c]),
           \A c \in Remotes : call'[c] \in {call[c], NoMessage} \/ MessageFits(call'[c], recs),
           \A m \in lateCalls' : m \in lateCalls \/ MessageFits(m, recs)
    PROVE  WgInv'
<1>1. TablesFit(record, child)'
  BY DEF TablesFit, RecordFits
<1>2. \A c \in Remotes : HandleFits(handle'[c], recs, ch)
  <2> SUFFICES ASSUME NEW c \in Remotes PROVE HandleFits(handle'[c], recs, ch)
    OBVIOUS
  <2>1. handle[c] \in Handles /\ HandleFits(handle[c], record, child)
    BY DEF WgInv
  <2>2. HandleFits(handle[c], recs, ch)
    BY <2>1, HandleKeeps
  <2> QED BY <2>2
<1>3. \A c \in Remotes : call'[c] # NoMessage => MessageFits(call'[c], recs)
  <2> SUFFICES ASSUME NEW c \in Remotes, call'[c] # NoMessage, call'[c] = call[c] PROVE MessageFits(call'[c], recs)
    OBVIOUS
  <2>1. call[c] \in Messages /\ MessageFits(call[c], record)
    BY DEF WgInv
  <2> QED BY <2>1, MessageKeeps
<1>4. \A m \in lateCalls' : MessageFits(m, recs)
  <2> SUFFICES ASSUME NEW m \in lateCalls PROVE MessageFits(m, recs)
    OBVIOUS
  <2>1. m \in Messages /\ MessageFits(m, record)
    BY DEF WgInv
  <2> QED BY <2>1, MessageKeeps
<1>5. (\A c \in Remotes : HandleFits(handle[c], record, child))'
  BY <1>2 DEF HandleFits, EndedWell
<1>6. (\A c \in Remotes : CallFits(call[c], handle[c]) /\ (call[c] # NoMessage => MessageFits(call[c], record)))'
  BY <1>3 DEF MessageFits, CallFits
<1>7. (\A m \in lateCalls : MessageFits(m, record))'
  BY <1>4 DEF MessageFits
<1> QED BY <1>1, <1>5, <1>6, <1>7 DEF WgInv

\* What the invariant says of one caller.
LEMMA CallerRow ==
    ASSUME WgInv, NEW c \in Remotes
    PROVE  /\ life \in Nat \ {0} /\ handle[c] \in Handles /\ HandleFits(handle[c], record, child) /\ CallFits(call[c], handle[c])
           /\ TablesFit(record, child) /\ TablesMove(record, child)
           /\ call[c] # NoMessage => call[c] \in Messages /\ MessageFits(call[c], record)
BY NothingMoves DEF WgInv

\* A caller sends a request, or closes its handle.
LEMMA CallersKeep ==
    ASSUME WgInv, NEW c \in Remotes,
           (\E r \in RemoteRequests : StartRemote(c, r)) \/ (\E op \in {"get", "cancel"} : AskRemote(c, op)) \/ CloseRemote(c)
    PROVE  WgInv'
<1>0. /\ life \in Nat \ {0} /\ handle[c] \in Handles /\ HandleFits(handle[c], record, child) /\ CallFits(call[c], handle[c])
      /\ TablesFit(record, child) /\ TablesMove(record, child)
      /\ call \in [Remotes -> Messages \cup {NoMessage}] /\ handle \in [Remotes -> Handles] /\ lateCalls \subseteq Messages
      /\ \A d \in Remotes : CallFits(call[d], handle[d])
  BY CallerRow DEF WgInv
<1>1. ASSUME NEW m \in Messages, Send(c, m), MessageFits(m, record), CallFits(m, handle[c]) PROVE WgInv'
  <2>1. /\ life' = life /\ record' = record /\ child' = child /\ handle' = handle /\ lateCalls' = lateCalls
        /\ call' = [call EXCEPT ![c] = m]
    BY <1>1 DEF Send
  <2>2. /\ call' \in [Remotes -> Messages \cup {NoMessage}] /\ call'[c] = m
        /\ \A d \in Remotes : d # c => call'[d] = call[d]
    BY <1>0, <2>1
  <2>3. \A d \in Remotes : call'[d] \in {call[d], NoMessage} \/ MessageFits(call'[d], record)
    BY <1>1, <2>2
  <2>4. \A d \in Remotes : CallFits(call'[d], handle'[d])
    BY <1>0, <1>1, <2>1, <2>2
  <2> QED BY <1>0, <2>1, <2>2, <2>3, <2>4, LifeGoesOn
<1>2. ASSUME NEW r \in RemoteRequests, StartRemote(c, r) PROVE WgInv'
  <2> DEFINE m == [op |-> "submit", id |-> r.id, digest |-> r.digest, fault |-> r.fault, since |-> life]
  <2>1. m \in Messages
    BY <1>0, WgAssumption DEF Messages, Digests, Faults
  <2>2. MessageFits(m, record) /\ CallFits(m, handle[c])
    BY <1>0, <1>2 DEF MessageFits, CallFits, StartRemote
  <2>3. Send(c, m)
    BY <1>2 DEF StartRemote
  <2> HIDE DEF m
  <2> QED BY <1>1, <2>1, <2>2, <2>3
<1>3. ASSUME NEW op \in {"get", "cancel"}, AskRemote(c, op) PROVE WgInv'
  <2> DEFINE m == [op |-> op, id |-> handle[c].id, digest |-> handle[c].digest, fault |-> "none", since |-> handle[c].since]
  <2>1. Send(c, m) /\ handle[c] # NoHandle /\ handle[c].result = "none"
    BY <1>3 DEF AskRemote
  <2>2. m \in Messages
    BY <1>0, <2>1 DEF Messages, Handles, OwnHandles, Faults
  <2>3. MessageFits(m, record) /\ CallFits(m, handle[c])
    BY <1>0, <1>3, <2>1 DEF MessageFits, CallFits, HandleFits
  <2> HIDE DEF m
  <2> QED BY <1>1, <2>1, <2>2, <2>3
<1>4. ASSUME CloseRemote(c) PROVE WgInv'
  <2>1. /\ life' = life /\ record' = record /\ child' = child /\ call' = call /\ lateCalls' = lateCalls
        /\ handle' = [handle EXCEPT ![c] = NoHandle] /\ call[c] = NoMessage
    BY <1>4 DEF CloseRemote
  <2>2. handle' \in [Remotes -> Handles] /\ handle'[c] = NoHandle /\ \A d \in Remotes : d # c => handle'[d] = handle[d]
    BY <1>0, <2>1, ToNone
  <2>3. HandleFits(NoHandle, record, child)
    BY <1>0 DEF HandleFits, NoHandle
  <2>4. \A d \in Remotes : CallFits(call'[d], handle'[d])
    BY <1>0, <2>1, <2>2 DEF CallFits
  <2>5. \A d \in Remotes : handle'[d] = handle[d] \/ HandleFits(handle'[d], record, child)
    BY <2>2, <2>3
  <2> QED BY <1>0, <2>1, <2>2, <2>4, <2>5, LifeGoesOn
<1> QED BY <1>2, <1>3, <1>4

\* A caller whose request is over: it has heard an answer to it, or nothing.
LEMMA CallEnds ==
    ASSUME WgInv, NEW c \in Remotes, call[c] # NoMessage, life' = life,
           NEW recs, NEW ch, TablesFit(recs, ch), TablesMove(recs, ch), record' = recs, child' = ch,
           NEW a, Answered(a, call[c].id, recs), handle' = [handle EXCEPT ![c] = Hears(@, call[c], a)],
           call' = [call EXCEPT ![c] = NoMessage],
           lateCalls' = lateCalls \/ lateCalls' = lateCalls \cup {call[c]}
    PROVE  WgInv'
<1>1. /\ handle[c] \in Handles /\ HandleFits(handle[c], record, child) /\ CallFits(call[c], handle[c])
      /\ call[c] \in Messages /\ MessageFits(call[c], record)
  BY CallerRow
<1>2. /\ call \in [Remotes -> Messages \cup {NoMessage}] /\ handle \in [Remotes -> Handles] /\ lateCalls \subseteq Messages
      /\ \A d \in Remotes : CallFits(call[d], handle[d])
  BY DEF WgInv
<1> DEFINE h == Hears(handle[c], call[c], a)
<1>3. h \in Handles /\ HandleFits(h, recs, ch)
  BY <1>1, HearsKeeps
<1>4. handle' = [handle EXCEPT ![c] = h]
  OBVIOUS
<1> HIDE DEF h
<1>5. /\ handle' \in [Remotes -> Handles] /\ handle'[c] = h /\ \A d \in Remotes : d # c => handle'[d] = handle[d]
  BY ONLY <1>2, <1>3, <1>4
<1>6. /\ call' \in [Remotes -> Messages \cup {NoMessage}] /\ call'[c] = NoMessage
      /\ \A d \in Remotes : d # c => call'[d] = call[d]
  BY <1>2
<1>7. \A d \in Remotes : handle'[d] = handle[d] \/ HandleFits(handle'[d], recs, ch)
  BY <1>3, <1>5
<1>8. \A d \in Remotes : CallFits(call'[d], handle'[d])
  BY <1>2, <1>5, <1>6 DEF CallFits
<1>9. \A d \in Remotes : call'[d] \in {call[d], NoMessage} \/ MessageFits(call'[d], recs)
  BY <1>6
<1>10. lateCalls' \subseteq Messages /\ \A m \in lateCalls' : m \in lateCalls \/ MessageFits(m, recs)
  BY <1>1, <1>2, MessageKeeps
<1> HIDE <1>4
<1> QED BY <1>5, <1>6, <1>7, <1>8, <1>9, <1>10, LifeGoesOn

\* A request is served, its response lost, or its caller gone.
LEMMA ServeKeeps ==
    ASSUME WgInv, NEW c \in Remotes, (\E isLost \in BOOLEAN : ServeRemote(c, isLost)) \/ GiveUp(c)
    PROVE  WgInv'
<1>1. Answered(Uncertain, call[c].id, record)
  BY DEF Answered
<1>2. CASE GiveUp(c)
  BY <1>1, <1>2, CallerRow, CallEnds DEF GiveUp
<1>3. ASSUME NEW isLost \in BOOLEAN, ServeRemote(c, isLost) PROVE WgInv'
  <2>1. call[c] # NoMessage /\ call[c] \in Messages /\ life' = life /\ lateCalls' = lateCalls /\ call' = [call EXCEPT ![c] = NoMessage]
    BY <1>3, CallerRow DEF ServeRemote
  <2>2. PICK o \in ServedRemote(call[c]) :
          /\ record' = o.record /\ child' = o.child
          /\ handle' = [handle EXCEPT ![c] = Hears(@, call[c], IF isLost THEN Uncertain ELSE o.answer)]
    BY <1>3 DEF ServeRemote
  <2>3. ServedWell(call[c].id, o)
    BY <2>1, CallerRow, ServedKeeps
  <2> DEFINE a == IF isLost THEN Uncertain ELSE o.answer
  <2>4. Answered(a, call[c].id, o.record)
    BY <2>3 DEF ServedWell, Answered
  <2>5. handle' = [handle EXCEPT ![c] = Hears(@, call[c], a)]
    BY <2>2
  <2> HIDE DEF a
  <2>6. TablesFit(o.record, o.child) /\ TablesMove(o.record, o.child)
    BY <2>3 DEF ServedWell
  <2> QED BY <2>1, <2>2, <2>4, <2>5, <2>6, CallEnds
<1> QED BY <1>2, <1>3

\* A request is served whose caller does not wait any more.
LEMMA LateKeeps ==
    ASSUME WgInv, NEW m \in lateCalls, ServeLate(m)
    PROVE  WgInv'
<1>1. life \in Nat \ {0} /\ TablesFit(record, child) /\ m \in Messages /\ MessageFits(m, record)
  BY DEF WgInv
<1>2. PICK o \in ServedRemote(m) : record' = o.record /\ child' = o.child
  BY DEF ServeLate
<1>3. TablesFit(o.record, o.child) /\ TablesMove(o.record, o.child)
  BY <1>1, ServedKeeps DEF ServedWell
<1>4. life' = life /\ call' = call /\ handle' = handle /\ lateCalls' \subseteq lateCalls
  BY DEF ServeLate
<1>5. /\ call' \in [Remotes -> Messages \cup {NoMessage}] /\ handle' \in [Remotes -> Handles] /\ lateCalls' \subseteq Messages
      /\ \A c \in Remotes : CallFits(call'[c], handle'[c])
  BY <1>4 DEF WgInv
<1> QED BY <1>2, <1>3, <1>4, <1>5, LifeGoesOn

\* A child ends by itself, of this life of the gateway or of an earlier one.
LEMMA ChildEndsKeeps ==
    ASSUME WgInv, NEW k \in DOMAIN child, NEW v \in {"none", "succeeded"}, NEW code \in {0, 1}, ChildEnds(k, v, code)
    PROVE  WgInv'
<1>1. TablesFit(record, child) /\ child \in Seq(ChildRows) /\ child[k] \in ChildRows /\ ChildSound(child[k])
  BY DEF WgInv, TablesFit
<1> DEFINE b == child[k]
           d == [b EXCEPT !.running = FALSE, !.wrote = v, !.code = code, !.dir = @ \/ v # "none"]
           ch == [child EXCEPT ![k] = d]
<1>2. b.running /\ child' = ch
  BY <1>1 DEF ChildEnds
<1>3. life' = life /\ record' = record /\ call' = call /\ handle' = handle /\ lateCalls' = lateCalls
  BY DEF ChildEnds
<1>4. /\ d \in ChildRows /\ d.id = b.id /\ d.digest = b.digest /\ d.life = b.life /\ d.verbose = b.verbose
      /\ d.stubborn = b.stubborn /\ d.running = FALSE /\ d.wrote = v /\ d.code = code
      /\ d.result = b.result /\ d.closed = b.closed /\ d.by = b.by /\ d.dir = (b.dir \/ v # "none")
  BY <1>1 DEF ChildRows
<1> HIDE DEF d
<1>5. ChildGoesOn(b, d)
  BY <1>2, <1>4 DEF ChildGoesOn
<1>6. ChildSound(d)
  BY <1>1, <1>2, <1>4 DEF ChildSound
<1>7. /\ ch \in Seq(ChildRows) /\ DOMAIN ch = DOMAIN child
      /\ \A j \in DOMAIN child : child[j] \in ChildRows /\ ch[j] = IF j = k THEN d ELSE child[j]
  BY <1>1, <1>4
<1> HIDE DEF ch
<1>8. \A j \in DOMAIN child : ChildGoesOn(child[j], ch[j])
  BY <1>5, <1>7 DEF ChildGoesOn
<1>9. \A j \in DOMAIN child : /\ ch[j].id = child[j].id /\ ch[j].life = child[j].life /\ ch[j].digest = child[j].digest
                              /\ ch[j].closed = child[j].closed /\ ch[j].result = child[j].result /\ ch[j].verbose = child[j].verbose
  BY <1>4, <1>7
<1>10. \A j \in DOMAIN ch : /\ ChildSound(ch[j]) /\ ch[j].life <= life
                            /\ ch[j].life = life => record[ch[j].id].child = j
  BY <1>1, <1>6, <1>7, <1>9 DEF TablesFit
<1>11. \A i, j \in DOMAIN ch : ch[i].id = ch[j].id /\ ch[i].life = ch[j].life => i = j
  BY <1>1, <1>7, <1>9 DEF TablesFit
<1>12. \A e \in Executions : record[e] # NoRecord => RecordFits(e, record[e], ch)
  BY <1>1, <1>7, <1>9 DEF TablesFit, RecordFits, BoundResult
<1>13. TablesFit(record, ch)
  BY <1>1, <1>7, <1>10, <1>11, <1>12 DEF TablesFit
<1>14. TablesMove(record, ch)
  BY <1>7, <1>8 DEF TablesMove
<1>15. /\ call' \in [Remotes -> Messages \cup {NoMessage}] /\ handle' \in [Remotes -> Handles] /\ lateCalls' \subseteq Messages
       /\ \A c \in Remotes : CallFits(call'[c], handle'[c])
  BY <1>3 DEF WgInv
<1> QED BY <1>2, <1>3, <1>13, <1>14, <1>15, LifeGoesOn

\* Another gateway starts, which knows of nothing.
LEMMA RestartKeeps ==
    ASSUME WgInv, NEW inOrder \in BOOLEAN, Restart(inOrder)
    PROVE  WgInv'
<1>1. TablesFit(record, child) /\ child \in Seq(ChildRows) /\ life \in Nat \ {0}
  BY DEF WgInv, TablesFit
<1>2. \A k \in DOMAIN child : child[k] \in ChildRows /\ ChildSound(child[k]) /\ child[k].life <= life
  BY <1>1 DEF TablesFit
<1>3. /\ life' = life + 1 /\ record' = [e \in Executions |-> NoRecord] /\ lateCalls' = {}
      /\ handle' = [c \in Remotes |-> IF call[c] = NoMessage THEN handle[c] ELSE Hears(handle[c], call[c], Uncertain)]
      /\ call' = [c \in Remotes |-> NoMessage]
  BY DEF Restart
<1>4. /\ child' \in Seq(ChildRows) /\ DOMAIN child' = DOMAIN child
      /\ \A k \in DOMAIN child : ChildGoesOn(child[k], child'[k]) /\ ChildSound(child'[k])
  <2>1. CASE inOrder
    <3> DEFINE open == {k \in DOMAIN child : child[k].life = life /\ ~child[k].closed}
    <3>1. PICK done \in [open -> UNION {HandleClosed(child[k]) : k \in open}] :
             /\ \A k \in open : done[k] \in HandleClosed(child[k])
             /\ child' = [k \in DOMAIN child |-> IF k \in open THEN done[k] ELSE child[k]]
      BY <2>1 DEF Restart
    <3> HIDE DEF open
    <3>2. \A k \in DOMAIN child : ChildGoesOn(child[k], child'[k]) /\ ChildSound(child'[k])
      <4> SUFFICES ASSUME NEW k \in DOMAIN child PROVE ChildGoesOn(child[k], child'[k]) /\ ChildSound(child'[k])
        OBVIOUS
      <4>1. CASE k \in open
        <5>1. child'[k] \in HandleClosed(child[k])
          BY <3>1, <4>1
        <5> QED BY <1>2, <5>1, HandleClosedRows
      <4>2. CASE k \notin open
        <5>1. child'[k] = child[k]
          BY <3>1, <4>2
        <5> QED BY <1>2, <5>1 DEF ChildGoesOn
      <4> QED BY <4>1, <4>2
    <3>3. DOMAIN child' = DOMAIN child /\ DOMAIN child = 1..Len(child) /\ Len(child) \in Nat
      BY <1>1, <3>1
    <3>4. \A k \in DOMAIN child : child'[k] \in ChildRows
      BY <3>2 DEF ChildGoesOn
    <3>5. child' = [k \in 1..Len(child) |-> child'[k]]
      BY <3>1, <3>3
    <3>6. child' \in Seq(ChildRows)
      BY <3>3, <3>4, <3>5
    <3> QED BY <3>2, <3>3, <3>6
  <2>2. CASE ~inOrder
    <3>1. child' = child
      BY <2>2 DEF Restart
    <3> QED BY <1>1, <1>2, <3>1 DEF ChildGoesOn
  <2> QED BY <2>1, <2>2
<1>5. TablesFit(record, child)'
  <2>1. record' \in [Executions -> Records] /\ {e \in Executions : record'[e] # NoRecord} = {}
    BY <1>3, ToNone
  <2>2. IsFiniteSet({}) /\ Cardinality({}) <= MaxRecords
    BY FS_EmptySet, WgAssumption
  <2>3. \A k \in DOMAIN child : child'[k].id = child[k].id /\ child'[k].life = child[k].life
    BY <1>4 DEF ChildGoesOn
  <2>4. \A k \in DOMAIN child' : child'[k].life <= life' /\ child'[k].life # life'
    <3> SUFFICES ASSUME NEW k \in DOMAIN child PROVE child[k].life <= life + 1 /\ child[k].life # life + 1
      BY <1>3, <1>4, <2>3
    <3>1. child[k].life \in Nat /\ child[k].life <= life
      BY <1>2 DEF ChildRows
    <3> QED BY <1>1, <3>1
  <2>5. \A j, k \in DOMAIN child' : child'[j].id = child'[k].id /\ child'[j].life = child'[k].life => j = k
    BY <1>1, <1>4, <2>3 DEF TablesFit
  <2>6. \A k \in DOMAIN child' : ChildSound(child'[k])
    BY <1>4
  <2>7. \A e \in Executions : record'[e] = NoRecord
    BY <1>3
  <2> QED BY <1>4, <2>1, <2>2, <2>4, <2>5, <2>6, <2>7 DEF TablesFit
<1>6. ASSUME NEW c \in Remotes PROVE (handle[c] \in Handles /\ HandleFits(handle[c], record, child))'
  <2>1. handle'[c] \in Handles /\ HandleFits(handle'[c], record, child)
    <3>1. CASE call[c] = NoMessage
      BY <1>3, <3>1, CallerRow
    <3>2. CASE call[c] # NoMessage
      <4>1. handle'[c] = Hears(handle[c], call[c], Uncertain)
        BY <1>3, <3>2
      <4>2. Answered(Uncertain, call[c].id, record)
        BY DEF Answered
      <4> QED BY <3>2, <4>1, <4>2, CallerRow, HearsKeeps
    <3> QED BY <3>1, <3>2
  <2>2. EndedWell(handle'[c], child) => EndedWell(handle'[c], child')
    BY <1>4 DEF EndedWell, ChildGoesOn
  <2>3. handle'[c].since \in Nat
    BY <2>1 DEF Handles, OwnHandles, NoHandle
  <2>4. handle'[c].since <= life' /\ handle'[c].since # life'
    BY <1>1, <1>3, <2>1, <2>3 DEF HandleFits
  <2> QED BY <2>1, <2>2, <2>4 DEF HandleFits, EndedWell
<1>7. /\ life' \in Nat \ {0} /\ call' \in [Remotes -> Messages \cup {NoMessage}] /\ handle' \in [Remotes -> Handles]
      /\ lateCalls' \subseteq Messages /\ \A c \in Remotes : call'[c] = NoMessage
  BY <1>1, <1>3, <1>6
<1>8. (\A c \in Remotes : HandleFits(handle[c], record, child))'
  BY <1>6
<1>9. (\A c \in Remotes : CallFits(call[c], handle[c]) /\ (call[c] # NoMessage => MessageFits(call[c], record)))'
  BY <1>7 DEF CallFits
<1>10. (\A m \in lateCalls : MessageFits(m, record))'
  BY <1>3
<1> QED BY <1>5, <1>7, <1>8, <1>9, <1>10 DEF WgInv

\* What the invariant promises.
LEMMA GatewayIsKept == WgInv => GatewaySound
<1> SUFFICES ASSUME WgInv PROVE GatewaySound
  OBVIOUS
<1>1. TablesFit(record, child) /\ life \in Nat \ {0}
  BY DEF WgInv
<1>2. OneChildEach
  BY <1>1 DEF OneChildEach, TablesFit
<1>3. \A e \in Executions : record[e] # NoRecord => RecordFits(e, record[e], child)
  BY <1>1 DEF TablesFit
<1>4. \A c \in Remotes : handle[c] \in Handles /\ HandleFits(handle[c], record, child)
  BY CallerRow
<1>5. RecordsEnd
  <2> SUFFICES ASSUME NEW e \in Executions, record[e] # NoRecord
               PROVE  /\ (record[e].result # "none") = child[record[e].child].closed
                      /\ child[record[e].child].digest = record[e].digest
    BY DEF RecordsEnd
  <2>1. child[record[e].child].closed \in BOOLEAN
    BY <1>1, ChildOfRecord DEF ChildRows
  <2> QED BY <1>3, <2>1 DEF RecordFits
<1>6. NothingLeftBehind /\ CancelIsOwn
  BY <1>1 DEF NothingLeftBehind, CancelIsOwn, TablesFit, ChildSound
<1>7. ToldTheSame
  BY <1>4 DEF ToldTheSame, HandleFits
<1>8. ToldTheTruth
  <2> SUFFICES ASSUME NEW c \in Remotes
               PROVE  /\ Cardinality(handle[c].told \cap Definite) <= 1
                      /\ handle[c].told \cap Definite # {} /\ handle[c].since = life =>
                            \E k \in ChildOf(handle[c]) : ~child[k].running /\ BoundResult(child[k]) \in handle[c].told
                      /\ "succeeded" \in handle[c].told => EndedWell(handle[c], child)
    BY DEF ToldTheTruth, EndedWell
  <2>1. handle[c].told \cap Definite \subseteq {handle[c].result}
    BY <1>4 DEF HandleFits
  <2>2. Cardinality(handle[c].told \cap Definite) <= 1
    <3>1. CASE handle[c].told \cap Definite = {}
      BY <3>1, FS_EmptySet
    <3>2. CASE handle[c].told \cap Definite = {handle[c].result}
      <4>1. Cardinality({handle[c].result}) = 1
        BY FS_Singleton
      <4> QED BY <3>2, <4>1
    <3> QED BY <2>1, <3>1, <3>2
  <2>3. ASSUME handle[c].told \cap Definite # {}, handle[c].since = life
        PROVE  \E k \in ChildOf(handle[c]) : ~child[k].running /\ BoundResult(child[k]) \in handle[c].told
    <3> DEFINE h == handle[c]
               k == record[h.id].child
    <3>1. h.result \in h.told /\ h.result \in Definite /\ h.result # "none"
      BY <2>1, <2>3 DEF Definite
    <3>2. h.id \in Executions /\ record[h.id] # NoRecord /\ record[h.id].digest = h.digest /\ record[h.id].result = h.result
      BY <1>4, <2>3, <3>1 DEF HandleFits
    <3>3. RecordFits(h.id, record[h.id], child) /\ ChildSound(child[k])
      BY <1>1, <1>3, <3>2, ChildOfRecord
    <3>4. /\ k \in DOMAIN child /\ child[k].id = h.id /\ child[k].life = life /\ child[k].digest = h.digest
          /\ BoundResult(child[k]) = h.result /\ child[k].result # "none"
      BY <3>1, <3>2, <3>3 DEF RecordFits
    <3>5. child[k].result # "unknown_outcome"
      BY <3>1, <3>4 DEF BoundResult, Definite
    <3>6. ~child[k].running
      BY <3>3, <3>4, <3>5 DEF ChildSound
    <3>7. k \in ChildOf(handle[c])
      BY <2>3, <3>4 DEF ChildOf
    <3> QED BY <3>1, <3>4, <3>6, <3>7
  <2>4. "succeeded" \in handle[c].told => EndedWell(handle[c], child)
    BY <1>4 DEF HandleFits
  <2> QED BY <2>2, <2>3, <2>4
<1> QED BY <1>1, <1>2, <1>5, <1>6, <1>7, <1>8 DEF GatewaySound, TablesFit

-----------------------------------------------------------------------------
(* The gateway: the theorems *)

\* WgInv is an invariant, for any callers, requests, losses and lives of the gateway.
THEOREM GatewayInvariant == WgSpec => []WgInv
<1>1. WgInit => WgInv
  <2> SUFFICES ASSUME WgInit PROVE WgInv
    OBVIOUS
  <2>1. {e \in Executions : record[e] # NoRecord} = {} /\ record \in [Executions -> Records] /\ child \in Seq(ChildRows)
        /\ DOMAIN child = {} /\ life = 1
    BY ToNone DEF WgInit
  <2>2. TablesFit(record, child)
    <3>1. IsFiniteSet({}) /\ Cardinality({}) <= MaxRecords
      BY FS_EmptySet, WgAssumption
    <3>2. \A e \in Executions : record[e] = NoRecord
      BY DEF WgInit
    <3> QED BY <2>1, <3>1, <3>2 DEF TablesFit
  <2>3. \A c \in Remotes : handle[c] = NoHandle /\ call[c] = NoMessage
    BY DEF WgInit
  <2>4. HandleFits(NoHandle, record, child)
    BY <2>1 DEF HandleFits, NoHandle
  <2>5. /\ call \in [Remotes -> Messages \cup {NoMessage}] /\ handle \in [Remotes -> Handles] /\ lateCalls = {}
    BY ToNone DEF WgInit
  <2> QED BY <2>1, <2>2, <2>3, <2>4, <2>5 DEF WgInv, CallFits
<1>2. WgInv /\ [WgNext]_wgVars => WgInv'
  <2> SUFFICES ASSUME WgInv, [WgNext]_wgVars PROVE WgInv'
    OBVIOUS
  <2>1. CASE WgNext
    BY <2>1, CallersKeep, ServeKeeps, LateKeeps, ChildEndsKeeps, RestartKeeps DEF WgNext
  <2>2. CASE UNCHANGED wgVars
    BY <2>2 DEF wgVars, WgInv, TablesFit, RecordFits, HandleFits, EndedWell, MessageFits, CallFits
  <2> QED BY <2>1, <2>2
<1> QED BY <1>1, <1>2, PTL DEF WgSpec

\* GatewaySound is an invariant (src/src/paperclaw/executor/gateway.py, http_gateway.py,
\* subprocess.py): however requests are lost, repeated or late, a gateway process starts one
\* child for an execution id, a caller that is told of success is told of a child that ended
\* well with its own request, two callers are told the same, a cancellation is of a caller of
\* the same request, and a record ends with its handle closed.
THEOREM GatewayIsSound == WgSpec => []GatewaySound
  BY GatewayInvariant, GatewayIsKept, PTL
=============================================================================
