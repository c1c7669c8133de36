----------------------------- MODULE TeamVerdicts -----------------------------
(***************************************************************************)
(* Who says that a team's work is done (src/src/paperclaw/multiagent/): the   *)
(* worker, whose deterministic verification and semantic judge look at one    *)
(* task (worker.py, semantic_judge.py), the reviewer, whose findings become   *)
(* tasks of their own (reviewer.py), and the gate that compares what several  *)
(* tasks report (global_verify.py).                                           *)
(*                                                                          *)
(* Evidence is its canonical text; the order of a round is any order the      *)
(* dependencies allow, and a round may be stopped by a budget or a caller.    *)
(***************************************************************************)
EXTENDS Integers, Sequences, FiniteSets
LOCAL INSTANCE SequencesExt

CONSTANTS
    TaskPlan,      \* the tasks: their dependencies and the file each is to leave, if any
    Mentions,      \* Mentions[t]: tasks whose names the text about task t may contain
    Gated, Judged, \* enable_verification_gate, judge_model_factory is not None
    MaxAttempts,   \* SemanticJudgePolicy.max_attempts
    FixRounds,     \* max_fix_rounds
    Claims         \* sets of claims a caller may make: [by, rule, required]

ASSUME MaxAttempts \in 1..2 /\ FixRounds \in Nat /\ {Gated, Judged} \subseteq BOOLEAN

VARIABLES
    items,    \* all_tasks: dependencies, expected file, and what a fix task is for
    judgment,  \* every task: how far its worker is, verification, judgments, status
    existing, \* expected files that are there
    phase,    \* "round", "review", "gate" or "done"
    round,    \* fix_round_count
    stopped,  \* the coordinator's stop reason
    gate      \* the global report, and the stop reason in effect

tvVars == <<items, judgment, existing, phase, round, stopped, gate>>

NoVerdict == [pc |-> "waiting", check |-> "none", votes |-> <<>>, status |-> "none"]
NoGate == [status |-> "none", claims |-> {}, evidence |-> <<>>, passed |-> {}, failed |-> {}, uncovered |-> {}, stop |-> "none"]
ExpectedFiles == {items[t].file : t \in DOMAIN items} \ {"none"}
Done(t) == judgment[t].status = "completed"
Current == {t \in DOMAIN items : items[t].round = round}

-----------------------------------------------------------------------------
(* One worker *)

\* Its dependencies are completed.
StartWorker(t) ==
    /\ phase = "round" /\ t \in Current /\ judgment[t].pc = "waiting"
    /\ \A d \in items[t].deps : Done(d)
    /\ judgment' = [judgment EXCEPT ![t].pc = "works"]
    /\ UNCHANGED <<items, existing, phase, round, stopped, gate>>

\* The agent ends with the status of _derive_worker_status, and may have left its file.
\* Failed verification is final, and only completed work is shown to the judge.
AgentEnded(t, status, check, wrote) ==
    /\ phase = "round" /\ judgment[t].pc = "works"
    /\ ~Gated => check = "none"
    /\ existing' = existing \cup (IF wrote THEN {items[t].file} \ {"none"} ELSE {})
    /\ LET kept == IF Gated /\ status = "completed" /\ check = "failed" THEN "failed" ELSE status
       IN  judgment' = [judgment EXCEPT ![t].check = check, ![t].status = IF kept = "completed" /\ Judged THEN "none" ELSE kept,
                                      ![t].pc = IF kept = "completed" /\ Judged THEN "judged" ELSE "ended"]
    /\ UNCHANGED <<items, phase, round, stopped, gate>>

\* Mutant of Evaluated: an answer after a failed call counts as the confirmation.
RetryConfirms(votes) ==
    LET n == Len(votes)  last == votes[n]
    IN  CASE last = "transient" -> IF n < MaxAttempts THEN "more" ELSE "transient_error"
          [] last = "permanent" -> "provider_error"
          [] last = "unreadable" -> "protocol_error"
          [] last = "passed" -> IF \E i \in 1..(n - 1) : votes[i] = "rejected" THEN "inconclusive" ELSE "passed"
          [] last = "rejected" -> IF n > 1 THEN "rejected" ELSE IF n < MaxAttempts THEN "more" ELSE "inconclusive"

\* evaluate: what the calls so far amount to.
Evaluated(votes) ==
    LET n == Len(votes)  last == votes[n]
        rejected == \E i \in 1..(n - 1) : votes[i] = "rejected"
    IN  CASE last = "transient" -> IF n < MaxAttempts THEN "more" ELSE "transient_error"
          [] last = "permanent" -> "provider_error"
          [] last = "unreadable" -> "protocol_error"
          [] last = "passed" -> IF rejected THEN "inconclusive" ELSE "passed"
          [] last = "rejected" -> IF rejected THEN "rejected" ELSE IF n < MaxAttempts THEN "more" ELSE "inconclusive"

\* Only a rejection fails the task; a judge that could not say blocks it.
JudgeAnswers(t, answer) ==
    /\ phase = "round" /\ judgment[t].pc = "judged"
    /\ LET votes == Append(judgment[t].votes, answer)  is == Evaluated(votes)
       IN  judgment' = [judgment EXCEPT ![t].votes = votes, ![t].pc = IF is = "more" THEN "judged" ELSE "ended",
                          ![t].status = CASE is = "more" -> "none" [] is = "passed" -> "completed"
                                          [] is = "rejected" -> "failed" [] OTHER -> "blocked"]
    /\ UNCHANGED <<items, existing, phase, round, stopped, gate>>

-----------------------------------------------------------------------------
(* The team *)

\* Nothing runs, and nothing can be started.
RoundEnded ==
    /\ phase = "round"
    /\ \A t \in Current : judgment[t].pc \notin {"works", "judged"}
    /\ \A t \in Current : judgment[t].pc = "waiting" => \E d \in items[t].deps : ~Done(d)
    /\ LET all == \A t \in Current : Done(t)
       IN  /\ phase' = IF all THEN "review" ELSE "gate"
           /\ stopped' = IF all THEN "all_tasks_completed" ELSE "blocked"
    /\ UNCHANGED <<items, judgment, existing, round, gate>>

\* The budget is exhausted, or the run is cancelled; workers are told to end.
RoundStopped(why) ==
    /\ phase = "round"
    /\ \E t \in Current : judgment[t].pc # "ended"
    /\ judgment' = [t \in DOMAIN judgment |->
                     IF judgment[t].pc = "ended" THEN judgment[t] ELSE [judgment[t] EXCEPT !.pc = "ended", !.status = "cancelled"]]
    /\ phase' = "gate" /\ stopped' = why
    /\ UNCHANGED <<items, existing, round, gate>>

\* review: a verification that did not pass blocks, a file that is missing asks for changes.
Blockers == {t \in DOMAIN items : judgment[t].check = "failed"}
Missing == {t \in DOMAIN items : items[t].file # "none" /\ items[t].file \notin existing}
ReviewVerdict == IF Blockers # {} THEN "blocked" ELSE IF Missing # {} THEN "request_changes" ELSE "approve"

\* create_fix_tasks: one for every finding.  Its parent is the first task whose name the
\* finding contains, and it inherits the parent's dependencies and no expected file.
FixTask(t, kind, named) ==
    LET parents == {u \in DOMAIN items : u \in named}
        parent == IF parents = {} THEN 0 ELSE CHOOSE u \in parents : \A w \in parents : u <= w
    IN  [deps |-> IF parent = 0 THEN {} ELSE items[parent].deps, file |-> "none", round |-> round + 1, fixes |-> <<kind, t>>]

Approve ==
    /\ phase = "review" /\ ReviewVerdict = "approve"
    /\ phase' = "gate"
    /\ UNCHANGED <<items, judgment, existing, round, stopped, gate>>

GiveUpReview ==
    /\ phase = "review" /\ ReviewVerdict # "approve" /\ round >= FixRounds
    /\ phase' = "gate"
    /\ stopped' = IF ReviewVerdict = "blocked" THEN "blocked" ELSE "reflection_limit"
    /\ UNCHANGED <<items, judgment, existing, round, gate>>

\* The text of a finding may name other tasks than its own, or none.
StartFixRound ==
    /\ phase = "review" /\ ReviewVerdict # "approve" /\ round < FixRounds
    /\ LET findings == [k \in 1..Cardinality(Blockers) |-> [t |-> SetToSortSeq(Blockers, <)[k], kind |-> "blocker"]]
                       \o [k \in 1..Cardinality(Missing) |-> [t |-> SetToSortSeq(Missing, <)[k], kind |-> "missing"]]
       IN  \E named \in [DOMAIN findings -> SUBSET DOMAIN items] :
            /\ \A k \in DOMAIN findings : named[k] \subseteq Mentions[findings[k].t]
            /\ items' = items \o [k \in DOMAIN findings |-> FixTask(findings[k].t, findings[k].kind, named[k])]
            /\ judgment' = judgment \o [k \in DOMAIN findings |-> NoVerdict]
    /\ round' = round + 1 /\ phase' = "round"
    /\ UNCHANGED <<existing, stopped, gate>>

-----------------------------------------------------------------------------
(* GlobalVerifyCoordinator.run *)

ClaimSays(c, evidence) ==
    IF \E t \in c.by : ~Done(t) THEN "failed"
    ELSE IF \E t \in c.by : evidence[t] = "none" THEN IF c.required THEN "uncovered" ELSE "passed"
    ELSE IF c.rule = "all_equal" /\ Cardinality({evidence[t] : t \in c.by}) # 1 THEN "failed"
    ELSE "passed"

GateReport(claims, evidence) ==
    LET says(s) == {c \in claims : ClaimSays(c, evidence) = s}
    IN  [status |-> IF claims = {} THEN "incomplete" ELSE IF says("failed") # {} THEN "failed"
                    ELSE IF says("uncovered") # {} THEN "incomplete" ELSE "passed",
         claims |-> claims, evidence |-> evidence,
         passed |-> says("passed"), failed |-> says("failed"), uncovered |-> says("uncovered"), stop |-> "none"]

\* Skipped unless the team completed; a report that is not accepted blocks the team.
PassGate(claims, evidence) ==
    /\ phase = "gate"
    /\ phase' = "done"
    /\ gate' = IF stopped # "all_tasks_completed" THEN [NoGate EXCEPT !.status = "skipped", !.stop = stopped]
               ELSE LET report == GateReport(claims, evidence)
                    IN  [report EXCEPT !.stop = IF report.status = "passed" THEN stopped ELSE "blocked"]
    /\ UNCHANGED <<items, judgment, existing, round, stopped>>

-----------------------------------------------------------------------------
TvInit ==
    /\ items = [t \in DOMAIN TaskPlan |-> [deps |-> TaskPlan[t].deps, file |-> TaskPlan[t].file, round |-> 0, fixes |-> <<>>]]
    /\ judgment = [t \in DOMAIN TaskPlan |-> NoVerdict]
    /\ existing = {} /\ phase = "round" /\ round = 0 /\ stopped = "none" /\ gate = NoGate

TvNext ==
    \/ \E t \in DOMAIN items :
          \/ StartWorker(t)
          \/ \E status \in {"completed", "failed", "blocked", "cancelled"}, check \in {"none", "passed", "failed"}, wrote \in BOOLEAN :
                AgentEnded(t, status, check, wrote)
          \/ \E answer \in {"passed", "rejected", "unreadable", "transient", "permanent"} : JudgeAnswers(t, answer)
    \/ RoundEnded \/ Approve \/ GiveUpReview \/ StartFixRound
    \/ \E why \in {"budget_exhausted", "cancelled"} : RoundStopped(why)
    \/ \E claims \in Claims, evidence \in [DOMAIN TaskPlan -> {"none", "a", "b"}] : PassGate(claims, evidence)

TvSpec == TvInit /\ [][TvNext]_tvVars

-----------------------------------------------------------------------------
VerdictsTypeOK ==
    /\ phase \in {"round", "review", "gate", "done"} /\ round \in 0..FixRounds
    /\ DOMAIN judgment = DOMAIN items
    /\ \A t \in DOMAIN items : items[t].deps \subseteq DOMAIN items /\ Len(judgment[t].votes) <= MaxAttempts

Votes(t, answer) == Cardinality({i \in DOMAIN judgment[t].votes : judgment[t].votes[i] = answer})

\* What a task's judgment rests on.
TasksAreJudged ==
    \A t \in DOMAIN judgment :
        /\ Done(t) /\ Gated => judgment[t].check # "failed"
        /\ Done(t) /\ Judged => Votes(t, "passed") = 1 /\ Votes(t, "rejected") = 0
        /\ judgment[t].status = "failed" /\ judgment[t].votes # <<>> => Votes(t, "rejected") = 2
        /\ judgment[t].pc # "ended" => judgment[t].status = "none"

\* What the success of a team, and the acceptance of its claims, rest on.
SuccessIsReviewed ==
    /\ phase = "review" => Blockers = {}
    /\ phase \in {"gate", "done"} /\ stopped = "all_tasks_completed" =>
          /\ \A t \in DOMAIN items : Done(t) /\ judgment[t].check # "failed"
          /\ ExpectedFiles \subseteq existing
    /\ phase = "done" /\ gate.stop = "all_tasks_completed" =>
          /\ gate.claims # {}
          /\ \A c \in gate.claims : \A t \in c.by : Done(t) /\ (c.required => gate.evidence[t] # "none")
          /\ \A c \in gate.claims, t, u \in DOMAIN TaskPlan :
                c.required /\ c.rule = "all_equal" /\ {t, u} \subseteq c.by => gate.evidence[t] = gate.evidence[u]
    /\ phase = "done" => /\ gate.stop \in {stopped, "blocked"}
                         /\ gate.claims = gate.passed \cup gate.failed \cup gate.uncovered

\* A fix task waits for nothing that is still to be done, whomever it takes for its parent.
FixesCanRun ==
    \A t \in DOMAIN items : items[t].round > 0 => \A d \in items[t].deps : Done(d) /\ items[d].round < items[t].round

(***************************************************************************)
(* A task is completed when neither its verification nor a judge's answer   *)
(* speaks against it, and fails on a judge's word only after two rejections; *)
(* a failed call of the judge is no vote.  A team succeeds when the reviewer *)
(* found every result and every file in order, and with a global gate when  *)
(* the tasks that a required claim names all report, and report the same.    *)
(* Fix tasks are never stuck behind what they are to repair.                 *)
(***************************************************************************)
VerdictsSound == VerdictsTypeOK /\ TasksAreJudged /\ SuccessIsReviewed /\ FixesCanRun
=============================================================================
