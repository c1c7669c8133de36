------------------------------ MODULE ModelCalls ------------------------------
(***************************************************************************)
(* One turn of a model, as a caller that has several gets it.  The router     *)
(* (src/src/paperclaw/model_policy/router.py) turns a profile of the request  *)
(* and the configured candidates into a chain; the client (models/adapters/   *)
(* openai_compat.py) asks one model, with the retries and the delays of       *)
(* models/reliability.py; when it fails the caller says what kind of failure  *)
(* that was and asks the router for the next model of the chain.              *)
(*                                                                          *)
(* Names of models are numbers in the order of the names.  A provider answers *)
(* anything a provider can answer, or breaks off in a way that no clause of   *)
(* the client expects.                                                       *)
(***************************************************************************)
EXTENDS Integers, Sequences, FiniteSets
LOCAL INSTANCE SequencesExt

CONSTANTS
    Configured,    \* sets of candidates that may be configured
    Profiles,      \* request profiles
    AttemptLimit,   \* RetryPolicy.max_attempts
    BaseDelay, MaxDelay, RespectRetryAfter,
    RetryAfters    \* values of a Retry-After header; -1 when there is none

VARIABLES
    profile, candidates,
    decision,   \* the chain of the decision, or why there is none
    turn,       \* the request to a model: its model, attempt, time slept, outcome
    answers,    \* of what the provider answered in this turn, what was worth a retry
    tried       \* FallbackAttempts of the caller

mdVars == <<profile, candidates, decision, turn, answers, tried>>

Undecided == [error |-> "none", chain |-> <<>>]
NoTurn == [model |-> 0, attempt |-> 0, slept |-> 0, at |-> "idle", error |-> "none"]

-----------------------------------------------------------------------------
(* Routing *)

\* estimate_cost_usd, in units of the prices
CostOf(c) == profile.input * c.inputPrice + profile.output * c.outputPrice

\* Mutant of Excluded: the window must hold what is read, not what is to be written as well.
InputFits(c) ==
    \/ ~c.enabled \/ ~(profile.needs \subseteq c.abilities) \/ c.window < profile.input
    \/ profile.structured /\ ~c.structured
    \/ profile.ceiling >= 0 /\ CostOf(c) > profile.ceiling

\* _exclusion_reason is not None
Excluded(c) ==
    \/ ~c.enabled
    \/ ~(profile.needs \subseteq c.abilities)
    \/ c.window < profile.input + profile.output
    \/ profile.structured /\ ~c.structured
    \/ profile.ceiling >= 0 /\ CostOf(c) > profile.ceiling

\* _sort_key
Preferred(c, d) ==
    \/ c.rank < d.rank
    \/ c.rank = d.rank /\ CostOf(c) < CostOf(d)
    \/ c.rank = d.rank /\ CostOf(c) = CostOf(d) /\ c.name < d.name

Named(name) == CHOOSE c \in candidates : c.name = name

\* route: the eligible candidates in order, the explicit one first, cut at the limit.
Route ==
    /\ turn.at = "idle" /\ decision = Undecided
    /\ LET eligible == SetToSortSeq({c \in candidates : ~Excluded(c)}, Preferred)
           explicit == profile.explicit
           others == SelectSeq(eligible, LAMBDA c : c.name # explicit)
           all == IF explicit = 0 THEN eligible ELSE <<Named(explicit)>> \o others
           limit == IF profile.fallback THEN profile.most ELSE 1
           error == CASE explicit # 0 /\ ~(\E c \in candidates : c.name = explicit) -> "EXPLICIT_MODEL_NOT_FOUND"
                      [] explicit # 0 /\ (\E c \in candidates : c.name = explicit /\ Excluded(c)) -> "EXPLICIT_MODEL_INELIGIBLE"
                      [] explicit = 0 /\ eligible = <<>> -> "NO_ELIGIBLE_MODEL"
                      [] OTHER -> "none"
       IN IF error # "none"
          THEN decision' = [error |-> error, chain |-> <<>>] /\ UNCHANGED turn
          ELSE LET chain == [i \in 1..(IF limit < Len(all) THEN limit ELSE Len(all)) |-> all[i].name]
               IN /\ decision' = [error |-> "none", chain |-> chain]
                  /\ turn' = [NoTurn EXCEPT !.model = chain[1], !.attempt = 1, !.at = "request"]
    /\ UNCHANGED <<profile, candidates, answers, tried>>

-----------------------------------------------------------------------------
(* One model *)

\* classify_http_error, for a status of each kind
Statuses == {400, 401, 403, 404, 408, 413, 418, 429, 503, 507}
HttpError(status) ==
    CASE status = 400 -> [code |-> "INVALID_REQUEST", retriable |-> FALSE]
      [] status = 401 -> [code |-> "AUTHENTICATION_FAILED", retriable |-> FALSE]
      [] status = 403 -> [code |-> "PERMISSION_DENIED", retriable |-> FALSE]
      [] status = 404 -> [code |-> "MODEL_OR_ENDPOINT_NOT_FOUND", retriable |-> FALSE]
      [] status = 413 -> [code |-> "REQUEST_TOO_LARGE", retriable |-> FALSE]
      [] status = 429 -> [code |-> "RATE_LIMITED", retriable |-> TRUE]
      [] status \in {408, 409, 425, 500, 502, 503, 504} -> [code |-> "PROVIDER_TEMPORARILY_UNAVAILABLE", retriable |-> TRUE]
      [] status \in (500..599) \ {500, 502, 503, 504} -> [code |-> "PROVIDER_SERVER_ERROR", retriable |-> TRUE]
      [] OTHER -> [code |-> "PROVIDER_HTTP_ERROR", retriable |-> FALSE]

\* normalize_provider_response: what a response that is no answer is called; all of it is asked for again.
BadResponse == {[code |-> c, retriable |-> TRUE] : c \in {"INVALID_PROVIDER_RESPONSE", "THINKING_ONLY_RESPONSE",
                                                          "EMPTY_PROVIDER_RESPONSE"}}
NetworkError == [code |-> "PROVIDER_NETWORK_ERROR", retriable |-> TRUE]

\* _request_once: the errors it raises, those of HTTP with the Retry-After they came with
Failures ==
    {[error |-> e, after |-> -1] : e \in BadResponse \union {NetworkError}}
        \union {[error |-> HttpError(s), after |-> a] : s \in Statuses, a \in RetryAfters}

PowerOfTwo[n \in Nat] == IF n = 0 THEN 1 ELSE 2 * PowerOfTwo[n - 1]
LesserOf(a, b) == IF a < b THEN a ELSE b
GreaterOf(a, b) == IF a < b THEN b ELSE a

\* Mutant of DelayBefore: Retry-After is taken as it comes.
DelayAsAsked(attempt, after) ==
    GreaterOf(LesserOf(MaxDelay, BaseDelay * PowerOfTwo[attempt - 2]), IF RespectRetryAfter /\ after >= 0 THEN after ELSE 0)

\* delay_before_attempt: exponential, at least what the provider asks for, at most the maximum
DelayBefore(attempt, after) ==
    LET exponential == LesserOf(MaxDelay, BaseDelay * PowerOfTwo[attempt - 2])
    IN LesserOf(MaxDelay, IF RespectRetryAfter /\ after >= 0 THEN GreaterOf(exponential, after) ELSE exponential)

\* complete: the provider's answer is the turn ...
TurnAnswered ==
    /\ turn.at = "request"
    /\ turn' = [turn EXCEPT !.at = "done"]
    /\ answers' = Append(answers, FALSE)
    /\ UNCHANGED <<profile, candidates, decision, tried>>

\* ... a failure ends it when it is final or the attempts are used up, and is slept on otherwise ...
Fail ==
    /\ turn.at = "request"
    /\ \E f \in Failures :
        /\ answers' = Append(answers, f.error.retriable)
        /\ turn' = IF ~f.error.retriable \/ turn.attempt >= AttemptLimit
                   THEN [turn EXCEPT !.at = "failed", !.error = f.error.code]
                   ELSE [turn EXCEPT !.attempt = @ + 1, !.slept = @ + DelayBefore(turn.attempt + 1, f.after)]
    /\ UNCHANGED <<profile, candidates, decision, tried>>

\* ... and an exception no clause names (a body that breaks off) leaves complete as it is, without a retry.
Escape ==
    /\ turn.at = "request"
    /\ answers' = Append(answers, FALSE)
    /\ turn' = [turn EXCEPT !.at = "failed", !.error = "escaped"]
    /\ UNCHANGED <<profile, candidates, decision, tried>>

-----------------------------------------------------------------------------
(* Falling back *)

Categories == {"network", "rate_limit", "server_error", "authentication", "context_overflow", "unknown"}
FallbackAllowed == {"network", "rate_limit", "server_error"}

\* Mutant of NextFallback: what was tried is not remembered.
FallbackAgain(history) ==
    IF history[Len(history)].category \notin FallbackAllowed \/ Len(decision.chain) < 2 THEN 0 ELSE decision.chain[2]

\* next_fallback: 0 when there is none
NextFallback(history) ==
    LET left == SelectSeq(Tail(decision.chain), LAMBDA name : \A i \in DOMAIN history : history[i].name # name)
    IN IF history[Len(history)].category \notin FallbackAllowed \/ left = <<>> THEN 0 ELSE left[1]

\* The caller: it names the failure, and asks the next model or gives up.
FallBack ==
    /\ turn.at = "failed"
    /\ \E category \in Categories :
        LET history == Append(tried, [name |-> turn.model, category |-> category])
            next == NextFallback(history)
        IN /\ tried' = history
           /\ IF next = 0 THEN turn' = [turn EXCEPT !.at = "given up"] /\ UNCHANGED answers
              ELSE /\ turn' = [NoTurn EXCEPT !.model = next, !.attempt = 1, !.at = "request"]
                   /\ answers' = <<>>
    /\ UNCHANGED <<profile, candidates, decision>>

-----------------------------------------------------------------------------

MdInit ==
    /\ profile \in Profiles /\ candidates \in Configured
    /\ decision = Undecided /\ turn = NoTurn /\ answers = <<>> /\ tried = <<>>

MdNext == Route \/ TurnAnswered \/ Fail \/ Escape \/ FallBack

MdSpec == MdInit /\ [][MdNext]_mdVars

-----------------------------------------------------------------------------
(* Properties *)

ModelTypeOK ==
    /\ profile \in Profiles /\ candidates \in Configured
    /\ turn.at \in {"idle", "request", "done", "failed", "given up"}
    /\ turn.attempt \in 0..AttemptLimit /\ turn.slept \in Nat

(* A turn asks a provider at most max_attempts times, never again after an answer or a final error, sleeps at *)
(* most the longest delay before each attempt whatever the provider asks for, and as long as it could retry   *)
(* an error it did.                                                                                        *)
RetriesBounded ==
    /\ Len(answers) <= AttemptLimit
    /\ turn.slept <= (AttemptLimit - 1) * MaxDelay
    /\ \A i \in 1..(Len(answers) - 1) : answers[i]
    /\ turn.at = "failed" /\ answers[Len(answers)] => Len(answers) = AttemptLimit

(* Whatever fails, each model asked could serve the request within its ceiling and its window, none is asked *)
(* twice, no more than the profile allows, an explicit model is asked first and never replaced for being        *)
(* unfit, and a model after the first only when the one before it failed for a passing reason.                  *)
FallbacksFit ==
    LET asked == [i \in 1..Len(tried) |-> tried[i].name]
                    \o (IF turn.at \in {"request", "done", "failed"} THEN <<turn.model>> ELSE <<>>)
    IN /\ Len(asked) <= (IF profile.fallback THEN profile.most ELSE 1)
       /\ \A i \in DOMAIN asked :
            LET c == Named(asked[i])
            IN /\ c.enabled /\ profile.needs \subseteq c.abilities /\ c.window >= profile.input + profile.output
               /\ profile.structured => c.structured
               /\ profile.ceiling >= 0 => CostOf(c) <= profile.ceiling
       /\ \A i, j \in DOMAIN asked : i # j => asked[i] # asked[j]
       /\ asked # <<>> /\ profile.explicit # 0 => asked[1] = profile.explicit
       /\ \A i \in 1..(Len(asked) - 1) : tried[i].category \in FallbackAllowed

(* A turn is asked for within its budget of attempts and of models, and only of models fit for it.           *)
ModelCallsSound == ModelTypeOK /\ RetriesBounded /\ FallbacksFit
=============================================================================
