------------------------------ MODULE LlmRetry ------------------------------
(***************************************************************************)
(* The OpenAI-compatible LLM adapter: Client.Complete with its retry loop  *)
(* (src/adapters/llmopenai/client.go), the classification of failures and  *)
(* the retry budget (src/domain/llm_classify.go).                          *)
(*                                                                         *)
(* A turn calls Complete once per round, one call after the other, on one  *)
(* client, while the context of the turn may be cancelled or expire and    *)
(* another goroutine may close the client.  The provider is external: it   *)
(* answers anything.  A provider's error text is the set of word groups    *)
(* (the regular expressions of the classifier) that match it.              *)
(***************************************************************************)
EXTENDS Integers, Sequences

CONSTANTS MaxAttempts,   \* RetryPolicy.MaxAttempts
          MaxExtraMS,    \* MaxExtraMS of budgetForCall, where zero has become the default
          BaseDelayMS, MaxDelayMS, Jitter,   \* RetryPolicy
          RetryAfters,   \* the values of a Retry-After header, in ms
          Statuses,      \* the HTTP statuses of the provider
          Texts,         \* the error texts of the provider: sets of Words
          OwnsHTTP,      \* the client made its own HTTP client
          MaxCalls       \* bound: calls of one turn

Words == {"quota", "bill", "rate", "ctx", "filter", "tool", "toolCode", "over", "capacity"}

ASSUME LlmRetryAssumption ==
  /\ MaxAttempts \in Nat /\ MaxCalls \in Nat
  /\ MaxExtraMS \in Int /\ BaseDelayMS \in Int /\ MaxDelayMS \in Int
  /\ RetryAfters \subseteq Nat /\ Statuses \subseteq 400..599
  /\ Texts \subseteq SUBSET Words
  /\ Jitter \in BOOLEAN /\ OwnsHTTP \in BOOLEAN

VARIABLES
  pc,          \* where the call is
  calls,       \* Complete calls begun in this turn
  attempt,     \* attempt
  budget,      \* RetryBudget of the call: AttemptsUsed, MSUsed
  delay,       \* the delay of the retry decided last
  result,      \* how the call ended
  ctx,         \* the context of the turn
  closed,      \* Client.closed
  httpClosed,  \* the HTTP client is closed
  badBody,     \* history: the call ended on an answer that is no JSON object
  journal,     \* history: the llm.round events of the call
  tries,       \* history: requests of the call handed to the HTTP port
  final,       \* history: the try whose answer said that the quota is used up
  late         \* history: requests begun after the end of the turn's context

envVars == <<ctx, closed, httpClosed>>
vars == <<pc, calls, attempt, budget, delay, result, envVars, badBody, journal, tries, final,
          late>>
-----------------------------------------------------------------------------
Classes == {"rate_limit", "quota_exhausted", "auth", "context_length", "content_filter",
            "provider_overload", "provider_unavailable", "timeout", "invalid_request",
            "tool_schema", "unknown"}

\* byCode[ErrorCodeForClass(c)].retryable
Retryable(c) == c \in {"rate_limit", "provider_overload", "provider_unavailable", "timeout"}

Results == Classes \cup {"none", "ok", "config", "closed", "cancelled", "deadline"}

TypeOK ==
  /\ pc \in {"idle", "head", "request", "waiting", "sleep"}
  /\ calls \in 0..MaxCalls
  /\ attempt \in 0..MaxAttempts
  /\ budget \in [used : 0..MaxAttempts, ms : Nat]
  /\ delay \in Nat
  /\ result \in Results
  /\ ctx \in {"live", "cancelled", "deadline"}
  /\ closed \in BOOLEAN /\ httpClosed \in BOOLEAN /\ badBody \in BOOLEAN
  /\ journal \in Seq([attempt : Nat, ok : BOOLEAN])
  /\ tries \in Nat /\ final \in Nat /\ late \in Nat

NoneUsed == [used |-> 0, ms |-> 0]

Init ==
  /\ pc = "idle" /\ calls = 0 /\ attempt = 0 /\ budget = NoneUsed /\ delay = 0
  /\ result = "none" /\ ctx = "live" /\ closed = FALSE /\ httpClosed = FALSE
  /\ journal = <<>> /\ tries = 0 /\ final = 0 /\ late = 0 /\ badBody = FALSE
-----------------------------------------------------------------------------
(* The classification of a failure *)

\* Mutant: a 429 is a rate limit, whatever its text says.
Classify429_RateLimit(text) == "rate_limit"

\* ClassifyLlmFailure of a 429.
Classify429(text) == IF "quota" \in text THEN "quota_exhausted" ELSE "rate_limit"

\* ClassifyLlmFailure of a 400 or a 422: the first group of words that matches.
Classify4xx(text) ==
  IF "ctx" \in text THEN "context_length"
  ELSE IF "filter" \in text THEN "content_filter"
  ELSE IF text \cap {"tool", "toolCode"} # {} THEN "tool_schema"
  ELSE "invalid_request"

\* ClassifyLlmFailure of an HTTP status and the words of the provider's error.
ClassifyHTTP(st, text) ==
  IF st = 402 THEN "quota_exhausted"
  ELSE IF st \in {401, 403}
  THEN IF text \cap {"bill", "quota"} # {} THEN "quota_exhausted" ELSE "auth"
  ELSE IF st = 429 THEN Classify429(text)
  ELSE IF st = 529 THEN "provider_overload"
  ELSE IF st \in {500, 502, 503, 504}
  THEN IF "over" \in text /\ (st = 503 \/ "capacity" \in text)
       THEN "provider_overload" ELSE "provider_unavailable"
  ELSE IF st \in {400, 422} THEN Classify4xx(text)
  ELSE IF "rate" \in text THEN "rate_limit" ELSE "unknown"

\* The delay before the jitter: Retry-After, or doubled with every attempt; capped.
Base(n, after) ==
  LET b == IF after >= 0 THEN after ELSE BaseDelayMS * 2^(IF n > 16 THEN 16 ELSE n)
  IN  IF MaxDelayMS > 0 /\ b > MaxDelayMS THEN MaxDelayMS ELSE b

\* backoffMS: the delays it may return; after is -1 without a Retry-After header.
Backoff(n, after) ==
  IF Jitter /\ Base(n, after) > 0 THEN (Base(n, after) \div 2)..Base(n, after)
  ELSE {IF Base(n, after) < 0 THEN 0 ELSE Base(n, after)}

\* Mutant: the delay is not counted.
Allow_NoTime(b, c, d) == Retryable(c) /\ b.used < MaxAttempts

\* Mutant: no retry that would use the time up.
Allow_Strict(b, c, d) == /\ Retryable(c) /\ b.used < MaxAttempts
                         /\ MaxExtraMS > 0 => b.ms + d < MaxExtraMS

\* RetryBudget.Allow
Allow(b, c, d) == /\ Retryable(c) /\ b.used < MaxAttempts
                  /\ MaxExtraMS > 0 => b.ms + d <= MaxExtraMS

\* RetryBudget.Consume
Consume(b, d) == [used |-> b.used + 1, ms |-> b.ms + d]
-----------------------------------------------------------------------------
(* Complete *)

Return(r) == pc' = "idle" /\ result' = r

\* journalRound: one llm.round event for every request.
JournalRound(ok) == journal' = Append(journal, [attempt |-> attempt, ok |-> ok])

\* guard, the settings, budgetForCall; bad: a setting is missing.
Begin(bad) ==
  /\ pc = "idle" /\ calls < MaxCalls
  /\ calls' = calls + 1
  /\ budget' = NoneUsed /\ attempt' = 0 /\ delay' = 0
  /\ journal' = <<>> /\ tries' = 0 /\ final' = 0
  /\ \/ ctx # "live" /\ Return(ctx)
     \/ ctx = "live" /\ closed /\ Return("closed")
     \/ ctx = "live" /\ ~closed /\ bad /\ Return("config")
     \/ ctx = "live" /\ ~closed /\ ~bad /\ pc' = "head" /\ result' = "none"
  /\ badBody' = FALSE
  /\ UNCHANGED <<envVars, late>>

\* The head of the loop.
LoopHead ==
  /\ pc = "head"
  /\ IF ctx # "live" THEN Return(ctx) ELSE pc' = "request" /\ UNCHANGED result
  /\ UNCHANGED <<calls, attempt, budget, delay, envVars, journal, tries, final, late, badBody>>

\* Mutant: the event of a retried failure is not written.
Failed_NoEvent(c, after) ==
  \E d \in Backoff(attempt, after) :
    /\ delay' = d
    /\ \/ /\ Allow(budget, c, d)
          /\ budget' = Consume(budget, d) /\ attempt' = attempt + 1
          /\ pc' = "sleep" /\ UNCHANGED <<result, journal>>
       \/ /\ ~Allow(budget, c, d)
          /\ Return(c) /\ JournalRound(FALSE) /\ UNCHANGED <<budget, attempt>>

\* A failure of class c: one more try after a delay, or raiseClassified.
Failed(c, after) ==
  /\ JournalRound(FALSE)
  /\ \E d \in Backoff(attempt, after) :
       /\ delay' = d
       /\ \/ /\ Allow(budget, c, d)
             /\ budget' = Consume(budget, d) /\ attempt' = attempt + 1
             /\ pc' = "sleep" /\ UNCHANGED result
          \/ /\ ~Allow(budget, c, d)
             /\ Return(c) /\ UNCHANGED <<budget, attempt>>

\* The HTTP port takes the request; a closed one fails like a broken connection.
Request ==
  /\ pc = "request"
  /\ tries' = tries + 1
  /\ late' = IF ctx = "live" THEN late ELSE late + 1
  /\ \/ httpClosed /\ Failed("provider_unavailable", -1)
     \/ /\ ~httpClosed
        /\ pc' = "waiting"
        /\ UNCHANGED <<attempt, budget, delay, result, journal>>
  /\ UNCHANGED <<calls, envVars, final, badBody>>

\* classifyTransport, for an error that is not a cancel: the timeout of the
\* request or of the context, or a broken connection (the context comes first).
TransportFails(c) ==
  /\ pc = "waiting"
  /\ c = "provider_unavailable" => ctx = "live"
  /\ Failed(c, -1)
  /\ UNCHANGED <<calls, envVars, tries, final, late, badBody>>

\* The context is cancelled while the request is under way.
Cancelled ==
  /\ pc = "waiting" /\ ctx = "cancelled"
  /\ JournalRound(FALSE)
  /\ Return("cancelled")
  /\ UNCHANGED <<calls, attempt, budget, delay, envVars, tries, final, late, badBody>>

\* The provider answers with an error status.
ErrorStatus(st, text, after) ==
  /\ pc = "waiting"
  /\ Failed(ClassifyHTTP(st, text), after)
  /\ final' = IF st = 402 \/ (st = 429 /\ "quota" \in text) THEN tries ELSE final
  /\ UNCHANGED <<calls, envVars, tries, late, badBody>>

\* A good status without a JSON object: classified as a 500, but not retried.
BadBody(text) ==
  /\ pc = "waiting"
  /\ JournalRound(FALSE)
  /\ Return(ClassifyHTTP(500, text))
  /\ badBody' = TRUE
  /\ UNCHANGED <<calls, attempt, budget, delay, envVars, tries, final, late>>

\* ParseCompletionResponse: the completion.
Completed ==
  /\ pc = "waiting"
  /\ JournalRound(TRUE)
  /\ Return("ok")
  /\ UNCHANGED <<calls, attempt, budget, delay, envVars, tries, final, late, badBody>>

\* Mutant: the timer alone ends the sleep, and the loop goes on to the request.
SleepEnds_Request ==
  /\ pc = "sleep"
  /\ pc' = "request"
  /\ UNCHANGED <<calls, attempt, budget, delay, result, envVars, journal, tries, final, late, badBody>>

\* Mutant: no timer for a delay of zero.
SleepEnds_NoZero ==
  /\ pc = "sleep" /\ delay > 0
  /\ pc' = "head"
  /\ UNCHANGED <<calls, attempt, budget, delay, result, envVars, journal, tries, final, late, badBody>>

\* doSleep: the timer.
SleepEnds ==
  /\ pc = "sleep"
  /\ pc' = "head"
  /\ UNCHANGED <<calls, attempt, budget, delay, result, envVars, journal, tries, final, late, badBody>>

\* doSleep: the context, where there is something to sleep.
SleepCut ==
  /\ pc = "sleep" /\ delay > 0 /\ ctx # "live"
  /\ Return(ctx)
  /\ UNCHANGED <<calls, attempt, budget, delay, envVars, journal, tries, final, late, badBody>>
-----------------------------------------------------------------------------
(* Close, the environment *)

Close == /\ ~closed
         /\ closed' = TRUE
         /\ UNCHANGED <<pc, calls, attempt, budget, delay, result, ctx, httpClosed, journal,
                        tries, final, late, badBody>>

\* Close closes the HTTP client that the client owns.
CloseHTTP == /\ closed /\ OwnsHTTP /\ ~httpClosed
             /\ httpClosed' = TRUE
             /\ UNCHANGED <<pc, calls, attempt, budget, delay, result, ctx, closed, journal,
                            tries, final, late, badBody>>

\* The caller cancels the context, or its deadline passes.
CtxEnds(how) == /\ ctx = "live"
                /\ ctx' = how
                /\ UNCHANGED <<pc, calls, attempt, budget, delay, result, closed, httpClosed,
                               journal, tries, final, late, badBody>>

CallStep ==
  \/ LoopHead \/ Request \/ Cancelled \/ Completed \/ SleepEnds \/ SleepCut
  \/ \E text \in Texts : BadBody(text)
  \/ \E c \in {"timeout", "provider_unavailable"} : TransportFails(c)
  \/ \E st \in Statuses, text \in Texts, after \in RetryAfters \cup {-1} :
       ErrorStatus(st, text, after)

Next ==
  \/ CallStep
  \/ \E bad \in BOOLEAN : Begin(bad)
  \/ Close \/ CloseHTTP
  \/ \E how \in {"cancelled", "deadline"} : CtxEnds(how)

Spec == Init /\ [][Next]_vars

\* The loop runs in its caller's goroutine, timers fire, and every request has
\* a timeout.
FairSpec == Spec /\ WF_vars(CallStep)
-----------------------------------------------------------------------------
(* Properties *)

(***************************************************************************)
(* The loop is bounded: a call makes at most MaxAttempts requests after    *)
(* its first, and waits at most MaxExtraMS between them, whatever          *)
(* Retry-After asks for and although a closed client keeps failing.        *)
(***************************************************************************)
RetryIsBounded ==
  /\ TypeOK
  /\ tries <= MaxAttempts + 1
  /\ MaxExtraMS > 0 => budget.ms <= MaxExtraMS

(***************************************************************************)
(* "Quota 429 never retries": after an answer that says that the quota is  *)
(* used up the call makes no other request.                                *)
(***************************************************************************)
QuotaNeverRetried == final # 0 => tries = final

(***************************************************************************)
(* The journal of a call has one event for every request, numbered without *)
(* gap from attempt 0, and only the last one may be a success.             *)
(***************************************************************************)
JournalIsComplete ==
  /\ \A i \in 1..Len(journal) : /\ journal[i].attempt = i - 1
                                /\ journal[i].ok => i = Len(journal)
  /\ pc = "idle" /\ calls > 0 => Len(journal) = tries

(***************************************************************************)
(* A call gives up on a failure that could be retried only when the budget *)
(* is spent: no attempts are left, or the wait would not fit.  Only a good  *)
(* status without a JSON object is given up at once.                       *)
(***************************************************************************)
GivesUpOnlyWhenSpent ==
  pc = "idle" /\ Retryable(result) /\ ~badBody =>
    budget.used = MaxAttempts \/ (MaxExtraMS > 0 /\ budget.ms + delay > MaxExtraMS)

(***************************************************************************)
(* The end of the context stops the loop: in a whole turn at most one      *)
(* request is begun after it, the one whose check of the context was       *)
(* overtaken.                                                              *)
(***************************************************************************)
OneLateRequest == late <= 1

\* Every call returns.
EveryCompleteReturns == []<>(pc = "idle")
=============================================================================
