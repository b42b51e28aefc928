-------------------------- MODULE LlmRetry_proofs --------------------------
(***************************************************************************)
(* Proofs about LlmRetry: the retry loop keeps its books.                  *)
(***************************************************************************)
EXTENDS LlmRetry, TLAPS

\* The parts of the inductive invariant.

\* Requests, events and retries are counted in step.
Counted ==
  /\ attempt = budget.used
  /\ pc \in {"head", "request", "sleep"} => tries = attempt /\ Len(journal) = attempt
  /\ pc = "waiting" => tries = attempt + 1 /\ Len(journal) = attempt
  /\ pc = "idle" => Len(journal) = tries /\ tries <= attempt + 1

\* The time of the budget is not overdrawn.
WithinTime == MaxExtraMS > 0 => budget.ms <= MaxExtraMS

\* A call that is under way has no result.
Undecided == pc # "idle" => result = "none" /\ badBody = FALSE /\ final = 0

\* Event k is of attempt k - 1, and a success is the last.
Numbered == \A k \in 1..Len(journal) :
              /\ journal[k].attempt = k - 1
              /\ journal[k].ok => k = Len(journal) /\ pc = "idle"

\* The late request is behind the check of the context.
LateIsLast == late <= 1 /\ (late = 1 => ctx # "live" /\ pc # "request")

RetryInv ==
  /\ TypeOK /\ Counted /\ WithinTime /\ Undecided /\ Numbered /\ LateIsLast
  /\ QuotaNeverRetried /\ GivesUpOnlyWhenSpent
-----------------------------------------------------------------------------
(* backoffMS returns a delay that is not negative. *)
LEMMA BackoffIsNat ==
  ASSUME NEW n \in Nat, NEW after \in Int, NEW d \in Backoff(n, after)
  PROVE  d \in Nat
<1> DEFINE e == IF n > 16 THEN 16 ELSE n
<1>1. e \in Nat
  OBVIOUS
<1>2. 2^e \in Int
  BY <1>1
<1>3. BaseDelayMS * 2^e \in Int
  BY <1>2, LlmRetryAssumption
<1>4. Base(n, after) \in Int
  BY <1>3, LlmRetryAssumption DEF Base
<1>5. QED
  BY <1>4 DEF Backoff

(* The classifier answers with a class, and with one that is not retried
   when the provider says that the quota is used up. *)
LEMMA ClassifyIsClass ==
  ASSUME NEW st, NEW text
  PROVE  /\ ClassifyHTTP(st, text) \in Classes
         /\ st = 402 \/ (st = 429 /\ "quota" \in text) => ~Retryable(ClassifyHTTP(st, text))
<1>1. Classify429(text) \in {"quota_exhausted", "rate_limit"}
  BY DEF Classify429
<1>2. Classify4xx(text) \in {"context_length", "content_filter", "tool_schema", "invalid_request"}
  BY DEF Classify4xx
<1>6. ClassifyHTTP(st, text) \in Classes
  BY <1>1, <1>2 DEF ClassifyHTTP, Classes
<1>3. ASSUME st = 402 PROVE ~Retryable(ClassifyHTTP(st, text))
  BY <1>3 DEF ClassifyHTTP, Retryable
<1>4. ASSUME st = 429, "quota" \in text PROVE ~Retryable(ClassifyHTTP(st, text))
  BY <1>4 DEF ClassifyHTTP, Classify429, Retryable
<1>5. QED
  BY <1>3, <1>4, <1>6

LEMMA InitRetryInv == Init => RetryInv
<1> SUFFICES ASSUME Init PROVE RetryInv
  OBVIOUS
<1> USE LlmRetryAssumption DEF Init
<1>1. TypeOK
  <2>1. <<>> \in Seq([attempt : Nat, ok : BOOLEAN])
    OBVIOUS
  <2>2. NoneUsed \in [used : 0..MaxAttempts, ms : Nat]
    BY DEF NoneUsed
  <2>3. /\ closed \in BOOLEAN /\ httpClosed \in BOOLEAN /\ badBody \in BOOLEAN
    OBVIOUS
  <2>4. /\ calls \in 0..MaxCalls /\ attempt \in 0..MaxAttempts
        /\ delay \in Nat /\ tries \in Nat /\ final \in Nat /\ late \in Nat
    OBVIOUS
  <2>5. QED
    BY <2>1, <2>2, <2>3, <2>4, Zenon DEF TypeOK, Results
<1>2. Counted /\ WithinTime /\ Undecided /\ Numbered /\ LateIsLast
  BY DEF Counted, WithinTime, Undecided, Numbered, LateIsLast, NoneUsed
<1>3. QuotaNeverRetried /\ GivesUpOnlyWhenSpent
  BY DEF QuotaNeverRetried, GivesUpOnlyWhenSpent, Retryable
<1>4. QED
  BY <1>1, <1>2, <1>3 DEF RetryInv

(* journalRound appends one event. *)
LEMMA Journalled ==
  ASSUME TypeOK, NEW ok \in BOOLEAN, JournalRound(ok)
  PROVE  /\ journal' \in Seq([attempt : Nat, ok : BOOLEAN])
         /\ Len(journal') = Len(journal) + 1
         /\ \A k \in 1..Len(journal) : journal'[k] = journal[k]
         /\ journal'[Len(journal) + 1] = [attempt |-> attempt, ok |-> ok]
<1> DEFINE E == [attempt : Nat, ok : BOOLEAN]
           e == [attempt |-> attempt, ok |-> ok]
<1>1. attempt \in Nat
  BY LlmRetryAssumption DEF TypeOK
<1>2. journal \in Seq(E) /\ e \in E
  BY <1>1 DEF TypeOK
<1>3. journal' = Append(journal, e)
  BY DEF JournalRound
<1> HIDE DEF E, e
<1>4. /\ journal' \in Seq(E) /\ Len(journal') = Len(journal) + 1
      /\ \A k \in 1..Len(journal) : journal'[k] = journal[k]
      /\ journal'[Len(journal) + 1] = e
  BY <1>2, <1>3
<1>5. QED
  BY <1>4 DEF E, e

(* A failure of a request, as Complete handles it. *)
LEMMA FailedKeeps ==
  ASSUME RetryInv, NEW c \in Classes, NEW after \in Int, Failed(c, after),
         pc \in {"request", "waiting"}, Len(journal) = attempt, tries' = attempt + 1,
         UNCHANGED <<calls, envVars, badBody>>,
         final' \in Nat, final' # 0 => final' = tries' /\ ~Retryable(c),
         late' \in Nat, late' <= 1, late' = 1 => ctx # "live"
  PROVE  RetryInv'
<1>1. PICK d \in Backoff(attempt, after) :
        /\ delay' = d
        /\ \/ /\ Allow(budget, c, d)
              /\ budget' = Consume(budget, d) /\ attempt' = attempt + 1
              /\ pc' = "sleep" /\ UNCHANGED result
           \/ /\ ~Allow(budget, c, d)
              /\ Return(c) /\ UNCHANGED <<budget, attempt>>
  BY DEF Failed
<1> USE LlmRetryAssumption
<1>2. attempt \in Nat /\ attempt <= MaxAttempts /\ attempt = budget.used
  BY DEF RetryInv, TypeOK, Counted
<1>3. d \in Nat
  BY <1>2, BackoffIsNat
<1>4. /\ journal' \in Seq([attempt : Nat, ok : BOOLEAN])
      /\ Len(journal') = attempt + 1
      /\ \A k \in 1..attempt : journal'[k] = journal[k]
      /\ journal'[attempt + 1] = [attempt |-> attempt, ok |-> FALSE]
  BY Journalled DEF RetryInv, Failed
<1>5. budget.ms \in Nat /\ budget \in [used : 0..MaxAttempts, ms : Nat]
  BY DEF RetryInv, TypeOK
<1>6. \A k \in 1..Len(journal') : /\ journal'[k].attempt = k - 1
                                  /\ ~ journal'[k].ok
  <2> SUFFICES ASSUME NEW k \in 1..Len(journal')
               PROVE  journal'[k].attempt = k - 1 /\ ~ journal'[k].ok
    OBVIOUS
  <2>1. CASE k = attempt + 1
    BY <2>1, <1>2, <1>4
  <2>2. CASE k \in 1..attempt
    <3>1. journal'[k] = journal[k] /\ k \in 1..Len(journal) /\ pc # "idle"
      BY <2>2, <1>4
    <3>2. journal[k].attempt = k - 1 /\ (journal[k].ok => pc = "idle")
      BY <3>1 DEF RetryInv, Numbered
    <3>3. QED
      BY <3>1, <3>2
  <2>3. QED
    BY <2>1, <2>2, <1>2, <1>4
<1>7. CASE /\ Allow(budget, c, d)
           /\ budget' = Consume(budget, d) /\ attempt' = attempt + 1
           /\ pc' = "sleep" /\ UNCHANGED result
  <2>1. Retryable(c) /\ budget.used < MaxAttempts /\ (MaxExtraMS > 0 => budget.ms + d <= MaxExtraMS)
    BY <1>7 DEF Allow
  <2>2. budget' = [used |-> budget.used + 1, ms |-> budget.ms + d]
    BY <1>7 DEF Consume
  <2>3. TypeOK'
    BY <1>1, <1>2, <1>3, <1>4, <1>5, <1>7, <2>1, <2>2 DEF RetryInv, TypeOK, envVars
  <2>4. Counted' /\ WithinTime'
    BY <1>2, <1>4, <1>7, <2>1, <2>2 DEF Counted, WithinTime
  <2>5. Undecided'
    BY <1>7, <2>1 DEF RetryInv, Undecided
  <2>6. Numbered'
    BY <1>6 DEF Numbered
  <2>7. LateIsLast' /\ QuotaNeverRetried' /\ GivesUpOnlyWhenSpent'
    BY <1>7 DEF LateIsLast, QuotaNeverRetried, GivesUpOnlyWhenSpent, envVars
  <2>8. QED
    BY <2>3, <2>4, <2>5, <2>6, <2>7 DEF RetryInv
<1>8. CASE /\ ~Allow(budget, c, d)
           /\ Return(c) /\ UNCHANGED <<budget, attempt>>
  <2>1. pc' = "idle" /\ result' = c /\ budget' = budget /\ attempt' = attempt
    BY <1>8 DEF Return
  <2>2. TypeOK'
    BY <1>1, <1>3, <1>4, <1>2, <2>1, <1>8 DEF RetryInv, TypeOK, envVars, Results
  <2>3. Counted' /\ WithinTime'
    BY <1>2, <1>4, <2>1 DEF RetryInv, Counted, WithinTime
  <2>4. Undecided' /\ LateIsLast' /\ QuotaNeverRetried'
    BY <2>1 DEF Undecided, LateIsLast, QuotaNeverRetried, envVars
  <2>5. Numbered'
    BY <1>6 DEF Numbered
  <2>6. GivesUpOnlyWhenSpent'
    <3>1. ASSUME Retryable(c)
          PROVE  budget.used = MaxAttempts \/ (MaxExtraMS > 0 /\ budget.ms + d > MaxExtraMS)
      BY <3>1, <1>8, <1>2, <1>3, <1>5 DEF Allow
    <3>2. QED
      BY <3>1, <2>1, <1>1 DEF GivesUpOnlyWhenSpent
  <2>7. QED
    BY <2>2, <2>3, <2>4, <2>5, <2>6 DEF RetryInv
<1>9. QED
  BY <1>1, <1>7, <1>8

(* The end of a request without another try: the events and the counters agree. *)
LEMMA ReturnKeeps ==
  ASSUME RetryInv, pc = "waiting", NEW ok \in BOOLEAN, JournalRound(ok),
         NEW r \in Results, Return(r), Retryable(r) => badBody',
         badBody' \in BOOLEAN,
         UNCHANGED <<calls, attempt, budget, delay, envVars, tries, final, late>>
  PROVE  RetryInv'
<1> USE LlmRetryAssumption
<1>1. pc' = "idle" /\ result' = r
  BY DEF Return
<1>2. attempt \in Nat /\ attempt = budget.used /\ tries = attempt + 1 /\ Len(journal) = attempt
  BY DEF RetryInv, TypeOK, Counted
<1>3. /\ journal' \in Seq([attempt : Nat, ok : BOOLEAN])
      /\ Len(journal') = attempt + 1
      /\ \A k \in 1..attempt : journal'[k] = journal[k]
      /\ journal'[attempt + 1] = [attempt |-> attempt, ok |-> ok]
  BY <1>2, Journalled DEF RetryInv
<1>4. TypeOK'
  BY <1>1, <1>3, Zenon DEF RetryInv, TypeOK, envVars
<1>5. Counted' /\ WithinTime'
  BY <1>1, <1>2, <1>3 DEF RetryInv, Counted, WithinTime
<1>6. Undecided' /\ LateIsLast'
  BY <1>1 DEF RetryInv, Undecided, LateIsLast, envVars
<1>7. QuotaNeverRetried' /\ GivesUpOnlyWhenSpent'
  BY <1>1, Zenon DEF RetryInv, QuotaNeverRetried, GivesUpOnlyWhenSpent
<1>8. Numbered'
  <2> SUFFICES ASSUME NEW k \in 1..Len(journal')
               PROVE  /\ journal'[k].attempt = k - 1
                      /\ journal'[k].ok => k = Len(journal')
    BY <1>1 DEF Numbered
  <2>1. CASE k = attempt + 1
    BY <2>1, <1>2, <1>3
  <2>2. CASE k \in 1..attempt
    <3>1. journal'[k] = journal[k] /\ k \in 1..Len(journal) /\ pc # "idle"
      BY <2>2, <1>2, <1>3
    <3>2. journal[k].attempt = k - 1 /\ (journal[k].ok => pc = "idle")
      BY <3>1 DEF RetryInv, Numbered
    <3>3. QED
      BY <3>1, <3>2
  <2>3. QED
    BY <2>1, <2>2, <1>2, <1>3
<1>9. QED
  BY <1>4, <1>5, <1>6, <1>7, <1>8 DEF RetryInv

(* A step of the loop between requests, or of the environment: the books of
   the call stay as they are. *)
LEMMA MovesKeep ==
  ASSUME RetryInv, pc' \in {"idle", "head", "request", "waiting", "sleep"},
         pc' = pc \/ (pc \in {"head", "sleep"} /\ pc' # "waiting"),
         pc' = "request" /\ pc # "request" => ctx = "live",
         result' \in Results, pc' # "idle" => result' = result,
         pc # "idle" /\ pc' = "idle" => result' \in {"cancelled", "deadline"},
         pc = "idle" => result' = result,
         ctx' \in {"live", "cancelled", "deadline"}, ctx' = ctx \/ ctx = "live",
         closed' \in BOOLEAN, httpClosed' \in BOOLEAN,
         UNCHANGED <<calls, attempt, budget, delay, journal, tries, final, late, badBody>>
  PROVE  RetryInv'
<1> USE LlmRetryAssumption
<1>1. TypeOK'
  BY Zenon DEF RetryInv, TypeOK
<1>2. Counted' /\ WithinTime'
  <2>1. attempt \in Nat /\ (pc \in {"head", "sleep"} => tries = attempt /\ Len(journal) = attempt)
    BY DEF RetryInv, TypeOK, Counted
  <2>2. Counted'
    BY <2>1, SMT DEF RetryInv, Counted
  <2>3. WithinTime'
    BY DEF RetryInv, WithinTime
  <2>4. QED
    BY <2>2, <2>3
<1>3. Undecided' /\ LateIsLast'
  BY DEF RetryInv, Undecided, LateIsLast
<1>4. QuotaNeverRetried' /\ GivesUpOnlyWhenSpent'
  BY DEF RetryInv, QuotaNeverRetried, GivesUpOnlyWhenSpent, Retryable
<1>5. Numbered'
  BY DEF RetryInv, Numbered
<1>6. QED
  BY <1>1, <1>2, <1>3, <1>4, <1>5 DEF RetryInv

(* A new call starts with empty books. *)
LEMMA BeginKeeps ==
  ASSUME RetryInv, NEW bad \in BOOLEAN, Begin(bad)
  PROVE  RetryInv'
<1> USE LlmRetryAssumption
<1>1. /\ pc' \in {"idle", "head"} /\ result' \in {"cancelled", "deadline", "closed", "config", "none"}
      /\ pc' = "head" => result' = "none"
  BY DEF Begin, Return, RetryInv, TypeOK
<1>2. /\ budget' = [used |-> 0, ms |-> 0] /\ attempt' = 0 /\ delay' = 0 /\ journal' = <<>>
      /\ tries' = 0 /\ final' = 0 /\ badBody' = FALSE
      /\ UNCHANGED <<ctx, closed, httpClosed, late>>
  BY DEF Begin, NoneUsed, envVars
<1>3. TypeOK'
  <2>1. calls' \in 0..MaxCalls
    BY DEF Begin, RetryInv, TypeOK
  <2>2. /\ 0 \in Nat /\ 0 \in 0..MaxAttempts /\ <<>> \in Seq([attempt : Nat, ok : BOOLEAN])
        /\ [used |-> 0, ms |-> 0] \in [used : 0..MaxAttempts, ms : Nat]
    OBVIOUS
  <2>3. pc' \in {"idle", "head", "request", "waiting", "sleep"} /\ result' \in Results
    BY <1>1 DEF Results
  <2>4. QED
    BY <1>2, <2>1, <2>2, <2>3, Zenon DEF RetryInv, TypeOK
<1>4. Counted' /\ WithinTime' /\ Numbered'
  BY <1>1, <1>2 DEF Counted, WithinTime, Numbered
<1>5. Undecided' /\ LateIsLast'
  BY <1>1, <1>2 DEF RetryInv, Undecided, LateIsLast, Begin
<1>6. QuotaNeverRetried' /\ GivesUpOnlyWhenSpent'
  BY <1>1, <1>2 DEF QuotaNeverRetried, GivesUpOnlyWhenSpent, Retryable
<1>7. QED
  BY <1>3, <1>4, <1>5, <1>6 DEF RetryInv

(* Every step of a call keeps the invariant. *)
LEMMA CallStepKeeps ==
  ASSUME RetryInv, CallStep
  PROVE  RetryInv'
<1> USE LlmRetryAssumption
<1> Classes \subseteq Results
  BY DEF Results
<1>1. CASE LoopHead
  <2>1. \/ pc' = "idle" /\ result' = ctx /\ ctx \in {"cancelled", "deadline"}
        \/ pc' = "request" /\ result' = result /\ ctx = "live"
    BY <1>1 DEF LoopHead, Return, RetryInv, TypeOK
  <2>2. result' \in Results /\ pc = "head"
    BY <2>1, <1>1 DEF Results, RetryInv, TypeOK, LoopHead
  <2>3. /\ UNCHANGED <<calls, attempt, budget, delay, journal, tries, final, late, badBody>>
        /\ UNCHANGED envVars
    BY <1>1 DEF LoopHead
  <2>4. QED
    BY <2>1, <2>2, <2>3, MovesKeep DEF RetryInv, TypeOK, envVars
<1>2. CASE Request
  <2>1. /\ pc = "request" /\ tries = attempt /\ Len(journal) = attempt /\ attempt \in Nat
        /\ late = 0 \/ (late = 1 /\ ctx # "live")
        /\ final = 0 /\ late \in Nat
    BY <1>2 DEF Request, RetryInv, TypeOK, Counted, LateIsLast, Undecided
  <2>2. /\ tries' = attempt + 1 /\ UNCHANGED <<calls, envVars, final, badBody>>
        /\ late' = IF ctx = "live" THEN late ELSE late + 1
    BY <1>2, <2>1 DEF Request
  <2>3. late = 0
    BY <2>1 DEF RetryInv, LateIsLast
  <2>4. late' \in Nat /\ late' <= 1 /\ (late' = 1 => ctx # "live")
    BY <2>2, <2>3
  <2>5. CASE httpClosed /\ Failed("provider_unavailable", -1)
    <3>1. "provider_unavailable" \in Classes /\ -1 \in Int
      BY DEF Classes
    <3>2. final' \in Nat /\ final' = 0
      BY <2>1, <2>2
    <3>3. QED
      BY <2>1, <2>2, <2>4, <2>5, <3>1, <3>2, FailedKeeps
  <2>6. CASE /\ ~httpClosed /\ pc' = "waiting"
             /\ UNCHANGED <<attempt, budget, delay, result, journal>>
    <3>1. TypeOK'
      <4>1. tries' \in Nat /\ late' \in Nat
        BY <2>1, <2>2, <2>4
      <4>2. QED
        BY <4>1, <2>2, <2>6, Zenon DEF RetryInv, TypeOK, envVars
    <3>2. Counted' /\ WithinTime' /\ Undecided' /\ LateIsLast'
      BY <2>1, <2>2, <2>4, <2>6 DEF RetryInv, Counted, WithinTime, Undecided, LateIsLast, envVars
    <3>3. Numbered'
      BY <2>1, <2>6 DEF RetryInv, Numbered
    <3>4. QuotaNeverRetried' /\ GivesUpOnlyWhenSpent'
      BY <2>1, <2>2, <2>6 DEF QuotaNeverRetried, GivesUpOnlyWhenSpent
    <3>5. QED
      BY <3>1, <3>2, <3>3, <3>4 DEF RetryInv
  <2>7. QED
    BY <1>2, <2>5, <2>6 DEF Request
<1> DEFINE Waits == /\ Len(journal) = attempt /\ tries = attempt + 1 /\ final = 0
                    /\ late \in Nat /\ late <= 1 /\ (late = 1 => ctx # "live")
                    /\ tries \in Nat
<1>3. ASSUME pc = "waiting" PROVE Waits
  BY <1>3 DEF RetryInv, TypeOK, Counted, LateIsLast, Undecided
<1>4. CASE Cancelled
  <2>1. "cancelled" \in Results /\ ~Retryable("cancelled")
    BY DEF Results, Retryable
  <2>2. badBody' \in BOOLEAN
    BY <1>4 DEF Cancelled, RetryInv, TypeOK
  <2>3. QED
    BY <1>4, <2>1, <2>2, ReturnKeeps DEF Cancelled
<1>5. CASE Completed
  <2>1. "ok" \in Results /\ ~Retryable("ok")
    BY DEF Results, Retryable
  <2>2. badBody' \in BOOLEAN
    BY <1>5 DEF Completed, RetryInv, TypeOK
  <2>3. QED
    BY <1>5, <2>1, <2>2, ReturnKeeps DEF Completed
<1>6. CASE SleepEnds
  BY <1>6, MovesKeep DEF SleepEnds, RetryInv, TypeOK, envVars
<1>7. CASE SleepCut
  <2>1. pc = "sleep" /\ pc' = "idle" /\ result' = ctx /\ ctx \in {"cancelled", "deadline"}
    BY <1>7 DEF SleepCut, Return, RetryInv, TypeOK
  <2>2. result' \in Results
    BY <2>1 DEF Results
  <2>3. /\ UNCHANGED <<calls, attempt, budget, delay, journal, tries, final, late, badBody>>
        /\ UNCHANGED envVars
    BY <1>7 DEF SleepCut
  <2>4. QED
    BY <2>1, <2>2, <2>3, MovesKeep DEF RetryInv, TypeOK, envVars
<1>8. CASE \E text \in Texts : BadBody(text)
  <2>1. PICK text \in Texts : BadBody(text)
    BY <1>8
  <2>2. ClassifyHTTP(500, text) \in Results
    BY ClassifyIsClass
  <2>3. QED
    BY <2>1, <2>2, ReturnKeeps DEF BadBody
<1>9. CASE \E c \in {"timeout", "provider_unavailable"} : TransportFails(c)
  <2>1. PICK c \in {"timeout", "provider_unavailable"} : TransportFails(c)
    BY <1>9
  <2>2. pc = "waiting" /\ UNCHANGED <<calls, envVars, tries, final, late, badBody>> /\ Failed(c, -1)
    BY <2>1 DEF TransportFails
  <2>3. c \in Classes /\ -1 \in Int
    BY DEF Classes
  <2>4. QED
    BY <1>3, <2>2, <2>3, FailedKeeps
<1>10. CASE \E st \in Statuses, text \in Texts, after \in RetryAfters \cup {-1} :
              ErrorStatus(st, text, after)
  <2>1. PICK st \in Statuses, text \in Texts, after \in RetryAfters \cup {-1} :
          ErrorStatus(st, text, after)
    BY <1>10
  <2> DEFINE c == ClassifyHTTP(st, text)
  <2>2. c \in Classes /\ (st = 402 \/ (st = 429 /\ "quota" \in text) => ~Retryable(c))
    BY ClassifyIsClass
  <2>3. after \in Int
    OBVIOUS
  <2>4. /\ pc = "waiting" /\ UNCHANGED <<calls, envVars, tries, late, badBody>> /\ Failed(c, after)
        /\ final' = IF st = 402 \/ (st = 429 /\ "quota" \in text) THEN tries ELSE final
    BY <2>1 DEF ErrorStatus
  <2> HIDE DEF c
  <2>5. final' \in Nat /\ (final' # 0 => final' = tries' /\ ~Retryable(c))
    BY <1>3, <2>2, <2>4
  <2>6. QED
    BY <1>3, <2>2, <2>3, <2>4, <2>5, FailedKeeps
<1>11. QED
  BY <1>1, <1>2, <1>4, <1>5, <1>6, <1>7, <1>8, <1>9, <1>10 DEF CallStep

LEMMA NextRetryInv == RetryInv /\ [Next]_vars => RetryInv'
<1> SUFFICES ASSUME RetryInv, [Next]_vars PROVE RetryInv'
  OBVIOUS
<1>1. CASE CallStep
  BY <1>1, CallStepKeeps
<1>2. CASE \E bad \in BOOLEAN : Begin(bad)
  BY <1>2, BeginKeeps
<1>3. CASE Close
  BY <1>3, MovesKeep DEF Close, RetryInv, TypeOK
<1>4. CASE CloseHTTP
  BY <1>4, MovesKeep DEF CloseHTTP, RetryInv, TypeOK
<1>5. CASE \E how \in {"cancelled", "deadline"} : CtxEnds(how)
  BY <1>5, MovesKeep DEF CtxEnds, RetryInv, TypeOK
<1>6. CASE UNCHANGED vars
  BY <1>6, MovesKeep DEF vars, envVars, RetryInv, TypeOK
<1>7. QED
  BY <1>1, <1>2, <1>3, <1>4, <1>5, <1>6 DEF Next
-----------------------------------------------------------------------------
(* The inductive invariant of the retry loop. *)
THEOREM RetryInvariant == Spec => []RetryInv
<1>1. QED
  BY InitRetryInv, NextRetryInv, PTL DEF Spec

(* Every variable of the adapter keeps its type: in particular the attempts of
   Complete's loop never exceed RetryPolicy.MaxAttempts and the time used is
   never negative, whatever delays backoffMS computes. *)
THEOREM TypeCorrect == Spec => []TypeOK
<1>1. RetryInv => TypeOK
  BY DEF RetryInv
<1>2. QED
  BY <1>1, RetryInvariant, PTL

(* For every policy, budget and provider: Complete makes at most
   MaxAttempts + 1 requests, and the delays it takes fit into MaxExtraMS. *)
THEOREM LoopIsBounded == Spec => []RetryIsBounded
<1>1. RetryInv => RetryIsBounded
  BY LlmRetryAssumption DEF RetryInv, TypeOK, Counted, WithinTime, RetryIsBounded
<1>2. QED
  BY <1>1, RetryInvariant, PTL

(* For every policy and provider: Complete makes no request after an answer
   that ClassifyLlmFailure takes for a used-up quota. *)
THEOREM QuotaIsFinal == Spec => []QuotaNeverRetried
<1>1. RetryInv => QuotaNeverRetried
  BY DEF RetryInv
<1>2. QED
  BY <1>1, RetryInvariant, PTL

(* For every policy and provider: journalRound writes one llm.round event for
   each request, numbered without gap, and only the last may be a success. *)
THEOREM JournalComplete == Spec => []JournalIsComplete
<1>1. RetryInv => JournalIsComplete
  BY DEF RetryInv, Counted, Numbered, JournalIsComplete
<1>2. QED
  BY <1>1, RetryInvariant, PTL

(* For every policy and provider: Complete raises a retryable failure only
   when RetryBudget.Allow has nothing left for it. *)
THEOREM GivesUpWhenSpent == Spec => []GivesUpOnlyWhenSpent
<1>1. RetryInv => GivesUpOnlyWhenSpent
  BY DEF RetryInv
<1>2. QED
  BY <1>1, RetryInvariant, PTL

(* For every number of calls: once the context of the turn has ended at most
   one more request is begun, by the call whose check came before the end. *)
THEOREM OneLate == Spec => []OneLateRequest
<1>1. RetryInv => OneLateRequest
  BY DEF RetryInv, LateIsLast, OneLateRequest
<1>2. QED
  BY <1>1, RetryInvariant, PTL
=============================================================================
