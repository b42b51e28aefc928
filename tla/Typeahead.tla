------------------------------ MODULE Typeahead ------------------------------
(***************************************************************************)
(* Typeahead: ZeusAPI.SearchSuggest (src/api/zeus.go), the token bucket    *)
(* that limits it (src/observability/rate_limit.go) and the search behind  *)
(* it (src/application/typeahead.go).                                      *)
(*                                                                         *)
(* Many goroutines ask for suggestions at once.  A call takes its bucket   *)
(* from the limiter, reads the clock, and only then locks the bucket: the  *)
(* three are separate steps.  Time is counted in ticks, and tokens in a    *)
(* unit of which Rate are refilled in a tick and Cost pay for a call.      *)
(***************************************************************************)
EXTENDS Integers, Sequences

CONSTANTS Callers,        \* goroutines that call SearchSuggest
          Rate, Burst, Cost,
          TypeaheadEnabled,
          Limit,          \* SuggestOptions.Limit
          Answers,        \* what Zeus answers: records of items and src_keys
          MaxTime,        \* bound: ticks of the clock
          MaxBuckets,     \* bound: buckets configured, the first one included
          MaxCalls        \* bound: calls begun

ASSUME TypeaheadAssumption ==
  /\ Rate \in Nat \ {0} /\ Burst \in Nat \ {0} /\ Cost \in Nat \ {0} /\ Limit \in Nat \ {0}
  /\ MaxTime \in Nat /\ MaxBuckets \in Nat \ {0} /\ MaxCalls \in Nat
  /\ TypeaheadEnabled \in BOOLEAN

ASSUME AnswersAssumption ==
  \A ans \in Answers : /\ ans.items \in Seq([id : STRING, name : STRING])
                       /\ ans.keys \in Seq(STRING)

Buckets == 1..MaxBuckets

VARIABLES
  clock,
  cur,       \* the bucket of the surface, 0 without one
  tokens, updated,        \* TokenBucket, for each bucket
  pc, my, now,            \* each call: where it is, its bucket, its reading of the clock
  source,    \* each caller: SuggestResult.Source, or the error, of its last call
  calls,
  created, spent, last,   \* history of each bucket: since when, tokens granted, time of the last grant
  waited     \* history of each bucket: ticks that calls waited between clock and lock

callVars == <<pc, my, now, source>>
bucketVars == <<tokens, updated, created, spent, last, waited>>
vars == <<clock, cur, calls, callVars, bucketVars>>
-----------------------------------------------------------------------------
(* The search *)

\* The strings that tell the normalisations apart.
Strings == {"", "a", "A", "b", "biz:a", "biz:"}

Lower(s) == IF s = "A" THEN "a" ELSE s

\* normID: lower case, without the prefix.
NormID(s) == IF s = "biz:a" THEN "a" ELSE IF s = "biz:" THEN "" ELSE Lower(s)

\* hitsFromFTS of one item: the id stands in for a missing name, and the name for the id.
HitOf(item) == LET name == IF item.name = "" THEN item.id ELSE item.name
               IN  [id |-> IF item.id = "" THEN name ELSE item.id, name |-> name]

\* SrcKeysFromFTSPayload: the keys without empty ones and repetitions.
SrcKeys(keys) ==
  LET kept[i \in 0..Len(keys)] ==
        IF i = 0 THEN <<>>
        ELSE IF keys[i] = "" \/ \E k \in 1..Len(kept[i - 1]) : kept[i - 1][k] = keys[i]
        THEN kept[i - 1] ELSE Append(kept[i - 1], keys[i])
  IN  kept[Len(keys)]

\* hitsFromFTS: the items, or the keys where there are none.
HitsFromFTS(ans) ==
  IF ans.items # <<>> THEN [i \in 1..Len(ans.items) |-> HitOf(ans.items[i])]
  ELSE LET keys == SrcKeys(ans.keys)
       IN  [i \in 1..Len(keys) |-> [id |-> keys[i], name |-> keys[i]]]

\* A hit that was seen already, by its id or by its name.
Seen(h, out) == \E k \in 1..Len(out) : \/ NormID(h.id) # "" /\ NormID(out[k].id) = NormID(h.id)
                                       \/ h.name # "" /\ Lower(out[k].name) = Lower(h.name)

\* Mutant: a dropped hit counts as seen too.
MergeHits_DroppedSeen(in) ==
  LET kept[i \in 0..Len(in)] ==
        IF i = 0 THEN <<>>
        ELSE IF Len(kept[i - 1]) >= Limit \/ Seen(in[i], SubSeq(in, 1, i - 1))
        THEN kept[i - 1] ELSE Append(kept[i - 1], in[i])
  IN  kept[Len(in)]

\* MergeHits of one group.
MergeHits(in) ==
  LET kept[i \in 0..Len(in)] ==
        IF i = 0 THEN <<>>
        ELSE IF Len(kept[i - 1]) >= Limit \/ Seen(in[i], kept[i - 1])
        THEN kept[i - 1] ELSE Append(kept[i - 1], in[i])
  IN  kept[Len(in)]

\* RunTypeaheadSearch: the hits that a caller gets for an answer of Zeus, and the
\* sources that the answers lead to.
Suggested(ans) == MergeHits(HitsFromFTS(ans))

Sources == {IF Suggested(ans) = <<>> THEN "empty" ELSE "fts" : ans \in Answers}
-----------------------------------------------------------------------------
TypeOK ==
  /\ clock \in 0..MaxTime /\ cur \in 0..MaxBuckets /\ calls \in 0..MaxCalls
  /\ tokens \in [Buckets -> 0..Burst] /\ updated \in [Buckets -> Nat]
  /\ pc \in [Callers -> {"idle", "lookup", "clock", "lock", "hop"}]
  /\ my \in [Callers -> 0..MaxBuckets] /\ now \in [Callers -> Nat]
  /\ source \in [Callers -> {"none", "empty", "fts", "error", "failed", "cancelled", "rate_limited"}]
  /\ created \in [Buckets -> Nat] /\ spent \in [Buckets -> Nat] /\ waited \in [Buckets -> Nat]
  /\ last \in [Buckets -> Int]

\* newRuntime: a full bucket, where the policy is enabled and its rate and
\* burst are positive.
Init ==
  /\ clock = 0 /\ calls = 0 /\ cur \in IF TypeaheadEnabled THEN {0, 1} ELSE {0}
  /\ tokens = [b \in Buckets |-> Burst] /\ updated = [b \in Buckets |-> 0]
  /\ created = [b \in Buckets |-> 0] /\ spent = [b \in Buckets |-> 0]
  /\ last = [b \in Buckets |-> -1] /\ waited = [b \in Buckets |-> 0]
  /\ pc = [c \in Callers |-> "idle"] /\ my = [c \in Callers |-> 0] /\ now = [c \in Callers |-> 0]
  /\ source = [c \in Callers |-> "none"]

Return(c, s) == pc' = [pc EXCEPT ![c] = "idle"] /\ source' = [source EXCEPT ![c] = s]

\* SearchSuggest; a query that is too short is answered without limiter and
\* request, unless its context has ended.
Suggest(c, short, ended) ==
  /\ pc[c] = "idle" /\ calls < MaxCalls
  /\ calls' = calls + 1
  /\ \/ short /\ Return(c, IF ended THEN "cancelled" ELSE "none")
     \/ /\ ~short
        /\ pc' = [pc EXCEPT ![c] = IF TypeaheadEnabled THEN "lookup" ELSE "hop"]
        /\ source' = [source EXCEPT ![c] = "none"]
  /\ UNCHANGED <<clock, cur, my, now, bucketVars>>

\* TokenBucketLimiter.Allow: the bucket of the surface; without one the call goes on.
Lookup(c) ==
  /\ pc[c] = "lookup"
  /\ my' = [my EXCEPT ![c] = cur]
  /\ pc' = [pc EXCEPT ![c] = IF cur = 0 THEN "hop" ELSE "clock"]
  /\ UNCHANGED <<clock, cur, calls, now, source, bucketVars>>

\* TokenBucket.Allow reads the clock before it locks.
ReadClock(c) ==
  /\ pc[c] = "clock"
  /\ now' = [now EXCEPT ![c] = clock]
  /\ pc' = [pc EXCEPT ![c] = "lock"]
  /\ UNCHANGED <<clock, cur, calls, my, source, bucketVars>>

\* The tokens of bucket b refilled up to time t.
Refilled(b, t) ==
  LET all == tokens[b] + Rate * (IF t < updated[b] THEN 0 ELSE t - updated[b])
  IN  IF all > Burst THEN Burst ELSE all

\* Mutant: the time of the refill is stored only with a grant.
Allow_LateUpdate(c) ==
  LET b == my[c] IN
  /\ pc[c] = "lock"
  /\ waited' = [waited EXCEPT ![b] = @ + clock - now[c]]
  /\ IF Refilled(b, now[c]) >= Cost
     THEN /\ tokens' = [tokens EXCEPT ![b] = Refilled(b, now[c]) - Cost]
          /\ updated' = [updated EXCEPT ![b] = now[c]]
          /\ spent' = [spent EXCEPT ![b] = @ + Cost] /\ last' = [last EXCEPT ![b] = clock]
          /\ pc' = [pc EXCEPT ![c] = "hop"] /\ UNCHANGED source
     ELSE /\ tokens' = [tokens EXCEPT ![b] = Refilled(b, now[c])]
          /\ Return(c, "rate_limited") /\ UNCHANGED <<updated, spent, last>>
  /\ now' = [now EXCEPT ![c] = 0] /\ my' = [my EXCEPT ![c] = 0]
  /\ UNCHANGED <<clock, cur, calls, created>>

\* Mutant: a refused call loses the refill.
Allow_LosesRefill(c) ==
  LET b == my[c] IN
  /\ pc[c] = "lock"
  /\ updated' = [updated EXCEPT ![b] = now[c]]
  /\ waited' = [waited EXCEPT ![b] = @ + clock - now[c]]
  /\ IF Refilled(b, now[c]) >= Cost
     THEN /\ tokens' = [tokens EXCEPT ![b] = Refilled(b, now[c]) - Cost]
          /\ spent' = [spent EXCEPT ![b] = @ + Cost] /\ last' = [last EXCEPT ![b] = clock]
          /\ pc' = [pc EXCEPT ![c] = "hop"] /\ UNCHANGED source
     ELSE Return(c, "rate_limited") /\ UNCHANGED <<tokens, spent, last>>
  /\ now' = [now EXCEPT ![c] = 0] /\ my' = [my EXCEPT ![c] = 0]
  /\ UNCHANGED <<clock, cur, calls, created>>

\* TokenBucket.Allow, under the lock.
Allow(c) ==
  LET b == my[c] IN
  /\ pc[c] = "lock"
  /\ updated' = [updated EXCEPT ![b] = now[c]]
  /\ waited' = [waited EXCEPT ![b] = @ + clock - now[c]]
  /\ IF Refilled(b, now[c]) >= Cost
     THEN /\ tokens' = [tokens EXCEPT ![b] = Refilled(b, now[c]) - Cost]
          /\ spent' = [spent EXCEPT ![b] = @ + Cost] /\ last' = [last EXCEPT ![b] = clock]
          /\ pc' = [pc EXCEPT ![c] = "hop"] /\ UNCHANGED source
     ELSE /\ tokens' = [tokens EXCEPT ![b] = Refilled(b, now[c])]
          /\ Return(c, "rate_limited") /\ UNCHANGED <<spent, last>>
  /\ now' = [now EXCEPT ![c] = 0] /\ my' = [my EXCEPT ![c] = 0]
  /\ UNCHANGED <<clock, cur, calls, created>>

\* RunTypeaheadSearch without an answer to use: the context has ended, CallVerb
\* fails, or the hop is not OK.
NoHits(c, s) ==
  /\ pc[c] = "hop"
  /\ Return(c, s)
  /\ UNCHANGED <<clock, cur, calls, my, now, bucketVars>>

\* RunTypeaheadSearch with an answer: what is kept of it is where its hits came from.
Found(c, s) ==
  /\ pc[c] = "hop"
  /\ Return(c, s)
  /\ UNCHANGED <<clock, cur, calls, my, now, bucketVars>>

\* TokenBucketLimiter.Configure with a rate and a burst that are positive;
\* calls that hold the old bucket go on with it.
Configure ==
  /\ cur < MaxBuckets
  /\ cur' = cur + 1
  /\ updated' = [updated EXCEPT ![cur'] = clock] /\ created' = [created EXCEPT ![cur'] = clock]
  /\ UNCHANGED <<clock, calls, callVars, tokens, spent, last, waited>>

Tick == /\ clock < MaxTime
        /\ clock' = clock + 1
        /\ UNCHANGED <<cur, calls, callVars, bucketVars>>

Next ==
  \/ Tick \/ Configure
  \/ \E c \in Callers :
       \/ \E short, ended \in BOOLEAN : Suggest(c, short, ended)
       \/ Lookup(c) \/ ReadClock(c) \/ Allow(c)
       \/ \E s \in {"cancelled", "failed", "error"} : NoHits(c, s)
       \/ \E s \in Sources : Found(c, s)

Spec == Init /\ [][Next]_vars
-----------------------------------------------------------------------------
(* Properties *)

(***************************************************************************)
(* "rate tokens/sec, capacity burst": a bucket never grants more than the  *)
(* burst and what the rate gives in its lifetime.                          *)
(***************************************************************************)
GrantedWithinRate == \A b \in Buckets : spent[b] <= Burst + Rate * (clock - created[b])

(***************************************************************************)
(* The excess is bounded: what a bucket grants beyond its rate is at most  *)
(* what the rate gives in the time that calls spent between their reading  *)
(* of the clock and the lock.                                              *)
(***************************************************************************)
OvershootIsTheDelay ==
  \A b \in Buckets : spent[b] <= Burst + Rate * (clock - created[b] + waited[b])

(***************************************************************************)
(* A call is refused only when its bucket was used: there was a grant less *)
(* than a full refill before the call read the clock (a bucket whose burst *)
(* does not pay for one call refuses all of them).                         *)
(***************************************************************************)
RefusedOnlyWhenUsed ==
  [][\A c \in Callers :
       pc[c] = "lock" /\ source'[c] = "rate_limited" /\ pc'[c] = "idle" /\ Burst >= Cost =>
         /\ last[my[c]] >= 0
         /\ Rate * (now[c] - last[my[c]]) < Burst]_vars

\* No two hits with one id or one name, in any spelling.
Distinct(hits) ==
  \A i, j \in 1..Len(hits) :
    i # j => /\ NormID(hits[i].id) = NormID(hits[j].id) => NormID(hits[i].id) = ""
             /\ Lower(hits[i].name) = Lower(hits[j].name) => hits[i].name = ""

\* Each of all is among the hits, or shares its id or its name with one of them.
Represents(hits, all) ==
  \A i \in 1..Len(all) : \E k \in 1..Len(hits) :
    \/ hits[k] = all[i]
    \/ NormID(all[i].id) # "" /\ NormID(hits[k].id) = NormID(all[i].id)
    \/ all[i].name # "" /\ Lower(hits[k].name) = Lower(all[i].name)

\* Both, of every answer that Zeus may give.
AllDistinct == \A ans \in Answers : Distinct(Suggested(ans))
AllRepresented ==
  \A ans \in Answers : \/ Len(Suggested(ans)) >= Limit
                       \/ Represents(Suggested(ans), HitsFromFTS(ans))

(***************************************************************************)
(* The hits that a caller gets from MergeHits have no two with one id or   *)
(* one name, the spellings that normID and lower case identify included,   *)
(* whatever Zeus answered.                                                 *)
(***************************************************************************)
HitsAreDistinct == \A c \in Callers : source[c] = "fts" => AllDistinct

(***************************************************************************)
(* Nothing is dropped without a cause: a hit of Zeus's answer that a       *)
(* caller does not get shares its id or its name with one that it gets,    *)
(* or the caller got Limit hits.                                           *)
(***************************************************************************)
NothingDropped == \A c \in Callers : source[c] \in {"fts", "empty"} => AllRepresented

(***************************************************************************)
(* The invariant of a suggestion: a bucket within its burst, and hits that *)
(* are the answer of Zeus, each once.                                      *)
(***************************************************************************)
SuggestInv == TypeOK /\ HitsAreDistinct /\ NothingDropped
=============================================================================
