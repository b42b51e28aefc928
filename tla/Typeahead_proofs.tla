-------------------------- MODULE Typeahead_proofs --------------------------
(***************************************************************************)
(* Proofs about Typeahead: how far a token bucket whose clock is read      *)
(* before its lock may exceed its rate, when it may refuse, and what the   *)
(* search keeps of an answer.                                              *)
(***************************************************************************)
EXTENDS Typeahead, TLAPS, WellFoundedInduction

\* The types that the argument needs.
BucketTypes ==
  /\ clock \in Nat /\ cur \in 0..MaxBuckets
  /\ tokens \in [Buckets -> Int] /\ updated \in [Buckets -> Nat]
  /\ created \in [Buckets -> Nat] /\ spent \in [Buckets -> Nat] /\ waited \in [Buckets -> Nat]
  /\ my \in [Callers -> 0..MaxBuckets] /\ now \in [Callers -> Nat]
  /\ pc \in [Callers -> {"idle", "lookup", "clock", "lock", "hop"}]

\* No reading and no refill is ahead of the clock.
NotAhead == /\ \A b \in Buckets : updated[b] <= clock
            /\ \A c \in Callers : now[c] <= clock

\* A call that asks a bucket asks one that was configured.
Holding == \A c \in Callers : pc[c] \in {"clock", "lock"} => my[c] \in 1..cur

\* A bucket that is not configured yet is full and unused.
Unused == \A b \in Buckets : b > cur => tokens[b] = Burst /\ spent[b] = 0 /\ waited[b] = 0

\* Tokens granted and left are covered by the burst and the refills.
Covered == \A b \in Buckets :
             tokens[b] + spent[b] <= Burst + Rate * (updated[b] - created[b] + waited[b])

\* Tokens are never negative.
NotNegative == \A b \in Buckets : tokens[b] >= 0

BucketInv == BucketTypes /\ NotAhead /\ Holding /\ Unused /\ Covered /\ NotNegative
-----------------------------------------------------------------------------
(* A longer time gives at least as many tokens. *)
LEMMA RateMonotone ==
  ASSUME NEW x \in Int, NEW y \in Int, x <= y
  PROVE  /\ Rate * x \in Int /\ Rate * y \in Int
         /\ Rate * x <= Rate * y
         /\ Rate * (y - x) = Rate * y - Rate * x
<1>1. Rate \in Nat
  BY TypeaheadAssumption
<1>2. QED
  BY <1>1

LEMMA InitBucketInv == Init => BucketInv
<1> SUFFICES ASSUME Init PROVE BucketInv
  OBVIOUS
<1> USE TypeaheadAssumption DEF Init, Buckets
<1>1. BucketTypes
  BY DEF BucketTypes
<1>2. NotAhead /\ Holding /\ Unused /\ NotNegative
  BY DEF NotAhead, Holding, Unused, NotNegative
<1>3. Covered
  <2>1. Rate * (0 - 0 + 0) = 0
    OBVIOUS
  <2>2. QED
    BY <2>1 DEF Covered
<1>4. QED
  BY <1>1, <1>2, <1>3 DEF BucketInv

(* The locked section of TokenBucket.Allow: the tokens it adds are those of
   the time between updated and its reading, and where the reading is older
   than updated the wait for the lock covers the step back. *)
LEMMA AllowKeeps ==
  ASSUME BucketInv, NEW c \in Callers, Allow(c)
  PROVE  BucketInv'
<1> DEFINE b == my[c]
           n == now[c]
           r == Refilled(b, n)
<1> USE TypeaheadAssumption
<1>1. /\ pc[c] = "lock" /\ b \in Buckets /\ b <= cur /\ b \in Nat
  BY DEF Allow, BucketInv, Holding, Buckets, BucketTypes
<1>2. /\ n \in Nat /\ n <= clock /\ clock \in Nat /\ updated[b] \in Nat /\ updated[b] <= clock
      /\ created[b] \in Nat /\ waited[b] \in Nat /\ tokens[b] \in Int /\ tokens[b] >= 0
      /\ spent[b] \in Nat
  BY <1>1 DEF BucketInv, BucketTypes, NotAhead, NotNegative
<1> DEFINE gain == IF n < updated[b] THEN 0 ELSE n - updated[b]
           old == updated[b] - created[b] + waited[b]
           new == n - created[b] + (waited[b] + clock - n)
<1>3. gain \in Nat /\ old \in Int /\ new \in Int /\ old + gain <= new
  BY <1>2
<1>4. Rate * gain \in Nat
  BY <1>3
<1>5. r \in Int /\ r >= 0 /\ r <= tokens[b] + Rate * gain
  <2>1. r = IF tokens[b] + Rate * gain > Burst THEN Burst ELSE tokens[b] + Rate * gain
    BY DEF Refilled
  <2>2. QED
    BY <2>1, <1>2, <1>4
<1>6. tokens[b] + spent[b] <= Burst + Rate * old
  BY <1>1 DEF BucketInv, Covered
<1>7. Rate * old + Rate * gain <= Rate * new
  <2>1. Rate * old + Rate * gain = Rate * (old + gain)
    BY <1>3
  <2>2. Rate * (old + gain) <= Rate * new
    BY <1>3, RateMonotone
  <2>3. QED
    BY <2>1, <2>2
<1>8. Rate * old \in Int /\ Rate * new \in Int
  BY <1>3
<1>9. r + spent[b] <= Burst + Rate * new
  BY <1>2, <1>4, <1>5, <1>6, <1>7, <1>8
<1>10. PICK t \in Int, s \in Nat :
         /\ tokens' = [tokens EXCEPT ![b] = t] /\ spent' = [spent EXCEPT ![b] = s]
         /\ t >= 0 /\ t + s = r + spent[b]
  <2>1. CASE r >= Cost
    <3>1. /\ tokens' = [tokens EXCEPT ![b] = r - Cost]
          /\ spent' = [spent EXCEPT ![b] = spent[b] + Cost]
      BY <2>1 DEF Allow
    <3>2. r - Cost \in Int /\ spent[b] + Cost \in Nat /\ r - Cost >= 0
          /\ (r - Cost) + (spent[b] + Cost) = r + spent[b]
      BY <2>1, <1>2, <1>5
    <3> HIDE DEF r, b
    <3>3. QED
      BY <3>1, <3>2
  <2>2. CASE ~(r >= Cost)
    <3>1. tokens' = [tokens EXCEPT ![b] = r] /\ spent' = spent
      BY <2>2 DEF Allow
    <3>2. spent' = [spent EXCEPT ![b] = spent[b]]
      BY <3>1 DEF BucketInv, BucketTypes
    <3> HIDE DEF r, b
    <3>3. QED
      BY <3>1, <3>2, <1>2, <1>5
  <2>3. QED
    BY <2>1, <2>2
<1>11. /\ updated' = [updated EXCEPT ![b] = n]
       /\ waited' = [waited EXCEPT ![b] = waited[b] + clock - n]
       /\ my' = [my EXCEPT ![c] = 0] /\ now' = [now EXCEPT ![c] = 0]
       /\ UNCHANGED <<clock, cur, created>>
       /\ \E q \in {"hop", "idle"} : pc' = [pc EXCEPT ![c] = q]
  BY DEF Allow, Return
<1>12. waited[b] + clock - n \in Nat /\ Rate * (n - created[b] + (waited[b] + clock - n)) = Rate * new
  BY <1>2
<1> HIDE DEF b, n, r, gain, old
<1>13. BucketTypes'
  BY <1>1, <1>2, <1>10, <1>11, <1>12 DEF BucketInv, BucketTypes
<1>14. NotAhead' /\ Holding' /\ NotNegative'
  BY <1>1, <1>2, <1>10, <1>11 DEF BucketInv, BucketTypes, NotAhead, Holding, NotNegative
<1>15. Unused'
  BY <1>1, <1>10, <1>11 DEF BucketInv, BucketTypes, Unused
<1>16. Covered'
  <2> SUFFICES ASSUME NEW k \in Buckets
               PROVE  tokens'[k] + spent'[k] <= Burst + Rate * (updated'[k] - created'[k] + waited'[k])
    BY DEF Covered
  <2>1. CASE k = b
    <3>1. /\ tokens'[k] = t /\ spent'[k] = s /\ updated'[k] = n /\ created'[k] = created[b]
          /\ waited'[k] = waited[b] + clock - n
      BY <2>1, <1>1, <1>10, <1>11 DEF BucketInv, BucketTypes
    <3>2. t + s <= Burst + Rate * new
      BY <1>9, <1>10
    <3>3. QED
      BY <3>1, <3>2, <1>12
  <2>2. CASE k # b
    <3>1. /\ tokens'[k] = tokens[k] /\ spent'[k] = spent[k] /\ updated'[k] = updated[k]
          /\ created'[k] = created[k] /\ waited'[k] = waited[k]
      BY <2>2, <1>10, <1>11 DEF BucketInv, BucketTypes
    <3>2. QED
      BY <3>1 DEF BucketInv, Covered
  <2>3. QED
    BY <2>1, <2>2
<1>17. QED
  BY <1>13, <1>14, <1>15, <1>16 DEF BucketInv

(* Configure starts a full bucket with no time behind it. *)
LEMMA ConfigureKeeps ==
  ASSUME BucketInv, Configure
  PROVE  BucketInv'
<1> USE TypeaheadAssumption
<1> DEFINE k == cur + 1
<1>1. /\ cur \in Nat /\ cur' = k /\ k \in Buckets /\ k \in 0..MaxBuckets /\ clock \in Nat
      /\ updated' = [updated EXCEPT ![k] = clock] /\ created' = [created EXCEPT ![k] = clock]
      /\ UNCHANGED <<clock, pc, my, now, tokens, spent, waited>>
  BY DEF Configure, BucketInv, BucketTypes, Buckets, callVars
<1>2. tokens[k] = Burst /\ spent[k] = 0 /\ waited[k] = 0
  BY <1>1 DEF BucketInv, Unused
<1> HIDE DEF k
<1>3. BucketTypes'
  BY <1>1 DEF BucketInv, BucketTypes
<1>4. NotAhead' /\ NotNegative'
  BY <1>1 DEF BucketInv, BucketTypes, NotAhead, NotNegative
<1>5. Holding' /\ Unused'
  <2>1. \A b \in Buckets : b \in Int /\ (b > k => b > cur)
    BY <1>1 DEF Buckets, k
  <2>2. \A x \in 1..cur : x \in 1..k
    BY <1>1 DEF k
  <2>3. Unused'
    BY <2>1, <1>1 DEF BucketInv, Unused
  <2>4. Holding'
    BY <2>2, <1>1 DEF BucketInv, Holding
  <2>5. QED
    BY <2>3, <2>4
<1>6. Covered'
  <2> SUFFICES ASSUME NEW b \in Buckets
               PROVE  tokens'[b] + spent'[b] <= Burst + Rate * (updated'[b] - created'[b] + waited'[b])
    BY DEF Covered
  <2>1. CASE b = k
    <3>1. Rate * (clock - clock + 0) = 0
      BY <1>1
    <3>2. updated'[b] = clock /\ created'[b] = clock /\ waited'[b] = 0
      BY <2>1, <1>1, <1>2 DEF BucketInv, BucketTypes
    <3>3. QED
      BY <3>1, <3>2, <2>1, <1>1, <1>2
  <2>2. CASE b # k
    BY <2>2, <1>1 DEF BucketInv, BucketTypes, Covered
  <2>3. QED
    BY <2>1, <2>2
<1>7. QED
  BY <1>3, <1>4, <1>5, <1>6 DEF BucketInv

LEMMA NextBucketInv == BucketInv /\ [Next]_vars => BucketInv'
<1> SUFFICES ASSUME BucketInv, [Next]_vars PROVE BucketInv'
  OBVIOUS
<1> USE TypeaheadAssumption
<1>1. CASE Tick
  <2>1. clock' = clock + 1 /\ UNCHANGED <<cur, pc, my, now, tokens, updated, created, spent, waited>>
    BY <1>1 DEF Tick, callVars, bucketVars
  <2>2. QED
    BY <2>1 DEF BucketInv, BucketTypes, NotAhead, Holding, Unused, Covered, NotNegative
<1>2. CASE Configure
  BY <1>2, ConfigureKeeps
<1>3. ASSUME NEW c \in Callers, Allow(c) PROVE BucketInv'
  BY <1>3, AllowKeeps
<1>4. ASSUME NEW c \in Callers, ReadClock(c) PROVE BucketInv'
  <2>1. /\ now' = [now EXCEPT ![c] = clock] /\ pc' = [pc EXCEPT ![c] = "lock"] /\ pc[c] = "clock"
        /\ UNCHANGED <<clock, cur, my, tokens, updated, created, spent, waited>>
    BY <1>4 DEF ReadClock, bucketVars
  <2>2. QED
    BY <2>1 DEF BucketInv, BucketTypes, NotAhead, Holding, Unused, Covered, NotNegative
<1>5. ASSUME NEW c \in Callers, Lookup(c) PROVE BucketInv'
  <2>1. /\ my' = [my EXCEPT ![c] = cur]
        /\ pc' = [pc EXCEPT ![c] = IF cur = 0 THEN "hop" ELSE "clock"]
        /\ UNCHANGED <<clock, cur, now, tokens, updated, created, spent, waited>>
    BY <1>5 DEF Lookup, bucketVars
  <2>2. QED
    BY <2>1 DEF BucketInv, BucketTypes, NotAhead, Holding, Unused, Covered, NotNegative
<1>6. ASSUME NEW c \in Callers, NEW q \in {"idle", "lookup", "hop"}, pc' = [pc EXCEPT ![c] = q],
             UNCHANGED <<clock, cur, my, now, tokens, updated, created, spent, waited>>
      PROVE  BucketInv'
  BY <1>6 DEF BucketInv, BucketTypes, NotAhead, Holding, Unused, Covered, NotNegative
<1>7. ASSUME NEW c \in Callers, NEW short \in BOOLEAN, NEW ended \in BOOLEAN, Suggest(c, short, ended)
      PROVE  BucketInv'
  <2>1. /\ \E q \in {"idle", "lookup", "hop"} : pc' = [pc EXCEPT ![c] = q]
        /\ UNCHANGED <<clock, cur, my, now, tokens, updated, created, spent, waited>>
    BY <1>7 DEF Suggest, Return, bucketVars
  <2>2. QED
    BY <2>1, <1>6
<1>8. ASSUME NEW c \in Callers, NEW s, NoHits(c, s) PROVE BucketInv'
  <2>1. /\ pc' = [pc EXCEPT ![c] = "idle"]
        /\ UNCHANGED <<clock, cur, my, now, tokens, updated, created, spent, waited>>
    BY <1>8 DEF NoHits, Return, bucketVars
  <2>2. QED
    BY <2>1, <1>6
<1>9. ASSUME NEW c \in Callers, NEW s, Found(c, s) PROVE BucketInv'
  <2>1. /\ pc' = [pc EXCEPT ![c] = "idle"]
        /\ UNCHANGED <<clock, cur, my, now, tokens, updated, created, spent, waited>>
    BY <1>9 DEF Found, Return, bucketVars
  <2>2. QED
    BY <2>1, <1>6
<1>10. CASE UNCHANGED vars
  BY <1>10 DEF vars, callVars, bucketVars, BucketInv, BucketTypes, NotAhead, Holding, Unused,
                Covered, NotNegative
<1>11. QED
  BY <1>1, <1>2, <1>3, <1>4, <1>5, <1>7, <1>8, <1>9, <1>10 DEF Next
-----------------------------------------------------------------------------
(* The inductive invariant of the token buckets. *)
THEOREM BucketInvariant == Spec => []BucketInv
<1>1. QED
  BY InitBucketInv, NextBucketInv, PTL DEF Spec

(* For any number of goroutines, any rate, burst and cost: TokenBucket.Allow
   grants at most the burst, what the rate gives in the bucket's lifetime, and
   what it gives in the time that calls waited between clock and lock. *)
THEOREM ExcessIsBounded == Spec => []OvershootIsTheDelay
<1>1. BucketInv => OvershootIsTheDelay
  <2> SUFFICES ASSUME BucketInv, NEW b \in Buckets
               PROVE  spent[b] <= Burst + Rate * (clock - created[b] + waited[b])
    BY DEF OvershootIsTheDelay
  <2> DEFINE x == updated[b] - created[b] + waited[b]
             y == clock - created[b] + waited[b]
  <2>1. /\ x \in Int /\ y \in Int /\ x <= y /\ tokens[b] \in Int /\ tokens[b] >= 0 /\ spent[b] \in Nat
    BY DEF BucketInv, BucketTypes, NotAhead, NotNegative
  <2>2. tokens[b] + spent[b] <= Burst + Rate * x
    BY DEF BucketInv, Covered
  <2> HIDE DEF x, y
  <2>3. Rate * x \in Int /\ Rate * y \in Int /\ Rate * x <= Rate * y
    BY <2>1, RateMonotone
  <2>4. spent[b] <= Burst + Rate * y
    BY <2>1, <2>2, <2>3, TypeaheadAssumption
  <2>5. QED
    BY <2>4 DEF y
<1>2. QED
  BY <1>1, BucketInvariant, PTL
-----------------------------------------------------------------------------
(* The search.  What MergeHits and SrcKeys compute is defined by recursion over
   their input.  The lemmas below are the induction that they need, over sets of
   numbers instead of predicates. *)

\* A set of numbers has a least one.
LEMMA Least == ASSUME NEW S \in SUBSET Nat, S # {} PROVE \E m \in S : \A n \in S : m <= n
<1> DEFINE R == OpToRel(<, Nat)
<1>1. \A x, y \in Nat : <<x, y>> \in R <=> x < y
  BY DEF OpToRel
<1>2. IsWellFoundedOn(R, Nat)
  BY NatLessThanWellFounded
<1> HIDE DEF R
<1>3. PICK m \in S : \A n \in S : <<n, m>> \notin R
  BY <1>2, WFMin
<1>4. ASSUME NEW n \in S PROVE m <= n
  <2>1. m \in Nat /\ n \in Nat
    OBVIOUS
  <2>2. ~(n < m)
    BY <1>1, <1>3, <2>1, Zenon
  <2>3. QED
    BY <2>1, <2>2
<1>5. QED
  BY <1>4

\* What holds of 0 and goes on from each number to the next holds of all up to n.
LEMMA Inductive ==
  ASSUME NEW n \in Nat, NEW G, 0 \in G, \A i \in 1..n : i - 1 \in G => i \in G
  PROVE  \A i \in 0..n : i \in G
<1> SUFFICES ASSUME \E i \in 0..n : i \notin G PROVE FALSE
  OBVIOUS
<1> DEFINE S == {i \in 0..n : i \notin G}
<1>1. S \in SUBSET Nat /\ S # {}
  OBVIOUS
<1> HIDE DEF S
<1>2. PICK m \in S : \A k \in S : m <= k
  BY <1>1, Least
<1>3. m \in 0..n /\ m \notin G
  BY <1>2 DEF S
<1>4. m \in 1..n /\ m - 1 \in 0..n
  BY <1>3
<1>5. m - 1 \notin S
  BY <1>2, <1>4
<1>6. QED
  BY <1>3, <1>4, <1>5 DEF S

\* f is what the first value e and the step g give, up to n.
Unrolls(f, T, e, g, n) ==
  f \in [0..n -> T] /\ f[0] = e /\ \A i \in 1..n : f[i] = g[f[i - 1]][i]

\* A first value and a step define a function.
LEMMA Recursion ==
  ASSUME NEW T, NEW e \in T, NEW n \in Nat, NEW g \in [T -> [1..n -> T]]
  PROVE  \E f : Unrolls(f, T, e, g, n)
<1> DEFINE G == {m \in 0..n : \E f : Unrolls(f, T, e, g, m)}
<1>1. 0 \in G
  <2>1. PICK f : f = [i \in 0..0 |-> e]
    OBVIOUS
  <2>2. Unrolls(f, T, e, g, 0)
    BY <2>1 DEF Unrolls
  <2>3. QED
    BY <2>2
<1>2. ASSUME NEW m \in 1..n, m - 1 \in G PROVE m \in G
  <2>1. PICK f : Unrolls(f, T, e, g, m - 1)
    BY <1>2
  <2>2. /\ f \in [0..(m - 1) -> T] /\ f[0] = e
        /\ \A i \in 1..(m - 1) : f[i] = g[f[i - 1]][i]
    BY <2>1 DEF Unrolls
  <2>3. f[m - 1] \in T /\ \A i \in 0..m : i # m => f[i] \in T
    BY <2>2
  <2>4. PICK v \in T : v = g[f[m - 1]][m]
    BY <2>3
  <2>5. PICK h : h = [i \in 0..m |-> IF i = m THEN v ELSE f[i]]
    OBVIOUS
  <2>6. h \in [0..m -> T]
    BY <2>3, <2>5
  <2>7. h[m] = v /\ \A i \in 0..(m - 1) : h[i] = f[i]
    BY <2>5
  <2>8. h[0] = e
    <3>1. 0 \in 0..(m - 1)
      OBVIOUS
    <3>2. QED
      BY <2>2, <2>7, <3>1
  <2>9. ASSUME NEW i \in 1..m PROVE h[i] = g[h[i - 1]][i]
    <3>1. h[i - 1] = f[i - 1]
      <4>1. i - 1 \in 0..(m - 1)
        OBVIOUS
      <4>2. QED
        BY <2>7, <4>1
    <3>2. CASE i = m
      BY <2>4, <2>7, <3>1, <3>2
    <3>3. CASE i # m
      <4>1. i \in 1..(m - 1) /\ i \in 0..(m - 1)
        BY <3>3
      <4>2. QED
        BY <2>2, <2>7, <3>1, <4>1
    <3>4. QED
      BY <3>2, <3>3
  <2>10. Unrolls(h, T, e, g, m)
    BY <2>6, <2>8, <2>9 DEF Unrolls
  <2>11. QED
    BY <2>10
<1>3. n \in G
  <2> HIDE DEF G
  <2>1. \A i \in 0..n : i \in G
    BY <1>1, <1>2, Inductive
  <2>2. QED
    BY <2>1
<1>4. QED
  BY <1>3

\* What hitsFromFTS makes of an item.
Hit == [id : STRING, name : STRING]

LEMMA KeysAreStrings == ASSUME NEW keys \in Seq(STRING) PROVE SrcKeys(keys) \in Seq(STRING)
<1> DEFINE n == Len(keys)
           Step(s, i) == IF keys[i] = "" \/ \E k \in 1..Len(s) : s[k] = keys[i]
                         THEN s ELSE Append(s, keys[i])
           kept == CHOOSE f : f = [i \in 0..n |-> IF i = 0 THEN <<>> ELSE Step(f[i - 1], i)]
<1>1. PICK T, e : T = Seq(STRING) /\ e = <<>>
  OBVIOUS
<1>2. n \in Nat /\ e \in T /\ \A i \in 1..n : keys[i] \in STRING
  BY <1>1
<1>3. ASSUME NEW s \in T, NEW i \in 1..n PROVE Step(s, i) \in T
  <2>1. Append(s, keys[i]) \in T
    BY <1>1, <1>2
  <2>2. QED
    BY <2>1
<1>4. SrcKeys(keys) = kept[n]
  BY DEF SrcKeys
<1> HIDE DEF Step, n
<1> DEFINE g == [s \in T |-> [i \in 1..n |-> Step(s, i)]]
<1>5. g \in [T -> [1..n -> T]]
  BY <1>3
<1>6. \A s \in T, i \in 1..n : g[s][i] = Step(s, i)
  OBVIOUS
<1> HIDE DEF g
<1>u. PICK f : Unrolls(f, T, e, g, n)
  BY <1>2, <1>5, Recursion
<1>7. f \in [0..n -> T] /\ f[0] = e /\ \A i \in 1..n : f[i] = g[f[i - 1]][i]
  BY <1>u DEF Unrolls
<1>8. \A i \in 1..n : f[i] = Step(f[i - 1], i)
  <2>1. ASSUME NEW i \in 1..n PROVE f[i - 1] \in T
    <3>1. i - 1 \in 0..n
      BY <1>2
    <3>2. QED
      BY <1>7, <3>1
  <2>2. QED
    BY <1>6, <1>7, <2>1
<1>9. f = [i \in 0..n |-> IF i = 0 THEN <<>> ELSE Step(f[i - 1], i)]
  <2>1. \A i \in 0..n : f[i] = IF i = 0 THEN <<>> ELSE Step(f[i - 1], i)
    BY <1>1, <1>2, <1>7, <1>8
  <2>2. QED
    BY <1>7, <2>1
<1>10. kept = [i \in 0..n |-> IF i = 0 THEN <<>> ELSE Step(kept[i - 1], i)]
  BY <1>9
<1> HIDE DEF kept
<1>11. kept[0] = e /\ \A i \in 1..n : kept[i] = Step(kept[i - 1], i)
  BY <1>1, <1>2, <1>10
<1> DEFINE G == {i \in 0..n : kept[i] \in T}
<1>12. 0 \in G
  BY <1>2, <1>11
<1>13. ASSUME NEW i \in 1..n, i - 1 \in G PROVE i \in G
  <2>1. kept[i - 1] \in T /\ i \in 0..n
    BY <1>2, <1>13
  <2>2. QED
    BY <1>3, <1>11, <2>1
<1>14. n \in G
  <2> HIDE DEF G
  <2>1. \A i \in 0..n : i \in G
    BY <1>2, <1>12, <1>13, Inductive
  <2>2. QED
    BY <1>2, <2>1
<1>15. QED
  BY <1>1, <1>4, <1>14

\* Whether MergeHits drops h after the hits out.
Drops(h, out) == Len(out) >= Limit \/ Seen(h, out)

\* MergeHits keeps its hits one after the other.
Merges(kept, in) ==
  /\ kept \in [0..Len(in) -> Seq(Hit)] /\ kept[0] = <<>>
  /\ \A i \in 1..Len(in) : \/ Drops(in[i], kept[i - 1]) /\ kept[i] = kept[i - 1]
                           \/ ~Drops(in[i], kept[i - 1]) /\ kept[i] = Append(kept[i - 1], in[i])

LEMMA Merging ==
  ASSUME NEW in \in Seq(Hit)
  PROVE  \E kept : Merges(kept, in) /\ MergeHits(in) = kept[Len(in)]
<1> DEFINE n == Len(in)
           Step(s, i) == IF Len(s) >= Limit \/ Seen(in[i], s) THEN s ELSE Append(s, in[i])
           kept == CHOOSE f : f = [i \in 0..n |-> IF i = 0 THEN <<>> ELSE Step(f[i - 1], i)]
<1>1. PICK T, e : T = Seq(Hit) /\ e = <<>>
  OBVIOUS
<1>2. n \in Nat /\ e \in T /\ \A i \in 1..n : in[i] \in Hit
  BY <1>1
<1>3. ASSUME NEW s \in T, NEW i \in 1..n PROVE Step(s, i) \in T
  <2>1. Append(s, in[i]) \in T
    BY <1>1, <1>2
  <2>2. QED
    BY <2>1
<1>4. MergeHits(in) = kept[n]
  BY DEF MergeHits
<1>s. ASSUME NEW s, NEW i
      PROVE  \/ Drops(in[i], s) /\ Step(s, i) = s
             \/ ~Drops(in[i], s) /\ Step(s, i) = Append(s, in[i])
  BY DEF Drops
<1> HIDE DEF Step, n
<1> DEFINE g == [s \in T |-> [i \in 1..n |-> Step(s, i)]]
<1>5. g \in [T -> [1..n -> T]]
  BY <1>3
<1>6. \A s \in T, i \in 1..n : g[s][i] = Step(s, i)
  OBVIOUS
<1> HIDE DEF g
<1>u. PICK f : Unrolls(f, T, e, g, n)
  BY <1>2, <1>5, Recursion
<1>7. f \in [0..n -> T] /\ f[0] = e /\ \A i \in 1..n : f[i] = g[f[i - 1]][i]
  BY <1>u DEF Unrolls
<1>8. \A i \in 1..n : f[i] = Step(f[i - 1], i)
  <2>1. ASSUME NEW i \in 1..n PROVE f[i - 1] \in T
    <3>1. i - 1 \in 0..n
      BY <1>2
    <3>2. QED
      BY <1>7, <3>1
  <2>2. QED
    BY <1>6, <1>7, <2>1
<1>9. f = [i \in 0..n |-> IF i = 0 THEN <<>> ELSE Step(f[i - 1], i)]
  <2>1. \A i \in 0..n : f[i] = IF i = 0 THEN <<>> ELSE Step(f[i - 1], i)
    BY <1>1, <1>2, <1>7, <1>8
  <2>2. QED
    BY <1>7, <2>1
<1>10. kept = [i \in 0..n |-> IF i = 0 THEN <<>> ELSE Step(kept[i - 1], i)]
  BY <1>9
<1>k. PICK k : k = kept
  OBVIOUS
<1> HIDE DEF kept
<1>11. k[0] = e /\ \A i \in 1..n : k[i] = Step(k[i - 1], i)
  BY <1>1, <1>2, <1>10, <1>k
<1> DEFINE G == {i \in 0..n : k[i] \in T}
<1>12. 0 \in G
  BY <1>2, <1>11
<1>13. ASSUME NEW i \in 1..n, i - 1 \in G PROVE i \in G
  <2>1. k[i - 1] \in T /\ i \in 0..n
    BY <1>2, <1>13
  <2>2. QED
    BY <1>3, <1>11, <2>1
<1>14. \A i \in 0..n : k[i] \in T
  <2>1. \A i \in 0..n : i \in G
    <3> HIDE DEF G
    <3>1. QED
      BY <1>2, <1>12, <1>13, Inductive
  <2>2. QED
    BY <2>1
<1>15. k \in [0..n -> T]
  BY <1>10, <1>14, <1>k
<1>16. Merges(k, in)
  BY <1>1, <1>11, <1>15, <1>s DEF Merges, n
<1>17. QED
  BY <1>4, <1>16, <1>k DEF n

LEMMA LowerIs == \A s : Lower(s) = "" => s = ""
  BY DEF Lower

\* A hit that MergeHits does not drop differs from those before it.
LEMMA AppendKeepsDistinct ==
  ASSUME NEW s \in Seq(Hit), NEW h \in Hit, Distinct(s), ~Seen(h, s)
  PROVE  Distinct(Append(s, h))
<1>1. PICK t : t = Append(s, h)
  OBVIOUS
<1>2. PICK n \in Nat : n = Len(s)
  OBVIOUS
<1>3. Len(t) = n + 1 /\ t[n + 1] = h /\ \A i \in 1..n : t[i] = s[i]
  BY <1>1, <1>2
<1>4. \A k \in 1..n : /\ NormID(s[k].id) = NormID(h.id) => NormID(h.id) = ""
                      /\ Lower(s[k].name) = Lower(h.name) => h.name = ""
  BY <1>2 DEF Seen
<1>5. \A k \in 1..n : Lower(s[k].name) = Lower(h.name) => s[k].name = ""
  <2>1. Lower("") = ""
    BY DEF Lower
  <2>2. QED
    BY <1>4, <2>1, LowerIs
<1>6. ASSUME NEW i \in 1..(n + 1), NEW j \in 1..(n + 1), i # j
      PROVE  /\ NormID(t[i].id) = NormID(t[j].id) => NormID(t[i].id) = ""
             /\ Lower(t[i].name) = Lower(t[j].name) => t[i].name = ""
  <2>1. CASE i \in 1..n /\ j \in 1..n
    BY <1>2, <1>3, <1>6, <2>1 DEF Distinct
  <2>2. CASE i \in 1..n /\ j = n + 1
    BY <1>3, <1>4, <1>5, <2>2
  <2>3. CASE i = n + 1 /\ j \in 1..n
    <3>1. t[i] = h /\ t[j] = s[j]
      BY <1>3, <2>3
    <3>2. QED
      BY <1>4, <2>3, <3>1
  <2>4. /\ i \in 1..n \/ i = n + 1
        /\ j \in 1..n \/ j = n + 1
    OBVIOUS
  <2>5. QED
    BY <1>6, <2>1, <2>2, <2>3, <2>4
<1>7. QED
  BY <1>1, <1>3, <1>6 DEF Distinct

\* MergeHits keeps no two hits with one id or one name.
LEMMA MergedAreDistinct == ASSUME NEW in \in Seq(Hit) PROVE Distinct(MergeHits(in))
<1>1. PICK kept : Merges(kept, in) /\ MergeHits(in) = kept[Len(in)]
  BY Merging
<1>2. PICK n \in Nat : n = Len(in)
  OBVIOUS
<1>3. /\ kept \in [0..n -> Seq(Hit)] /\ kept[0] = <<>> /\ \A i \in 1..n : in[i] \in Hit
      /\ \A i \in 1..n : \/ kept[i] = kept[i - 1]
                         \/ ~Seen(in[i], kept[i - 1]) /\ kept[i] = Append(kept[i - 1], in[i])
  BY <1>1, <1>2 DEF Merges, Drops
<1> DEFINE G == {i \in 0..n : Distinct(kept[i])}
<1>4. 0 \in G
  <2>1. PICK s : s = kept[0]
    OBVIOUS
  <2>2. 1..Len(s) = {}
    BY <1>3, <2>1
  <2>3. Distinct(s)
    BY <2>2 DEF Distinct
  <2>4. QED
    BY <2>1, <2>3
<1>5. ASSUME NEW i \in 1..n, i - 1 \in G PROVE i \in G
  <2>1. Distinct(kept[i - 1]) /\ kept[i - 1] \in Seq(Hit) /\ i \in 0..n
    BY <1>3, <1>5
  <2>2. Distinct(kept[i])
    BY <1>3, <2>1, AppendKeepsDistinct
  <2>3. QED
    BY <2>1, <2>2
<1>6. n \in G
  <2> HIDE DEF G
  <2>1. \A i \in 0..n : i \in G
    BY <1>4, <1>5, Inductive
  <2>2. QED
    BY <2>1
<1>7. QED
  BY <1>1, <1>2, <1>6

\* The i-th of all is among the hits, or shares its id or its name with one of them.
Stands(hits, all, i) ==
  \E k \in 1..Len(hits) : \/ hits[k] = all[i]
                          \/ NormID(all[i].id) # "" /\ NormID(hits[k].id) = NormID(all[i].id)
                          \/ all[i].name # "" /\ Lower(hits[k].name) = Lower(all[i].name)

\* A longer list of hits stands for what a shorter one does.
LEMMA AppendStands ==
  ASSUME NEW s \in Seq(Hit), NEW h \in Hit, NEW all, NEW i
  PROVE  /\ Stands(s, all, i) => Stands(Append(s, h), all, i)
         /\ h = all[i] => Stands(Append(s, h), all, i)
<1>1. PICK t : t = Append(s, h)
  OBVIOUS
<1>2. PICK n \in Nat : n = Len(s)
  OBVIOUS
<1>3. Len(t) = n + 1 /\ t[n + 1] = h /\ \A k \in 1..n : k \in 1..(n + 1) /\ t[k] = s[k]
  BY <1>1, <1>2
<1>4. Stands(s, all, i) => Stands(t, all, i)
  BY <1>2, <1>3 DEF Stands
<1>5. h = all[i] => Stands(t, all, i)
  <2>1. n + 1 \in 1..(n + 1)
    OBVIOUS
  <2>2. QED
    BY <1>3, <2>1 DEF Stands
<1>6. QED
  BY <1>1, <1>4, <1>5

\* A hit that MergeHits drops below the limit has one that stands for it.
LEMMA MergedRepresents ==
  ASSUME NEW in \in Seq(Hit)
  PROVE  Len(MergeHits(in)) >= Limit \/ Represents(MergeHits(in), in)
<1>1. PICK kept : Merges(kept, in) /\ MergeHits(in) = kept[Len(in)]
  BY Merging
<1>2. PICK n \in Nat : n = Len(in)
  OBVIOUS
<1>3. /\ kept \in [0..n -> Seq(Hit)] /\ \A i \in 1..n : in[i] \in Hit
      /\ \A i \in 1..n : \/ Len(kept[i - 1]) >= Limit /\ kept[i] = kept[i - 1]
                         \/ Seen(in[i], kept[i - 1]) /\ kept[i] = kept[i - 1]
                         \/ Len(kept[i - 1]) < Limit /\ kept[i] = Append(kept[i - 1], in[i])
  <2>1. \A i \in 1..n : Len(kept[i - 1]) \in Nat
    <3>1. \A i \in 1..n : i - 1 \in 0..n
      OBVIOUS
    <3>2. QED
      BY <1>1, <1>2, <3>1 DEF Merges
  <2>2. Limit \in Nat
    BY TypeaheadAssumption
  <2>3. QED
    BY <1>1, <1>2, <2>1, <2>2 DEF Merges, Drops
<1> DEFINE Full(s) == Len(s) >= Limit
           G == {i \in 0..n : Full(kept[i]) \/ \A j \in 1..i : Stands(kept[i], in, j)}
<1>4. 0 \in G
  OBVIOUS
<1>5. ASSUME NEW i \in 1..n, i - 1 \in G PROVE i \in G
  <2>1. /\ i \in 0..n /\ i - 1 \in 0..n /\ kept[i - 1] \in Seq(Hit) /\ in[i] \in Hit
        /\ \A j \in 1..i : j \in 1..(i - 1) \/ j = i
    BY <1>3
  <2>2. Full(kept[i - 1]) \/ \A j \in 1..(i - 1) : Stands(kept[i - 1], in, j)
    BY <1>5
  <2>3. CASE Full(kept[i - 1]) /\ kept[i] = kept[i - 1]
    BY <2>1, <2>3
  <2>4. CASE Seen(in[i], kept[i - 1]) /\ kept[i] = kept[i - 1]
    <3>1. Stands(kept[i - 1], in, i)
      BY <2>4 DEF Seen, Stands
    <3> HIDE DEF Full
    <3>2. QED
      BY <2>1, <2>2, <2>4, <3>1
  <2>5. CASE Len(kept[i - 1]) < Limit /\ kept[i] = Append(kept[i - 1], in[i])
    <3>1. \A j \in 1..(i - 1) : Stands(kept[i - 1], in, j)
      <4>1. Len(kept[i - 1]) \in Nat /\ Limit \in Nat
        BY <2>1, TypeaheadAssumption
      <4>2. ~Full(kept[i - 1])
        BY <2>5, <4>1
      <4> HIDE DEF Full
      <4>3. QED
        BY <2>2, <4>2
    <3>2. ASSUME NEW j \in 1..i PROVE Stands(kept[i], in, j)
      <4>1. CASE j = i
        BY <2>1, <2>5, <4>1, AppendStands
      <4>2. CASE j \in 1..(i - 1)
        <5>1. Stands(kept[i - 1], in, j)
          BY <3>1, <4>2
        <5>2. QED
          BY <2>1, <2>5, <5>1, AppendStands
      <4>3. QED
        BY <2>1, <4>1, <4>2
    <3> HIDE DEF Full
    <3>3. QED
      BY <2>1, <3>2
  <2>6. QED
    BY <1>3, <2>3, <2>4, <2>5
<1>6. n \in G
  <2> HIDE DEF G
  <2>1. \A i \in 0..n : i \in G
    BY <1>4, <1>5, Inductive
  <2>2. QED
    BY <2>1
<1>7. PICK hits : hits = kept[n]
  OBVIOUS
<1>8. Full(hits) \/ \A j \in 1..n : Stands(hits, in, j)
  BY <1>6, <1>7
<1>9. Full(hits) \/ Represents(hits, in)
  <2> HIDE DEF Full
  <2>1. QED
    BY <1>2, <1>8 DEF Represents, Stands
<1>10. MergeHits(in) = hits
  BY <1>1, <1>2, <1>7
<1>11. QED
  BY <1>9, <1>10

\* hitsFromFTS of an answer.
LEMMA HitsAreHits == ASSUME NEW ans \in Answers PROVE HitsFromFTS(ans) \in Seq(Hit)
<1>1. ans.items \in Seq(Hit) /\ ans.keys \in Seq(STRING)
  BY AnswersAssumption DEF Hit
<1>2. CASE ans.items # <<>>
  <2>1. PICK s, n : s = ans.items /\ n = Len(s)
    OBVIOUS
  <2>2. n \in Nat /\ \A i \in 1..n : s[i] \in Hit
    BY <1>1, <2>1
  <2>3. ASSUME NEW x \in Hit PROVE HitOf(x) \in Hit
    <3>1. x.id \in STRING /\ x.name \in STRING
      BY DEF Hit
    <3>2. QED
      BY <3>1 DEF HitOf, Hit
  <2>4. HitsFromFTS(ans) = [i \in 1..n |-> HitOf(s[i])]
    BY <1>2, <2>1 DEF HitsFromFTS
  <2>5. \A i \in 1..n : HitOf(s[i]) \in Hit
    BY <2>2, <2>3
  <2>6. QED
    BY <2>2, <2>4, <2>5
<1>3. CASE ans.items = <<>>
  <2>1. PICK s, n : s = SrcKeys(ans.keys) /\ n = Len(s)
    OBVIOUS
  <2>2. s \in Seq(STRING)
    BY <1>1, <2>1, KeysAreStrings
  <2>3. n \in Nat /\ \A i \in 1..n : s[i] \in STRING
    BY <2>1, <2>2
  <2>4. HitsFromFTS(ans) = [i \in 1..n |-> [id |-> s[i], name |-> s[i]]]
    BY <1>3, <2>1 DEF HitsFromFTS
  <2>5. \A i \in 1..n : [id |-> s[i], name |-> s[i]] \in Hit
    BY <2>3 DEF Hit
  <2>6. QED
    BY <2>3, <2>4, <2>5
<1>4. QED
  BY <1>2, <1>3

\* Of every answer that Zeus may give.
LEMMA Search == AllDistinct /\ AllRepresented
  BY HitsAreHits, MergedAreDistinct, MergedRepresents DEF AllDistinct, AllRepresented, Suggested
-----------------------------------------------------------------------------
(* The whole invariant: the types, the buckets, and what is left in a bucket
   since its last grant. *)

\* A bucket that never granted is full; one that did has been refilled since.
Used ==
  \A b \in Buckets :
    \/ last[b] = -1 /\ tokens[b] = Burst
    \/ last[b] \in Nat /\ (tokens[b] = Burst \/ Rate * (updated[b] - last[b]) <= tokens[b])

SuggestIInv == TypeOK /\ BucketInv /\ Used

LEMMA SourcesAre == \A s \in Sources : s \in {"empty", "fts"}
  BY DEF Sources

(* What TokenBucket.Allow finds and leaves in a bucket. *)
LEMMA RefillIs ==
  ASSUME TypeOK, NEW b \in Buckets, NEW t \in Nat
  PROVE  /\ Refilled(b, t) \in 0..Burst
         /\ tokens[b] = Burst => Refilled(b, t) = Burst
         /\ \A k \in Nat : Rate * (updated[b] - k) <= tokens[b]
                           => Refilled(b, t) = Burst \/ Rate * (t - k) <= Refilled(b, t)
<1>1. /\ tokens[b] \in Int /\ tokens[b] >= 0 /\ tokens[b] <= Burst /\ updated[b] \in Nat
      /\ Burst \in Nat /\ Rate \in Nat
  BY TypeaheadAssumption DEF TypeOK
<1> DEFINE gain == IF t < updated[b] THEN 0 ELSE t - updated[b]
<1>2. gain \in Nat /\ gain >= t - updated[b]
  BY <1>1
<1>3. PICK x \in Nat : x = Rate * gain
  BY <1>1, <1>2
<1>4. Refilled(b, t) = IF tokens[b] + x > Burst THEN Burst ELSE tokens[b] + x
  BY <1>3 DEF Refilled
<1>5. Refilled(b, t) \in 0..Burst /\ (tokens[b] = Burst => Refilled(b, t) = Burst)
  BY <1>1, <1>3, <1>4
<1>6. ASSUME NEW k \in Nat, Rate * (updated[b] - k) <= tokens[b]
      PROVE  Refilled(b, t) = Burst \/ Rate * (t - k) <= Refilled(b, t)
  <2>1. PICK y \in Int, z \in Int : y = updated[b] - k /\ z = t - k
    BY <1>1
  <2>2. z <= y + gain /\ y + gain \in Int
    BY <1>1, <1>2, <2>1
  <2>3. Rate * z \in Int /\ Rate * y \in Int /\ Rate * z <= Rate * (y + gain)
    BY <1>1, <2>2, RateMonotone
  <2>4. Rate * (y + gain) = Rate * y + x
    <3> HIDE DEF gain
    <3>1. QED
      BY <1>1, <1>2, <1>3
  <2>5. Rate * y <= tokens[b]
    BY <1>6, <2>1
  <2>6. Rate * z <= tokens[b] + x
    BY <1>1, <1>3, <2>3, <2>4, <2>5
  <2>7. Refilled(b, t) = Burst \/ Rate * z <= Refilled(b, t)
    BY <1>4, <2>6
  <2>8. QED
    BY <2>1, <2>7
<1>7. QED
  BY <1>5, <1>6

(* The locked section keeps the types and refills what was used. *)
LEMMA AllowUses ==
  ASSUME SuggestIInv, NEW c \in Callers, Allow(c)
  PROVE  TypeOK' /\ Used'
<1> DEFINE b == my[c]
           n == now[c]
           r == Refilled(b, n)
<1>1. b \in Buckets /\ n \in Nat /\ n <= clock /\ clock \in Nat
  BY DEF SuggestIInv, Allow, BucketInv, Holding, Buckets, BucketTypes, NotAhead
<1>2. /\ Burst \in Nat /\ Cost \in Nat /\ Rate \in Nat
  BY TypeaheadAssumption
<1>3. TypeOK /\ waited[b] \in Nat /\ spent[b] \in Nat /\ last[b] \in Int
  BY <1>1 DEF SuggestIInv, TypeOK
<1>4. r \in 0..Burst /\ (tokens[b] = Burst => r = Burst)
  BY <1>1, <1>3, RefillIs
<1>5. ASSUME NEW k \in Nat, Rate * (updated[b] - k) <= tokens[b]
      PROVE  r = Burst \/ Rate * (n - k) <= r
  BY <1>1, <1>3, <1>5, RefillIs
<1>6. /\ updated' = [updated EXCEPT ![b] = n]
      /\ waited' = [waited EXCEPT ![b] = waited[b] + clock - n]
      /\ my' = [my EXCEPT ![c] = 0] /\ now' = [now EXCEPT ![c] = 0]
      /\ UNCHANGED <<clock, cur, calls, created>>
  BY DEF Allow
<1>7. waited[b] + clock - n \in Nat
  BY <1>1, <1>3
<1>8. PICK t \in 0..Burst, s \in Nat, l \in Int :
        /\ tokens' = [tokens EXCEPT ![b] = t] /\ spent' = [spent EXCEPT ![b] = s]
        /\ last' = [last EXCEPT ![b] = l]
        /\ \/ l = clock
           \/ l = last[b] /\ t = r
  <2>1. CASE r >= Cost
    <3>1. /\ tokens' = [tokens EXCEPT ![b] = r - Cost]
          /\ spent' = [spent EXCEPT ![b] = spent[b] + Cost] /\ last' = [last EXCEPT ![b] = clock]
      BY <2>1 DEF Allow
    <3>2. r - Cost \in 0..Burst /\ spent[b] + Cost \in Nat /\ clock \in Int
      BY <2>1, <1>1, <1>2, <1>3, <1>4
    <3> HIDE DEF r, b
    <3>3. QED
      BY <3>1, <3>2
  <2>2. CASE ~(r >= Cost)
    <3>1. tokens' = [tokens EXCEPT ![b] = r] /\ spent' = spent /\ last' = last
      BY <2>2 DEF Allow
    <3>2. spent' = [spent EXCEPT ![b] = spent[b]] /\ last' = [last EXCEPT ![b] = last[b]]
      BY <3>1 DEF SuggestIInv, TypeOK
    <3> HIDE DEF r, b
    <3>3. QED
      BY <3>1, <3>2, <1>3, <1>4
  <2>3. QED
    BY <2>1, <2>2
<1>9. /\ \E q \in {"hop", "idle"} : pc' = [pc EXCEPT ![c] = q]
      /\ source' = source \/ source' = [source EXCEPT ![c] = "rate_limited"]
  BY DEF Allow, Return
<1> HIDE DEF b, n, r
<1>10. TypeOK'
  <2>1. /\ tokens' \in [Buckets -> 0..Burst] /\ spent' \in [Buckets -> Nat] /\ last' \in [Buckets -> Int]
        /\ updated' \in [Buckets -> Nat] /\ waited' \in [Buckets -> Nat]
    BY <1>1, <1>3, <1>6, <1>7, <1>8 DEF TypeOK
  <2>2. pc' \in [Callers -> {"idle", "lookup", "clock", "lock", "hop"}]
    BY <1>3, <1>9 DEF TypeOK
  <2>3. source' \in [Callers -> {"none", "empty", "fts", "error", "failed", "cancelled", "rate_limited"}]
    BY <1>3, <1>9 DEF TypeOK
  <2>4. my' \in [Callers -> 0..MaxBuckets] /\ now' \in [Callers -> Nat]
    BY <1>3, <1>6, TypeaheadAssumption DEF TypeOK
  <2>5. QED
    BY <1>3, <1>6, <2>1, <2>2, <2>3, <2>4 DEF TypeOK
<1>11. Used'
  <2> SUFFICES ASSUME NEW k \in Buckets
               PROVE  \/ last'[k] = -1 /\ tokens'[k] = Burst
                      \/ last'[k] \in Nat /\ (tokens'[k] = Burst \/ Rate * (updated'[k] - last'[k]) <= tokens'[k])
    BY DEF Used
  <2>1. CASE k = b
    <3>1. tokens'[k] = t /\ last'[k] = l /\ updated'[k] = n
      BY <2>1, <1>1, <1>3, <1>6, <1>8 DEF TypeOK
    <3>2. CASE l = clock
      <4>1. PICK d \in Int : d = n - l /\ d <= 0
        BY <1>1, <3>2
      <4>2. Rate * d <= Rate * 0 /\ Rate * d \in Int
        BY <4>1, RateMonotone
      <4>3. Rate * d <= t
        BY <1>2, <4>2
      <4>4. QED
        BY <1>1, <3>1, <3>2, <4>1, <4>3
    <3>3. CASE l = last[b] /\ t = r
      <4>1. CASE last[b] = -1 /\ tokens[b] = Burst
        BY <1>4, <3>1, <3>3, <4>1
      <4>2. CASE last[b] \in Nat /\ tokens[b] = Burst
        BY <1>4, <3>1, <3>3, <4>2
      <4>3. CASE last[b] \in Nat /\ Rate * (updated[b] - last[b]) <= tokens[b]
        <5>1. r = Burst \/ Rate * (n - last[b]) <= r
          BY <1>5, <4>3
        <5>2. QED
          BY <3>1, <3>3, <4>3, <5>1
      <4>4. QED
        BY <1>1, <4>1, <4>2, <4>3 DEF SuggestIInv, Used
    <3>4. QED
      BY <1>8, <3>2, <3>3
  <2>2. CASE k # b
    <3>1. tokens'[k] = tokens[k] /\ last'[k] = last[k] /\ updated'[k] = updated[k]
      BY <2>2, <1>3, <1>6, <1>8 DEF TypeOK
    <3>2. QED
      BY <3>1 DEF SuggestIInv, Used
  <2>3. QED
    BY <2>1, <2>2
<1>12. QED
  BY <1>10, <1>11

LEMMA ConfigureUses == ASSUME SuggestIInv, Configure PROVE TypeOK' /\ Used'
<1>1. PICK k : k = cur + 1
  OBVIOUS
<1>i. TypeOK /\ cur < MaxBuckets /\ cur \in Nat /\ MaxBuckets \in Nat /\ clock \in Nat
  BY TypeaheadAssumption DEF Configure, SuggestIInv, TypeOK
<1>2. /\ TypeOK /\ cur' = k /\ k \in Buckets /\ k \in 0..MaxBuckets /\ clock \in Nat
      /\ updated' = [updated EXCEPT ![k] = clock] /\ created' = [created EXCEPT ![k] = clock]
      /\ UNCHANGED <<clock, calls, callVars, tokens, spent, last, waited>>
  BY <1>1, <1>i DEF Configure, Buckets
<1>3. TypeOK'
  BY <1>2 DEF TypeOK, callVars
<1>4. tokens[k] = Burst
  <2>1. k > cur
    BY <1>1, <1>i
  <2>2. QED
    BY <1>2, <2>1 DEF SuggestIInv, BucketInv, Unused
<1>5. ASSUME NEW b \in Buckets, b # k PROVE updated'[b] = updated[b]
  BY <1>2, <1>5 DEF TypeOK
<1>6. Used'
  <2> SUFFICES ASSUME NEW b \in Buckets
               PROVE  \/ last[b] = -1 /\ tokens[b] = Burst
                      \/ last[b] \in Nat /\ (tokens[b] = Burst \/ Rate * (updated'[b] - last[b]) <= tokens[b])
    BY <1>2 DEF Used
  <2>1. CASE b = k
    BY <2>1, <1>2, <1>4 DEF SuggestIInv, Used
  <2>2. CASE b # k
    BY <2>2, <1>5 DEF SuggestIInv, Used
  <2>3. QED
    BY <2>1, <2>2
<1>7. QED
  BY <1>3, <1>6

LEMMA InitSuggest == Init => SuggestIInv
<1> SUFFICES ASSUME Init PROVE SuggestIInv
  OBVIOUS
<1>1. BucketInv
  BY InitBucketInv
<1>2. TypeOK
  BY TypeaheadAssumption DEF Init, TypeOK, Buckets
<1>3. Used
  BY DEF Init, Used
<1>4. QED
  BY <1>1, <1>2, <1>3 DEF SuggestIInv

LEMMA NextSuggest == SuggestIInv /\ [Next]_vars => SuggestIInv'
<1> SUFFICES ASSUME SuggestIInv, [Next]_vars PROVE SuggestIInv'
  OBVIOUS
<1>0. TypeOK /\ Used /\ BucketInv'
  BY NextBucketInv DEF SuggestIInv
<1>u. UNCHANGED <<tokens, updated, last>> => Used'
  BY <1>0 DEF Used
<1>p. \A q \in {"idle", "lookup", "clock", "lock", "hop"}, c \in Callers :
        [pc EXCEPT ![c] = q] \in [Callers -> {"idle", "lookup", "clock", "lock", "hop"}]
  BY <1>0 DEF TypeOK
<1>s. \A s \in {"none", "empty", "fts", "error", "failed", "cancelled"}, c \in Callers :
        [source EXCEPT ![c] = s]
          \in [Callers -> {"none", "empty", "fts", "error", "failed", "cancelled", "rate_limited"}]
  BY <1>0 DEF TypeOK
<1>1. CASE Tick
  <2>1. clock' \in 0..MaxTime
    BY <1>0, <1>1, TypeaheadAssumption DEF TypeOK, Tick
  <2>2. TypeOK' /\ Used'
    BY <1>0, <1>1, <1>u, <2>1 DEF TypeOK, Tick, callVars, bucketVars
  <2>3. QED
    BY <1>0, <2>2 DEF SuggestIInv
<1>2. CASE Configure
  BY <1>0, <1>2, ConfigureUses DEF SuggestIInv
<1>3. ASSUME NEW c \in Callers, Allow(c) PROVE SuggestIInv'
  BY <1>0, <1>3, AllowUses DEF SuggestIInv
<1>4. ASSUME NEW c \in Callers, ReadClock(c) PROVE SuggestIInv'
  <2>1. now' \in [Callers -> Nat]
    BY <1>0, <1>4 DEF TypeOK, ReadClock
  <2>2. TypeOK' /\ Used'
    BY <1>0, <1>4, <1>u, <1>p, <2>1 DEF TypeOK, ReadClock, bucketVars
  <2>3. QED
    BY <1>0, <2>2 DEF SuggestIInv
<1>5. ASSUME NEW c \in Callers, Lookup(c) PROVE SuggestIInv'
  <2>1. my' \in [Callers -> 0..MaxBuckets]
    BY <1>0, <1>5 DEF TypeOK, Lookup
  <2>2. pc' \in [Callers -> {"idle", "lookup", "clock", "lock", "hop"}]
    BY <1>5, <1>p DEF Lookup
  <2>3. TypeOK' /\ Used'
    BY <1>0, <1>5, <1>u, <2>1, <2>2 DEF TypeOK, Lookup, bucketVars
  <2>4. QED
    BY <1>0, <2>3 DEF SuggestIInv
<1>6. ASSUME NEW c \in Callers, NEW short \in BOOLEAN, NEW ended \in BOOLEAN, Suggest(c, short, ended)
      PROVE  SuggestIInv'
  <2>1. calls' \in 0..MaxCalls
    BY <1>0, <1>6, TypeaheadAssumption DEF TypeOK, Suggest
  <2>2. /\ pc' \in [Callers -> {"idle", "lookup", "clock", "lock", "hop"}]
        /\ source' \in [Callers -> {"none", "empty", "fts", "error", "failed", "cancelled", "rate_limited"}]
    <3>1. CASE short /\ Return(c, IF ended THEN "cancelled" ELSE "none")
      BY <1>p, <1>s, <3>1 DEF Return
    <3>2. CASE /\ pc' = [pc EXCEPT ![c] = IF TypeaheadEnabled THEN "lookup" ELSE "hop"]
               /\ source' = [source EXCEPT ![c] = "none"]
      BY <1>p, <1>s, <3>2
    <3>3. QED
      BY <1>6, <3>1, <3>2 DEF Suggest
  <2>3. TypeOK' /\ Used'
    BY <1>0, <1>6, <1>u, <2>1, <2>2 DEF TypeOK, Suggest, bucketVars
  <2>4. QED
    BY <1>0, <2>3 DEF SuggestIInv
<1>7. ASSUME NEW c \in Callers, NEW s \in {"cancelled", "failed", "error"}, NoHits(c, s)
      PROVE  SuggestIInv'
  <2>1. TypeOK' /\ Used'
    BY <1>0, <1>7, <1>u, <1>p, <1>s DEF TypeOK, NoHits, Return, bucketVars
  <2>2. QED
    BY <1>0, <2>1 DEF SuggestIInv
<1>8. ASSUME NEW c \in Callers, NEW s \in Sources, Found(c, s) PROVE SuggestIInv'
  <2>1. s \in {"empty", "fts"}
    BY SourcesAre
  <2>2. TypeOK' /\ Used'
    BY <1>0, <1>8, <1>u, <1>p, <1>s, <2>1 DEF TypeOK, Found, Return, bucketVars
  <2>3. QED
    BY <1>0, <2>2 DEF SuggestIInv
<1>9. CASE UNCHANGED vars
  <2>1. TypeOK' /\ Used'
    BY <1>0, <1>9, <1>u DEF TypeOK, vars, callVars, bucketVars
  <2>2. QED
    BY <1>0, <2>1 DEF SuggestIInv
<1>10. QED
  BY <1>1, <1>2, <1>3, <1>4, <1>5, <1>6, <1>7, <1>8, <1>9 DEF Next

\* Spec => []SuggestIInv, which the two theorems below are read off from.
THEOREM SuggestIsInductive == Spec => []SuggestIInv
<1>1. QED
  BY InitSuggest, NextSuggest, PTL DEF Spec

(* For any number of callers, any limits and any answers of Zeus: a bucket never
   holds more than its burst, RunTypeaheadSearch returns no hit twice, in any
   spelling, and drops none without one that stands for it. *)
THEOREM SuggestionsAreSound == Spec => []SuggestInv
<1>1. SuggestIInv => SuggestInv
  BY Search DEF SuggestIInv, SuggestInv, HitsAreDistinct, NothingDropped
<1>2. QED
  BY <1>1, SuggestIsInductive, PTL

(* A refused call found a bucket that had granted less than a full refill
   before the call's reading of the clock. *)
THEOREM RefusalHasACause == Spec => RefusedOnlyWhenUsed
<1>1. ASSUME SuggestIInv, [Next]_vars, NEW c \in Callers,
             pc[c] = "lock", source'[c] = "rate_limited", pc'[c] = "idle", Burst >= Cost
      PROVE  last[my[c]] >= 0 /\ Rate * (now[c] - last[my[c]]) < Burst
  <2>1. TypeOK /\ pc' # pc
    BY <1>1 DEF SuggestIInv
  <2>2. Allow(c)
    <3>1. ASSUME NEW d \in Callers, d # c, NEW q, pc' = [pc EXCEPT ![d] = q] PROVE FALSE
      BY <1>1, <2>1, <3>1 DEF TypeOK
    <3>2. ~(UNCHANGED pc)
      BY <2>1
    <3>3. PICK d \in Callers :
            \/ \E short, ended \in BOOLEAN : Suggest(d, short, ended)
            \/ Lookup(d) \/ ReadClock(d) \/ Allow(d)
            \/ \E s \in {"cancelled", "failed", "error"} : NoHits(d, s)
            \/ \E s \in Sources : Found(d, s)
      BY <1>1, <3>2 DEF Next, Tick, Configure, vars, callVars
    <3>4. \E q : pc' = [pc EXCEPT ![d] = q]
      BY <3>3 DEF Suggest, Lookup, ReadClock, Allow, NoHits, Found, Return
    <3>5. d = c
      BY <3>1, <3>4
    <3>6. QED
      BY <1>1, <3>3, <3>5 DEF Suggest, Lookup, ReadClock, NoHits, Found
  <2>3. PICK b, n : b = my[c] /\ n = now[c]
    OBVIOUS
  <2>4. b \in Buckets /\ n \in Nat
    BY <1>1, <2>2, <2>3 DEF SuggestIInv, Allow, BucketInv, Holding, Buckets, BucketTypes
  <2>5. ~(Refilled(b, n) >= Cost)
    <3>1. ASSUME Refilled(b, n) >= Cost PROVE FALSE
      <4>1. pc' = [pc EXCEPT ![c] = "hop"]
        BY <2>2, <2>3, <3>1 DEF Allow
      <4>2. QED
        BY <1>1, <2>1, <4>1 DEF TypeOK
    <3>2. QED
      BY <3>1
  <2>6. Burst \in Nat /\ Cost \in Nat /\ Rate \in Nat
    BY TypeaheadAssumption
  <2>7. /\ Refilled(b, n) \in 0..Burst /\ (tokens[b] = Burst => Refilled(b, n) = Burst)
    BY <2>1, <2>4, RefillIs
  <2>8. Refilled(b, n) # Burst /\ tokens[b] # Burst /\ Refilled(b, n) < Burst
    BY <1>1, <2>5, <2>6, <2>7
  <2>9. last[b] \in Nat /\ Rate * (updated[b] - last[b]) <= tokens[b]
    BY <1>1, <2>4, <2>8 DEF SuggestIInv, Used
  <2>10. Rate * (n - last[b]) <= Refilled(b, n)
    BY <2>1, <2>4, <2>8, <2>9, RefillIs
  <2>11. PICK x \in Int : x = Rate * (n - last[b])
    BY <2>4, <2>6, <2>9
  <2>12. x < Burst
    BY <2>6, <2>7, <2>8, <2>10, <2>11
  <2>13. QED
    BY <2>3, <2>9, <2>11, <2>12
<1>2. ASSUME SuggestIInv, [Next]_vars
      PROVE  [\A c \in Callers :
                pc[c] = "lock" /\ source'[c] = "rate_limited" /\ pc'[c] = "idle" /\ Burst >= Cost =>
                  /\ last[my[c]] >= 0
                  /\ Rate * (now[c] - last[my[c]]) < Burst]_vars
  BY <1>1, <1>2
<1>3. QED
  BY <1>2, SuggestIsInductive, PTL DEF Spec, RefusedOnlyWhenUsed
=============================================================================
