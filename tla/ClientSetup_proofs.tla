------------------------- MODULE ClientSetup_proofs -------------------------
(***************************************************************************)
(* Proofs about ClientSetup: what Close releases and reports, and which    *)
(* facade a goroutine holds, for any number of goroutines, job ports and   *)
(* adapters, in any slots; what a loaded configuration is, for any files   *)
(* and environments; and what a turn makes of it and puts into its chat    *)
(* request, for any requests and documents.                                *)
(***************************************************************************)
EXTENDS ClientSetup, SequenceTheorems, TLAPS

\* The parts of the inductive invariant.

Things == Adapters \cup JobPorts

\* What Close has left to release after the first n adapters of its order.
Left(n) ==
  CASE n = 1 -> <<slot["zeus"], slot["llm"], slot["catalog"], slot["jobs"]>>
    [] n = 2 -> <<slot["llm"], slot["catalog"], slot["jobs"]>>
    [] n = 3 -> <<slot["catalog"], slot["jobs"]>>
    [] n = 4 -> <<slot["jobs"]>>
    [] OTHER -> <<>>

\* Only the n-th of the order is that adapter.
Unique(n) == \A k \in 1..5 : k # n => Order[k] # Order[n]

\* The first n of the order are closed, an adapter of the rest is not.
Released(n) ==
  /\ n = 0 => \A a \in Things : closes[a] = 0
  /\ n >= 1 => closes[Order[1]] = 1
  /\ \A k \in 1..n : Order[k] # None => closes[Order[k]] >= 1
  /\ \A k \in 2..5 : Order[k] # None /\ Unique(k) => closes[Order[k]] = IF k <= n THEN 1 ELSE 0

\* The error of the first n of the order.
Reported(t, n) ==
  IF err[t] = None THEN \A k \in 1..n : Order[k] \notin Failing
  ELSE \E k \in 1..n : /\ err[t] = Order[k] /\ Order[k] \in Failing
                       /\ \A i \in 1..(k - 1) : Order[i] \notin Failing

\* Goroutine t was the first to call Close, and has released n adapters.
Closing(t, n) ==
  /\ \A u \in Threads : u # t => pc[u] \in {"idle", "done"} /\ err[u] = None
  /\ pc[t] = "http" => n = 0 /\ deps[t] = Left(1)
  /\ pc[t] = "deps" => n \in 1..5 /\ deps[t] = Left(n)
  /\ pc[t] \in {"idle", "done"} => n = 5 /\ returned
  /\ returned => pc[t] \in {"idle", "done"}
  /\ Released(n) /\ Reported(t, n)

\* Nobody has called Close.
Open ==
  /\ ~returned /\ late = {}
  /\ \A t \in Threads : pc[t] = "idle" /\ err[t] = None
  /\ \A a \in Things : closes[a] = 0

\* A facade that a goroutine holds is on the port of the slot, or on one that was replaced.
Holds == \A t \in Threads : held[t] \in {"nil", None, slot["jobs"]} \cup replaced

RuntimeInv ==
  /\ TypeOK
  /\ slot["http"] \in Adapters /\ slot["jobs"] \in Ports
  /\ FacadeIsCurrent /\ Holds /\ NoJobAfterClose
  /\ ~closed => Open
  /\ closed => \E t \in Threads : \E n \in 0..5 : Closing(t, n)
-----------------------------------------------------------------------------
(* The order of Close *)

LEMMA LeftIs ==
  /\ Left(1) = <<slot["zeus"], slot["llm"], slot["catalog"], slot["jobs"]>>
  /\ Left(5) = <<>>
  /\ \A n \in 1..4 : Left(n) # <<>> /\ Head(Left(n)) = Order[n + 1] /\ Tail(Left(n)) = Left(n + 1)
<1>1. /\ Left(1) = <<slot["zeus"], slot["llm"], slot["catalog"], slot["jobs"]>>
      /\ Left(2) = <<slot["llm"], slot["catalog"], slot["jobs"]>>
      /\ Left(3) = <<slot["catalog"], slot["jobs"]>>
      /\ Left(4) = <<slot["jobs"]>>
      /\ Left(5) = <<>>
  BY DEF Left
<1>2. /\ Order[2] = slot["zeus"] /\ Order[3] = slot["llm"]
      /\ Order[4] = slot["catalog"] /\ Order[5] = slot["jobs"]
  BY DEF Order
<1>3. /\ Left(1) # <<>> /\ Head(Left(1)) = Order[2] /\ Tail(Left(1)) = Left(2)
      /\ Left(2) # <<>> /\ Head(Left(2)) = Order[3] /\ Tail(Left(2)) = Left(3)
      /\ Left(3) # <<>> /\ Head(Left(3)) = Order[4] /\ Tail(Left(3)) = Left(4)
      /\ Left(4) # <<>> /\ Head(Left(4)) = Order[5] /\ Tail(Left(4)) = Left(5)
  <2>1. PICK a, b, c, d : a = Order[2] /\ b = Order[3] /\ c = Order[4] /\ d = Order[5]
    OBVIOUS
  <2>2. /\ Left(1) = <<a, b, c, d>> /\ Left(2) = <<b, c, d>>
        /\ Left(3) = <<c, d>> /\ Left(4) = <<d>>
    BY <1>1, <1>2, <2>1
  <2>3. /\ Head(<<a, b, c, d>>) = a /\ Head(<<b, c, d>>) = b /\ Head(<<c, d>>) = c
        /\ Head(<<d>>) = d
        /\ <<a, b, c, d>> # <<>> /\ <<b, c, d>> # <<>> /\ <<c, d>> # <<>> /\ <<d>> # <<>>
    OBVIOUS
  <2>4. /\ Tail(<<a, b, c, d>>) = <<b, c, d>> /\ Tail(<<b, c, d>>) = <<c, d>>
        /\ Tail(<<c, d>>) = <<d>> /\ Tail(<<d>>) = <<>>
    OBVIOUS
  <2>5. QED
    BY <1>1, <2>1, <2>2, <2>3, <2>4, Zenon
<1>4. ASSUME NEW n \in 1..4
      PROVE  Left(n) # <<>> /\ Head(Left(n)) = Order[n + 1] /\ Tail(Left(n)) = Left(n + 1)
  <2>1. \/ n = 1 /\ n + 1 = 2
        \/ n = 2 /\ n + 1 = 3
        \/ n = 3 /\ n + 1 = 4
        \/ n = 4 /\ n + 1 = 5
    BY SMT
  <2>2. QED
    BY <1>3, <2>1, Zenon
<1>5. QED
  BY <1>1, <1>4

LEMMA OrderIs ==
  ASSUME slot \in [Slots -> Adapters \cup Ports]
  PROVE  /\ \A k \in 1..5 : Order[k] \in Adapters \cup Ports
         /\ Order[1] = slot["http"] /\ Order[5] = slot["jobs"]
         /\ \A s \in Slots : \E k \in 1..5 : Order[k] = slot[s]
         /\ \A s \in Slots : (\A q \in Slots \ {s} : slot[q] # slot[s]) =>
              \E k \in 1..5 : Order[k] = slot[s] /\ Unique(k)
<1>1. /\ Order[1] = slot["http"] /\ Order[2] = slot["zeus"] /\ Order[3] = slot["llm"]
      /\ Order[4] = slot["catalog"] /\ Order[5] = slot["jobs"]
  BY DEF Order
<1>2. \A k \in 1..5 : k = 1 \/ k = 2 \/ k = 3 \/ k = 4 \/ k = 5
  OBVIOUS
<1>3. \A k \in 1..5 : Order[k] \in Adapters \cup Ports
  BY <1>1, <1>2 DEF Slots
<1>4. \A s \in Slots : \E k \in 1..5 : Order[k] = slot[s]
  BY <1>1 DEF Slots
<1>5. ASSUME NEW s \in Slots, \A q \in Slots \ {s} : slot[q] # slot[s]
      PROVE  \E k \in 1..5 : Order[k] = slot[s] /\ Unique(k)
  <2>1. CASE s = "http"
    <3>1. Order[1] = slot[s] /\ Unique(1)
      BY <1>1, <1>2, <1>5, <2>1 DEF Slots, Unique
    <3>2. QED
      BY <3>1
  <2>2. CASE s = "zeus"
    <3>1. Order[2] = slot[s] /\ Unique(2)
      BY <1>1, <1>2, <1>5, <2>2 DEF Slots, Unique
    <3>2. QED
      BY <3>1
  <2>3. CASE s = "llm"
    <3>1. Order[3] = slot[s] /\ Unique(3)
      BY <1>1, <1>2, <1>5, <2>3 DEF Slots, Unique
    <3>2. QED
      BY <3>1
  <2>4. CASE s = "catalog"
    <3>1. Order[4] = slot[s] /\ Unique(4)
      BY <1>1, <1>2, <1>5, <2>4 DEF Slots, Unique
    <3>2. QED
      BY <3>1
  <2>5. CASE s = "jobs"
    <3>1. Order[5] = slot[s] /\ Unique(5)
      BY <1>1, <1>2, <1>5, <2>5 DEF Slots, Unique
    <3>2. QED
      BY <3>1
  <2>6. QED
    BY <2>1, <2>2, <2>3, <2>4, <2>5 DEF Slots
<1>6. QED
  BY <1>1, <1>3, <1>4, <1>5
-----------------------------------------------------------------------------
(* The runtime *)

LEMMA RuntimeInit == Init => RuntimeInv
<1> SUFFICES ASSUME Init PROVE RuntimeInv
  OBVIOUS
<1> USE ClientRuntimeAssumption
<1>1. TypeOK
  <2>1. deps \in [Threads -> Seq(Adapters \cup Ports)]
    BY DEF Init
  <2>2. slot \in [Slots -> Adapters \cup Ports]
    BY DEF Init, Ports
  <2>3. closes \in [Adapters \cup JobPorts -> Nat]
    BY DEF Init
  <2>4. /\ jobsAPI \in Ports \cup {"nil"} /\ held \in [Threads -> Ports \cup {"nil"}]
        /\ pc \in [Threads -> {"idle", "http", "deps", "done"}]
        /\ err \in [Threads -> Adapters \cup Ports]
    BY DEF Init, Ports
  <2>5. QED
    BY <2>1, <2>2, <2>3, <2>4 DEF Init, TypeOK
<1>2. slot["http"] \in Adapters /\ slot["jobs"] \in Ports
  BY DEF Init, Ports
<1>3. FacadeIsCurrent /\ Holds /\ NoJobAfterClose /\ Open /\ ~closed
  BY DEF Init, FacadeIsCurrent, Holds, NoJobAfterClose, Open, Things
<1>4. QED
  BY <1>1, <1>2, <1>3 DEF RuntimeInv

(* The Close that is under way, or was, is as it was when no adapter is released. *)
LEMMA ClosingStays ==
  ASSUME NEW t \in Threads, NEW n \in 0..5, Closing(t, n), UNCHANGED <<slot, err, closes, deps, returned>>,
         \A u \in Threads : \/ pc'[u] = pc[u]
                            \/ pc[u] \in {"idle", "done"} /\ pc'[u] \in {"idle", "done"}
  PROVE  Closing(t, n)'
<1>1. Order' = Order /\ \A k : Left(k)' = Left(k)
  BY DEF Order, Left
<1>2. \A k : Unique(k)' = Unique(k)
  BY <1>1 DEF Unique
<1>3. Released(n)'
  BY <1>1, <1>2 DEF Closing, Released
<1>4. Reported(t, n)'
  BY <1>1 DEF Closing, Reported
<1>5. QED
  BY <1>1, <1>3, <1>4 DEF Closing

(* The parts that Jobs, RunJob and the steps of Close disturb least. *)
LEMMA QuietKeeps ==
  ASSUME RuntimeInv, TypeOK', UNCHANGED <<closed, slot, err, closes, deps, returned>>,
         \A u \in Threads : \/ pc'[u] = pc[u]
                            \/ pc[u] \in {"idle", "done"} /\ pc'[u] \in {"idle", "done"} /\ closed,
         FacadeIsCurrent', Holds', NoJobAfterClose', ~closed => late' = late
  PROVE  RuntimeInv'
<1>1. ASSUME ~closed PROVE Open'
  BY <1>1 DEF RuntimeInv, Open
<1>2. ASSUME closed PROVE \E t \in Threads : \E n \in 0..5 : Closing(t, n)'
  BY <1>2, ClosingStays DEF RuntimeInv
<1>3. QED
  BY <1>1, <1>2 DEF RuntimeInv

LEMMA JobsKeeps ==
  ASSUME RuntimeInv, NEW t \in Threads, Jobs(t)
  PROVE  RuntimeInv'
<1>1. TypeOK /\ slot["jobs"] \in Ports
  BY DEF RuntimeInv
<1>2. jobsAPI' \in Ports \cup {"nil"} /\ jobsAPI' \in {"nil", slot["jobs"]}
  BY <1>1 DEF Jobs, TypeOK, RuntimeInv, FacadeIsCurrent
<1>3. held' = [held EXCEPT ![t] = jobsAPI'] /\ held' \in [Threads -> Ports \cup {"nil"}]
  BY <1>1, <1>2 DEF Jobs, TypeOK
<1>4. TypeOK'
  BY <1>1, <1>2, <1>3 DEF Jobs, TypeOK
<1>5. FacadeIsCurrent' /\ Holds' /\ NoJobAfterClose'
  BY <1>1, <1>2, <1>3 DEF RuntimeInv, FacadeIsCurrent, Holds, NoJobAfterClose, Jobs, TypeOK
<1>6. QED
  BY <1>4, <1>5, QuietKeeps DEF Jobs

LEMMA BindJobsKeeps ==
  ASSUME RuntimeInv, NEW t \in Threads, NEW p \in Ports, BindJobs(t, p)
  PROVE  RuntimeInv'
<1>1. TypeOK /\ slot["jobs"] \in Ports /\ ~closed /\ Open /\ ~closed'
  BY DEF RuntimeInv, BindJobs
<1>2. /\ slot' \in [Slots -> Adapters \cup Ports] /\ slot'["jobs"] = p
      /\ slot'["http"] = slot["http"]
  BY <1>1 DEF BindJobs, TypeOK, Slots
<1>3. replaced' \subseteq JobPorts
  BY <1>1 DEF BindJobs, TypeOK, Ports
<1>4. TypeOK'
  BY <1>1, <1>2, <1>3 DEF BindJobs, TypeOK
<1>5. FacadeIsCurrent'
  BY DEF BindJobs, FacadeIsCurrent
<1>6. Holds'
  BY <1>1, <1>2 DEF RuntimeInv, Holds, BindJobs, TypeOK
<1>7. Open' /\ NoJobAfterClose'
  BY <1>1 DEF Open, BindJobs, NoJobAfterClose
<1>8. QED
  BY <1>1, <1>2, <1>4, <1>5, <1>6, <1>7 DEF RuntimeInv

(* After the return of Close the port of the slot is closed. *)
LEMMA ReturnedIsReleased ==
  ASSUME RuntimeInv, returned
  PROVE  /\ closed
         /\ \E t \in Threads : Closing(t, 5)
<1>1. closed
  BY DEF RuntimeInv, Open
<1>2. PICK t \in Threads, n \in 0..5 : Closing(t, n)
  BY <1>1 DEF RuntimeInv
<1>3. n = 5
  BY <1>2 DEF Closing
<1>4. QED
  BY <1>1, <1>2, <1>3

LEMMA RunJobKeeps ==
  ASSUME RuntimeInv, NEW t \in Threads, RunJob(t)
  PROVE  RuntimeInv'
<1>1. TypeOK
  BY DEF RuntimeInv
<1>2. late' \subseteq JobPorts
  BY <1>1 DEF RunJob, TypeOK
<1>3. TypeOK'
  BY <1>1, <1>2 DEF RunJob, TypeOK
<1>4. FacadeIsCurrent' /\ Holds'
  BY DEF RunJob, RuntimeInv, FacadeIsCurrent, Holds
<1>5. NoJobAfterClose'
  <2>1. CASE ~returned
    BY <2>1 DEF RunJob, RuntimeInv, NoJobAfterClose
  <2>2. CASE returned
    <3>1. PICK u \in Threads : Closing(u, 5)
      BY <2>2, ReturnedIsReleased
    <3>2. Order[5] = slot["jobs"]
      BY DEF Order
    <3>3. slot["jobs"] # None => closes[slot["jobs"]] >= 1
      BY <3>1, <3>2 DEF Closing, Released
    <3>4. held[t] # slot["jobs"]
      BY <3>3, ClientRuntimeAssumption DEF RunJob
    <3>5. held[t] \in replaced
      BY <3>4, ClientRuntimeAssumption DEF RunJob, RuntimeInv, Holds, Ports
    <3>6. QED
      BY <3>5 DEF RunJob, RuntimeInv, NoJobAfterClose
  <2>3. QED
    BY <2>1, <2>2
<1>6. ~closed => late' = late
  BY DEF RunJob, RuntimeInv, Open
<1>7. QED
  BY <1>3, <1>4, <1>5, <1>6, QuietKeeps DEF RunJob

LEMMA CloseAgainKeeps ==
  ASSUME RuntimeInv, NEW t \in Threads, CloseAgain(t) \/ GoOn(t)
  PROVE  RuntimeInv'
<1>1. TypeOK /\ (pc[t] = "done" => closed)
  BY DEF RuntimeInv, Open
<1>2. pc' \in [Threads -> {"idle", "http", "deps", "done"}]
  BY <1>1 DEF CloseAgain, GoOn, TypeOK
<1>3. TypeOK'
  BY <1>1, <1>2 DEF CloseAgain, GoOn, TypeOK
<1>4. FacadeIsCurrent' /\ Holds' /\ NoJobAfterClose'
  BY DEF CloseAgain, GoOn, RuntimeInv, FacadeIsCurrent, Holds, NoJobAfterClose
<1>5. \A u \in Threads : \/ pc'[u] = pc[u]
                         \/ pc[u] \in {"idle", "done"} /\ pc'[u] \in {"idle", "done"} /\ closed
  BY <1>1 DEF CloseAgain, GoOn, TypeOK
<1>6. QED
  BY <1>3, <1>4, <1>5, QuietKeeps DEF CloseAgain, GoOn

LEMMA CloseBeginKeeps ==
  ASSUME RuntimeInv, NEW t \in Threads, CloseBegin(t)
  PROVE  RuntimeInv'
<1>1. TypeOK /\ Open /\ closed' /\ slot \in [Slots -> Adapters \cup Ports]
  BY DEF RuntimeInv, CloseBegin, TypeOK
<1>2. deps' = [deps EXCEPT ![t] = Left(1)]
  BY LeftIs DEF CloseBegin
<1>3. Left(1) \in Seq(Adapters \cup Ports)
  <2>1. /\ slot["zeus"] \in Adapters \cup Ports /\ slot["llm"] \in Adapters \cup Ports
        /\ slot["catalog"] \in Adapters \cup Ports /\ slot["jobs"] \in Adapters \cup Ports
    BY <1>1 DEF Slots
  <2>2. QED
    BY <2>1, LeftIs
<1>4. TypeOK'
  <2>1. deps' \in [Threads -> Seq(Adapters \cup Ports)]
    BY <1>1, <1>2, <1>3 DEF TypeOK
  <2>2. pc' \in [Threads -> {"idle", "http", "deps", "done"}]
    BY <1>1 DEF CloseBegin, TypeOK
  <2>3. QED
    BY <1>1, <2>1, <2>2 DEF CloseBegin, TypeOK
<1>5. FacadeIsCurrent' /\ Holds' /\ NoJobAfterClose'
  BY DEF CloseBegin, RuntimeInv, FacadeIsCurrent, Holds, NoJobAfterClose
<1>6. Closing(t, 0)'
  <2>1. Order' = Order /\ Left(1)' = Left(1)
    BY DEF CloseBegin, Order, Left
  <2>2. /\ \A u \in Threads : u # t => pc'[u] = "idle" /\ err'[u] = None
        /\ pc'[t] = "http" /\ err'[t] = None /\ deps'[t] = Left(1) /\ ~returned'
    BY <1>1, <1>2 DEF CloseBegin, TypeOK, Open
  <2>3. \A a \in Things : closes'[a] = 0
    BY <1>1 DEF Open, CloseBegin
  <2>4. \A k \in 1..5 : Order[k] # None => Order[k] \in Things
    BY <1>1, OrderIs DEF Things, Ports
  <2>5. Released(0)'
    BY <2>1, <2>3, <2>4 DEF Released
  <2>6. Reported(t, 0)'
    BY <2>2 DEF Reported
  <2>7. QED
    BY <2>1, <2>2, <2>5, <2>6 DEF Closing
<1>7. QED
  BY <1>1, <1>4, <1>5, <1>6 DEF RuntimeInv, CloseBegin

(* The adapter that Close releases next. *)
LEMMA ReleaseNext ==
  ASSUME RuntimeInv, NEW t \in Threads, NEW n \in 0..4, Released(n), Reported(t, n),
         slot' = slot,
         \/ /\ n = 0 \/ ~Skipped(Order[n + 1])
            /\ closes' = [closes EXCEPT ![Order[n + 1]] = @ + 1]
            /\ err' = [err EXCEPT ![t] = FirstError(@, Order[n + 1])]
         \/ n # 0 /\ Skipped(Order[n + 1]) /\ UNCHANGED <<closes, err>>
  PROVE  /\ Released(n + 1)' /\ Reported(t, n + 1)'
         /\ closes' \in [Adapters \cup JobPorts -> Nat]
         /\ err' \in [Threads -> Adapters \cup Ports]
         /\ \A u \in Threads : u # t => err'[u] = err[u]
<1>1. /\ TypeOK /\ slot \in [Slots -> Adapters \cup Ports] /\ slot["http"] \in Adapters
      /\ closes \in [Things -> Nat] /\ err \in [Threads -> Adapters \cup Ports]
  BY DEF RuntimeInv, TypeOK, Things
<1>2. Order' = Order /\ \A k : Unique(k)' = Unique(k)
  BY DEF Order, Unique
<1>3. /\ Order[1] = slot["http"] /\ Order[1] # None /\ None \notin Things
      /\ \A k \in 1..5 : Order[k] # None => Order[k] \in Things
      /\ None \notin Failing
  BY <1>1, OrderIs, ClientRuntimeAssumption DEF Things, Ports
<1> DEFINE a == Order[n + 1]
<1>4. n + 1 \in 1..5 /\ n \in Nat
  OBVIOUS
<1>5. CASE n # 0 /\ Skipped(a) /\ UNCHANGED <<closes, err>>
  <2>1. a = None \/ a = Order[1]
    BY <1>3, <1>5 DEF Skipped
  <2>2. Released(n + 1)'
    BY <1>2, <1>3, <1>4, <1>5, <2>1 DEF Released, Unique
  <2>3. Reported(t, n + 1)'
    <3>1. \A k \in 1..(n + 1) : k \in 1..n \/ k = n + 1
      BY <1>4
    <3>2. CASE err[t] = None
      <4>1. \A k \in 1..n : Order[k] \notin Failing
        BY <3>2 DEF Reported
      <4>2. a \notin Failing
        BY <1>3, <1>4, <1>5, <2>1, <4>1
      <4>3. QED
        BY <1>2, <1>5, <3>1, <3>2, <4>1, <4>2 DEF Reported
    <3>3. CASE err[t] # None
      <4>1. \A k \in 1..n : k \in 1..(n + 1)
        BY <1>4
      <4>2. QED
        BY <1>2, <1>5, <3>3, <4>1 DEF Reported
    <3>4. QED
      BY <3>2, <3>3
  <2>4. QED
    BY <1>1, <1>5, <2>2, <2>3 DEF Things
<1>6. CASE /\ n = 0 \/ ~Skipped(a)
           /\ closes' = [closes EXCEPT ![a] = @ + 1]
           /\ err' = [err EXCEPT ![t] = FirstError(@, a)]
  <2>1. a # None /\ a \in Things
    BY <1>3, <1>4, <1>6 DEF Skipped
  <2>2. /\ closes' \in [Things -> Nat] /\ closes'[a] = closes[a] + 1
        /\ \A b \in Things : b # a => closes'[b] = closes[b]
        /\ \A b \in Things : closes[b] \in Nat /\ closes'[b] \in Nat
    BY <1>1, <1>6, <2>1
  <2>3. /\ err' \in [Threads -> Adapters \cup Ports]
        /\ err'[t] = FirstError(err[t], a)
        /\ \A u \in Threads : u # t => err'[u] = err[u]
    BY <1>1, <1>6, <2>1 DEF FirstError, Things, Ports
  <2>4. Released(n + 1)'
    <3>1. n + 1 >= 1 => closes'[Order[1]] = 1
      <4>1. CASE n = 0
        BY <1>3, <1>4, <2>1, <2>2, <4>1 DEF Released
      <4>2. CASE n # 0
        <5>1. a # Order[1] /\ closes[Order[1]] = 1
          BY <1>3, <1>4, <1>6, <4>2 DEF Skipped, Released
        <5>2. QED
          BY <1>3, <2>2, <5>1
      <4>3. QED
        BY <4>1, <4>2
    <3>2. \A k \in 1..(n + 1) : Order[k] # None => closes'[Order[k]] >= 1
      <4>1. ASSUME NEW k \in 1..(n + 1), Order[k] # None PROVE closes'[Order[k]] >= 1
        <5>1. CASE Order[k] = a
          BY <2>1, <2>2, <5>1
        <5>2. CASE Order[k] # a
          <6>1. k \in 1..n /\ k \in 1..5
            BY <1>4, <5>2
          <6>2. QED
            BY <1>3, <2>2, <4>1, <5>2, <6>1 DEF Released
        <5>3. QED
          BY <5>1, <5>2
      <4>2. QED
        BY <4>1
    <3>3. \A k \in 2..5 : Order[k] # None /\ Unique(k) =>
            closes'[Order[k]] = IF k <= n + 1 THEN 1 ELSE 0
      <4>1. ASSUME NEW k \in 2..5, Order[k] # None, Unique(k)
            PROVE  closes'[Order[k]] = IF k <= n + 1 THEN 1 ELSE 0
        <5>1. Order[k] \in Things /\ closes[Order[k]] = IF k <= n THEN 1 ELSE 0
          BY <1>3, <4>1 DEF Released
        <5>2. CASE k = n + 1
          BY <1>4, <2>2, <5>1, <5>2
        <5>3. CASE k # n + 1
          <6>1. Order[k] # a
            BY <1>4, <4>1, <5>3 DEF Unique
          <6>2. QED
            BY <1>4, <2>2, <5>1, <5>3, <6>1
        <5>4. QED
          BY <5>2, <5>3
      <4>2. QED
        BY <4>1
    <3>4. QED
      BY <1>2, <1>4, <3>1, <3>2, <3>3 DEF Released
  <2>5. Reported(t, n + 1)'
    <3>1. \A k \in 1..(n + 1) : k \in 1..n \/ k = n + 1
      BY <1>4
    <3>2. CASE err[t] = None /\ a \notin Failing
      BY <1>2, <2>3, <3>1, <3>2 DEF Reported, FirstError
    <3>3. CASE err[t] = None /\ a \in Failing
      <4>1. err'[t] = a /\ a # None
        BY <2>1, <2>3, <3>3 DEF FirstError
      <4>2. /\ n + 1 \in 1..(n + 1)
            /\ \A i \in 1..((n + 1) - 1) : Order[i] \notin Failing
        BY <1>4, <3>3 DEF Reported
      <4>3. QED
        BY <1>2, <3>3, <4>1, <4>2 DEF Reported
    <3>4. CASE err[t] # None
      <4>1. err'[t] = err[t]
        BY <2>3, <3>4 DEF FirstError
      <4>2. \A k \in 1..n : k \in 1..(n + 1)
        BY <1>4
      <4>3. QED
        BY <1>2, <3>4, <4>1, <4>2 DEF Reported
    <3>5. QED
      BY <3>2, <3>3, <3>4
  <2>6. QED
    BY <2>2, <2>3, <2>4, <2>5 DEF Things
<1>7. QED
  BY <1>5, <1>6

(* The goroutine in the middle of Close is the one that called it first. *)
LEMMA TheCloser ==
  ASSUME RuntimeInv, NEW t \in Threads, pc[t] \in {"http", "deps"}
  PROVE  closed /\ \E n \in 0..5 : Closing(t, n)
<1>1. closed
  BY DEF RuntimeInv, Open
<1>2. PICK u \in Threads, n \in 0..5 : Closing(u, n)
  BY <1>1 DEF RuntimeInv
<1>3. u = t
  BY <1>2 DEF Closing
<1>4. QED
  BY <1>1, <1>2, <1>3

LEMMA CloseHTTPKeeps ==
  ASSUME RuntimeInv, NEW t \in Threads, CloseHTTP(t)
  PROVE  RuntimeInv'
<1>1. PICK n \in 0..5 : Closing(t, n)
  BY TheCloser DEF CloseHTTP
<1>2. n = 0 /\ deps[t] = Left(1) /\ ~returned /\ Released(0) /\ Reported(t, 0) /\ closed
  BY <1>1, TheCloser DEF CloseHTTP, Closing
<1>3. Order[0 + 1] = slot["http"]
  BY DEF Order
<1>4. /\ Released(0 + 1)' /\ Reported(t, 0 + 1)'
      /\ closes' \in [Adapters \cup JobPorts -> Nat]
      /\ err' \in [Threads -> Adapters \cup Ports]
      /\ \A u \in Threads : u # t => err'[u] = err[u]
  <2>1. /\ closes' = [closes EXCEPT ![Order[0 + 1]] = @ + 1]
        /\ err' = [err EXCEPT ![t] = FirstError(@, Order[0 + 1])]
    BY <1>3, Zenon DEF CloseHTTP
  <2>2. 0 \in 0..4 /\ Released(0) /\ Reported(t, 0) /\ slot' = slot
    BY <1>2 DEF CloseHTTP
  <2>3. QED
    BY <2>1, <2>2, ReleaseNext, Zenon
<1>5. pc' \in [Threads -> {"idle", "http", "deps", "done"}] /\ pc'[t] = "deps"
      /\ \A u \in Threads : u # t => pc'[u] = pc[u]
  BY DEF CloseHTTP, RuntimeInv, TypeOK
<1>6. TypeOK'
  BY <1>4, <1>5 DEF CloseHTTP, RuntimeInv, TypeOK
<1>7. FacadeIsCurrent' /\ Holds' /\ NoJobAfterClose'
  BY DEF CloseHTTP, RuntimeInv, FacadeIsCurrent, Holds, NoJobAfterClose
<1>8. Closing(t, 1)'
  <2>1. Left(1)' = Left(1) /\ deps' = deps /\ returned' = returned
    BY DEF CloseHTTP, Left
  <2>2. Released(1)' /\ Reported(t, 1)'
    BY <1>4
  <2>3. QED
    BY <1>1, <1>2, <1>4, <1>5, <2>1, <2>2 DEF Closing
<1>9. QED
  BY <1>2, <1>6, <1>7, <1>8 DEF RuntimeInv, CloseHTTP

LEMMA CloseDepKeeps ==
  ASSUME RuntimeInv, NEW t \in Threads, CloseDep(t)
  PROVE  RuntimeInv'
<1>1. PICK n \in 0..5 : Closing(t, n)
  BY TheCloser DEF CloseDep
<1>2. /\ n \in 1..4 /\ deps[t] = Left(n) /\ ~returned /\ Released(n) /\ Reported(t, n) /\ closed
  BY <1>1, TheCloser, LeftIs DEF CloseDep, Closing
<1>3. Head(deps[t]) = Order[n + 1] /\ Tail(deps[t]) = Left(n + 1)
  BY <1>2, LeftIs
<1>4. /\ Released(n + 1)' /\ Reported(t, n + 1)'
      /\ closes' \in [Adapters \cup JobPorts -> Nat]
      /\ err' \in [Threads -> Adapters \cup Ports]
      /\ \A u \in Threads : u # t => err'[u] = err[u]
  <2>1. \/ /\ n = 0 \/ ~Skipped(Order[n + 1])
           /\ closes' = [closes EXCEPT ![Order[n + 1]] = @ + 1]
           /\ err' = [err EXCEPT ![t] = FirstError(@, Order[n + 1])]
        \/ Skipped(Order[n + 1]) /\ UNCHANGED <<closes, err>>
    BY <1>3, Zenon DEF CloseDep
  <2>2. n \in 0..4 /\ n # 0 /\ slot' = slot
    BY <1>2 DEF CloseDep
  <2>3. QED
    BY <1>2, <2>1, <2>2, ReleaseNext, Zenon
<1>5. deps \in [Threads -> Seq(Adapters \cup Ports)] /\ deps[t] \in Seq(Adapters \cup Ports)
      /\ deps[t] # <<>>
  BY DEF CloseDep, RuntimeInv, TypeOK
<1>6. /\ deps' \in [Threads -> Seq(Adapters \cup Ports)] /\ deps'[t] = Left(n + 1)
  BY <1>3, <1>5 DEF CloseDep
<1>7. TypeOK'
  BY <1>4, <1>6 DEF CloseDep, RuntimeInv, TypeOK
<1>8. FacadeIsCurrent' /\ Holds' /\ NoJobAfterClose'
  BY DEF CloseDep, RuntimeInv, FacadeIsCurrent, Holds, NoJobAfterClose
<1>9. Closing(t, n + 1)'
  <2>1. Left(n + 1)' = Left(n + 1) /\ pc' = pc /\ returned' = returned /\ pc[t] = "deps"
    BY DEF CloseDep, Left
  <2>2. n + 1 \in 1..5
    BY <1>2
  <2>3. QED
    BY <1>1, <1>2, <1>4, <1>6, <2>1, <2>2 DEF Closing
<1>10. n + 1 \in 0..5
  BY <1>2
<1>11. QED
  BY <1>2, <1>7, <1>8, <1>9, <1>10 DEF RuntimeInv, CloseDep

LEMMA CloseReturnKeeps ==
  ASSUME RuntimeInv, NEW t \in Threads, CloseReturn(t)
  PROVE  RuntimeInv'
<1>1. PICK n \in 0..5 : Closing(t, n)
  BY TheCloser DEF CloseReturn
<1>2. n = 5 /\ closed
  <2>1. n \in 1..5 /\ Left(n) = <<>>
    BY <1>1 DEF CloseReturn, Closing
  <2>2. n \notin 1..4
    BY <2>1, LeftIs
  <2>3. QED
    BY <2>1, <2>2, TheCloser DEF CloseReturn
<1>3. pc' \in [Threads -> {"idle", "http", "deps", "done"}] /\ pc'[t] = "done"
      /\ \A u \in Threads : u # t => pc'[u] = pc[u]
  BY DEF CloseReturn, RuntimeInv, TypeOK
<1>4. TypeOK'
  BY <1>3 DEF CloseReturn, RuntimeInv, TypeOK
<1>5. FacadeIsCurrent' /\ Holds' /\ NoJobAfterClose'
  BY DEF CloseReturn, RuntimeInv, FacadeIsCurrent, Holds, NoJobAfterClose
<1>6. Closing(t, 5)'
  <2>1. Order' = Order /\ (\A k : Unique(k)' = Unique(k)) /\ closes' = closes /\ err' = err /\ returned'
    BY DEF CloseReturn, Order, Unique
  <2>2. Released(5)' /\ Reported(t, 5)'
    BY <1>1, <1>2, <2>1 DEF Closing, Released, Reported
  <2>3. QED
    BY <1>1, <1>2, <1>3, <2>1, <2>2 DEF Closing
<1>7. QED
  BY <1>2, <1>4, <1>5, <1>6 DEF RuntimeInv, CloseReturn

LEMMA RuntimeStep == RuntimeInv /\ Next => RuntimeInv'
  BY JobsKeeps, BindJobsKeeps, RunJobKeeps, CloseAgainKeeps, CloseBeginKeeps, CloseHTTPKeeps,
     CloseDepKeeps, CloseReturnKeeps
  DEF Next, CloseStep

LEMMA RuntimeStutters == RuntimeInv /\ UNCHANGED vars => RuntimeInv'
<1> SUFFICES ASSUME RuntimeInv, UNCHANGED vars PROVE RuntimeInv'
  OBVIOUS
<1>1. TypeOK' /\ FacadeIsCurrent' /\ Holds' /\ NoJobAfterClose'
  BY DEF vars, RuntimeInv, TypeOK, FacadeIsCurrent, Holds, NoJobAfterClose
<1>2. QED
  BY <1>1, QuietKeeps DEF vars

LEMMA RuntimeImplies == RuntimeInv => ClientInv
<1> SUFFICES ASSUME RuntimeInv PROVE ClientInv
  OBVIOUS
<1>1. TypeOK /\ FacadeIsCurrent /\ slot \in [Slots -> Adapters \cup Ports]
  BY DEF RuntimeInv, TypeOK
<1>2. CloseReleases
  <2> SUFFICES ASSUME returned, NEW s \in Slots, slot[s] # None
               PROVE  /\ closes[slot[s]] >= 1
                      /\ slot[s] = slot["http"] \/ (\A q \in Slots \ {s} : slot[q] # slot[s]) =>
                           closes[slot[s]] = 1
    BY DEF CloseReleases
  <2>1. PICK t \in Threads : Closing(t, 5)
    BY ReturnedIsReleased
  <2>2. closes[slot[s]] >= 1
    BY <1>1, <2>1, OrderIs DEF Closing, Released
  <2>3. slot[s] = slot["http"] => closes[slot[s]] = 1
    BY <1>1, <2>1, OrderIs DEF Closing, Released
  <2>4. ASSUME \A q \in Slots \ {s} : slot[q] # slot[s] PROVE closes[slot[s]] = 1
    <3>1. PICK k \in 1..5 : Order[k] = slot[s] /\ Unique(k)
      BY <1>1, <2>4, OrderIs
    <3>2. CASE k = 1
      BY <1>1, <2>3, <3>1, <3>2, OrderIs
    <3>3. CASE k # 1
      BY <2>1, <3>1, <3>3 DEF Closing, Released
    <3>4. QED
      BY <3>2, <3>3
  <2>5. QED
    BY <2>2, <2>3, <2>4
<1>3. FirstErrorReturned
  <2>1. ASSUME NEW t \in Threads, err[t] # None
        PROVE  \E k \in 1..5 : /\ err[t] = Order[k] /\ Order[k] \in Failing
                               /\ \A i \in 1..(k - 1) : Order[i] \notin Failing
    <3>1. PICK u \in Threads, n \in 0..5 : Closing(u, n)
      BY <2>1 DEF RuntimeInv, Open
    <3>2. u = t /\ Reported(t, n)
      BY <2>1, <3>1 DEF Closing
    <3>3. \A k \in 1..n : k \in 1..5
      OBVIOUS
    <3>4. QED
      BY <2>1, <3>2, <3>3 DEF Reported
  <2>2. ASSUME returned, NEW k \in 1..5, Order[k] \in Failing PROVE \E t \in Threads : err[t] # None
    <3>1. PICK t \in Threads : Closing(t, 5)
      BY <2>2, ReturnedIsReleased
    <3>2. QED
      BY <2>2, <3>1 DEF Closing, Reported
  <2>3. QED
    BY <2>1, <2>2 DEF FirstErrorReturned
<1>4. QED
  BY <1>1, <1>2, <1>3 DEF ClientInv
-----------------------------------------------------------------------------
(* The client from New to Close *)

\* The runtime is as newRuntime made it until it is served.
Untouched == phase # "serve" => ~closed /\ jobsAPI = "nil" /\ \A t \in Threads : held[t] = "nil"

SetupInv == RuntimeInv /\ Untouched

LEMMA NewRuntimeKeeps == SetupInv /\ NewRuntime => SetupInv'
<1> SUFFICES ASSUME SetupInv, NewRuntime PROVE SetupInv'
  OBVIOUS
<1>1. TypeOK /\ ~closed /\ jobsAPI = "nil" /\ Open /\ (\A t \in Threads : held[t] = "nil")
  BY DEF SetupInv, RuntimeInv, Untouched, NewRuntime
<1>2. /\ slot' \in [Slots -> Adapters \cup Ports] /\ slot'["jobs"] \in Ports
      /\ slot'["http"] = slot["http"]
  BY <1>1, ClientSetupAssumption DEF NewRuntime, TypeOK, Slots, Ports, SetupInv, RuntimeInv
<1>3. TypeOK'
  BY <1>1, <1>2 DEF NewRuntime, TypeOK
<1>4. FacadeIsCurrent' /\ Holds' /\ NoJobAfterClose' /\ Open' /\ ~closed'
  BY <1>1 DEF NewRuntime, FacadeIsCurrent, Holds, NoJobAfterClose, Open
<1>5. RuntimeInv'
  BY <1>2, <1>3, <1>4 DEF RuntimeInv, SetupInv
<1>6. QED
  BY <1>1, <1>5 DEF SetupInv, Untouched, NewRuntime

LEMMA SetupStep == SetupInv /\ [SetupNext]_allVars => SetupInv'
<1> SUFFICES ASSUME SetupInv, [SetupNext]_allVars PROVE SetupInv'
  OBVIOUS
<1>1. CASE NewRuntime
  BY <1>1, NewRuntimeKeeps
<1>2. CASE Use
  BY <1>2, RuntimeStep DEF SetupInv, Use, setupVars, Untouched
<1>3. CASE UNCHANGED vars /\ (phase' = "serve" \/ phase # "serve" \/ phase' = phase)
  <2>1. RuntimeInv'
    BY <1>3, RuntimeStutters DEF SetupInv
  <2>2. Untouched'
    BY <1>3 DEF SetupInv, Untouched, vars
  <2>3. QED
    BY <2>1, <2>2 DEF SetupInv
<1>4. QED
  BY <1>1, <1>2, <1>3 DEF SetupNext, allVars, setupVars, ResolveConfig, NewFails, RunTurn, TurnEnds, Serve

LEMMA SetupStarts == SetupInit => SetupInv
  BY RuntimeInit DEF SetupInit, SetupInv, Untouched, Init

(***************************************************************************)
(* Close releases every adapter of the client, the HTTP port and one that  *)
(* fills a single slot just once, and reports the first failure; the jobs  *)
(* facade is on the port of the slot - whatever the adapters, however many *)
(* goroutines rebind, use and close the client.                            *)
(***************************************************************************)
THEOREM ClientIsReleased == SetupSpec => []ClientInv
<1>1. SetupInv => ClientInv
  BY RuntimeImplies DEF SetupInv
<1>2. QED
  BY <1>1, SetupStarts, SetupStep, PTL DEF SetupSpec

(***************************************************************************)
(* After Close has returned, no job is accepted but by a port that         *)
(* BindJobs had replaced, through a facade fetched before that.            *)
(***************************************************************************)
THEOREM ClosedTakesNoJob == SetupSpec => []NoJobAfterClose
<1>1. SetupInv => NoJobAfterClose
  BY DEF SetupInv, RuntimeInv
<1>2. QED
  BY <1>1, SetupStarts, SetupStep, PTL DEF SetupSpec
-----------------------------------------------------------------------------
(* The configuration *)

\* The fields of a configuration that what follows is about.
HasFields(c) ==
  /\ "profile" \in DOMAIN c /\ "auth" \in DOMAIN c /\ "tls" \in DOMAIN c /\ "settings" \in DOMAIN c
  /\ "preview" \in DOMAIN c /\ "detective" \in DOMAIN c /\ "capture" \in DOMAIN c
  /\ "level" \in DOMAIN c /\ "redact" \in DOMAIN c /\ "endpoint" \in DOMAIN c /\ "otel" \in DOMAIN c
  /\ "cache" \in DOMAIN c /\ "modes" \in DOMAIN c
  /\ "llm" \in DOMAIN c /\ "roles" \in DOMAIN c /\ "models" \in DOMAIN c /\ "host" \in DOMAIN c
  /\ "ai" \in DOMAIN c.settings

\* What a production client must be.
Secure(c) ==
  /\ c.auth # "none" /\ c.tls /\ c.redact
  /\ ~c.capture /\ ~c.detective /\ ~c.settings.ai
  /\ c.endpoint => c.otel

\* The fields that a profile leaves alone.
SameBut(d, c) ==
  /\ d.auth = c.auth /\ d.cache = c.cache /\ d.modes = c.modes /\ d.llm = c.llm
  /\ d.roles = c.roles /\ d.models = c.models

\* Settings as Load leaves them: all fields, an output rule, a context of some length.
IsSettings(s) ==
  /\ s = [f \in DOMAIN DefaultSettings |-> s[f]]
  /\ s.onError # "" /\ s.company \in Nat

LEMMA FieldsAre ==
  DOMAIN DefaultSettings = {"ai", "ignore", "override", "rounds", "mode", "onError", "company", "meta",
                            "rid", "rules", "tenant", "output"}
  BY DEF DefaultSettings

LEMMA AiKeeps == ASSUME NEW s, IsSettings(s), NEW v PROVE IsSettings([s EXCEPT !.ai = v])
  BY FieldsAre DEF IsSettings

LEMMA PolicyIs ==
  ASSUME NEW c, HasFields(c), NEW name
  PROVE  LET d == Policy(c, name)
         IN  /\ HasFields(d) /\ SameBut(d, c) /\ d.profile = name /\ d.settings = c.settings
             /\ name = "production" => ~d.capture /\ ~d.detective
<1>1. PICK n : n = CASE name = "production" -> 2048 [] name = "ci" -> 4096 [] OTHER -> 16384
  OBVIOUS
<1>2. PICK x : x = (name = "hub")
  OBVIOUS
<1>3. PICK y : y = (name \notin {"production", "ci"})
  OBVIOUS
<1>4. Policy(c, name) = [c EXCEPT !.profile = name, !.preview = n, !.detective = x, !.capture = y]
  BY <1>1, <1>2, <1>3 DEF Policy
<1>5. name = "production" => ~x /\ ~y
  BY <1>2, <1>3
<1>6. QED
  BY <1>4, <1>5 DEF HasFields, SameBut

\* What a profile makes of a configuration, if it accepts it.
LEMMA ProfileIs ==
  ASSUME NEW c, HasFields(c), NEW p, ApplyProfile(c, p).err = "none"
  PROVE  LET d == ApplyProfile(c, p).cfg
         IN  /\ HasFields(d) /\ SameBut(d, c) /\ d.profile = ProfileName(p)
             /\ d.profile = "production" => Secure(d)
             /\ d.settings.ai => d.profile = "hub" \/ c.settings.ai
             /\ IsSettings(c.settings) => IsSettings(d.settings)
<1> DEFINE name == ProfileName(p)
           b == Policy(c, name)
           d == ApplyProfile(c, p).cfg
<1>1. /\ HasFields(b) /\ SameBut(b, c) /\ b.profile = name /\ b.settings = c.settings
      /\ name = "production" => ~b.capture /\ ~b.detective
  BY PolicyIs
<1> HIDE DEF name, b
<1>2. CASE name = "production"
  <2>1. ApplyProfile(c, p) = Production(b)
    BY <1>2 DEF ApplyProfile, name, b
  <2> DEFINE q == [b EXCEPT !.settings.ai = FALSE, !.redact = TRUE, !.otel = @ \/ b.endpoint,
                !.level = IF @ \in {"error", "info", "debug", "trace"} THEN @ ELSE "info"]
  <2>2. /\ HasFields(q) /\ SameBut(q, b) /\ q.profile = b.profile /\ q.redact = TRUE
        /\ q.settings = [b.settings EXCEPT !.ai = FALSE]
        /\ q.settings.ai = FALSE /\ q.capture = b.capture /\ q.detective = b.detective
        /\ q.endpoint = b.endpoint /\ q.otel = (b.otel \/ b.endpoint)
    BY <1>1 DEF HasFields, SameBut
  <2> HIDE DEF q
  <2>3. Production(b) = ValidateProductionSecurity(q)
    BY DEF Production, q
  <2>4. q.auth # "none" /\ q.tls /\ d = q
    BY <2>1, <2>3 DEF ValidateProductionSecurity, Ok, Error
  <2>5. Secure(q)
    BY <1>1, <1>2, <2>2, <2>4 DEF Secure
  <2>6. IsSettings(b.settings) => IsSettings(q.settings)
    BY <2>2, AiKeeps
  <2>7. QED
    BY <1>1, <2>2, <2>4, <2>5, <2>6 DEF SameBut, name
<1>3. CASE name = "development"
  <2> DEFINE q == [b EXCEPT !.level = IF @ = "info" THEN "debug" ELSE @]
  <2>1. d = q
    BY <1>3 DEF ApplyProfile, name, b, Ok
  <2>2. HasFields(q) /\ SameBut(q, b) /\ q.profile = b.profile /\ q.settings = b.settings
    BY <1>1 DEF HasFields, SameBut
  <2> HIDE DEF q, d
  <2>3. d.profile = name /\ d.profile # "production" /\ d.settings = c.settings
    BY <1>1, <1>3, <2>1, <2>2
  <2>4. HasFields(d) /\ SameBut(d, c)
    BY <1>1, <2>1, <2>2 DEF SameBut
  <2>5. QED
    BY <2>3, <2>4 DEF d, name
<1>4. CASE name \in {"ci", "hub"}
  <2> DEFINE q == [b EXCEPT !.settings.ai = (name = "hub")]
  <2>1. d = q
    BY <1>4 DEF ApplyProfile, name, b, Ok
  <2>2. HasFields(q) /\ SameBut(q, b) /\ q.profile = b.profile /\ q.settings.ai = (name = "hub")
        /\ \E v : q.settings = [b.settings EXCEPT !.ai = v]
    BY <1>1 DEF HasFields, SameBut
  <2>3. IsSettings(b.settings) => IsSettings(q.settings)
    BY <2>2, AiKeeps
  <2> HIDE DEF q, d
  <2>4. d.profile = name /\ d.profile # "production" /\ (d.settings.ai => name = "hub")
    BY <1>1, <1>4, <2>1, <2>2
  <2>5. HasFields(d) /\ SameBut(d, c)
    BY <1>1, <2>1, <2>2 DEF SameBut
  <2>6. QED
    BY <1>1, <2>1, <2>4, <2>5, <2>3 DEF d, name
<1>5. CASE name \notin {"production", "development", "ci", "hub"}
  <2>1. d = b
    BY <1>5 DEF ApplyProfile, name, b, Ok
  <2> HIDE DEF d
  <2>2. QED
    BY <1>1, <1>5, <2>1 DEF d, name
<1>6. QED
  BY <1>2, <1>3, <1>4, <1>5

\* The two model settings.
HasSlice(c) == DOMAIN c.llm = {"model", "key"}

\* The worker's role has the key that the file names for it, else the file's.
RoleKey(c, data) ==
  "worker" \in DOMAIN c.roles =>
    /\ "key" \in DOMAIN c.roles["worker"]
    /\ c.roles["worker"].key = Get(data.roles["worker"], "key", Get(data, "key", Default.llm.key))

LEMMA DefaultIs ==
  /\ HasFields(Default) /\ HasSlice(Default) /\ Default.modes # {} /\ Default.roles = Empty
  /\ Default.settings = DefaultSettings /\ DefaultSettings.ai = FALSE
  /\ Default.profile = "development" /\ Default.auth = "none" /\ Default.models = Empty
  /\ IsSettings(Default.settings)
<1>1. Default.settings = DefaultSettings
  BY DEF Default
<1>2. IsSettings(DefaultSettings)
  BY DEF IsSettings, DefaultSettings
<1>3. QED
  BY <1>1, <1>2 DEF Default, DefaultSettings, HasFields, HasSlice

LEMMA EmptyIs == DOMAIN Empty = {} /\ \A k, def : Get(Empty, k, def) = def
  BY DEF Empty, Get

LEMMA PinsAre ==
  ASSUME NEW data
  PROVE  LET d == OverlayPins(Default, data)
         IN  /\ HasFields(d) /\ HasSlice(d) /\ d.modes # {} /\ d.roles = Empty
             /\ d.settings.ai = Get(data, "ai", FALSE) /\ IsSettings(d.settings)
<1>1. PICK b : b = Default
  OBVIOUS
<1>2. PICK u, v, w, x : /\ u = Get(data, "auth", b.auth) /\ v = Get(data, "ai", b.settings.ai)
                        /\ w = Get(data, "model", b.llm.model) /\ x = Get(data, "key", b.llm.key)
  OBVIOUS
<1>3. OverlayPins(b, data) = [b EXCEPT !.auth = u, !.settings.ai = v, !.llm = [model |-> w, key |-> x]]
  BY <1>2 DEF OverlayPins
<1>4. HasFields(b) /\ b.modes # {} /\ b.roles = Empty /\ b.settings.ai = FALSE
      /\ IsSettings(b.settings)
  BY <1>1, DefaultIs
<1> DEFINE d == [b EXCEPT !.auth = u, !.settings.ai = v, !.llm = [model |-> w, key |-> x]]
<1>5. HasFields(d) /\ d.llm = [model |-> w, key |-> x] /\ d.modes = b.modes /\ d.roles = b.roles
      /\ d.settings.ai = v /\ d.settings = [b.settings EXCEPT !.ai = v]
  BY <1>4 DEF HasFields
<1>6. IsSettings(d.settings)
  BY <1>4, <1>5, AiKeeps
<1>7. HasSlice(d)
  BY <1>5 DEF HasSlice
<1>8. v = Get(data, "ai", FALSE)
  BY <1>2, <1>4, Zenon
<1> HIDE DEF d
<1>9. OverlayPins(Default, data) = d
  BY <1>1, <1>3, Zenon DEF d
<1>10. QED
  BY <1>4, <1>5, <1>7, <1>8, <1>9, <1>6, Zenon

LEMMA RolesAre ==
  ASSUME NEW roles, NEW key, "worker" \in DOMAIN ParseLLMRoles(roles, key)
  PROVE  /\ "key" \in DOMAIN ParseLLMRoles(roles, key)["worker"]
         /\ ParseLLMRoles(roles, key)["worker"].key = Get(roles["worker"], "key", key)
  BY DEF ParseLLMRoles

LEMMA ModesAre == ASSUME NEW raw PROVE ParseSemanticCache(raw).modes # {}
  BY DEF ParseSemanticCache, Get, Default

\* What is read from a file that has no pins, before the profile.
FileConfig(data) ==
  LET key  == Get(data, "key", Default.llm.key)
      sem  == ParseSemanticCache(Get(data, "cache", Empty))
      jobs == ParseJobs(data)
  IN  [Default EXCEPT
         !.auth = Get(data, "auth", @), !.tls = Get(data, "tls", @),
         !.settings = ParseClientSettings(data),
         !.level = Get(data, "level", @), !.redact = Get(data, "redact", @),
         !.endpoint = Get(data, "endpoint", @), !.otel = Get(data, "otel", @),
         !.host = jobs.host, !.models = jobs.models,
         !.cache = sem.cache, !.modes = sem.modes,
         !.llm = [model |-> Get(data, "model", @.model), key |-> key],
         !.roles = ParseLLMRoles(Get(data, "roles", Empty), key)]

LEMMA FileConfigIs ==
  ASSUME NEW data
  PROVE  LET d == FileConfig(data)
         IN  /\ HasFields(d) /\ HasSlice(d) /\ d.modes # {} /\ RoleKey(d, data)
             /\ d.settings.ai = Get(data, "ai", FALSE) /\ d.settings = ParseClientSettings(data)
<1> DEFINE key == Get(data, "key", Default.llm.key)
           roles == ParseLLMRoles(Get(data, "roles", Empty), key)
           set == ParseClientSettings(data)
           modes == ParseSemanticCache(Get(data, "cache", Empty)).modes
           d == FileConfig(data)
<1>1. "ai" \in DOMAIN set /\ set.ai = Get(data, "ai", FALSE)
  BY DEF ParseClientSettings, DefaultSettings
<1>2. modes # {}
  BY ModesAre
<1>3. "worker" \in DOMAIN roles =>
        /\ "key" \in DOMAIN roles["worker"]
        /\ roles["worker"].key = Get(data.roles["worker"], "key", key)
  <2>1. "worker" \in DOMAIN roles => Get(data, "roles", Empty) = data.roles
    BY EmptyIs DEF ParseLLMRoles, Get
  <2>2. QED
    BY <2>1, RolesAre
<1> HIDE DEF key, roles, set, modes
<1>4. PICK b : b = Default /\ HasFields(b)
  BY DefaultIs
<1>5. d = [b EXCEPT !.auth = Get(data, "auth", b.auth), !.tls = Get(data, "tls", b.tls),
                    !.settings = set,
                    !.level = Get(data, "level", b.level), !.redact = Get(data, "redact", b.redact),
                    !.endpoint = Get(data, "endpoint", b.endpoint), !.otel = Get(data, "otel", b.otel),
                    !.host = ParseJobs(data).host, !.models = ParseJobs(data).models,
                    !.cache = ParseSemanticCache(Get(data, "cache", Empty)).cache, !.modes = modes,
                    !.llm = [model |-> Get(data, "model", b.llm.model), key |-> key],
                    !.roles = roles]
  BY <1>4, Zenon DEF FileConfig, key, roles, set, modes
<1> HIDE DEF d
<1>6. HasFields(d) /\ d.settings = set /\ d.modes = modes /\ d.roles = roles
      /\ d.llm = [model |-> Get(data, "model", b.llm.model), key |-> key]
  BY <1>1, <1>4, <1>5 DEF HasFields
<1>7. HasSlice(d) /\ RoleKey(d, data)
  BY <1>3, <1>6 DEF HasSlice, RoleKey, key
<1>8. QED
  BY <1>1, <1>2, <1>6, <1>7 DEF d, set

\* The length of the company context that a file has.
FileWords(data) == Get(Get(data, "settings", Empty), "company", 0)

LEMMA ParsedIs == ASSUME NEW data, FileWords(data) \in Nat PROVE IsSettings(ParseClientSettings(data))
<1>1. PICK read, p : read = Get(data, "settings", Empty) /\ p = ParseClientSettings(data)
  OBVIOUS
<1>2. p = [f \in DOMAIN DefaultSettings |->
             CASE f = "ai" -> Get(data, "ai", FALSE)
               [] f = "onError" /\ Get(read, f, "") = "" -> "strip"
               [] OTHER -> Get(read, f, DefaultSettings[f])]
  BY <1>1, Zenon DEF ParseClientSettings
<1>3. p = [f \in DOMAIN DefaultSettings |-> p[f]]
  BY <1>2
<1>4. p["company"] = Get(read, "company", DefaultSettings["company"])
  BY <1>2, FieldsAre
<1>5. p["onError"] # ""
  <2>1. p["onError"] = IF Get(read, "onError", "") = "" THEN "strip" ELSE Get(read, "onError", DefaultSettings["onError"])
    BY <1>2, FieldsAre
  <2>2. QED
    BY <2>1 DEF Get
<1>6. DefaultSettings["company"] = 0
  BY DEF DefaultSettings
<1>7. QED
  BY <1>1, <1>3, <1>4, <1>5, <1>6 DEF IsSettings, FileWords

\* The profile that a file is read with.
FileProfile(data, profile) == IF profile # "" THEN profile ELSE Get(data, "profile", "development")

\* A configuration as it is read from the file, before and after the profile.
IsRead(c, data) ==
  /\ HasFields(c) /\ HasSlice(c) /\ c.modes # {} /\ RoleKey(c, data)
  /\ FileWords(data) \in Nat => IsSettings(c.settings)

LEMMA FileIs ==
  ASSUME NEW data, NEW profile, FromMapping(data, profile).err = "none"
  PROVE  LET d == FromMapping(data, profile).cfg
         IN  /\ IsRead(d, data)
             /\ d.profile = ProfileName(FileProfile(data, profile))
             /\ d.settings.ai => d.profile = "hub" \/ Get(data, "ai", FALSE)
             /\ Get(data, "pins", FALSE) \/ d.auth \in AuthModes
<1>1. PICK r, P : r = FromMapping(data, profile) /\ P = FileProfile(data, profile)
  OBVIOUS
<1>2. ASSUME NEW c, r = ApplyProfile(c, P), IsRead(c, data), c.settings.ai = Get(data, "ai", FALSE)
      PROVE  /\ IsRead(r.cfg, data) /\ r.cfg.profile = ProfileName(P) /\ r.cfg.auth = c.auth
             /\ r.cfg.settings.ai => r.cfg.profile = "hub" \/ Get(data, "ai", FALSE)
  <2>1. HasFields(c) /\ ApplyProfile(c, P).err = "none"
    BY <1>1, <1>2 DEF IsRead
  <2>2. /\ HasFields(r.cfg) /\ SameBut(r.cfg, c) /\ r.cfg.profile = ProfileName(P)
        /\ r.cfg.settings.ai => r.cfg.profile = "hub" \/ c.settings.ai
        /\ IsSettings(c.settings) => IsSettings(r.cfg.settings)
    BY <1>2, <2>1, ProfileIs
  <2>3. QED
    BY <1>2, <2>2 DEF IsRead, SameBut, HasSlice, RoleKey
<1>3. CASE Get(data, "pins", FALSE)
  <2>1. PICK c : c = OverlayPins(Default, data)
    OBVIOUS
  <2>2. r = ApplyProfile(c, P)
    BY <1>1, <1>3, <2>1, DefaultIs DEF FromMapping, FileProfile
  <2>3. HasFields(c) /\ HasSlice(c) /\ c.modes # {} /\ c.roles = Empty
        /\ c.settings.ai = Get(data, "ai", FALSE) /\ IsSettings(c.settings)
    BY <2>1, PinsAre
  <2>4. IsRead(c, data)
    BY <2>3, EmptyIs DEF IsRead, RoleKey
  <2>5. /\ IsRead(r.cfg, data) /\ r.cfg.profile = ProfileName(P)
        /\ r.cfg.settings.ai => r.cfg.profile = "hub" \/ Get(data, "ai", FALSE)
    BY <1>2, <2>2, <2>3, <2>4, Zenon
  <2>6. QED
    BY <1>1, <1>3, <2>5, Zenon
<1>4. CASE ~Get(data, "pins", FALSE)
  <2>1. PICK c : c = FileConfig(data)
    OBVIOUS
  <2>2. r = IF c.auth \notin AuthModes THEN Error("auth_mode_invalid") ELSE ApplyProfile(c, P)
    BY <1>1, <1>4, <2>1, Zenon DEF FromMapping, FromRuntimeMapping, FileConfig, FileProfile
  <2>3. IsRead(c, data) /\ c.settings.ai = Get(data, "ai", FALSE)
    BY <2>1, FileConfigIs, ParsedIs DEF IsRead
  <2>4. c.auth \in AuthModes /\ r = ApplyProfile(c, P)
    BY <1>1, <2>2 DEF Error
  <2>5. /\ IsRead(r.cfg, data) /\ r.cfg.profile = ProfileName(P) /\ r.cfg.auth = c.auth
        /\ r.cfg.settings.ai => r.cfg.profile = "hub" \/ Get(data, "ai", FALSE)
    BY <1>2, <2>3, <2>4, Zenon
  <2>6. QED
    BY <1>1, <2>4, <2>5, Zenon
<1>5. QED
  BY <1>3, <1>4

LEMMA OverlayIs ==
  ASSUME NEW c, HasFields(c), NEW env
  PROVE  LET e == EnvOverlay(c, env)
         IN  /\ HasFields(e) /\ HasSlice(e) /\ e.modes = c.modes /\ e.roles = c.roles
             /\ e.auth = EnvAuth(c, env) /\ e.profile = Get(env, "profile", c.profile)
             /\ e.settings.ai = Get(env, "ai", c.settings.ai)
             /\ IsSettings(c.settings) => IsSettings(e.settings)
<1> DEFINE m == Get(env, "model", c.llm.model)
           k == Get(env, "key", c.llm.key)
           a == EnvAuth(c, env)
           e == EnvOverlay(c, env)
<1>1. PICK h : h = (c.host \/ Get(env, "host", FALSE))
  OBVIOUS
<1>2. e = [c EXCEPT !.auth = a, !.tls = Get(env, "tls", c.tls),
              !.settings.ai = Get(env, "ai", c.settings.ai),
              !.level = Get(env, "level", c.level), !.redact = Get(env, "redact", c.redact),
              !.endpoint = Get(env, "endpoint", c.endpoint), !.otel = Get(env, "otel", c.otel),
              !.host = h, !.cache = Get(env, "cache", c.cache),
              !.llm = [model |-> m, key |-> k],
              !.profile = Get(env, "profile", c.profile)]
  BY <1>1 DEF EnvOverlay
<1> HIDE DEF m, k, a, e
<1>3. HasFields(e) /\ e.llm = [model |-> m, key |-> k] /\ e.modes = c.modes /\ e.roles = c.roles
      /\ e.auth = a /\ e.profile = Get(env, "profile", c.profile)
      /\ e.settings.ai = Get(env, "ai", c.settings.ai)
      /\ e.settings = [c.settings EXCEPT !.ai = Get(env, "ai", c.settings.ai)]
  BY <1>2 DEF HasFields
<1>4. IsSettings(c.settings) => IsSettings(e.settings)
  BY <1>3, AiKeeps
<1>5. HasSlice(e)
  BY <1>3 DEF HasSlice
<1>6. QED
  BY <1>3, <1>5, <1>4 DEF a, e

\* What Load makes of the configuration c of a file: the environment, and the profile again.
Loads(d, c, env) ==
  /\ HasFields(d) /\ HasSlice(d) /\ d.modes = c.modes /\ d.roles = c.roles
  /\ d.auth = EnvAuth(c, env)
  /\ Get(env, "url", FALSE) \/ d.auth \in AuthModes
  /\ d.profile = ProfileName(Get(env, "profile", c.profile))
  /\ d.profile = "production" => Secure(d)
  /\ d.settings.ai => d.profile = "hub" \/ Get(env, "ai", c.settings.ai)
  /\ IsSettings(c.settings) => IsSettings(d.settings)

LEMMA LoadIs ==
  ASSUME NEW path, NEW data, NEW arg, NEW env, Load(path, data, arg, env).err = "none",
         path = "none" => data = Empty
  PROVE  /\ FromMapping(data, FirstProfile(data, arg, env)).err = "none"
         /\ Loads(Load(path, data, arg, env).cfg,
                  FromMapping(data, FirstProfile(data, arg, env)).cfg, env)
<1> DEFINE r == Load(path, data, arg, env)
           q == FirstProfile(data, arg, env)
           f == FromMapping(data, q)
           c == f.cfg
           e == EnvOverlay(c, env)
           d == r.cfg
<1>1. path # "bad" /\ r = IF f.err = "none" THEN ApplyEnv(c, env) ELSE f
  BY DEF Load, Then, Error
<1> HIDE DEF r, q
<1>2. r.err = "none" /\ f.err = "none" /\ r = ApplyEnv(c, env)
  BY <1>1 DEF r
<1>3. HasFields(c)
  BY <1>2, FileIs DEF IsRead
<1> HIDE DEF f
<1>4. /\ HasFields(e) /\ HasSlice(e) /\ e.modes = c.modes /\ e.roles = c.roles
      /\ e.auth = EnvAuth(c, env) /\ e.profile = Get(env, "profile", c.profile)
      /\ e.settings.ai = Get(env, "ai", c.settings.ai)
      /\ IsSettings(c.settings) => IsSettings(e.settings)
  BY <1>3, OverlayIs
<1>5. /\ Get(env, "url", FALSE) \/ e.auth \in AuthModes
      /\ r = ApplyProfile(e, e.profile)
  BY <1>2 DEF ApplyEnv, Error
<1> HIDE DEF c, e
<1>6. /\ HasFields(d) /\ SameBut(d, e) /\ d.profile = ProfileName(e.profile)
      /\ d.profile = "production" => Secure(d)
      /\ d.settings.ai => d.profile = "hub" \/ e.settings.ai
      /\ IsSettings(e.settings) => IsSettings(d.settings)
  BY <1>2, <1>4, <1>5, ProfileIs
<1>7. HasSlice(d) /\ d.modes = c.modes /\ d.roles = c.roles /\ d.auth = EnvAuth(c, env)
      /\ (Get(env, "url", FALSE) \/ d.auth \in AuthModes)
  BY <1>4, <1>5, <1>6 DEF SameBut, HasSlice
<1>8. QED
  BY <1>2, <1>4, <1>6, <1>7 DEF Loads, c, f, q, r

LEMMA SnapshotIs ==
  ASSUME NEW c, HasFields(c)
  PROVE  LET d == Snapshot(c)
         IN  /\ HasFields(d) /\ d.profile = c.profile /\ d.auth = c.auth /\ d.settings = c.settings
             /\ d.cache = c.cache /\ d.llm = c.llm /\ d.roles = c.roles
             /\ d.cache => d.modes = c.modes
             /\ Secure(c) => Secure(d)
  BY DEF Snapshot, HasFields, Secure

\* The key of a worker's slice: the last layer that names one.
LEMMA SliceKey ==
  ASSUME NEW c, HasSlice(c)
  PROVE  ResolveLlmSlice(c, "worker", Empty, Empty, Empty).key =
           Get(Get(c.models, "worker", Empty), "key",
               Get(Get(c.roles, "worker", Empty), "key", c.llm.key))
<1>1. ASSUME NEW dst, NEW src, DOMAIN dst = {"model", "key"}
      PROVE  /\ DOMAIN MergeLLMPartial(dst, src) = {"model", "key"}
             /\ MergeLLMPartial(dst, src).key = Get(src, "key", dst.key)
  BY <1>1 DEF MergeLLMPartial
<1> DEFINE a == MergeLLMPartial(c.llm, Get(c.roles, "worker", Empty))
           b == MergeLLMPartial(a, Get(c.models, "worker", Empty))
           d == MergeLLMPartial(b, Empty)
           e == MergeLLMPartial(d, Empty)
           f == MergeLLMPartial(e, Empty)
<1>2. ResolveLlmSlice(c, "worker", Empty, Empty, Empty) = f
  BY EmptyIs DEF ResolveLlmSlice
<1>3. DOMAIN a = {"model", "key"} /\ a.key = Get(Get(c.roles, "worker", Empty), "key", c.llm.key)
  BY <1>1 DEF HasSlice
<1> HIDE DEF a
<1>4. DOMAIN b = {"model", "key"} /\ b.key = Get(Get(c.models, "worker", Empty), "key", a.key)
  BY <1>1, <1>3
<1> HIDE DEF b
<1>5. DOMAIN d = {"model", "key"} /\ d.key = b.key
  BY <1>1, <1>4, EmptyIs
<1> HIDE DEF d
<1>6. DOMAIN e = {"model", "key"} /\ e.key = d.key
  BY <1>1, <1>5, EmptyIs
<1> HIDE DEF e
<1>7. f.key = e.key
  BY <1>1, <1>6, EmptyIs
<1> HIDE DEF f
<1>8. QED
  BY <1>2, <1>3, <1>4, <1>5, <1>6, <1>7, Zenon

LEMMA NameIs == \A n : ProfileName(ProfileName(n)) = ProfileName(n) /\ (ProfileName(n) = "hub" <=> n = "hub")
  BY DEF ProfileName

LEMMA ConfigStep ==
  ASSUME NEW path, NEW file, NEW arg, NEW env, ResolveConfig(path, file, arg, env),
         path = "none" => file = Empty,
         Get(file, "ai", FALSE) \in BOOLEAN, Get(env, "ai", FALSE) \in BOOLEAN
  PROVE  ConfigInv'
<1> DEFINE r == Load(path, file, arg, env)
           q == FirstProfile(file, arg, env)
<1> SUFFICES ASSUME phase' = "loaded" PROVE ConfigInv'
  BY DEF ConfigInv, ProductionIsSecure, ProfileByPrecedence, ProcessingIsAsked, AuthIsKnown,
         CacheHasModes, WorkerKeyIsNamed
<1>1. /\ r.err = "none" /\ cfg' = Snapshot(r.cfg)
      /\ load'.file = file /\ load'.arg = arg /\ load'.env = env
  BY DEF ResolveConfig
<1>2. PICK c, d : /\ c = FromMapping(file, q).cfg /\ FromMapping(file, q).err = "none"
                  /\ d = r.cfg /\ Loads(d, c, env)
  BY <1>1, LoadIs
<1>3. /\ HasFields(c) /\ HasSlice(c) /\ c.modes # {} /\ RoleKey(c, file)
      /\ c.profile = ProfileName(FileProfile(file, q))
      /\ c.settings.ai => c.profile = "hub" \/ Get(file, "ai", FALSE)
      /\ Get(file, "pins", FALSE) \/ c.auth \in AuthModes
  BY <1>2, FileIs DEF IsRead
<1>4. /\ HasFields(d) /\ HasSlice(d) /\ d.modes = c.modes /\ d.roles = c.roles
      /\ d.auth = EnvAuth(c, env)
      /\ Get(env, "url", FALSE) \/ d.auth \in AuthModes
      /\ d.profile = ProfileName(Get(env, "profile", c.profile))
      /\ d.profile = "production" => Secure(d)
      /\ d.settings.ai => d.profile = "hub" \/ Get(env, "ai", c.settings.ai)
  BY <1>2 DEF Loads
<1>5. /\ cfg'.profile = d.profile /\ cfg'.auth = d.auth /\ cfg'.settings = d.settings
      /\ cfg'.cache = d.cache /\ cfg'.llm = d.llm /\ cfg'.roles = d.roles
      /\ cfg'.cache => cfg'.modes = d.modes
      /\ Secure(d) => Secure(cfg')
  BY <1>1, <1>2, <1>4, SnapshotIs
<1> HIDE DEF r, q
<1>6. ProductionIsSecure'
  BY <1>2, <1>4, <1>5 DEF ProductionIsSecure, Secure
<1>7. ProfileByPrecedence'
  <2>1. d.profile = ProfileName(Get(env, "profile", FileProfile(file, q)))
    BY <1>2, <1>3, <1>4, NameIs DEF Get
  <2>2. ProfileName("") = ProfileName("development")
    BY DEF ProfileName
  <2>3. "profile" \notin DOMAIN env =>
          ProfileName(FileProfile(file, q)) =
            ProfileName(IF arg # "" THEN arg ELSE Get(file, "profile", "development"))
    BY <2>2 DEF FileProfile, FirstProfile, q, Get
  <2>4. d.profile = ProfileName(Get(env, "profile", IF arg # "" THEN arg
                                                    ELSE Get(file, "profile", "development")))
    BY <2>1, <2>3 DEF Get
  <2>5. QED
    BY <1>1, <1>5, <2>4 DEF ProfileByPrecedence
<1>8. ProcessingIsAsked'
  <2> SUFFICES ASSUME cfg'.settings.ai
               PROVE  \/ Get(env, "ai", Get(file, "ai", FALSE)) = TRUE
                      \/ cfg'.profile = "hub" \/ arg = "hub" \/ Get(file, "profile", "") = "hub"
    BY <1>1 DEF ProcessingIsAsked, Asked
  <2>1. CASE "ai" \in DOMAIN env
    BY <1>2, <1>4, <1>5, <2>1 DEF Get
  <2>2. CASE "ai" \notin DOMAIN env
    <3>1. d.profile = "hub" \/ c.profile = "hub" \/ Get(file, "ai", FALSE)
      BY <1>2, <1>3, <1>4, <1>5, <2>2 DEF Get
    <3>2. c.profile = "hub" => FileProfile(file, q) = "hub"
      BY <1>3, NameIs
    <3>3. FileProfile(file, q) = "hub" =>
            d.profile = "hub" \/ arg = "hub" \/ Get(file, "profile", "") = "hub"
      <4>1. Get(env, "profile", "") = "hub" => d.profile = "hub"
        BY <1>2, <1>4, NameIs DEF Get
      <4>2. QED
        BY <4>1 DEF FileProfile, FirstProfile, q, Get
    <3>4. QED
      BY <1>5, <2>2, <3>1, <3>2, <3>3 DEF Get
  <2>3. QED
    BY <2>1, <2>2
<1>9. AuthIsKnown'
  <2>1. d.auth \in AuthModes \/ (Get(file, "pins", FALSE) /\ Get(env, "url", FALSE))
    BY <1>2, <1>3, <1>4 DEF EnvAuth
  <2>2. QED
    BY <1>1, <1>5, <2>1 DEF AuthIsKnown
<1>10. CacheHasModes'
  BY <1>2, <1>3, <1>4, <1>5 DEF CacheHasModes
<1>11. WorkerKeyIsNamed'
  <2>1. PICK g : g = cfg'
    OBVIOUS
  <2>2. HasSlice(g) /\ g.roles = c.roles
    BY <1>2, <1>4, <1>5, <2>1 DEF HasSlice
  <2>3. ResolveLlmSlice(g, "worker", Empty, Empty, Empty).key =
           Get(Get(g.models, "worker", Empty), "key",
               Get(Get(g.roles, "worker", Empty), "key", g.llm.key))
    BY <2>2, SliceKey
  <2>4. "worker" \in DOMAIN g.roles =>
          /\ "key" \in DOMAIN g.roles["worker"]
          /\ g.roles["worker"].key = Get(file.roles["worker"], "key", Get(file, "key", Default.llm.key))
    BY <1>3, <2>2 DEF RoleKey
  <2>5. Get(Get(g.roles, "worker", Empty), "key", g.llm.key) =
          IF "worker" \in DOMAIN g.roles
          THEN Get(file.roles["worker"], "key", Get(file, "key", Default.llm.key)) ELSE g.llm.key
    <3>1. CASE "worker" \in DOMAIN g.roles
      <4>1. Get(g.roles, "worker", Empty) = g.roles["worker"]
        BY <3>1 DEF Get
      <4>2. Get(g.roles["worker"], "key", g.llm.key) = g.roles["worker"].key
        BY <2>4, <3>1, Zenon DEF Get
      <4>3. QED
        BY <2>4, <3>1, <4>1, <4>2, Zenon
    <3>2. CASE "worker" \notin DOMAIN g.roles
      <4>1. Get(g.roles, "worker", Empty) = Empty
        BY <3>2 DEF Get
      <4>2. QED
        BY <3>2, <4>1, EmptyIs, Zenon
    <3>3. QED
      BY <3>1, <3>2
  <2> DEFINE model == Get(g.models, "worker", Empty)
             own == IF "worker" \in DOMAIN g.roles
                    THEN Get(file.roles["worker"], "key", Get(file, "key", Default.llm.key))
                    ELSE g.llm.key
  <2>6. Get(model, "key", own) = IF "key" \in DOMAIN model THEN model.key ELSE own
    BY Zenon DEF Get
  <2>7. ResolveLlmSlice(g, "worker", Empty, Empty, Empty).key =
          IF "key" \in DOMAIN model THEN model.key ELSE own
    BY <2>3, <2>5, <2>6, Zenon
  <2>8. QED
    BY <1>1, <2>1, <2>7, Zenon DEF WorkerKeyIsNamed
<1>12. QED
  BY <1>6, <1>7, <1>8, <1>9, <1>10, <1>11 DEF ConfigInv

(***************************************************************************)
(* Whatever the files, environments and profile arguments are: a loaded    *)
(* production configuration is secured, the profile is the one of          *)
(* precedence, results are processed only if something asks for it, the    *)
(* mode of authentication is known, a cache has its modes, and a worker    *)
(* gets the key that was named for it.                                     *)
(***************************************************************************)
THEOREM LoadedConfigIsSound == SetupSpec => []ConfigInv
<1>1. phase # "loaded" => ConfigInv
  BY DEF ConfigInv, ProductionIsSecure, ProfileByPrecedence, ProcessingIsAsked, AuthIsKnown,
         CacheHasModes, WorkerKeyIsNamed
<1>2. phase' # "loaded" => ConfigInv'
  BY DEF ConfigInv, ProductionIsSecure, ProfileByPrecedence, ProcessingIsAsked, AuthIsKnown,
         CacheHasModes, WorkerKeyIsNamed
<1>3. SetupInit => ConfigInv
  BY <1>1 DEF SetupInit
<1>4. ConfigInv /\ [SetupNext]_allVars => ConfigInv'
  <2> SUFFICES ASSUME ConfigInv, [SetupNext]_allVars PROVE ConfigInv'
    OBVIOUS
  <2>1. ASSUME NEW arg \in Profiles, NEW env \in Envs, NEW path \in {"none", "bad"},
               ResolveConfig(path, Empty, arg, env)
        PROVE  ConfigInv'
    BY <2>1, ConfigStep, EmptyIs, ClientSetupAssumption
  <2>2. ASSUME NEW arg \in Profiles, NEW env \in Envs, NEW file \in Files,
               ResolveConfig("file", file, arg, env)
        PROVE  ConfigInv'
    BY <2>2, ConfigStep, ClientSetupAssumption
  <2>3. CASE UNCHANGED allVars
    BY <2>3 DEF allVars, setupVars, ConfigInv, ProductionIsSecure, ProfileByPrecedence,
                ProcessingIsAsked, AuthIsKnown, CacheHasModes, WorkerKeyIsNamed, Asked
  <2>4. CASE phase' # "loaded"
    BY <1>2, <2>4
  <2>5. QED
    BY <2>1, <2>2, <2>3, <2>4
    DEF SetupNext, NewFails, NewRuntime, RunTurn, TurnEnds, Serve, Use, setupVars, ConfigInv,
        ProductionIsSecure, ProfileByPrecedence, ProcessingIsAsked, AuthIsKnown, CacheHasModes, WorkerKeyIsNamed, Asked
<1>5. QED
  BY <1>3, <1>4, PTL DEF SetupSpec
-----------------------------------------------------------------------------
(* Sequences of blocks *)

\* The sequence w is u, then v.
Joins(w, u, v) ==
  /\ Len(u) \in Nat /\ Len(v) \in Nat
  /\ IsSeq(w) /\ Len(w) = Len(u) + Len(v)
  /\ \A i \in 1..Len(u) : w[i] = u[i]
  /\ \A i \in 1..Len(v) : w[Len(u) + i] = v[i]
  /\ \A i \in 1..Len(w) : i \in 1..Len(u) \/ \E j \in 1..Len(v) : i = Len(u) + j

LEMMA ConcatIs == ASSUME NEW u, NEW v, IsSeq(u), IsSeq(v) PROVE Joins(u \o v, u, v)
<1>1. PICK S : S = {u[i] : i \in DOMAIN u} \cup {v[i] : i \in DOMAIN v}
  OBVIOUS
<1>2. u \in Seq(S) /\ v \in Seq(S)
  BY <1>1 DEF IsSeq
<1>3. PICK w : w = u \o v
  OBVIOUS
<1>4. /\ w \in Seq(S) /\ Len(w) = Len(u) + Len(v)
      /\ \A i \in 1..(Len(u) + Len(v)) : w[i] = IF i <= Len(u) THEN u[i] ELSE v[i - Len(u)]
  BY <1>2, <1>3, ConcatProperties, Zenon
<1>5. Len(u) \in Nat /\ Len(v) \in Nat
  BY <1>2
<1>6. IsSeq(w)
  <2>1. PICK R : R = {w[i] : i \in DOMAIN w}
    OBVIOUS
  <2>2. Len(w) \in Nat /\ w \in [1..Len(w) -> S]
    BY <1>4
  <2>3. w \in [1..Len(w) -> R]
    BY <2>1, <2>2
  <2>4. w \in Seq(R)
    BY <2>2, <2>3, SeqDef
  <2>5. QED
    BY <2>1, <2>4 DEF IsSeq
<1>7. \A i \in 1..Len(u) : w[i] = u[i]
  BY <1>4, <1>5
<1>8. \A i \in 1..Len(v) : w[Len(u) + i] = v[i]
  <2> SUFFICES ASSUME NEW i \in 1..Len(v) PROVE w[Len(u) + i] = v[i]
    OBVIOUS
  <2>1. PICK k : k = Len(u) + i
    OBVIOUS
  <2>2. k \in 1..(Len(u) + Len(v)) /\ ~(k <= Len(u)) /\ k - Len(u) = i
    BY <1>5, <2>1
  <2>3. QED
    BY <1>4, <2>1, <2>2, Zenon
<1>9. \A i \in 1..Len(w) : i \in 1..Len(u) \/ \E j \in 1..Len(v) : i = Len(u) + j
  <2> SUFFICES ASSUME NEW i \in 1..Len(w), i \notin 1..Len(u) PROVE \E j \in 1..Len(v) : i = Len(u) + j
    OBVIOUS
  <2>1. i - Len(u) \in 1..Len(v) /\ i = Len(u) + (i - Len(u))
    BY <1>4, <1>5
  <2>2. QED
    BY <2>1
<1>10. QED
  BY <1>3, <1>4, <1>5, <1>6, <1>7, <1>8, <1>9, Zenon DEF Joins

\* No block has the heading h; a single one has it, and is b.
Lacks(blocks, h) == \A i \in 1..Len(blocks) : blocks[i].h # h
HasOnly(blocks, h, b) == \E i \in 1..Len(blocks) : IsOnly(blocks, h, i) /\ blocks[i] = b

\* What holds of both parts holds of the whole.
LEMMA BothAre ==
  ASSUME NEW u, NEW v, IsSeq(u), IsSeq(v)
  PROVE  /\ WithinLimit(u) /\ WithinLimit(v) => WithinLimit(u \o v)
         /\ \A h : Lacks(u, h) /\ Lacks(v, h) => Lacks(u \o v, h)
<1>1. PICK w : w = u \o v /\ Joins(w, u, v)
  BY ConcatIs
<1>2. /\ \A i \in 1..Len(u) : w[i] = u[i]
      /\ \A i \in 1..Len(v) : w[Len(u) + i] = v[i]
      /\ \A i \in 1..Len(w) : i \in 1..Len(u) \/ \E j \in 1..Len(v) : i = Len(u) + j
  BY <1>1 DEF Joins
<1>3. WithinLimit(u) /\ WithinLimit(v) => WithinLimit(w)
  BY <1>2, Zenon DEF WithinLimit
<1>4. \A h : Lacks(u, h) /\ Lacks(v, h) => Lacks(w, h)
  BY <1>2, Zenon DEF Lacks
<1>5. QED
  BY <1>1, <1>3, <1>4, Zenon

\* The one block of a part is the one block of the whole.
LEMMA OnlyLeft ==
  ASSUME NEW u, NEW v, IsSeq(u), IsSeq(v), NEW h, NEW b, HasOnly(u, h, b), Lacks(v, h)
  PROVE  HasOnly(u \o v, h, b)
<1>1. PICK w : w = u \o v /\ Joins(w, u, v)
  BY ConcatIs
<1>2. /\ Len(u) \in Nat /\ Len(v) \in Nat /\ Len(w) = Len(u) + Len(v)
      /\ \A i \in 1..Len(u) : w[i] = u[i]
      /\ \A i \in 1..Len(v) : w[Len(u) + i] = v[i]
      /\ \A i \in 1..Len(w) : i \in 1..Len(u) \/ \E j \in 1..Len(v) : i = Len(u) + j
  BY <1>1 DEF Joins
<1>3. PICK i \in 1..Len(u) : IsOnly(u, h, i) /\ u[i] = b
  BY DEF HasOnly
<1>4. i \in 1..Len(w) /\ w[i] = b
  BY <1>2, <1>3
<1>5. \A j \in 1..Len(v) : Len(u) + j # i
  BY <1>2
<1>6. IsOnly(w, h, i)
  <2> SUFFICES ASSUME NEW j \in 1..Len(w) PROVE w[j].h = h <=> j = i
    BY DEF IsOnly
  <2>1. CASE j \in 1..Len(u)
    BY <1>2, <1>3, <2>1, Zenon DEF IsOnly
  <2>2. CASE \E k \in 1..Len(v) : j = Len(u) + k
    <3>1. PICK k \in 1..Len(v) : j = Len(u) + k
      BY <2>2
    <3>2. w[j].h # h
      BY <1>2, <3>1, Zenon DEF Lacks
    <3>3. QED
      BY <1>5, <3>1, <3>2
  <2>3. QED
    BY <1>2, <2>1, <2>2
<1>7. QED
  BY <1>1, <1>4, <1>6 DEF HasOnly

LEMMA OnlyRight ==
  ASSUME NEW u, NEW v, IsSeq(u), IsSeq(v), NEW h, NEW b, Lacks(u, h), HasOnly(v, h, b)
  PROVE  HasOnly(u \o v, h, b)
<1>1. PICK w : w = u \o v /\ Joins(w, u, v)
  BY ConcatIs
<1>2. /\ Len(u) \in Nat /\ Len(v) \in Nat /\ Len(w) = Len(u) + Len(v)
      /\ \A i \in 1..Len(u) : w[i] = u[i]
      /\ \A i \in 1..Len(v) : w[Len(u) + i] = v[i]
      /\ \A i \in 1..Len(w) : i \in 1..Len(u) \/ \E j \in 1..Len(v) : i = Len(u) + j
  BY <1>1 DEF Joins
<1>3. PICK i \in 1..Len(v) : IsOnly(v, h, i) /\ v[i] = b
  BY DEF HasOnly
<1>4. PICK k : k = Len(u) + i
  OBVIOUS
<1>5. k \in 1..Len(w) /\ w[k] = b
  BY <1>2, <1>3, <1>4
<1>6. /\ k \notin 1..Len(u)
      /\ \A j \in 1..Len(v) : Len(u) + j = k <=> j = i
  BY <1>2, <1>4
<1>7. IsOnly(w, h, k)
  <2> SUFFICES ASSUME NEW j \in 1..Len(w) PROVE w[j].h = h <=> j = k
    BY DEF IsOnly
  <2>1. CASE j \in 1..Len(u)
    BY <1>2, <1>6, <2>1, Zenon DEF Lacks
  <2>2. CASE \E n \in 1..Len(v) : j = Len(u) + n
    BY <1>2, <1>3, <1>6, <2>2, Zenon DEF IsOnly
  <2>3. QED
    BY <1>2, <2>1, <2>2
<1>8. QED
  BY <1>1, <1>5, <1>7 DEF HasOnly

\* A block of its own, and none.
LEMMA SingleIs ==
  ASSUME NEW b
  PROVE  /\ IsSeq(<<b>>) /\ <<b>> # <<>> /\ HasOnly(<<b>>, b.h, b)
         /\ \A h : b.h # h => Lacks(<<b>>, h)
         /\ b.words \in 0..HardWords => WithinLimit(<<b>>)
<1>1. PICK u : u = <<b>>
  OBVIOUS
<1>2. Len(u) = 1 /\ DOMAIN u = {1} /\ u[1] = b /\ u # <<>> /\ 1..Len(u) = {1}
  BY <1>1
<1>3. {u[i] : i \in DOMAIN u} = {b}
  BY <1>2
<1>4. u \in Seq({b})
  BY <1>1
<1>5. IsSeq(u)
  BY <1>3, <1>4, Zenon DEF IsSeq
<1>6. QED
  BY <1>1, <1>2, <1>5, Zenon DEF HasOnly, IsOnly, Lacks, WithinLimit

LEMMA NothingIs == IsSeq(<<>>) /\ WithinLimit(<<>>) /\ \A h : Lacks(<<>>, h)
<1>1. PICK u : u = <<>>
  OBVIOUS
<1>2. Len(u) = 0 /\ DOMAIN u = {} /\ 1..Len(u) = {}
  BY <1>1
<1>3. {u[i] : i \in DOMAIN u} = {}
  BY <1>2
<1>4. u \in Seq({})
  BY <1>1
<1>5. IsSeq(u)
  BY <1>3, <1>4, Zenon DEF IsSeq
<1>6. QED
  BY <1>1, <1>2, <1>5, Zenon DEF Lacks, WithinLimit
-----------------------------------------------------------------------------
(* The settings of a turn *)

LEMMA OnErrorZero == Zero("onError") = ""
  BY DEF Zero, Flags

LEMMA CompanyZero == Zero("company") = 0
  BY DEF Zero, Flags

\* An overlay on top of itself is itself, and it is never zero.
LEMMA OverlayAgain ==
  ASSUME NEW s, IsSettings(s), NEW req,
         NEW cs, cs = OverlaySettings(s, req) \/ cs = s
  PROVE  /\ MergeTurnSettings(s, cs) = FillTurnSettings(cs)
         /\ cs = [f \in DOMAIN DefaultSettings |-> cs[f]]
         /\ req.company \in Nat => cs.company \in Nat
<1>1. PICK D : D = DOMAIN DefaultSettings
  OBVIOUS
<1>2. DOMAIN s = D /\ s = [f \in D |-> s[f]] /\ {"onError", "company"} \subseteq D
  BY <1>1, FieldsAre DEF IsSettings
<1>3. /\ cs = [f \in D |-> cs[f]] /\ DOMAIN cs = D
      /\ \A f \in D : f \notin Flags /\ cs[f] = Zero(f) => s[f] = Zero(f)
  <2>1. CASE cs = OverlaySettings(s, req)
    BY <1>2, <2>1 DEF OverlaySettings
  <2>2. CASE cs = s
    BY <1>2, <2>2
  <2>3. QED
    BY <2>1, <2>2
<1>4. "onError" \notin Flags /\ "company" \notin Flags
  BY DEF Flags
<1>5. cs["onError"] # ""
  BY <1>2, <1>3, <1>4, OnErrorZero DEF IsSettings
<1>6. ~IsZero(cs)
  BY <1>2, <1>3, <1>5, OnErrorZero DEF IsZero
<1>7. [f \in DOMAIN s |-> IF f \notin Flags /\ cs[f] = Zero(f) THEN s[f] ELSE cs[f]] = cs
  BY <1>2, <1>3
<1>8. MergeTurnSettings(s, cs) = FillTurnSettings(cs)
  BY <1>6, <1>7, Zenon DEF MergeTurnSettings
<1>9. req.company \in Nat => cs.company \in Nat
  BY <1>2, <1>4, CompanyZero DEF OverlaySettings, IsSettings
<1>10. QED
  BY <1>1, <1>3, <1>8, <1>9, Zenon

\* What filling leaves alone.
LEMMA FillIs ==
  ASSUME NEW s, s = [f \in DOMAIN DefaultSettings |-> s[f]]
  PROVE  LET w == FillTurnSettings(s)
         IN  w = [f \in DOMAIN DefaultSettings |-> w[f]] /\ w.company = s.company
  BY FieldsAre DEF FillTurnSettings

-----------------------------------------------------------------------------
(* Rules *)

\* The pack w is q on top of p.
IsOnto(w, p, q) ==
  /\ DOMAIN w = DOMAIN p \cup DOMAIN q /\ w = [k \in DOMAIN w |-> w[k]]
  /\ \A k \in DOMAIN q : w[k] = q[k]
  /\ \A k \in DOMAIN p \ DOMAIN q : w[k] = p[k]

LEMMA OntoIs == ASSUME NEW p, NEW q PROVE IsOnto(Onto(p, q), p, q)
  BY DEF Onto, IsOnto

\* What of the request's rules goes on top.
IsFiltered(f, request, override) ==
  /\ \A k : k \in DOMAIN f <=>
              k \in DOMAIN request /\ (override \/ (k \notin JailbreakRuleIDs /\ ~Blank(request[k])))
  /\ \A k \in DOMAIN f : f[k] = request[k]

LEMMA FilteredIs ==
  ASSUME NEW request, NEW override
  PROVE  IsFiltered(Filtered(request, override), request, override)
<1>1. PICK K : K = {k \in DOMAIN request : override \/ (k \notin JailbreakRuleIDs /\ ~Blank(request[k]))}
  OBVIOUS
<1>2. PICK f : f = Filtered(request, override)
  OBVIOUS
<1>3. f = [k \in K |-> request[k]]
  BY <1>1, <1>2, Zenon DEF Filtered
<1>4. DOMAIN f = K /\ \A k \in K : f[k] = request[k]
  BY <1>3
<1>5. \A k : k \in K <=>
        k \in DOMAIN request /\ (override \/ (k \notin JailbreakRuleIDs /\ ~Blank(request[k])))
  BY <1>1, Zenon
<1>6. QED
  BY <1>2, <1>4, <1>5, Zenon DEF IsFiltered

\* The pack that a merge makes.
Pack(tenant, request, override) ==
  Onto(Onto(SDKDefaultJailbreakRules, tenant), Filtered(request, override))

LEMMA MergeIs ==
  ASSUME NEW tenant, NEW request, NEW override
  PROVE  LET m == MergeRules(tenant, request, override)
         IN  /\ m.err = IF ~override /\ Clears(request) THEN "invalid_argument" ELSE "none"
             /\ m.err = "none" => m.pack = Pack(tenant, request, override)
  BY DEF MergeRules, Pack

\* Each of the SDK's ids is in the pack, with its text or the tenant's.
LEMMA PackIs ==
  ASSUME NEW tenant, NEW request, NEW override
  PROVE  /\ JailbreakRuleIDs \subseteq DOMAIN Pack(tenant, request, override)
         /\ \A k \in JailbreakRuleIDs :
              ~override => Pack(tenant, request, override)[k] = Get(tenant, k, "sdk")
<1>1. PICK p, f, b : /\ p = Pack(tenant, request, override) /\ f = Filtered(request, override)
                     /\ b = Onto(SDKDefaultJailbreakRules, tenant)
  OBVIOUS
<1>2. DOMAIN SDKDefaultJailbreakRules = JailbreakRuleIDs
      /\ \A k \in JailbreakRuleIDs : SDKDefaultJailbreakRules[k] = "sdk"
  BY DEF SDKDefaultJailbreakRules
<1>3. IsOnto(b, SDKDefaultJailbreakRules, tenant) /\ IsFiltered(f, request, override)
  BY <1>1, OntoIs, FilteredIs
<1>4. /\ DOMAIN b = JailbreakRuleIDs \cup DOMAIN tenant
       /\ \A k \in JailbreakRuleIDs : b[k] = Get(tenant, k, "sdk")
  BY <1>2, <1>3 DEF Get, IsOnto
<1>5. IsOnto(p, b, f)
  BY <1>1, OntoIs DEF Pack
<1>6. DOMAIN p = DOMAIN b \cup DOMAIN f /\ \A k \in DOMAIN b \ DOMAIN f : p[k] = b[k]
  BY <1>5 DEF IsOnto
<1>7. \A k \in JailbreakRuleIDs : ~override => k \notin DOMAIN f
  BY <1>3, Zenon DEF IsFiltered
<1>8. QED
  BY <1>1, <1>4, <1>6, <1>7

\* A pack that is merged again, with the same tenant's rules, is itself.
LEMMA PackAgain ==
  ASSUME NEW tenant, NEW request, NEW override
  PROVE  LET p == Pack(tenant, request, override)
         IN  Pack(tenant, p, override) = p
<1>1. PICK p, f, b : /\ p = Pack(tenant, request, override) /\ f = Filtered(request, override)
                     /\ b = Onto(SDKDefaultJailbreakRules, tenant)
  OBVIOUS
<1>2. PICK g, q : g = Filtered(p, override) /\ q = Pack(tenant, p, override)
  OBVIOUS
<1>3. /\ IsOnto(p, b, f) /\ IsOnto(q, b, g)
      /\ IsFiltered(f, request, override) /\ IsFiltered(g, p, override)
  BY <1>1, <1>2, OntoIs, FilteredIs DEF Pack
<1>4. /\ DOMAIN p = DOMAIN b \cup DOMAIN f /\ p = [k \in DOMAIN p |-> p[k]]
      /\ \A k \in DOMAIN f : p[k] = f[k]
      /\ \A k \in DOMAIN b \ DOMAIN f : p[k] = b[k]
  BY <1>3 DEF IsOnto
<1>5. /\ DOMAIN q = DOMAIN b \cup DOMAIN g /\ q = [k \in DOMAIN q |-> q[k]]
      /\ \A k \in DOMAIN g : q[k] = g[k]
      /\ \A k \in DOMAIN b \ DOMAIN g : q[k] = b[k]
  BY <1>3 DEF IsOnto
<1>6. /\ \A k : k \in DOMAIN f <=>
                  k \in DOMAIN request /\ (override \/ (k \notin JailbreakRuleIDs /\ ~Blank(request[k])))
      /\ \A k \in DOMAIN f : f[k] = request[k]
  BY <1>3, Zenon DEF IsFiltered
<1>7. /\ \A k : k \in DOMAIN g <=>
                  k \in DOMAIN p /\ (override \/ (k \notin JailbreakRuleIDs /\ ~Blank(p[k])))
      /\ \A k \in DOMAIN g : g[k] = p[k]
  BY <1>3, Zenon DEF IsFiltered
<1>8. \A k \in DOMAIN f : k \in DOMAIN g
  BY <1>4, <1>6, <1>7, Zenon DEF Blank
<1>9. DOMAIN q = DOMAIN p
  BY <1>4, <1>5, <1>7, <1>8
<1>10. \A k \in DOMAIN p : q[k] = p[k]
  BY <1>4, <1>5, <1>7, <1>8
<1>11. q = p
  BY <1>4, <1>5, <1>9, <1>10
<1>12. QED
  BY <1>1, <1>2, <1>11, Zenon
-----------------------------------------------------------------------------
(* Prepared settings *)

LEMMA TruncateIs ==
  ASSUME NEW n
  PROVE  /\ TruncateCompanyContext(TruncateCompanyContext(n)) = TruncateCompanyContext(n)
         /\ n \in Nat => TruncateCompanyContext(n) \in 0..HardWords
<1>1. ~(HardWords > HardWords) /\ HardWords \in Nat
  BY TurnSettingsAssumption
<1>2. TruncateCompanyContext(TruncateCompanyContext(n)) = TruncateCompanyContext(n)
  BY <1>1, Zenon DEF TruncateCompanyContext
<1>3. n \in Nat => TruncateCompanyContext(n) \in 0..HardWords
  BY <1>1 DEF TruncateCompanyContext
<1>4. QED
  BY <1>2, <1>3

LEMMA PrepareIs ==
  ASSUME NEW s, s = [f \in DOMAIN DefaultSettings |-> s[f]]
  PROVE  LET p == PrepareSettings(s)
             t == p.settings
         IN  /\ \A f \in DOMAIN DefaultSettings \ {"rules", "rid", "company"} : t[f] = s[f]
             /\ t = [f \in DOMAIN DefaultSettings |-> t[f]]
             /\ t.company \in {s.company, TruncateCompanyContext(s.company)}
             /\ p.err # "none" => t = s
             /\ p.err = "none" =>
                  /\ ValidateOutputRequest(s.output)
                  /\ t.rules = Pack(s.tenant, s.rules, s.override)
                  /\ t.rid = IF s.rid = NoId THEN RulesetIDFor(t.rules) ELSE s.rid
                  /\ t.company = TruncateCompanyContext(s.company)
<1> DEFINE f == FreezeSessionRules(s)
           p == PrepareSettings(s)
           t == p.settings
<1>1. PICK m : m = MergeRules(s.tenant, s.rules, s.override)
  OBVIOUS
<1>2. m.err = "none" => m.pack = Pack(s.tenant, s.rules, s.override)
  BY <1>1, MergeIs
<1>3. f.err = m.err /\ f.pack = m.pack /\ f.rid = IF s.rid = NoId THEN RulesetIDFor(m.pack) ELSE s.rid
  BY <1>1 DEF FreezeSessionRules
<1> HIDE DEF f
<1>4. CASE ValidateOutputRequest(s.output) /\ f.err = "none"
  <2>1. PICK c : c = TruncateCompanyContext(s.company)
    OBVIOUS
  <2>2. p.err = "none" /\ t = [s EXCEPT !.rules = f.pack, !.rid = f.rid, !.company = c]
    BY <1>4, <2>1 DEF PrepareSettings, f
  <2> HIDE DEF p
  <2>3. /\ t = [g \in DOMAIN DefaultSettings |-> t[g]]
        /\ \A g \in DOMAIN DefaultSettings \ {"rules", "rid", "company"} : t[g] = s[g]
        /\ t.rules = f.pack /\ t.rid = f.rid /\ t.company = c
    BY <2>2, FieldsAre
  <2>4. QED
    BY <1>2, <1>3, <1>4, <2>1, <2>2, <2>3, Zenon DEF p
<1>5. CASE ~(ValidateOutputRequest(s.output) /\ f.err = "none")
  <2>1. p.err # "none" /\ t = s
    BY <1>5 DEF PrepareSettings, f
  <2> HIDE DEF p
  <2>2. QED
    BY <2>1, Zenon DEF p
<1>6. QED
  BY <1>4, <1>5

\* Settings that were prepared are prepared to themselves.
LEMMA PrepareAgain ==
  ASSUME NEW s, s = [f \in DOMAIN DefaultSettings |-> s[f]], PrepareSettings(s).err = "none"
  PROVE  LET t == PrepareSettings(s).settings
         IN  PrepareSettings(t).settings = t
<1>1. PICK t : t = PrepareSettings(s).settings
  OBVIOUS
<1>2. PICK p, u : p = PrepareSettings(t) /\ u = p.settings
  OBVIOUS
<1>3. /\ t = [f \in DOMAIN DefaultSettings |-> t[f]]
      /\ t.tenant = s.tenant /\ t.override = s.override
      /\ t.rules = Pack(s.tenant, s.rules, s.override)
      /\ t.rid = IF s.rid = NoId THEN RulesetIDFor(t.rules) ELSE s.rid
      /\ t.company = TruncateCompanyContext(s.company)
  BY <1>1, PrepareIs, FieldsAre
<1>4. /\ \A f \in DOMAIN DefaultSettings \ {"rules", "rid", "company"} : u[f] = t[f]
      /\ u = [f \in DOMAIN DefaultSettings |-> u[f]]
      /\ p.err # "none" => u = t
      /\ p.err = "none" =>
           /\ u.rules = Pack(t.tenant, t.rules, t.override)
           /\ u.rid = IF t.rid = NoId THEN RulesetIDFor(u.rules) ELSE t.rid
           /\ u.company = TruncateCompanyContext(t.company)
  BY <1>2, <1>3, PrepareIs
<1>5. CASE p.err = "none"
  <2>1. u.rules = t.rules
    BY <1>3, <1>4, <1>5, PackAgain
  <2>2. u.rid = t.rid
    BY <1>3, <1>4, <1>5, <2>1
  <2>3. u.company = t.company
    BY <1>3, <1>4, <1>5, TruncateIs
  <2>4. \A f \in DOMAIN DefaultSettings : u[f] = t[f]
    BY <1>4, <2>1, <2>2, <2>3
  <2>5. u = t
    BY <1>3, <1>4, <2>4
  <2>6. QED
    BY <1>1, <1>2, <2>5
<1>6. QED
  BY <1>1, <1>2, <1>4, <1>5, Zenon
-----------------------------------------------------------------------------
(* The inject *)

\* Surfaces and chat requests as they come and as the inject leaves them.
IsBlocks(b) == IsSeq(b) /\ WithinLimit(b)
IsSurface(x) ==
  /\ x = [text |-> x.text, brief |-> x.brief, ws |-> x.ws, blocks |-> x.blocks]
  /\ IsBlocks(x.blocks)
IsDoc(doc) ==
  /\ doc = [s \in DOMAIN doc |-> doc[s]]
  /\ \A s \in DOMAIN doc : IsSurface(doc[s])

\* The surface y is x, or x with the block behind its brief.
After(y, x, block) ==
  /\ IsSurface(y) /\ y.text = x.text /\ y.brief = x.brief
  /\ ~x.text \/ ~x.brief \/ HasHeading(x, block[1].h) => y = x
  /\ x.text /\ x.brief /\ ~HasHeading(x, block[1].h) => y.blocks = x.blocks \o block
  /\ \A h : HasHeading(x, h) => HasHeading(y, h)
  /\ x.text /\ x.brief => HasHeading(y, block[1].h)

LEMMA AfterIs ==
  ASSUME NEW x, IsSurface(x), NEW block, IsBlocks(block), block # <<>>
  PROVE  After(SpliceAfterBrief(x, block), x, block)
<1>1. CASE ~x.text \/ ~x.brief \/ HasHeading(x, block[1].h)
  <2>1. SpliceAfterBrief(x, block) = x
    BY <1>1 DEF SpliceAfterBrief
  <2>2. QED
    BY <1>1, <2>1 DEF After
<1>2. CASE ~(~x.text \/ ~x.brief \/ HasHeading(x, block[1].h))
  <2>1. PICK u : u = x.blocks
    OBVIOUS
  <2>2. PICK w : w = u \o block /\ Joins(w, u, block) /\ WithinLimit(w)
    BY <2>1, ConcatIs, BothAre DEF IsSurface, IsBlocks
  <2>3. PICK y : y = [x EXCEPT !.ws = FALSE, !.blocks = w]
    OBVIOUS
  <2>4. y = SpliceAfterBrief(x, block)
    BY <1>2, <2>1, <2>2, <2>3, Zenon DEF SpliceAfterBrief
  <2>5. x = [text |-> x.text, brief |-> x.brief, ws |-> x.ws, blocks |-> x.blocks]
    BY DEF IsSurface
  <2>6. y = [text |-> x.text, brief |-> x.brief, ws |-> FALSE, blocks |-> w]
    BY <2>3, <2>5
  <2>7. /\ y.text = x.text /\ y.brief = x.brief /\ y.blocks = w
        /\ y = [text |-> y.text, brief |-> y.brief, ws |-> y.ws, blocks |-> y.blocks]
    BY <2>6
  <2>8. IsSurface(y)
    BY <2>2, <2>7 DEF IsSurface, IsBlocks, Joins
  <2>9. \A h : HasHeading(x, h) => HasHeading(y, h)
    <3>1. /\ \A i \in 1..Len(u) : w[i] = u[i]
          /\ \A i \in 1..Len(u) : i \in 1..Len(w)
      BY <2>2 DEF Joins
    <3>2. QED
      BY <2>1, <2>7, <3>1, Zenon DEF HasHeading
  <2>10. HasHeading(y, block[1].h)
    <3>1. Len(block) \in Nat /\ Len(block) # 0
      BY EmptySeq DEF IsBlocks, IsSeq
    <3>2. PICK n : n = Len(u) + 1
      OBVIOUS
    <3>3. 1 \in 1..Len(block) /\ n \in 1..Len(w)
      BY <2>2, <3>1, <3>2 DEF Joins
    <3>4. w[n] = block[1]
      BY <2>2, <3>2, <3>3 DEF Joins
    <3>5. QED
      BY <2>7, <3>3, <3>4, Zenon DEF HasHeading
  <2>11. QED
    BY <1>2, <2>1, <2>2, <2>4, <2>7, <2>8, <2>9, <2>10, Zenon DEF After
<1>3. QED
  BY <1>1, <1>2

\* The block needs no splice, or has no place.
Settled(doc, block) == block = <<>> \/ ~DocHasBriefMarker(doc) \/ DocHasHeading(doc, block[1].h)

\* The chat request e is doc, or doc with the block in its surfaces.
Spliced(e, doc, block) ==
  /\ IsDoc(e) /\ DOMAIN e = DOMAIN doc
  /\ \A s \in DOMAIN doc : e[s].text = doc[s].text /\ e[s].brief = doc[s].brief
  /\ \A s \in DOMAIN doc : ~doc[s].brief => e[s] = doc[s]
  /\ \A s \in DOMAIN doc : \A h : HasHeading(doc[s], h) => HasHeading(e[s], h)
  /\ Settled(doc, block) => e = doc
  /\ ~Settled(doc, block) => \A s \in DOMAIN doc : After(e[s], doc[s], block)

LEMMA SplicedIs ==
  ASSUME NEW doc, IsDoc(doc), NEW block, IsBlocks(block)
  PROVE  Spliced(SpliceChatReq(doc, block), doc, block)
<1>1. CASE Settled(doc, block)
  BY <1>1 DEF Settled, SpliceChatReq, Spliced
<1>2. CASE ~Settled(doc, block)
  <2>1. PICK e : e = [s \in DOMAIN doc |-> SpliceAfterBrief(doc[s], block)]
    OBVIOUS
  <2>2. SpliceChatReq(doc, block) = e
    BY <1>2, <2>1 DEF Settled, SpliceChatReq
  <2>3. block # <<>>
    BY <1>2 DEF Settled
  <2>4. DOMAIN e = DOMAIN doc /\ e = [s \in DOMAIN e |-> e[s]]
    BY <2>1
  <2>5. \A s \in DOMAIN doc : After(e[s], doc[s], block)
    BY <2>1, <2>3, AfterIs DEF IsDoc
  <2>6. \A s \in DOMAIN doc :
          /\ IsSurface(e[s]) /\ e[s].text = doc[s].text /\ e[s].brief = doc[s].brief
          /\ ~doc[s].brief => e[s] = doc[s]
          /\ \A h : HasHeading(doc[s], h) => HasHeading(e[s], h)
    BY <2>5, Zenon DEF After
  <2>7. QED
    BY <1>2, <2>2, <2>4, <2>5, <2>6, Zenon DEF Spliced, IsDoc
<1>3. QED
  BY <1>1, <1>2

\* After a splice its block is settled, and every block that was before.
LEMMA SplicedSettles ==
  ASSUME NEW e, NEW doc, NEW block, Spliced(e, doc, block)
  PROVE  /\ Settled(e, block)
         /\ \A b : Settled(doc, b) => Settled(e, b)
<1>1. /\ DOMAIN e = DOMAIN doc
      /\ \A s \in DOMAIN doc : e[s].text = doc[s].text /\ e[s].brief = doc[s].brief
      /\ \A s \in DOMAIN doc : \A h : HasHeading(doc[s], h) => HasHeading(e[s], h)
  BY DEF Spliced
<1>2. DocHasBriefMarker(e) => DocHasBriefMarker(doc)
  BY <1>1 DEF DocHasBriefMarker
<1>3. \A h : DocHasHeading(doc, h) => DocHasHeading(e, h)
  BY <1>1, Zenon DEF DocHasHeading
<1>4. \A b : Settled(doc, b) => Settled(e, b)
  BY <1>2, <1>3, Zenon DEF Settled
<1>5. ASSUME ~Settled(doc, block) PROVE Settled(e, block)
  <2>1. PICK s \in DOMAIN doc : doc[s].text /\ doc[s].brief
    BY <1>5 DEF Settled, DocHasBriefMarker
  <2>2. HasHeading(e[s], block[1].h)
    BY <1>5, <2>1, Zenon DEF Spliced, After
  <2>3. QED
    BY <1>1, <2>1, <2>2, Zenon DEF Settled, DocHasHeading
<1>6. QED
  BY <1>4, <1>5

\* What the sections render.
LEMMA SectionsAre ==
  ASSUME NEW s, s.company \in Nat
  PROVE  /\ IsBlocks(RenderCompanyContext(s)) /\ IsBlocks(RenderSettingsMeta(s))
         /\ IsBlocks(RenderRulesBlock(s)) /\ IsBlocks(RenderOutputRequestBlock(s))
         /\ \A h \in {"rules", "tool"} :
              /\ Lacks(RenderCompanyContext(s), h) /\ Lacks(RenderSettingsMeta(s), h)
              /\ Lacks(RenderOutputRequestBlock(s), h)
         /\ Lacks(RenderRulesBlock(s), "tool")
         /\ s.rules # NoRules =>
              HasOnly(RenderRulesBlock(s), "rules", [Block("rules") EXCEPT !.rules = s.rules])
<1>1. \A h : Block(h).h = h /\ Block(h).words = 0
  BY DEF Block
<1>2. 0 \in 0..HardWords
  BY TurnSettingsAssumption
<1>3. IsBlocks(<<>>) /\ \A h : Lacks(<<>>, h)
  BY NothingIs DEF IsBlocks
<1>4. ASSUME NEW b, b.words \in 0..HardWords
      PROVE  IsBlocks(<<b>>) /\ HasOnly(<<b>>, b.h, b) /\ \A h : b.h # h => Lacks(<<b>>, h)
  BY <1>4, SingleIs DEF IsBlocks
<1>5. /\ IsBlocks(RenderCompanyContext(s))
      /\ Lacks(RenderCompanyContext(s), "rules") /\ Lacks(RenderCompanyContext(s), "tool")
  <2>1. PICK n, b : n = TruncateCompanyContext(s.company) /\ b = [Block("company") EXCEPT !.words = n]
    OBVIOUS
  <2>2. b.h = "company" /\ b.words = n
    BY <2>1 DEF Block
  <2>3. n \in 0..HardWords
    BY <2>1, TruncateIs
  <2>4. RenderCompanyContext(s) = IF s.company = 0 THEN <<>> ELSE <<b>>
    BY <2>1 DEF RenderCompanyContext
  <2>5. QED
    BY <1>3, <1>4, <2>2, <2>3, <2>4
<1>6. /\ IsBlocks(RenderSettingsMeta(s))
      /\ Lacks(RenderSettingsMeta(s), "rules") /\ Lacks(RenderSettingsMeta(s), "tool")
  <2>1. PICK b : b = [Block("settings") EXCEPT !.rid = s.rid]
    OBVIOUS
  <2>2. b.h = "settings" /\ b.words = 0
    BY <2>1 DEF Block
  <2>3. IsBlocks(<<b>>) /\ HasOnly(<<b>>, b.h, b) /\ \A h : b.h # h => Lacks(<<b>>, h)
    BY <1>2, <1>4, <2>2
  <2>4. Lacks(<<b>>, "rules") /\ Lacks(<<b>>, "tool")
    BY <2>2, <2>3
  <2>5. RenderSettingsMeta(s) = <<>> \/ RenderSettingsMeta(s) = <<b>>
    BY <2>1 DEF RenderSettingsMeta
  <2>6. QED
    BY <1>3, <2>5, <2>3, <2>4, Zenon
<1>7. /\ IsBlocks(RenderRulesBlock(s)) /\ Lacks(RenderRulesBlock(s), "tool")
      /\ s.rules # NoRules =>
           HasOnly(RenderRulesBlock(s), "rules", [Block("rules") EXCEPT !.rules = s.rules])
  <2>1. PICK b : b = [Block("rules") EXCEPT !.rules = s.rules]
    OBVIOUS
  <2>2. b.h = "rules" /\ b.words = 0
    BY <2>1 DEF Block
  <2>3. IsBlocks(<<b>>) /\ HasOnly(<<b>>, b.h, b) /\ \A h : b.h # h => Lacks(<<b>>, h)
    BY <1>2, <1>4, <2>2
  <2>4. RenderRulesBlock(s) = IF s.rules = NoRules THEN <<>> ELSE <<b>>
    BY <2>1 DEF RenderRulesBlock
  <2>5. QED
    BY <1>3, <2>1, <2>2, <2>4, <2>3
<1>8. /\ IsBlocks(RenderOutputRequestBlock(s))
      /\ Lacks(RenderOutputRequestBlock(s), "rules") /\ Lacks(RenderOutputRequestBlock(s), "tool")
  <2>1. PICK b : b = Block("output")
    OBVIOUS
  <2>2. b.h = "output" /\ b.words = 0
    BY <1>1, <2>1
  <2>3. RenderOutputRequestBlock(s) = IF s.output = "nil" THEN <<>> ELSE <<b>>
    BY <2>1 DEF RenderOutputRequestBlock
  <2>4. QED
    BY <1>2, <1>3, <1>4, <2>2, <2>3
<1>9. QED
  BY <1>5, <1>6, <1>7, <1>8

\* What is injected: the rules once, unless there are none, and never the tool path.
LEMMA BuildIs ==
  ASSUME NEW s, s.company \in Nat
  PROVE  /\ IsBlocks(BuildInjectBlock(s)) /\ Lacks(BuildInjectBlock(s), "tool")
         /\ s.rules # NoRules =>
              HasOnly(BuildInjectBlock(s), "rules", [Block("rules") EXCEPT !.rules = s.rules])
<1>1. PICK c, m, r, o, b :
        /\ c = RenderCompanyContext(s) /\ m = RenderSettingsMeta(s)
        /\ r = RenderRulesBlock(s) /\ o = RenderOutputRequestBlock(s)
        /\ b = [Block("rules") EXCEPT !.rules = s.rules]
  OBVIOUS
<1>2. /\ IsBlocks(c) /\ IsBlocks(m) /\ IsBlocks(r) /\ IsBlocks(o)
      /\ Lacks(c, "rules") /\ Lacks(m, "rules") /\ Lacks(o, "rules")
      /\ Lacks(c, "tool") /\ Lacks(m, "tool") /\ Lacks(o, "tool") /\ Lacks(r, "tool")
      /\ s.rules # NoRules => HasOnly(r, "rules", b)
  BY <1>1, SectionsAre, Zenon
<1>3. ASSUME NEW u, NEW v, IsBlocks(u), IsBlocks(v)
      PROVE  IsBlocks(u \o v)
  BY <1>3, ConcatIs, BothAre DEF IsBlocks, Joins
<1>4. ASSUME NEW u, NEW v, NEW h, IsBlocks(u), IsBlocks(v), Lacks(u, h), Lacks(v, h)
      PROVE  Lacks(u \o v, h)
  BY <1>4, BothAre DEF IsBlocks
<1>5. ASSUME NEW u, NEW v, NEW h, IsBlocks(u), IsBlocks(v)
       PROVE  /\ HasOnly(u, h, b) /\ Lacks(v, h) => HasOnly(u \o v, h, b)
              /\ Lacks(u, h) /\ HasOnly(v, h, b) => HasOnly(u \o v, h, b)
  BY <1>5, OnlyLeft, OnlyRight DEF IsBlocks
<1>6. PICK x : x = c \o m /\ IsBlocks(x) /\ Lacks(x, "rules") /\ Lacks(x, "tool")
  BY <1>2, <1>3, <1>4
<1>7. PICK y : y = x \o r /\ IsBlocks(y) /\ Lacks(y, "tool") /\ (s.rules # NoRules => HasOnly(y, "rules", b))
  <2>1. IsBlocks(x \o r)
    BY <1>2, <1>3, <1>6
  <2>2. Lacks(x \o r, "tool")
    BY <1>2, <1>4, <1>6
  <2>3. s.rules # NoRules => HasOnly(x \o r, "rules", b)
    BY <1>2, <1>6, <1>5
  <2>4. QED
    BY <2>1, <2>2, <2>3, Zenon
<1>8. PICK z : z = y \o o /\ IsBlocks(z) /\ Lacks(z, "tool") /\ (s.rules # NoRules => HasOnly(z, "rules", b))
  <2>1. IsBlocks(y \o o)
    BY <1>2, <1>3, <1>7
  <2>2. Lacks(y \o o, "tool")
    BY <1>2, <1>4, <1>7
  <2>3. s.rules # NoRules => HasOnly(y \o o, "rules", b)
    BY <1>2, <1>7, <1>5
  <2>4. QED
    BY <2>1, <2>2, <2>3, Zenon
<1>9. z = BuildInjectBlock(s)
  BY <1>1, <1>6, <1>7, <1>8, Zenon DEF BuildInjectBlock
<1>10. QED
  BY <1>1, <1>8, <1>9, Zenon

LEMMA ToolIs ==
  ASSUME NEW ignore
  PROVE  LET b == [Block("tool") EXCEPT !.tool = IF ignore THEN "ignore" ELSE "honor"]
             t == RenderToolPathPolicy(ignore)
         IN  /\ t = <<b>> /\ b.tool = (IF ignore THEN "ignore" ELSE "honor") /\ t[1].h = "tool" /\ t # <<>>
             /\ IsBlocks(t) /\ HasOnly(t, "tool", b) /\ Lacks(t, "rules")
<1>1. PICK v : v = IF ignore THEN "ignore" ELSE "honor"
  OBVIOUS
<1>2. PICK b : b = [Block("tool") EXCEPT !.tool = v]
  OBVIOUS
<1>3. b.h = "tool" /\ b.words = 0 /\ b.tool = v
  BY <1>2 DEF Block
<1>4. 0 \in 0..HardWords
  BY TurnSettingsAssumption
<1>5. /\ IsSeq(<<b>>) /\ <<b>> # <<>> /\ HasOnly(<<b>>, b.h, b)
      /\ Lacks(<<b>>, "rules") /\ WithinLimit(<<b>>)
  BY <1>3, <1>4, SingleIs
<1>6. RenderToolPathPolicy(ignore) = <<b>> /\ <<b>>[1] = b
  BY <1>1, <1>2 DEF RenderToolPathPolicy
<1>7. QED
  BY <1>1, <1>2, <1>3, <1>5, <1>6, Zenon DEF IsBlocks

\* The chat request that a turn sends.
LEMMA InjectIs ==
  ASSUME NEW doc, IsDoc(doc), NEW s, s.company \in Nat
  PROVE  \E e :
           /\ Spliced(e, doc, BuildInjectBlock(s))
           /\ Spliced(InjectBagB(doc, s), e, RenderToolPathPolicy(s.ignore))
<1>1. PICK e : e = SpliceChatReq(doc, BuildInjectBlock(s))
  OBVIOUS
<1>2. Spliced(e, doc, BuildInjectBlock(s))
  BY <1>1, BuildIs, SplicedIs
<1>3. InjectBagB(doc, s) = SpliceChatReq(e, RenderToolPathPolicy(s.ignore))
  BY <1>1 DEF InjectBagB
<1>4. IsDoc(e) /\ IsBlocks(RenderToolPathPolicy(s.ignore))
  BY <1>2, ToolIs DEF Spliced
<1>5. QED
  BY <1>2, <1>3, <1>4, SplicedIs

\* A second inject of the same settings changes nothing, and neither changes the
\* contract or breaks the limit.
LEMMA InjectAgain ==
  ASSUME NEW doc, IsDoc(doc), NEW s, s.company \in Nat
  PROVE  LET a == InjectBagB(doc, s)
         IN  InjectBagB(a, s) = a /\ HashedText(a) = HashedText(doc) /\ IsDoc(a)
<1>1. PICK a, b, t : /\ a = InjectBagB(doc, s) /\ b = BuildInjectBlock(s)
                     /\ t = RenderToolPathPolicy(s.ignore)
  OBVIOUS
<1>2. PICK e : Spliced(e, doc, b) /\ Spliced(a, e, t)
  BY <1>1, InjectIs, Zenon
<1>3. Settled(a, b) /\ Settled(a, t)
  BY <1>2, SplicedSettles
<1>4. SpliceChatReq(a, b) = a /\ SpliceChatReq(a, t) = a
  BY <1>3, Zenon DEF Settled, SpliceChatReq
<1>5. InjectBagB(a, s) = a
  BY <1>1, <1>4, Zenon DEF InjectBagB
<1>6. ASSUME NEW p, NEW q, NEW x, Spliced(p, q, x)
      PROVE  HashedText(p) = HashedText(q)
  <2>1. /\ DOMAIN p = DOMAIN q
        /\ \A k \in DOMAIN q : p[k].brief = q[k].brief /\ (~q[k].brief => p[k] = q[k])
    BY <1>6 DEF Spliced
  <2>2. QED
    BY <2>1 DEF HashedText
<1>7. HashedText(a) = HashedText(doc)
  BY <1>2, <1>6
<1>8. QED
  BY <1>1, <1>2, <1>5, <1>7, Zenon DEF Spliced

\* The blocks of a surface with a brief, when nothing was injected before.
LEMMA PlainGets ==
  ASSUME NEW doc, IsDoc(doc), Plain(doc), NEW s, s.company \in Nat,
         NEW k \in DOMAIN doc, doc[k].text, doc[k].brief
  PROVE  InjectBagB(doc, s)[k].blocks = BuildInjectBlock(s) \o RenderToolPathPolicy(s.ignore)
<1>1. PICK a, b, t : /\ a = InjectBagB(doc, s) /\ b = BuildInjectBlock(s)
                     /\ t = RenderToolPathPolicy(s.ignore)
  OBVIOUS
<1>2. PICK e : Spliced(e, doc, b) /\ Spliced(a, e, t)
  BY <1>1, InjectIs, Zenon
<1>3. IsBlocks(b) /\ Lacks(b, "tool") /\ t # <<>> /\ t[1].h = "tool"
  BY <1>1, BuildIs, ToolIs
<1>4. \A r \in DOMAIN doc : doc[r].blocks = <<>> /\ Lacks(doc[r].blocks, "tool") /\ \A h : ~HasHeading(doc[r], h)
  BY NothingIs DEF Plain, HasHeading
<1>5. DocHasBriefMarker(doc) /\ \A h : ~DocHasHeading(doc, h)
  BY <1>4, Zenon DEF DocHasBriefMarker, DocHasHeading
<1>6. <<>> \o b = b
  BY <1>3, ConcatEmptySeq DEF IsBlocks, IsSeq
<1>7. DOMAIN e = DOMAIN doc /\ \A r \in DOMAIN doc : e[r].text = doc[r].text /\ e[r].brief = doc[r].brief
  BY <1>2 DEF Spliced
<1>8. e[k].blocks = b /\ \A r \in DOMAIN doc : Lacks(e[r].blocks, "tool")
  <2>1. CASE b = <<>>
    <3>1. e = doc
      BY <1>2, <2>1 DEF Spliced, Settled
    <3>2. QED
      BY <1>4, <2>1, <3>1
  <2>2. CASE b # <<>>
    <3>1. ~Settled(doc, b)
      BY <1>5, <2>2 DEF Settled
    <3>2. \A r \in DOMAIN doc : After(e[r], doc[r], b)
      BY <1>2, <3>1, Zenon DEF Spliced
    <3>3. \A r \in DOMAIN doc : IF doc[r].text /\ doc[r].brief THEN e[r].blocks = <<>> \o b ELSE e[r] = doc[r]
      BY <1>4, <3>2, Zenon DEF After
    <3>4. QED
      BY <1>3, <1>4, <1>6, <3>3, Zenon
  <2>3. QED
    BY <2>1, <2>2
<1>9. \A r \in DOMAIN doc : ~HasHeading(e[r], "tool")
  BY <1>8, Zenon DEF Lacks, HasHeading
<1>10. ~Settled(e, t)
  BY <1>3, <1>7, <1>9, Zenon DEF Settled, DocHasBriefMarker, DocHasHeading
<1>11. After(a[k], e[k], t)
  BY <1>2, <1>7, <1>10, Zenon DEF Spliced
<1>12. a[k].blocks = e[k].blocks \o t
  BY <1>3, <1>7, <1>9, <1>11, Zenon DEF After
<1>13. QED
  BY <1>1, <1>8, <1>12, Zenon
-----------------------------------------------------------------------------
(* The turn *)

LEMMA DocsAre == ASSUME NEW doc \in Docs PROVE IsDoc(doc) /\ "message" \in DOMAIN doc
  BY DocsAssumption, Zenon DEF IsDoc, IsSurface, IsBlocks

\* The rules of a pack reach a surface that has a brief.
LEMMA RulesReach ==
  ASSUME NEW doc, IsDoc(doc), "message" \in DOMAIN doc, Plain(doc), NEW s, s.company \in Nat,
         NEW x, x = SystemFromRequest(InjectBagB(doc, s)), x.text, x.brief
  PROVE  /\ HasOnly(x.blocks, "tool", [Block("tool") EXCEPT !.tool = IF s.ignore THEN "ignore" ELSE "honor"])
         /\ s.rules # NoRules =>
              HasOnly(x.blocks, "rules", [Block("rules") EXCEPT !.rules = s.rules])
<1>1. PICK a, b, t : /\ a = InjectBagB(doc, s) /\ b = BuildInjectBlock(s)
                     /\ t = RenderToolPathPolicy(s.ignore)
  OBVIOUS
<1>2. PICK u, v : /\ u = [Block("tool") EXCEPT !.tool = IF s.ignore THEN "ignore" ELSE "honor"]
                  /\ v = [Block("rules") EXCEPT !.rules = s.rules]
  OBVIOUS
<1>3. x = a["message"]
  BY <1>1 DEF SystemFromRequest, NoSurface
<1>4. a["message"].text = doc["message"].text /\ a["message"].brief = doc["message"].brief
  <2>1. PICK e : Spliced(e, doc, b) /\ Spliced(a, e, t)
    BY <1>1, InjectIs, Zenon
  <2>2. QED
    BY <2>1 DEF Spliced
<1>5. x.blocks = b \o t
  <2>1. doc["message"].text /\ doc["message"].brief
    BY <1>3, <1>4
  <2>2. InjectBagB(doc, s)["message"].blocks = BuildInjectBlock(s) \o RenderToolPathPolicy(s.ignore)
    BY <2>1, PlainGets
  <2>3. QED
    BY <1>1, <1>3, <2>2, Zenon
<1>6. /\ IsSeq(b) /\ Lacks(b, "tool") /\ (s.rules # NoRules => HasOnly(b, "rules", v))
  BY <1>1, <1>2, BuildIs DEF IsBlocks
<1>7. IsSeq(t) /\ HasOnly(t, "tool", u) /\ Lacks(t, "rules")
  BY <1>1, <1>2, ToolIs, Zenon DEF IsBlocks
<1>8. HasOnly(b \o t, "tool", u)
  BY <1>6, <1>7, OnlyRight
<1>9. s.rules # NoRules => HasOnly(b \o t, "rules", v)
  BY <1>6, <1>7, OnlyLeft
<1>10. QED
  BY <1>2, <1>5, <1>8, <1>9, Zenon

LEMMA TurnIs ==
  ASSUME IsSettings(cfg.settings), NEW asked, NEW req, req.company \in Nat, NEW doc \in Docs,
         RunTurn(asked, req, doc)
  PROVE  TurnSettingsInv'
<1>1. PICK s, cs : s = cfg.settings /\ cs = IF asked THEN OverlaySettings(s, req) ELSE s
  OBVIOUS
<1>2. PICK w, p, t : w = FillTurnSettings(cs) /\ p = PrepareSettings(w) /\ t = p.settings
  OBVIOUS
<1>3. /\ MergeTurnSettings(s, cs) = w
      /\ cs = [f \in DOMAIN DefaultSettings |-> cs[f]] /\ cs.company \in Nat
  <2>1. cs = OverlaySettings(s, req) \/ cs = s
    BY <1>1
  <2>2. QED
    BY <1>1, <1>2, <2>1, OverlayAgain
<1>4. w = [f \in DOMAIN DefaultSettings |-> w[f]] /\ w.company \in Nat
  BY <1>2, <1>3, FillIs
<1>5. /\ turn'.asked = asked /\ turn'.req = req /\ turn'.err = p.err /\ turn'.settings = t
      /\ turn'.before = doc /\ turn'.after = InjectBagB(doc, t) /\ cfg' = cfg
  <2>1. turn' = [asked |-> asked, req |-> req, err |-> p.err, settings |-> t,
                 before |-> doc, after |-> InjectBagB(doc, t)]
    BY <1>1, <1>2, <1>3, Zenon DEF RunTurn
  <2>2. cfg' = cfg
    BY DEF RunTurn
  <2>3. QED
    BY <2>1, <2>2
<1>6. Wanted' = w
  BY <1>1, <1>2, <1>5, Zenon DEF Wanted
<1>7. /\ \A f \in DOMAIN DefaultSettings \ {"rules", "rid", "company"} : t[f] = w[f]
      /\ t.company \in {w.company, TruncateCompanyContext(w.company)}
      /\ p.err # "none" => t = w
      /\ p.err = "none" => t.rules = Pack(w.tenant, w.rules, w.override)
  BY <1>2, <1>4, PrepareIs
<1>8. t.company \in Nat
  <2>1. TruncateCompanyContext(w.company) \in 0..HardWords
    BY <1>4, TruncateIs
  <2>2. QED
    BY <1>4, <1>7, <2>1, TurnSettingsAssumption
<1>9. IsDoc(doc) /\ "message" \in DOMAIN doc
  BY DocsAre
<1>10. RequestDecides'
  <2>1. \A f \in Flags \cup {"rounds", "mode", "onError", "meta", "tenant", "output"} : t[f] = w[f]
    BY <1>7, FieldsAre DEF Flags
  <2>2. QED
    BY <1>5, <1>6, <1>7, <2>1, Zenon DEF RequestDecides
<1>11. RulesReachModel'
  <2>1. PICK x : x = SystemFromRequest(InjectBagB(doc, t))
    OBVIOUS
  <2> SUFFICES ASSUME Plain(doc), x.text, x.brief
               PROVE  /\ \E i \in 1..Len(x.blocks) :
                           /\ IsOnly(x.blocks, "tool", i)
                           /\ x.blocks[i].tool = IF w.ignore THEN "ignore" ELSE "honor"
                      /\ p.err = "none" =>
                           \E i \in 1..Len(x.blocks) :
                             /\ IsOnly(x.blocks, "rules", i)
                             /\ JailbreakRuleIDs \subseteq DOMAIN x.blocks[i].rules
                             /\ \A k \in JailbreakRuleIDs :
                                  ~w.override => x.blocks[i].rules[k] = Get(w.tenant, k, "sdk")
    BY <1>5, <1>6, <2>1 DEF RulesReachModel
  <2>2. PICK u, v : /\ u = [Block("tool") EXCEPT !.tool = IF t.ignore THEN "ignore" ELSE "honor"]
                    /\ v = [Block("rules") EXCEPT !.rules = t.rules]
    OBVIOUS
  <2>3. HasOnly(x.blocks, "tool", u) /\ (t.rules # NoRules => HasOnly(x.blocks, "rules", v))
    BY <1>8, <1>9, <2>1, <2>2, RulesReach, Zenon
  <2>4. t.ignore = w.ignore
    BY <1>7, FieldsAre
  <2>5. u.tool = IF w.ignore THEN "ignore" ELSE "honor"
    <3>1. PICK z : z = IF t.ignore THEN "ignore" ELSE "honor"
      OBVIOUS
    <3>2. u = [Block("tool") EXCEPT !.tool = z]
      BY <2>2, <3>1
    <3>3. u.tool = z
      BY <3>2 DEF Block
    <3>4. QED
      BY <2>4, <3>1, <3>3, Zenon
  <2>6. v.rules = t.rules
    BY <2>2 DEF Block
  <2>7. \E i \in 1..Len(x.blocks) :
          /\ IsOnly(x.blocks, "tool", i)
          /\ x.blocks[i].tool = IF w.ignore THEN "ignore" ELSE "honor"
    BY <2>3, <2>5, Zenon DEF HasOnly
  <2>8. ASSUME p.err = "none"
        PROVE  \E i \in 1..Len(x.blocks) :
                 /\ IsOnly(x.blocks, "rules", i)
                 /\ JailbreakRuleIDs \subseteq DOMAIN x.blocks[i].rules
                 /\ \A k \in JailbreakRuleIDs :
                      ~w.override => x.blocks[i].rules[k] = Get(w.tenant, k, "sdk")
    <3>1. /\ JailbreakRuleIDs \subseteq DOMAIN t.rules
          /\ \A k \in JailbreakRuleIDs : ~w.override => t.rules[k] = Get(w.tenant, k, "sdk")
      BY <1>7, <2>8, PackIs
    <3>2. t.rules # NoRules
      <4>1. DOMAIN NoRules = {}
        BY EmptyIs DEF NoRules
      <4>2. QED
        BY <3>1, <4>1, TurnSettingsAssumption
    <3>3. PICK i \in 1..Len(x.blocks) : IsOnly(x.blocks, "rules", i) /\ x.blocks[i] = v
      BY <2>3, <3>2 DEF HasOnly
    <3>4. QED
      BY <2>6, <3>1, <3>3, Zenon
  <2>9. QED
    BY <2>7, <2>8
<1>12. IsDoc(turn'.after) /\ HashedText(turn'.after) = HashedText(doc)
       /\ InjectBagB(turn'.after, t) = turn'.after
  BY <1>5, <1>8, <1>9, InjectAgain
<1>13. CompanyWithinLimit'
  BY <1>12, Zenon DEF CompanyWithinLimit, IsDoc, IsSurface, IsBlocks
<1>14. InjectKeepsContract'
  BY <1>5, <1>12, Zenon DEF InjectKeepsContract
<1>15. FrozenStays'
  BY <1>2, <1>4, <1>5, PrepareAgain, Zenon DEF FrozenStays
<1>16. QED
  BY <1>10, <1>11, <1>13, <1>14, <1>15 DEF TurnSettingsInv

\* The settings of a client that can run turns.
SettingsInv == phase \in {"loaded", "ready", "turn"} => IsSettings(cfg.settings)

LEMMA LoadedSettings ==
  ASSUME NEW path, NEW file, NEW arg, NEW env, ResolveConfig(path, file, arg, env),
         path = "none" => file = Empty, FileWords(file) \in Nat
  PROVE  SettingsInv'
<1> DEFINE r == Load(path, file, arg, env)
           q == FirstProfile(file, arg, env)
<1> SUFFICES ASSUME phase' \in {"loaded", "ready", "turn"} PROVE IsSettings(cfg'.settings)
  BY DEF SettingsInv
<1>1. r.err = "none" /\ cfg' = Snapshot(r.cfg)
  BY DEF ResolveConfig
<1>2. PICK c, d : /\ c = FromMapping(file, q).cfg /\ FromMapping(file, q).err = "none"
                  /\ d = r.cfg /\ Loads(d, c, env)
  BY <1>1, LoadIs
<1>3. IsSettings(c.settings)
  BY <1>2, FileIs DEF IsRead
<1>4. HasFields(d) /\ IsSettings(d.settings)
  BY <1>2, <1>3 DEF Loads
<1> HIDE DEF r, q
<1>5. cfg'.settings = d.settings
  BY <1>1, <1>2, <1>4, SnapshotIs
<1>6. QED
  BY <1>4, <1>5

LEMMA SettingsStep == SettingsInv /\ [SetupNext]_allVars => SettingsInv'
<1> SUFFICES ASSUME SettingsInv, [SetupNext]_allVars PROVE SettingsInv'
  OBVIOUS
<1>1. ASSUME NEW arg \in Profiles, NEW env \in Envs, NEW path \in {"none", "bad"},
             ResolveConfig(path, Empty, arg, env)
      PROVE  SettingsInv'
  <2>1. FileWords(Empty) \in Nat
    BY EmptyIs DEF FileWords
  <2>2. QED
    BY <1>1, <2>1, LoadedSettings
<1>2. ASSUME NEW arg \in Profiles, NEW env \in Envs, NEW file \in Files,
             ResolveConfig("file", file, arg, env)
      PROVE  SettingsInv'
  <2>1. FileWords(file) \in Nat
    BY WordsAssumption DEF FileWords
  <2>2. QED
    BY <1>2, <2>1, LoadedSettings
<1>3. CASE NewRuntime
  <2>1. phase = "loaded" /\ cfg' = [Default EXCEPT !.settings = cfg.settings]
    BY <1>3 DEF NewRuntime
  <2>2. "settings" \in DOMAIN Default
    BY DEF Default
  <2>3. cfg'.settings = cfg.settings
    BY <2>1, <2>2
  <2>4. QED
    BY <2>1, <2>3 DEF SettingsInv
<1>4. CASE cfg' = cfg /\ (phase' = phase \/ phase \in {"ready", "turn"})
  BY <1>4 DEF SettingsInv
<1>5. CASE phase' \notin {"loaded", "ready", "turn"}
  BY <1>5 DEF SettingsInv
<1>6. QED
  BY <1>1, <1>2, <1>3, <1>4, <1>5
  DEF SetupNext, allVars, setupVars, NewFails, RunTurn, TurnEnds, Serve, Use

(***************************************************************************)
(* Whatever files, environments, requests and chat requests there are: a   *)
(* turn's settings are what its request asks for, prepared; the SDK's      *)
(* rules and the tool path reach the model once; the company context keeps *)
(* within its limit; the inject is off the contract and made once; and     *)
(* prepared settings stay as they are.                                     *)
(***************************************************************************)
THEOREM TurnGetsItsSettings == SetupSpec => []TurnSettingsInv
<1>1. ASSUME phase # "turn" PROVE TurnSettingsInv
  BY <1>1 DEF TurnSettingsInv, RequestDecides, RulesReachModel, CompanyWithinLimit, InjectKeepsContract, FrozenStays
<1>2. ASSUME phase' # "turn" PROVE TurnSettingsInv'
  BY <1>2 DEF TurnSettingsInv, RequestDecides, RulesReachModel, CompanyWithinLimit, InjectKeepsContract, FrozenStays
<1>3. SetupInit => SettingsInv /\ TurnSettingsInv
  BY <1>1 DEF SetupInit, SettingsInv
<1>4. SettingsInv /\ TurnSettingsInv /\ [SetupNext]_allVars => TurnSettingsInv'
  <2> SUFFICES ASSUME SettingsInv, TurnSettingsInv, [SetupNext]_allVars PROVE TurnSettingsInv'
    OBVIOUS
  <2>1. ASSUME NEW doc \in Docs, RunTurn(FALSE, DefaultSettings, doc) PROVE TurnSettingsInv'
    <3>1. IsSettings(cfg.settings)
      BY <2>1 DEF RunTurn, SettingsInv
    <3>2. DefaultSettings.company \in Nat
      BY DEF DefaultSettings
    <3>3. QED
      BY <2>1, <3>1, <3>2, TurnIs
  <2>2. ASSUME NEW doc \in Docs, NEW req \in Requests, RunTurn(TRUE, req, doc) PROVE TurnSettingsInv'
    <3>1. IsSettings(cfg.settings)
      BY <2>2 DEF RunTurn, SettingsInv
    <3>2. QED
      BY <2>2, <3>1, WordsAssumption, TurnIs
  <2>3. CASE UNCHANGED setupVars
    <3>1. phase' = phase /\ cfg' = cfg /\ turn' = turn
      BY <2>3 DEF setupVars
    <3>2. Wanted' = Wanted
      BY <3>1 DEF Wanted
    <3>3. RequestDecides'
      BY <3>1, <3>2 DEF TurnSettingsInv, RequestDecides
    <3>4. RulesReachModel'
      BY <3>1, <3>2 DEF TurnSettingsInv, RulesReachModel
    <3>5. CompanyWithinLimit' /\ InjectKeepsContract' /\ FrozenStays'
      BY <3>1 DEF TurnSettingsInv, CompanyWithinLimit, InjectKeepsContract, FrozenStays
    <3>6. QED
      BY <3>3, <3>4, <3>5 DEF TurnSettingsInv
  <2>4. CASE phase' # "turn"
    BY <1>2, <2>4
  <2>5. QED
    BY <2>1, <2>2, <2>3, <2>4
    DEF SetupNext, allVars, setupVars, ResolveConfig, NewFails, NewRuntime, TurnEnds, Serve, Use
<1>5. QED
  BY <1>3, <1>4, SettingsStep, PTL DEF SetupSpec
=============================================================================
