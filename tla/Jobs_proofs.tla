----------------------------- MODULE Jobs_proofs -----------------------------
(***************************************************************************)
(* Proofs about the jobs of all three runtimes: JobsMA for every set of    *)
(* jobs and closers and every bound on the events, UnitJob for any unit    *)
(* maps, JobsHTTP for any number of events and faults.                     *)
(***************************************************************************)
EXTENDS JobsMA, UnitJob, JobsHTTP, TLAPS, WellFoundedInduction, SequenceTheorems

Pending == {"running", "returned", "finishing"}

\* How far Run has come, in terms of the maps it fills and the worker it starts.
RunInv ==
  \A j \in Jobs :
    /\ j \in cancels <=> runPc[j] \in {"registered", "returned"}
    /\ worker[j] # "none" <=> runPc[j] = "returned"
    /\ j \notin cancels => /\ snaps[j].status = "absent"
                           /\ snaps[j].seq = 0
                           /\ events[j] = 0

\* A registered job whose worker has not stored a result is running, or cancelled.
SnapInv ==
  \A j \in Jobs :
    j \in cancels /\ worker[j] \in {"none"} \cup Pending =>
      /\ snaps[j].status \in {"running", "cancelled"}
      /\ ~snaps[j].partial
      /\ snaps[j].seq = 0

\* The locals of finish agree with each other.
LocalInv ==
  \A j \in Jobs : /\ local[j].status = "ok" => ~local[j].partial
                  /\ local[j].status = "partial" => local[j].partial
                  /\ local[j].status = "cancelled" => j \in cancelled

\* The job registry, the snapshots and the locals of the workers.
JobInv == /\ TypeOK
          /\ RunInv
          /\ CancelWins
          /\ FinishedIsTerminal
          /\ PartialAgrees
          /\ SnapInv
          /\ LocalInv

\* The Close call that closed the runtime is the only one past its lock.
CloseInv ==
  /\ (\E c \in Closers : closePc[c] # "idle") => closed
  /\ \A c \in Closers :
       closePc[c] = "cancelling" => atClose.registered \subseteq ctxDone \cup toCancel[c]
  /\ \A j \in atClose.running : worker[j] \in Live \cup {"done"}
  /\ CloseDrains
-----------------------------------------------------------------------------
LEMMA OutcomeType ==
  ASSUME NEW r \in Result
  PROVE  /\ OutcomeOf(r) \in {"ok", "partial", "error"}
         /\ OutcomeOf(r) = "ok" => ~r.partial
         /\ OutcomeOf(r) = "partial" => r.partial
  BY DEF OutcomeOf, Result

LEMMA InitJobInv == Init => JobInv
  <1> SUFFICES ASSUME Init PROVE JobInv
    OBVIOUS
  <1> USE MaxEventsAssumption DEF Init
  <1>1. snaps \in [Jobs -> Snapshot] /\ local \in [Jobs -> Local]
    BY DEF Snapshot, Status, Terminal, Local, NoLocal
  <1>2. got \in [Jobs -> [1..MaxEvents -> Nat]]
    OBVIOUS
  <1>3. closed \in BOOLEAN
    OBVIOUS
  <1>4. /\ events \in [Jobs -> 0..MaxEvents]
        /\ cursor \in [Jobs -> 0..MaxEvents]
    OBVIOUS
  <1>5. /\ runPc \in [Jobs -> {"idle", "checked", "registered", "returned", "refused"}]
        /\ worker \in [Jobs -> {"none", "done"} \cup Live]
        /\ closePc \in [Closers -> {"idle", "cancelling", "waiting", "returned", "already"}]
    OBVIOUS
  <1>6. /\ toCancel \in [Closers -> SUBSET Jobs]
        /\ atClose \in [registered : SUBSET Jobs, running : SUBSET Jobs]
    OBVIOUS
  <1>7. /\ cancels \in SUBSET Jobs /\ cancelled \in SUBSET Jobs
        /\ ctxDone \in SUBSET Jobs /\ firing \in SUBSET Jobs
    OBVIOUS
  <1>8. TypeOK
    BY <1>1, <1>2, <1>4, <1>5, <1>6, <1>7, <1>3 DEF TypeOK
  <1>9. RunInv /\ CancelWins /\ FinishedIsTerminal /\ PartialAgrees
    BY DEF RunInv, CancelWins, FinishedIsTerminal, PartialAgrees
  <1>10. SnapInv /\ LocalInv
    BY DEF SnapInv, LocalInv, NoLocal
  <1>11. QED
    BY <1>8, <1>9, <1>10 DEF JobInv

(***************************************************************************)
(* The lemmas below take one action each.                                  *)
(***************************************************************************)
LEMMA RunCheckInv == ASSUME NEW j \in Jobs, JobInv, RunCheck(j) PROVE JobInv'
  BY DEF JobInv, TypeOK, RunInv, CancelWins, FinishedIsTerminal, PartialAgrees,
         SnapInv, LocalInv, Live, Pending, RunCheck, workVars, closeVars, watchVars

LEMMA RunRegisterInv == ASSUME NEW j \in Jobs, JobInv, RunRegister(j) PROVE JobInv'
  BY MaxEventsAssumption
  DEF JobInv, TypeOK, RunInv, CancelWins, FinishedIsTerminal, PartialAgrees,
      SnapInv, LocalInv, Snapshot, Status, Terminal, Local, Live, Pending,
      RunRegister, workVars, closeVars, watchVars

LEMMA RunSpawnInv == ASSUME NEW j \in Jobs, JobInv, RunSpawn(j) PROVE JobInv'
  BY DEF JobInv, TypeOK, RunInv, CancelWins, FinishedIsTerminal, PartialAgrees,
         SnapInv, LocalInv, Live, Pending, RunSpawn, closeVars, watchVars

LEMMA ParentCancelInv == ASSUME NEW j \in Jobs, JobInv, ParentCancel(j) PROVE JobInv'
  BY DEF JobInv, TypeOK, RunInv, CancelWins, FinishedIsTerminal, PartialAgrees,
         SnapInv, LocalInv, ParentCancel, runVars, workVars, closeVars, watchVars

LEMMA EngineEventInv == ASSUME NEW j \in Jobs, JobInv, EngineEvent(j) PROVE JobInv'
  <1>1. events \in [Jobs -> 0..MaxEvents] /\ events[j] < MaxEvents /\ worker[j] = "running"
    BY DEF JobInv, TypeOK, EngineEvent
  <1>2. /\ events' = [events EXCEPT ![j] = events[j] + 1]
        /\ UNCHANGED <<cancelled, snaps, ctxDone, firing, runVars, workVars, closeVars, watchVars>>
    BY DEF EngineEvent
  <1>3. events' \in [Jobs -> 0..MaxEvents]
    BY <1>1, <1>2, MaxEventsAssumption
  <1>4. TypeOK'
    BY <1>2, <1>3 DEF JobInv, TypeOK, runVars, workVars, closeVars, watchVars
  <1>5. RunInv' /\ CancelWins'
    BY <1>1, <1>2 DEF JobInv, RunInv, CancelWins, runVars, workVars, closeVars, watchVars
  <1>8. FinishedIsTerminal' /\ PartialAgrees'
    BY <1>1, <1>2 DEF JobInv, FinishedIsTerminal, PartialAgrees, runVars, workVars, closeVars, watchVars
  <1>6. SnapInv' /\ LocalInv'
    BY <1>1, <1>2 DEF JobInv, SnapInv, LocalInv, runVars, workVars, closeVars, watchVars
  <1>7. QED
    BY <1>4, <1>5, <1>6, <1>8 DEF JobInv

LEMMA EngineReturnInv ==
  ASSUME NEW j \in Jobs, NEW r \in Result, JobInv, EngineReturn(j, r) PROVE JobInv'
  BY OutcomeType
  DEF JobInv, TypeOK, RunInv, CancelWins, FinishedIsTerminal, PartialAgrees, SnapInv,
      LocalInv, Local, Terminal, Result, Live, Pending, EngineReturn, runVars,
      closeVars, watchVars

LEMMA FinishClassifyInv == ASSUME NEW j \in Jobs, JobInv, FinishClassify(j) PROVE JobInv'
  BY DEF JobInv, TypeOK, RunInv, CancelWins, FinishedIsTerminal, PartialAgrees, SnapInv,
         LocalInv, Local, Terminal, Live, Pending, FinishClassify, CancelledLocal,
         runVars, closeVars, watchVars

LEMMA FinishStoreInv == ASSUME NEW j \in Jobs, JobInv, FinishStore(j) PROVE JobInv'
  <1> USE DEF JobInv, TypeOK, FinishStore, runVars, closeVars, watchVars
  <1>1. /\ FinalSnap(j) \in Snapshot
        /\ FinalSnap(j).status \in Terminal
        /\ FinalSnap(j).status = "cancelled" <=> j \in cancelled
        /\ FinalSnap(j).status = "ok" => ~FinalSnap(j).partial
        /\ FinalSnap(j).status = "partial" => FinalSnap(j).partial
        /\ FinalSnap(j).seq = events[j]
    BY DEF FinalSnap, CancelledLocal, LocalInv, Local, Snapshot, Status, Terminal
  <1>2. TypeOK'
    BY <1>1 DEF Local, NoLocal, Terminal, Live
  <1>3. RunInv'
    BY <1>1 DEF RunInv
  <1>4. CancelWins' /\ PartialAgrees' /\ FinishedIsTerminal'
    BY <1>1 DEF CancelWins, PartialAgrees, FinishedIsTerminal
  <1>5. SnapInv' /\ LocalInv'
    BY <1>1 DEF SnapInv, LocalInv, NoLocal, Pending
  <1>6. QED
    BY <1>2, <1>3, <1>4, <1>5

LEMMA WorkerExitInv == ASSUME NEW j \in Jobs, JobInv, WorkerExit(j) PROVE JobInv'
  BY DEF JobInv, TypeOK, RunInv, CancelWins, FinishedIsTerminal, PartialAgrees, SnapInv,
         LocalInv, Live, Pending, WorkerExit, runVars, closeVars, watchVars

LEMMA CancelInv == ASSUME NEW j \in Jobs, JobInv, Cancel(j) PROVE JobInv'
  <1> USE DEF JobInv, TypeOK, Cancel, runVars, workVars, closeVars, watchVars
  <1>1. /\ snaps'[j].status = "cancelled"
        /\ snaps'[j].partial = snaps[j].partial
        /\ snaps'[j].seq = snaps[j].seq
        /\ \A k \in Jobs \ {j} : snaps'[k] = snaps[k]
    BY DEF Snapshot
  <1>2. TypeOK'
    <2>1. ASSUME NEW x \in Snapshot PROVE [x EXCEPT !.status = "cancelled"] \in Snapshot
      BY <2>1 DEF Snapshot, Status, Terminal
    <2>2. snaps' \in [Jobs -> Snapshot]
      BY <2>1
    <2>3. QED
      BY <2>2
  <1>3. RunInv'
    BY <1>1 DEF RunInv
  <1>4. CancelWins' /\ PartialAgrees'
    BY <1>1 DEF CancelWins, PartialAgrees
  <1>5. FinishedIsTerminal'
    BY <1>1 DEF FinishedIsTerminal, Terminal
  <1>6. SnapInv' /\ LocalInv'
    BY <1>1 DEF SnapInv, LocalInv
  <1>7. QED
    BY <1>2, <1>3, <1>4, <1>5, <1>6

LEMMA CancelFireInv == ASSUME NEW j \in Jobs, JobInv, CancelFire(j) PROVE JobInv'
  BY DEF JobInv, TypeOK, RunInv, CancelWins, FinishedIsTerminal, PartialAgrees, SnapInv,
         LocalInv, CancelFire, runVars, workVars, closeVars, watchVars

LEMMA WatchPreserves == ASSUME NEW j \in Jobs, JobInv, Watch(j) PROVE JobInv'
  <1>1. got' \in [Jobs -> [1..MaxEvents -> Nat]]
    <2> DEFINE more == [s \in 1..MaxEvents |-> IF s \in Delivered(j, cursor[j])
                                               THEN got[j][s] + 1 ELSE got[j][s]]
    <2>1. got[j] \in [1..MaxEvents -> Nat]
      BY DEF JobInv, TypeOK
    <2>2. \A s \in 1..MaxEvents : got[j][s] \in Nat
      BY <2>1
    <2>3. more \in [1..MaxEvents -> Nat]
      BY <2>2
    <2> HIDE DEF more
    <2>4. QED
      BY <2>3 DEF JobInv, TypeOK, Watch, more
  <1>2. TypeOK'
    BY <1>1 DEF JobInv, TypeOK, Watch, runVars, workVars, closeVars
  <1>3. QED
    BY <1>2 DEF JobInv, Watch, runVars, workVars, closeVars, RunInv, CancelWins, FinishedIsTerminal, PartialAgrees, SnapInv, LocalInv

LEMMA CloseStepInv == ASSUME NEW c \in Closers, JobInv, CloseStep(c) PROVE JobInv'
  <1>1. TypeOK'
    <2> USE DEF JobInv, TypeOK, runVars, workVars, watchVars
    <2>1. CASE CloseBegin(c)
      <3>1. closed' \in BOOLEAN
        BY <2>1 DEF CloseBegin
      <3>2. toCancel' \in [Closers -> SUBSET Jobs]
        BY <2>1 DEF CloseBegin
      <3>3. atClose' \in [registered : SUBSET Jobs, running : SUBSET Jobs]
        BY <2>1 DEF CloseBegin
      <3>4. closePc' \in [Closers -> {"idle", "cancelling", "waiting", "returned", "already"}]
        BY <2>1 DEF CloseBegin
      <3>5. QED
        BY <2>1, <3>1, <3>2, <3>3, <3>4 DEF CloseBegin
    <2>2. ASSUME NEW j \in Jobs, CloseCancelOne(c, j) PROVE TypeOK'
      BY <2>2 DEF CloseCancelOne
    <2>3. CASE CloseWait(c) \/ CloseReturn(c)
      BY <2>3 DEF CloseWait, CloseReturn
    <2>4. QED
      BY <2>1, <2>2, <2>3 DEF CloseStep
  <1>2. UNCHANGED <<cancelled, snaps, events, runPc, cancels, worker, local>>
    BY DEF CloseStep, CloseBegin, CloseCancelOne, CloseWait, CloseReturn, runVars,
           workVars
  <1>3. QED
    BY <1>1, <1>2 DEF JobInv, RunInv, CancelWins, FinishedIsTerminal, PartialAgrees,
                      SnapInv, LocalInv

LEMMA NextJobInv == JobInv /\ [Next]_vars => JobInv'
  <1> SUFFICES ASSUME JobInv, [Next]_vars PROVE JobInv'
    OBVIOUS
  <1>1. CASE UNCHANGED vars
    BY <1>1 DEF vars, JobInv, TypeOK, RunInv, CancelWins, FinishedIsTerminal,
                PartialAgrees, SnapInv, LocalInv
  <1>2. ASSUME NEW j \in Jobs, RunStep(j) PROVE JobInv'
    BY <1>2, RunCheckInv, RunRegisterInv, RunSpawnInv DEF RunStep
  <1>3. ASSUME NEW j \in Jobs, WorkerStep(j) PROVE JobInv'
    BY <1>3, EngineEventInv, EngineReturnInv, FinishClassifyInv, FinishStoreInv,
       WorkerExitInv DEF WorkerStep
  <1>4. ASSUME NEW j \in Jobs,
               ParentCancel(j) \/ Cancel(j) \/ CancelFire(j) \/ Watch(j)
        PROVE  JobInv'
    BY <1>4, ParentCancelInv, CancelInv, CancelFireInv, WatchPreserves
  <1>5. ASSUME NEW c \in Closers, CloseStep(c) PROVE JobInv'
    BY <1>5, CloseStepInv
  <1>6. QED
    BY <1>1, <1>2, <1>3, <1>4, <1>5 DEF Next

(***************************************************************************)
(* Every reachable state of the runtime has its type, and the snapshot of  *)
(* a job agrees with its cancel flag and its worker.                       *)
(***************************************************************************)
THEOREM JobInvariant == Spec => []JobInv
  BY InitJobInv, NextJobInv, PTL DEF Spec

\* Every variable of the runtime keeps its type, for any number of jobs.
THEOREM TypeCorrect == Spec => []TypeOK
  <1>1. JobInv => TypeOK
    BY DEF JobInv
  <1>2. QED
    BY <1>1, JobInvariant, PTL

(***************************************************************************)
(* No interleaving of Cancel with the two critical sections of finish      *)
(* loses the cancel.                                                       *)
(***************************************************************************)
THEOREM CancelIsNeverLost == Spec => []CancelWins
  <1>1. JobInv => CancelWins
    BY DEF JobInv
  <1>2. QED
    BY <1>1, JobInvariant, PTL

\* A worker that is past finish leaves a terminal snapshot at the end of its log.
THEOREM FinishedJobIsTerminal == Spec => []ResultInv
  <1>1. JobInv => ResultInv
    BY DEF JobInv, ResultInv
  <1>2. QED
    BY <1>1, JobInvariant, PTL
-----------------------------------------------------------------------------
(* The snapshots implement JobLifecycle. *)

LEMMA LifecycleStep == JobInv /\ [Next]_vars => [Lifecycle!Next]_(Lifecycle!vars)
  <1> SUFFICES ASSUME JobInv, [Next]_vars PROVE [Lifecycle!Next]_(Lifecycle!vars)
    OBVIOUS
  <1>1. CASE UNCHANGED snaps
    BY <1>1 DEF Lifecycle!vars
  <1>2. ASSUME NEW j \in Jobs, RunRegister(j) PROVE Lifecycle!Accept(j)
    BY <1>2 DEF RunRegister, JobInv, RunInv, TypeOK, Lifecycle!Accept
  <1>3. ASSUME NEW j \in Jobs, FinishStore(j)
        PROVE  (\E s \in Lifecycle!Outcome : Lifecycle!Settle(j, s)) \/ Lifecycle!Confirm(j)
    <2>1. /\ snaps[j].status \in {"running", "cancelled"}
          /\ snaps[j].seq = 0
          /\ snaps[j].status = "cancelled" <=> j \in cancelled
      BY <1>3 DEF FinishStore, JobInv, RunInv, SnapInv, CancelWins, Pending
    <2>2. /\ snaps'[j] = FinalSnap(j)
          /\ \A k \in Jobs \ {j} : snaps'[k] = snaps[k]
      BY <1>3 DEF FinishStore, JobInv, TypeOK
    <2>3. FinalSnap(j).seq = events[j] /\ events[j] \in Nat
      BY MaxEventsAssumption DEF FinalSnap, JobInv, TypeOK
    <2>4. j \in cancelled => FinalSnap(j).status = "cancelled"
      BY DEF FinalSnap, CancelledLocal
    <2>5. j \notin cancelled => FinalSnap(j).status \in Lifecycle!Outcome
      BY DEF FinalSnap, JobInv, TypeOK, LocalInv, Local, Terminal, Lifecycle!Outcome
    <2>6. Lifecycle!Advance(j)
      <3>1. snaps'[j].seq >= snaps[j].seq
        BY <2>1, <2>2, <2>3
      <3>2. \A k \in Jobs \ {j} : snaps'[k].seq = snaps[k].seq
        BY <2>2
      <3>3. QED
        BY <3>1, <3>2 DEF Lifecycle!Advance
    <2>7. CASE j \in cancelled
      <3>1. \A k \in Jobs : snaps'[k].status = snaps[k].status
        BY <2>1, <2>2, <2>4, <2>7
      <3>2. QED
        BY <2>1, <2>6, <2>7, <3>1 DEF Lifecycle!Confirm
    <2>8. CASE j \notin cancelled
      <3>1. PICK s \in Lifecycle!Outcome : s = FinalSnap(j).status
        BY <2>5, <2>8
      <3>2. Lifecycle!Settle(j, s)
        BY <2>1, <2>2, <2>6, <2>8, <3>1 DEF Lifecycle!Settle
      <3>3. QED
        BY <3>2
    <2>9. QED
      BY <2>7, <2>8
  <1>4. ASSUME NEW j \in Jobs, Cancel(j)
        PROVE  Lifecycle!Revoke(j) \/ UNCHANGED Lifecycle!vars
    <2>1. /\ snaps' = [snaps EXCEPT ![j].status = "cancelled"]
          /\ snaps \in [Jobs -> Snapshot]
      BY <1>4 DEF Cancel, JobInv, TypeOK
    <2>2. snaps[j].status \in {"running", "cancelled"} \cup Lifecycle!Outcome
      BY <1>4 DEF Cancel, JobInv, RunInv, SnapInv, FinishedIsTerminal, TypeOK, Pending,
                  Live, Terminal, Lifecycle!Outcome
    <2>3. QED
      BY <2>1, <2>2 DEF Snapshot, Lifecycle!Revoke, Lifecycle!vars, Lifecycle!Outcome
  <1>5. QED
    BY <1>1, <1>2, <1>3, <1>4
    DEF Next, RunStep, WorkerStep, CloseStep, RunCheck, RunSpawn, ParentCancel,
        EngineEvent, EngineReturn, FinishClassify, WorkerExit, CancelFire, Watch,
        CloseBegin, CloseCancelOne, CloseWait, CloseReturn, vars, Lifecycle!Next

(***************************************************************************)
(* JobsMA implements JobLifecycle: a job is accepted once, settles once,   *)
(* and "cancelled" is final, for every interleaving of Run, Cancel, Close  *)
(* and the workers.                                                        *)
(***************************************************************************)
THEOREM ImplementsLifecycleThm == Spec => ImplementsLifecycle
  <1>1. Init => Lifecycle!Init
    BY DEF Init, Lifecycle!Init
  <1>2. QED
    BY <1>1, JobInvariant, LifecycleStep, PTL DEF Spec, ImplementsLifecycle, Lifecycle!Spec
-----------------------------------------------------------------------------
(* Close. *)

LEMMA NextCloseInv == JobInv /\ CloseInv /\ [Next]_vars => CloseInv'
  <1> SUFFICES ASSUME JobInv, CloseInv, [Next]_vars PROVE CloseInv'
    OBVIOUS
  <1>1. TypeOK
    BY DEF JobInv
  <1>2. ASSUME NEW c \in Closers, CloseBegin(c) PROVE CloseInv'
    <2> USE <1>1, <1>2 DEF CloseBegin, runVars, workVars, watchVars
    <2>1. CASE closed
      BY <2>1 DEF CloseInv, CloseDrains, TypeOK
    <2>2. CASE ~closed
      <3>1. \A d \in Closers : d # c => closePc'[d] = "idle"
        BY <2>2 DEF CloseInv, TypeOK
      <3>2. closePc'[c] = "cancelling" /\ toCancel'[c] = cancels /\ closed'
        BY <2>2 DEF TypeOK
      <3>3. atClose' = [registered |-> cancels, running |-> {j \in Jobs : worker[j] \in Live}]
        BY <2>2
      <3>4. CloseDrains'
        BY <3>1, <3>2 DEF CloseDrains
      <3>5. QED
        BY <3>1, <3>2, <3>3, <3>4 DEF CloseInv
    <2>3. QED
      BY <2>1, <2>2
  <1>3. ASSUME NEW c \in Closers, NEW j \in Jobs, CloseCancelOne(c, j) PROVE CloseInv'
    BY <1>1, <1>3 DEF CloseCancelOne, CloseInv, CloseDrains, TypeOK, workVars
  <1>4. ASSUME NEW c \in Closers, CloseWait(c) PROVE CloseInv'
    BY <1>1, <1>4 DEF CloseWait, CloseInv, CloseDrains, TypeOK, workVars
  <1>5. ASSUME NEW c \in Closers, CloseReturn(c) PROVE CloseInv'
    BY <1>1, <1>5 DEF CloseReturn, CloseInv, CloseDrains, TypeOK, workVars
  <1>6. ASSUME UNCHANGED closeVars,
               ctxDone \subseteq ctxDone',
               \A j \in atClose.running : worker[j] = "done" => worker'[j] = "done",
               \A j \in atClose.running : worker'[j] \in Live \cup {"done"}
        PROVE  CloseInv'
    BY <1>6 DEF closeVars, CloseInv, CloseDrains
  <1>7. ASSUME NEW j \in Jobs, RunStep(j) \/ WorkerStep(j) PROVE CloseInv'
    <2>1. UNCHANGED closeVars /\ ctxDone \subseteq ctxDone'
      BY <1>7 DEF RunStep, RunCheck, RunRegister, RunSpawn, WorkerStep, EngineEvent,
                  EngineReturn, FinishClassify, FinishStore, WorkerExit
    <2>2. atClose.running \subseteq Jobs
      BY <1>1 DEF TypeOK
    <2>3. \A k \in Jobs : worker[k] = "done" => worker'[k] = "done"
      BY <1>1, <1>7 DEF TypeOK, JobInv, RunInv, RunStep, RunCheck, RunRegister, RunSpawn,
                  WorkerStep, EngineEvent, EngineReturn, FinishClassify, FinishStore,
                  WorkerExit, workVars
    <2>4. \A k \in Jobs : worker[k] \in Live \cup {"done"} => worker'[k] \in Live \cup {"done"}
      BY <1>1, <1>7 DEF TypeOK, Live, RunStep, RunCheck, RunRegister, RunSpawn,
                  WorkerStep, EngineEvent, EngineReturn, FinishClassify, FinishStore,
                  WorkerExit, workVars
    <2>5. QED
      BY <1>6, <2>1, <2>2, <2>3, <2>4 DEF CloseInv
  <1>8. ASSUME NEW j \in Jobs,
               ParentCancel(j) \/ Cancel(j) \/ CancelFire(j) \/ Watch(j)
        PROVE  CloseInv'
    <2>1. UNCHANGED closeVars /\ UNCHANGED worker /\ ctxDone \subseteq ctxDone'
      BY <1>8 DEF ParentCancel, Cancel, CancelFire, Watch, workVars
    <2>2. QED
      BY <1>6, <2>1 DEF CloseInv
  <1>9. CASE UNCHANGED vars
    BY <1>6, <1>9 DEF vars, closeVars, CloseInv
  <1>10. QED
    BY <1>2, <1>3, <1>4, <1>5, <1>7, <1>8, <1>9 DEF Next, CloseStep

(***************************************************************************)
(* What Close guarantees in every interleaving: the workers running when   *)
(* it took the lock have ended when it returns, and every job registered   *)
(* by then is cancelled.  (A job whose Run had passed the closed check but *)
(* was not registered is not among them: see NoWorkerAfterClose.)          *)
(***************************************************************************)
THEOREM CloseDrainsTheRegistered == Spec => []CloseDrains
  <1>1. Init => CloseInv
    BY DEF Init, CloseInv, CloseDrains
  <1>2. CloseInv => CloseDrains
    BY DEF CloseInv
  <1>3. QED
    BY <1>1, <1>2, NextCloseInv, JobInvariant, PTL DEF Spec
-----------------------------------------------------------------------------
(* Watch. *)

LEMMA NextWatch == JobInv /\ WatchExactlyOnce /\ [Next]_vars => WatchExactlyOnce'
  <1> SUFFICES ASSUME JobInv, WatchExactlyOnce, [Next]_vars PROVE WatchExactlyOnce'
    OBVIOUS
  <1>1. TypeOK
    BY DEF JobInv
  <1>2. CASE UNCHANGED watchVars /\ UNCHANGED events
    BY <1>2 DEF watchVars, WatchExactlyOnce
  <1>3. ASSUME NEW j \in Jobs, RunRegister(j) PROVE WatchExactlyOnce'
    <2>1. events[j] = 0
      BY <1>3 DEF RunRegister, JobInv, RunInv
    <2>2. events' = events
      BY <1>1, <1>3, <2>1 DEF RunRegister, TypeOK
    <2>3. QED
      BY <1>3, <2>2 DEF RunRegister, watchVars, WatchExactlyOnce
  <1>4. ASSUME NEW j \in Jobs, EngineEvent(j) PROVE WatchExactlyOnce'
    BY <1>1, <1>4, MaxEventsAssumption DEF EngineEvent, TypeOK, watchVars, WatchExactlyOnce
  <1>5. ASSUME NEW j \in Jobs, Watch(j) PROVE WatchExactlyOnce'
    <2>1. /\ cursor' = [cursor EXCEPT ![j] = events[j]]
          /\ events' = events
          /\ \A k \in Jobs \ {j} : got'[k] = got[k]
      BY <1>1, <1>5 DEF Watch, TypeOK
    <2>2. \A s \in 1..MaxEvents :
            got'[j][s] = IF s \in Delivered(j, cursor[j]) THEN got[j][s] + 1 ELSE got[j][s]
      BY <1>1, <1>5 DEF Watch, TypeOK
    <2>3. \A s \in 1..MaxEvents : got[j][s] = IF s <= cursor[j] THEN 1 ELSE 0
      BY DEF WatchExactlyOnce
    <2>4. /\ events[j] \in 0..MaxEvents
          /\ cursor[j] \in 0..MaxEvents
          /\ cursor[j] <= events[j]
      BY <1>1 DEF TypeOK, WatchExactlyOnce
    <2>5. \A s \in 1..MaxEvents : got'[j][s] = IF s <= events[j] THEN 1 ELSE 0
      BY <2>2, <2>3, <2>4, MaxEventsAssumption DEF Delivered
    <2>6. \A k \in Jobs : cursor'[k] <= events'[k]
      BY <1>1, <2>1, <2>4, MaxEventsAssumption DEF TypeOK, WatchExactlyOnce
    <2>7. \A k \in Jobs \ {j} : \A s \in 1..MaxEvents :
            got'[k][s] = IF s <= cursor'[k] THEN 1 ELSE 0
      BY <1>1, <2>1 DEF TypeOK, WatchExactlyOnce
    <2>8. \A s \in 1..MaxEvents : got'[j][s] = IF s <= cursor'[j] THEN 1 ELSE 0
      BY <1>1, <2>1, <2>5 DEF TypeOK
    <2>9. QED
      BY <2>6, <2>7, <2>8 DEF WatchExactlyOnce
  <1>6. QED
    BY <1>2, <1>3, <1>4, <1>5
    DEF Next, RunStep, WorkerStep, CloseStep, RunCheck, RunSpawn, ParentCancel,
        EngineReturn, FinishClassify, FinishStore, WorkerExit, Cancel, CancelFire,
        CloseBegin, CloseCancelOne, CloseWait, CloseReturn, vars, watchVars

\* A watcher that resumes from its last seq misses no event and sees none twice.
THEOREM WatchDeliversOnce == Spec => []WatchExactlyOnce
  <1>1. ASSUME Init PROVE WatchExactlyOnce
    <2>1. \A j \in Jobs : cursor[j] = 0 /\ events[j] = 0
      BY <1>1 DEF Init
    <2>2. \A j \in Jobs : \A s \in 1..MaxEvents : got[j][s] = 0
      BY <1>1 DEF Init
    <2>3. SUFFICES ASSUME NEW j \in Jobs
                   PROVE  /\ cursor[j] <= events[j]
                          /\ \A s \in 1..MaxEvents :
                               got[j][s] = IF s <= cursor[j] THEN 1 ELSE 0
      BY DEF WatchExactlyOnce
    <2>4. cursor[j] <= events[j]
      BY <2>1
    <2>5. ASSUME NEW s \in 1..MaxEvents PROVE got[j][s] = IF s <= cursor[j] THEN 1 ELSE 0
      <3>1. ~(s <= 0)
        BY MaxEventsAssumption
      <3>2. QED
        BY <2>1, <2>2, <3>1
    <2>6. QED
      BY <2>4, <2>5
  <1>2. QED
    BY <1>1, NextWatch, JobInvariant, PTL DEF Spec
-----------------------------------------------------------------------------
(* Numbers, for both parts that follow. *)

\* A set of numbers has a least one.
LEMMA Least == ASSUME NEW S \in SUBSET Nat, S # {} PROVE \E m \in S : \A n \in S : m <= n
<1> DEFINE R == OpToRel(<, Nat)
<1>1. \A x, y \in Nat : <<x, y>> \in R <=> x < y
  BY DEF OpToRel
<1>2. IsWellFoundedOn(R, Nat)
  BY NatLessThanWellFounded
<1> HIDE DEF R
<1>3. PICK m \in S : \A n \in S : <<n, m>> \notin R
  BY <1>2, WFMin
<1>4. ASSUME NEW n \in S PROVE m <= n
  <2>1. m \in Nat /\ n \in Nat
    OBVIOUS
  <2>2. ~(n < m)
    BY <1>1, <1>3, <2>1, Zenon
  <2>3. QED
    BY <2>1, <2>2
<1>5. QED
  BY <1>4

\* What holds of 0 and goes on from each number to the next holds of all up to n.
LEMMA Inductive ==
  ASSUME NEW n \in Nat, NEW G, 0 \in G, \A k \in 1..n : k - 1 \in G => k \in G
  PROVE  \A k \in 0..n : k \in G
<1> SUFFICES ASSUME \E k \in 0..n : k \notin G PROVE FALSE
  OBVIOUS
<1> DEFINE S == {k \in 0..n : k \notin G}
<1>1. S \in SUBSET Nat /\ S # {}
  OBVIOUS
<1> HIDE DEF S
<1>2. PICK m \in S : \A k \in S : m <= k
  BY <1>1, Least
<1>3. m \in 0..n /\ m \notin G
  BY <1>2 DEF S
<1>4. m \in 1..n /\ m - 1 \in 0..n
  BY <1>3
<1>5. m - 1 \notin S
  BY <1>2, <1>4
<1>6. QED
  BY <1>3, <1>4, <1>5 DEF S
-----------------------------------------------------------------------------
(***************************************************************************)
(* A job of units, UnitJob.  That the summaries, the journal and the       *)
(* status agree rests on where each is while a unit runs.                  *)
(***************************************************************************)

\* A unit that is entered or runs is one of the map, and Run is in its loop.
UnitLocated == unit # "idle" => pc = "units" /\ i <= Len(units)

\* Where the job is registered, and its status decided.
UnitStages ==
  /\ pc = "run" => snap = "none"
  /\ snap = "none" => pc \in {"run", "returned"}
  /\ snap \in {"ok", "partial", "error"} => pc = "returned"
  /\ pc \in {"run", "units", "classify"} => status = "none"
  /\ pc \in {"emit", "store"} => status # "none"
  /\ snap # "none" => Validate(units) = "none"
  /\ pc = "classify" => Stopped \/ i > Len(units)

\* A status other than cancelled tells of all units.
Tells(s) ==
  s \in {"ok", "partial", "error"} =>
    /\ Len(sums) = Len(units)
    /\ s = "ok" <=> \A k \in 1..Len(sums) : sums[k] = "ok"
    /\ s = "error" <=> \A k \in 1..Len(sums) : sums[k] # "ok"

\* The journal is at most at the unit whose turn it is; one that runs is its last entry.
JournalAt ==
  /\ \A k \in 1..Len(journal) : journal[k].unit \in 1..i
  /\ unit # "running" => \A k \in 1..Len(journal) : journal[k].unit < i
  /\ unit = "running" =>
       /\ Len(journal) > 0 /\ journal[Len(journal)] = [unit |-> i, status |-> "started"]
       /\ \A k \in 1..(Len(journal) - 1) : journal[k].unit < i

\* A unit that starts after the Cancel is past the check of the loop.
LateIsPast == late <= 1 /\ (late = 1 => isCancelled /\ unit # "enter")

UnitIInv ==
  /\ UnitTypeOK /\ CancelSticks /\ UnitEventsAgree
  /\ UnitLocated /\ UnitStages /\ Tells(status) /\ Tells(snap) /\ JournalAt /\ LateIsPast
-----------------------------------------------------------------------------
(* The unit map. *)

\* The codes of Run.
LEMMA UnitCodes ==
  /\ \A u, f, g : EnterError(u, f, g) \in {"none", "130002", "130011", "130012"}
  /\ \A m, k : UnitError(m, k) \in {"none", "000002", "130002", "130011", "130013"}
BY DEF EnterError, AgentError, DirectError, UnitError

\* What ValidateUnitMap lets pass has units, and each of them is without an error;
\* what it does not let pass has one of its codes.
LEMMA ValidMap ==
  ASSUME NEW m \in Seq(Units)
  PROVE  /\ Validate(m) \in {"none", "000002", "130002", "130011", "130013"}
         /\ Validate(m) = "none" => Len(m) > 0 /\ \A k \in 1..Len(m) : UnitError(m, k) = "none"
<1> DEFINE bad == {k \in 1..Len(m) : UnitError(m, k) # "none"}
<1>1. CASE bad = {}
  <2>1. Validate(m) = IF m = <<>> THEN "130002" ELSE "none"
    BY <1>1 DEF Validate
  <2>2. QED
    BY <1>1, <2>1
<1>2. CASE bad # {}
  <2>1. bad \in SUBSET Nat
    OBVIOUS
  <2>2. \E k \in bad : \A n \in bad : k <= n
    BY <1>2, <2>1, Least
  <2>3. PICK c : c = CHOOSE k \in bad : \A n \in bad : k <= n
    OBVIOUS
  <2>4. c \in bad
    BY <2>2, <2>3, Zenon
  <2>5. Validate(m) \in {"130002", UnitError(m, c)}
    BY <1>2, <2>3 DEF Validate
  <2>6. UnitError(m, c) # "none"
    BY <2>4
  <2>7. UnitError(m, c) \in {"none", "000002", "130002", "130011", "130013"}
    BY UnitCodes
  <2>8. QED
    BY <2>5, <2>6, <2>7
<1>3. QED
  BY <1>1, <1>2

\* The checks, made unit by unit, add up to the isolation of all.
LEMMA Isolation == ASSUME UnitIInv PROVE UnitsAreIsolated
<1>1. SUFFICES ASSUME snap # "none", NEW k \in 1..Len(units), NEW n \in 1..Len(units)
               PROVE  /\ k # n => units[k].id # units[n].id
                      /\ k # n /\ units[k].session # "" => units[k].session # units[n].session
                      /\ units[k].kind \in {"agent_turn", "zeus_direct"}
                      /\ units[k].kind = "agent_turn" => units[k].pin
  BY DEF UnitsAreIsolated
<1>2. units \in Seq(Units) /\ Validate(units) = "none"
  BY <1>1, UnitJobAssumption DEF UnitIInv, UnitTypeOK, UnitStages
<1>3. UnitError(units, k) = "none" /\ UnitError(units, n) = "none"
  BY <1>2, ValidMap
<1>4. units[k].kind \in Kinds /\ units[k].pin \in BOOLEAN /\ k \in Nat /\ n \in Nat
  <2>1. PICK u \in Units : u = units[k]
    BY <1>2
  <2>2. u.kind \in Kinds /\ u.pin \in BOOLEAN
    BY DEF Units
  <2>3. QED
    BY <1>2, <2>1, <2>2
<1>5. /\ units[k].kind \in {"agent_turn", "zeus_direct"}
      /\ units[k].kind = "agent_turn" => units[k].pin
  BY <1>3, <1>4 DEF UnitError, Kinds
<1>6. ASSUME NEW a \in 1..Len(units), NEW b \in 1..(a - 1), UnitError(units, a) = "none"
      PROVE  /\ units[b].id # units[a].id
             /\ units[a].session # "" => units[b].session # units[a].session
  BY <1>6 DEF UnitError, IdTaken
<1>7. CASE k < n
  <2>1. k \in 1..(n - 1)
    BY <1>4, <1>7
  <2>2. QED
    BY <1>3, <1>5, <1>6, <2>1
<1>8. CASE n < k
  <2>1. n \in 1..(k - 1)
    BY <1>4, <1>8
  <2>2. QED
    BY <1>3, <1>5, <1>6, <2>1
<1>9. k = n \/ k < n \/ n < k
  BY <1>4
<1>10. QED
  BY <1>5, <1>7, <1>8, <1>9, Zenon
(* The journal. *)

\* A summary more leaves what the journal says of the units before it.
LEMMA SumsGrow ==
  ASSUME UnitIInv, NEW s \in UnitStatuses, sums' = Append(sums, s), journal' = journal
  PROVE  UnitEventsAgree'
<1>1. sums \in Seq(UnitStatuses)
  BY DEF UnitIInv, UnitTypeOK
<1>2. Len(sums') = Len(sums) + 1 /\ \A n \in 1..Len(sums) : sums'[n] = sums[n]
  BY <1>1
<1>3. ASSUME NEW k \in 1..Len(journal), journal[k].status # "started"
      PROVE  journal[k].unit <= Len(sums') /\ sums'[journal[k].unit] = journal[k].status
  <2>1. PICK n : n = journal[k].unit
    OBVIOUS
  <2>2. n \in 1..i /\ i \in Nat
    BY <2>1, UnitJobAssumption DEF UnitIInv, JournalAt, UnitTypeOK
  <2>3. n <= Len(sums) /\ sums[n] = journal[k].status
    BY <1>3, <2>1 DEF UnitIInv, UnitEventsAgree
  <2>4. n \in 1..Len(sums) /\ Len(sums) \in Nat
    BY <1>1, <2>2, <2>3
  <2>5. QED
    BY <1>2, <2>1, <2>3, <2>4
<1>4. QED
  BY <1>3 DEF UnitIInv, UnitEventsAgree

\* An entry more is one of the unit whose turn it is; it starts the unit, or it tells
\* of the unit that runs what its summary does.
LEMMA JournalGrows ==
  ASSUME UnitIInv, NEW s \in UnitStatuses \cup {"started"},
         journal' = Append(journal, [unit |-> i, status |-> s]),
         s = "started" => sums' = sums,
         s # "started" => unit = "running" /\ sums' = Append(sums, s)
  PROVE  UnitEventsAgree'
<1> DEFINE E == [unit : Nat, status : UnitStatuses \cup {"started"}]
<1>1. journal \in Seq(E) /\ sums \in Seq(UnitStatuses) /\ i \in Nat /\ Len(sums) = i - 1
  BY UnitJobAssumption DEF UnitIInv, UnitTypeOK
<1>2. PICK e \in E : e = [unit |-> i, status |-> s]
  BY <1>1
<1>3. e.unit = i /\ e.status = s
  BY <1>2
<1>4. PICK L \in Nat : L = Len(journal)
  BY <1>1
<1>5. /\ Len(journal') = L + 1 /\ journal'[L + 1] = e
      /\ \A n \in 1..L : journal'[n] = journal[n]
  BY <1>1, <1>2, <1>4
<1>6. \A n \in 1..L : journal[n].unit \in Nat /\ journal[n].unit <= i
  BY <1>1, <1>4 DEF UnitIInv, JournalAt
<1>7. ASSUME NEW k \in 1..L, journal[k].status # "started"
      PROVE  journal[k].unit <= Len(sums') /\ sums'[journal[k].unit] = journal[k].status
  <2>1. PICK n : n = journal[k].unit
    OBVIOUS
  <2>2. n \in 1..i
    BY <1>4, <2>1 DEF UnitIInv, JournalAt
  <2>3. n <= Len(sums) /\ sums[n] = journal[k].status
    BY <1>4, <1>7, <2>1 DEF UnitIInv, UnitEventsAgree
  <2>4. n \in 1..Len(sums) /\ Len(sums) \in Nat
    BY <1>1, <2>2, <2>3
  <2>5. CASE s = "started"
    BY <2>1, <2>3, <2>5
  <2>6. CASE s # "started"
    <3>1. s \in UnitStatuses /\ sums' = Append(sums, s)
      BY <2>6
    <3>2. Len(sums') = Len(sums) + 1 /\ sums'[n] = sums[n]
      BY <1>1, <2>4, <3>1
    <3>3. QED
      BY <2>1, <2>3, <2>4, <3>2
  <2>7. QED
    BY <2>5, <2>6
<1>8. ASSUME s # "started"
      PROVE  /\ L > 0 /\ journal[L] = [unit |-> i, status |-> "started"]
             /\ i <= Len(sums') /\ sums'[i] = s
  <2>1. s \in UnitStatuses /\ sums' = Append(sums, s) /\ unit = "running"
    BY <1>8
  <2>2. Len(sums') = i /\ sums'[i] = s
    BY <1>1, <2>1
  <2>3. QED
    BY <1>1, <1>4, <2>1, <2>2 DEF UnitIInv, JournalAt
<1>9. ASSUME NEW k \in 1..L
      PROVE  /\ journal[k].status # "started" =>
                  k > 1 /\ journal[k - 1] = [unit |-> journal[k].unit, status |-> "started"]
             /\ \A n \in 1..(k - 1) : journal[n].unit <= journal[k].unit
  BY <1>4 DEF UnitIInv, UnitEventsAgree
<1>10. ASSUME NEW k \in 1..(L + 1)
       PROVE  /\ journal'[k].status # "started" =>
                   /\ k > 1 /\ journal'[k - 1] = [unit |-> journal'[k].unit, status |-> "started"]
                   /\ journal'[k].unit <= Len(sums') /\ sums'[journal'[k].unit] = journal'[k].status
              /\ \A n \in 1..(k - 1) : journal'[n].unit <= journal'[k].unit
  <2>1. CASE k = L + 1
    <3>1. journal'[k].unit = i /\ journal'[k].status = s
      BY <1>3, <1>5, <2>1
    <3>2. ASSUME s # "started" PROVE k > 1 /\ journal'[k - 1] = [unit |-> i, status |-> "started"]
      BY <1>5, <1>8, <2>1, <3>2
    <3>3. \A n \in 1..(k - 1) : journal'[n].unit <= i
      BY <1>5, <1>6, <2>1
    <3>4. QED
      BY <1>8, <3>1, <3>2, <3>3
  <2>2. CASE k # L + 1
    <3>1. k \in 1..L /\ \A n \in 1..(k - 1) : n \in 1..L
      BY <2>2
    <3>2. journal'[k] = journal[k] /\ \A n \in 1..(k - 1) : journal'[n] = journal[n]
      BY <1>5, <3>1
    <3>3. ASSUME journal[k].status # "started"
          PROVE  k > 1 /\ journal'[k - 1] = [unit |-> journal[k].unit, status |-> "started"]
      <4>1. k > 1 /\ journal[k - 1] = [unit |-> journal[k].unit, status |-> "started"]
        BY <1>9, <3>1, <3>3
      <4>2. k - 1 \in 1..(k - 1)
        BY <4>1
      <4>3. QED
        BY <3>2, <4>1, <4>2
    <3>4. \A n \in 1..(k - 1) : journal'[n].unit <= journal'[k].unit
      BY <1>9, <3>1, <3>2
    <3>5. QED
      BY <1>7, <3>1, <3>2, <3>3, <3>4
  <2>3. QED
    BY <2>1, <2>2
<1>11. QED
  BY <1>5, <1>10 DEF UnitEventsAgree
-----------------------------------------------------------------------------
\* JobsAPI.Run: a map with an error ends the job before there is one.
LEMMA UnitRun == ASSUME UnitIInv, Run PROVE UnitIInv'
<1>1. UnitTypeOK'
  <2>1. Validate(units) \in {"none", "000002", "130002", "130011", "130013"}
    BY UnitJobAssumption, ValidMap DEF UnitIInv, UnitTypeOK
  <2>2. PICK T : T = {"started", "finished"} \X (JobStatuses \cup {"none"})
    OBVIOUS
  <2>3. emitted' \in Seq(T)
    <3>1. PICK e \in T : e = <<"started", "none">>
      BY <2>2
    <3>2. emitted' = emitted \/ emitted' = <<e>>
      BY <3>1 DEF Run
    <3>3. emitted \in Seq(T)
      BY <2>2 DEF UnitIInv, UnitTypeOK
    <3>4. <<e>> \in Seq(T)
      OBVIOUS
    <3>5. QED
      BY <3>2, <3>3, <3>4
  <2>4. pc' \in {"units", "returned"} /\ snap' \in {snap, "running"}
    BY DEF Run
  <2>5. error' \in {"none", "000002", "130002", "130011", "130012", "130013"}
    BY <2>1 DEF UnitIInv, Run, UnitTypeOK
  <2>6. UNCHANGED <<units, i, unit, sums, status, ctx, isCancelled, cancelling, journal, late>>
    BY DEF Run
  <2>7. QED
    BY <2>2, <2>3, <2>4, <2>5, <2>6 DEF UnitIInv, UnitTypeOK
<1>2. CancelSticks' /\ UnitLocated' /\ UnitStages' /\ LateIsPast'
  BY UnitJobAssumption DEF UnitIInv, Run, CancelSticks, UnitLocated, UnitStages, LateIsPast,
      UnitTypeOK, Stopped, JobStatuses
<1>3. Tells(status)' /\ Tells(snap)'
  BY UnitJobAssumption DEF UnitIInv, Run, Tells, UnitStages, UnitTypeOK, UnitLocated
<1>4. UnitEventsAgree' /\ JournalAt'
  BY UnitJobAssumption DEF UnitIInv, Run, UnitEventsAgree, JournalAt, UnitTypeOK, UnitLocated
<1>5. QED
  BY <1>1, <1>2, <1>3, <1>4 DEF UnitIInv

\* The head of the loop.
LEMMA UnitHead == ASSUME UnitIInv, NextUnit PROVE UnitIInv'
<1>1. UnitTypeOK'
  BY UnitJobAssumption DEF UnitIInv, NextUnit, Stopped, UnitTypeOK, UnitStatuses, JobStatuses,
      UnitLocated, UnitStages
<1>2. CancelSticks' /\ UnitLocated' /\ UnitStages' /\ LateIsPast'
  BY UnitJobAssumption DEF UnitIInv, NextUnit, Stopped, CancelSticks, UnitLocated, UnitStages,
      LateIsPast, UnitTypeOK, JobStatuses
<1>3. Tells(status)' /\ Tells(snap)'
  BY UnitJobAssumption DEF UnitIInv, NextUnit, Stopped, Tells, UnitStages, UnitTypeOK,
      UnitLocated
<1>4. UnitEventsAgree' /\ JournalAt'
  BY UnitJobAssumption DEF UnitIInv, NextUnit, Stopped, UnitEventsAgree, JournalAt, UnitTypeOK,
      UnitLocated
<1>5. QED
  BY <1>1, <1>2, <1>3, <1>4 DEF UnitIInv

\* A unit whose context has ended.
LEMMA UnitSkip == ASSUME UnitIInv, UnitSkips PROVE UnitIInv'
<1>1. UnitTypeOK'
  BY UnitJobAssumption DEF UnitIInv, UnitSkips, UnitResult, CtxStatus, UnitTypeOK, UnitStatuses,
      JobStatuses, UnitLocated, UnitStages
<1>2. CancelSticks' /\ UnitLocated' /\ UnitStages' /\ LateIsPast'
  BY UnitJobAssumption DEF UnitIInv, UnitSkips, UnitResult, CtxStatus, CancelSticks, UnitLocated,
      UnitStages, LateIsPast, UnitTypeOK, Stopped, JobStatuses
<1>3. Tells(status)' /\ Tells(snap)'
  BY UnitJobAssumption DEF UnitIInv, UnitSkips, UnitResult, CtxStatus, Tells, UnitStages,
      UnitTypeOK, UnitLocated
<1>4. UnitEventsAgree' /\ JournalAt'
  <2>1. UnitEventsAgree'
    BY SumsGrow DEF UnitIInv, UnitSkips, UnitResult, CtxStatus, UnitStatuses
  <2>2. JournalAt'
    <3>1. i \in Nat /\ i' = i + 1 /\ journal' = journal /\ unit' = "idle" /\ unit = "enter"
      BY UnitJobAssumption DEF UnitIInv, UnitTypeOK, UnitSkips, UnitResult
    <3>2. \A k \in 1..Len(journal) : journal[k].unit \in 1..i
      BY DEF UnitIInv, JournalAt
    <3>3. \A k \in 1..Len(journal) : journal[k].unit \in 1..(i + 1) /\ journal[k].unit < i + 1
      BY <3>1, <3>2
    <3>4. QED
      BY <3>1, <3>3 DEF JournalAt
  <2>3. QED
    BY <2>1, <2>2
<1>5. QED
  BY <1>1, <1>2, <1>3, <1>4 DEF UnitIInv

\* A unit that panics.
LEMMA UnitPanic == ASSUME UnitIInv, UnitPanics PROVE UnitIInv'
<1>1. UnitTypeOK'
  BY UnitJobAssumption DEF UnitIInv, UnitPanics, UnitResult, UnitTypeOK, UnitStatuses,
      JobStatuses, UnitLocated, UnitStages
<1>2. CancelSticks' /\ UnitLocated' /\ UnitStages' /\ LateIsPast'
  BY UnitJobAssumption DEF UnitIInv, UnitPanics, UnitResult, CancelSticks, UnitLocated,
      UnitStages, LateIsPast, UnitTypeOK, Stopped, JobStatuses
<1>3. Tells(status)' /\ Tells(snap)'
  BY UnitJobAssumption DEF UnitIInv, UnitPanics, UnitResult, Tells, UnitStages, UnitTypeOK,
      UnitLocated
<1>4. UnitEventsAgree' /\ JournalAt'
  <2>1. UnitEventsAgree'
    BY SumsGrow DEF UnitIInv, UnitPanics, UnitResult, UnitStatuses
  <2>2. JournalAt'
    BY DEF UnitIInv, UnitPanics, UnitResult, JournalAt, UnitTypeOK
  <2>3. QED
    BY <2>1, <2>2
<1>5. QED
  BY <1>1, <1>2, <1>3, <1>4 DEF UnitIInv

\* A unit that returns an error.
LEMMA UnitReject ==
  ASSUME UnitIInv, NEW f \in BOOLEAN, NEW g \in BOOLEAN, UnitRejected(f, g)
  PROVE UnitIInv'
<1>1. UnitTypeOK'
  BY UnitJobAssumption, UnitCodes DEF UnitIInv, UnitRejected, UnitRaises, UnitTypeOK,
      UnitStatuses, JobStatuses, UnitLocated, UnitStages
<1>2. CancelSticks' /\ UnitLocated' /\ UnitStages' /\ LateIsPast'
  BY UnitJobAssumption DEF UnitIInv, UnitRejected, UnitRaises, CancelSticks, UnitLocated,
      UnitStages, LateIsPast, UnitTypeOK, Stopped, JobStatuses
<1>3. Tells(status)' /\ Tells(snap)'
  BY UnitJobAssumption DEF UnitIInv, UnitRejected, UnitRaises, Tells, UnitStages, UnitTypeOK,
      UnitLocated
<1>4. UnitEventsAgree' /\ JournalAt'
  BY UnitJobAssumption DEF UnitIInv, UnitRejected, UnitRaises, UnitEventsAgree, JournalAt,
      UnitTypeOK, UnitLocated
<1>5. QED
  BY <1>1, <1>2, <1>3, <1>4 DEF UnitIInv

\* A unit that starts.
LEMMA UnitStart ==
  ASSUME UnitIInv, NEW f \in BOOLEAN, NEW g \in BOOLEAN, UnitStarts(f, g)
  PROVE UnitIInv'
<1>1. UnitTypeOK'
  BY UnitJobAssumption DEF UnitIInv, UnitStarts, Journal, UnitTypeOK, UnitStatuses, JobStatuses,
      UnitLocated, UnitStages
<1>2. CancelSticks' /\ UnitLocated' /\ UnitStages' /\ LateIsPast'
  BY UnitJobAssumption DEF UnitIInv, UnitStarts, Journal, CancelSticks, UnitLocated, UnitStages,
      LateIsPast, UnitTypeOK, Stopped, JobStatuses
<1>3. Tells(status)' /\ Tells(snap)'
  BY UnitJobAssumption DEF UnitIInv, UnitStarts, Journal, Tells, UnitStages, UnitTypeOK,
      UnitLocated
<1>4. UnitEventsAgree' /\ JournalAt'
  <2>1. UnitEventsAgree'
    BY JournalGrows DEF UnitStarts, Journal
  <2>2. JournalAt'
    <3>1. PICK e : e = [unit |-> i, status |-> "started"]
      OBVIOUS
    <3>2. /\ journal \in Seq([unit : Nat, status : UnitStatuses \cup {"started"}])
          /\ i \in Nat \ {0} /\ i' = i /\ unit = "enter" /\ unit' = "running"
          /\ journal' = Append(journal, e)
      BY <3>1, UnitJobAssumption DEF UnitIInv, UnitTypeOK, UnitStarts, Journal
    <3>3. PICK L \in Nat : L = Len(journal)
      BY <3>2
    <3>4. e \in [unit : Nat, status : UnitStatuses \cup {"started"}] /\ e.unit = i
      BY <3>1, <3>2
    <3>5. Len(journal') = L + 1 /\ journal'[L + 1] = e /\ \A k \in 1..L : journal'[k] = journal[k]
      BY <3>2, <3>3, <3>4
    <3>6. \A k \in 1..L : journal[k].unit \in 1..i /\ journal[k].unit < i
      BY <3>2, <3>3 DEF UnitIInv, JournalAt
    <3>7. \A k \in 1..(L + 1) : journal'[k].unit \in 1..i
      BY <3>2, <3>4, <3>5, <3>6
    <3>8. \A k \in 1..L : journal'[k].unit < i
      BY <3>5, <3>6
    <3>9. QED
      BY <3>1, <3>2, <3>3, <3>5, <3>7, <3>8 DEF JournalAt
  <2>3. QED
    BY <2>1, <2>2
<1>5. QED
  BY <1>1, <1>2, <1>3, <1>4 DEF UnitIInv

\* A unit that ends.
LEMMA UnitEnd ==
  ASSUME UnitIInv, NEW s \in UnitStatuses, UnitEnds(s)
  PROVE UnitIInv'
<1>1. UnitTypeOK'
  BY UnitJobAssumption DEF UnitIInv, UnitEnds, Journal, UnitResult, UnitTypeOK, UnitStatuses,
      JobStatuses, UnitLocated, UnitStages
<1>2. CancelSticks' /\ UnitLocated' /\ UnitStages' /\ LateIsPast'
  BY UnitJobAssumption DEF UnitIInv, UnitEnds, Journal, UnitResult, CancelSticks, UnitLocated,
      UnitStages, LateIsPast, UnitTypeOK, Stopped, JobStatuses
<1>3. Tells(status)' /\ Tells(snap)'
  BY UnitJobAssumption DEF UnitIInv, UnitEnds, Journal, UnitResult, Tells, UnitStages,
      UnitTypeOK, UnitLocated
<1>4. UnitEventsAgree' /\ JournalAt'
  <2>1. UnitEventsAgree'
    BY JournalGrows DEF UnitEnds, UnitResult, Journal, UnitStatuses
  <2>2. JournalAt'
    <3>1. /\ journal \in Seq([unit : Nat, status : UnitStatuses \cup {"started"}])
          /\ i \in Nat \ {0} /\ i' = i + 1 /\ unit' = "idle"
          /\ journal' = Append(journal, [unit |-> i, status |-> s])
      BY UnitJobAssumption DEF UnitIInv, UnitTypeOK, UnitEnds, UnitResult, Journal
    <3>2. \A k \in 1..Len(journal) : journal[k].unit \in 1..i
      BY DEF UnitIInv, JournalAt
    <3>3. \A k \in 1..Len(journal') : journal'[k].unit \in 1..i
      BY <3>1, <3>2
    <3>4. QED
      BY <3>1, <3>3 DEF JournalAt
  <2>3. QED
    BY <2>1, <2>2
<1>5. QED
  BY <1>1, <1>2, <1>3, <1>4 DEF UnitIInv

\* The status of the job.
LEMMA UnitClassify == ASSUME UnitIInv, Classify PROVE UnitIInv'
<1>1. UnitTypeOK'
  BY UnitJobAssumption DEF UnitIInv, Classify, UnitTypeOK, UnitStatuses, JobStatuses,
      UnitLocated, UnitStages, StatusOf
<1>2. CancelSticks' /\ UnitLocated' /\ UnitStages' /\ LateIsPast'
  BY UnitJobAssumption DEF UnitIInv, Classify, CancelSticks, UnitLocated, UnitStages, LateIsPast,
      UnitTypeOK, Stopped, JobStatuses, StatusOf
<1>3. Tells(status)' /\ Tells(snap)'
  <2>1. Len(sums) = i - 1 /\ i \in 1..(Len(units) + 1) /\ Len(units) \in Nat
    BY UnitJobAssumption DEF UnitIInv, UnitTypeOK
  <2>2. Len(units) > 0
    BY UnitJobAssumption, ValidMap DEF UnitIInv, UnitTypeOK, UnitStages, Classify
  <2>3. ~Stopped => Len(sums) = Len(units)
    BY <2>1 DEF UnitIInv, UnitStages, Classify
  <2>4. Tells(StatusOf)
    BY <2>1, <2>2, <2>3 DEF Tells, StatusOf, AnyErr, Some
  <2>5. status' = StatusOf /\ UNCHANGED <<units, sums, snap>>
    BY DEF Classify
  <2>6. QED
    BY <2>4, <2>5 DEF UnitIInv, Tells
<1>4. UnitEventsAgree' /\ JournalAt'
  BY UnitJobAssumption DEF UnitIInv, Classify, UnitEventsAgree, JournalAt, UnitTypeOK,
      UnitLocated
<1>5. QED
  BY <1>1, <1>2, <1>3, <1>4 DEF UnitIInv

\* Its last event.
LEMMA UnitEmit == ASSUME UnitIInv, Emit PROVE UnitIInv'
<1>1. UnitTypeOK'
  BY UnitJobAssumption DEF UnitIInv, Emit, UnitTypeOK, UnitStatuses, JobStatuses, UnitLocated,
      UnitStages
<1>2. CancelSticks' /\ UnitLocated' /\ UnitStages' /\ LateIsPast'
  BY UnitJobAssumption DEF UnitIInv, Emit, CancelSticks, UnitLocated, UnitStages, LateIsPast,
      UnitTypeOK, Stopped, JobStatuses
<1>3. Tells(status)' /\ Tells(snap)'
  BY UnitJobAssumption DEF UnitIInv, Emit, Tells, UnitStages, UnitTypeOK, UnitLocated
<1>4. UnitEventsAgree' /\ JournalAt'
  BY UnitJobAssumption DEF UnitIInv, Emit, UnitEventsAgree, JournalAt, UnitTypeOK, UnitLocated
<1>5. QED
  BY <1>1, <1>2, <1>3, <1>4 DEF UnitIInv

\* Its snapshot.
LEMMA UnitStore == ASSUME UnitIInv, Store PROVE UnitIInv'
<1>1. UnitTypeOK'
  BY UnitJobAssumption DEF UnitIInv, Store, Final, UnitTypeOK, UnitStatuses, JobStatuses,
      UnitLocated, UnitStages
<1>2. CancelSticks' /\ UnitLocated' /\ UnitStages' /\ LateIsPast'
  BY UnitJobAssumption DEF UnitIInv, Store, Final, CancelSticks, UnitLocated, UnitStages,
      LateIsPast, UnitTypeOK, Stopped, JobStatuses
<1>3. Tells(status)' /\ Tells(snap)'
  BY UnitJobAssumption DEF UnitIInv, Store, Final, Tells, UnitStages, UnitTypeOK, UnitLocated
<1>4. UnitEventsAgree' /\ JournalAt'
  BY UnitJobAssumption DEF UnitIInv, Store, Final, UnitEventsAgree, JournalAt, UnitTypeOK,
      UnitLocated
<1>5. QED
  BY <1>1, <1>2, <1>3, <1>4 DEF UnitIInv

\* Cancel, of a job that runs or has ended.
LEMMA UnitCancel == ASSUME UnitIInv, CancelJob PROVE UnitIInv'
<1>1. UnitTypeOK'
  BY UnitJobAssumption DEF UnitIInv, CancelJob, jobVars, UnitTypeOK, UnitStatuses, JobStatuses,
      UnitLocated, UnitStages
<1>2. CancelSticks' /\ UnitLocated' /\ UnitStages' /\ LateIsPast'
  BY UnitJobAssumption DEF UnitIInv, CancelJob, jobVars, CancelSticks, UnitLocated, UnitStages,
      LateIsPast, UnitTypeOK, Stopped, JobStatuses
<1>3. Tells(status)' /\ Tells(snap)'
  BY UnitJobAssumption DEF UnitIInv, CancelJob, jobVars, Tells, UnitStages, UnitTypeOK,
      UnitLocated
<1>4. UnitEventsAgree' /\ JournalAt'
  BY UnitJobAssumption DEF UnitIInv, CancelJob, jobVars, UnitEventsAgree, JournalAt, UnitTypeOK,
      UnitLocated
<1>5. QED
  BY <1>1, <1>2, <1>3, <1>4 DEF UnitIInv

\* The CancelFunc.
LEMMA UnitCancelFire == ASSUME UnitIInv, CancelJobFire PROVE UnitIInv'
<1>1. UnitTypeOK'
  <2>1. ctx' \in {"live", "cancelled", "deadline"}
    BY DEF UnitIInv, UnitTypeOK, CancelJobFire
  <2>2. {isCancelled', cancelling'} \subseteq BOOLEAN
    BY Zenon DEF UnitIInv, UnitTypeOK, CancelJobFire
  <2>3. UNCHANGED <<jobVars, snap, emitted, journal, late>>
    BY DEF CancelJobFire
  <2>4. QED
    BY <2>1, <2>2, <2>3 DEF UnitIInv, UnitTypeOK, jobVars
<1>2. CancelSticks' /\ UnitLocated' /\ UnitStages' /\ LateIsPast'
  BY UnitJobAssumption DEF UnitIInv, CancelJobFire, jobVars, CancelSticks, UnitLocated,
      UnitStages, LateIsPast, UnitTypeOK, Stopped, JobStatuses
<1>3. Tells(status)' /\ Tells(snap)'
  BY UnitJobAssumption DEF UnitIInv, CancelJobFire, jobVars, Tells, UnitStages, UnitTypeOK,
      UnitLocated
<1>4. UnitEventsAgree' /\ JournalAt'
  BY UnitJobAssumption DEF UnitIInv, CancelJobFire, jobVars, UnitEventsAgree, JournalAt,
      UnitTypeOK, UnitLocated
<1>5. QED
  BY <1>1, <1>2, <1>3, <1>4 DEF UnitIInv

\* The end of the context.
LEMMA UnitCtx ==
  ASSUME UnitIInv, NEW h \in {"cancelled", "deadline"}, CtxEnds(h)
  PROVE UnitIInv'
<1>1. UnitTypeOK'
  BY UnitJobAssumption DEF UnitIInv, CtxEnds, jobVars, UnitTypeOK, UnitStatuses, JobStatuses,
      UnitLocated, UnitStages
<1>2. CancelSticks' /\ UnitLocated' /\ UnitStages' /\ LateIsPast'
  BY UnitJobAssumption DEF UnitIInv, CtxEnds, jobVars, CancelSticks, UnitLocated, UnitStages,
      LateIsPast, UnitTypeOK, Stopped, JobStatuses
<1>3. Tells(status)' /\ Tells(snap)'
  BY UnitJobAssumption DEF UnitIInv, CtxEnds, jobVars, Tells, UnitStages, UnitTypeOK,
      UnitLocated
<1>4. UnitEventsAgree' /\ JournalAt'
  BY UnitJobAssumption DEF UnitIInv, CtxEnds, jobVars, UnitEventsAgree, JournalAt, UnitTypeOK,
      UnitLocated
<1>5. QED
  BY <1>1, <1>2, <1>3, <1>4 DEF UnitIInv

\* A step of another part of the program.
LEMMA UnitStutter == ASSUME UnitIInv, UNCHANGED unitVars PROVE UnitIInv'
<1>1. UnitTypeOK'
  BY UnitJobAssumption DEF UnitIInv, unitVars, jobVars, UnitTypeOK, UnitStatuses, JobStatuses,
      UnitLocated, UnitStages
<1>2. CancelSticks' /\ UnitLocated' /\ UnitStages' /\ LateIsPast'
  BY UnitJobAssumption DEF UnitIInv, unitVars, jobVars, CancelSticks, UnitLocated, UnitStages,
      LateIsPast, UnitTypeOK, Stopped, JobStatuses
<1>3. Tells(status)' /\ Tells(snap)'
  BY UnitJobAssumption DEF UnitIInv, unitVars, jobVars, Tells, UnitStages, UnitTypeOK,
      UnitLocated
<1>4. UnitEventsAgree' /\ JournalAt'
  BY UnitJobAssumption DEF UnitIInv, unitVars, jobVars, UnitEventsAgree, JournalAt, UnitTypeOK,
      UnitLocated
<1>5. QED
  BY <1>1, <1>2, <1>3, <1>4 DEF UnitIInv


LEMMA UnitStep == ASSUME UnitIInv, [UnitNext]_unitVars PROVE UnitIInv'
<1>1. CASE UnitRunStep
  <2>1. ASSUME NEW s \in UnitStatuses, TurnEnds(s) \/ HopEnds(s) PROVE UnitIInv'
    BY <2>1, UnitEnd DEF TurnEnds, HopEnds
  <2>2. QED
    BY <1>1, <2>1, UnitRun, UnitHead, UnitSkip, UnitPanic, UnitReject, UnitStart, UnitClassify,
       UnitEmit, UnitStore DEF UnitRunStep
<1>2. CASE CancelJob \/ CancelJobFire \/ \E h \in {"cancelled", "deadline"} : CtxEnds(h)
  BY <1>2, UnitCancel, UnitCancelFire, UnitCtx
<1>3. CASE UNCHANGED unitVars
  BY <1>3, UnitStutter
<1>4. QED
  BY <1>1, <1>2, <1>3 DEF UnitNext

LEMMA UnitInvariant == UnitSpec => []UnitIInv
<1>1. ASSUME UnitInit PROVE UnitIInv
  <2>1. UnitTypeOK
    <3>1. Len(units) \in Nat
      BY <1>1, UnitJobAssumption DEF UnitInit
    <3>2. i \in 1..(Len(units) + 1) /\ Len(sums) = i - 1
      BY <1>1, <3>1 DEF UnitInit
    <3>3. \A T : <<>> \in Seq(T)
      OBVIOUS
    <3>4. QED
      BY <1>1, <3>2, <3>3 DEF UnitInit, UnitTypeOK
  <2>2. CancelSticks /\ UnitEventsAgree /\ UnitLocated /\ UnitStages /\ JournalAt /\ LateIsPast
    BY <1>1 DEF UnitInit, CancelSticks, UnitEventsAgree, UnitLocated, UnitStages, JournalAt,
       LateIsPast
  <2>3. Tells(status) /\ Tells(snap)
    BY <1>1 DEF UnitInit, Tells
  <2>4. QED
    BY <2>1, <2>2, <2>3 DEF UnitIInv
<1>2. QED
  BY <1>1, UnitStep, PTL DEF UnitSpec

\* For any unit maps: a map that runs is isolated, the summaries, the journal and the
\* status of the job tell the same of its units, and a Cancel is never written over.
THEOREM UnitsTellTheSame == UnitSpec => []UnitsInv
<1>1. ASSUME UnitIInv PROVE UnitsInv
  <2>1. StatusTellsUnits
    BY <1>1 DEF UnitIInv, Tells, StatusTellsUnits
  <2>2. QED
    BY <1>1, <2>1, Isolation DEF UnitIInv, UnitsInv
<1>2. QED
  BY <1>1, UnitInvariant, PTL

\* Cancel stops the job, however long its map: at most one unit starts after it.
THEOREM CancelStopsUnits == UnitSpec => []OneLateUnit
<1>1. UnitIInv => OneLateUnit
  BY DEF UnitIInv, LateIsPast, OneLateUnit
<1>2. QED
  BY <1>1, UnitInvariant, PTL
-----------------------------------------------------------------------------
(***************************************************************************)
(* A job watched over HTTP, JobsHTTP.  What was read, what is in the       *)
(* stream up to its first mark, and what is to be sent are consecutive.    *)
(***************************************************************************)

\* The first p pieces of the stream are events.
AllEvents(p) == \A q \in 1..p : stream[q].mark = "event"

\* Where the Watch and the handler are.
WatchStages ==
  /\ srv = "asked" <=> watchPc = "waiting"
  /\ srv = "serving" => watchPc = "reading" /\ known
  /\ srv # "serving" => toSend = <<>>
  /\ watchPc \in {"waiting", "reading"} => after = lastSeq
  /\ watchPc # "reading" => out = <<>> /\ (known => stream = <<>>)
  /\ known => \A p \in 1..Len(stream) :
       stream[p].mark \in {"eof", "reset"} => p = Len(stream) /\ srv # "serving"

\* Out, the stream up to its first mark and what is to be sent are consecutive.
Consecutive ==
  watchPc = "reading" =>
    /\ \A k \in 1..Len(out) : out[k] = after + k
    /\ \A p \in 1..Len(stream) : AllEvents(p) => stream[p].seq = after + Len(out) + p
    /\ AllEvents(Len(stream)) =>
         \A k \in 1..Len(toSend) : toSend[k] = after + Len(out) + Len(stream) + k

WatchIInv == WatchTypeOK /\ ResumeIsExact /\ WatchStages /\ Consecutive
-----------------------------------------------------------------------------
(* The filter and the scan. *)

\* The filter of Watch keeps a list of newer events as it is.
LEMMA FilterKeeps ==
  ASSUME NEW s \in Seq(Events), \A k \in 1..Len(s) : s[k] > after
  PROVE  Filtered(s) = s
<1>1. PICK n \in Nat : n = Len(s)
  OBVIOUS
<1> DEFINE Step(t, k) == IF s[k] > after THEN Append(t, s[k]) ELSE t
           loop == CHOOSE f : f = [k \in 0..n |-> IF k = 0 THEN <<>> ELSE Step(f[k - 1], k)]
           Front(k) == [j \in 1..k |-> s[j]]
<1>2. Filtered(s) = loop[n]
  BY <1>1 DEF Filtered
<1>3. \A t : \A k \in 1..n : Step(t, k) = Append(t, s[k])
  BY <1>1
<1> HIDE DEF Step
<1>4. ASSUME NEW k \in 0..n
      PROVE  Front(k) \in Seq(Events) /\ Len(Front(k)) = k /\ \A j \in 1..k : Front(k)[j] = s[j]
  <2>1. \A j \in 1..k : s[j] \in Events
    BY <1>1
  <2>2. QED
    BY <2>1
<1>5. Front(0) = <<>> /\ Front(n) = s
  BY <1>1
<1> HIDE DEF Front
<1>6. ASSUME NEW k \in 1..n PROVE Append(Front(k - 1), s[k]) = Front(k)
  <2>1. k - 1 \in 0..n /\ k \in 0..n /\ s[k] \in Events
    BY <1>1
  <2>2. PICK a, b, x : a = Front(k - 1) /\ b = Front(k) /\ x = s[k]
    OBVIOUS
  <2>3. /\ a \in Seq(Events) /\ Len(a) = k - 1 /\ \A j \in 1..(k - 1) : a[j] = s[j]
        /\ b \in Seq(Events) /\ Len(b) = k /\ \A j \in 1..k : b[j] = s[j]
    BY <1>4, <2>1, <2>2
  <2>4. PICK c : c = Append(a, x)
    OBVIOUS
  <2>5. c \in Seq(Events) /\ Len(c) = k /\ c[k] = x /\ \A j \in 1..(k - 1) : c[j] = a[j]
    BY <2>1, <2>2, <2>3, <2>4
  <2>6. \A j \in 1..k : c[j] = b[j]
    BY <2>2, <2>3, <2>5
  <2>7. c = b
    BY <2>3, <2>5, <2>6
  <2>8. QED
    BY <2>2, <2>4, <2>7
<1>7. PICK f : f = [k \in 0..n |-> Front(k)]
  OBVIOUS
<1>8. f = [k \in 0..n |-> IF k = 0 THEN <<>> ELSE Step(f[k - 1], k)]
  <2>1. ASSUME NEW k \in 1..n PROVE Front(k) = Step(f[k - 1], k)
    <3>1. f[k - 1] = Front(k - 1)
      BY <1>7
    <3>2. QED
      BY <1>3, <1>6, <3>1
  <2>2. \A k \in 0..n : Front(k) = IF k = 0 THEN <<>> ELSE Step(f[k - 1], k)
    BY <1>5, <2>1
  <2>3. QED
    BY <1>7, <2>2
<1>9. loop = [k \in 0..n |-> IF k = 0 THEN <<>> ELSE Step(loop[k - 1], k)]
  BY <1>8
<1>10. PICK g : g = loop
  OBVIOUS
<1> HIDE DEF loop
<1>11. g[0] = <<>> /\ \A k \in 1..n : g[k] = Step(g[k - 1], k)
  BY <1>9, <1>10
<1> DEFINE G == {k \in 0..n : g[k] = Front(k)}
<1>12. 0 \in G
  BY <1>5, <1>11
<1>13. ASSUME NEW k \in 1..n, k - 1 \in G PROVE k \in G
  <2>1. g[k - 1] = Front(k - 1)
    BY <1>13
  <2>2. g[k] = Front(k)
    BY <1>3, <1>6, <1>11, <2>1
  <2>3. QED
    BY <2>2
<1> HIDE DEF G
<1>14. n \in G
  BY <1>12, <1>13, Inductive
<1>15. QED
  BY <1>2, <1>5, <1>10, <1>14 DEF G

\* What a scan that goes on, or that ends well, has read.
LEMMA ScanOf ==
  ASSUME NEW m
  PROVE  /\ Scan(m).end = "no" => m.mark = "event" /\ Scan(m).out = Append(out, m.seq)
         /\ Scan(m).end = "ok" => m.mark = "eof"
BY DEF Scan, Decodes

\* Pieces of the stream.
LEMMA PieceTypes ==
  /\ \A k \in Marks : Mark(k) \in Pieces /\ Mark(k).mark = k
  /\ \A n \in Events : Ev(n) \in Pieces /\ Ev(n).mark = "event" /\ Ev(n).seq = n
BY DEF Mark, Ev, Pieces

\* A mark at the end of the stream: what comes after it is not looked at.
LEMMA Marked ==
  ASSUME WatchIInv, NEW L \in Nat, L = Len(stream), Len(stream') \in Nat, Len(stream') > L,
         \A p \in 1..L : stream'[p] = stream[p], stream'[L + 1].mark # "event",
         UNCHANGED <<watchPc, after, out>>
  PROVE  Consecutive'
<1>1. \A p \in 1..L : AllEvents(p)' => AllEvents(p)
  BY DEF AllEvents
<1>2. ASSUME NEW p \in 1..Len(stream'), p > L PROVE ~AllEvents(p)'
  <2>1. L + 1 \in 1..p
    BY <1>2
  <2>2. QED
    BY <2>1 DEF AllEvents
<1>3. ASSUME watchPc = "reading", NEW p \in 1..Len(stream'), AllEvents(p)'
      PROVE  stream'[p].seq = after + Len(out) + p
  <2>1. p \in 1..L
    BY <1>2, <1>3
  <2>2. stream[p].seq = after + Len(out) + p
    BY <1>1, <1>3, <2>1 DEF WatchIInv, Consecutive
  <2>3. QED
    BY <2>1, <2>2
<1>4. ~AllEvents(Len(stream))'
  <2>1. Len(stream') \in 1..Len(stream')
    OBVIOUS
  <2>2. QED
    BY <1>2, <2>1 DEF AllEvents
<1>5. QED
  BY <1>3, <1>4 DEF WatchIInv, Consecutive
-----------------------------------------------------------------------------
\* The job records an event.
LEMMA WatchJobEvent == ASSUME WatchIInv, JobEvent PROVE WatchIInv'
<1>1. WatchTypeOK'
  BY JobsHTTPAssumption DEF WatchIInv, JobEvent, watcher, WatchTypeOK, WatchStages, Events,
      Marks
<1>2. ResumeIsExact'
  BY JobsHTTPAssumption DEF WatchIInv, JobEvent, watcher, WatchTypeOK, WatchStages,
      ResumeIsExact
<1>3. WatchStages'
  BY JobsHTTPAssumption DEF WatchIInv, JobEvent, watcher, WatchTypeOK, WatchStages
<1>4. Consecutive'
  BY JobsHTTPAssumption DEF WatchIInv, JobEvent, watcher, WatchTypeOK, WatchStages, Consecutive,
      AllEvents
<1>5. QED
  BY <1>1, <1>2, <1>3, <1>4 DEF WatchIInv

\* The sidecar restarts.
LEMMA WatchRestart == ASSUME WatchIInv, Restart PROVE WatchIInv'
<1>1. WatchTypeOK'
  <2>1. Mark("reset") \in Pieces
    BY PieceTypes DEF Marks
  <2>2. stream' \in Seq(Pieces)
    BY <2>1 DEF WatchIInv, WatchTypeOK, Restart
  <2>3. watchPc' \in {watchPc, "idle"} /\ outcome' \in {outcome, "unavailable"}
    BY DEF Restart
  <2>4. faults' \in 0..MaxFaults
    BY JobsHTTPAssumption DEF WatchIInv, WatchTypeOK, Restart
  <2>5. /\ known' = FALSE /\ srv' = "idle" /\ toSend' = <<>>
        /\ UNCHANGED <<log, after, out, lastSeq, received, rtClosed>>
    BY DEF Restart
  <2>6. toSend' \in Seq(Events)
    BY <2>5
  <2>7. {known', rtClosed'} \subseteq BOOLEAN
    BY <2>5, Zenon DEF WatchIInv, WatchTypeOK
  <2>8. QED
    BY <2>2, <2>3, <2>4, <2>5, <2>6, <2>7 DEF WatchIInv, WatchTypeOK
<1>2. ResumeIsExact'
  BY JobsHTTPAssumption DEF WatchIInv, Restart, WatchTypeOK, WatchStages, ResumeIsExact
<1>3. WatchStages'
  BY JobsHTTPAssumption DEF WatchIInv, Restart, Mark, WatchTypeOK, WatchStages
<1>4. Consecutive'
  BY JobsHTTPAssumption DEF WatchIInv, Restart, Mark, WatchTypeOK, WatchStages, Consecutive,
      AllEvents
<1>5. QED
  BY <1>1, <1>2, <1>3, <1>4 DEF WatchIInv

\* The handler answers.
LEMMA WatchServe == ASSUME WatchIInv, Serve PROVE WatchIInv'
<1>1. WatchTypeOK'
  <2>1. \A k \in 1..(log - after) : after + k \in Events
    BY JobsHTTPAssumption DEF WatchIInv, WatchTypeOK, Events
  <2>2. Newer(after) \in Seq(Events)
    BY <2>1, JobsHTTPAssumption DEF WatchIInv, WatchTypeOK, Newer
  <2>3. QED
    BY <2>2 DEF WatchIInv, WatchTypeOK, Serve, sidecar, watcher
<1>2. ResumeIsExact'
  BY JobsHTTPAssumption DEF WatchIInv, Serve, sidecar, watcher, WatchTypeOK, WatchStages,
      ResumeIsExact
<1>3. WatchStages'
  BY JobsHTTPAssumption DEF WatchIInv, Serve, sidecar, watcher, WatchTypeOK, WatchStages
<1>4. Consecutive'
  <2>1. stream = <<>> /\ out = <<>> /\ after \in Nat /\ log \in Nat
    BY JobsHTTPAssumption DEF WatchIInv, WatchStages, WatchTypeOK, Serve
  <2>2. \A k \in 1..Len(Newer(after)) : Newer(after)[k] = after + k
    <3>1. CASE log >= after
      <4>1. PICK n \in Nat : n = log - after
        BY <2>1, <3>1
      <4>2. Newer(after) = [k \in 1..n |-> after + k]
        BY <4>1 DEF Newer
      <4>3. QED
        BY <4>2
    <3>2. CASE ~(log >= after)
      <4>1. 1..(log - after) = 1..0
        BY <2>1, <3>2
      <4>2. Newer(after) = [k \in 1..0 |-> after + k]
        BY <4>1 DEF Newer
      <4>3. QED
        BY <4>2
    <3>3. QED
      BY <3>1, <3>2
  <2>3. UNCHANGED <<stream, out, after>> /\ toSend' = Newer(after)
    BY DEF Serve
  <2>4. Len(stream') = 0 /\ Len(out') = 0
    BY <2>1, <2>3
  <2>5. \A k \in 1..Len(toSend') : toSend'[k] = after' + Len(out') + Len(stream') + k
    BY <2>1, <2>2, <2>3, <2>4
  <2>6. QED
    BY <2>4, <2>5 DEF Consecutive
<1>5. QED
  BY <1>1, <1>2, <1>3, <1>4 DEF WatchIInv

\* The handler knows no such job.
LEMMA WatchUnknown == ASSUME WatchIInv, ServeUnknown PROVE WatchIInv'
<1>1. WatchTypeOK'
  BY JobsHTTPAssumption DEF WatchIInv, ServeUnknown, sidecar, WatchTypeOK, WatchStages, Events,
      Marks
<1>2. ResumeIsExact'
  BY JobsHTTPAssumption DEF WatchIInv, ServeUnknown, sidecar, WatchTypeOK, WatchStages,
      ResumeIsExact
<1>3. WatchStages'
  BY JobsHTTPAssumption DEF WatchIInv, ServeUnknown, sidecar, WatchTypeOK, WatchStages
<1>4. Consecutive'
  BY JobsHTTPAssumption DEF WatchIInv, ServeUnknown, sidecar, WatchTypeOK, WatchStages,
      Consecutive, AllEvents
<1>5. QED
  BY <1>1, <1>2, <1>3, <1>4 DEF WatchIInv

\* The handler writes an event.
LEMMA WatchWrite == ASSUME WatchIInv, Write PROVE WatchIInv'
<1>1. WatchTypeOK'
  <2>1. toSend \in Seq(Events) /\ toSend # <<>>
    BY DEF WatchIInv, WatchTypeOK, Write
  <2>2. Head(toSend) \in Events /\ Tail(toSend) \in Seq(Events)
    BY <2>1
  <2>3. Ev(Head(toSend)) \in Pieces
    BY <2>2, PieceTypes
  <2>4. stream' \in Seq(Pieces)
    BY <2>3 DEF WatchIInv, WatchTypeOK, Write
  <2>5. QED
    BY <2>2, <2>4 DEF WatchIInv, WatchTypeOK, Write, sidecar, watcher
<1>2. ResumeIsExact'
  BY JobsHTTPAssumption DEF WatchIInv, Write, sidecar, watcher, WatchTypeOK, WatchStages,
      ResumeIsExact
<1>3. WatchStages'
  <2>1. PICK h \in Events : h = Head(toSend)
    BY DEF WatchIInv, WatchTypeOK, Write
  <2>2. PICK e \in Pieces : e = Ev(h) /\ e.mark = "event"
    BY PieceTypes
  <2>3. stream \in Seq(Pieces) /\ stream' = Append(stream, e)
    BY <2>1, <2>2 DEF WatchIInv, WatchTypeOK, Write
  <2>4. /\ Len(stream') = Len(stream) + 1 /\ stream'[Len(stream) + 1] = e
        /\ \A p \in 1..Len(stream) : stream'[p] = stream[p]
    BY <2>3
  <2>5. \A p \in 1..Len(stream) : stream[p].mark \notin {"eof", "reset"}
    BY DEF WatchIInv, WatchStages, Write
  <2>6. \A p \in 1..Len(stream') : stream'[p].mark \notin {"eof", "reset"}
    BY <2>2, <2>3, <2>4, <2>5
  <2>7. QED
    BY <2>6 DEF WatchIInv, WatchStages, Write, sidecar, watcher
<1>4. Consecutive'
  <2>1. /\ toSend \in Seq(Events) /\ toSend # <<>> /\ stream \in Seq(Pieces)
        /\ after \in Nat /\ Len(out) \in Nat
    BY JobsHTTPAssumption DEF WatchIInv, WatchTypeOK, Write
  <2>2. PICK h, t : h = Head(toSend) /\ t = Tail(toSend)
    OBVIOUS
  <2>3. /\ h = toSend[1] /\ h \in Events /\ Len(toSend) \in Nat \ {0} /\ Len(t) = Len(toSend) - 1
        /\ \A k \in 1..Len(t) : t[k] = toSend[k + 1]
    BY <2>1, <2>2
  <2>4. PICK e \in Pieces : e = Ev(h) /\ e.mark = "event" /\ e.seq = h
    BY <2>3, PieceTypes
  <2>5. PICK L \in Nat : L = Len(stream)
    BY <2>1
  <2>6. toSend' = t /\ stream' = Append(stream, e) /\ UNCHANGED <<after, out, watchPc>>
    BY <2>2, <2>4 DEF Write
  <2>7. Len(stream') = L + 1 /\ stream'[L + 1] = e /\ \A p \in 1..L : stream'[p] = stream[p]
    BY <2>1, <2>4, <2>5, <2>6
  <2>8. watchPc = "reading"
    BY DEF WatchIInv, WatchStages, Write
  <2>9. \A p \in 1..L : AllEvents(p)' => AllEvents(p)
    BY <2>7 DEF AllEvents
  <2>10. AllEvents(L + 1)' => AllEvents(L)
    BY <2>7 DEF AllEvents
  <2>11. AllEvents(L) => \A k \in 1..Len(toSend) : toSend[k] = after + Len(out) + L + k
    BY <2>5, <2>8 DEF WatchIInv, Consecutive
  <2>12. ASSUME NEW p \in 1..(L + 1), AllEvents(p)' PROVE stream'[p].seq = after + Len(out) + p
    <3>1. CASE p = L + 1
      <4>1. toSend[1] = after + Len(out) + L + 1
        BY <2>3, <2>10, <2>11, <2>12, <3>1
      <4>2. QED
        BY <2>1, <2>3, <2>4, <2>7, <3>1, <4>1
    <3>2. CASE p # L + 1
      <4>1. p \in 1..L
        BY <3>2
      <4>2. QED
        BY <2>5, <2>7, <2>8, <2>9, <2>12, <4>1 DEF WatchIInv, Consecutive
    <3>3. QED
      BY <3>1, <3>2
  <2>13. ASSUME AllEvents(L + 1)', NEW k \in 1..Len(t) PROVE t[k] = after + Len(out) + (L + 1) + k
    <3>1. k + 1 \in 1..Len(toSend)
      BY <2>3
    <3>2. toSend[k + 1] = after + Len(out) + L + (k + 1)
      BY <2>10, <2>11, <2>13, <3>1
    <3>3. QED
      BY <2>1, <2>3, <3>2
  <2>14. \A k \in 1..Len(out) : out[k] = after + k
    BY <2>8 DEF WatchIInv, Consecutive
  <2>15. QED
    BY <2>6, <2>7, <2>12, <2>13, <2>14 DEF Consecutive
<1>5. QED
  BY <1>1, <1>2, <1>3, <1>4 DEF WatchIInv

\* The handler returns.
LEMMA WatchReturn == ASSUME WatchIInv, ServeReturn PROVE WatchIInv'
<1>1. WatchTypeOK'
  BY JobsHTTPAssumption, PieceTypes DEF WatchIInv, ServeReturn, sidecar, watcher, WatchTypeOK,
      WatchStages, Events, Marks
<1>2. ResumeIsExact'
  BY JobsHTTPAssumption DEF WatchIInv, ServeReturn, sidecar, watcher, WatchTypeOK, WatchStages,
      ResumeIsExact
<1>3. WatchStages'
  BY JobsHTTPAssumption DEF WatchIInv, ServeReturn, sidecar, watcher, Mark, WatchTypeOK,
      WatchStages
<1>4. Consecutive'
  <2>1. PICK e \in Pieces : e = Mark("eof") /\ e.mark # "event"
    BY PieceTypes DEF Marks
  <2>2. stream \in Seq(Pieces) /\ stream' = Append(stream, e) /\ UNCHANGED <<watchPc, after, out>>
    BY <2>1 DEF WatchIInv, WatchTypeOK, ServeReturn
  <2>3. PICK L \in Nat : L = Len(stream)
    BY <2>2
  <2>4. Len(stream') = L + 1 /\ stream'[L + 1] = e /\ \A p \in 1..L : stream'[p] = stream[p]
    BY <2>2, <2>3
  <2>5. QED
    BY <2>1, <2>2, <2>3, <2>4, Marked
<1>5. QED
  BY <1>1, <1>2, <1>3, <1>4 DEF WatchIInv

\* The body ends early.
LEMMA WatchCut ==
  ASSUME WatchIInv, NEW half \in BOOLEAN, NEW how \in {"eof", "reset"}, Cut(half, how)
  PROVE WatchIInv'
<1> DEFINE b == Mark(how)
           a == IF half THEN Mark("half") ELSE b
<1>a. /\ a \in Pieces /\ b \in Pieces /\ a.mark # "event" /\ b.mark = how
      /\ half => a.mark = "half"
  BY PieceTypes DEF Marks
<1> HIDE DEF a, b
<1>b. stream \in Seq(Pieces)
  BY DEF WatchIInv, WatchTypeOK
<1>c. stream' = IF half THEN Append(Append(stream, a), b) ELSE Append(stream, a)
  <2>1. CASE half
    <3>1. stream' = stream \o <<a>> \o <<b>>
      BY <2>1 DEF Cut, a, b
    <3>2. PICK c : c = stream \o <<a>>
      OBVIOUS
    <3>3. c = Append(stream, a)
      BY <1>a, <1>b, <3>2
    <3>4. c \o <<b>> = Append(c, b)
      BY <1>a, <1>b, <3>3
    <3>5. QED
      BY <2>1, <3>1, <3>2, <3>3, <3>4
  <2>2. CASE ~half
    <3>1. stream' = stream \o <<>> \o <<a>>
      BY <2>2 DEF Cut, a, b
    <3>2. QED
      BY <1>a, <1>b, <2>2, <3>1
  <2>3. QED
    BY <2>1, <2>2
<1>d. PICK L \in Nat : L = Len(stream)
  BY <1>b
<1>e. /\ Len(stream') = IF half THEN L + 2 ELSE L + 1
      /\ stream'[L + 1] = a /\ (half => stream'[L + 2] = b)
      /\ \A p \in 1..L : stream'[p] = stream[p]
  BY <1>a, <1>b, <1>c, <1>d
<1>1. WatchTypeOK'
  <2>1. stream' \in Seq(Pieces)
    BY <1>a, <1>b, <1>c
  <2>2. QED
    BY <2>1, JobsHTTPAssumption DEF WatchIInv, WatchTypeOK, Cut, sidecar, watcher
<1>2. ResumeIsExact'
  BY JobsHTTPAssumption DEF WatchIInv, Cut, sidecar, watcher, WatchTypeOK, WatchStages,
      ResumeIsExact
<1>3. WatchStages'
  <2>1. \A p \in 1..L : stream[p].mark \notin {"eof", "reset"}
    BY <1>d DEF WatchIInv, WatchStages, Cut
  <2>2. ASSUME NEW p \in 1..Len(stream'), stream'[p].mark \in {"eof", "reset"} PROVE p = Len(stream')
    <3>1. p \notin 1..L
      BY <1>e, <2>1, <2>2
    <3>2. half => p # L + 1
      BY <1>a, <1>e, <2>2
    <3>3. QED
      BY <1>e, <3>1, <3>2
  <2>3. QED
    BY <2>2 DEF WatchIInv, WatchStages, Cut, sidecar, watcher
<1>4. Consecutive'
  <2>1. Len(stream') \in Nat /\ Len(stream') > L
    BY <1>e
  <2>2. UNCHANGED <<watchPc, after, out>>
    BY DEF Cut
  <2>3. QED
    BY <1>a, <1>d, <1>e, <2>1, <2>2, Marked
<1>5. QED
  BY <1>1, <1>2, <1>3, <1>4 DEF WatchIInv

\* An event arrives garbled.
LEMMA WatchGarble == ASSUME WatchIInv, Garble PROVE WatchIInv'
<1>1. WatchTypeOK'
  BY JobsHTTPAssumption, PieceTypes DEF WatchIInv, Garble, sidecar, watcher, WatchTypeOK,
      WatchStages, Events, Marks
<1>2. ResumeIsExact'
  BY JobsHTTPAssumption DEF WatchIInv, Garble, sidecar, watcher, WatchTypeOK, WatchStages,
      ResumeIsExact
<1>3. WatchStages'
  BY JobsHTTPAssumption DEF WatchIInv, Garble, sidecar, watcher, Mark, WatchTypeOK, WatchStages
<1>4. Consecutive'
  <2>1. PICK e \in Pieces : e = Mark("bad") /\ e.mark # "event"
    BY PieceTypes DEF Marks
  <2>2. stream \in Seq(Pieces) /\ stream' = Append(stream, e) /\ UNCHANGED <<watchPc, after, out>>
    BY <2>1 DEF WatchIInv, WatchTypeOK, Garble
  <2>3. PICK L \in Nat : L = Len(stream)
    BY <2>2
  <2>4. Len(stream') = L + 1 /\ stream'[L + 1] = e /\ \A p \in 1..L : stream'[p] = stream[p]
    BY <2>2, <2>3
  <2>5. QED
    BY <2>1, <2>2, <2>3, <2>4, Marked
<1>5. QED
  BY <1>1, <1>2, <1>3, <1>4 DEF WatchIInv

\* The client sends its request.
LEMMA WatchAsks == ASSUME WatchIInv, WatchOnce PROVE WatchIInv'
<1>1. WatchTypeOK'
  BY JobsHTTPAssumption DEF WatchIInv, WatchOnce, sidecar, WatchTypeOK, WatchStages, Events,
      Marks
<1>2. ResumeIsExact'
  BY JobsHTTPAssumption DEF WatchIInv, WatchOnce, sidecar, WatchTypeOK, WatchStages,
      ResumeIsExact
<1>3. WatchStages'
  BY JobsHTTPAssumption DEF WatchIInv, WatchOnce, sidecar, WatchTypeOK, WatchStages
<1>4. Consecutive'
  BY JobsHTTPAssumption DEF WatchIInv, WatchOnce, sidecar, WatchTypeOK, WatchStages, Consecutive,
      AllEvents
<1>5. QED
  BY <1>1, <1>2, <1>3, <1>4 DEF WatchIInv

\* The request fails.
LEMMA WatchRefused ==
  ASSUME WatchIInv, NEW e, Refused(e)
  PROVE WatchIInv'
<1>1. WatchTypeOK'
  BY JobsHTTPAssumption DEF WatchIInv, Refused, WatchFails, sidecar, WatchTypeOK, WatchStages,
      Events, Marks
<1>2. ResumeIsExact'
  BY JobsHTTPAssumption DEF WatchIInv, Refused, WatchFails, sidecar, WatchTypeOK, WatchStages,
      ResumeIsExact
<1>3. WatchStages'
  BY JobsHTTPAssumption DEF WatchIInv, Refused, WatchFails, sidecar, WatchTypeOK, WatchStages
<1>4. Consecutive'
  BY JobsHTTPAssumption DEF WatchIInv, Refused, WatchFails, sidecar, WatchTypeOK, WatchStages,
      Consecutive, AllEvents
<1>5. QED
  BY <1>1, <1>2, <1>3, <1>4 DEF WatchIInv

\* The client scans an event.
LEMMA WatchRead == ASSUME WatchIInv, Read PROVE WatchIInv'
<1> DEFINE h == Head(stream)
<1>a. stream \in Seq(Pieces) /\ stream # <<>> /\ watchPc = "reading"
  BY DEF WatchIInv, WatchTypeOK, Read
<1>b. /\ h \in Pieces /\ h = stream[1] /\ Len(stream) \in Nat \ {0}
      /\ Tail(stream) \in Seq(Pieces) /\ Len(Tail(stream)) = Len(stream) - 1
      /\ \A p \in 1..(Len(stream) - 1) : Tail(stream)[p] = stream[p + 1]
  BY <1>a
<1>c. h.mark = "event"
  BY ScanOf DEF Read

<1>d. /\ out' = Append(out, h.seq) /\ stream' = Tail(stream)
      /\ UNCHANGED <<sidecar, srv, toSend, watchPc, after, watcher, rtClosed, faults>>
  BY ScanOf DEF Read
<1>e. h.seq = after + Len(out) + 1 /\ h.seq \in Events /\ after \in Nat /\ out \in Seq(Events)
  <2>1. AllEvents(1)
    BY <1>b, <1>c DEF AllEvents
  <2>2. h.seq = after + Len(out) + 1
    BY <1>a, <1>b, <2>1 DEF WatchIInv, Consecutive
  <2>3. after \in Nat /\ out \in Seq(Events)
    BY JobsHTTPAssumption DEF WatchIInv, WatchTypeOK
  <2>4. h.seq \in Events \cup {0}
    BY <1>b DEF Pieces
  <2>5. QED
    BY <2>2, <2>3, <2>4
<1> HIDE DEF h
<1>1. WatchTypeOK'
  <2>1. out' \in Seq(Events)
    BY <1>d, <1>e
  <2>2. QED
    BY <1>b, <1>d, <2>1 DEF WatchIInv, WatchTypeOK, sidecar, watcher
<1>2. ResumeIsExact'
  BY <1>d DEF WatchIInv, ResumeIsExact, watcher
<1>3. WatchStages'
  <2>1. ASSUME known, NEW p \in 1..Len(stream'), stream'[p].mark \in {"eof", "reset"}
        PROVE  p = Len(stream') /\ srv # "serving"
    <3>1. p + 1 \in 1..Len(stream) /\ stream'[p] = stream[p + 1]
      BY <1>b, <1>d
    <3>2. p + 1 = Len(stream) /\ srv # "serving"
      BY <2>1, <3>1 DEF WatchIInv, WatchStages
    <3>3. PICK n \in Nat : n = Len(stream)
      BY <1>b
    <3>4. Len(stream') = n - 1
      BY <1>b, <1>d, <3>3
    <3>5. p \in 1..(n - 1) /\ p + 1 = n
      BY <3>2, <3>3, <3>4
    <3>6. QED
      BY <3>2, <3>4, <3>5
  <2>2. QED
    BY <1>a, <1>d, <2>1 DEF WatchIInv, WatchStages, sidecar, watcher
<1>4. Consecutive'
  <2>1. /\ Len(out') = Len(out) + 1 /\ out'[Len(out) + 1] = h.seq /\ Len(out) \in Nat
        /\ \A k \in 1..Len(out) : out'[k] = out[k]
    BY <1>d, <1>e
  <2>2. \A k \in 1..Len(out) : out[k] = after + k
    BY <1>a DEF WatchIInv, Consecutive
  <2>3. \A k \in 1..Len(out') : out'[k] = after + k
    BY <1>e, <2>1, <2>2
  <2>4. ASSUME NEW p \in 1..Len(stream), \A q \in 1..(p - 1) : stream'[q].mark = "event"
        PROVE  AllEvents(p)
    <3>1. ASSUME NEW q \in 1..p PROVE stream[q].mark = "event"
      <4>1. CASE q = 1
        BY <1>b, <1>c, <4>1
      <4>2. CASE q # 1
        <5>1. q - 1 \in 1..(p - 1) /\ q - 1 \in 1..(Len(stream) - 1)
          BY <1>b, <4>2
        <5>2. stream'[q - 1] = stream[q]
          BY <1>b, <1>d, <5>1
        <5>3. QED
          BY <2>4, <5>1, <5>2
      <4>3. QED
        BY <4>1, <4>2
    <3>2. QED
      BY <3>1 DEF AllEvents
  <2>5. ASSUME NEW p \in 1..Len(stream'), AllEvents(p)'
        PROVE  stream'[p].seq = after + Len(out') + p
    <3>1. p + 1 \in 1..Len(stream) /\ stream'[p] = stream[p + 1]
      BY <1>b, <1>d
    <3>2. AllEvents(p + 1)
      <4>1. \A q \in 1..p : stream'[q].mark = "event"
        BY <2>5 DEF AllEvents
      <4>2. 1..((p + 1) - 1) = 1..p
        BY <3>1
      <4>3. QED
        BY <2>4, <3>1, <4>1, <4>2
    <3>3. stream[p + 1].seq = after + Len(out) + (p + 1)
      BY <1>a, <3>1, <3>2 DEF WatchIInv, Consecutive
    <3>4. QED
      BY <1>e, <2>1, <3>1, <3>3
  <2>6. ASSUME AllEvents(Len(stream))', NEW k \in 1..Len(toSend)
        PROVE  toSend[k] = after + Len(out') + Len(stream') + k
    <3>1. AllEvents(Len(stream))
      BY <1>b, <2>4, <2>6, <1>d DEF AllEvents
    <3>2. toSend[k] = after + Len(out) + Len(stream) + k
      BY <1>a, <3>1 DEF WatchIInv, Consecutive
    <3>3. QED
      BY <1>b, <1>d, <1>e, <2>1, <3>2
  <2>7. QED
    BY <1>a, <1>d, <2>3, <2>5, <2>6 DEF Consecutive
<1>5. QED
  BY <1>1, <1>2, <1>3, <1>4 DEF WatchIInv

\* The client scans what is no event.
LEMMA WatchReadFails == ASSUME WatchIInv, ReadFails PROVE WatchIInv'
<1>1. WatchTypeOK'
  BY JobsHTTPAssumption DEF WatchIInv, ReadFails, WatchFails, sidecar, WatchTypeOK, WatchStages,
      Events, Marks
<1>2. ResumeIsExact'
  BY JobsHTTPAssumption DEF WatchIInv, ReadFails, WatchFails, sidecar, WatchTypeOK, WatchStages,
      ResumeIsExact
<1>3. WatchStages'
  BY JobsHTTPAssumption DEF WatchIInv, ReadFails, WatchFails, sidecar, WatchTypeOK, WatchStages
<1>4. Consecutive'
  BY JobsHTTPAssumption DEF WatchIInv, ReadFails, WatchFails, sidecar, WatchTypeOK, WatchStages,
      Consecutive, AllEvents
<1>5. QED
  BY <1>1, <1>2, <1>3, <1>4 DEF WatchIInv

\* The context ends.
LEMMA WatchReadCancelled == ASSUME WatchIInv, ReadCancelled PROVE WatchIInv'
<1>1. WatchTypeOK'
  BY JobsHTTPAssumption DEF WatchIInv, ReadCancelled, WatchFails, sidecar, WatchTypeOK,
      WatchStages, Events, Marks
<1>2. ResumeIsExact'
  BY JobsHTTPAssumption DEF WatchIInv, ReadCancelled, WatchFails, sidecar, WatchTypeOK,
      WatchStages, ResumeIsExact
<1>3. WatchStages'
  BY JobsHTTPAssumption DEF WatchIInv, ReadCancelled, WatchFails, sidecar, WatchTypeOK,
      WatchStages
<1>4. Consecutive'
  BY JobsHTTPAssumption DEF WatchIInv, ReadCancelled, WatchFails, sidecar, WatchTypeOK,
      WatchStages, Consecutive, AllEvents
<1>5. QED
  BY <1>1, <1>2, <1>3, <1>4 DEF WatchIInv

\* The watcher gets the events.
LEMMA WatchDeliver == ASSUME WatchIInv, Deliver PROVE WatchIInv'
<1> DEFINE h == Head(stream)
<1>a. stream \in Seq(Pieces) /\ stream # <<>> /\ watchPc = "reading"
  BY DEF WatchIInv, WatchTypeOK, Deliver
<1>b. /\ h \in Pieces /\ h = stream[1] /\ Len(stream) \in Nat \ {0}
      /\ Tail(stream) \in Seq(Pieces) /\ Len(Tail(stream)) = Len(stream) - 1
      /\ \A p \in 1..(Len(stream) - 1) : Tail(stream)[p] = stream[p + 1]
  BY <1>a
<1>c. h.mark = "eof"
  BY ScanOf DEF Deliver

<1> HIDE DEF h
<1>d. out \in Seq(Events) /\ after \in Nat /\ lastSeq = after /\ received \in Seq(Events)
  BY <1>a, JobsHTTPAssumption DEF WatchIInv, WatchTypeOK, WatchStages
<1>e. \A k \in 1..Len(out) : out[k] = after + k
  BY <1>a DEF WatchIInv, Consecutive
<1>f. Filtered(out) = out
  BY <1>d, <1>e, FilterKeeps
<1>g. /\ received' = received \o out
      /\ lastSeq' = IF out = <<>> THEN lastSeq ELSE out[Len(out)]
      /\ out' = <<>> /\ stream' = Tail(stream) /\ watchPc' = "idle" /\ outcome' = "ok"
      /\ UNCHANGED <<sidecar, srv, toSend, after, rtClosed, faults>>
  BY <1>f DEF Deliver
<1>1. WatchTypeOK'
  <2>1. received' \in Seq(Events) /\ out' \in Seq(Events)
    BY <1>d, <1>g
  <2>2. lastSeq' \in 0..LastEvent
    BY <1>d, <1>g, JobsHTTPAssumption DEF WatchIInv, WatchTypeOK, Events
  <2>3. QED
    BY <1>b, <1>g, <2>1, <2>2 DEF WatchIInv, WatchTypeOK, sidecar
<1>2. ResumeIsExact'
  <2>1. Len(received) = after /\ \A k \in 1..Len(received) : received[k] = k
    BY <1>d DEF WatchIInv, ResumeIsExact
  <2>2. /\ Len(received') = after + Len(out)
        /\ \A k \in 1..after : received'[k] = received[k]
        /\ \A k \in 1..Len(out) : received'[after + k] = out[k]
    <3>1. Len(received') = Len(received) + Len(out)
      BY <1>d, <1>g
    <3>2. \A k \in 1..Len(received) : received'[k] = received[k]
      BY <1>d, <1>g
    <3>3. ASSUME NEW k \in 1..Len(out) PROVE received'[Len(received) + k] = out[k]
      <4>1. Len(received) \in Nat /\ Len(out) \in Nat
        BY <1>d
      <4>2. Len(received) + k \in 1..(Len(received) + Len(out))
        BY <4>1
      <4>3. Len(received) + k > Len(received) /\ Len(received) + k - Len(received) = k
        BY <4>1
      <4>4. QED
        BY <1>d, <1>g, <4>2, <4>3, ConcatProperties
    <3>4. QED
      BY <2>1, <3>1, <3>2, <3>3
  <2>3. lastSeq' = after + Len(out)
    BY <1>d, <1>e, <1>g
  <2>4. ASSUME NEW k \in 1..(after + Len(out)) PROVE received'[k] = k
    <3>1. CASE k <= after
      BY <1>d, <2>1, <2>2, <3>1
    <3>2. CASE k > after
      <4>1. k - after \in 1..Len(out) /\ after + (k - after) = k
        BY <1>d, <3>2
      <4>2. QED
        BY <1>d, <1>e, <2>2, <4>1
    <3>3. QED
      BY <1>d, <3>1, <3>2
  <2>5. QED
    BY <2>2, <2>3, <2>4 DEF ResumeIsExact
<1>3. WatchStages'
  <2>1. ASSUME known PROVE Len(stream) = 1 /\ srv # "serving"
    <3>1. 1 \in 1..Len(stream) /\ stream[1].mark = "eof"
      BY <1>b, <1>c
    <3>2. QED
      BY <2>1, <3>1 DEF WatchIInv, WatchStages
  <2>2. known => stream' = <<>>
    BY <1>b, <1>g, <2>1
  <2>3. srv \notin {"asked", "serving"}
    BY <1>a, <2>1 DEF WatchIInv, WatchStages
  <2>4. QED
    BY <1>g, <2>2, <2>3 DEF WatchIInv, WatchStages, sidecar
<1>4. Consecutive'
  BY <1>g DEF Consecutive
<1>5. QED
  BY <1>1, <1>2, <1>3, <1>4 DEF WatchIInv

\* The runtime is closed.
LEMMA WatchClose == ASSUME WatchIInv, Close PROVE WatchIInv'
<1>1. WatchTypeOK'
  BY JobsHTTPAssumption DEF WatchIInv, Close, sidecar, watcher, WatchTypeOK, WatchStages, Events,
      Marks
<1>2. ResumeIsExact'
  BY JobsHTTPAssumption DEF WatchIInv, Close, sidecar, watcher, WatchTypeOK, WatchStages,
      ResumeIsExact
<1>3. WatchStages'
  BY JobsHTTPAssumption DEF WatchIInv, Close, sidecar, watcher, WatchTypeOK, WatchStages
<1>4. Consecutive'
  BY JobsHTTPAssumption DEF WatchIInv, Close, sidecar, watcher, WatchTypeOK, WatchStages,
      Consecutive, AllEvents
<1>5. QED
  BY <1>1, <1>2, <1>3, <1>4 DEF WatchIInv

\* A step of another part of the program.
LEMMA WatchStutter == ASSUME WatchIInv, UNCHANGED httpVars PROVE WatchIInv'
<1>1. WatchTypeOK'
  BY JobsHTTPAssumption DEF WatchIInv, httpVars, sidecar, watcher, WatchTypeOK, WatchStages,
      Events, Marks
<1>2. ResumeIsExact'
  BY JobsHTTPAssumption DEF WatchIInv, httpVars, sidecar, watcher, WatchTypeOK, WatchStages,
      ResumeIsExact
<1>3. WatchStages'
  BY JobsHTTPAssumption DEF WatchIInv, httpVars, sidecar, watcher, WatchTypeOK, WatchStages
<1>4. Consecutive'
  BY JobsHTTPAssumption DEF WatchIInv, httpVars, sidecar, watcher, WatchTypeOK, WatchStages,
      Consecutive, AllEvents
<1>5. QED
  BY <1>1, <1>2, <1>3, <1>4 DEF WatchIInv

LEMMA WatchStep == ASSUME WatchIInv, [WatchNext]_httpVars PROVE WatchIInv'
<1>1. CASE SidecarStep
  BY <1>1, WatchServe, WatchUnknown, WatchWrite, WatchReturn DEF SidecarStep
<1>2. CASE ClientStep
  BY <1>2, WatchAsks, WatchRead, WatchReadFails, WatchDeliver DEF ClientStep
<1>3. CASE JobEvent \/ Restart \/ Garble \/ ReadCancelled \/ Close
  BY <1>3, WatchJobEvent, WatchRestart, WatchGarble, WatchReadCancelled, WatchClose
<1>4. CASE \E half \in BOOLEAN, how \in {"eof", "reset"} : Cut(half, how)
  BY <1>4, WatchCut
<1>5. CASE \E e \in {"unavailable", "watch_failed", "cancelled"} : Refused(e)
  BY <1>5, WatchRefused
<1>6. CASE UNCHANGED httpVars
  BY <1>6, WatchStutter
<1>7. QED
  BY <1>1, <1>2, <1>3, <1>4, <1>5, <1>6 DEF WatchNext

\* However often the stream is cut, garbled or refused, and for any number of events, a
\* watcher that resumes from its last event gets every event once and in order.
THEOREM WatcherGetsEachOnce == WatchSpec => []WatchInv
<1>1. ASSUME WatchInit PROVE WatchIInv
  <2>1. WatchTypeOK
    <3>1. log \in 0..LastEvent /\ after \in 0..LastEvent /\ lastSeq \in 0..LastEvent
      BY <1>1, JobsHTTPAssumption DEF WatchInit
    <3>2. faults \in 0..MaxFaults
      BY <1>1, JobsHTTPAssumption DEF WatchInit
    <3>3. \A T : <<>> \in Seq(T)
      OBVIOUS
    <3>4. QED
      BY <1>1, <3>1, <3>2, <3>3 DEF WatchInit, WatchTypeOK
  <2>2. ResumeIsExact /\ WatchStages /\ Consecutive
    BY <1>1 DEF WatchInit, ResumeIsExact, WatchStages, Consecutive
  <2>3. QED
    BY <2>1, <2>2 DEF WatchIInv
<1>2. WatchIInv => WatchInv
  BY DEF WatchIInv, WatchInv
<1>3. QED
  BY <1>1, <1>2, WatchStep, PTL DEF WatchSpec
=============================================================================
