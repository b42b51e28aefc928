------------------------------- MODULE JobsMA -------------------------------
(***************************************************************************)
(* The Pattern A jobs runtime, src/adapters/jobsma/runtime.go.             *)
(*                                                                         *)
(* Run checks `closed` in one critical section and registers the job in a  *)
(* second one, then counts a worker goroutine in the wait group and starts *)
(* it.  The worker runs the engine and stores the final snapshot.  Cancel, *)
(* Watch and Close are called by other goroutines at any time.  One action *)
(* is one critical section of Runtime.mu, or one call made outside it.     *)
(*                                                                         *)
(* The engine (koten_multi_agent_golang) is external: it hands events to   *)
(* OnEvent numbered 1, 2, 3, ... in order, and RunJob returns some         *)
(* (OK, Partial, err) whether or not its context is cancelled.             *)
(***************************************************************************)
EXTENDS Naturals

CONSTANTS Jobs,       \* the jobs that callers submit, one Run call each
          Closers,    \* the goroutines that call Close, once each
          MaxEvents   \* bound: events the engine emits for one job

ASSUME MaxEventsAssumption == MaxEvents \in Nat

VARIABLES
  closed,      \* Runtime.closed
  cancels,     \* the jobs with an entry in Runtime.cancels, .events and .snaps
  cancelled,   \* the jobs whose entry in Runtime.cancelled is true
  snaps,       \* Runtime.snaps: what Get returns
  events,      \* the number of events recorded: Runtime.events[j] is 1..events[j]
  ctxDone,     \* the jobs whose jobCtx is cancelled
  runPc,       \* how far the Run call of the job has come
  worker,      \* how far the worker goroutine of the job has come
  local,       \* status and partial, the locals of finish
  firing,      \* the jobs for which a Cancel call is between unlock and cancel()
  closePc,     \* how far each Close call has come
  toCancel,    \* the slice `cancels` of each Close call, what is left of it
  atClose,     \* history: the jobs registered, and the workers live, when Close locked
  cursor,      \* the afterSeq that the job's watcher passes to Watch next
  got          \* how often Watch has delivered each event to the watcher

runVars   == <<runPc, cancels>>
workVars  == <<worker, local>>
closeVars == <<closed, closePc, toCancel, atClose>>
watchVars == <<cursor, got>>
vars == <<closed, cancels, cancelled, snaps, events, ctxDone, runPc, worker,
          local, firing, closePc, toCancel, atClose, cursor, got>>
-----------------------------------------------------------------------------
Terminal == {"ok", "partial", "error", "cancelled"}

Status == {"absent", "running"} \cup Terminal

\* ports.JobSnapshot, without the payload that no decision depends on.
Snapshot == [status : Status, partial : BOOLEAN, seq : 0..MaxEvents]

\* multiagent.JobResult.OK and .Partial, and whether RunJob returned an error.
Result == [ok : BOOLEAN, partial : BOOLEAN, err : BOOLEAN]

\* The locals of finish before it takes the lock the second time.
Local == [status : Terminal, partial : BOOLEAN]

NoLocal == [status |-> "ok", partial |-> FALSE]

\* The goroutines that the wait group counts: between Add(1) and Done().
Live == {"running", "returned", "finishing", "finished"}

TypeOK ==
  /\ closed \in BOOLEAN
  /\ cancels \in SUBSET Jobs
  /\ cancelled \in SUBSET Jobs
  /\ snaps \in [Jobs -> Snapshot]
  /\ events \in [Jobs -> 0..MaxEvents]
  /\ ctxDone \in SUBSET Jobs
  /\ runPc \in [Jobs -> {"idle", "checked", "registered", "returned", "refused"}]
  /\ worker \in [Jobs -> {"none", "done"} \cup Live]
  /\ local \in [Jobs -> Local]
  /\ firing \in SUBSET Jobs
  /\ closePc \in [Closers -> {"idle", "cancelling", "waiting", "returned", "already"}]
  /\ toCancel \in [Closers -> SUBSET Jobs]
  /\ atClose \in [registered : SUBSET Jobs, running : SUBSET Jobs]
  /\ cursor \in [Jobs -> 0..MaxEvents]
  /\ got \in [Jobs -> [1..MaxEvents -> Nat]]

Init ==
  /\ closed = FALSE
  /\ cancels = {}
  /\ cancelled = {}
  /\ snaps = [j \in Jobs |-> [status |-> "absent", partial |-> FALSE, seq |-> 0]]
  /\ events = [j \in Jobs |-> 0]
  /\ ctxDone = {}
  /\ runPc = [j \in Jobs |-> "idle"]
  /\ worker = [j \in Jobs |-> "none"]
  /\ local = [j \in Jobs |-> NoLocal]
  /\ firing = {}
  /\ closePc = [c \in Closers |-> "idle"]
  /\ toCancel = [c \in Closers |-> {}]
  /\ atClose = [registered |-> {}, running |-> {}]
  /\ cursor = [j \in Jobs |-> 0]
  /\ got = [j \in Jobs |-> [s \in 1..MaxEvents |-> 0]]
-----------------------------------------------------------------------------
(* Run *)

\* First critical section: a closed runtime refuses the job.
RunCheck(j) ==
  /\ runPc[j] = "idle"
  /\ runPc' = [runPc EXCEPT ![j] = IF closed THEN "refused" ELSE "checked"]
  /\ UNCHANGED <<cancels, cancelled, snaps, events, ctxDone, firing, workVars,
                 closeVars, watchVars>>

\* Second critical section: every map gets its entry; closed is not read again.
RunRegister(j) ==
  /\ runPc[j] = "checked"
  /\ runPc' = [runPc EXCEPT ![j] = "registered"]
  /\ cancels' = cancels \cup {j}
  /\ events' = [events EXCEPT ![j] = 0]
  /\ cancelled' = cancelled \ {j}
  /\ snaps' = [snaps EXCEPT ![j] = [status |-> "running", partial |-> FALSE, seq |-> 0]]
  /\ UNCHANGED <<ctxDone, firing, workVars, closeVars, watchVars>>

\* wg.Add(1), the go statement, and the return of the handle.
RunSpawn(j) ==
  /\ runPc[j] = "registered"
  /\ runPc' = [runPc EXCEPT ![j] = "returned"]
  /\ worker' = [worker EXCEPT ![j] = "running"]
  /\ UNCHANGED <<cancels, cancelled, snaps, events, ctxDone, firing, local,
                  closeVars, watchVars>>

\* The context the caller passed to Run is cancelled; jobCtx derives from it.
ParentCancel(j) ==
  /\ runPc[j] # "refused"
  /\ worker[j] # "done"
  /\ j \notin ctxDone
  /\ ctxDone' = ctxDone \cup {j}
  /\ UNCHANGED <<cancelled, snaps, events, firing, runVars, workVars, closeVars,
                 watchVars>>
-----------------------------------------------------------------------------
(* The worker goroutine *)

\* The engine calls OnEvent: mapEvent, then record.
EngineEvent(j) ==
  /\ worker[j] = "running"
  /\ events[j] < MaxEvents
  /\ events' = [events EXCEPT ![j] = @ + 1]
  /\ UNCHANGED <<cancelled, snaps, ctxDone, firing, runVars, workVars, closeVars,
                 watchVars>>

\* Mutant: a result that is not OK leaves the job as it was.
OutcomeOf_Unsettled(r) ==
  IF r.err \/ ~r.ok THEN "running" ELSE IF r.partial THEN "partial" ELSE "ok"

\* The cases of the switch in finish that look at the result of RunJob only.
OutcomeOf(r) ==
  CASE r.err /\ ~r.ok -> "error"
    [] ~(r.err /\ ~r.ok) /\ r.partial -> "partial"
    [] ~r.partial /\ ~r.ok -> "error"
    [] OTHER -> "ok"

\* Engine.RunJob returns r to the worker.
EngineReturn(j, r) ==
  /\ worker[j] = "running"
  /\ worker' = [worker EXCEPT ![j] = "returned"]
  /\ local' = [local EXCEPT ![j] = [status |-> OutcomeOf(r), partial |-> r.partial]]
  /\ UNCHANGED <<cancelled, snaps, events, ctxDone, firing, runVars, closeVars,
                 watchVars>>

CancelledLocal == [status |-> "cancelled", partial |-> FALSE]

\* The case isCancelled of the switch: a critical section of its own.
FinishClassify(j) ==
  /\ worker[j] = "returned"
  /\ worker' = [worker EXCEPT ![j] = "finishing"]
  /\ local' = [local EXCEPT ![j] = IF j \in cancelled THEN CancelledLocal ELSE @]
  /\ UNCHANGED <<cancelled, snaps, events, ctxDone, firing, runVars, closeVars,
                 watchVars>>

\* Mutant: finish trusts the check it made before it took the lock.
FinalSnap_NoRecheck(j) ==
  [status |-> local[j].status, partial |-> local[j].partial, seq |-> events[j]]

\* Mutant: the snapshot keeps the cursor it was registered with.
FinalSnap_StaleSeq(j) ==
  LET l == IF j \in cancelled THEN CancelledLocal ELSE local[j]
  IN  [status |-> l.status, partial |-> l.partial, seq |-> snaps[j].seq]

\* What finish stores: cancelled is looked at again under the lock.
FinalSnap(j) ==
  LET l == IF j \in cancelled THEN CancelledLocal ELSE local[j]
  IN  [status |-> l.status, partial |-> l.partial, seq |-> events[j]]

\* The second critical section of finish.
FinishStore(j) ==
  /\ worker[j] = "finishing"
  /\ worker' = [worker EXCEPT ![j] = "finished"]
  /\ snaps' = [snaps EXCEPT ![j] = FinalSnap(j)]
  /\ local' = [local EXCEPT ![j] = NoLocal]
  /\ UNCHANGED <<cancelled, events, ctxDone, firing, runVars, closeVars, watchVars>>

\* Mutant: the deferred wg.Done() is missing; the goroutine stays counted.
WorkerExit_NoDone(j) ==
  /\ worker[j] = "finished"
  /\ ctxDone' = ctxDone \cup {j}
  /\ UNCHANGED <<cancelled, snaps, events, firing, runVars, workVars, closeVars,
                 watchVars>>

\* The deferred calls of the goroutine: cancel(), then wg.Done().
WorkerExit(j) ==
  /\ worker[j] = "finished"
  /\ worker' = [worker EXCEPT ![j] = "done"]
  /\ ctxDone' = ctxDone \cup {j}
  /\ UNCHANGED <<cancelled, snaps, events, firing, runVars, local,
                 closeVars, watchVars>>
-----------------------------------------------------------------------------
(* Cancel, Watch and Close *)

\* Cancel under the lock: the flag, and the snapshot rewritten from the previous.
Cancel(j) ==
  /\ j \in cancels
  /\ cancelled' = cancelled \cup {j}
  /\ snaps' = [snaps EXCEPT ![j].status = "cancelled"]
  /\ firing' = firing \cup {j}
  /\ UNCHANGED <<events, ctxDone, runVars, workVars, closeVars, watchVars>>

\* Cancel after the unlock: the context is cancelled.
CancelFire(j) ==
  /\ j \in firing
  /\ firing' = firing \ {j}
  /\ ctxDone' = ctxDone \cup {j}
  /\ UNCHANGED <<cancelled, snaps, events, runVars, workVars, closeVars, watchVars>>

\* Mutant: the event at afterSeq is delivered again.
Delivered_Inclusive(j, afterSeq) == {s \in 1..events[j] : s >= afterSeq}

\* The events that Watch(job, afterSeq) puts into its channel.
Delivered(j, afterSeq) == {s \in 1..events[j] : s > afterSeq}

\* A watcher reads the channel of one Watch to its end and keeps the last seq.
Watch(j) ==
  /\ j \in cancels
  /\ Delivered(j, cursor[j]) # {}
  /\ got' = [got EXCEPT ![j] =
               [s \in 1..MaxEvents |-> IF s \in Delivered(j, cursor[j])
                                       THEN got[j][s] + 1 ELSE got[j][s]]]
  /\ cursor' = [cursor EXCEPT ![j] = events[j]]
  /\ UNCHANGED <<cancelled, snaps, events, ctxDone, firing, runVars, workVars,
                 closeVars>>

\* Close under the lock.  A runtime that is closed already returns at once.
CloseBegin(c) ==
  /\ closePc[c] = "idle"
  /\ closed' = TRUE
  /\ IF closed
     THEN /\ closePc' = [closePc EXCEPT ![c] = "already"]
          /\ UNCHANGED <<toCancel, atClose>>
     ELSE /\ closePc' = [closePc EXCEPT ![c] = "cancelling"]
          /\ toCancel' = [toCancel EXCEPT ![c] = cancels]
          /\ atClose' = [registered |-> cancels,
                         running |-> {j \in Jobs : worker[j] \in Live}]
  /\ UNCHANGED <<cancelled, snaps, events, ctxDone, firing, runVars, workVars,
                 watchVars>>

\* One c() of the loop over the collected cancel functions.
CloseCancelOne(c, j) ==
  /\ closePc[c] = "cancelling"
  /\ j \in toCancel[c]
  /\ toCancel' = [toCancel EXCEPT ![c] = @ \ {j}]
  /\ ctxDone' = ctxDone \cup {j}
  /\ UNCHANGED <<cancelled, snaps, events, firing, runVars, workVars, watchVars,
                 closed, closePc, atClose>>

\* The loop is over: Close calls wg.Wait().
CloseWait(c) ==
  /\ closePc[c] = "cancelling"
  /\ toCancel[c] = {}
  /\ closePc' = [closePc EXCEPT ![c] = "waiting"]
  /\ UNCHANGED <<cancelled, snaps, events, ctxDone, firing, runVars, workVars,
                 watchVars, closed, toCancel, atClose>>

\* Mutant: Close does not wait for the workers.
CloseReturn_NoWait(c) ==
  /\ closePc[c] = "waiting"
  /\ closePc' = [closePc EXCEPT ![c] = "returned"]
  /\ UNCHANGED <<cancelled, snaps, events, ctxDone, firing, runVars, workVars,
                 watchVars, closed, toCancel, atClose>>

\* The wait group is at zero: Close returns.
CloseReturn(c) ==
  /\ closePc[c] = "waiting"
  /\ \A j \in Jobs : worker[j] \notin Live
  /\ closePc' = [closePc EXCEPT ![c] = "returned"]
  /\ UNCHANGED <<cancelled, snaps, events, ctxDone, firing, runVars, workVars,
                 watchVars, closed, toCancel, atClose>>
-----------------------------------------------------------------------------
RunStep(j) == RunCheck(j) \/ RunRegister(j) \/ RunSpawn(j)

WorkerStep(j) == \/ EngineEvent(j)
                 \/ \E r \in Result : EngineReturn(j, r)
                 \/ FinishClassify(j)
                 \/ FinishStore(j)
                 \/ WorkerExit(j)

CloseStep(c) == \/ CloseBegin(c)
                \/ \E j \in Jobs : CloseCancelOne(c, j)
                \/ CloseWait(c)
                \/ CloseReturn(c)

Next == \/ \E j \in Jobs : \/ RunStep(j)
                           \/ WorkerStep(j)
                           \/ ParentCancel(j)
                           \/ Cancel(j)
                           \/ CancelFire(j)
                           \/ Watch(j)
        \/ \E c \in Closers : CloseStep(c)

Spec == Init /\ [][Next]_vars

(***************************************************************************)
(* Fairness: a goroutine that can run is run by the Go scheduler.  Whether *)
(* a caller starts a Run or a Close, cancels or watches is its own choice, *)
(* so RunCheck, CloseBegin, Cancel, ParentCancel and Watch get none.  That *)
(* RunJob returns is the engine's wall-time budget (MaxWallTime).          *)
(***************************************************************************)
Fairness ==
  /\ \A j \in Jobs : /\ WF_vars(RunRegister(j) \/ RunSpawn(j))
                     /\ WF_vars(WorkerStep(j))
                     /\ WF_vars(CancelFire(j))
  /\ \A c \in Closers :
       WF_vars((\E j \in Jobs : CloseCancelOne(c, j)) \/ CloseWait(c) \/ CloseReturn(c))

FairSpec == Spec /\ Fairness
-----------------------------------------------------------------------------
(* Properties *)

(***************************************************************************)
(* A cancel is never lost: once Cancel has set the flag, Get answers       *)
(* "cancelled" for ever, however the worker's finish interleaves with it;  *)
(* and nothing but a Cancel makes a job "cancelled".                       *)
(***************************************************************************)
CancelWins == \A j \in Jobs : j \in cancelled <=> snaps[j].status = "cancelled"

(***************************************************************************)
(* A worker that has stored its result leaves a terminal snapshot whose    *)
(* cursor is the whole event log, so a poller that sees a terminal status  *)
(* from a finished worker can stop watching at snap.seq.                   *)
(***************************************************************************)
FinishedIsTerminal ==
  \A j \in Jobs : worker[j] \in {"finished", "done"} =>
    /\ snaps[j].status \in Terminal
    /\ snaps[j].seq = events[j]

(***************************************************************************)
(* The partial flag never contradicts the status: "ok" is not partial and  *)
(* "partial" is.                                                           *)
(***************************************************************************)
PartialAgrees ==
  \A j \in Jobs : /\ snaps[j].status = "ok" => ~snaps[j].partial
                  /\ snaps[j].status = "partial" => snaps[j].partial

(***************************************************************************)
(* The result of a finished job: terminal, up to date, and in agreement    *)
(* with its partial flag.                                                  *)
(***************************************************************************)
ResultInv == TypeOK /\ FinishedIsTerminal /\ PartialAgrees

(***************************************************************************)
(* Watch resumed from the last seq seen delivers every recorded event up   *)
(* to the cursor exactly once, and none beyond it.                         *)
(***************************************************************************)
WatchExactlyOnce ==
  \A j \in Jobs : /\ cursor[j] <= events[j]
                  /\ \A s \in 1..MaxEvents :
                       got[j][s] = IF s <= cursor[j] THEN 1 ELSE 0

(***************************************************************************)
(* What Close does achieve: when the call that closed the runtime returns, *)
(* every worker that was running when it took the lock has ended, and      *)
(* every job registered by then has its context cancelled.                 *)
(***************************************************************************)
CloseDrains ==
  \A c \in Closers :
    /\ closePc[c] \in {"waiting", "returned"} => atClose.registered \subseteq ctxDone
    /\ closePc[c] = "returned" => \A j \in atClose.running : worker[j] = "done"

(***************************************************************************)
(* The comment on Close, "Close cancels in-flight jobs and waits for       *)
(* worker goroutines", read as what an owner relies on: no worker runs     *)
(* once the Close that closed the runtime has returned.                    *)
(***************************************************************************)
NoWorkerAfterClose ==
  (\E c \in Closers : closePc[c] = "returned") =>
    \A j \in Jobs : worker[j] \notin Live

\* The runtime implements the lifecycle every ports.Jobs adapter promises.
Lifecycle == INSTANCE JobLifecycle
               WITH status <- [j \in Jobs |-> snaps[j].status],
                    seq <- [j \in Jobs |-> snaps[j].seq]

\* Every step on the snapshot maps to a step, or a stutter, of JobLifecycle.
ImplementsLifecycle == Lifecycle!Spec

(***************************************************************************)
(* Every job that Run accepted reaches a terminal status and its worker    *)
(* ends, whatever is cancelled or closed meanwhile.                        *)
(***************************************************************************)
EveryJobEnds ==
  \A j \in Jobs : (runPc[j] = "registered") ~>
    (worker[j] = "done" /\ snaps[j].status \in Terminal)

\* A Close that began returns: no wait on a worker that cannot finish.
CloseReturns ==
  \A c \in Closers : (closePc[c] = "cancelling") ~> (closePc[c] = "returned")
=============================================================================
