--------------------------- MODULE ClientRuntime ---------------------------
(***************************************************************************)
(* The runtime behind zeusclient.Client (src/client.go, src/runtime.go):   *)
(* the adapters in its slots, the facades it builds once and caches, and   *)
(* the calls that replace or release them - Jobs, BindJobs, Close - made   *)
(* by several goroutines.  A job port is an object with Run and Close; a   *)
(* closed one accepts no job (src/adapters/jobsma/runtime.go).             *)
(***************************************************************************)
EXTENDS Integers, Sequences, FiniteSets

CONSTANTS Threads,    \* goroutines that use one Client
          JobPorts,   \* job runtimes that exist
          Adapters,   \* the other adapters
          Injected,   \* the adapters of New, by slot; None where there is none
          None,
          Failing     \* the adapters whose Close returns an error

Slots == {"http", "zeus", "llm", "catalog", "jobs"}

Ports == JobPorts \cup {None}

ASSUME ClientRuntimeAssumption ==
  /\ None \notin JobPorts \cup Adapters /\ JobPorts \cap Adapters = {}
  /\ "nil" \notin Ports
  /\ Injected \in [Slots -> Adapters \cup JobPorts \cup {None}]
  /\ Injected["http"] \in Adapters /\ Injected["jobs"] \in JobPorts \cup {None}
  /\ Failing \subseteq Adapters \cup JobPorts

VARIABLES
  closed,     \* runtime.closed
  slot,       \* the adapter of each slot
  jobsAPI,    \* runtime.jobsAPI: the port of the cached facade, or "nil"
  held,       \* the port of the facade that a goroutine holds, or "nil"
  pc,         \* where a goroutine's Close is
  deps,       \* what the Close of a goroutine has left to release
  err,        \* the first error of that Close
  closes,     \* how often an adapter's Close was called
  returned,   \* the Close that released the adapters has returned
  replaced,   \* history: the job ports that BindJobs replaced
  late        \* history: the job ports that accepted a job after that return

vars == <<closed, slot, jobsAPI, held, pc, deps, err, closes, returned, replaced, late>>

TypeOK ==
  /\ closed \in BOOLEAN /\ returned \in BOOLEAN
  /\ slot \in [Slots -> Adapters \cup Ports]
  /\ jobsAPI \in Ports \cup {"nil"} /\ held \in [Threads -> Ports \cup {"nil"}]
  /\ pc \in [Threads -> {"idle", "http", "deps", "done"}]
  /\ deps \in [Threads -> Seq(Adapters \cup Ports)]
  /\ err \in [Threads -> Adapters \cup Ports]
  /\ closes \in [Adapters \cup JobPorts -> Nat]
  /\ replaced \subseteq JobPorts /\ late \subseteq JobPorts

\* newRuntime
Init ==
  /\ closed = FALSE /\ returned = FALSE
  /\ slot = Injected
  /\ jobsAPI = "nil" /\ held = [t \in Threads |-> "nil"]
  /\ pc = [t \in Threads |-> "idle"] /\ deps = [t \in Threads |-> <<>>]
  /\ err = [t \in Threads |-> None]
  /\ closes = [a \in Adapters \cup JobPorts |-> 0]
  /\ replaced = {} /\ late = {}
-----------------------------------------------------------------------------
\* Jobs: the cached facade, or a new one on the port of the slot.
Jobs(t) ==
  /\ pc[t] = "idle"
  /\ jobsAPI' = IF jobsAPI = "nil" THEN slot["jobs"] ELSE jobsAPI
  /\ held' = [held EXCEPT ![t] = jobsAPI']
  /\ UNCHANGED <<closed, slot, pc, deps, err, closes, returned, replaced, late>>

\* BindJobs: the port replaces the previous one, which is not closed.
BindJobs(t, p) ==
  /\ pc[t] = "idle" /\ ~closed
  /\ slot' = [slot EXCEPT !["jobs"] = p]
  /\ jobsAPI' = "nil"
  /\ replaced' = (replaced \cup {slot["jobs"]}) \ {p, None}
  /\ UNCHANGED <<closed, held, pc, deps, err, closes, returned, late>>

\* Mutant: a closed port accepts jobs.
RunJob_EvenClosed(t) ==
  /\ pc[t] = "idle" /\ held[t] \in JobPorts
  /\ late' = IF returned THEN late \cup {held[t]} ELSE late
  /\ UNCHANGED <<closed, slot, jobsAPI, held, pc, deps, err, closes, returned, replaced>>

\* JobsAPI.Run on the facade that the goroutine holds: a port that is not
\* closed accepts the job; no port, or a closed one, is error 130001.
RunJob(t) ==
  /\ pc[t] = "idle" /\ held[t] \in JobPorts
  /\ closes[held[t]] = 0
  /\ late' = IF returned THEN late \cup {held[t]} ELSE late
  /\ UNCHANGED <<closed, slot, jobsAPI, held, pc, deps, err, closes, returned, replaced>>
-----------------------------------------------------------------------------
(* Close *)

\* The second Close returns at once.
CloseAgain(t) ==
  /\ pc[t] = "idle" /\ closed
  /\ pc' = [pc EXCEPT ![t] = "done"]
  /\ UNCHANGED <<closed, slot, jobsAPI, held, deps, err, closes, returned, replaced, late>>

\* The first Close takes the adapters under the lock.
CloseBegin(t) ==
  /\ pc[t] = "idle" /\ ~closed
  /\ closed' = TRUE
  /\ deps' = [deps EXCEPT ![t] = <<slot["zeus"], slot["llm"], slot["catalog"], slot["jobs"]>>]
  /\ pc' = [pc EXCEPT ![t] = "http"]
  /\ UNCHANGED <<slot, jobsAPI, held, err, closes, returned, replaced, late>>

\* The error that Close will return, after the Close of a.
FirstError(e, a) == IF a \in Failing /\ e = None THEN a ELSE e

\* The HTTP port is released first.
CloseHTTP(t) ==
  /\ pc[t] = "http"
  /\ closes' = [closes EXCEPT ![slot["http"]] = @ + 1]
  /\ err' = [err EXCEPT ![t] = FirstError(@, slot["http"])]
  /\ pc' = [pc EXCEPT ![t] = "deps"]
  /\ UNCHANGED <<closed, slot, jobsAPI, held, deps, returned, replaced, late>>

\* Mutant: an adapter that is the HTTP port as well is not skipped.
Skipped_NilOnly(a) == a = None

\* sameAdapter: nothing to release, or released already as the HTTP port.
Skipped(a) == a = None \/ a = slot["http"]

\* One adapter after the other; an error does not stop the loop.
CloseDep(t) ==
  /\ pc[t] = "deps" /\ deps[t] # <<>>
  /\ LET a == Head(deps[t])
     IN  IF Skipped(a) THEN UNCHANGED <<closes, err>>
         ELSE /\ closes' = [closes EXCEPT ![a] = @ + 1]
              /\ err' = [err EXCEPT ![t] = FirstError(@, a)]
  /\ deps' = [deps EXCEPT ![t] = Tail(@)]
  /\ UNCHANGED <<closed, slot, jobsAPI, held, pc, returned, replaced, late>>

CloseReturn(t) ==
  /\ pc[t] = "deps" /\ deps[t] = <<>>
  /\ pc' = [pc EXCEPT ![t] = "done"]
  /\ returned' = TRUE
  /\ UNCHANGED <<closed, slot, jobsAPI, held, deps, err, closes, replaced, late>>

\* A goroutine goes on after its Close.
GoOn(t) ==
  /\ pc[t] = "done"
  /\ pc' = [pc EXCEPT ![t] = "idle"]
  /\ UNCHANGED <<closed, slot, jobsAPI, held, deps, err, closes, returned, replaced, late>>

CloseStep(t) == CloseHTTP(t) \/ CloseDep(t) \/ CloseReturn(t)

Next == \E t \in Threads :
          \/ Jobs(t) \/ RunJob(t) \/ CloseAgain(t) \/ CloseBegin(t) \/ CloseStep(t) \/ GoOn(t)
          \/ \E p \in Ports : BindJobs(t, p)

Spec == Init /\ [][Next]_vars
-----------------------------------------------------------------------------
(* Properties *)

(***************************************************************************)
(* Close releases what the client has: when the first Close has returned   *)
(* every adapter in a slot was closed, one that fails to close included,   *)
(* and no BindJobs can have slipped an unreleased port in.  It was closed  *)
(* just once if it is the HTTP port, whatever other slots it fills, or if  *)
(* it fills no other slot.                                                 *)
(***************************************************************************)
CloseReleases ==
  returned => \A s \in Slots : slot[s] # None =>
    /\ closes[slot[s]] >= 1
    /\ slot[s] = slot["http"] \/ (\A q \in Slots \ {s} : slot[q] # slot[s]) =>
         closes[slot[s]] = 1

\* The order in which Close releases the adapters.
Order == <<slot["http"], slot["zeus"], slot["llm"], slot["catalog"], slot["jobs"]>>

(***************************************************************************)
(* Close reports the error of the first adapter, in its order, that failed *)
(* to close, and it reports one if there is any.                           *)
(***************************************************************************)
FirstErrorReturned ==
  /\ \A t \in Threads : err[t] # None =>
       \E k \in 1..5 : /\ err[t] = Order[k] /\ Order[k] \in Failing
                       /\ \A i \in 1..(k - 1) : Order[i] \notin Failing
  /\ returned /\ (\E k \in 1..5 : Order[k] \in Failing) => \E t \in Threads : err[t] # None

(***************************************************************************)
(* The cached jobs facade is on the port of the slot: Jobs after BindJobs  *)
(* never answers with the facade of the port that was replaced.            *)
(***************************************************************************)
FacadeIsCurrent == jobsAPI # "nil" => jobsAPI = slot["jobs"]

(***************************************************************************)
(* No job is accepted after Close by a port that the client still had: a   *)
(* facade fetched before Close fails then, as one fetched after it.        *)
(***************************************************************************)
NoJobAfterClose == late \subseteq replaced

(***************************************************************************)
(* The invariant of the client's lifecycle: its facade, what Close         *)
(* releases, and which error it returns.                                   *)
(***************************************************************************)
ClientInv == TypeOK /\ FacadeIsCurrent /\ CloseReleases /\ FirstErrorReturned
=============================================================================
