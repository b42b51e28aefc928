------------------------------ MODULE UnitJob ------------------------------
(***************************************************************************)
(* A job of isolated units on the sequential job runtime: JobsAPI.Run and  *)
(* its validation (src/api/jobs.go, src/domain/jobs.go), the runtime that  *)
(* runs the units one after the other (src/adapters/jobsfake/runtime.go),  *)
(* and the two kinds of unit (src/api/units.go,                            *)
(* src/application/units_agent.go, units_direct.go).                       *)
(*                                                                         *)
(* Another goroutine may Cancel the job (a unit is told the id of its job, *)
(* so the id is known before Run returns) or Close the runtime, and the    *)
(* context of Run may end.  The turn or the hop inside a unit is a choice  *)
(* of its outcome.                                                         *)
(***************************************************************************)
EXTENDS Integers, Sequences

CONSTANT Maps    \* the unit maps given to Run: sequences of units

Kinds == {"agent_turn", "zeus_direct", "http_json", "other"}

\* A unit: its id ("" for none), its kind, scoped (URL and scope triple are there),
\* pin (a catalog pin is), inject (the catalog "has" the required inject, it must
\* "fetch" it, or it cannot: "foreign" host), call (the verb call is well formed) and
\* session (ShareSessionID, "" for none).
Units == [id : STRING, kind : Kinds, scoped : BOOLEAN, pin : BOOLEAN,
          inject : {"has", "fetch", "foreign"}, call : BOOLEAN, session : STRING]

ASSUME UnitJobAssumption == Maps \subseteq Seq(Units)

VARIABLES
  units,       \* the unit map
  pc,          \* where Run is
  i,           \* the unit whose turn it is
  unit,        \* where that unit is
  sums,        \* summaries: the status of each finished unit
  status,      \* the local status of Run
  error,       \* the code Run returned, or "none"
  ctx,         \* the job's context: "live", "cancelled", "deadline"
  isCancelled, \* Runtime.cancelled
  cancelling,  \* a Cancel that has not yet called the CancelFunc
  snap,        \* the status of the job's snapshot, "none" before there is one
  emitted,     \* the job's events
  journal,     \* unit.started and unit.finished
  late         \* history: units started after a Cancel returned

jobVars == <<units, pc, i, unit, sums, status, error>>
unitVars == <<jobVars, ctx, isCancelled, cancelling, snap, emitted, journal, late>>

UnitStatuses == {"ok", "error", "timeout", "cancelled"}
JobStatuses == {"ok", "partial", "error", "cancelled"}

UnitTypeOK ==
  /\ units \in Maps
  /\ pc \in {"run", "units", "classify", "emit", "store", "returned"}
  /\ i \in 1..(Len(units) + 1)
  /\ unit \in {"idle", "enter", "running"}
  /\ sums \in Seq(UnitStatuses) /\ Len(sums) = i - 1
  /\ status \in JobStatuses \cup {"none"}
  /\ error \in {"none", "000002", "130002", "130011", "130012", "130013"}
  /\ ctx \in {"live", "cancelled", "deadline"} /\ {isCancelled, cancelling} \subseteq BOOLEAN
  /\ snap \in JobStatuses \cup {"none", "running"}
  /\ emitted \in Seq({"started", "finished"} \X (JobStatuses \cup {"none"}))
  /\ journal \in Seq([unit : Nat, status : UnitStatuses \cup {"started"}])
  /\ late \in Nat

UnitInit ==
  /\ units \in Maps
  /\ pc = "run" /\ i = 1 /\ unit = "idle" /\ sums = <<>> /\ status = "none" /\ error = "none"
  /\ ctx = "live" /\ isCancelled = FALSE /\ cancelling = FALSE
  /\ snap = "none" /\ emitted = <<>> /\ journal = <<>> /\ late = 0
-----------------------------------------------------------------------------
(* ValidateUnitMap *)

\* Unit k has no id of its own.
IdTaken(m, k) == m[k].id = "" \/ \E n \in 1..(k - 1) : m[n].id = m[k].id

\* The error of unit k in the loop of ValidateUnitMap.
UnitError(m, k) ==
  IF IdTaken(m, k) THEN "130002"
  ELSE IF m[k].kind = "http_json" THEN "000002"
  ELSE IF m[k].kind = "other" \/ ~m[k].scoped THEN "130002"
  ELSE IF m[k].kind = "agent_turn" /\ ~m[k].pin THEN "130011"
  ELSE IF m[k].session # "" /\ \E n \in 1..(k - 1) : m[n].session = m[k].session THEN "130013"
  ELSE "none"

\* ValidateUnitMap: the first unit with an error decides.
Validate(m) ==
  LET bad == {k \in 1..Len(m) : UnitError(m, k) # "none"}
  IN  IF m = <<>> THEN "130002"
      ELSE IF bad = {} THEN "none"
      ELSE UnitError(m, CHOOSE k \in bad : \A n \in bad : k <= n)
-----------------------------------------------------------------------------
(* Run *)

\* JobsAPI.Run validates; the runtime registers the job and emits its start.
Run ==
  /\ pc = "run"
  /\ IF Validate(units) # "none"
     THEN /\ pc' = "returned" /\ error' = Validate(units)
          /\ UNCHANGED <<snap, emitted>>
     ELSE /\ pc' = "units" /\ snap' = "running"
          /\ emitted' = <<<<"started", "none">>>>
          /\ UNCHANGED error
  /\ UNCHANGED <<units, i, unit, sums, status, ctx, isCancelled, cancelling, journal, late>>

\* Mutant: only the context is looked at.
Stopped_CtxOnly == ctx # "live"

\* isCancelled(jobID) || jobCtx.Err() != nil
Stopped == isCancelled \/ ctx # "live"

\* The head of the loop.
NextUnit ==
  /\ pc = "units" /\ unit = "idle"
  /\ IF Stopped \/ i > Len(units) THEN pc' = "classify" /\ UNCHANGED unit
     ELSE unit' = "enter" /\ UNCHANGED pc
  /\ UNCHANGED <<units, i, sums, status, error, ctx, isCancelled, cancelling, snap, emitted,
                 journal, late>>

Journal(s) == journal' = Append(journal, [unit |-> i, status |-> s])

\* A unit that is done: its summary, and the next unit.
UnitResult(s) ==
  /\ sums' = Append(sums, s) /\ i' = i + 1 /\ unit' = "idle"
  /\ UNCHANGED <<units, pc, status, error>>

\* A unit that returns an error: Run returns it and leaves the job as it is.
UnitRaises(code) ==
  /\ pc' = "returned" /\ error' = code /\ unit' = "idle" /\ ctx' = "cancelled"
  /\ UNCHANGED <<units, i, sums, status>>

\* unitStatusFromCtx
CtxStatus == IF ctx = "cancelled" THEN "cancelled" ELSE "timeout"

\* A unit whose context has ended before it began.
UnitSkips ==
  /\ pc = "units" /\ unit = "enter" /\ ctx # "live"
  /\ UnitResult(CtxStatus)
  /\ UNCHANGED <<ctx, isCancelled, cancelling, snap, emitted, journal, late>>

\* RunAgentUnit: the error of a unit with no catalog document (found: its own or
\* the store's), or without the inject, had or fetched from the process's host.
AgentError(u, found, fetched) ==
  IF ~found THEN "130011"
  ELSE IF u.inject = "has" \/ (u.inject = "fetch" /\ fetched) THEN "none"
  ELSE "130012"

\* RunDirectUnit: the error of a unit without a well-formed call.
DirectError(u) == IF u.call THEN "none" ELSE "130002"

\* The kind decides who runs the unit.
EnterError(u, found, fetched) ==
  IF u.kind = "agent_turn" THEN AgentError(u, found, fetched) ELSE DirectError(u)

UnitRejected(found, fetched) ==
  /\ pc = "units" /\ unit = "enter" /\ ctx = "live"
  /\ EnterError(units[i], found, fetched) # "none"
  /\ UnitRaises(EnterError(units[i], found, fetched))
  /\ UNCHANGED <<isCancelled, cancelling, snap, emitted, journal, late>>

\* unit.started
UnitStarts(found, fetched) ==
  /\ pc = "units" /\ unit = "enter" /\ ctx = "live"
  /\ EnterError(units[i], found, fetched) = "none"
  /\ unit' = "running"
  /\ Journal("started")
  /\ late' = IF isCancelled THEN late + 1 ELSE late
  /\ UNCHANGED <<units, pc, i, sums, status, error, ctx, isCancelled, cancelling, snap, emitted>>

\* unitStatusFromErr, unit.finished: the turn or the hop has ended.  A hop may
\* time out by itself.
UnitEnds(s) ==
  /\ pc = "units" /\ unit = "running"
  /\ s = "cancelled" => ctx = "cancelled"
  /\ Journal(s)
  /\ UnitResult(s)
  /\ UNCHANGED <<ctx, isCancelled, cancelling, snap, emitted, late>>

\* The end of RunAgentUnit, and of RunDirectUnit.
TurnEnds(s) == units[i].kind = "agent_turn" /\ UnitEnds(s)
HopEnds(s) == units[i].kind = "zeus_direct" /\ UnitEnds(s)

\* recoverUnit: a panic is an error of the unit, without unit.finished.
UnitPanics ==
  /\ pc = "units" /\ unit = "running"
  /\ UnitResult("error")
  /\ UNCHANGED <<ctx, isCancelled, cancelling, snap, emitted, journal, late>>
-----------------------------------------------------------------------------
(* The end of Run *)

Some(s) == \E k \in 1..Len(sums) : sums[k] = s
AnyErr == \E k \in 1..Len(sums) : sums[k] # "ok"

StatusOf ==
  CASE Stopped -> "cancelled"
    [] ~Stopped /\ AnyErr /\ Some("ok") -> "partial"
    [] ~Stopped /\ AnyErr /\ ~Some("ok") -> "error"
    [] OTHER -> "ok"

Classify ==
  /\ pc = "classify"
  /\ status' = StatusOf
  /\ pc' = "emit"
  /\ UNCHANGED <<units, i, unit, sums, error, ctx, isCancelled, cancelling, snap, emitted, journal,
                 late>>

Emit ==
  /\ pc = "emit"
  /\ emitted' = Append(emitted, <<"finished", status>>)
  /\ pc' = "store"
  /\ UNCHANGED <<units, i, unit, sums, status, error, ctx, isCancelled, cancelling, snap, journal,
                 late>>

\* Mutant: the flag is not looked at again.
Final_NoRecheck == status

\* The status that is stored: a Cancel after the classification still counts.
Final == IF isCancelled THEN "cancelled" ELSE status

Store ==
  /\ pc = "store"
  /\ snap' = Final /\ status' = Final
  /\ pc' = "returned"
  /\ UNCHANGED <<units, i, unit, sums, error, ctx, isCancelled, cancelling, emitted, journal, late>>
-----------------------------------------------------------------------------
(* Other goroutines *)

\* Cancel, under the lock: also of a job that has ended.
CancelJob ==
  /\ snap # "none" /\ ~isCancelled
  /\ isCancelled' = TRUE /\ cancelling' = TRUE
  /\ snap' = "cancelled"
  /\ UNCHANGED <<jobVars, ctx, emitted, journal, late>>

\* The CancelFunc, after the unlock.
CancelJobFire ==
  /\ cancelling
  /\ cancelling' = FALSE
  /\ ctx' = IF ctx = "live" THEN "cancelled" ELSE ctx
  /\ UNCHANGED <<jobVars, isCancelled, snap, emitted, journal, late>>

\* The caller's context ends, or Close calls the CancelFuncs.
CtxEnds(how) ==
  /\ ctx = "live" /\ pc # "run"
  /\ ctx' = how
  /\ UNCHANGED <<jobVars, isCancelled, cancelling, snap, emitted, journal, late>>

UnitRunStep ==
  \/ Run \/ NextUnit \/ UnitSkips \/ UnitPanics \/ Classify \/ Emit \/ Store
  \/ \E found, fetched \in BOOLEAN : UnitRejected(found, fetched) \/ UnitStarts(found, fetched)
  \/ \E s \in UnitStatuses : i <= Len(units) /\ (TurnEnds(s) \/ HopEnds(s))

UnitNext ==
  \/ UnitRunStep \/ CancelJob \/ CancelJobFire
  \/ \E how \in {"cancelled", "deadline"} : CtxEnds(how)

UnitSpec == UnitInit /\ [][UnitNext]_unitVars
-----------------------------------------------------------------------------
(* Properties *)

(***************************************************************************)
(* A cancelled job reads cancelled from the moment Cancel returns, however *)
(* far Run had come: Run never stores another status over it.              *)
(***************************************************************************)
CancelSticks == isCancelled => snap = "cancelled"

(***************************************************************************)
(* A job that was not stopped tells the truth about its units: it ran all  *)
(* of them, in order, and is ok, partial or error as all, some or none of  *)
(* them are ok - a unit that panicked counts as failed.                    *)
(***************************************************************************)
StatusTellsUnits ==
  snap \in {"ok", "partial", "error"} =>
    /\ Len(sums) = Len(units)
    /\ snap = "ok" <=> \A k \in 1..Len(sums) : sums[k] = "ok"
    /\ snap = "error" <=> \A k \in 1..Len(sums) : sums[k] # "ok"

(***************************************************************************)
(* The journal has the units in order and never two of them open at once;  *)
(* what unit.finished says is what the summary of the unit says.           *)
(***************************************************************************)
UnitEventsAgree ==
  \A k \in 1..Len(journal) :
    /\ journal[k].status # "started" =>
         /\ k > 1 /\ journal[k - 1] = [unit |-> journal[k].unit, status |-> "started"]
         /\ journal[k].unit <= Len(sums) /\ sums[journal[k].unit] = journal[k].status
    /\ \A n \in 1..(k - 1) : journal[n].unit <= journal[k].unit

(***************************************************************************)
(* Cancel stops the job: at most one unit starts after it, the one that    *)
(* had passed the check.                                                   *)
(***************************************************************************)
OneLateUnit == late <= 1

(***************************************************************************)
(* No two units of a job that runs share a durable session or an id, and   *)
(* every agent unit has a catalog pin: the checks of ValidateUnitMap, made *)
(* unit by unit, add up to the isolation law.                              *)
(***************************************************************************)
UnitsAreIsolated ==
  snap # "none" =>
    \A k, n \in 1..Len(units) :
      /\ k # n => units[k].id # units[n].id
      /\ k # n /\ units[k].session # "" => units[k].session # units[n].session
      /\ units[k].kind \in {"agent_turn", "zeus_direct"}
      /\ units[k].kind = "agent_turn" => units[k].pin

(***************************************************************************)
(* The invariant of a job's units: the map is isolated, the summaries, the *)
(* journal and the status of the job tell the same of them, and a cancel   *)
(* is never written over.                                                  *)
(***************************************************************************)
UnitsInv == UnitTypeOK /\ CancelSticks /\ UnitsAreIsolated /\ UnitEventsAgree /\ StatusTellsUnits
=============================================================================
