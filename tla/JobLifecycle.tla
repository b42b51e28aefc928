---------------------------- MODULE JobLifecycle ----------------------------
(***************************************************************************)
(* What a ports.Jobs runtime promises about the snapshot of a job, for any *)
(* adapter behind the port (src/adapters/jobsma, src/adapters/jobsfake):   *)
(* a job appears once, in status "running"; it leaves "running" for one    *)
(* outcome; the outcome never changes again, except that a cancel may      *)
(* still overwrite it; "cancelled" is final; and the event cursor of a     *)
(* snapshot never moves backwards.                                         *)
(***************************************************************************)
EXTENDS Naturals

CONSTANT Jobs

VARIABLES status,   \* [Jobs -> JobStatus]: JobSnapshot.Status
          seq       \* [Jobs -> Nat]: JobSnapshot.Seq

vars == <<status, seq>>

Outcome == {"ok", "partial", "error"}

JobStatus == {"absent", "running", "cancelled"} \cup Outcome

Init == /\ status = [j \in Jobs |-> "absent"]
        /\ seq = [j \in Jobs |-> 0]

\* The job is accepted by Run.
Accept(j) == /\ status[j] = "absent"
             /\ status' = [status EXCEPT ![j] = "running"]
             /\ UNCHANGED seq

\* The cursor of this job alone moves, and not backwards.
Advance(j) == /\ seq' = [seq EXCEPT ![j] = seq'[j]]
              /\ seq'[j] >= seq[j]

\* The job's worker reports how the job ended.
Settle(j, s) == /\ status[j] = "running"
                /\ status' = [status EXCEPT ![j] = s]
                /\ Advance(j)

\* A cancel is taken: it wins over a running job and over an outcome.
Revoke(j) == /\ status[j] \in {"running"} \cup Outcome
             /\ status' = [status EXCEPT ![j] = "cancelled"]
             /\ UNCHANGED seq

\* The worker of a cancelled job ends: only the cursor may advance.
Confirm(j) == /\ status[j] = "cancelled"
              /\ Advance(j)
              /\ UNCHANGED status

Next == \E j \in Jobs : \/ Accept(j)
                        \/ \E s \in Outcome : Settle(j, s)
                        \/ Revoke(j)
                        \/ Confirm(j)

Spec == Init /\ [][Next]_vars
=============================================================================
