------------------------------ MODULE JobsHTTP ------------------------------
(***************************************************************************)
(* Watching a job over HTTP: the SSE handler of a sidecar in front of its  *)
(* in-process job runtime (src/adapters/jobshttp/handler.go), the stream   *)
(* as it is written and scanned (sse.go), and Runtime.Watch of the client  *)
(* (client.go) with the facade that drains it (src/api/jobs.go).           *)
(*                                                                         *)
(* The job's events are numbered 1, 2, ... and the last one says that it   *)
(* has finished.  A Watch answers with the events there are; the watcher   *)
(* is the host's loop: it watches again from the last event it got, until  *)
(* it got the last one.  The network cuts the stream at any point, with or *)
(* without the reader noticing, and the sidecar restarts without its jobs. *)
(***************************************************************************)
EXTENDS Integers, Sequences

CONSTANTS LastEvent,   \* the number of the job's last event
          MaxFaults    \* bound: cuts, refusals and garbled events

ASSUME JobsHTTPAssumption == LastEvent \in Nat \ {0} /\ MaxFaults \in Nat

VARIABLES
  log,         \* events of the job on the sidecar: 1..log
  known,       \* the sidecar has the job
  srv,         \* the handler: "idle", "asked", "serving"
  toSend,      \* the events its Watch answered and it has not written
  stream,      \* what was written and not scanned: events, "half", "bad", "eof", "reset"
  watchPc,     \* the Watch of the client
  after,       \* afterSeq of that Watch
  out,         \* the events that readSSEEvents has collected
  lastSeq,     \* the watcher's last event
  received,    \* history: the events that the watcher got
  outcome,     \* the error of the last Watch, or "ok"
  rtClosed,    \* Runtime.closed
  faults

sidecar == <<log, known>>
watcher == <<lastSeq, received, outcome>>
httpVars == <<sidecar, srv, toSend, stream, watchPc, after, out, watcher, rtClosed, faults>>

Events == 1..LastEvent
Marks == {"half", "bad", "eof", "reset"}
Pieces == [seq : Events \cup {0}, mark : Marks \cup {"event"}]

WatchTypeOK ==
  /\ log \in 0..LastEvent /\ {known, rtClosed} \subseteq BOOLEAN
  /\ srv \in {"idle", "asked", "serving"}
  /\ toSend \in Seq(Events)
  /\ stream \in Seq(Pieces)
  /\ watchPc \in {"idle", "waiting", "reading", "stopped"}
  /\ after \in 0..LastEvent /\ lastSeq \in 0..LastEvent
  /\ out \in Seq(Events) /\ received \in Seq(Events)
  /\ outcome \in {"ok", "cancelled", "not_found", "unavailable", "watch_failed"}
  /\ faults \in 0..MaxFaults

WatchInit ==
  /\ log = 0 /\ known = TRUE /\ srv = "idle" /\ toSend = <<>> /\ stream = <<>>
  /\ watchPc = "idle" /\ after = 0 /\ out = <<>> /\ lastSeq = 0 /\ received = <<>>
  /\ outcome = "ok" /\ rtClosed = FALSE /\ faults = 0

\* EventToWire: of an event only its number matters here.
Ev(n) == [seq |-> n, mark |-> "event"]
Mark(k) == [seq |-> 0, mark |-> k]
-----------------------------------------------------------------------------
(* The sidecar *)

\* Its job runtime records an event.
JobEvent ==
  /\ known /\ log < LastEvent
  /\ log' = log + 1
  /\ UNCHANGED <<known, srv, toSend, stream, watchPc, after, out, watcher, rtClosed, faults>>

\* It restarts: jobs are not durable, connections are cut.
Restart ==
  /\ known /\ faults < MaxFaults
  /\ known' = FALSE /\ srv' = "idle" /\ toSend' = <<>>
  /\ stream' = IF watchPc = "reading" THEN Append(stream, Mark("reset")) ELSE stream
  /\ watchPc' = IF watchPc = "waiting" THEN "idle" ELSE watchPc
  /\ outcome' = IF watchPc = "waiting" THEN "unavailable" ELSE outcome
  /\ faults' = faults + 1
  /\ UNCHANGED <<log, after, out, lastSeq, received, rtClosed>>

\* ports.Jobs.Watch of the sidecar: the events after from.
Newer(from) == [i \in 1..(log - from) |-> from + i]

\* ServeHTTP up to the header, with parseFromSeq of the query.
Serve ==
  /\ srv = "asked" /\ known
  /\ toSend' = Newer(after)
  /\ srv' = "serving"
  /\ watchPc' = "reading"
  /\ UNCHANGED <<sidecar, stream, after, out, watcher, rtClosed, faults>>

\* writeJobHTTPError: 404 for a job that is not there; Watch of the client
\* discards the body.
ServeUnknown ==
  /\ srv = "asked" /\ ~known
  /\ srv' = "idle"
  /\ watchPc' = "stopped" /\ outcome' = "not_found"
  /\ UNCHANGED <<sidecar, toSend, stream, after, out, lastSeq, received, rtClosed, faults>>

\* writeSSEEvent
Write ==
  /\ srv = "serving" /\ toSend # <<>>
  /\ stream' = Append(stream, Ev(Head(toSend)))
  /\ toSend' = Tail(toSend)
  /\ UNCHANGED <<sidecar, srv, watchPc, after, out, watcher, rtClosed, faults>>

\* Mutant: the handler keeps the stream open for events to come.
ServeReturn_KeepAlive ==
  /\ srv = "serving" /\ toSend = <<>>
  /\ UNCHANGED httpVars

\* The handler returns after its last comment, and the body ends.
ServeReturn ==
  /\ srv = "serving" /\ toSend = <<>>
  /\ stream' = Append(stream, Mark("eof"))
  /\ srv' = "idle"
  /\ UNCHANGED <<sidecar, toSend, watchPc, after, out, watcher, rtClosed, faults>>

\* The network ends the body early: as an end of file or as an error, between
\* two events or inside one.  The handler's next write fails.
Cut(half, how) ==
  /\ srv = "serving" /\ faults < MaxFaults
  /\ half => toSend # <<>>
  /\ stream' = stream \o (IF half THEN <<Mark("half")>> ELSE <<>>) \o <<Mark(how)>>
  /\ srv' = "idle" /\ toSend' = <<>>
  /\ faults' = faults + 1
  /\ UNCHANGED <<sidecar, watchPc, after, out, watcher, rtClosed>>

\* An event arrives garbled.
Garble ==
  /\ srv = "serving" /\ toSend # <<>> /\ faults < MaxFaults
  /\ stream' = Append(stream, Mark("bad"))
  /\ toSend' = Tail(toSend)
  /\ faults' = faults + 1
  /\ UNCHANGED <<sidecar, srv, watchPc, after, out, watcher, rtClosed>>
-----------------------------------------------------------------------------
(* The client *)

\* The Watch fails: the watcher keeps its cursor.
WatchFails(e) ==
  /\ watchPc' = "idle" /\ outcome' = e /\ out' = <<>>
  /\ srv' = "idle" /\ toSend' = <<>> /\ stream' = <<>>
  /\ UNCHANGED <<lastSeq, received>>

\* Watch sends its request; the facade of a closed Runtime is unavailable.
WatchOnce ==
  /\ watchPc = "idle"
  /\ lastSeq < LastEvent
  /\ \/ rtClosed /\ watchPc' = "stopped" /\ outcome' = "unavailable" /\ UNCHANGED <<after, srv>>
     \/ /\ ~rtClosed
        /\ after' = lastSeq
        /\ watchPc' = "waiting" /\ srv' = "asked"
        /\ UNCHANGED outcome
  /\ UNCHANGED <<sidecar, toSend, stream, out, lastSeq, received, rtClosed, faults>>

\* No connection (or a 5xx: unavailable), another 4xx (watch_failed), or the
\* context ends.
Refused(e) ==
  /\ watchPc = "waiting" /\ faults < MaxFaults
  /\ e \in {"unavailable", "watch_failed", "cancelled"}
  /\ WatchFails(e)
  /\ faults' = faults + 1
  /\ UNCHANGED <<sidecar, after, rtClosed>>

\* eventFromJSON, EventFromWire: half an event, or a garbled one, is no JSON object.
Decodes(m) == m.mark = "event"

\* Mutant: a garbled event is skipped.
Scan_SkipsBad(m) ==
  CASE m.mark = "event" -> [out |-> Append(out, m.seq), end |-> "no"]
    [] m.mark = "bad" -> [out |-> out, end |-> "no"]
    [] m.mark \in {"half", "reset"} -> [out |-> <<>>, end |-> "watch_failed"]
    [] m.mark = "eof" -> [out |-> out, end |-> "ok"]

\* readSSEEvents: the scan of the next piece.  What does not decode and a
\* broken body are errors of the whole.
Scan(m) ==
  CASE Decodes(m) -> [out |-> Append(out, m.seq), end |-> "no"]
    [] m.mark = "eof" -> [out |-> out, end |-> "ok"]
    [] OTHER -> [out |-> <<>>, end |-> "watch_failed"]

\* A scan that does not end the stream.
Read ==
  /\ watchPc = "reading" /\ stream # <<>>
  /\ Scan(Head(stream)).end = "no"
  /\ out' = Scan(Head(stream)).out
  /\ stream' = Tail(stream)
  /\ UNCHANGED <<sidecar, srv, toSend, watchPc, after, watcher, rtClosed, faults>>

ReadFails ==
  /\ watchPc = "reading" /\ stream # <<>>
  /\ Scan(Head(stream)).end = "watch_failed"
  /\ WatchFails("watch_failed")
  /\ UNCHANGED <<sidecar, after, rtClosed, faults>>

\* The context ends while the stream is read.
ReadCancelled ==
  /\ watchPc = "reading" /\ faults < MaxFaults
  /\ WatchFails("watch_failed")
  /\ faults' = faults + 1
  /\ UNCHANGED <<sidecar, after, rtClosed>>

\* The filter of Watch.
Filtered(s) ==
  LET kept[k \in 0..Len(s)] ==
        IF k = 0 THEN <<>>
        ELSE IF s[k] > after THEN Append(kept[k - 1], s[k]) ELSE kept[k - 1]
  IN  kept[Len(s)]

\* The stream has ended: the watcher gets the events, all at once
\* (snapshotWatch), and moves its cursor to the last one.
Deliver ==
  /\ watchPc = "reading" /\ stream # <<>>
  /\ Scan(Head(stream)).end = "ok"
  /\ LET evs == Filtered(out)
     IN  /\ received' = received \o evs
         /\ lastSeq' = IF evs = <<>> THEN lastSeq ELSE evs[Len(evs)]
  /\ outcome' = "ok" /\ out' = <<>>
  /\ stream' = Tail(stream)
  /\ watchPc' = "idle"
  /\ UNCHANGED <<sidecar, srv, toSend, after, rtClosed, faults>>

\* Close does not stop a Watch that is under way.
Close ==
  /\ ~rtClosed
  /\ rtClosed' = TRUE
  /\ UNCHANGED <<sidecar, srv, toSend, stream, watchPc, after, out, watcher, faults>>
-----------------------------------------------------------------------------
SidecarStep == Serve \/ ServeUnknown \/ Write \/ ServeReturn
ClientStep == WatchOnce \/ Read \/ ReadFails \/ Deliver

WatchNext ==
  \/ SidecarStep \/ ClientStep
  \/ JobEvent \/ Restart \/ Garble \/ ReadCancelled \/ Close
  \/ \E half \in BOOLEAN, how \in {"eof", "reset"} : Cut(half, how)
  \/ \E e \in {"unavailable", "watch_failed", "cancelled"} : Refused(e)

WatchSpec == WatchInit /\ [][WatchNext]_httpVars

\* The handler and the Watch go on, and the job ends; the network and Close owe
\* nothing.
WatchFairSpec ==
  WatchSpec /\ WF_httpVars(SidecarStep) /\ WF_httpVars(ClientStep) /\ WF_httpVars(JobEvent)
-----------------------------------------------------------------------------
(* Properties *)

(***************************************************************************)
(* However often the stream is cut, garbled or refused, a watcher that     *)
(* resumes from its last event gets every event once and in order: a       *)
(* failed Watch delivers nothing and costs nothing.                        *)
(***************************************************************************)
ResumeIsExact ==
  /\ Len(received) = lastSeq
  /\ \A i \in 1..Len(received) : received[i] = i

(***************************************************************************)
(* The watcher gets the job's last event, or learns that the job or the    *)
(* runtime is gone: no cut leaves it waiting.                              *)
(***************************************************************************)
WatcherEnds == <>(lastSeq = LastEvent \/ watchPc = "stopped")

(***************************************************************************)
(* The invariant of a watcher: the handler, the stream and the client      *)
(* agree on where it is, and it has each event up to there once.           *)
(***************************************************************************)
WatchInv == WatchTypeOK /\ ResumeIsExact
=============================================================================
