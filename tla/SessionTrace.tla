---------------------------- MODULE SessionTrace ----------------------------
(***************************************************************************)
(* The trace of a turn on its durable session:                             *)
(*   src/application/projectors/session_trace.go  ProjectSessionTrace      *)
(*   src/adapters/zeushttp/session.go             PostTrace                *)
(*   src/api/session.go                           Trace                    *)
(*   src/application/agent_turn.go                the hops of a turn       *)
(*                                                                         *)
(* After a turn the host traces it with the handle that Setup or Commit    *)
(* returned: the same aggregate is POSTed once for every tool hop, the     *)
(* primary hop last, because the round's document at the server keeps the  *)
(* req_id that was posted last.  Every POST may fail by itself, and the    *)
(* result is an error list, never an error.                                *)
(***************************************************************************)
EXTENDS SessionLifecycle, SequencesExt

CONSTANTS CallLists,     \* the tool calls of a turn, a set of sequences
          MaxTracedTurn  \* bound: the turns that the host traces

ASSUME CallListsAssumption ==
  \A calls \in CallLists : Len(calls) \in Nat /\ DOMAIN calls = 1..Len(calls)

VARIABLES
  tpc,     \* "idle" or "posting": where Trace is
  hops,    \* the hops of the trace in progress, normalized
  order,   \* req_ids still to POST
  failed,  \* req_ids with an entry in Errors
  ended,   \* the context of the trace is over
  doc,     \* server: the req_ids stored for this trace, in order
  docs,    \* server: rounds with a trace of a committed turn, and that turn
  kept     \* the last Commit of the turn was stored and answered OK

traceVars == <<tpc, hops, order, failed, ended, doc, docs, kept>>
allVars == <<vars, traceVars>>
-----------------------------------------------------------------------------
(* Hops.  An optional number is a set with at most one element. *)

Blank == ""

Sum(sizes) == FoldLeft(LAMBDA acc, o : acc + (IF o = {} THEN 0 ELSE CHOOSE n \in o : TRUE),
                       0, sizes)

\* A sum over the step costs, if one of them has a size.
SizeOfCosts(costs) ==
  IF \E i \in DOMAIN costs : costs[i] # {} THEN {Sum(costs)} ELSE {}

\* ExtractPipelineMeta: the meta block of the body or of its data; the count of the
\* result only where the costs gave no size.
ExtractPipelineMeta(body) ==
  LET costs == IF body.metaAt \in {"root", "data"} THEN body.costs ELSE <<>>
  IN  [costs |-> costs,
       size |-> IF SizeOfCosts(costs) # {} THEN SizeOfCosts(costs) ELSE body.count]

\* executeToolCalls: the hop record of one tool call.
HopRec(call) ==
  [form |-> "map", id |-> call.id, name |-> call.name, status |-> call.status, text |-> call.text]
  @@ ExtractPipelineMeta(call.body)

\* NormalizeHop: a tuple has no size and no costs, anything else no id.
NormalizeHop(raw) ==
  CASE raw.form = "map"   -> raw
    [] raw.form = "tuple" -> [raw EXCEPT !.size = {}, !.costs = <<>>]
    [] OTHER              -> [raw EXCEPT !.id = Blank, !.name = "", !.status = {}, !.text = FALSE,
                                         !.size = {}, !.costs = <<>>]

\* NormalizeHops: no blank and no second req_id.
NormalizeHops(raws) ==
  LET norm[n \in 0..Len(raws)] ==
        IF n = 0 THEN <<>>
        ELSE LET out == norm[n - 1]
                 hop == NormalizeHop(raws[n])
             IN  IF hop.id = Blank \/ \E i \in 1..Len(out) : out[i].id = hop.id
                 THEN out ELSE Append(out, hop)
  IN  norm[Len(raws)]

StatusOK(status) == \A n \in status : n > 0 /\ n < 400

ResultSizeOf(hop) == IF hop.size # {} THEN hop.size ELSE SizeOfCosts(hop.costs)

Bit(b) == IF b THEN 1 ELSE 0

\* hopScoreOf: what makes a hop the one to look at, the most telling first.
HopScoreOf(hop) ==
  << Bit(~StatusOK(hop.status)),
     Bit(\E n \in ResultSizeOf(hop) : n > 0),
     Bit(hop.name \in {"search", "find"}),
     Bit(hop.costs # <<>>),
     Bit(hop.text),
     Bit(hop.name # "pipeline") >>

\* hopScore.greater
Greater(a, b) ==
  \E k \in DOMAIN a : a[k] > b[k] /\ \A j \in 1..(k - 1) : a[j] = b[j]

\* SelectPrimaryHop, of a non-empty list.
SelectPrimaryHop(hs) ==
  LET best[n \in DOMAIN hs] ==
        IF n = 1 THEN 1
        ELSE IF Greater(HopScoreOf(hs[n]), HopScoreOf(hs[best[n - 1]])) THEN n ELSE best[n - 1]
  IN  hs[best[Len(hs)]]

\* The outcome that BuildAggregateTracePayload gives the round.
Outcome(hs) == IF \E i \in DOMAIN hs : ~StatusOK(hs[i].status) THEN "error" ELSE "ok"

\* OrderedReqIDsForTracePosts: the primary last.
PostOrder(hs) ==
  IF hs = <<>> THEN <<>>
  ELSE LET primary == SelectPrimaryHop(hs).id
           others[n \in 0..Len(hs)] ==
             IF n = 0 THEN <<>>
             ELSE IF hs[n].id = primary THEN others[n - 1] ELSE Append(others[n - 1], hs[n].id)
       IN  Append(others[Len(hs)], primary)
-----------------------------------------------------------------------------
TraceInit ==
  /\ Init
  /\ tpc = "idle" /\ hops = <<>> /\ order = <<>> /\ failed = {} /\ ended = FALSE
  /\ doc = <<>> /\ docs = {} /\ kept = FALSE

\* ProjectSessionTrace until its first POST: nothing to do without a session or a
\* hop, and one error for all where the client is not wired.
Trace(calls, wired) ==
  /\ tpc = "idle" /\ pc = "between"
  /\ turn \in 1..MaxTracedTurn
  /\ handle.enabled /\ handle.sid # NoSid
  /\ LET hs == NormalizeHops([i \in DOMAIN calls |-> HopRec(calls[i])])
     IN  /\ hs # <<>>
         /\ hops' = hs
         /\ order' = IF wired THEN PostOrder(hs) ELSE <<>>
         /\ failed' = IF wired THEN {} ELSE {"session client not wired"}
  /\ tpc' = "posting" /\ ended' = FALSE /\ doc' = <<>>
  /\ UNCHANGED <<vars, docs, kept>>

\* Mutant: the trace goes to the round that the next turn will have.
TraceRound_Next(h) == h.round + 1

\* The round of a trace: the one in the handle.
TraceRound(h) == h.round

\* SessionClient.PostTrace: a request goes out while the context lives, for a round.
Sendable == ~ended /\ handle.sid # NoSid /\ TraceRound(handle) > 0

\* External: the server keeps the aggregate under the round; its req_id is the last.
ServerKeepsTrace(rid) ==
  /\ sessions[handle.sid].alive
  /\ doc' = Append(doc, rid)
  /\ docs' = IF kept
             THEN docs \cup {[sid |-> handle.sid, round |-> TraceRound(handle), turn |-> turn]}
             ELSE docs

\* One turn of the loop.  A request that goes out is stored or not, and its answer
\* arrives or is lost.
PostTrace(stored, answered, over) ==
  /\ tpc = "posting" /\ order # <<>>
  /\ stored => Sendable
  /\ over => ~answered
  /\ IF stored THEN ServerKeepsTrace(Head(order)) ELSE UNCHANGED <<doc, docs>>
  /\ failed' = IF stored /\ answered THEN failed ELSE failed \cup {Head(order)}
  /\ order' = Tail(order)
  /\ ended' = (ended \/ over)
  /\ UNCHANGED <<vars, tpc, hops, kept>>

\* The loop is over: OK is what Errors says, and the host forgets the rest.
TraceReturns ==
  /\ tpc = "posting" /\ order = <<>>
  /\ tpc' = "idle" /\ hops' = <<>> /\ failed' = {} /\ ended' = FALSE /\ doc' = <<>>
  /\ UNCHANGED <<vars, order, docs, kept>>

\* The lifecycle of the session while no trace runs.
Turn ==
  /\ tpc = "idle"
  /\ Next
  /\ kept' = (CommitOK \/ (kept /\ turn' = turn))
  /\ UNCHANGED <<tpc, hops, order, failed, ended, doc, docs>>

\* The server may forget the session between two posts.
ForgetWhileTracing ==
  /\ tpc = "posting"
  /\ Forget(handle.sid)
  /\ UNCHANGED traceVars

TraceNext ==
  \/ Turn
  \/ \E calls \in CallLists, wired \in BOOLEAN : Trace(calls, wired)
  \/ \E stored, answered, over \in BOOLEAN : PostTrace(stored, answered, over)
  \/ TraceReturns
  \/ ForgetWhileTracing

TraceSpec == TraceInit /\ [][TraceNext]_allVars
-----------------------------------------------------------------------------
(* Properties *)

\* The scores as one number: the reference for the lexicographic order.
Weight(hop) == LET s == HopScoreOf(hop)
               IN  32 * s[1] + 16 * s[2] + 8 * s[3] + 4 * s[4] + 2 * s[5] + s[6]

(***************************************************************************)
(* "Equal scores: keep earlier hop": the primary hop has the highest score *)
(* and no earlier hop has the same; so it is a failed hop exactly when the *)
(* aggregate's outcome is "error".                                         *)
(***************************************************************************)
PrimaryIsEarliestBest ==
  tpc = "posting" =>
    LET p == SelectPrimaryHop(hops)
    IN  /\ \E i \in DOMAIN hops :
             /\ hops[i] = p
             /\ \A j \in DOMAIN hops : Weight(hops[j]) <= Weight(p)
             /\ \A j \in 1..(i - 1) : Weight(hops[j]) < Weight(p)
        /\ (Outcome(hops) = "error") = ~StatusOK(p.status)

(***************************************************************************)
(* When Trace returns, every req_id without an error is at the server, once*)
(* and in no other order than the posts; and whatever failed, the round's  *)
(* document ends on the primary hop unless the primary's own POST failed.  *)
(***************************************************************************)
RoundEndsOnPrimary ==
  tpc = "posting" /\ order = <<>> /\ "session client not wired" \notin failed =>
    LET p == SelectPrimaryHop(hops).id
    IN  /\ \A i \in DOMAIN hops : hops[i].id \notin failed =>
             Cardinality({k \in DOMAIN doc : doc[k] = hops[i].id}) = 1
        /\ p \notin failed => Last(doc) = p

(***************************************************************************)
(* The trace of a turn that was committed lies on the round of that turn,  *)
(* and so on no other turn's (OneTurnPerRound): commit moves the handle to *)
(* the round it posted, and Trace takes the handle's.                      *)
(***************************************************************************)
TraceOnOwnRound ==
  \A d \in docs :
    \E e \in sessions[d.sid].log : e.round = d.round /\ e.turn = d.turn

(***************************************************************************)
(* A trace joins the right hop of the right round of the right turn.       *)
(***************************************************************************)
TraceInv == PrimaryIsEarliestBest /\ RoundEndsOnPrimary /\ TraceOnOwnRound
=============================================================================
