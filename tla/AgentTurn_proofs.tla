-------------------------- MODULE AgentTurn_proofs --------------------------
(***************************************************************************)
(* Proofs about AgentTurn: what a turn may spend, show and report, for any *)
(* settings, caps and numbers of tool calls, and whatever the LLM, Zeus,   *)
(* the hooks and the caller do.                                            *)
(***************************************************************************)
EXTENDS AgentTurn, TLAPS

\* The parts of the inductive invariant.

\* The turn is before its result is decided.
InLoop == pc \notin {"decide", "done"}

\* Until the loop is left there is no answer, and no reason to leave it but the hooks.
NothingYet == InLoop => answer = Blank /\ exit \in {"", "hooks_refuse"}

\* A turn that must refuse starts no round and makes no request.
RefusedLeaves == pc \in {"round", "llm"} => ~hooks.refuse

\* A return of the model is seen in its round.
ReturnIsSeen ==
  /\ pc \in {"start", "prepared", "round", "llm"} => layerArgs = NoArgs
  /\ pc \in {"tools", "verb"} => layerArgs = NoArgs
  /\ pc \in {"tools", "verb", "roundEnd"} /\ ~out.seen => layerArgs = NoArgs /\ out.args = NoArgs

\* Of the calls the loop looks at, those still to do have no reply.
CallsCounted ==
  /\ pc \in {"tools", "verb"} => unanswered = nils + Beyond + todo
  /\ pc = "verb" => todo > 0
  /\ pc \in {"start", "prepared", "round", "llm", "roundEnd", "insight"} => unanswered = nils + Beyond

\* The requests of the rounds, and the one after them.
Requests ==
  /\ rnd <= MaxRounds /\ sent.llm <= rnd + 1
  /\ sent.llm > rnd => cfg.ai
  /\ InLoop /\ pc # "insight" => sent.llm = rnd

\* The verbs of the rounds: each of the calls to do may be one.
Verbs ==
  /\ sent.verbs <= Cap * rnd
  /\ pc = "llm" => sent.verbs + Cap <= Cap * rnd
  /\ pc = "tools" => sent.verbs + todo <= Cap * rnd
  /\ pc = "verb" => sent.verbs + todo <= Cap * rnd + 1

\* The late rounds had the message.
Nudged == /\ rnd > 1 /\ MaxRounds - rnd <= ForceReturnRoundsLeft => nudged = rnd
          /\ ForceReturnRoundsLeft < 0 => nudged = 0

\* A turn out of rounds has used them all, and did not return.
RanOut ==
  exit = "max_rounds" =>
    /\ rnd = MaxRounds /\ layerArgs = NoArgs
    /\ pc = "decide" => answer = ClientText("client") /\ ~hooks.refuse

\* A request that the context ended ends the turn, or is the insight hop; nobody but
\* the caller cancels.
AbortEnds ==
  /\ aborted => \/ pc = "done" /\ result.err = "cancelled"
                \/ pc \in {"decide", "done"} /\ exit = "insight"
  /\ result.err = "cancelled" => ctxDone

\* What the caller gets.
Ended == ErrorHasNoModelText /\ RefusalIsFinal /\ AnswerHasNoG2

\* What holds while the turn is under way.
Course == NothingYet /\ RefusedLeaves /\ ReturnIsSeen /\ RanOut /\ AbortEnds
Counts == CallsCounted /\ Requests /\ Verbs /\ Nudged

TurnIInv == TypeOK /\ Course /\ Counts /\ Ended
-----------------------------------------------------------------------------
(* The values *)

LEMMA StringsAre ==
  /\ \A p \in {"start", "prepared", "round", "llm", "tools"} : p \in Places
  /\ \A p \in {"verb", "roundEnd", "insight", "decide", "done"} : p \in Places
  /\ \A e \in {"", "hooks_refuse", "direct", "error"} : e \in Exits
  /\ \A e \in {"insight", "cheap_terminal", "cheap_final", "max_rounds"} : e \in Exits
  /\ \A e \in {"cancelled", "deadline", "message_empty", "no_llm", "llm"} : e \in Errors /\ e # "none"
  BY DEF Places, Exits, Errors

LEMMA TextIs ==
  /\ Blank \in Text /\ Blank.by = "none" /\ Blank.g2 = FALSE
  /\ \A b \in Authors : ClientText(b) \in Text /\ ClientText(b).by = b /\ ClientText(b).g2 = FALSE
  /\ \A t \in ModelText : t \in Text /\ t.by = "model"
  /\ \A t \in SummaryText : t \in Text /\ t.by = "model"
  /\ NoArgs \notin Text /\ NoArgs.by = "absent" /\ NoArgs.g2 = FALSE
  /\ \A t \in Text : t.by \in Authors /\ t.g2 \in BOOLEAN
<1>1. NoArgs \notin Text
  <2>1. NoArgs.by = "absent" /\ "absent" \notin Authors
    BY DEF NoArgs, Authors
  <2>2. QED
    BY <2>1 DEF Text
<1>2. "none" \in Authors /\ "model" \in Authors
  BY DEF Authors
<1>3. Blank \in Text /\ Blank.by = "none" /\ Blank.g2 = FALSE
  BY <1>2 DEF Blank, Text
<1>4. ASSUME NEW b \in Authors PROVE ClientText(b) \in Text /\ ClientText(b).by = b /\ ClientText(b).g2 = FALSE
  BY DEF ClientText, Text
<1>5. ASSUME NEW t \in ModelText PROVE t \in Text /\ t.by = "model"
  BY <1>2, AgentTurnAssumption DEF ModelText, Text
<1>6. ASSUME NEW t \in SummaryText PROVE t \in Text /\ t.by = "model"
  BY <1>2, AgentTurnAssumption DEF SummaryText, Text
<1>7. QED
  BY <1>1, <1>3, <1>4, <1>5, <1>6 DEF NoArgs, Text

LEMMA ClientIs ==
  LET t == ClientText("client")
  IN  t \in Text /\ t.by = "client" /\ t.g2 = FALSE /\ t # Blank
<1>1. "client" \in Authors
  BY DEF Authors
<1>2. PICK t : t = ClientText("client")
  OBVIOUS
<1>3. t \in Text /\ t.by = "client" /\ t.g2 = FALSE
  BY <1>1, <1>2, TextIs
<1>4. QED
  BY <1>2, <1>3, TextIs

\* must_refuse is sticky.
LEMMA HooksAre ==
  ASSUME NEW h \in Hooks
  PROVE  /\ h.refuse \in BOOLEAN
         /\ \A hit \in BOOLEAN : Fold(h, hit) \in Hooks /\ (Fold(h, hit).refuse <=> h.refuse \/ hit)
         /\ Deny(h) \in Hooks /\ Deny(h).refuse = h.refuse
  BY DEF Hooks, Fold, Deny

LEMMA OutcomeIs ==
  /\ NoOutcome \in Outcome /\ NoOutcome.seen = FALSE /\ NoOutcome.args = NoArgs
  /\ \A o \in Outcome : /\ o.seen \in BOOLEAN /\ o.terminal \in Text /\ o.argSummary \in Text
                        /\ o.payload \in BOOLEAN /\ o.args \in Text \cup {NoArgs}
<1>1. NoOutcome \in Outcome /\ NoOutcome.seen = FALSE /\ NoOutcome.args = NoArgs
  BY TextIs DEF NoOutcome, Outcome
<1>2. QED
  BY <1>1 DEF Outcome

LEMMA SentIs ==
  ASSUME NEW s \in [llm : Nat, verbs : Nat]
  PROVE  /\ s.llm \in Nat /\ s.verbs \in Nat
         /\ LET w == [s EXCEPT !.llm = @ + 1] IN w \in [llm : Nat, verbs : Nat] /\ w.llm = s.llm + 1 /\ w.verbs = s.verbs
         /\ LET w == [s EXCEPT !.verbs = @ + 1] IN w \in [llm : Nat, verbs : Nat] /\ w.llm = s.llm /\ w.verbs = s.verbs + 1
  OBVIOUS

LEMMA ConfigIs ==
  ASSUME cfg \in Config
  PROVE  /\ MaxRounds \in Nat \ {0} /\ ForceReturnRoundsLeft \in Int
         /\ cfg.ai \in BOOLEAN /\ cfg.zeus \in BOOLEAN
<1>1. cfg.ai \in BOOLEAN /\ cfg.zeus \in BOOLEAN /\ cfg.max \in Int /\ cfg.left \in Int
  BY AgentTurnAssumption DEF Config
<1>2. DefaultMaxRounds \in Nat \ {0}
  BY AgentTurnAssumption
<1>3. MaxRounds \in Nat \ {0}
  BY <1>1, <1>2 DEF MaxRounds
<1>4. QED
  BY <1>1, <1>3 DEF ForceReturnRoundsLeft

LEMMA SettingsStay ==
  ASSUME cfg' = cfg PROVE MaxRounds' = MaxRounds /\ ForceReturnRoundsLeft' = ForceReturnRoundsLeft
  BY DEF MaxRounds, ForceReturnRoundsLeft

LEMMA OneMoreRound == ASSUME NEW r \in Nat PROVE Cap * r \in Nat /\ Cap * (r + 1) = Cap * r + Cap /\ Cap \in Nat \ {0}
  BY AgentTurnAssumption

\* A step that does not end the turn.
LEMMA GoesOn == ASSUME pc' # "done" PROVE Ended'
  BY DEF Ended, ErrorHasNoModelText, RefusalIsFinal, AnswerHasNoG2

\* finishTurn with an error.
LEMMA FailEnds ==
  ASSUME NEW text \in Text, NEW err \in Errors, Fail(text, err), text.by \in {"none", "client"}, ~text.g2, err # "none"
  PROVE  /\ pc' = "done" /\ pc' \in Places /\ answer' = text /\ answer' \in Text /\ result' \in Result
         /\ result'.err = err /\ Ended'
<1>1. PICK r : r = [status |-> "error", err |-> err, action |-> ""]
  OBVIOUS
<1>2. r \in Result /\ r.status = "error" /\ r.err = err
  <2>1. "error" \in Statuses /\ "" \in Actions
    BY DEF Statuses, Actions
  <2>2. QED
    BY <1>1, <2>1 DEF Result
<1>3. pc' = "done" /\ answer' = text /\ result' = r
  BY <1>1 DEF Fail
<1>4. pc' \in Places
  BY <1>3, StringsAre
<1>5. ErrorHasNoModelText' /\ RefusalIsFinal' /\ AnswerHasNoG2'
  BY <1>2, <1>3 DEF ErrorHasNoModelText, RefusalIsFinal, AnswerHasNoG2
<1>6. QED
  BY <1>2, <1>3, <1>4, <1>5 DEF Ended
-----------------------------------------------------------------------------
(* The start of the turn and the head of a round *)

LEMMA Typed ==
  ASSUME TypeOK
  PROVE  /\ hooks \in Hooks /\ hooks.refuse \in BOOLEAN /\ sent \in [llm : Nat, verbs : Nat]
         /\ sent.llm \in Nat /\ sent.verbs \in Nat /\ rnd \in Nat /\ Cap * rnd \in Nat /\ Cap \in Nat \ {0}
         /\ todo \in Nat /\ unanswered \in Nat /\ nils \in Nat /\ Beyond \in Nat /\ MaxRounds \in Nat \ {0}
         /\ ForceReturnRoundsLeft \in Int /\ cfg.ai \in BOOLEAN /\ nudged \in Nat
<1>1. /\ hooks \in Hooks /\ sent \in [llm : Nat, verbs : Nat] /\ rnd \in Nat /\ todo \in Nat
      /\ unanswered \in Nat /\ asked \in Nat /\ nils \in Nat /\ nudged \in Nat /\ cfg \in Config
  BY AgentTurnAssumption DEF TypeOK
<1>2. Beyond \in Nat
  BY <1>1, AgentTurnAssumption DEF Beyond
<1>3. QED
  BY <1>1, <1>2, HooksAre, SentIs, OneMoreRound, ConfigIs

LEMMA StartKeeps == ASSUME TurnIInv, NEW hit \in BOOLEAN, Start(hit) PROVE TurnIInv'
<1>1. TypeOK /\ pc = "start" /\ answer = Blank /\ exit \in {"", "hooks_refuse"}
  BY DEF TurnIInv, Course, NothingYet, InLoop, Start
<1>2. UNCHANGED <<cfg, ctxDone, sent, rnd, todo, unanswered, asked, nils, verb, out, layerArgs, aborted, nudged>>
  BY DEF Start, loopVars
<1>3. MaxRounds' = MaxRounds /\ ForceReturnRoundsLeft' = ForceReturnRoundsLeft
  BY <1>2, SettingsStay
<1>4. CASE \E e \in {"cancelled", "message_empty", "no_llm"} :
             Fail(Blank, e) /\ (e = "cancelled" => ctxDone) /\ UNCHANGED <<hooks, exit>>
  <2>1. /\ pc' = "done" /\ pc' \in Places /\ answer' \in Text /\ result' \in Result
        /\ (result'.err = "cancelled" => ctxDone) /\ Ended'
    BY <1>4, FailEnds, TextIs, StringsAre
  <2>2. TypeOK'
    BY <1>1, <1>2, <1>4, <2>1 DEF TypeOK
  <2>3. Course'
    BY <1>1, <1>2, <1>4, <2>1
    DEF TurnIInv, Course, NothingYet, InLoop, RefusedLeaves, ReturnIsSeen, RanOut, AbortEnds
  <2>4. Counts'
    BY <1>1, <1>2, <1>3, <2>1, Typed DEF TurnIInv, Counts, CallsCounted, Beyond, Requests, Verbs, Nudged, InLoop
  <2>5. QED
    BY <2>1, <2>2, <2>3, <2>4 DEF TurnIInv
<1>5. CASE /\ hooks' = Fold(hooks, hit) /\ exit' = (IF hit THEN "hooks_refuse" ELSE "") /\ pc' = "prepared"
           /\ UNCHANGED <<answer, result>>
  <2>1. TypeOK'
    BY <1>1, <1>2, <1>5, HooksAre, StringsAre DEF TypeOK
  <2>2. Course'
    BY <1>1, <1>2, <1>5
    DEF TurnIInv, Course, NothingYet, InLoop, RefusedLeaves, ReturnIsSeen, RanOut, AbortEnds
  <2>3. Counts'
    BY <1>1, <1>2, <1>3, <1>5, Typed DEF TurnIInv, Counts, CallsCounted, Beyond, Requests, Verbs, Nudged, InLoop
  <2>4. QED
    BY <1>5, <2>1, <2>2, <2>3, GoesOn DEF TurnIInv
<1>6. QED
  BY <1>4, <1>5 DEF Start

LEMMA PreparedKeeps == ASSUME TurnIInv, Prepared PROVE TurnIInv'
<1>1. TypeOK /\ pc = "prepared" /\ answer = Blank /\ exit \in {"", "hooks_refuse"}
  BY DEF TurnIInv, Course, NothingYet, InLoop, Prepared
<1>2. /\ UNCHANGED <<cfg, ctxDone, hooks, exit, sent, rnd, todo, unanswered, asked, nils, verb, out, layerArgs>>
      /\ UNCHANGED <<aborted, nudged>>
  BY DEF Prepared, loopVars
<1>3. MaxRounds' = MaxRounds /\ ForceReturnRoundsLeft' = ForceReturnRoundsLeft
  BY <1>2, SettingsStay
<1>4. CASE ctxDone /\ Fail(answer, "cancelled")
  <2>1. pc' = "done" /\ pc' \in Places /\ answer' \in Text /\ result' \in Result /\ Ended'
    BY <1>1, <1>4, FailEnds, TextIs, StringsAre
  <2>2. TypeOK'
    BY <1>1, <1>2, <2>1 DEF TypeOK
  <2>3. Course'
    BY <1>1, <1>2, <1>4, <2>1
    DEF TurnIInv, Course, NothingYet, InLoop, RefusedLeaves, ReturnIsSeen, RanOut, AbortEnds
  <2>4. Counts'
    BY <1>1, <1>2, <1>3, <2>1, Typed DEF TurnIInv, Counts, CallsCounted, Beyond, Requests, Verbs, Nudged, InLoop
  <2>5. QED
    BY <2>1, <2>2, <2>3, <2>4 DEF TurnIInv
<1>5. CASE pc' = (IF hooks.refuse THEN "decide" ELSE "round") /\ UNCHANGED <<answer, result>>
  <2>1. TypeOK'
    BY <1>1, <1>2, <1>5, StringsAre DEF TypeOK
  <2>2. Course'
    BY <1>1, <1>2, <1>5
    DEF TurnIInv, Course, NothingYet, InLoop, RefusedLeaves, ReturnIsSeen, RanOut, AbortEnds
  <2>3. Counts'
    BY <1>1, <1>2, <1>3, <1>5, Typed DEF TurnIInv, Counts, CallsCounted, Beyond, Requests, Verbs, Nudged, InLoop
  <2>4. QED
    BY <1>5, <2>1, <2>2, <2>3, GoesOn DEF TurnIInv
<1>6. QED
  BY <1>4, <1>5 DEF Prepared

LEMMA OutOfRoundsKeeps == ASSUME TurnIInv, OutOfRounds PROVE TurnIInv'
<1>1. TypeOK /\ pc = "round" /\ rnd = MaxRounds /\ ~hooks.refuse /\ layerArgs = NoArgs
  BY DEF TurnIInv, Course, RefusedLeaves, ReturnIsSeen, OutOfRounds
<1>2. /\ UNCHANGED <<cfg, ctxDone, hooks, result, sent, rnd, todo, unanswered, asked, nils, verb, out, layerArgs>>
      /\ UNCHANGED <<aborted, nudged>>
      /\ pc' = "decide" /\ exit' = "max_rounds" /\ answer' = ClientText("client")
  BY DEF OutOfRounds, loopVars
<1>3. MaxRounds' = MaxRounds /\ ForceReturnRoundsLeft' = ForceReturnRoundsLeft
  BY <1>2, SettingsStay
<1>4. TypeOK'
  BY <1>1, <1>2, ClientIs, StringsAre DEF TypeOK
<1>5. Course'
  BY <1>1, <1>2, <1>3
  DEF TurnIInv, Course, NothingYet, InLoop, RefusedLeaves, ReturnIsSeen, RanOut, AbortEnds
<1>6. Counts'
  BY <1>1, <1>2, <1>3, Typed DEF TurnIInv, Counts, CallsCounted, Beyond, Requests, Verbs, Nudged, InLoop
<1>7. QED
  BY <1>2, <1>4, <1>5, <1>6, GoesOn DEF TurnIInv

LEMMA RoundKeeps == ASSUME TurnIInv, Round PROVE TurnIInv'
<1>1. /\ TypeOK /\ pc = "round" /\ rnd < MaxRounds /\ answer = Blank /\ exit \in {"", "hooks_refuse"}
      /\ ~hooks.refuse /\ layerArgs = NoArgs
  BY DEF TurnIInv, Course, NothingYet, InLoop, RefusedLeaves, ReturnIsSeen, Round
<1>2. UNCHANGED <<cfg, ctxDone, hooks, exit, todo, unanswered, asked, nils, verb, out, layerArgs, aborted>>
  BY DEF Round
<1>3. MaxRounds' = MaxRounds /\ ForceReturnRoundsLeft' = ForceReturnRoundsLeft
  BY <1>2, SettingsStay
<1>4. CASE ctxDone /\ Fail(answer, "cancelled") /\ UNCHANGED <<rnd, nudged, sent>>
  <2>1. pc' = "done" /\ pc' \in Places /\ answer' \in Text /\ result' \in Result /\ Ended'
    BY <1>1, <1>4, FailEnds, TextIs, StringsAre
  <2>2. TypeOK'
    BY <1>1, <1>2, <1>4, <2>1 DEF TypeOK
  <2>3. Course'
    BY <1>1, <1>2, <1>4, <2>1
    DEF TurnIInv, Course, NothingYet, InLoop, RefusedLeaves, ReturnIsSeen, RanOut, AbortEnds
  <2>4. Counts'
    BY <1>1, <1>2, <1>3, <1>4, <2>1, Typed DEF TurnIInv, Counts, CallsCounted, Beyond, Requests, Verbs, Nudged, InLoop
  <2>5. QED
    BY <2>1, <2>2, <2>3, <2>4 DEF TurnIInv
<1>5. CASE /\ rnd' = rnd + 1 /\ nudged' = (IF Nudge(rnd + 1) THEN rnd + 1 ELSE nudged)
           /\ sent' = [sent EXCEPT !.llm = @ + 1] /\ pc' = "llm" /\ UNCHANGED <<answer, result>>
  <2>1. /\ sent' \in [llm : Nat, verbs : Nat] /\ sent'.llm = sent.llm + 1 /\ sent'.verbs = sent.verbs
        /\ rnd \in Nat /\ nudged \in Nat /\ rnd' \in Nat /\ nudged' \in Nat
    <3>1. sent \in [llm : Nat, verbs : Nat] /\ rnd \in Nat /\ nudged \in Nat
      BY <1>1 DEF TypeOK
    <3>2. sent' \in [llm : Nat, verbs : Nat] /\ sent'.llm = sent.llm + 1 /\ sent'.verbs = sent.verbs
      BY <1>5, <3>1
    <3>3. QED
      BY <1>5, <3>1, <3>2
  <2>2. TypeOK'
    BY <1>1, <1>2, <1>5, <2>1, StringsAre DEF TypeOK
  <2>3. Course'
    BY <1>1, <1>2, <1>5
    DEF TurnIInv, Course, NothingYet, InLoop, RefusedLeaves, ReturnIsSeen, RanOut, AbortEnds
  <2>4. Counts'
    <3>1. Nudged'
      <4>1. PICK n \in Nat, m \in Nat, f \in Int : n = rnd /\ m = MaxRounds /\ f = ForceReturnRoundsLeft
        BY <1>1, Typed
      <4>2. n + 1 <= m /\ nudged' = (IF m - (n + 1) <= f /\ n + 1 > 1 THEN n + 1 ELSE nudged)
        <5>1. n < m /\ nudged' = (IF Nudge(n + 1) THEN n + 1 ELSE nudged)
          BY <1>1, <1>5, <4>1
        <5>2. Nudge(n + 1) <=> (m - (n + 1) <= f /\ n + 1 > 1)
          BY <4>1 DEF Nudge
        <5>3. QED
          BY <5>1, <5>2
      <4>3. f < 0 => ~(m - (n + 1) <= f)
        BY <4>2
      <4>4. f < 0 => nudged = 0
        BY <4>1 DEF TurnIInv, Counts, Nudged
      <4>5. rnd' = n + 1 /\ MaxRounds' = m /\ ForceReturnRoundsLeft' = f
        BY <1>3, <1>5, <4>1
      <4>6. QED
        BY <4>2, <4>3, <4>4, <4>5 DEF Nudged
    <3>2. PICK n, m, v \in Nat : n = rnd /\ m = MaxRounds /\ v = sent.verbs
      BY <1>1, Typed
    <3>3. rnd' = n + 1 /\ n < m /\ sent'.llm = n + 1 /\ sent'.verbs = v /\ v <= Cap * n
      BY <1>1, <1>5, <2>1, <3>2 DEF TurnIInv, Counts, Requests, Verbs, InLoop
    <3>4. CallsCounted' /\ Requests'
      <4>1. CallsCounted'
        BY <1>1, <1>2, <1>5 DEF TurnIInv, Counts, CallsCounted, Beyond
      <4>2. n + 1 <= m /\ n + 1 <= (n + 1) + 1 /\ ~(n + 1 > n + 1)
        BY <3>3
      <4>3. Requests'
        BY <1>3, <1>5, <3>2, <3>3, <4>2 DEF Requests
      <4>4. QED
        BY <4>1, <4>3
    <3>5. Verbs'
      <4>1. PICK c \in Nat : c = Cap * n /\ Cap * (n + 1) = c + Cap /\ Cap \in Nat
        BY OneMoreRound
      <4>2. v <= c + Cap /\ v + Cap <= c + Cap
        BY <3>3, <4>1
      <4>3. QED
        BY <1>5, <3>3, <4>1, <4>2 DEF Verbs
    <3>6. QED
      BY <3>1, <3>4, <3>5 DEF Counts
  <2>5. QED
    BY <1>5, <2>2, <2>3, <2>4, GoesOn DEF TurnIInv
<1>6. QED
  BY <1>4, <1>5 DEF Round
-----------------------------------------------------------------------------
(* The LLM *)

LEMMA LlmErrorKeeps ==
  ASSUME TurnIInv, NEW err \in {"cancelled", "deadline", "llm"}, LlmError(err) PROVE TurnIInv'
<1>1. TypeOK /\ pc = "llm" /\ exit \in {"", "hooks_refuse"}
  BY DEF TurnIInv, Course, NothingYet, InLoop, LlmError
<1>2. /\ UNCHANGED <<cfg, ctxDone, hooks, exit, sent, rnd, todo, unanswered, asked, nils, verb, out, layerArgs>>
      /\ UNCHANGED <<nudged>> /\ aborted' = (err = "cancelled") /\ (err = "cancelled" => ctxDone)
  BY DEF LlmError
<1>3. MaxRounds' = MaxRounds /\ ForceReturnRoundsLeft' = ForceReturnRoundsLeft
  BY <1>2, SettingsStay
<1>4. Fail(ClientText("client"), err)
  BY DEF LlmError
<1>5. err \in Errors /\ err # "none"
  BY StringsAre
<1>6. /\ pc' = "done" /\ pc' \in Places /\ answer' \in Text /\ result' \in Result /\ result'.err = err /\ Ended'
  BY <1>4, <1>5, FailEnds, ClientIs
<1>7. TypeOK'
  BY <1>1, <1>2, <1>6 DEF TypeOK
<1>8. Course'
  BY <1>1, <1>2, <1>4, <1>6
  DEF TurnIInv, Course, NothingYet, InLoop, RefusedLeaves, ReturnIsSeen, RanOut, AbortEnds
<1>9. Counts'
  BY <1>1, <1>2, <1>3, <1>6, Typed DEF TurnIInv, Counts, CallsCounted, Beyond, Requests, Verbs, Nudged, InLoop
<1>10. QED
  BY <1>6, <1>7, <1>8, <1>9 DEF TurnIInv

LEMMA LlmTextKeeps ==
  ASSUME TurnIInv, NEW text \in Text, NEW hit \in BOOLEAN, LlmText(text, hit) PROVE TurnIInv'
<1>1. TypeOK /\ pc = "llm"
  BY DEF TurnIInv, LlmText
<1>2. /\ UNCHANGED <<cfg, ctxDone, result, sent, rnd, todo, unanswered, asked, nils, verb, out, layerArgs>>
      /\ UNCHANGED <<aborted, nudged>>
      /\ hooks' = Fold(hooks, hit) /\ answer' = text /\ exit' = "direct" /\ pc' = "decide"
  BY DEF LlmText, loopVars
<1>3. MaxRounds' = MaxRounds /\ ForceReturnRoundsLeft' = ForceReturnRoundsLeft
  BY <1>2, SettingsStay
<1>4. TypeOK'
  BY <1>1, <1>2, HooksAre, StringsAre DEF TypeOK
<1>5. Course'
  BY <1>1, <1>2
  DEF TurnIInv, Course, NothingYet, InLoop, RefusedLeaves, ReturnIsSeen, RanOut, AbortEnds
<1>6. Counts'
  BY <1>1, <1>2, <1>3, Typed DEF TurnIInv, Counts, CallsCounted, Beyond, Requests, Verbs, Nudged, InLoop
<1>7. QED
  BY <1>2, <1>4, <1>5, <1>6, GoesOn DEF TurnIInv

LEMMA LlmCallsKeeps ==
  ASSUME TurnIInv, NEW n \in 1..MaxCalls, NEW recovered \in BOOLEAN, NEW hit \in BOOLEAN,
         LlmCalls(n, recovered, hit)
  PROVE  TurnIInv'
<1>1. TypeOK /\ pc = "llm" /\ answer = Blank /\ exit \in {"", "hooks_refuse"} /\ layerArgs = NoArgs
  BY DEF TurnIInv, Course, NothingYet, InLoop, ReturnIsSeen, LlmCalls
<1>2. /\ UNCHANGED <<cfg, ctxDone, rnd, layerArgs, aborted, nudged, result, sent>>
      /\ hooks' = Fold(hooks, hit) /\ unanswered' = n /\ asked' = n /\ nils' = 0
  BY DEF LlmCalls
<1>3. MaxRounds' = MaxRounds /\ ForceReturnRoundsLeft' = ForceReturnRoundsLeft
  BY <1>2, SettingsStay
<1>4. /\ MaxCalls \in Nat /\ LookedAt(n) \in Nat /\ LookedAt(n) \in 0..Cap /\ LookedAt(n) <= Cap
      /\ 0 \in 0..MaxCalls /\ n \in 0..MaxCalls /\ n = 0 + Beyond' + LookedAt(n)
  BY <1>2, AgentTurnAssumption DEF LookedAt, Beyond
<1>5. hooks' \in Hooks
  BY <1>1, <1>2, HooksAre DEF TypeOK
<1>6. CASE cfg.zeus
  <2>1. /\ pc' = "tools" /\ todo' = LookedAt(n) /\ verb' = (IF recovered THEN "pipeline" ELSE "none")
        /\ out' = NoOutcome /\ UNCHANGED <<exit, answer>>
    BY <1>6 DEF LlmCalls
  <2>2. verb' \in Kinds \cup {"none"}
    BY <2>1 DEF Kinds
  <2>3. TypeOK'
    BY <1>1, <1>2, <1>4, <1>5, <2>1, <2>2, OutcomeIs, StringsAre DEF TypeOK
  <2>4. Course'
    BY <1>1, <1>2, <2>1, OutcomeIs
    DEF TurnIInv, Course, NothingYet, InLoop, RefusedLeaves, ReturnIsSeen, RanOut, AbortEnds
  <2>5. Counts'
    <3>1. PICK m \in Nat : m = LookedAt(n) /\ m <= Cap
      BY <1>4
    <3>2. CallsCounted'
      BY <1>2, <1>4, <2>1 DEF CallsCounted
    <3>3. Requests' /\ Nudged'
      BY <1>1, <1>2, <1>3, <2>1, Typed DEF TurnIInv, Counts, Requests, Nudged, InLoop
    <3>4. Verbs'
      <4>1. PICK c, v \in Nat : c = Cap * rnd /\ v = sent.verbs /\ c = Cap * rnd' /\ v = sent'.verbs
        BY <1>1, <1>2, Typed
      <4>2. v + Cap <= c /\ v <= c /\ Cap \in Nat
        BY <1>1, <4>1, Typed DEF TurnIInv, Counts, Verbs
      <4>3. v + m <= c /\ todo' = m
        BY <2>1, <3>1, <4>2
      <4>4. QED
        BY <2>1, <4>1, <4>2, <4>3 DEF Verbs
    <3>5. QED
      BY <3>2, <3>3, <3>4 DEF Counts
  <2>6. QED
    BY <2>1, <2>3, <2>4, <2>5, GoesOn DEF TurnIInv
<1>7. CASE ~cfg.zeus
  <2>1. /\ pc' = "decide" /\ exit' = "error" /\ answer' = ClientText("client")
        /\ UNCHANGED <<todo, verb, out>>
    BY <1>7 DEF LlmCalls
  <2>2. TypeOK'
    BY <1>1, <1>2, <1>4, <1>5, <2>1, ClientIs, StringsAre DEF TypeOK
  <2>3. Course'
    BY <1>1, <1>2, <2>1
    DEF TurnIInv, Course, NothingYet, InLoop, RefusedLeaves, ReturnIsSeen, RanOut, AbortEnds
  <2>4. Counts'
    BY <1>1, <1>2, <1>3, <2>1, Typed DEF TurnIInv, Counts, CallsCounted, Beyond, Requests, Verbs, Nudged, InLoop
  <2>5. QED
    BY <2>1, <2>2, <2>3, <2>4, GoesOn DEF TurnIInv
<1>8. QED
  BY <1>6, <1>7

LEMMA InsightKeeps ==
  ASSUME TurnIInv, NEW text \in Text, NEW fails \in BOOLEAN, Insight(text, fails) PROVE TurnIInv'
<1>1. TypeOK /\ pc = "insight"
  BY DEF TurnIInv, Insight
<1>2. /\ UNCHANGED <<cfg, ctxDone, hooks, result, sent, rnd, todo, unanswered, asked, nils, verb, out, layerArgs>>
      /\ UNCHANGED <<nudged>> /\ pc' = "decide" /\ exit' = "insight"
      /\ answer' = (IF text = Blank THEN out.terminal ELSE text) /\ aborted' = (fails /\ ctxDone)
  BY DEF Insight
<1>3. MaxRounds' = MaxRounds /\ ForceReturnRoundsLeft' = ForceReturnRoundsLeft
  BY <1>2, SettingsStay
<1>4. answer' \in Text
  BY <1>1, <1>2, OutcomeIs DEF TypeOK
<1>5. TypeOK'
  BY <1>1, <1>2, <1>4, StringsAre DEF TypeOK
<1>6. Course'
  BY <1>1, <1>2
  DEF TurnIInv, Course, NothingYet, InLoop, RefusedLeaves, ReturnIsSeen, RanOut, AbortEnds
<1>7. Counts'
  BY <1>1, <1>2, <1>3, Typed DEF TurnIInv, Counts, CallsCounted, Beyond, Requests, Verbs, Nudged, InLoop
<1>8. QED
  BY <1>2, <1>5, <1>6, <1>7, GoesOn DEF TurnIInv
-----------------------------------------------------------------------------
(* The end of a round *)

LEMMA RoundReturnKeeps == ASSUME TurnIInv, RoundReturn PROVE TurnIInv'
<1>1. TypeOK /\ pc = "roundEnd" /\ answer = Blank /\ exit \in {"", "hooks_refuse"} /\ sent.llm = rnd
  BY DEF TurnIInv, Course, Counts, NothingYet, Requests, InLoop, RoundReturn
<1>2. /\ UNCHANGED <<cfg, ctxDone, hooks, result, rnd, todo, unanswered, asked, nils, verb, out, layerArgs>>
      /\ UNCHANGED <<aborted, nudged>>
  BY DEF RoundReturn, loopVars
<1>3. MaxRounds' = MaxRounds /\ ForceReturnRoundsLeft' = ForceReturnRoundsLeft
  BY <1>2, SettingsStay
<1>4. CASE cfg.ai
  <2>1. pc' = "insight" /\ sent' = [sent EXCEPT !.llm = @ + 1] /\ UNCHANGED <<exit, answer>>
    BY <1>4 DEF RoundReturn
  <2>2. sent' \in [llm : Nat, verbs : Nat] /\ sent'.llm = sent.llm + 1 /\ sent'.verbs = sent.verbs
    <3>1. sent \in [llm : Nat, verbs : Nat]
      BY <1>1 DEF TypeOK
    <3>2. QED
      BY <2>1, <3>1
  <2>3. TypeOK'
    BY <1>1, <1>2, <2>1, <2>2, StringsAre DEF TypeOK
  <2>4. Course'
    BY <1>1, <1>2, <2>1
    DEF TurnIInv, Course, NothingYet, InLoop, RefusedLeaves, ReturnIsSeen, RanOut, AbortEnds
  <2>5. Counts'
    <3>1. PICK n, m, v \in Nat : n = rnd /\ m = MaxRounds /\ v = sent.verbs
      BY <1>1, Typed
    <3>2. rnd' = n /\ n <= m /\ sent'.llm = n + 1 /\ sent'.verbs = v /\ v <= Cap * n
      BY <1>1, <1>2, <2>2, <3>1 DEF TurnIInv, Counts, Requests, Verbs
    <3>3. CallsCounted' /\ Requests' /\ Nudged'
      <4>1. CallsCounted' /\ Nudged'
        BY <1>1, <1>2, <1>3, <2>1 DEF TurnIInv, Counts, CallsCounted, Beyond, Nudged
      <4>2. Requests'
        BY <1>2, <1>3, <1>4, <2>1, <3>1, <3>2 DEF Requests
      <4>3. QED
        BY <4>1, <4>2
    <3>4. Verbs'
      BY <2>1, <3>2 DEF Verbs
    <3>5. QED
      BY <3>3, <3>4 DEF Counts
  <2>6. QED
    BY <2>1, <2>3, <2>4, <2>5, GoesOn DEF TurnIInv
<1>5. CASE ~cfg.ai
  <2>1. pc' = "decide" /\ exit' = "cheap_terminal" /\ answer' = out.terminal /\ UNCHANGED sent
    BY <1>5 DEF RoundReturn
  <2>2. answer' \in Text
    BY <1>1, <2>1, OutcomeIs DEF TypeOK
  <2>3. TypeOK'
    BY <1>1, <1>2, <2>1, <2>2, StringsAre DEF TypeOK
  <2>4. Course'
    BY <1>1, <1>2, <2>1
    DEF TurnIInv, Course, NothingYet, InLoop, RefusedLeaves, ReturnIsSeen, RanOut, AbortEnds
  <2>5. Counts'
    BY <1>1, <1>2, <1>3, <2>1, Typed DEF TurnIInv, Counts, CallsCounted, Beyond, Requests, Verbs, Nudged, InLoop
  <2>6. QED
    BY <2>1, <2>3, <2>4, <2>5, GoesOn DEF TurnIInv
<1>6. QED
  BY <1>4, <1>5

LEMMA RoundCheapKeeps == ASSUME TurnIInv, RoundCheap PROVE TurnIInv'
<1>1. TypeOK /\ pc = "roundEnd"
  BY DEF TurnIInv, RoundCheap
<1>2. /\ UNCHANGED <<cfg, ctxDone, hooks, result, sent, rnd, todo, unanswered, asked, nils, verb, out, layerArgs>>
      /\ UNCHANGED <<aborted, nudged>> /\ pc' = "decide"
      /\ exit' = (IF hooks.refuse THEN "hooks_refuse" ELSE "cheap_final")
  BY DEF RoundCheap, loopVars
<1>3. MaxRounds' = MaxRounds /\ ForceReturnRoundsLeft' = ForceReturnRoundsLeft
  BY <1>2, SettingsStay
<1>4. answer' \in {Blank, ClientText("client"), out.argSummary}
  BY DEF RoundCheap
<1>5. answer' \in Text
  BY <1>1, <1>4, OutcomeIs, TextIs, ClientIs DEF TypeOK
<1>6. TypeOK'
  BY <1>1, <1>2, <1>5, StringsAre DEF TypeOK
<1>7. Course'
  BY <1>1, <1>2
  DEF TurnIInv, Course, NothingYet, InLoop, RefusedLeaves, ReturnIsSeen, RanOut, AbortEnds
<1>8. Counts'
  BY <1>1, <1>2, <1>3, Typed DEF TurnIInv, Counts, CallsCounted, Beyond, Requests, Verbs, Nudged, InLoop
<1>9. QED
  BY <1>2, <1>6, <1>7, <1>8, GoesOn DEF TurnIInv

LEMMA RoundNextKeeps == ASSUME TurnIInv, RoundNext PROVE TurnIInv'
<1>1. TypeOK /\ pc = "roundEnd" /\ answer = Blank /\ layerArgs = NoArgs
  BY DEF TurnIInv, Course, NothingYet, InLoop, ReturnIsSeen, RoundNext
<1>2. /\ UNCHANGED <<cfg, ctxDone, hooks, answer, result, sent, rnd, todo, unanswered, asked, nils, verb, layerArgs>>
      /\ UNCHANGED <<aborted, nudged>> /\ out' = NoOutcome
      /\ exit' = (IF hooks.refuse THEN "hooks_refuse" ELSE "") /\ pc' = (IF hooks.refuse THEN "decide" ELSE "round")
  BY DEF RoundNext
<1>3. MaxRounds' = MaxRounds /\ ForceReturnRoundsLeft' = ForceReturnRoundsLeft
  BY <1>2, SettingsStay
<1>4. TypeOK'
  BY <1>1, <1>2, OutcomeIs, StringsAre DEF TypeOK
<1>5. Course'
  BY <1>1, <1>2
  DEF TurnIInv, Course, NothingYet, InLoop, RefusedLeaves, ReturnIsSeen, RanOut, AbortEnds
<1>6. Counts'
  BY <1>1, <1>2, <1>3, Typed DEF TurnIInv, Counts, CallsCounted, Beyond, Requests, Verbs, Nudged, InLoop
<1>7. QED
  BY <1>2, <1>4, <1>5, <1>6, GoesOn DEF TurnIInv
-----------------------------------------------------------------------------
(* executeToolCalls *)

\* Changes of the outcome of a round: a return, the summary of a call, a body.
Saw(o, t, a) == [o EXCEPT !.argSummary = a, !.seen = TRUE, !.terminal = t, !.args = t]
Asked(o, a) == [o EXCEPT !.argSummary = a]
Got(o, p, s, t, a) == [o EXCEPT !.payload = p, !.seen = s, !.terminal = t, !.args = a]

LEMMA SawIs ==
  ASSUME NEW o \in Outcome, NEW t \in Text, NEW a \in Text
  PROVE  Saw(o, t, a) \in Outcome /\ Saw(o, t, a).seen = TRUE
  BY DEF Outcome, Saw

LEMMA AskedIs ==
  ASSUME NEW o \in Outcome, NEW a \in Text
  PROVE  Asked(o, a) \in Outcome /\ Asked(o, a).seen = o.seen /\ Asked(o, a).args = o.args
  BY DEF Outcome, Asked

\* A call's summary changes nothing else of the outcome.
LEMMA NotedIs ==
  ASSUME NEW o \in Outcome, NEW s \in Text
  PROVE  /\ Noted(o, s) = Asked(o, IF s = Blank THEN o.argSummary ELSE s)
         /\ Noted(o, s) \in Outcome /\ Noted(o, s).seen = o.seen /\ Noted(o, s).args = o.args
<1>1. PICK a : a = IF s = Blank THEN o.argSummary ELSE s
  OBVIOUS
<1>2. a \in Text /\ Noted(o, s) = Asked(o, a)
  BY <1>1, OutcomeIs DEF Noted, Asked
<1>3. QED
  BY <1>1, <1>2, AskedIs

\* The loop is at a call: the call has no reply yet.
LEMMA AtCall ==
  ASSUME TurnIInv, pc \in {"tools", "verb"}, todo > 0
  PROVE  /\ todo - 1 \in 0..Cap /\ unanswered - 1 \in 0..MaxCalls /\ nils + 1 \in 0..MaxCalls
         /\ unanswered - 1 = nils + Beyond + (todo - 1) /\ unanswered = (nils + 1) + Beyond + (todo - 1)
<1>1. PICK t, u, o, b, c, m \in Nat :
        t = todo /\ u = unanswered /\ o = nils /\ b = Beyond /\ c = Cap /\ m = MaxCalls
  BY AgentTurnAssumption, Typed DEF TurnIInv
<1>2. t <= c /\ u <= m /\ u = o + b + t /\ t > 0
  BY <1>1 DEF TurnIInv, TypeOK, Counts, CallsCounted
<1>3. QED
  BY <1>1, <1>2

\* The counts after a call of the loop that has its reply, or is skipped.
LEMMA CountsAfterCall ==
  ASSUME TurnIInv, pc \in {"tools", "verb"}, todo > 0, pc' = "tools", todo' = todo - 1,
         \/ unanswered' = unanswered - 1 /\ nils' = nils
         \/ unanswered' = unanswered /\ nils' = nils + 1,
         UNCHANGED <<cfg, rnd, sent, nudged, asked>>
  PROVE  Counts'
<1>1. TypeOK /\ MaxRounds' = MaxRounds /\ ForceReturnRoundsLeft' = ForceReturnRoundsLeft
  BY SettingsStay DEF TurnIInv
<1>2. CallsCounted'
  <2>1. Beyond' = Beyond
    BY DEF Beyond
  <2>2. QED
    BY <2>1, AtCall DEF CallsCounted
<1>3. Requests' /\ Nudged'
  BY <1>1 DEF TurnIInv, Counts, Requests, Nudged, InLoop
<1>4. Verbs'
  <2>1. PICK t, v, c \in Nat : t = todo /\ v = sent.verbs /\ c = Cap * rnd /\ v = sent'.verbs /\ c = Cap * rnd'
    BY <1>1, Typed
  <2>2. v + t <= c + 1 /\ t > 0 /\ v <= c
    BY <2>1 DEF TurnIInv, Counts, Verbs
  <2>3. v + (t - 1) <= c
    BY <2>1, <2>2
  <2>4. QED
    BY <2>1, <2>2, <2>3 DEF Verbs
<1>5. QED
  BY <1>2, <1>3, <1>4 DEF Counts

LEMMA ToolCancelledKeeps == ASSUME TurnIInv, ToolCancelled PROVE TurnIInv'
<1>1. TypeOK /\ pc = "tools" /\ answer = Blank /\ exit \in {"", "hooks_refuse"} /\ Fail(answer, "cancelled")
      /\ ctxDone
  BY DEF TurnIInv, Course, NothingYet, InLoop, ToolCancelled
<1>2. /\ UNCHANGED <<cfg, ctxDone, hooks, exit, sent, rnd, todo, unanswered, asked, nils, verb, out, layerArgs>>
      /\ UNCHANGED <<aborted, nudged>>
  BY DEF ToolCancelled, loopVars
<1>3. MaxRounds' = MaxRounds /\ ForceReturnRoundsLeft' = ForceReturnRoundsLeft
  BY <1>2, SettingsStay
<1>4. pc' = "done" /\ pc' \in Places /\ answer' \in Text /\ result' \in Result /\ Ended'
  BY <1>1, FailEnds, TextIs, StringsAre
<1>5. TypeOK'
  BY <1>1, <1>2, <1>4 DEF TypeOK
<1>6. Course'
  BY <1>1, <1>2, <1>4
  DEF TurnIInv, Course, NothingYet, InLoop, RefusedLeaves, ReturnIsSeen, RanOut, AbortEnds
<1>7. Counts'
  BY <1>1, <1>2, <1>3, <1>4, Typed DEF TurnIInv, Counts, CallsCounted, Beyond, Requests, Verbs, Nudged, InLoop
<1>8. QED
  BY <1>4, <1>5, <1>6, <1>7 DEF TurnIInv

LEMMA ToolNilKeeps == ASSUME TurnIInv, ToolNil PROVE TurnIInv'
<1>1. TypeOK /\ pc = "tools" /\ todo > 0
  BY DEF TurnIInv, ToolNil
<1>2. /\ UNCHANGED <<cfg, pc, ctxDone, rnd, unanswered, asked, verb, hooks, out, layerArgs, exit, answer, result>>
      /\ UNCHANGED <<sent, aborted, nudged>> /\ todo' = todo - 1 /\ nils' = nils + 1
  BY DEF ToolNil
<1>3. TypeOK'
  BY <1>1, <1>2, AtCall DEF TypeOK
<1>4. Course'
  BY <1>1, <1>2
  DEF TurnIInv, Course, NothingYet, InLoop, RefusedLeaves, ReturnIsSeen, RanOut, AbortEnds
<1>5. Counts'
  BY <1>1, <1>2, CountsAfterCall
<1>6. QED
  BY <1>1, <1>2, <1>3, <1>4, <1>5, GoesOn DEF TurnIInv

LEMMA ToolReturnKeeps == ASSUME TurnIInv, NEW summary \in Text, ToolReturn(summary) PROVE TurnIInv'
<1>1. TypeOK /\ pc = "tools" /\ todo > 0
  BY DEF TurnIInv, ToolReturn
<1>2. /\ UNCHANGED <<cfg, pc, ctxDone, rnd, asked, nils, verb, hooks, exit, answer, result, sent, aborted, nudged>>
      /\ UNCHANGED layerArgs /\ todo' = todo - 1 /\ unanswered' = unanswered - 1
  BY DEF ToolReturn, Reply
<1>3. PICK a : a = IF summary = Blank THEN out.argSummary ELSE summary
  OBVIOUS
<1>4. a \in Text
  BY <1>1, <1>3, OutcomeIs DEF TypeOK
<1>5. out' = Saw(out, summary, a)
  <2>1. out' = [Noted(out, summary) EXCEPT !.seen = TRUE, !.terminal = summary, !.args = summary]
    BY DEF ToolReturn
  <2>2. Noted(out, summary) = Asked(out, a) /\ out \in Outcome
    BY <1>1, <1>3, NotedIs DEF TypeOK
  <2>3. QED
    BY <2>1, <2>2 DEF Outcome, Asked, Saw
<1>6. out' \in Outcome /\ out'.seen = TRUE
  BY <1>1, <1>4, <1>5, SawIs DEF TypeOK
<1>7. TypeOK'
  BY <1>1, <1>2, <1>6, AtCall DEF TypeOK
<1>8. Course'
  BY <1>1, <1>2, <1>6
  DEF TurnIInv, Course, NothingYet, InLoop, RefusedLeaves, ReturnIsSeen, RanOut, AbortEnds
<1>9. Counts'
  BY <1>1, <1>2, CountsAfterCall
<1>10. QED
  BY <1>1, <1>2, <1>7, <1>8, <1>9, GoesOn DEF TurnIInv

LEMMA ToolDeniedKeeps == ASSUME TurnIInv, NEW summary \in Text, ToolDenied(summary) PROVE TurnIInv'
<1>1. TypeOK /\ pc = "tools" /\ todo > 0
  BY DEF TurnIInv, ToolDenied
<1>2. /\ UNCHANGED <<cfg, pc, ctxDone, rnd, asked, nils, verb, layerArgs, exit, answer, result, sent, aborted>>
      /\ UNCHANGED <<nudged>> /\ out' \in Outcome /\ out'.seen = out.seen /\ out'.args = out.args
      /\ todo' = todo - 1 /\ unanswered' = unanswered - 1 /\ hooks' = Deny(hooks)
  BY <1>1, NotedIs DEF ToolDenied, Reply, TypeOK
<1>3. hooks' \in Hooks
  BY <1>1, <1>2, HooksAre DEF TypeOK
<1>4. TypeOK'
  BY <1>1, <1>2, <1>3, AtCall DEF TypeOK
<1>5. Course'
  BY <1>1, <1>2
  DEF TurnIInv, Course, NothingYet, InLoop, RefusedLeaves, ReturnIsSeen, RanOut, AbortEnds
<1>6. Counts'
  BY <1>1, <1>2, CountsAfterCall
<1>7. QED
  BY <1>1, <1>2, <1>4, <1>5, <1>6, GoesOn DEF TurnIInv

LEMMA ToolRefusedKeeps == ASSUME TurnIInv, NEW summary \in Text, ToolRefused(summary) PROVE TurnIInv'
<1>1. TypeOK /\ pc = "tools" /\ todo > 0
  BY DEF TurnIInv, ToolRefused
<1>2. /\ UNCHANGED <<cfg, pc, ctxDone, rnd, asked, nils, hooks, layerArgs, exit, answer, result, sent, aborted>>
      /\ UNCHANGED <<nudged>> /\ out' \in Outcome /\ out'.seen = out.seen /\ out'.args = out.args
      /\ todo' = todo - 1 /\ unanswered' = unanswered - 1 /\ verb' = "none"
  BY <1>1, NotedIs DEF ToolRefused, Reply, TypeOK
<1>3. TypeOK'
  BY <1>1, <1>2, AtCall DEF TypeOK
<1>4. Course'
  BY <1>1, <1>2
  DEF TurnIInv, Course, NothingYet, InLoop, RefusedLeaves, ReturnIsSeen, RanOut, AbortEnds
<1>5. Counts'
  BY <1>1, <1>2, CountsAfterCall
<1>6. QED
  BY <1>1, <1>2, <1>3, <1>4, <1>5, GoesOn DEF TurnIInv

LEMMA ToolCallKeeps ==
  ASSUME TurnIInv, NEW kind \in Kinds, NEW summary \in Text, ToolCall(kind, summary) PROVE TurnIInv'
<1>1. TypeOK /\ pc = "tools" /\ todo > 0
  BY DEF TurnIInv, ToolCall
<1>2. /\ UNCHANGED <<cfg, ctxDone, rnd, todo, unanswered, asked, nils, hooks, layerArgs, exit, answer, result, aborted>>
      /\ UNCHANGED <<nudged>>
      /\ pc' = "verb" /\ verb' = kind /\ sent' = [sent EXCEPT !.verbs = @ + 1]
  BY DEF ToolCall
<1>3. MaxRounds' = MaxRounds /\ ForceReturnRoundsLeft' = ForceReturnRoundsLeft
  BY <1>2, SettingsStay
<1>7. out' \in Outcome /\ out'.seen = out.seen /\ out'.args = out.args
  BY <1>1, NotedIs DEF TypeOK, ToolCall
<1>8. sent' \in [llm : Nat, verbs : Nat] /\ sent'.llm = sent.llm /\ sent'.verbs = sent.verbs + 1
  <2>1. sent \in [llm : Nat, verbs : Nat]
    BY <1>1 DEF TypeOK
  <2>2. QED
    BY <1>2, <2>1
<1>9. TypeOK'
  BY <1>1, <1>2, <1>7, <1>8, StringsAre DEF TypeOK
<1>10. Course'
  BY <1>1, <1>2, <1>7
  DEF TurnIInv, Course, NothingYet, InLoop, RefusedLeaves, ReturnIsSeen, RanOut, AbortEnds
<1>11. Counts'
  <2>1. CallsCounted' /\ Nudged'
    BY <1>1, <1>2, <1>3 DEF TurnIInv, Counts, CallsCounted, Beyond, Nudged
  <2>2. Requests'
    BY <1>1, <1>2, <1>3, <1>8 DEF TurnIInv, Counts, Requests, InLoop
  <2>3. Verbs'
    <3>1. PICK t, v, c \in Nat : /\ t = todo /\ v = sent.verbs /\ c = Cap * rnd
                                 /\ t = todo' /\ v + 1 = sent'.verbs /\ c = Cap * rnd'
      BY <1>1, <1>2, <1>8, Typed
    <3>2. v + t <= c /\ t > 0
      BY <1>1, <3>1 DEF TurnIInv, Counts, Verbs
    <3>3. v + 1 <= c /\ (v + 1) + t <= c + 1
      BY <3>1, <3>2
    <3>4. QED
      BY <1>2, <3>1, <3>3 DEF Verbs
  <2>4. QED
    BY <2>1, <2>2, <2>3 DEF Counts
<1>12. QED
  BY <1>2, <1>9, <1>10, <1>11, GoesOn DEF TurnIInv

LEMMA VerbAbortsKeeps ==
  ASSUME TurnIInv, NEW err \in {"cancelled", "deadline"}, VerbAborts(err) PROVE TurnIInv'
<1>1. TypeOK /\ pc = "verb" /\ answer = Blank /\ exit \in {"", "hooks_refuse"} /\ Fail(answer, err)
  BY DEF TurnIInv, Course, NothingYet, InLoop, VerbAborts
<1>2. /\ UNCHANGED <<cfg, ctxDone, hooks, exit, sent, rnd, todo, unanswered, asked, nils, verb, out, layerArgs>>
      /\ UNCHANGED <<nudged>> /\ aborted' = (err = "cancelled") /\ (err = "cancelled" => ctxDone)
  BY DEF VerbAborts
<1>3. MaxRounds' = MaxRounds /\ ForceReturnRoundsLeft' = ForceReturnRoundsLeft
  BY <1>2, SettingsStay
<1>4. pc' = "done" /\ pc' \in Places /\ answer' \in Text /\ result' \in Result /\ result'.err = err /\ Ended'
  BY <1>1, FailEnds, TextIs, StringsAre
<1>5. TypeOK'
  BY <1>1, <1>2, <1>4 DEF TypeOK
<1>6. Course'
  BY <1>1, <1>2, <1>4
  DEF TurnIInv, Course, NothingYet, InLoop, RefusedLeaves, ReturnIsSeen, RanOut, AbortEnds
<1>7. Counts'
  BY <1>1, <1>2, <1>3, <1>4, Typed DEF TurnIInv, Counts, CallsCounted, Beyond, Requests, Verbs, Nudged, InLoop
<1>8. QED
  BY <1>4, <1>5, <1>6, <1>7 DEF TurnIInv

LEMMA VerbReturnsKeeps ==
  ASSUME TurnIInv, NEW data \in BOOLEAN, NEW hit \in BOOLEAN, NEW complete \in BOOLEAN, NEW args \in BOOLEAN,
         NEW summary \in Text, VerbReturns(data, hit, complete, args, summary)
  PROVE  TurnIInv'
<1>1. TypeOK /\ pc = "verb" /\ todo > 0
  BY DEF TurnIInv, Counts, CallsCounted, VerbReturns
<1>2. PICK ends, more \in BOOLEAN :
        /\ ends = (verb = "pipeline" /\ complete /\ ~hit)
        /\ more = (out.payload \/ (data /\ verb # "orient"))
  BY <1>1, OutcomeIs DEF TypeOK
<1>3. PICK s \in BOOLEAN : s = (out.seen \/ ends)
  BY <1>1, <1>2, OutcomeIs DEF TypeOK
<1>4. PICK t \in Text : t = IF ends THEN (IF out.terminal = Blank THEN summary ELSE out.terminal) ELSE out.terminal
  BY <1>1, OutcomeIs DEF TypeOK
<1>5. /\ UNCHANGED <<cfg, ctxDone, rnd, asked, nils, exit, answer, result, sent, aborted, nudged>>
      /\ todo' = todo - 1 /\ unanswered' = unanswered - 1 /\ pc' = "tools" /\ verb' = "none"
      /\ hooks' = Fold(hooks, hit) /\ UNCHANGED layerArgs
  BY <1>2 DEF VerbReturns, Reply
<1>6. PICK a \in Text \cup {NoArgs} : a = IF ends /\ args THEN summary ELSE out.args
  <2>1. out.args \in Text \cup {NoArgs}
    BY <1>1, OutcomeIs DEF TypeOK
  <2>2. QED
    BY <2>1
<1>7. out' = Got(out, more, s, t, a)
  BY <1>2, <1>3, <1>4, <1>6 DEF VerbReturns, Got
<1>8. out' \in Outcome /\ out'.seen = s /\ out'.args = a /\ hooks' \in Hooks
  <2>1. out \in Outcome /\ hooks \in Hooks
    BY <1>1 DEF TypeOK
  <2>2. out' \in Outcome /\ out'.seen = s /\ out'.args = a
    <3>1. PICK o \in Outcome : o = out
      BY <2>1
    <3>2. Got(o, more, s, t, a) \in Outcome /\ Got(o, more, s, t, a).seen = s /\ Got(o, more, s, t, a).args = a
      <4>1. more \in BOOLEAN /\ s \in BOOLEAN /\ t \in Text /\ a \in Text \cup {NoArgs}
        BY <1>2, <1>3, <1>4, <1>6
      <4>2. QED
        BY <3>1, <4>1 DEF Outcome, Got
    <3>3. QED
      BY <1>7, <3>1, <3>2, Zenon
  <2>3. QED
    BY <1>5, <2>1, <2>2, HooksAre
<1>9. TypeOK'
  BY <1>1, <1>5, <1>8, AtCall, StringsAre DEF TypeOK
<1>10. Course'
  BY <1>1, <1>3, <1>5, <1>8, <1>6
  DEF TurnIInv, Course, NothingYet, InLoop, RefusedLeaves, ReturnIsSeen, RanOut, AbortEnds
<1>11. Counts'
  BY <1>1, <1>5, CountsAfterCall
<1>12. QED
  BY <1>5, <1>9, <1>10, <1>11, GoesOn DEF TurnIInv

LEMMA ToolsDoneKeeps == ASSUME TurnIInv, ToolsDone PROVE TurnIInv'
<1>1. TypeOK /\ pc = "tools" /\ todo = 0
  BY DEF TurnIInv, ToolsDone
<1>2. /\ UNCHANGED <<cfg, ctxDone, hooks, exit, answer, result, sent, rnd, todo, unanswered, asked, nils, verb, out>>
      /\ UNCHANGED <<aborted, nudged>> /\ pc' = "roundEnd"
      /\ layerArgs' = IF out.args = NoArgs THEN layerArgs ELSE out.args
  BY DEF ToolsDone
<1>3. MaxRounds' = MaxRounds /\ ForceReturnRoundsLeft' = ForceReturnRoundsLeft
  BY <1>2, SettingsStay
<1>4. TypeOK'
  <2>1. out.args \in Text \cup {NoArgs} /\ layerArgs \in Text \cup {NoArgs}
    BY <1>1, OutcomeIs DEF TypeOK
  <2>2. layerArgs' \in Text \cup {NoArgs}
    BY <1>2, <2>1
  <2>3. QED
    BY <1>1, <1>2, <2>2, StringsAre DEF TypeOK
<1>5. Course'
  BY <1>1, <1>2
  DEF TurnIInv, Course, NothingYet, InLoop, RefusedLeaves, ReturnIsSeen, RanOut, AbortEnds
<1>6. Counts'
  BY <1>1, <1>2, <1>3, Typed DEF TurnIInv, Counts, CallsCounted, Beyond, Requests, Verbs, Nudged, InLoop
<1>7. QED
  BY <1>2, <1>4, <1>5, <1>6, GoesOn DEF TurnIInv
-----------------------------------------------------------------------------
(* The policy and the result *)

\* must_refuse comes first in the policy table.
LEMMA PolicyIs ==
  ASSUME NEW l \in Layer, NEW refuse \in BOOLEAN, NEW score \in Nat
  PROVE  /\ Policy(l, refuse, score).policy \in {"answer", "clarify", "refuse", "error"}
         /\ refuse => Policy(l, refuse, score) = [policy |-> "refuse", forced |-> TRUE]
<1>1. /\ l.ok \in BOOLEAN /\ l.action \in Actions /\ l.trigger \in BOOLEAN /\ l.attempt \in BOOLEAN
      /\ l.incomplete \in BOOLEAN
  BY DEF Layer
<1>2. CASE refuse
  BY <1>2 DEF Policy
<1>3. CASE ~refuse /\ ~l.ok
  BY <1>3 DEF Policy
<1>4. CASE ~refuse /\ l.ok /\ l.trigger /\ (l.attempt \/ score >= 1)
  BY <1>4 DEF Policy
<1>5. CASE ~refuse /\ l.ok /\ ~(l.trigger /\ (l.attempt \/ score >= 1))
  <2>1. PICK a : a = CASE l.action # "" -> l.action
                       [] l.action = "" /\ l.incomplete -> "clarify"
                       [] OTHER -> "answer"
    OBVIOUS
  <2>2. a \in {"answer", "clarify", "refuse", "error"}
    BY <1>1, <2>1 DEF Actions
  <2>3. Policy(l, refuse, score) = [policy |-> a, forced |-> FALSE]
    BY <1>5, <2>1 DEF Policy
  <2>4. QED
    BY <1>5, <2>2, <2>3
<1>6. QED
  BY <1>1, <1>2, <1>3, <1>4, <1>5

LEMMA ScrubIs ==
  ASSUME NEW text \in Text, NEW summary \in Text
  PROVE  /\ Scrub(text, summary) \in Text
         /\ Scrub(text, summary).g2 => summary.g2
         /\ ~text.g2 => Scrub(text, summary) = text
         /\ text = summary /\ summary # Blank => Scrub(text, summary) = summary
<1>1. text.g2 \in BOOLEAN /\ summary.g2 \in BOOLEAN
  BY TextIs
<1>2. PICK cut : cut = [text EXCEPT !.g2 = FALSE]
  OBVIOUS
<1>3. cut \in Text /\ cut.g2 = FALSE
  BY <1>2 DEF Text
<1>4. Scrub(text, summary) = CASE text.g2 /\ summary # Blank -> summary
                               [] text.g2 /\ summary = Blank -> cut
                               [] OTHER -> text
  BY <1>2 DEF Scrub
<1>5. CASE text.g2 /\ summary # Blank
  BY <1>4, <1>5
<1>6. CASE text.g2 /\ summary = Blank
  BY <1>3, <1>4, <1>6
<1>7. CASE ~text.g2
  BY <1>4, <1>7
<1>8. QED
  BY <1>1, <1>5, <1>6, <1>7

LEMMA LayerIs == ASSUME TypeOK, NEW l \in Layers PROVE l \in Layer
<1>1. NoLayer \in Layer
  <2>1. "" \in Actions
    BY DEF Actions
  <2>2. QED
    BY <2>1 DEF NoLayer, Layer
<1>2. QED
  BY <1>1 DEF Layers

\* What is peeled is a text; of a text of the client nothing is peeled.
LEMMA PeeledIs ==
  ASSUME TypeOK, NEW p \in Peeled PROVE p \in Text /\ (answer.by # "model" => p = answer)
<1>1. answer \in Text /\ layerArgs \in Text \cup {NoArgs}
  BY DEF TypeOK
<1>2. PICK cut : cut = [answer EXCEPT !.g2 = FALSE]
  OBVIOUS
<1>3. cut \in Text
  BY <1>1, <1>2 DEF Text
<1>4. p = answer \/ (answer.by = "model" /\ (p = cut \/ (p = layerArgs /\ layerArgs.by = "model")))
  BY <1>2 DEF Peeled
<1>5. layerArgs.by = "model" => layerArgs \in Text
  BY <1>1, TextIs
<1>6. QED
  BY <1>1, <1>3, <1>4, <1>5

LEMMA DecideKeeps ==
  ASSUME TurnIInv, NEW l \in Layers, NEW peeled \in Peeled, NEW hit \in BOOLEAN, Decide(l, peeled, hit)
  PROVE  TurnIInv'
<1>1. TypeOK /\ pc = "decide"
  BY DEF TurnIInv, Decide
<1>2. PICK refuse \in BOOLEAN : refuse = (hooks.refuse \/ hit)
  BY <1>1, Typed
<1>3. l \in Layer /\ peeled \in Text /\ (answer.by # "model" => peeled = answer)
  BY <1>1, LayerIs, PeeledIs
<1>4. PICK h : h = Fold(hooks, hit)
  OBVIOUS
<1>5. h \in Hooks /\ h.refuse = refuse /\ h.score \in Nat
  <2>1. h \in Hooks /\ (h.refuse <=> refuse)
    BY <1>1, <1>2, <1>4, HooksAre DEF TypeOK
  <2>2. QED
    BY <2>1 DEF Hooks
<1>6. PICK summary : summary = IF layerArgs = NoArgs THEN Blank ELSE layerArgs
  OBVIOUS
<1>7. summary \in Text /\ (summary.g2 => layerArgs.g2)
  BY <1>1, <1>6, TextIs DEF TypeOK
<1>8. PICK d : d = Policy(l, refuse, h.score)
  OBVIOUS
<1>9. d.policy \in {"answer", "clarify", "refuse", "error"} /\ (refuse => d.policy = "refuse" /\ d.forced)
  BY <1>3, <1>5, <1>8, PolicyIs
<1>10. PICK ui : ui = MapMessage(d.policy, l, summary)
  OBVIOUS
<1>11. ui \in {summary, ClientText("soft"), ClientText("failure")} /\ ui \in Text
  <2>1. "soft" \in Authors /\ "failure" \in Authors
    BY DEF Authors
  <2>2. ui \in {summary, ClientText("soft"), ClientText("failure")}
    BY <1>10 DEF MapMessage
  <2>3. QED
    BY <1>7, <2>1, <2>2, TextIs
<1>12. PICK layered, forced \in BOOLEAN : /\ layered = (layerArgs # NoArgs \/ refuse)
                                          /\ forced = (d.forced /\ d.policy \in {"refuse", "error"})
  OBVIOUS
<1>13. PICK final : final = CASE ~layered -> peeled
                              [] layered /\ (forced \/ peeled = Blank \/ d.policy = "clarify") ->
                                   IF ui = Blank THEN peeled ELSE ui
                              [] OTHER -> peeled
  OBVIOUS
<1>14. final \in Text /\ (refuse /\ ui # Blank => final = ui)
  BY <1>3, <1>9, <1>11, <1>12, <1>13
<1>15. PICK pol : pol = IF layered THEN d.policy ELSE "answer"
  OBVIOUS
<1>16. /\ answer' = Scrub(final, summary) /\ hooks' = h /\ pc' = "done"
       /\ result' = [status |-> StatusOf(pol), err |-> "none", action |-> l.action]
       /\ hit => peeled.by = "model"
  BY <1>2, <1>4, <1>6, <1>8, <1>10, <1>12, <1>13, <1>15 DEF Decide
<1>17. /\ UNCHANGED <<cfg, ctxDone, exit, sent, rnd, todo, unanswered, asked, nils, verb, out, layerArgs>>
       /\ UNCHANGED <<aborted, nudged>>
  BY DEF Decide, loopVars
<1>18. MaxRounds' = MaxRounds /\ ForceReturnRoundsLeft' = ForceReturnRoundsLeft
  BY <1>17, SettingsStay
<1>19. PICK r : r = [status |-> StatusOf(pol), err |-> "none", action |-> l.action]
  OBVIOUS
<1>20. r \in Result /\ r.status = StatusOf(pol) /\ r.err = "none" /\ r.action = l.action
  <2>1. l.action \in Actions
    BY <1>3 DEF Layer
  <2>2. StatusOf(pol) \in Statuses
    <3>1. StatusOf(pol) \in {"max_rounds", "refused", "clarify", "error", "ok"}
      BY DEF StatusOf
    <3>2. QED
      BY <3>1 DEF Statuses
  <2>3. "none" \in Errors
    BY DEF Errors
  <2>4. QED
    BY <1>19, <2>1, <2>2, <2>3 DEF Result
<1>21. answer' \in Text /\ (answer'.g2 => layerArgs.g2)
  BY <1>7, <1>14, <1>16, ScrubIs
<1>22. TypeOK'
  BY <1>1, <1>5, <1>16, <1>17, <1>19, <1>20, <1>21, StringsAre DEF TypeOK
<1>23. Course'
  BY <1>1, <1>16, <1>17, <1>18
  DEF TurnIInv, Course, NothingYet, InLoop, RefusedLeaves, ReturnIsSeen, RanOut, AbortEnds
<1>24. Counts'
  BY <1>1, <1>16, <1>17, <1>18, Typed DEF TurnIInv, Counts, CallsCounted, Beyond, Requests, Verbs, Nudged, InLoop
<1>25. ASSUME refuse
       PROVE  /\ r.status = "refused"
              /\ answer'.by = "soft" \/ (r.action = "refuse" /\ answer' = layerArgs)
  <2>1. exit # "max_rounds"
    <3>1. exit = "max_rounds" => answer = ClientText("client") /\ ~hooks.refuse
      BY <1>1 DEF TurnIInv, Course, RanOut
    <3>2. answer = ClientText("client") => peeled.by = "client"
      BY <1>3, ClientIs
    <3>3. QED
      BY <1>2, <1>16, <1>25, <3>1, <3>2
  <2>2. pol = "refuse" /\ StatusOf("refuse") = "refused"
    BY <1>9, <1>12, <1>15, <1>25, <2>1 DEF StatusOf
  <2>3. CASE summary # Blank /\ l.action = "refuse"
    <3>1. ui = summary
      BY <1>9, <1>10, <1>25, <2>3 DEF MapMessage
    <3>2. answer' = summary
      BY <1>7, <1>14, <1>16, <1>25, <2>3, <3>1, ScrubIs
    <3>3. QED
      BY <1>6, <1>20, <2>2, <2>3, <3>2
  <2>4. CASE ~(summary # Blank /\ l.action = "refuse")
    <3>1. ui = ClientText("soft")
      BY <1>9, <1>10, <1>25, <2>4 DEF MapMessage
    <3>2. ui.by = "soft" /\ ui.g2 = FALSE /\ ui # Blank
      <4>1. "soft" \in Authors
        BY DEF Authors
      <4>2. QED
        BY <3>1, <4>1, TextIs
    <3>3. answer' = ui
      BY <1>7, <1>11, <1>14, <1>16, <1>25, <3>2, ScrubIs
    <3>4. QED
      BY <1>20, <2>2, <3>2, <3>3
  <2>5. QED
    BY <2>3, <2>4
<1>26. Ended'
  <2>1. RefusalIsFinal'
    BY <1>5, <1>16, <1>17, <1>19, <1>20, <1>25 DEF RefusalIsFinal
  <2>2. ErrorHasNoModelText' /\ AnswerHasNoG2'
    BY <1>16, <1>17, <1>19, <1>20, <1>21 DEF ErrorHasNoModelText, AnswerHasNoG2
  <2>3. QED
    BY <2>1, <2>2 DEF Ended
<1>27. QED
  BY <1>22, <1>23, <1>24, <1>26 DEF TurnIInv

LEMMA CtxCancelKeeps == ASSUME TurnIInv, CtxCancel PROVE TurnIInv'
<1>1. /\ TypeOK /\ pc # "done" /\ ctxDone' = TRUE
      /\ UNCHANGED <<cfg, pc, hooks, exit, answer, result, sent, rnd, todo, unanswered, asked, nils, verb, out>>
      /\ UNCHANGED <<layerArgs, aborted, nudged>>
  BY DEF TurnIInv, CtxCancel, loopVars
<1>2. MaxRounds' = MaxRounds /\ ForceReturnRoundsLeft' = ForceReturnRoundsLeft
  BY <1>1, SettingsStay
<1>3. TypeOK'
  BY <1>1 DEF TypeOK
<1>4. Course'
  BY <1>1, <1>2
  DEF TurnIInv, Course, NothingYet, InLoop, RefusedLeaves, ReturnIsSeen, RanOut, AbortEnds
<1>5. Counts'
  BY <1>1, <1>2 DEF TurnIInv, Counts, CallsCounted, Beyond, Requests, Verbs, Nudged, InLoop
<1>6. QED
  BY <1>1, <1>3, <1>4, <1>5, GoesOn DEF TurnIInv
-----------------------------------------------------------------------------
(* The theorems *)

LEMMA InitIsOK == ASSUME Init PROVE TurnIInv
<1>1. TypeOK
  <2>1. hooks \in Hooks
    <3>1. hooks = [refuse |-> FALSE, score |-> 0]
      BY DEF Init
    <3>2. QED
      BY <3>1 DEF Hooks
  <2>2. result \in Result
    <3>1. "none" \in Statuses /\ "none" \in Errors /\ "" \in Actions
      BY DEF Statuses, Errors, Actions
    <3>2. QED
      BY <3>1 DEF Init, Result
  <2>3. /\ rnd \in Nat /\ todo \in 0..Cap /\ unanswered \in 0..MaxCalls /\ asked \in 0..MaxCalls
        /\ nils \in 0..MaxCalls
        /\ nudged \in Nat /\ sent \in [llm : Nat, verbs : Nat]
    <3>1. rnd = 0 /\ todo = 0 /\ unanswered = 0 /\ asked = 0 /\ nils = 0 /\ nudged = 0 /\ sent = [llm |-> 0, verbs |-> 0]
      BY DEF Init
    <3>2. Cap \in Nat /\ MaxCalls \in Nat
      BY AgentTurnAssumption
    <3>3. QED
      BY <3>1, <3>2
  <2>4. QED
    BY <2>1, <2>2, <2>3, StringsAre, TextIs, OutcomeIs DEF Init, TypeOK
<1>2. Course
  BY DEF Init, Course, NothingYet, InLoop, RefusedLeaves, ReturnIsSeen, RanOut, AbortEnds
<1>3. Counts
  <2>1. /\ pc = "start" /\ rnd = 0 /\ todo = 0 /\ unanswered = 0 /\ asked = 0 /\ nils = 0
        /\ nudged = 0 /\ sent = [llm |-> 0, verbs |-> 0]
    BY DEF Init
  <2>2. MaxRounds \in Nat \ {0} /\ Cap * 0 = 0 /\ sent.llm = 0 /\ sent.verbs = 0 /\ Beyond = 0
    BY <1>1, <2>1, Typed, AgentTurnAssumption DEF Beyond
  <2>3. QED
    BY <2>1, <2>2 DEF Counts, CallsCounted, Requests, Verbs, Nudged, InLoop
<1>4. Ended
  BY DEF Init, Ended, ErrorHasNoModelText, RefusalIsFinal, AnswerHasNoG2
<1>5. QED
  BY <1>1, <1>2, <1>3, <1>4 DEF TurnIInv

LEMMA StutterKeeps == ASSUME TurnIInv, UNCHANGED vars PROVE TurnIInv'
<1>1. /\ UNCHANGED <<cfg, pc, ctxDone, rnd, todo, unanswered, asked, nils, verb, hooks, out>>
      /\ UNCHANGED <<layerArgs, exit, answer, result, sent, aborted, nudged>>
  BY DEF vars
<1>2. MaxRounds' = MaxRounds /\ ForceReturnRoundsLeft' = ForceReturnRoundsLeft
  BY <1>1, SettingsStay
<1>3. TypeOK'
  BY <1>1 DEF TurnIInv, TypeOK
<1>4. Course'
  BY <1>1, <1>2
  DEF TurnIInv, Course, NothingYet, InLoop, RefusedLeaves, ReturnIsSeen, RanOut, AbortEnds
<1>5. Counts'
  BY <1>1, <1>2 DEF TurnIInv, Counts, CallsCounted, Beyond, Requests, Verbs, Nudged, InLoop
<1>6. Ended'
  BY <1>1 DEF TurnIInv, Ended, ErrorHasNoModelText, RefusalIsFinal, AnswerHasNoG2
<1>7. QED
  BY <1>3, <1>4, <1>5, <1>6 DEF TurnIInv

LEMMA ToolStepKeeps == ASSUME TurnIInv, ToolStep PROVE TurnIInv'
<1>1. ASSUME ToolCancelled \/ ToolNil \/ ToolsDone PROVE TurnIInv'
  BY <1>1, ToolCancelledKeeps, ToolNilKeeps, ToolsDoneKeeps
<1>2. ASSUME NEW s \in SummaryText \cup {Blank}, ToolReturn(s) \/ ToolDenied(s) \/ ToolRefused(s) PROVE TurnIInv'
  BY <1>2, ToolReturnKeeps, ToolDeniedKeeps, ToolRefusedKeeps, TextIs
<1>3. ASSUME NEW s \in SummaryText \cup {Blank}, NEW k \in Kinds \ {"return", "foreign"}, ToolCall(k, s)
      PROVE  TurnIInv'
  BY <1>3, ToolCallKeeps, TextIs
<1>4. ASSUME NEW s \in SummaryText \cup {Blank}, NEW data \in BOOLEAN, NEW hit \in BOOLEAN,
             NEW complete \in BOOLEAN, NEW args \in BOOLEAN, VerbReturns(data, hit, complete, args, s)
      PROVE  TurnIInv'
  BY <1>4, VerbReturnsKeeps, TextIs
<1>5. ASSUME NEW e \in {"cancelled", "deadline"}, VerbAborts(e) PROVE TurnIInv'
  BY <1>5, VerbAbortsKeeps
<1>6. QED
  BY <1>1, <1>2, <1>3, <1>4, <1>5 DEF ToolStep

LEMMA LlmStepKeeps == ASSUME TurnIInv, LlmStep PROVE TurnIInv'
<1>1. ASSUME NEW e \in {"cancelled", "deadline", "llm"}, LlmError(e) PROVE TurnIInv'
  BY <1>1, LlmErrorKeeps
<1>2. ASSUME NEW hit \in BOOLEAN, NEW t \in ModelText \cup {ClientText("client")}, LlmText(t, hit) PROVE TurnIInv'
  BY <1>2, LlmTextKeeps, TextIs, ClientIs
<1>3. ASSUME NEW hit \in BOOLEAN, NEW n \in 1..MaxCalls, NEW recovered \in BOOLEAN, LlmCalls(n, recovered, hit)
      PROVE  TurnIInv'
  BY <1>3, LlmCallsKeeps
<1>4. ASSUME NEW t \in ModelText \cup {Blank}, NEW fails \in BOOLEAN, Insight(t, fails) PROVE TurnIInv'
  BY <1>4, InsightKeeps, TextIs
<1>5. QED
  BY <1>1, <1>2, <1>3, <1>4 DEF LlmStep

\* Every step of the turn, and the caller's cancel, keep the inductive invariant.
LEMMA NextKeeps == ASSUME TurnIInv, [Next]_vars PROVE TurnIInv'
<1>1. ASSUME NEW hit \in BOOLEAN, Start(hit) PROVE TurnIInv'
  BY <1>1, StartKeeps
<1>2. ASSUME Prepared \/ Round \/ OutOfRounds PROVE TurnIInv'
  BY <1>2, PreparedKeeps, RoundKeeps, OutOfRoundsKeeps
<1>3. ASSUME LlmStep \/ ToolStep PROVE TurnIInv'
  BY <1>3, LlmStepKeeps, ToolStepKeeps
<1>4. ASSUME RoundReturn \/ RoundCheap \/ RoundNext PROVE TurnIInv'
  BY <1>4, RoundReturnKeeps, RoundCheapKeeps, RoundNextKeeps
<1>5. ASSUME NEW l \in Layers, NEW p \in Peeled, NEW hit \in BOOLEAN, Decide(l, p, hit) PROVE TurnIInv'
  BY <1>5, DecideKeeps
<1>6. ASSUME CtxCancel PROVE TurnIInv'
  BY <1>6, CtxCancelKeeps
<1>7. QED
  BY <1>1, <1>2, <1>3, <1>4, <1>5, <1>6, StutterKeeps DEF Next, TurnStep

LEMMA TurnIsInductive == Spec => []TurnIInv
<1>1. Init => TurnIInv
  BY InitIsOK
<1>2. TurnIInv /\ [Next]_vars => TurnIInv'
  BY NextKeeps
<1>3. QED
  BY <1>1, <1>2, PTL DEF Spec

\* For any settings, caps and numbers of calls: a turn keeps its budget of requests and verbs,
\* tells the model before its last round, answers the calls it looked at before the next request,
\* reports a cancelled request, and shows no model text with an error and no G2 field that the
\* summary of its return does not carry.
THEOREM TurnsAreSound == Spec => []TurnInv
<1>1. ASSUME TurnIInv PROVE TurnInv
  <2>1. TypeOK /\ ErrorHasNoModelText /\ AnswerHasNoG2
    BY <1>1 DEF TurnIInv, Ended
  <2>2. Budget
    <3>1. PICK n, m, s \in Nat : n = rnd /\ m = MaxRounds /\ s = sent.llm
      BY <2>1, Typed
    <3>2. n <= m /\ s <= n + 1 /\ (s > n => cfg.ai) /\ sent.verbs <= Cap * rnd
      BY <1>1, <3>1 DEF TurnIInv, Counts, Requests, Verbs
    <3>3. s <= m + (IF cfg.ai THEN 1 ELSE 0)
      BY <3>1, <3>2
    <3>4. QED
      BY <3>1, <3>2, <3>3 DEF Budget
  <2>3. NudgedBeforeMaxRounds
    <3>1. exit = "max_rounds" => rnd = MaxRounds /\ layerArgs = NoArgs
      BY <1>1 DEF TurnIInv, Course, RanOut
    <3>2. /\ rnd > 1 /\ MaxRounds - rnd <= ForceReturnRoundsLeft => nudged = rnd
          /\ ForceReturnRoundsLeft < 0 => nudged = 0
      BY <1>1 DEF TurnIInv, Counts, Nudged
    <3>3. PICK m \in Nat, f \in Int : m = MaxRounds /\ f = ForceReturnRoundsLeft
      BY <2>1, Typed
    <3>4. f >= 0 => m - m <= f
      OBVIOUS
    <3>5. QED
      BY <3>1, <3>2, <3>3, <3>4 DEF NudgedBeforeMaxRounds
  <2>4. CallsAnsweredBeforeNextRequest
    BY <1>1 DEF TurnIInv, Counts, CallsCounted, CallsAnsweredBeforeNextRequest
  <2>5. CancelIsReported
    BY <1>1 DEF TurnIInv, Course, AbortEnds, CancelIsReported
  <2>6. QED
    BY <2>1, <2>2, <2>3, <2>4, <2>5 DEF TurnInv
<1>2. QED
  BY <1>1, TurnIsInductive, PTL

\* A turn whose hooks must refuse ends as refused, with the client's refusal or the model's own.
THEOREM RefusalsAreFinal == Spec => []RefusalIsFinal
<1>1. ASSUME TurnIInv PROVE RefusalIsFinal
  BY <1>1 DEF TurnIInv, Ended
<1>2. QED
  BY <1>1, TurnIsInductive, PTL

\* Once the hooks refused or the caller cancelled, only an insight hop still leaves.
THEOREM NothingFollowsTheEnd == Spec => OnlyInsightOnceOver
<1> DEFINE Over == hooks.refuse \/ ctxDone
           Quiet == sent' = sent \/ (pc' = "insight" /\ out.seen /\ sent'.verbs = sent.verbs)
<1>1. ASSUME TurnIInv, Next, Over PROVE Quiet
  <2>1. sent \in [llm : Nat, verbs : Nat] /\ (pc \in {"round", "llm"} => ~hooks.refuse)
    BY <1>1 DEF TurnIInv, TypeOK, Course, RefusedLeaves
  <2>2. ASSUME Round PROVE sent' = sent
    BY <1>1, <2>1, <2>2 DEF Round
  <2>3. ASSUME RoundReturn PROVE Quiet
    <3>1. out.seen /\ (sent' = sent \/ (pc' = "insight" /\ sent' = [sent EXCEPT !.llm = @ + 1]))
      BY <2>3 DEF RoundReturn
    <3>2. QED
      BY <2>1, <3>1
  <2>4. ASSUME ToolStep PROVE sent' = sent
    <3>1. CASE ToolCancelled \/ ToolNil \/ ToolsDone
      BY <3>1 DEF ToolCancelled, ToolNil, ToolsDone
    <3>2. ASSUME NEW s, ToolReturn(s) \/ ToolDenied(s) \/ ToolRefused(s) PROVE sent' = sent
      BY <3>2 DEF ToolReturn, ToolDenied, ToolRefused
    <3>3. ASSUME NEW s, NEW k, ToolCall(k, s) PROVE sent' = sent
      BY <1>1, <3>3 DEF ToolCall
    <3>4. ASSUME NEW s, NEW data, NEW hit, NEW complete, NEW args, VerbReturns(data, hit, complete, args, s)
          PROVE  sent' = sent
      BY <3>4 DEF VerbReturns
    <3>5. ASSUME NEW e, VerbAborts(e) PROVE sent' = sent
      BY <3>5 DEF VerbAborts
    <3>6. QED
      BY <2>4, <3>1, <3>2, <3>3, <3>4, <3>5 DEF ToolStep
  <2>5. ASSUME LlmStep PROVE sent' = sent
    BY <2>5 DEF LlmStep, LlmError, LlmText, LlmCalls, Insight
  <2>6. ASSUME \/ \E hit \in BOOLEAN : Start(hit)
               \/ Prepared \/ OutOfRounds \/ RoundCheap \/ RoundNext \/ CtxCancel
               \/ \E l \in Layers, p \in Peeled, hit \in BOOLEAN : Decide(l, p, hit)
        PROVE  sent' = sent
    BY <2>6 DEF Start, Prepared, OutOfRounds, RoundCheap, RoundNext, CtxCancel, Decide
  <2>7. QED
    BY <1>1, <2>2, <2>3, <2>4, <2>5, <2>6 DEF Next, TurnStep
<1>2. ASSUME TurnIInv, [Next]_vars PROVE [Over => Quiet]_vars
  BY <1>1, <1>2
<1>3. QED
  BY <1>2, TurnIsInductive, PTL DEF Spec, OnlyInsightOnceOver
=============================================================================
