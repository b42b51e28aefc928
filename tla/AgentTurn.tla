----------------------------- MODULE AgentTurn -----------------------------
(***************************************************************************)
(* One agent turn, src/application/agent_turn.go: the loop of LLM rounds   *)
(* and Zeus tool calls, the security hooks that watch it                   *)
(* (src/application/middleware.go), and the policy table that decides what *)
(* the user sees (src/domain/policy.go).                                   *)
(*                                                                         *)
(* The turn is sequential, but it waits for the LLM and for Zeus while the *)
(* caller may cancel its context, and both may answer anything.  A text is *)
(* reduced to where it comes from and whether it carries a G2 field        *)
(* ("wish_i_knew"); a jailbreak assessment to whether it hits.             *)
(***************************************************************************)
EXTENDS Integers

CONSTANTS MaxRoundsSettings,  \* the values of settings.max_rounds
          DefaultMaxRounds,   \* defaultMaxRounds
          LeftSettings,       \* the values of settings.force_return_rounds_left
          Cap,                \* maxToolCallsPerRound
          MaxCalls,           \* bound: tool calls in one LLM response
          AnswerG2,           \* whether an answer of the model carries a G2 field: the cases
          SummaryG2           \* whether a summary does

ASSUME AgentTurnAssumption ==
  /\ MaxRoundsSettings \subseteq Int /\ LeftSettings \subseteq Int
  /\ {DefaultMaxRounds, Cap} \subseteq Nat \ {0}
  /\ MaxCalls \in Nat
  /\ AnswerG2 \subseteq BOOLEAN /\ SummaryG2 \subseteq BOOLEAN

VARIABLES
  cfg,         \* what the caller passes: settings, ports, catalog
  pc,          \* where the turn is
  ctxDone,     \* the caller's context is cancelled
  rnd,         \* roundsDone
  todo,        \* tool calls of the round that the loop will still look at
  unanswered,  \* tool calls of the last assistant message without a tool message
  asked,       \* history: the tool calls of that message
  nils,        \* history: the nil ones that the loop skipped
  verb,        \* the kind of the tool call that waits for Zeus
  hooks,       \* mwCtx.Data: hooks_must_refuse and hooks_jailbreak_score
  out,         \* ToolRoundOutcome of the round, with its ReturnArgs: their summary
  layerArgs,   \* lastReturnArgs, once there are any: its summary
  exit,        \* exitKind
  answer,
  result,      \* TurnResult: status and error
  sent,        \* history: LLM requests and verb requests sent
  aborted,     \* history: a request came back with the error of the cancelled context
  nudged       \* history: the last round that got the force_return message

loopVars == <<rnd, todo, unanswered, asked, nils, verb, out, layerArgs, aborted, nudged>>
vars == <<cfg, pc, ctxDone, rnd, todo, unanswered, asked, nils, verb, hooks, out, layerArgs,
          exit, answer, result, sent, aborted, nudged>>
-----------------------------------------------------------------------------
\* A text, by its author: nobody (empty), the model, or the client's own words;
\* soft and failure are the two policy messages.
Authors == {"none", "model", "client", "soft", "failure"}
Text == [by : Authors, g2 : BOOLEAN]
Blank == [by |-> "none", g2 |-> FALSE]
ModelText == {[by |-> "model", g2 |-> g] : g \in AnswerG2}
SummaryText == {[by |-> "model", g2 |-> g] : g \in SummaryG2}
\* lastReturnArgs, or the ReturnArgs of a round, is nil.
NoArgs == [by |-> "absent", g2 |-> FALSE]
ClientText(b) == [by |-> b, g2 |-> FALSE]

\* LayerA.PolicyAction; the empty string where the model gives none.
Actions == {"", "answer", "clarify", "refuse", "error"}

Kinds == {"return", "pipeline", "data", "orient", "foreign"}

NoOutcome == [seen |-> FALSE, terminal |-> Blank, argSummary |-> Blank, payload |-> FALSE,
              args |-> NoArgs]

Config == [ai : BOOLEAN, max : MaxRoundsSettings, left : LeftSettings, zeus : BOOLEAN,
           llm : BOOLEAN, message : BOOLEAN,
           catalog : {"empty", "noPipeline", "pipeline"}]   \* the tools of the request

Hooks == [refuse : BOOLEAN, score : 0..2]
Outcome == [seen : BOOLEAN, terminal : Text, argSummary : Text, payload : BOOLEAN,
            args : Text \cup {NoArgs}]

Statuses == {"none", "ok", "error", "refused", "clarify", "max_rounds"}
Errors == {"none", "cancelled", "deadline", "message_empty", "no_llm", "llm"}
Result == [status : Statuses, err : Errors, action : Actions]

Places == {"start", "prepared", "round", "llm", "tools", "verb", "roundEnd", "insight", "decide", "done"}
Exits == {"", "hooks_refuse", "direct", "error", "insight", "cheap_terminal", "cheap_final", "max_rounds"}

TypeOK ==
  /\ cfg \in Config /\ pc \in Places /\ ctxDone \in BOOLEAN
  /\ rnd \in Nat /\ todo \in 0..Cap /\ unanswered \in 0..MaxCalls
  /\ asked \in 0..MaxCalls /\ nils \in 0..MaxCalls
  /\ verb \in Kinds \cup {"none"}
  /\ hooks \in Hooks /\ out \in Outcome /\ layerArgs \in Text \cup {NoArgs}
  /\ exit \in Exits /\ answer \in Text /\ result \in Result
  /\ sent \in [llm : Nat, verbs : Nat]
  /\ aborted \in BOOLEAN /\ nudged \in Nat

Init ==
  /\ cfg \in Config
  /\ pc = "start"
  /\ ctxDone = FALSE
  /\ rnd = 0 /\ todo = 0 /\ unanswered = 0 /\ asked = 0 /\ nils = 0
  /\ verb = "none"
  /\ hooks = [refuse |-> FALSE, score |-> 0]
  /\ out = NoOutcome
  /\ layerArgs = NoArgs
  /\ exit = ""
  /\ answer = Blank
  /\ result = [status |-> "none", err |-> "none", action |-> ""]
  /\ sent = [llm |-> 0, verbs |-> 0]
  /\ aborted = FALSE
  /\ nudged = 0

\* fillTurnSettings, and the second round that an insight turn needs.
MaxRounds ==
  LET m == IF cfg.max <= 0 THEN DefaultMaxRounds ELSE cfg.max
  IN  IF cfg.ai /\ m < 2 THEN 2 ELSE m

ForceReturnRoundsLeft == IF cfg.left = 0 THEN 1 ELSE cfg.left

\* foldAssessment: the score only grows, 2 is HardRefuseScore; must_refuse is sticky.
Fold(h, hit) == IF hit THEN [refuse |-> TRUE, score |-> 2] ELSE h

\* denyVerb: DeniedVerbScore.
Deny(h) == [h EXCEPT !.score = IF @ < 1 THEN 1 ELSE @]

\* finishTurn with an error; the answer is what the loop has so far.
Fail(text, err) ==
  /\ pc' = "done"
  /\ answer' = text
  /\ result' = [status |-> "error", err |-> err, action |-> ""]
-----------------------------------------------------------------------------
(* The start of the turn and the head of a round *)

\* The checks before the turn, then OnTurnStart: hit, if the user's message hits.
Start(hit) ==
  /\ pc = "start"
  /\ CASE ctxDone -> Fail(Blank, "cancelled") /\ UNCHANGED <<hooks, exit>>
       [] ~ctxDone /\ ~cfg.message -> Fail(Blank, "message_empty") /\ UNCHANGED <<hooks, exit>>
       [] ~ctxDone /\ cfg.message /\ ~cfg.llm -> Fail(Blank, "no_llm") /\ UNCHANGED <<hooks, exit>>
       [] OTHER -> /\ hooks' = Fold(hooks, hit)
                   /\ exit' = IF hit THEN "hooks_refuse" ELSE ""
                   /\ pc' = "prepared"
                   /\ UNCHANGED <<answer, result>>
  /\ UNCHANGED <<cfg, ctxDone, sent, loopVars>>

\* The context once more; a turn refused before its first round skips the loop.
Prepared ==
  /\ pc = "prepared"
  /\ IF ctxDone THEN Fail(answer, "cancelled")
     ELSE /\ pc' = IF hooks.refuse THEN "decide" ELSE "round"
          /\ UNCHANGED <<answer, result>>
  /\ UNCHANGED <<cfg, ctxDone, hooks, exit, sent, loopVars>>

\* The loop condition fails: the rounds are used up.
OutOfRounds ==
  /\ pc = "round" /\ rnd = MaxRounds
  /\ exit' = "max_rounds"
  /\ answer' = ClientText("client")
  /\ pc' = "decide"
  /\ UNCHANGED <<cfg, ctxDone, hooks, result, sent, loopVars>>

\* Mutant: the message is added once, at the threshold.
Nudge_Once(r) == MaxRounds - r = ForceReturnRoundsLeft /\ r > 1

\* The message that asks the model to return is added in this round.
Nudge(r) == MaxRounds - r <= ForceReturnRoundsLeft /\ r > 1

\* The head of the loop: the context, the nudge, the LLM request.
Round ==
  /\ pc = "round" /\ rnd < MaxRounds
  /\ IF ctxDone
     THEN Fail(answer, "cancelled") /\ UNCHANGED <<rnd, nudged, sent>>
     ELSE /\ rnd' = rnd + 1
          /\ nudged' = IF Nudge(rnd + 1) THEN rnd + 1 ELSE nudged
          /\ sent' = [sent EXCEPT !.llm = @ + 1]
          /\ pc' = "llm"
          /\ UNCHANGED <<answer, result>>
  /\ UNCHANGED <<cfg, ctxDone, hooks, exit, todo, unanswered, asked, nils, verb, out,
                 layerArgs, aborted>>

\* Complete returns an error, which ends the turn: llmErrAsDomain hands on the
\* port's own (the context's, a deadline, or any other, whether the context has
\* ended or not).
LlmError(err) ==
  /\ pc = "llm"
  /\ err = "cancelled" => ctxDone
  /\ Fail(ClientText("client"), err)
  /\ aborted' = (err = "cancelled")
  /\ UNCHANGED <<cfg, ctxDone, hooks, exit, sent, rnd, todo, unanswered, asked, nils, verb,
                 out, layerArgs, nudged>>

\* Complete returns text only, which is the answer: AfterLLM, then direct exit.
LlmText(text, hit) ==
  /\ pc = "llm"
  /\ hooks' = Fold(hooks, hit)
  /\ answer' = text
  /\ exit' = "direct"
  /\ pc' = "decide"
  /\ UNCHANGED <<cfg, ctxDone, result, sent, loopVars>>

\* The calls that executeToolCalls looks at: the first Cap of them.
LookedAt(n) == IF n > Cap THEN Cap ELSE n

\* Complete returns n tool calls, or a pipeline envelope in its text that is
\* recovered as a call, if the catalog has pipeline and the hooks do not
\* refuse.  Without a Zeus port the turn ends.
LlmCalls(n, recovered, hit) ==
  /\ pc = "llm"
  /\ hooks' = Fold(hooks, hit)
  /\ recovered => n = 1 /\ cfg.zeus /\ cfg.catalog = "pipeline" /\ ~hit
  /\ unanswered' = n
  /\ asked' = n /\ nils' = 0
  /\ IF cfg.zeus
     THEN /\ pc' = "tools"
          /\ todo' = LookedAt(n)
          /\ verb' = IF recovered THEN "pipeline" ELSE "none"
          /\ out' = NoOutcome
          /\ UNCHANGED <<exit, answer>>
     ELSE /\ pc' = "decide"
          /\ exit' = "error"
          /\ answer' = ClientText("client")
          /\ UNCHANGED <<todo, verb, out>>
  /\ UNCHANGED <<cfg, ctxDone, rnd, layerArgs, aborted, nudged, result, sent>>
-----------------------------------------------------------------------------
(* executeToolCalls *)

\* A tool message answers the call that the loop looks at.
Reply == /\ todo' = todo - 1
         /\ unanswered' = unanswered - 1

\* ToolArgSummary: the last summary among the arguments of the calls.
Noted(o, summary) == [o EXCEPT !.argSummary = IF summary = Blank THEN @ ELSE summary]

\* ctxErr at the head of the loop over the calls.
ToolCancelled ==
  /\ pc = "tools" /\ todo > 0 /\ ctxDone
  /\ Fail(answer, "cancelled")
  /\ UNCHANGED <<cfg, ctxDone, hooks, exit, sent, loopVars>>

\* A nil entry of the tool calls is skipped: it never gets a tool message.
ToolNil ==
  /\ pc = "tools" /\ todo > 0 /\ ~ctxDone /\ verb = "none"
  /\ todo' = todo - 1
  /\ nils' = nils + 1
  /\ UNCHANGED <<cfg, pc, ctxDone, rnd, unanswered, asked, verb, hooks, out, layerArgs, exit,
                 answer, result, sent, aborted, nudged>>

\* return / return_result: its arguments are the Layer A candidate.
ToolReturn(summary) ==
  /\ pc = "tools" /\ todo > 0 /\ ~ctxDone /\ verb = "none"
  /\ Reply
  /\ out' = [Noted(out, summary) EXCEPT !.seen = TRUE, !.terminal = summary, !.args = summary]
  /\ UNCHANGED <<cfg, pc, ctxDone, rnd, asked, nils, verb, hooks, layerArgs, exit, answer,
                 result, sent, aborted, nudged>>

\* BeforeZeus denies a verb outside the catalog: verb_denied is the reply.
ToolDenied(summary) ==
  /\ pc = "tools" /\ todo > 0 /\ ~ctxDone /\ verb = "none"
  /\ cfg.catalog # "empty"
  /\ hooks' = Deny(hooks)
  /\ Reply
  /\ out' = Noted(out, summary)
  /\ UNCHANGED <<cfg, pc, ctxDone, rnd, asked, nils, verb, layerArgs, exit, answer, result,
                 sent, aborted, nudged>>

\* A turn that must refuse runs no verb: turn_refused is the reply.
ToolRefused(summary) ==
  /\ pc = "tools" /\ todo > 0 /\ ~ctxDone
  /\ hooks.refuse
  /\ Reply
  /\ verb' = "none"
  /\ out' = Noted(out, summary)
  /\ UNCHANGED <<cfg, pc, ctxDone, rnd, asked, nils, hooks, layerArgs, exit, answer, result,
                 sent, aborted, nudged>>

\* CallVerb: the request leaves for Zeus.
ToolCall(kind, summary) ==
  /\ pc = "tools" /\ todo > 0 /\ ~ctxDone
  /\ verb \in {"none", kind}
  /\ kind = "pipeline" => cfg.catalog # "noPipeline"
  /\ ~hooks.refuse
  /\ pc' = "verb"
  /\ verb' = kind
  /\ out' = Noted(out, summary)
  /\ sent' = [sent EXCEPT !.verbs = @ + 1]
  /\ UNCHANGED <<cfg, ctxDone, rnd, todo, unanswered, asked, nils, hooks, layerArgs, exit,
                 answer, result, aborted, nudged>>

\* CallVerb fails with the context's error, or with that of its own timeout.
VerbAborts(err) ==
  /\ pc = "verb"
  /\ err = "cancelled" => ctxDone
  /\ Fail(answer, err)
  /\ aborted' = (err = "cancelled")
  /\ UNCHANGED <<cfg, ctxDone, hooks, exit, sent, rnd, todo, unanswered, asked, nils, verb,
                 out, layerArgs, nudged>>

\* The verb answers (or fails otherwise, which is an empty answer).  hit: the
\* body is refused and replaced by tool_body_override, which ends nothing; data:
\* what is left is not empty; complete: a pipeline body says turn_complete; args:
\* with the four fields of a Layer A.
VerbReturns(data, hit, complete, args, summary) ==
  LET ends == verb = "pipeline" /\ complete /\ ~hit
      t == IF out.terminal = Blank THEN summary ELSE out.terminal
  IN  /\ pc = "verb"
      /\ (complete \/ args) => verb = "pipeline"
      /\ args => complete /\ summary # Blank
      /\ Reply
      /\ hooks' = Fold(hooks, hit)
      /\ out' = [out EXCEPT !.payload = @ \/ (data /\ verb # "orient"),
                            !.seen = @ \/ ends,
                            !.terminal = IF ends THEN t ELSE @,
                            !.args = IF ends /\ args THEN summary ELSE @]
      /\ verb' = "none"
      /\ pc' = "tools"
      /\ UNCHANGED <<cfg, ctxDone, rnd, asked, nils, layerArgs, exit, answer, result, sent,
                     aborted, nudged>>

\* Mutant: the round waits for replies to the calls beyond the cap as well.
ToolsDone_WaitsForAll ==
  /\ pc = "tools" /\ todo = 0 /\ unanswered = 0
  /\ pc' = "roundEnd"
  /\ layerArgs' = IF out.args = NoArgs THEN layerArgs ELSE out.args
  /\ UNCHANGED <<cfg, ctxDone, hooks, exit, answer, result, sent, rnd, todo, unanswered,
                 asked, nils, verb, out, aborted, nudged>>

\* The loop over the calls is done: the round's return arguments are now the
\* turn's (those of a round that was cut short never are).
ToolsDone ==
  /\ pc = "tools" /\ todo = 0
  /\ pc' = "roundEnd"
  /\ layerArgs' = IF out.args = NoArgs THEN layerArgs ELSE out.args
  /\ UNCHANGED <<cfg, ctxDone, hooks, exit, answer, result, sent, rnd, todo, unanswered,
                 asked, nils, verb, out, aborted, nudged>>
-----------------------------------------------------------------------------
(* The end of a round *)

\* A terminating tool was seen: the insight hop, or the cheap terminal answer.
RoundReturn ==
  /\ pc = "roundEnd" /\ out.seen
  /\ IF cfg.ai
     THEN /\ pc' = "insight"
          /\ sent' = [sent EXCEPT !.llm = @ + 1]
          /\ UNCHANGED <<exit, answer>>
     ELSE /\ pc' = "decide"
          /\ exit' = "cheap_terminal"
          /\ answer' = out.terminal
          /\ UNCHANGED sent
  /\ UNCHANGED <<cfg, ctxDone, hooks, result, loopVars>>

\* insightHop: its text, or the terminal summary when it fails or is empty.
\* Whatever its error was, it is dropped.
Insight(text, fails) ==
  /\ pc = "insight"
  /\ fails => text = Blank
  /\ answer' = IF text = Blank THEN out.terminal ELSE text
  /\ exit' = "insight"
  /\ pc' = "decide"
  /\ aborted' = (fails /\ ctxDone)
  /\ UNCHANGED <<cfg, ctxDone, hooks, result, sent, rnd, todo, unanswered, asked, nils, verb,
                 out, layerArgs, nudged>>

\* Data and no insight wanted: the cheap final answer, unless the hooks refuse.
RoundCheap ==
  /\ pc = "roundEnd" /\ ~out.seen /\ ~cfg.ai /\ out.payload
  /\ exit' = IF hooks.refuse THEN "hooks_refuse" ELSE "cheap_final"
  /\ answer' = CASE hooks.refuse -> Blank
                 [] ~hooks.refuse /\ out.argSummary = Blank -> ClientText("client")
                 [] OTHER -> out.argSummary
  /\ pc' = "decide"
  /\ UNCHANGED <<cfg, ctxDone, hooks, result, sent, loopVars>>

\* Mutant: the refusal is only looked at when the turn ends.
RoundNext_EvenRefused ==
  /\ pc = "roundEnd" /\ ~out.seen /\ ~(~cfg.ai /\ out.payload)
  /\ exit' = ""
  /\ pc' = "round"
  /\ out' = NoOutcome
  /\ UNCHANGED <<cfg, ctxDone, hooks, answer, result, sent, rnd, todo, unanswered, asked,
                 nils, verb, layerArgs, aborted, nudged>>

\* The turn is aborted when the hooks refuse; otherwise the next round.
RoundNext ==
  /\ pc = "roundEnd" /\ ~out.seen /\ ~(~cfg.ai /\ out.payload)
  /\ exit' = IF hooks.refuse THEN "hooks_refuse" ELSE ""
  /\ pc' = IF hooks.refuse THEN "decide" ELSE "round"
  /\ out' = NoOutcome
  /\ UNCHANGED <<cfg, ctxDone, hooks, answer, result, sent, rnd, todo, unanswered, asked,
                 nils, verb, layerArgs, aborted, nudged>>
-----------------------------------------------------------------------------
(* The policy and the result *)

\* domain.LayerA, parsed from the arguments of the return.
Layer == [ok : BOOLEAN, action : Actions, trigger : BOOLEAN, attempt : BOOLEAN,
          incomplete : BOOLEAN]

\* The layer that stands in for a missing return when the hooks refuse.
NoLayer == [ok |-> FALSE, action |-> "", trigger |-> FALSE, attempt |-> FALSE,
            incomplete |-> TRUE]

\* Mutant: an action of the model comes before hooks_must_refuse.
Policy_ModelFirst(l, refuse, score) ==
  CASE l.ok /\ l.action # "" -> [policy |-> l.action, forced |-> FALSE]
    [] ~(l.ok /\ l.action # "") /\ refuse -> [policy |-> "refuse", forced |-> TRUE]
    [] ~(l.ok /\ l.action # "") /\ ~refuse /\ ~l.ok -> [policy |-> "error", forced |-> TRUE]
    [] OTHER -> [policy |-> "answer", forced |-> FALSE]

\* DecidePolicy, the first match wins: the policy, and whether it is forced.
Policy(l, refuse, score) ==
  CASE refuse -> [policy |-> "refuse", forced |-> TRUE]
    [] ~refuse /\ ~l.ok -> [policy |-> "error", forced |-> TRUE]
    [] ~refuse /\ l.ok /\ l.trigger /\ (l.attempt \/ score >= 1) ->
         [policy |-> "refuse", forced |-> TRUE]
    [] OTHER -> [policy |-> CASE l.action # "" -> l.action
                              [] l.action = "" /\ l.incomplete -> "clarify"
                              [] OTHER -> "answer",
                 forced |-> FALSE]

\* MapMessage: what the policy shows of a layer with this summary.
MapMessage(policy, l, summary) ==
  CASE policy = "refuse" -> IF summary # Blank /\ l.action = "refuse" THEN summary
                            ELSE ClientText("soft")
    [] policy = "error" -> ClientText("failure")
    [] OTHER -> summary

\* The two scrubs of an answer that carries a G2 field: RunAgentTurn replaces it
\* by the summary, finishTurn does the same or cuts the answer off.
Scrub(text, summary) ==
  CASE text.g2 /\ summary # Blank -> summary
    [] text.g2 /\ summary = Blank -> [text EXCEPT !.g2 = FALSE]
    [] OTHER -> text

StatusOf(policy) ==
  CASE exit = "max_rounds" -> "max_rounds"
    [] exit # "max_rounds" /\ policy = "refuse" -> "refused"
    [] exit # "max_rounds" /\ policy = "clarify" -> "clarify"
    [] exit # "max_rounds" /\ policy = "error" -> "error"
    [] OTHER -> "ok"

\* ParseLayerA of lastReturnArgs: an empty summary is an error of the layer.
Layers == IF layerArgs = NoArgs THEN {NoLayer}
          ELSE {l \in Layer : layerArgs = Blank => ~l.ok}

\* PeelLayerASummary and UserFacingAnswer: model text that is a dump gives way to
\* the summary in it, or to that of the layer.
Peeled == IF answer.by # "model" THEN {answer}
          ELSE {answer, [answer EXCEPT !.g2 = FALSE]}
                 \cup {t \in {layerArgs} : t.by = "model"}

\* After the loop: the answer is peeled and assessed (hit), the policy decides,
\* finishTurn builds the result.
Decide(l, peeled, hit) ==
  LET refuse  == hooks.refuse \/ hit
      layered == layerArgs # NoArgs \/ refuse
      summary == IF layerArgs = NoArgs THEN Blank ELSE layerArgs
      d       == Policy(l, refuse, Fold(hooks, hit).score)
      ui      == MapMessage(d.policy, l, summary)
      forced  == d.forced /\ d.policy \in {"refuse", "error"}
      final   == CASE ~layered -> peeled
                   [] layered /\ (forced \/ peeled = Blank \/ d.policy = "clarify") ->
                        IF ui = Blank THEN peeled ELSE ui
                   [] OTHER -> peeled
  IN  /\ pc = "decide"
      /\ hit => peeled.by = "model"
      /\ hooks' = Fold(hooks, hit)
      /\ answer' = Scrub(final, summary)
      /\ result' = [status |-> StatusOf(IF layered THEN d.policy ELSE "answer"),
                    err |-> "none", action |-> l.action]
      /\ pc' = "done"
      /\ UNCHANGED <<cfg, ctxDone, exit, sent, loopVars>>

\* The caller cancels the context of the turn.
CtxCancel == /\ pc # "done" /\ ~ctxDone
             /\ ctxDone' = TRUE
             /\ UNCHANGED <<cfg, pc, hooks, exit, answer, result, sent, loopVars>>
-----------------------------------------------------------------------------
ToolStep ==
  \/ ToolCancelled \/ ToolNil \/ ToolsDone
  \/ \E s \in SummaryText \cup {Blank} :
       \/ ToolReturn(s) \/ ToolDenied(s) \/ ToolRefused(s)
       \/ \E k \in Kinds \ {"return", "foreign"} : ToolCall(k, s)
       \/ \E data, hit, complete, args \in BOOLEAN : VerbReturns(data, hit, complete, args, s)
  \/ \E e \in {"cancelled", "deadline"} : VerbAborts(e)

LlmStep ==
  \/ \E e \in {"cancelled", "deadline", "llm"} : LlmError(e)
  \/ \E hit \in BOOLEAN :
       \/ \E t \in ModelText \cup {ClientText("client")} : LlmText(t, hit)
       \/ \E n \in 1..MaxCalls, recovered \in BOOLEAN : LlmCalls(n, recovered, hit)
  \/ \E t \in ModelText \cup {Blank}, fails \in BOOLEAN : Insight(t, fails)

TurnStep ==
  \/ \E hit \in BOOLEAN : Start(hit)
  \/ Prepared \/ Round \/ OutOfRounds
  \/ LlmStep
  \/ ToolStep
  \/ RoundReturn \/ RoundCheap \/ RoundNext
  \/ \E l \in Layers, p \in Peeled, hit \in BOOLEAN : Decide(l, p, hit)

Next == TurnStep \/ CtxCancel

Spec == Init /\ [][Next]_vars

\* The turn runs in its caller's goroutine; the LLM and Zeus answer, fail or
\* time out (the HTTP client puts a timeout on every request).
FairSpec == Spec /\ WF_vars(TurnStep)
-----------------------------------------------------------------------------
(* Properties *)

(***************************************************************************)
(* A turn whose hooks must refuse, at whatever point they found out, is    *)
(* reported as refused, and what the user sees is the client's refusal or  *)
(* the summary of a model that refused itself: never an answer made of     *)
(* model or tool text, never "ok", and never "max_rounds".                 *)
(***************************************************************************)
RefusalIsFinal ==
  pc = "done" /\ hooks.refuse =>
    \/ result.err # "none" /\ answer.by \in {"none", "client"}
    \/ /\ result.status = "refused" /\ result.err = "none"
       /\ answer.by = "soft" \/ (result.action = "refuse" /\ answer = layerArgs)

(***************************************************************************)
(* Once the hooks refused or the caller cancelled, wherever in the turn    *)
(* that happens, nothing more is asked: no verb of the round and no later  *)
(* round.  The one request that may still leave is the insight hop of a    *)
(* round with a return, before which the code looks at neither.            *)
(***************************************************************************)
OnlyInsightOnceOver ==
  [][hooks.refuse \/ ctxDone =>
       \/ sent' = sent
       \/ pc' = "insight" /\ out.seen /\ sent'.verbs = sent.verbs]_vars

\* The calls of the last assistant message beyond maxToolCallsPerRound.
Beyond == IF asked > Cap THEN asked - Cap ELSE 0

(***************************************************************************)
(* When a request goes to the LLM, the tool calls of the last assistant    *)
(* message that have no tool message are exactly the nil ones that were    *)
(* skipped and those beyond maxToolCallsPerRound: none, if the model keeps *)
(* within the cap.  (The code sends the others on without an answer.)      *)
(***************************************************************************)
CallsAnsweredBeforeNextRequest ==
  pc \in {"llm", "insight"} => unanswered = nils + Beyond

(***************************************************************************)
(* The budget: at most max_rounds LLM requests and one insight hop, and at *)
(* most maxToolCallsPerRound verbs in a round.                             *)
(***************************************************************************)
Budget == /\ sent.llm <= MaxRounds + (IF cfg.ai THEN 1 ELSE 0)
          /\ sent.verbs <= Cap * rnd
          /\ rnd <= MaxRounds

(***************************************************************************)
(* A turn that ran out of rounds told the model so in its last round       *)
(* (unless that was also its first, or the setting is negative, which      *)
(* switches the message off), and no return of its was ignored.            *)
(***************************************************************************)
NudgedBeforeMaxRounds ==
  exit = "max_rounds" =>
    /\ MaxRounds > 1 /\ ForceReturnRoundsLeft >= 0 => nudged = MaxRounds
    /\ ForceReturnRoundsLeft < 0 => nudged = 0
    /\ layerArgs = NoArgs

(***************************************************************************)
(* An error that the caller gets never comes with model text as an answer. *)
(***************************************************************************)
ErrorHasNoModelText ==
  pc = "done" /\ result.err # "none" => /\ result.status = "error"
                                        /\ answer.by \in {"none", "client"}

\* Every turn ends, whatever the LLM, Zeus, the hooks and the caller do.
EveryTurnEnds == <>(pc = "done")

(***************************************************************************)
(* "ctx cancel -> 000006" in the comment on RunAgentTurn: a turn with that *)
(* error was cancelled by its caller, and a turn one of whose requests     *)
(* came back with it ends with it.  Except that insightHop drops the error *)
(* of its request (such a turn ends with what it had), and that a request  *)
(* that fails otherwise after the cancel keeps its own error.              *)
(***************************************************************************)
CancelIsReported ==
  pc = "done" => /\ result.err = "cancelled" => ctxDone
                 /\ aborted => result.err = "cancelled" \/ exit = "insight"

(***************************************************************************)
(* "G2 never in answer": whatever exit the turn takes, and whichever text  *)
(* the peeling and the policy choose, an answer carries a G2 field only if *)
(* the summary of its return does, which replaces the answer unscrubbed.   *)
(***************************************************************************)
AnswerHasNoG2 == pc = "done" /\ answer.g2 => layerArgs.g2

(***************************************************************************)
(* The invariant of a turn: its budget and the message before its last     *)
(* round, the answered tool calls, and what an error may show and hide.    *)
(***************************************************************************)
TurnInv == /\ TypeOK /\ Budget /\ NudgedBeforeMaxRounds /\ CallsAnsweredBeforeNextRequest
           /\ ErrorHasNoModelText /\ CancelIsReported /\ AnswerHasNoG2
=============================================================================
