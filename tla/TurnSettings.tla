---------------------------- MODULE TurnSettings ----------------------------
(***************************************************************************)
(* The settings of one turn and what they put into its chat request: the   *)
(* overlay of the request's settings on the client's, twice                *)
(* (src/config/models.go, src/api/agent.go, src/application/agent_turn.go) *)
(* the rules (src/domain/rules.go) and the control-plane inject            *)
(* (src/application/control_plane_inject.go).                              *)
(*                                                                         *)
(* Rules are functions from rule ids to texts; a text is "sdk", "tenant",  *)
(* "request" or blank.  A company context is its number of words.  A       *)
(* system prompt surface is the document's own text and the blocks that    *)
(* were put behind it, in order.                                           *)
(***************************************************************************)
EXTENDS Config, Sequences

CONSTANTS JailbreakRuleIDs,   \* the ids of the SDK's own rules
          HardWords           \* CompanyContextHardWords

ASSUME TurnSettingsAssumption == JailbreakRuleIDs # {} /\ HardWords \in Nat \ {0}

Flags == {"ai", "ignore", "override"}
-----------------------------------------------------------------------------
(* Overlays *)

\* The zero value of the field f.
Zero(f) == CASE f \in Flags -> FALSE [] f \in {"rounds", "company"} -> 0
             [] f \in {"mode", "meta", "onError"} -> "" [] f = "rid" -> NoId
             [] f \in {"rules", "tenant"} -> NoRules [] OTHER -> "nil"

IsZero(s) == \A f \in DOMAIN s : s[f] = Zero(f)

\* OverlaySettings: flags come from over, what is zero in it from base.
OverlaySettings(base, over) ==
  [f \in DOMAIN base |-> IF f \notin Flags /\ over[f] = Zero(f) THEN base[f] ELSE over[f]]

\* fillTurnSettings
FillTurnSettings(s) == [s EXCEPT !.rounds = IF @ <= 0 THEN 8 ELSE @,
                                 !.mode = IF @ = "" THEN "analytics" ELSE @,
                                 !.onError = IF @ = "" THEN "strip" ELSE @]

\* Mutant: a flag that is on cannot be turned off.
MergeTurnSettings_Or(def, req) ==
  FillTurnSettings([f \in DOMAIN def |->
    IF f \in Flags THEN def[f] \/ req[f] ELSE IF req[f] = Zero(f) THEN def[f] ELSE req[f]])

\* mergeTurnSettings: a request that is zero in every field is no request.
MergeTurnSettings(def, req) ==
  IF IsZero(req) THEN FillTurnSettings(def)
  ELSE FillTurnSettings([f \in DOMAIN def |->
         IF f \notin Flags /\ req[f] = Zero(f) THEN def[f] ELSE req[f]])
-----------------------------------------------------------------------------
(* Rules *)

\* DefaultJailbreakRules
SDKDefaultJailbreakRules == [k \in JailbreakRuleIDs |-> "sdk"]

Blank(t) == t = ""

\* The request touches one of the SDK's rules to clear it.
Clears(request) == \E k \in DOMAIN request \cap JailbreakRuleIDs : Blank(request[k])

\* What of the request's rules goes on top.
Filtered(request, override) ==
  LET keys == {k \in DOMAIN request :
                 override \/ (k \notin JailbreakRuleIDs /\ ~Blank(request[k]))}
  IN  [k \in keys |-> request[k]]

\* for k, v := range over { pack[k] = v }
Onto(pack, over) ==
  [k \in DOMAIN pack \cup DOMAIN over |-> IF k \in DOMAIN over THEN over[k] ELSE pack[k]]

\* MergeRules: defaults, then the tenant's, then the request's.
MergeRules(tenant, request, override) ==
  IF ~override /\ Clears(request) THEN [err |-> "invalid_argument", pack |-> NoRules]
  ELSE [err |-> "none",
        pack |-> Onto(Onto(SDKDefaultJailbreakRules, tenant), Filtered(request, override))]

\* RulesetIDFor: the digest of a pack, taken to be injective.
RulesetIDFor(pack) == [host |-> FALSE, pack |-> pack]

\* FreezeSessionRules: an id that is there already stays.
FreezeSessionRules(s) ==
  LET m == MergeRules(s.tenant, s.rules, s.override)
  IN  [err |-> m.err, pack |-> m.pack, rid |-> IF s.rid = NoId THEN RulesetIDFor(m.pack) ELSE s.rid]

\* TruncateCompanyContext
TruncateCompanyContext(words) == IF words > HardWords THEN HardWords ELSE words

\* ValidateOutputRequest
ValidateOutputRequest(output) == output # "bad"

\* PrepareSettings: with an error the settings are returned as they came.
PrepareSettings(s) ==
  LET f == FreezeSessionRules(s)
  IN  IF ~ValidateOutputRequest(s.output) THEN [err |-> "invalid_argument", settings |-> s]
      ELSE IF f.err # "none" THEN [err |-> f.err, settings |-> s]
      ELSE [err |-> "none",
            settings |-> [s EXCEPT !.rules = f.pack, !.rid = f.rid,
                                   !.company = TruncateCompanyContext(@)]]
-----------------------------------------------------------------------------
(* The inject *)

\* A block: its heading and what it says; NoBlock fields where it says nothing.
Block(h) == [h |-> h, words |-> 0, rid |-> NoId, rules |-> NoRules, tool |-> ""]

\* RenderCompanyContext truncates too.
RenderCompanyContext(s) ==
  IF s.company = 0 THEN <<>> ELSE <<[Block("company") EXCEPT !.words = TruncateCompanyContext(s.company)]>>

RenderSettingsMeta(s) ==
  IF s.meta = "" /\ s.rid = NoId THEN <<>> ELSE <<[Block("settings") EXCEPT !.rid = s.rid]>>

RenderRulesBlock(s) ==
  IF s.rules = NoRules THEN <<>> ELSE <<[Block("rules") EXCEPT !.rules = s.rules]>>

RenderOutputRequestBlock(s) == IF s.output = "nil" THEN <<>> ELSE <<Block("output")>>

RenderToolPathPolicy(ignore) ==
  <<[Block("tool") EXCEPT !.tool = IF ignore THEN "ignore" ELSE "honor"]>>

\* BuildInjectBlock
BuildInjectBlock(s) ==
  RenderCompanyContext(s) \o RenderSettingsMeta(s) \o RenderRulesBlock(s) \o RenderOutputRequestBlock(s)

\* A surface: is there a text, a brief marker in it, white space at its end, and the
\* blocks.  hasBriefMarker
HasHeading(surface, h) == \E i \in 1..Len(surface.blocks) : surface.blocks[i].h = h
DocHasHeading(doc, h) == \E s \in DOMAIN doc : HasHeading(doc[s], h)
DocHasBriefMarker(doc) == \E s \in DOMAIN doc : doc[s].text /\ doc[s].brief

\* spliceAfterBrief: behind the brief of a surface that does not have the heading.
SpliceAfterBrief(surface, block) ==
  IF ~surface.text \/ ~surface.brief \/ HasHeading(surface, block[1].h) THEN surface
  ELSE [surface EXCEPT !.ws = FALSE, !.blocks = @ \o block]

\* spliceChatReq
SpliceChatReq(doc, block) ==
  IF block = <<>> \/ ~DocHasBriefMarker(doc) \/ DocHasHeading(doc, block[1].h) THEN doc
  ELSE [s \in DOMAIN doc |-> SpliceAfterBrief(doc[s], block)]

\* injectBagB: whether either block is needed is decided on the document as it came.
InjectBagB(doc, s) == SpliceChatReq(SpliceChatReq(doc, BuildInjectBlock(s)), RenderToolPathPolicy(s.ignore))

\* systemFromRequest: the first system message that is not blank, else the caller's
\* prompt, which has no blocks.
NoSurface == [text |-> FALSE, brief |-> FALSE, ws |-> FALSE, blocks |-> <<>>]
SystemFromRequest(doc) == IF doc["message"].text THEN doc["message"] ELSE NoSurface

\* ComputeContractHash of what the inject may change: a surface counts up to its
\* marker, with the white space and the blocks that come before.
HashedText(doc) == [s \in DOMAIN doc |-> IF doc[s].brief THEN NoSurface ELSE doc[s]]
=============================================================================
