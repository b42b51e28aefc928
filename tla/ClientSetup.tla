---------------------------- MODULE ClientSetup ----------------------------
(***************************************************************************)
(* A client from New to Close: the configuration is loaded (Config), the   *)
(* runtime is built from it, turns take their settings from it             *)
(* (TurnSettings), and goroutines use, rebind and close it                 *)
(* (ClientRuntime).                                                        *)
(*                                                                         *)
(* runtime.cfg is never assigned after newRuntime, and what a turn makes   *)
(* of it is its own.  So turns and the calls of ClientRuntime share        *)
(* nothing that changes, and the model lets the turns come first.  Of the  *)
(* configuration it keeps what later actions read: the settings, until     *)
(* Serve.                                                                  *)
(***************************************************************************)
EXTENDS ClientRuntime, TurnSettings

CONSTANTS Files,      \* configuration files: functions on keys
          Envs,       \* environments
          Profiles,   \* the profile arguments of Load, "" for none
          Requests,   \* settings of a turn's caller
          Docs,       \* chat requests
          HttpJobs    \* the job port that newRuntime makes for a host URL

\* A sequence, of whatever.
IsSeq(s) == s \in Seq({s[i] : i \in DOMAIN s})

\* No block of the sequence has more words than the hard limit.
WithinLimit(blocks) == \A i \in 1..Len(blocks) : blocks[i].words \in 0..HardWords

\* asBool: a flag of a file or of the environment is a Boolean.
ASSUME ClientSetupAssumption ==
  /\ HttpJobs \in JobPorts /\ "" \in Profiles
  /\ \A file \in Files : Get(file, "ai", FALSE) \in BOOLEAN
  /\ \A env \in Envs : Get(env, "ai", FALSE) \in BOOLEAN

\* A company context is text, so it has a number of words.
ASSUME WordsAssumption ==
  /\ \A file \in Files : Get(Get(file, "settings", Empty), "company", 0) \in Nat
  /\ \A req \in Requests : req.company \in Nat

\* A chat request has a system message; blocks that are in it already were rendered by
\* an earlier inject, within the limit.
ASSUME DocsAssumption ==
  \A doc \in Docs :
    /\ doc = [s \in DOMAIN doc |-> doc[s]] /\ "message" \in DOMAIN doc
    /\ \A s \in DOMAIN doc :
         /\ doc[s] = [text |-> doc[s].text, brief |-> doc[s].brief, ws |-> doc[s].ws, blocks |-> doc[s].blocks]
         /\ IsSeq(doc[s].blocks) /\ WithinLimit(doc[s].blocks)

VARIABLES phase,   \* "new", "loaded", "failed", "ready", "turn", "serve"
          load,    \* the arguments of Load
          cfg,     \* runtime.cfg
          turn     \* the turn under way

setupVars == <<phase, load, cfg, turn>>
allVars == <<vars, setupVars>>

NoLoad == [path |-> "none", file |-> Empty, arg |-> "", env |-> Empty]
NoTurn == [asked |-> FALSE, req |-> DefaultSettings, err |-> "none", settings |-> DefaultSettings,
           before |-> Empty, after |-> Empty]

SetupInit ==
  /\ Init
  /\ phase = "new" /\ load = NoLoad /\ cfg = Default /\ turn = NoTurn

\* resolveConfig: Load, for New without a configuration.
ResolveConfig(path, file, arg, env) ==
  /\ phase = "new"
  /\ load' = [path |-> path, file |-> file, arg |-> arg, env |-> env]
  /\ LET r == Load(path, file, arg, env)
     IN  /\ cfg' = IF r.err = "none" THEN Snapshot(r.cfg) ELSE Default
         /\ phase' = IF r.err = "none" THEN "loaded" ELSE "failed"
  /\ UNCHANGED <<vars, turn>>

\* New has returned the error: there is no client, and the host may try again.
NewFails ==
  /\ phase = "failed"
  /\ phase' = "new" /\ load' = NoLoad
  /\ UNCHANGED <<vars, cfg, turn>>

\* newRuntime: the job port of the options, else one for the configured host.
NewRuntime ==
  /\ phase = "loaded"
  /\ slot' = [slot EXCEPT !["jobs"] = IF @ = None /\ cfg.host THEN HttpJobs ELSE @]
  /\ cfg' = [Default EXCEPT !.settings = cfg.settings]
  /\ phase' = "ready" /\ load' = NoLoad
  /\ UNCHANGED <<closed, jobsAPI, held, pc, deps, err, closes, returned, replaced, late, turn>>

\* RunTurn and the head of RunAgentTurn: the error of PrepareSettings is dropped.
RunTurn(asked, req, doc) ==
  /\ phase = "ready"
  /\ LET cs == IF asked THEN OverlaySettings(cfg.settings, req) ELSE cfg.settings
         p  == PrepareSettings(MergeTurnSettings(cfg.settings, cs))
     IN  turn' = [asked |-> asked, req |-> req, err |-> p.err, settings |-> p.settings,
                  before |-> doc, after |-> InjectBagB(doc, p.settings)]
  /\ phase' = "turn"
  /\ UNCHANGED <<vars, load, cfg>>

TurnEnds ==
  /\ phase = "turn"
  /\ phase' = "ready" /\ turn' = NoTurn
  /\ UNCHANGED <<vars, load, cfg>>

Serve ==
  /\ phase = "ready"
  /\ phase' = "serve" /\ cfg' = Default
  /\ UNCHANGED <<vars, load, turn>>

\* The calls of ClientRuntime.
Use == phase = "serve" /\ Next /\ UNCHANGED setupVars

SetupNext ==
  \/ /\ phase = "new"
     /\ \E arg \in Profiles, env \in Envs :
          \/ \E path \in {"none", "bad"} : ResolveConfig(path, Empty, arg, env)
          \/ \E file \in Files : ResolveConfig("file", file, arg, env)
  \/ NewFails \/ NewRuntime
  \/ /\ phase = "ready"
     /\ \E doc \in Docs :
          \/ RunTurn(FALSE, DefaultSettings, doc)
          \/ \E req \in Requests : RunTurn(TRUE, req, doc)
  \/ TurnEnds \/ Serve \/ Use

SetupSpec == SetupInit /\ [][SetupNext]_allVars
-----------------------------------------------------------------------------
(* Properties of a configuration *)

\* A key that Load saw, in the environment or in the file.
Asked(k, v) == Get(load.env, k, Get(load.file, k, ~v)) = v

(***************************************************************************)
(* Whatever file, argument and environment say, a client of the production *)
(* profile authenticates, verifies TLS, captures no bodies, sends no       *)
(* results to the model unasked, and redacts its logs - an environment     *)
(* that loosens one of these after the file was checked included.          *)
(***************************************************************************)
ProductionIsSecure ==
  phase = "loaded" /\ cfg.profile = "production" =>
    /\ cfg.auth # "none" /\ cfg.tls /\ cfg.redact
    /\ ~cfg.capture /\ ~cfg.detective /\ ~cfg.settings.ai
    /\ cfg.endpoint => cfg.otel

(***************************************************************************)
(* The profile is the one of the environment, else of the argument, else   *)
(* of the file: the two applications agree on who wins.                    *)
(***************************************************************************)
ProfileByPrecedence ==
  phase = "loaded" =>
    cfg.profile = ProfileName(
      Get(load.env, "profile", IF load.arg # "" THEN load.arg
                               ELSE Get(load.file, "profile", "development")))

(***************************************************************************)
(* Nothing but the file, the environment or a hub profile turns the        *)
(* processing of results on.  The hub profile may be the first of the two  *)
(* that are applied: what it set stays under one that leaves it be.        *)
(***************************************************************************)
ProcessingIsAsked ==
  phase = "loaded" /\ cfg.settings.ai =>
    \/ Asked("ai", TRUE)
    \/ "hub" \in {cfg.profile, load.arg, Get(load.file, "profile", "")}

(***************************************************************************)
(* A client's authentication mode is one that the Zeus port knows, but for *)
(* pins with another one and a URL in the environment: neither is checked. *)
(***************************************************************************)
AuthIsKnown ==
  phase = "loaded" =>
    cfg.auth \in AuthModes \/ (Get(load.file, "pins", FALSE) /\ Get(load.env, "url", FALSE))

(***************************************************************************)
(* A semantic cache that is on has its modes, also when the environment    *)
(* turned on what the file had off: the copy that drops them comes last.   *)
(***************************************************************************)
CacheHasModes == phase = "loaded" /\ cfg.cache => cfg.modes # {}

(***************************************************************************)
(* A worker's key is the one that jobs.models names, else its role's, else *)
(* the configuration's - except that a role without a key keeps the key of *)
(* the file, when the environment names another.                           *)
(***************************************************************************)
WorkerKeyIsNamed ==
  phase = "loaded" =>
    LET slice == ResolveLlmSlice(cfg, "worker", Empty, Empty, Empty)
        model == Get(cfg.models, "worker", Empty)
    IN  slice.key = IF "key" \in DOMAIN model THEN model.key
                    ELSE IF "worker" \in DOMAIN cfg.roles
                    THEN Get(load.file.roles["worker"], "key", Get(load.file, "key", Default.llm.key))
                    ELSE cfg.llm.key

(***************************************************************************)
(* The invariant of a loaded configuration: production is secured, the     *)
(* profile is by precedence, and nothing is on that nobody asked for.      *)
(***************************************************************************)
ConfigInv ==
  /\ ProductionIsSecure /\ ProfileByPrecedence /\ ProcessingIsAsked
  /\ AuthIsKnown /\ CacheHasModes /\ WorkerKeyIsNamed
-----------------------------------------------------------------------------
(* Properties of a turn *)

\* The settings that the turn's caller should get, before they are prepared.
Wanted == FillTurnSettings(IF turn.asked THEN OverlaySettings(cfg.settings, turn.req) ELSE cfg.settings)

(***************************************************************************)
(* The overlay of the facade and the overlay of the turn are together one: *)
(* a request turns a flag off as well as on, and leaves what it does not   *)
(* name as the configuration has it.                                       *)
(***************************************************************************)
RequestDecides ==
  phase = "turn" =>
    /\ \A f \in Flags \cup {"rounds", "mode", "onError", "meta", "tenant", "output"} : turn.settings[f] = Wanted[f]
    /\ turn.err # "none" => turn.settings = Wanted

\* Nothing was injected into the chat request before the turn.
Plain(doc) == \A s \in DOMAIN doc : doc[s].blocks = <<>>

\* Only the i-th block has the heading h.
IsOnly(blocks, h, i) == \A j \in 1..Len(blocks) : blocks[j].h = h <=> j = i

(***************************************************************************)
(* The model gets the SDK's rules: when the system message of the chat     *)
(* request has a brief, it has one rules block, and each of the SDK's ids  *)
(* in it has the SDK's text or the tenant's, unless the settings override  *)
(* the defaults - or unless they could not be prepared, which the turn     *)
(* does not notice, or the host had injected something itself.             *)
(***************************************************************************)
RulesReachModel ==
  LET sent == SystemFromRequest(turn.after)
      at   == 1..Len(sent.blocks)
  IN  phase = "turn" /\ Plain(turn.before) /\ sent.text /\ sent.brief =>
        /\ \E i \in at : /\ IsOnly(sent.blocks, "tool", i)
                         /\ sent.blocks[i].tool = IF Wanted.ignore THEN "ignore" ELSE "honor"
        /\ turn.err = "none" =>
             \E i \in at :
               /\ IsOnly(sent.blocks, "rules", i)
               /\ JailbreakRuleIDs \subseteq DOMAIN sent.blocks[i].rules
               /\ \A k \in JailbreakRuleIDs :
                    ~Wanted.override => sent.blocks[i].rules[k] = Get(Wanted.tenant, k, "sdk")

(***************************************************************************)
(* The prompt stays within the hard limit of the company context, in a     *)
(* turn whose settings could not be prepared too.                          *)
(***************************************************************************)
CompanyWithinLimit ==
  phase = "turn" => \A s \in DOMAIN turn.after : WithinLimit(turn.after[s].blocks)

(***************************************************************************)
(* The inject is outside of the contract and is made once: it leaves what  *)
(* the contract hash covers as it was, and a second one changes nothing.   *)
(***************************************************************************)
InjectKeepsContract ==
  phase = "turn" =>
    /\ HashedText(turn.after) = HashedText(turn.before)
    /\ InjectBagB(turn.after, turn.settings) = turn.after

(***************************************************************************)
(* A host that prepares settings and hands them to a turn, which prepares  *)
(* them again, gets what it prepared: a frozen pack freezes to itself under*)
(* its id - or is refused, when the tenant had blanked one of the SDK's    *)
(* rules, and then the dropped error leaves it as it was.                  *)
(***************************************************************************)
FrozenStays ==
  phase = "turn" /\ turn.err = "none" => PrepareSettings(turn.settings).settings = turn.settings

(***************************************************************************)
(* The invariant of a turn's settings: they are the request's, and what    *)
(* they put into the prompt reaches the model, once and off the contract.  *)
(***************************************************************************)
TurnSettingsInv ==
  RequestDecides /\ RulesReachModel /\ CompanyWithinLimit /\ InjectKeepsContract /\ FrozenStays
=============================================================================
