------------------------------- MODULE Config -------------------------------
(***************************************************************************)
(* How a configuration is put together: the file or the pins, the profile, *)
(* the environment and the profile again (src/config/loader.go, pins.go,   *)
(* profiles.go, models.go, cache.go), and the model settings that a job's  *)
(* unit gets from it (src/config/llm_roles.go).                            *)
(*                                                                         *)
(* A file and an environment are functions on the keys that they have.     *)
(* Texts that nothing here tells apart are left out: URLs, the target,     *)
(* time limits, retry numbers, identities.  A result is a record of an     *)
(* error code ("none" for success) and a configuration.                    *)
(***************************************************************************)
EXTENDS Integers, TLC

\* asString, asBool, envOr: the value of a key, or the default.
Get(m, k, def) == IF k \in DOMAIN m THEN m[k] ELSE def

AuthModes == {"none", "basic", "bearer", "session"}

\* A mapping without keys; also the rules of a host that has none.
Empty == [k \in {} |-> ""]
NoRules == Empty

\* A ruleset id is one that the host chose, or stands for a pack of rules.
NoId == [host |-> FALSE, pack |-> NoRules]
HostId == [host |-> TRUE, pack |-> NoRules]

\* Default: settings stand for the fields of ClientSettings, one of each kind.
DefaultSettings ==
  [ai |-> FALSE, ignore |-> TRUE, override |-> FALSE, rounds |-> 8, mode |-> "analytics", onError |-> "strip",
   company |-> 0, meta |-> "", rid |-> NoId, rules |-> NoRules, tenant |-> NoRules, output |-> "nil"]

Default ==
  [profile |-> "development", auth |-> "none", tls |-> TRUE, settings |-> DefaultSettings,
   preview |-> 2048, detective |-> FALSE, capture |-> FALSE, level |-> "info", redact |-> TRUE,
   endpoint |-> FALSE, otel |-> FALSE, host |-> FALSE, cache |-> FALSE, modes |-> {"agent"},
   llm |-> [model |-> "grok", key |-> "XAI_API_KEY"], roles |-> Empty, models |-> Empty]

Ok(cfg) == [err |-> "none", cfg |-> cfg]
Error(code) == [err |-> code, cfg |-> Default]

\* if err != nil { return err }
Then(r, F(_)) == IF r.err = "none" THEN F(r.cfg) ELSE r
-----------------------------------------------------------------------------
(* Profiles *)

ProfileName(name) ==
  CASE name \in {"", "dev", "development"} -> "development"
    [] name \in {"prod", "production"} -> "production"
    [] OTHER -> name

\* What every profile sets, a name that is none of the four included.
Policy(cfg, name) ==
  [cfg EXCEPT !.profile = name,
              !.preview = CASE name = "production" -> 2048 [] name = "ci" -> 4096 [] OTHER -> 16384,
              !.detective = (name = "hub"),
              !.capture = (name \notin {"production", "ci"})]

\* ValidateProductionSecurity
ValidateProductionSecurity(cfg) ==
  IF cfg.auth = "none" \/ ~cfg.tls THEN Error("config_invalid") ELSE Ok(cfg)

\* The production profile on top of the common policy.
Production(cfg) ==
  ValidateProductionSecurity(
    [cfg EXCEPT !.settings.ai = FALSE, !.redact = TRUE, !.otel = @ \/ cfg.endpoint,
                !.level = IF @ \in {"error", "info", "debug", "trace"} THEN @ ELSE "info"])

ApplyProfile(cfg, profile) ==
  LET name == ProfileName(profile)
      c    == Policy(cfg, name)
  IN  CASE name = "production"  -> Production(c)
        [] name = "development" -> Ok([c EXCEPT !.level = IF @ = "info" THEN "debug" ELSE @])
        [] name = "ci"          -> Ok([c EXCEPT !.settings.ai = FALSE])
        [] name = "hub"         -> Ok([c EXCEPT !.settings.ai = TRUE])
        [] OTHER                -> Ok(c)
-----------------------------------------------------------------------------
(* The file *)

\* overlayPins: only what pins have is read, and the mode is not validated.
OverlayPins(base, data) ==
  [base EXCEPT !.auth = Get(data, "auth", @),
               !.settings.ai = Get(data, "ai", @),
               !.llm = [model |-> Get(data, "model", @.model), key |-> Get(data, "key", @.key)]]

\* parseClientSettings: a key that is there replaces the default, but for a blank
\* app_output_on_error.
ParseClientSettings(data) ==
  LET read == Get(data, "settings", Empty)
  IN  [f \in DOMAIN DefaultSettings |->
         CASE f = "ai" -> Get(data, "ai", FALSE)
           [] f = "onError" /\ Get(read, f, "") = "" -> "strip"
           [] OTHER -> Get(read, f, DefaultSettings[f])]

\* parseLLMRoles: a role without a key of its own is given the one of the file.
ParseLLMRoles(roles, key) ==
  [r \in DOMAIN roles |-> [k \in DOMAIN roles[r] \cup {"key"} |-> Get(roles[r], k, key)]]

\* parseSemanticCache: off, unless the file says on; no modes means the default.
ParseSemanticCache(raw) ==
  [cache |-> Get(raw, "enabled", FALSE),
   modes |-> IF Get(raw, "modes", {}) = {} THEN Default.modes ELSE raw.modes]

\* parseJobs
ParseJobs(data) == [host |-> Get(data, "host", FALSE), models |-> Get(data, "models", Empty)]

FromRuntimeMapping(data, profile) ==
  LET key  == Get(data, "key", Default.llm.key)
      sem  == ParseSemanticCache(Get(data, "cache", Empty))
      jobs == ParseJobs(data)
      cfg  == [Default EXCEPT
                 !.auth = Get(data, "auth", @), !.tls = Get(data, "tls", @),
                 !.settings = ParseClientSettings(data),
                 !.level = Get(data, "level", @), !.redact = Get(data, "redact", @),
                 !.endpoint = Get(data, "endpoint", @), !.otel = Get(data, "otel", @),
                 !.host = jobs.host, !.models = jobs.models,
                 !.cache = sem.cache, !.modes = sem.modes,
                 !.llm = [model |-> Get(data, "model", @.model), key |-> key],
                 !.roles = ParseLLMRoles(Get(data, "roles", Empty), key)]
  IN  IF cfg.auth \notin AuthModes THEN Error("auth_mode_invalid")
      ELSE ApplyProfile(cfg, IF profile # "" THEN profile ELSE Get(data, "profile", "development"))

\* FromMapping: pins are known by their own keys.
FromMapping(data, profile) ==
  IF Get(data, "pins", FALSE)
  THEN ApplyProfile(OverlayPins(Default, data),
                    IF profile # "" THEN profile ELSE Get(data, "profile", Default.profile))
  ELSE FromRuntimeMapping(data, profile)
-----------------------------------------------------------------------------
(* The environment *)

\* With a URL in the environment its authentication mode is not looked at.
EnvAuth(cfg, env) == IF Get(env, "url", FALSE) THEN cfg.auth ELSE Get(env, "auth", cfg.auth)

EnvOverlay(cfg, env) ==
  [cfg EXCEPT !.auth = EnvAuth(cfg, env), !.tls = Get(env, "tls", @),
              !.settings.ai = Get(env, "ai", @),
              !.level = Get(env, "level", @), !.redact = Get(env, "redact", @),
              !.endpoint = Get(env, "endpoint", @), !.otel = Get(env, "otel", @),
              !.host = @ \/ Get(env, "host", FALSE), !.cache = Get(env, "cache", @),
              !.llm = [model |-> Get(env, "model", @.model), key |-> Get(env, "key", @.key)],
              !.profile = Get(env, "profile", @)]

\* Mutant: the profile is not applied to what the environment has changed.
ApplyEnv_NoProfile(cfg, env) ==
  LET c == EnvOverlay(cfg, env)
  IN  IF ~Get(env, "url", FALSE) /\ c.auth \notin AuthModes THEN Error("auth_mode_invalid")
      ELSE Ok([c EXCEPT !.profile = ProfileName(@)])

\* applyEnv: the profile is applied once more, to what the environment has changed.
ApplyEnv(cfg, env) ==
  LET c == EnvOverlay(cfg, env)
  IN  IF ~Get(env, "url", FALSE) /\ c.auth \notin AuthModes THEN Error("auth_mode_invalid")
      ELSE ApplyProfile(c, c.profile)

\* The profile that Load starts with.
FirstProfile(data, arg, env) ==
  IF arg # "" THEN arg ELSE Get(env, "profile", Get(data, "profile", "development"))

\* Load: path is "none" (no file), "bad" (missing, unreadable, or no mapping) or "file".
Load(path, data, arg, env) ==
  CASE path = "bad"  -> Error("config_file")
    [] path = "none" -> Then(FromMapping(Empty, FirstProfile(Empty, arg, env)),
                             LAMBDA c : ApplyEnv(c, env))
    [] OTHER         -> Then(FromMapping(data, FirstProfile(data, arg, env)),
                             LAMBDA c : ApplyEnv(c, env))

\* Snapshot: a copy; the lists of a cache that is off are not copied.
Snapshot(cfg) == [cfg EXCEPT !.modes = IF cfg.cache THEN @ ELSE {}]
-----------------------------------------------------------------------------
(* The model settings of a unit *)

\* mergeLLMPartial: what the later layer names replaces what there was.
MergeLLMPartial(dst, src) == [k \in DOMAIN dst |-> Get(src, k, dst[k])]

\* ResolveLlmSlice: the configuration, the role, jobs.models, the models of the run
\* (the role's, then the unit's), and what a worker unit says itself.
ResolveLlmSlice(cfg, role, run, ofUnit, unit) ==
  LET a == MergeLLMPartial(cfg.llm, Get(cfg.roles, role, Empty))
      b == MergeLLMPartial(a, Get(cfg.models, role, Empty))
      c == MergeLLMPartial(MergeLLMPartial(b, Get(run, role, Empty)), ofUnit)
  IN  IF role = "worker" THEN MergeLLMPartial(c, unit) ELSE c
=============================================================================
