# A TLA+ model of zeus_client_golang

This directory holds TLA+ specifications of the Go client for Zeus: the job runtimes,
the authenticated verb hop, the agent turn, durable chat sessions with their traces, the
LLM retry loop, the catalogs on disk, the typeahead with its rate limiter, and the
client from its configuration to its Close. TLC checks each of them on small instances;
TLAPS proves their safety properties for every instance.
`PROJECT.json` lists the runs, the mutants that show that each property can fail, the
mapping of every definition to the source lines it translates, the hazards the
properties are for, the disagreements found between code and comments, and the theorems.

Run a check with `tlc -config <cfg> <MC module>`, a proof with
`tlapm <module>_proofs.tla`.

## Inventory

| component | state it keeps | operations | hard part | correct when |
|---|---|---|---|---|
| Multi-agent job runtime, `adapters/jobsma` | closed flag; per job: cancel function, cancelled flag, event log, snapshot; a wait group | Run, Get, Watch, Cancel, Close, the worker goroutine | Run and finish each use two critical sections; Cancel and Close come in between | a cancel is never lost, a finished job is terminal, Close drains, a watcher sees each event once |
| Jobs over HTTP, `adapters/jobshttp` | the stream, the client's cursor | Watch, SSE handler, Close | streams that are cut or garbled, a sidecar that restarts | resuming is exact, the watcher ends |
| In-process job runtime and units, `adapters/jobsfake`, `application/units*` | snapshot, cancelled flag, unit summaries and events | Run, Cancel, Close, the two kinds of unit | cancel between check and start, panics, early returns | the job's status tells what its units did |
| Zeus verb port, `adapters/zeushttp/verbs.go`, `auth.go` | session cache, closed flags | CallVerb, ResolveAuth, Close | a shared cache of sessions that expire, are revoked and depend on a password that rotates | bounded hops, no leaked session, no needless 401 |
| Chat sessions, `application/session_lifecycle.go`, `adapters/zeushttp/session.go` | the handle of the host; the server's session | Setup, Commit, Create, Rehydrate, ContinueTurn | answers that are lost after the server acted, retries, forgotten sessions | each round is one turn, without holes; a mode switch is a new session |
| Agent turn, `application/agent_turn.go`, `middleware.go`, `domain/policy.go`, `layer_a.go` | messages, rounds, tool trail, hook flags, exit kind | the loop of rounds, tool calls, hooks, decision | caps, refusals and errors that meet in one turn | a refusal is final, errors carry no model text, budgets hold |
| LLM adapter, `adapters/llmopenai`, `domain/llm_classify.go` | attempt, retry budget, closed flag | Complete, Close | two limits, Retry-After, context and Close in the middle | bounded, honest, journalled |
| Typeahead, `application/typeahead.go`, `observability/rate_limit.go`, `api/zeus.go` | token buckets | SearchSuggest, Allow, Configure, MergeHits | the clock is read before the lock | grants follow the rate, hits are distinct and complete |
| Session trace, `application/projectors/session_trace.go` | hops of a turn, posts still to make | Trace, PostTrace | posts that fail one by one, a handle that moves on with the commit | the round's document ends on the primary hop, and is the turn's own |
| Catalog and contract, `api/catalog.go`, `adapters/catalogfs`, `domain/catalog.go`, `contract.go`, `floor.go` | files, temporary files, a cache by file time | Load, Save, List, Bind | saves and replacements under a load, crashes, a stat after the read | what Load returns is whole, of the right scope, lineage and floor, with a true stamp |
| Configuration, `config/*` | the configuration of a client | Load: file or pins, profile, environment, profile again | precedence, and checks that come before later changes | production is secured, nothing is on that nobody asked for |
| Turn settings and inject, `application/control_plane_inject.go`, `domain/rules.go`, `mergeTurnSettings` | the settings and the chat request of a turn | OverlaySettings, PrepareSettings, injectBagB | two overlays, dropped errors, idempotence | the request decides, the SDK's rules reach the model, the contract hash stays |
| Client runtime, `client.go`, `runtime.go` | adapter slots, cached facades, closed flag | facades, BindJobs, Close | adapters that fail to close, fill two slots or are replaced | everything is released once, the first error is reported |
| Journal, detective, security, observability, unit transport, data verbs | see *Not modelled* | | | |

How they interact: New loads the configuration and the client runtime builds the
facades over the adapters. A turn overlays its request's settings on the
configuration's, loads a catalog, injects its settings behind the catalog's brief, and
binds its session to the catalog's contract hash. An agent turn calls the LLM adapter
once per round and the Zeus port once per tool call; Setup and Commit of a session
bracket the turn, and its hops are traced to the session's round. A job runs units, each
of which is an agent turn or one verb hop. The typeahead and the direct verbs call the
Zeus port without a turn. All of them share one HTTP client, which Close closes
first.

## Modules

| module | models | composed of |
|---|---|---|
| `JobLifecycle` | what any job runtime promises about a job's status (abstract) | |
| `JobsMA` | `adapters/jobsma/runtime.go` | implements `JobLifecycle` (`INSTANCE ... WITH`) |
| `JobsHTTP` | watching a job over SSE: handler, stream, client, facade | |
| `UnitJob` | unit maps, the sequential job runtime, agent and direct units | |
| `Jobs_proofs` | proofs about the three job runtimes | extends `JobsMA`, `UnitJob`, `JobsHTTP` |
| `ZeusHop`, `ZeusHop_proofs` | verb port, auth resolver with its cache, HTTP client; proofs | |
| `AgentTurn`, `AgentTurn_proofs` | the agent turn with hooks and policy; proofs | |
| `SessionLifecycle` | durable sessions against an unreliable server | |
| `SessionTrace`, `SessionTrace_proofs` | hops of a turn, their order and their posts; proofs about it and about `SessionLifecycle` | extends `SessionLifecycle` |
| `Contract` | contract hashes, stamps, lineage, floors (operators) | |
| `Catalog`, `Catalog_proofs` | catalogs on disk: Load with its cache, Save, List; proofs | extends `Contract` |
| `Config` | Load of a configuration, models of a unit (operators) | |
| `TurnSettings` | overlays, rules, inject (operators) | extends `Config` |
| `LlmRetry`, `LlmRetry_proofs` | Complete with its retry loop; proofs | |
| `Typeahead`, `Typeahead_proofs` | typeahead with its token bucket; proofs | |
| `ClientRuntime` | facades, BindJobs, Close | |
| `ClientSetup`, `ClientSetup_proofs` | New, turns and calls of one client; proofs about it, `ClientRuntime` and `Config` | extends `ClientRuntime`, `TurnSettings` |
| `MC*` | values for the constants | extend the module they name |

An action is one critical section, or one stretch of code between two points at
which another goroutine, the network or the caller can act. `pc` variables say where
a call is; the comment over each variable names the Go field it stands for.
Variables marked *history* record what happened for the properties and are never
read by a guard. Operators whose name has an underscore and whose comment begins
with *Mutant* are wrong versions of the definition after them; nothing in the
specifications uses them.

**JobsMA.** `RunCheck`, `RunRegister` and `RunSpawn` are the three stretches of `Run`;
`EngineEvent` is `record`; `EngineReturn` is the external engine's return;
`FinishClassify` and `FinishStore` are the two critical sections of `finish`;
`Cancel` and `CancelFire` set the flag and, outside the lock, fire the context;
`CloseBegin`, `CloseCancelOne`, `CloseWait` and `CloseReturn` are `Close`.

**ZeusHop.** Each call is a record with its `pc`. `Lookup` is the cache check,
`MintSend` to `MintStore` the login, `HopSend` and `Answer` the verb, `Remints` the
decision to repeat it once. The server (mint, hop, expiry, revocation) and the
environment (clock, password) are external. The history `disturbed` says that something
happened which the idle margin does not claim to cover: a hop that reached the server
later than the margin after its resolve or not at all, a revocation, a hard deadline.

**AgentTurn.** One action per branch of the loop. A text is abstracted to who wrote
it and whether it carries the G2 field; the hooks' regular expressions are abstracted
to their verdict, which any text may get.

**SessionLifecycle.** The client's handle and the server's sessions. A request may be
lost before or after the server acted; the host may retry, give up, change the mode
or its contract. The status of a created session is whatever the server says of the
contract (`NormalizeContractStatus`), that of a continued one is computed
(`ContractStatus`). A commit's mode header is an option of its own, which nothing the
model follows reads, so a commit has no mode.

**SessionTrace** puts `Trace` between the turns of `SessionLifecycle`: `Trace` is
`ProjectSessionTrace` up to its first request, `PostTrace` one pass of its loop,
`TraceReturns` its end. While a trace runs the server may forget the session. Hops are
built from tool calls as `executeToolCalls` builds them, and the primary hop is chosen
by the code's scores; the reference for the choice is a weight, a single number.

**Catalog.** A load is `LoadStart` (the look into the cache), `LoadResolve`, `LoadRead`,
`RememberStat`, `RememberStore`; a save is `SaveOpen` (create or truncate `path.tmp`),
`SaveWrite`, `SaveRename`. Which file a writer has open is modelled (`ino`), because a
rename takes an open file along. `Locations` are the directories that
`ResolveCatalogPath` goes through, numbered in its order, and `CandidatesOf` the files of
a key with their places in that order. A mode is a file name, or a path with separators
that leads to another directory (`Landing`). `Put`, `Unlink` and `Crash` are the outside.
A file time is any of `Times`, new or not: `past` is the history of what a path has held
under which time. A document is its locked content, the surfaces that end in white space
or carry a brief, its stamps (its own and a wrapper's) and its lineage; JSON that is no
object is a body of its own, and loads as an empty document. The hash is taken to be
injective on what it covers, and a document that holds its own hash under a key which the
hash covers is left out, since MD5 would need a fixed point.

**ClientSetup.** `ResolveConfig` is Load on every file, argument and environment,
`NewRuntime` builds the client, `RunTurn` is the head of a turn up to the injected chat
request, and `Use` is any call of `ClientRuntime`. The configuration of a client is
never assigned after `newRuntime` and a turn works on copies, so turns and the other
calls share nothing that changes; the model lets the turns come first, and `Serve`
forgets what is not read any more. A file and an environment are functions on the keys
they have; a prompt surface is whether it has text, a brief and white space at its end,
and the blocks behind it. That a loaded configuration always says what to do with
output on an error (`onError`, `AppOutputOnError`) is why the test of
`mergeTurnSettings` for a request that is zero in every field never bites: the facade
has overlaid the request on the configuration before.

**LlmRetry.** The loop of `Complete`: `LoopHead`, `Request`, the five ways an attempt
ends, the sleep and the two ways out of it. An error text is the set of the
classifier's word groups that match it.

**Typeahead.** `Lookup`, `ReadClock` and `Allow` are the three steps of the limiter;
tokens are counted in a unit in which rate, burst and cost are whole. `MergeHits`
and its helpers are operators over strings that include each case of the
normalisation (upper case, prefix, prefix only, empty).

**UnitJob**, **JobsHTTP** and **ClientRuntime** follow the functions their actions are
named after.

## Runs

| run | question | result |
|---|---|---|
| `jobs` | a job, its worker and two closers, every interleaving: is a cancel ever lost, do snapshot and events agree, does Close drain, does Watch resume exactly, is the abstract lifecycle implemented, does every job end and every Close return? | holds |
| `jobs_run_races_close` | can a worker run after Close returned? | violated: Run passed its check before Close locked |
| `zeus_hop` | two calls, one cache, expiry, revocation, rotation, Close: hop budget, justified 401s, conservative deadlines, an idle margin that is enough for calls that nothing disturbs, no session of another password or endpoint, nothing stored after Close, does every call return? | holds |
| `agent_turn` | up to three rounds: is a refusal found anywhere final, what is still asked after a refusal or a cancel; errors, caps, nudges, budgets, G2 fields, and does every turn end? | holds |
| `session_lifecycle` | three turns with losses, retries and switches, two of them traced: rounds, user messages, mode switches, false alarms of drift, recovery, and on which hop and round a trace ends | holds |
| `catalog` | two loads, two saves, an operator with any file times and a crash: is what Load returns whole, of the right scope, lineage and floor, its own stamp true and a wrong one still wrong; what can tear a file; when is the cache another text than its file? | holds |
| `llm_retry` | two calls against every kind of failure: bounds, quota, journal, giving up, late requests, and does every Complete return? | holds |
| `typeahead` | two goroutines at one bucket: how far can grants exceed the rate, when is a call refused? merged hits against the definition of what may be dropped | holds |
| `typeahead_rate` | does the bucket keep to its rate? | violated: a refill can be given twice |
| `unit_job` | every map of up to three units: cancel, status, events, isolation | holds |
| `jobs_http` | a watcher over a broken network: exact resume, and it ends | holds |
| `client` | every file, argument and environment: is production secured, who wins, what is on? every request and chat request: settings, rules and blocks of a turn. Three goroutines at one client: what is released, which error, which facade | holds |

The two violated runs are the findings of `PROJECT.json`; each quotes the comment
that the code disagrees with. More disagreements and surprises were met while
modelling; the properties are stated as what the code does, and name each as an
exception:

- `application/agent_turn.go:228` says "ctx cancel → 000006", but `insightHop` (1266)
  drops the error of its request, and `llmErrAsDomain` (1703) hands on whatever domain
  error the port gave, cancelled context or not: `CancelIsReported` excepts both.
- `insightHop` looks neither at the hooks nor at the context before its request: a turn
  that is refused or cancelled may still send that one (`OnlyInsightOnceOver`).
- `force_return_rounds_left` is not validated (`config/loader.go:219`,
  `agent_turn.go:1392`): a negative one switches off the message before the last round
  (`NudgedBeforeMaxRounds`). Calls beyond the cap, and nil ones, go on to the next request
  without a tool message (`CallsAnsweredBeforeNextRequest` says which calls those are).
- The same comment says "G2 never in answer", but an answer with the field is replaced
  by the summary, which is model text too (691, and 802 in `finishTurn`):
  `AnswerHasNoG2` excepts a summary that has the field itself. In the checked instance
  every answer of the model carries the field and no summary does.
- `domain/llm_classify.go:63` calls `RetryBudget` per-turn, but `budgetForCall`
  (`adapters/llmopenai/client.go:300`) starts every call with a fresh one:
  `RetryIsBounded` is stated of a call.
- `client.go:93` says that Close releases injected adapters, but a port that
  `BindJobs` replaced (221) is closed by nobody: `NoJobAfterClose` and `CloseReleases`
  leave such ports out.
- `RunAgentTurn` drops the error of `PrepareSettings` (`agent_turn.go:235`): a turn with
  a bad output request, or with rules that clear a default, runs without the SDK's
  rules. `RulesReachModel` excepts it, and a chat request that the host has injected
  something into: its headings stay, so one that is there already keeps the new block out.
- A frozen pack in which the tenant blanked a default rule is refused when it is
  prepared a second time, and the dropped error leaves it as it was (`FrozenStays`).
- The profile is applied before and after the environment (`config/loader.go:422`), and
  what the hub profile switched on in the first place stays under one that does not
  touch it (`ProcessingIsAsked`). An empty `ZEUS_CLIENT_PROFILE` makes a production file
  a development client (`ProfileByPrecedence` has it as the code does).
- With `ZEUS_CLIENT_URL` the mode in `ZEUS_CLIENT_AUTH_MODE` is ignored and that of pins
  is never validated (`config/loader.go:300`, `AuthIsKnown`); a role without a key keeps
  the file's when the environment names another (`WorkerKeyIsNamed`).
- The cache of catalogs can be stale in three ways. `remember` stats a file after it was
  read (`api/catalog.go:207`), so a file replaced in between is served under its new time;
  `cacheHit` compares nothing but file times (196), so a text that was put in place with
  the time of the old one is not noticed; both are excepted by `HitIsTheFile`. And it looks
  only at the file it knows: one that has appeared at a place before it since is not seen.
  Two saves of a catalog share `path.tmp` (`adapters/catalogfs/store.go:179`,
  `TornOnlyByOverlap`).
- A stamp in a wrapper (`stamped_chat_request`, `stamped`) is read
  (`domain/contract.go:84`) but not rewritten (339): when the heal strips white space, a
  right one turns wrong. `StampStaysTrue` promises truth to a document's own stamp only;
  that a wrong stamp stays wrong it promises to both.
- With a base id the mode is not checked for separators (`domain/catalog.go:105`), so such
  a mode reaches a sibling scope's file; the scope part of `LoadFailsClosed` is about
  other modes. The third name of the mode `manifest` is `manifest.json`, which a Load takes
  and List skips (503, `LoadableIsListed`). JSON that is no object is read without an error
  when no base id is asked for (`adapters/catalogfs/store.go:120`).
- A floor with a minor version ranks above every floor without one
  (`domain/floor.go:47`): 5.5 ranks above 6, and 6.1 above 7. The floor part of
  `LoadFailsClosed` is about configured floors from 6 on, or without a minor part
  (`RanksAsVersion`), against the floors of the code's table.
- A trace goes to the handle's round; a turn whose commit was not acknowledged, or that
  had nothing to commit, shares it with the next (`TraceOnOwnRound` is about the
  others).
- A commit sends the mode of its own options, else the configured one or "analytics"
  (`application/session_lifecycle.go:350`), never the handle's: only the mode that a
  session was created in is one with its handle's (`ModeSwitchIsNewSession`).
- An answer to a rehydrate without a hash, or a host without one, reads "match" even when
  the pack has changed (`domain/session.go:109`), and a create's status is the server's
  word (`session_lifecycle.go:238`): "drift" on a continued session is never a false
  alarm, but drift may go unseen (`DriftIsReal`).

Where a module has several invariants about one thing, the run checks their
conjunction, which begins with the type invariant:

| invariant | parts |
|---|---|
| `ZeusHop!HopInv` | `TypeOK`; `HopBudget` (two hops, two mints); `Final401Justified` (a returned 401 is about a session the call minted itself); `HardDeadlineIsConservative`; `SessionsDoNotLeak` |
| `AgentTurn!TurnInv` | `TypeOK`; `Budget`; `NudgedBeforeMaxRounds`; `CallsAnsweredBeforeNextRequest`; `ErrorHasNoModelText`; `CancelIsReported`; `AnswerHasNoG2` |
| `SessionLifecycle!SessionInv` | `TypeOK`; `OneTurnPerRound`; `RoundsContiguous`; `RecoveredFromEarlier`; `ModeSwitchIsNewSession`; `DriftIsReal` |
| `SessionTrace!TraceInv` | `PrimaryIsEarliestBest`; `RoundEndsOnPrimary`; `TraceOnOwnRound` |
| `Catalog!CatalogInv` | `TypeOK`; `LoadFailsClosed`; `StampStaysTrue`; `LoadableIsListed` |
| `ClientSetup!ConfigInv` | `ProductionIsSecure`; `ProfileByPrecedence`; `ProcessingIsAsked`; `AuthIsKnown`; `CacheHasModes`; `WorkerKeyIsNamed` |
| `ClientSetup!TurnSettingsInv` | `RequestDecides`; `RulesReachModel`; `CompanyWithinLimit`; `InjectKeepsContract`; `FrozenStays` |
| `UnitJob!UnitsInv` | `UnitTypeOK`; `CancelSticks`; `UnitsAreIsolated`; `UnitEventsAgree`; `StatusTellsUnits` |
| `JobsHTTP!WatchInv` | `WatchTypeOK`; `ResumeIsExact` |
| `ClientRuntime!ClientInv` | `TypeOK`; `FacadeIsCurrent`; `CloseReleases` (each adapter closed, and once if it is the HTTP port or fills one slot); `FirstErrorReturned` (the first failing adapter's error, and one whenever there is any) |
| `Typeahead!SuggestInv` | `TypeOK`; `HitsAreDistinct`; `NothingDropped` |
| `JobsMA!ResultInv` | `TypeOK`; `FinishedIsTerminal`; `PartialAgrees` |
| `LlmRetry!RetryIsBounded` | `TypeOK`; the bound of one call |

### Bounds

- *Jobs*: one job with two events and two closers has each race between Run, finish,
  Cancel, Watch and Close, and between two Closes; jobs share nothing but the lock, the
  closed flag and the wait group. `Jobs_proofs` has no bound on the jobs.
- *Zeus*: two calls are needed for each race over one cache entry: both on the cache, or
  one of them past it, with an overridden endpoint or static headers. An idle TTL of two
  ticks with a margin of one, a hard limit of three and one revocation: a session dies
  of age as well as by revocation and a call can meet two 401s. All calls are on one
  scope: the cache is a function of the scope, so calls on different scopes share
  nothing.
- *Agent turn*: three rounds have a first, a nudged and a last round; three calls per
  response exceed the cap of two. `max_rounds` is unset or one (two, in an insight turn),
  `force_return_rounds_left` unset or negative. The proofs have any integers.
- *Sessions*: three turns on up to three sessions, two tries per commit, two modes, one
  contract change: a create, a commit whose answer is lost and the turn after it; a
  session that is recreated twice; a switch to another mode and back. The first two turns
  are traced, with up to three hops. The proofs have no bound.
- *Catalogs*: six files (a scope's two and its manifest, a sibling's, a general and a
  bundled one), four keys (with and without a base id, a mode with separators, the mode
  `manifest`), two documents and JSON that is no object, a floor of 6 that
  refuses base 6.1 or (degraded) lets it through; two loads and two saves at once, two file times, two writes (files put in place and saves begun),
  one crash. Two writes have a file and its replacement between read and stat, or under
  the same time, and two overlapping saves. The proofs have no bound.
- *LLM*: three attempts with a doubling delay under a cap and a total that runs out
  before them; Retry-After below, between and above the limits; two calls. The proofs
  have no bound.
- *Typeahead*: five calls of two goroutines over four ticks, two buckets: enough for a
  bucket to be emptied, refilled to its cap and set back. All answers of up to three
  items over six spellings, with a limit of two. The proofs have no bound.
- *Units*: all maps of up to three of nine units, valid and not; *SSE*: four events,
  three faults; *client*: three goroutines, five slots, one adapter in two of them,
  three that fail to close; files over each group of keys that are read together, all
  profiles and an unknown one, settings that are zero or negative, requests with every
  combination of flags, chat requests with every combination of text, brief and white
  space on two surfaces, and with a block of an earlier inject.

`CHECK_DEADLOCK FALSE` is set where a finished system may rest: all jobs done, the
turn ended, the bounds used up.

### Fairness

Only weak fairness of steps that the Go scheduler or a timer guarantees:

- `JobsMA`: each goroutine that can run does, and the engine returns once its context
  is cancelled or its work is done; no fairness of callers.
- `LlmRetry`: a call's own steps; every request has a timeout (`TimeoutS`), so its end
  is a step of the call. Time and Close are not fair.
- `ZeusHop` states no fairness: that every call returns is shown by a rank that each of
  its steps lowers (`CallsComeHome`) and by the fact that it always has a step
  (`CallNeverStuck`), so fairness of a call's own steps, by the same argument as above,
  is all that is needed.
- `AgentTurn`: the turn's own steps, with the same argument for the LLM and Zeus.
- `JobsHTTP`: the handler, the client and the job make progress; faults are finite. An
  event over the scanner's 1 MiB (`adapters/jobshttp/sse.go:15`) would fail every Watch
  that reaches it, so events are taken to be shorter.

## Proofs

**Jobs_proofs** proves about three modules, none of which reads a variable of another.

*JobsMA* (any set of jobs and closers, any number of events). `JobInv`
strengthens the properties with what connects them: how far Run has come determines
which maps have the job (`RunInv`), a job whose worker has not stored its result is
running or cancelled (`SnapInv`), the status that finish has computed agrees with its
flags (`LocalInv`). `CancelWins` is not inductive without them: it needs to know that
the store of finish looks at the flag again. `CloseInv` adds which Close is past its
lock and that the jobs it saw are still in its hands. Proved: `TypeCorrect`,
`CancelIsNeverLost`, `FinishedJobIsTerminal`, `CloseDrainsTheRegistered`,
`WatchDeliversOnce`, and that the runtime implements `JobLifecycle`
(`ImplementsLifecycleThm`). There is one lemma per action.

*UnitJob* (any unit maps). `UnitIInv` adds where everything is while Run goes on: a unit
that is entered is one of the map (`UnitLocated`); the job's status is decided, stored
and made terminal in this order (`UnitStages`); the journal is never ahead of the unit
whose turn it is, and a unit that runs is its last entry (`JournalAt`); a unit that
started late is past the check of the loop (`LateIsPast`). That the status which Classify
computes tells of all units (`Tells`) needs that a map without units never runs, which is
a check of ValidateUnitMap. `ValidMap` and `Isolation` show that the checks, made unit by
unit against the earlier ones, add up to the isolation law. Proved: `UnitsTellTheSame`,
`CancelStopsUnits`.

*JobsHTTP* (any number of events and faults). `WatchIInv` connects the three places an
event can be in: what was read, the stream up to its first mark, and what is still to be
sent are consecutive numbers from the watcher's last event on (`Consecutive`); a garbled
or half event is a mark, so nothing behind it is promised, and nothing behind it is
delivered. `WatchStages` adds that an end of file is the end of the stream while the
sidecar has the job, so that no piece of an earlier answer is read as one of the next.
`FilterKeeps` shows that the filter of Watch drops nothing of such a list: the sidecar
already answers with newer events only. Proved: `WatcherGetsEachOnce`.

**LlmRetry_proofs** (any policy, budget, set of statuses, texts and Retry-After
values, any number of calls). `RetryInv` says that attempts, requests, events and
consumed budget are counted in step (`Counted`), which is what makes the bound on
requests and the completeness of the journal inductive; that a call under way has no
result (`Undecided`); that events are numbered (`Numbered`); and that a late request
leaves no other behind it (`LateIsLast`). Three lemmas carry the steps: a failure that
is retried or raised, a return, and a step that leaves the books alone. Proved:
`TypeCorrect`, `LoopIsBounded`, `QuotaIsFinal`, `JournalComplete`,
`GivesUpWhenSpent`, `OneLate`.

**Typeahead_proofs** (any number of goroutines, any rate, burst and cost). `BucketInv`
relates the tokens left and granted to the refills and to the time calls spent
between clock and lock; a step back of the bucket's time is paid for by that wait.
`Used` says what is left in a bucket: it is full, or holds what the rate gave since its
last grant. `MergeHits` and `SrcKeys` are loops, written as recursive functions. The
library's induction takes a predicate, which the provers cannot instantiate; `Inductive`
states it of a set of numbers and `Recursion` that a first value and a step define a
function, both from the least element of a set (`Least`). With them `Merges` unrolls the
loop, and distinctness and representation follow one hit at a time. Proved:
`ExcessIsBounded`, `SuggestionsAreSound`, `RefusalHasACause`. The exact rate is not a
theorem: `typeahead_rate` refutes it.

**ZeusHop_proofs** (any set of calls and scopes, any lifetimes and bounds). `HopInv` is
not inductive: `HopIInv` adds what a call has in its hands at each `pc` (`CallOK`: what
its pass may still send, that its session was minted for its scope and password, and by
the call itself after a forced resolve, and that a session that gave it a 401 is dead)
and what an entry of the cache stands for (`EntryOK`). That the margin is enough needs
one thing more: a hit refreshes the cache when it resolves and the server only when its
hop arrives, so the cache may run ahead of the server. `Timely` says that then, and for
every session with a hop under way, one of the hops will arrive in time and refresh the
session (`Refresher`). Proved: `HopsAreSafe`, `MarginIsEnough`,
`NothingStoredAfterClose` and `CallsReturn`, the rank argument for termination.

**ClientSetup_proofs** (any adapters in any slots, any set of goroutines, files,
environments, profiles, requests and chat requests). `RuntimeInv` says of a closed client that there is one
goroutine whose Close came first, and how far it is: `Closing(t, n)` has the first n
adapters of the order closed, the others not, and the first error among them in its
hands. Load has no state of its own; `LoadedConfigIsSound` follows it through file,
profile, environment and second profile with one lemma per stage and field. A turn's
settings need one fact about them that is inductive, `SettingsInv`: until Serve the
client's settings have all fields, an `onError` that is not blank and a context of some
length. Then an overlay on top of itself is itself (`OverlayAgain`), so the request
decides; a pack that is merged again is itself (`PackAgain`), so frozen settings stay;
and the rest is about one chat request: a splice leaves text, brief and the surfaces
without a brief alone and keeps every heading (`Spliced`), its own block is settled
after it (`SplicedSettles`), so a second inject finds nothing to do; and what is
injected has the rules once and the tool path never (`BuildIs`), so where nothing was
injected before each of the two is there once (`PlainGets`). Sequences of blocks are joined by `ConcatIs` and
what it preserves (`BothAre`, `OnlyLeft`, `OnlyRight`). `DocsAssumption` says that blocks
which come with a chat request are an earlier inject's, so within the limit, and
`WordsAssumption` that a context has a number of words. Proved: `ClientIsReleased`,
`ClosedTakesNoJob`, `LoadedConfigIsSound`, `TurnGetsItsSettings`.

**Catalog_proofs** (any files, keys, documents, loaders and savers, any number of writes
and crashes). The properties speak of a file, an entry of the cache and a load at
different times; `CatalogIInv` connects them by `Known(p, t, n)`: text n was at path p
under the file time t. An entry and a load under way are sound relative to that
(`EntryOK`, `LoaderOK`): what was read, and what the file holds when the entry is hit,
were both there under the entry's time, so they differ only if two texts had the same; a path that was
never written by two saves at once has at most one saver, which owns its temporary file (`Alone`,
`FileOK`). That the resolved path is the first existing candidate rests on `Least`, the
least element of a set of numbers, from the well-founded minimum of the library. Proved:
`LoadsAreSafe`, `FilesStayWhole`, `HitsAreTheFile`.

**AgentTurn_proofs** (any caps, budgets, texts and tool calls). `TurnIInv` has three
groups: `Course` (what has and has not happened at each place of the loop: a refused
turn starts no round, a return of the model is seen in its round, a request that the
context ended ends the turn), `Counts` (calls,
LLM requests and verbs counted in step with the rounds, which makes the budgets
inductive) and `Ended` (what the result of a finished turn may carry). Proved:
`TurnsAreSound`, `RefusalsAreFinal` and `NothingFollowsTheEnd`, that only the insight
hop may follow a refusal or a cancel.

**SessionTrace_proofs** (any number of turns, sessions, tries, pack versions and modes).
`OneTurnPerRound` alone is not inductive: a commit writes to the handle's round, so what
a handle says of the server's session has to be known. `Open` says that the round of a
turn's handle is the next one of its session, or the last one with nothing but this
turn in it (a commit whose answer was lost), and that a handle which created its
session has the user's message in round 1. `LogOK` is the soundness of one session's
log, `Before` that a turn in Setup is in no session yet, `Names` that a handle is of the
mode its session was created in. A create, a rehydrate and a store each keep these by one lemma
about one session. Proved: `SessionsAreSound`, `UserIsStoredOnce`; that tracing
implements the lifecycle (`TracingKeepsLifecycle`, `TraceSpec => Spec`), so both hold of
traced chats; `TracesAreOnTheirRound`, the part of `TraceInv` that is about rounds; and
`TracesAreRight`, all of it. For the rest of `TraceInv` the loops of `NormalizeHops`,
`SelectPrimaryHop` and `PostOrder` are unrolled as in `Typeahead_proofs`; the
lexicographic order of six bits is that of the number they spell (`Weights`), which gives
the earliest best hop (`Best`); and `Posts` says of the loop of posts that what is still
to post, stored and failed covers all req_ids, without one twice, and ends on the primary.

Assumptions are the `ASSUME`s of the modules about their constants; TLC evaluates
them in every run. Each inductive invariant was checked by TLC on the instance of its run
before it was proved.

**Only model-checked**: the liveness properties (`EveryTurnEnds` and its like) and
`CallNeverStuck`, because fairness and `ENABLED` are out of the prover's reach here.
Every other property of a passing run is proved.

## Not modelled

- The external multi-agent engine, Zeus and the LLM provider, beyond what they may
  answer.
- Text: prompts, the grammar of Layer A, regular expressions of the security hooks,
  redaction, header and URL building, identifiers, wire timestamps. The modules take
  the verdict of such code as an input that can be anything.
- Logging, metrics, debug export, the public trace, the detective, the conformance suite
  and the examples: no state that other parts act on.
- The journal's spans and export: a projection of events that are appended under one
  lock. What is appended is part of `LlmRetry` and `UnitJob`.
- The unit transport (it builds ports and keeps no state), LLM payloads (a translation
  of formats), the direct data verbs (an allow-list in front of `CallVerb`), Run and
  Cancel over HTTP (one request each).
- `AppendSessionRules` and `MergeRulesFrozen` (`domain/rules.go`), which the client
  itself never calls; the proof bag; token estimates and the compaction of messages.
- Fetching a scope brief for a catalog (`EnsureScopeBrief`), which is one verb hop, and
  the sha12 of brief and mini schema in the debug block: `systemPromptOf`
  (`agent_turn.go:412`) prefers the caller's prompt, which `api.RunTurn` always fills, so
  they can be of a prompt that was not sent. No other code reads them.
- The isolation of a panicking hook (its effect on the turn is a set of flags written
  last), the lazily set catalog handle of the agent facade (`api/agent.go:72`, a data
  race; the facade is not a shared object of any module yet), the float conversion of
  Retry-After (`adapters/llmopenai/client.go:482`), a server that sends no round.
- Errors before anything was sent or shared: credentials that are incomplete
  (`adapters/zeushttp/auth.go:258`) end a call of `ZeusHop` at its resolve, as a closed
  resolver does in the model; a unit that panics before its started event (`UnitPanics`
  is about the time after it) leaves a result without any event.
- A retry budget of zero extra time, which `budgetForCall`
  (`adapters/llmopenai/client.go:305`) replaces by its default: `MaxExtraMS` is the value
  after that. Elements of a produced delta that are no maps, which `turnTurns` keeps.
- What a second Close may expect while the first is still at work
  (`adapters/jobsma/runtime.go:383`, `runtime.go:184`) and what a snapshot says of a
  unit whose runner returned an error (`adapters/jobsfake/runtime.go:179`): modelled,
  but nothing in the repository says what should hold.

## Plan

Done: the jobs runtime with its abstract specification and proofs, the Zeus hop, the
agent turn, sessions and their traces, the LLM loop with proofs, units, SSE, catalogs
and contracts, configuration, turn settings and inject, the client, the typeahead with
its proofs.

Left, in this order:

1. The composition of a whole turn with `SessionLifecycle`: when a turn commits, and
   with which delta.
2. Run and Cancel over HTTP, composed with `JobsMA`.
3. The fetch and merge of scope briefs in `Catalog`, with `ZeusHop`'s answers.
4. Spans as a fold of journal events, against a reference definition.

New parts join the run of the module they extend where they share its state; a run of
its own is for a new question.
