SPECIFICATION SetupSpec
CONSTANTS
  t1 = t1
  t2 = t2
  t3 = t3
  http = http
  llm = llm
  cat = cat
  p1 = p1
  p2 = p2
  None = None
  Threads = {t1, t2, t3}
  JobPorts = {p1, p2}
  Adapters = {http, llm, cat}
  Injected <- Shared
  Failing = {llm, p1, p2}
  HttpJobs = p1
  JailbreakRuleIDs = {"no_secrets", "no_invent_data"}
  HardWords = 2
  Profiles = {"", "production", "hub"}
  Files <- MCFiles
  Envs <- MCEnvs
  Requests <- MCRequests
  Docs <- MCDocs
INVARIANT ClientInv
INVARIANT NoJobAfterClose
INVARIANT ConfigInv
INVARIANT TurnSettingsInv
