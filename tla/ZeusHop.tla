------------------------------ MODULE ZeusHop ------------------------------
(***************************************************************************)
(* One Zeus verb hop and its authentication:                               *)
(*   src/adapters/zeushttp/verbs.go   Port.CallVerb, Port.Close            *)
(*   src/adapters/zeushttp/auth.go    AuthResolver and its session cache   *)
(*   src/internal/httpx/client.go     Client.Request, Client.Close         *)
(*                                                                         *)
(* Calls run concurrently.  Each one resolves its auth headers (in basic   *)
(* mode from the cached Zeus session, or by minting one), sends the verb,  *)
(* and on a 401 in basic mode mints once more and sends it again.  One     *)
(* action is one critical section, one request leaving the client, or one  *)
(* step of the Zeus server, which is external: it mints sessions, lets     *)
(* them expire (idle and hard) and may revoke them.                        *)
(***************************************************************************)
EXTENDS Naturals

CONSTANTS Calls,      \* the CallVerb calls
          Scopes,     \* bucket/scope pairs, the part of cacheKey that varies
          ScopeOf,    \* [Calls -> Scopes]: VerbRequest.Target
          HowSets,    \* the ways the calls may authenticate: functions from Calls to Hows
          IdleTTL,    \* expires_in of a session
          HardTTL,    \* hard_ttl_s of a session
          Margin,     \* sessionIdleMargin
          MaxTime,    \* bound: clock ticks
          MaxSids,    \* bound: sessions the server mints
          MaxPwd,     \* bound: the password in the environment rotates this often
          MaxRevoked, \* bound: the sessions 1..MaxRevoked may be revoked
          MayClose,   \* whether the owner of the port closes it
          OwnsHTTP    \* Port.ownsHTTP: Close closes the HTTP client

\* A call uses the shared session cache (basic mode), static headers (none, bearer
\* or session mode), or a request that overrides the endpoint.
Hows == {"cached", "static", "override"}

ASSUME ZeusHopAssumption ==
  /\ ScopeOf \in [Calls -> Scopes]
  /\ HowSets \subseteq [Calls -> Hows]
  /\ {IdleTTL, HardTTL, Margin, MaxTime, MaxSids, MaxPwd, MaxRevoked} \subseteq Nat
  /\ {OwnsHTTP, MayClose} \subseteq BOOLEAN

VARIABLES
  how,         \* how each call authenticates; it stays as it is
  now,         \* the clock; client and server measure the same seconds
  envPwd,      \* the password secret, a version number
  sessions,    \* server: what it knows of each session it minted
  minted,      \* server: the number of sessions minted; 1..minted are their ids
  cache,       \* AuthResolver.cache
  call,        \* the locals of each CallVerb
  portClosed, authClosed, httpClosed,  \* the closed flags of Port, AuthResolver, Client
  disturbed    \* history: a hop was not sent, was lost, took longer than the margin,
               \* or met a revocation or a hard deadline

clientVars == <<cache, portClosed, authClosed, httpClosed>>
serverVars == <<sessions, minted>>
vars == <<how, now, envPwd, sessions, minted, cache, call, portClosed, authClosed,
          httpClosed, disturbed>>

Static == {c \in Calls : how[c] = "static"}
Override == {c \in Calls : how[c] = "override"}
-----------------------------------------------------------------------------
NoSid == 0
Sids == 0..MaxSids
Pwds == 0..MaxPwd
Times == 0..MaxTime
Requests == 0..3     \* how many requests a call is seen to send

Session == [scope : Scopes \cup {"-"}, pwd : Pwds, by : Calls \cup {"-"}, at : Times,
            used : Times, revoked : BOOLEAN]

\* What the table holds for an id that the server has not minted yet.
NotMinted == [scope |-> "-", pwd |-> 0, by |-> "-", at |-> 0, used |-> 0, revoked |-> FALSE]

\* cachedSID; sid is NoSid where the map has no entry.
Entry == [sid : Sids, pwd : Pwds, hard : Nat, lastUsed : Times]

NoEntry == [sid |-> NoSid, pwd |-> 0, hard |-> 0, lastUsed |-> 0]

Pc == {"idle", "resolve", "lookup", "mint", "minting", "store", "hop", "hopping",
       "answered", "done"}

\* How a call ends: the error it returns, or the class of the HTTP status.
Outcome == {"none", "rejected", "closed", "auth", "transport", "ok", "401", "other"}

Call == [pc : Pc,
         force : BOOLEAN,          \* the second resolve, after a 401
         t : Times,           \* now := r.now() of resolveBasic
         pwd : Pwds,               \* the password read by scopeUserPwd
         sid : Sids,               \* the session in the hop's headers
         outcome : Outcome,
         mints : Requests, hops : Requests]  \* requests sent

\* Seconds of the clock that are left when b passes before a: time.Sub, clamped.
Since(a, b) == IF a >= b THEN a - b ELSE 0

TypeOK ==
  /\ how \in HowSets
  /\ now \in Times
  /\ envPwd \in Pwds
  /\ minted \in 0..MaxSids
  /\ sessions \in [1..MaxSids -> Session]
  /\ cache \in [Scopes -> Entry]
  /\ call \in [Calls -> Call]
  /\ portClosed \in BOOLEAN /\ authClosed \in BOOLEAN /\ httpClosed \in BOOLEAN
  /\ disturbed \in BOOLEAN

Init ==
  /\ how \in HowSets
  /\ now = 0
  /\ envPwd = 0
  /\ minted = 0
  /\ sessions = [s \in 1..MaxSids |-> NotMinted]
  /\ cache = [k \in Scopes |-> NoEntry]
  /\ call = [c \in Calls |-> [pc |-> "idle", force |-> FALSE, t |-> 0, pwd |-> 0,
                              sid |-> NoSid, outcome |-> "none", mints |-> 0, hops |-> 0]]
  /\ portClosed = FALSE /\ authClosed = FALSE /\ httpClosed = FALSE
  /\ disturbed = FALSE

\* The session is no longer accepted by the server.
Dead(s) ==
  \/ sessions[s].revoked
  \/ Since(now, sessions[s].used) >= IdleTTL
  \/ now >= sessions[s].at + HardTTL

Goto(c, pc) == call' = [call EXCEPT ![c].pc = pc]

\* The call returns; its locals die, but for the session of its last hop.
Return(c, outcome) ==
  call' = [call EXCEPT ![c].pc = "done", ![c].outcome = outcome, ![c].t = 0, ![c].pwd = 0]
-----------------------------------------------------------------------------
(* CallVerb up to its first request *)

\* The closed check of CallVerb, then the pipeline gate and the allow-list.
Begin(c, allowed) ==
  /\ call[c].pc = "idle"
  /\ IF portClosed THEN Return(c, "closed")
     ELSE IF ~allowed THEN Return(c, "rejected")
     ELSE Goto(c, "resolve")
  /\ UNCHANGED <<now, envPwd, serverVars, clientVars, disturbed>>

\* The resolver of an overridden endpoint is fresh: not closed, nothing cached.
ResolverClosed(c) == authClosed /\ c \notin Override

\* Mutant: the resolve after a 401 is not forced to mint.
Resolve_NotForced(c) ==
  /\ call[c].pc = "resolve"
  /\ IF ResolverClosed(c) THEN Return(c, "auth")
     ELSE IF c \in Static THEN Goto(c, "hop")
     ELSE call' = [call EXCEPT ![c].pc = "lookup", ![c].t = now, ![c].pwd = envPwd]
  /\ UNCHANGED <<now, envPwd, serverVars, clientVars, disturbed>>

\* ResolveAuth: the closed check; static headers, or the password and the time.
Resolve(c) ==
  /\ call[c].pc = "resolve"
  /\ IF ResolverClosed(c) THEN Return(c, "auth")
     ELSE IF c \in Static THEN Goto(c, "hop")
     ELSE call' = [call EXCEPT ![c].pc = IF call[c].force THEN "mint" ELSE "lookup",
                               ![c].t = now, ![c].pwd = envPwd]
  /\ UNCHANGED <<now, envPwd, serverVars, clientVars, disturbed>>

\* Mutant: the whole idle lifetime is used.
IdleLimit_NoMargin == IdleTTL

\* cacheHit's idle limit: the margin is taken off, not below zero.
IdleLimit == Since(IdleTTL, Margin)

\* The conditions of cacheHit, on the locals of the call.
CacheHit(c) ==
  LET ent == cache[ScopeOf[c]]
  IN  /\ c \notin Override
      /\ ent.sid # NoSid
      /\ ent.pwd = call[c].pwd
      /\ call[c].t < ent.hard
      /\ call[c].t < ent.lastUsed + IdleLimit

\* cacheHit under the lock: a hit refreshes lastUsed with the time of the resolve.
Lookup(c) ==
  /\ call[c].pc = "lookup"
  /\ IF CacheHit(c)
     THEN /\ call' = [call EXCEPT ![c].pc = "hop", ![c].sid = cache[ScopeOf[c]].sid]
          /\ cache' = [cache EXCEPT ![ScopeOf[c]].lastUsed = call[c].t]
     ELSE Goto(c, "mint") /\ UNCHANGED cache
  /\ UNCHANGED <<now, envPwd, serverVars, portClosed, authClosed, httpClosed, disturbed>>

\* AuthResolver.httpPort and the closed check of Request; the mint request leaves.
MintSend(c) ==
  /\ call[c].pc = "mint"
  /\ IF ResolverClosed(c) \/ httpClosed
     THEN Return(c, "auth")
     ELSE call' = [call EXCEPT ![c].pc = "minting", ![c].mints = @ + 1]
  /\ UNCHANGED <<now, envPwd, serverVars, clientVars, disturbed>>

\* External: the server mints a session for the scope and the answer arrives.
ServerMint(c) ==
  /\ call[c].pc = "minting"
  /\ minted < MaxSids
  /\ minted' = minted + 1
  /\ sessions' = [sessions EXCEPT ![minted + 1] =
                    [scope |-> ScopeOf[c], pwd |-> call[c].pwd, by |-> c, at |-> now,
                     used |-> now, revoked |-> FALSE]]
  /\ call' = [call EXCEPT ![c].pc = "store", ![c].sid = minted + 1]
  /\ UNCHANGED <<now, envPwd, clientVars, disturbed>>

\* The mint failed: unreachable, cancelled, not 200, no JSON, or no session_id.
MintFails(c) ==
  /\ call[c].pc = "minting"
  /\ Return(c, "auth")
  /\ UNCHANGED <<now, envPwd, serverVars, clientVars, disturbed>>

\* What the cache holds after a mint: deadlines count from before the request.
MintedEntry(c) == [sid |-> call[c].sid, pwd |-> call[c].pwd, hard |-> call[c].t + HardTTL,
                   lastUsed |-> call[c].t]

\* Mutant: storeCache does not look at closed.
MintStore_EvenClosed(c) ==
  /\ call[c].pc = "store"
  /\ cache' = IF c \in Override THEN cache
              ELSE [cache EXCEPT ![ScopeOf[c]] = MintedEntry(c)]
  /\ Goto(c, "hop")
  /\ UNCHANGED <<now, envPwd, serverVars, portClosed, authClosed, httpClosed, disturbed>>

\* Mutant: storeCache waits for a resolver that is open.
MintStore_Waits(c) ==
  /\ call[c].pc = "store"
  /\ ~authClosed
  /\ cache' = IF c \in Override THEN cache
              ELSE [cache EXCEPT ![ScopeOf[c]] = MintedEntry(c)]
  /\ Goto(c, "hop")
  /\ UNCHANGED <<now, envPwd, serverVars, portClosed, authClosed, httpClosed, disturbed>>

\* storeCache under the lock: a closed resolver keeps nothing.
MintStore(c) ==
  /\ call[c].pc = "store"
  /\ cache' = IF authClosed \/ c \in Override THEN cache
              ELSE [cache EXCEPT ![ScopeOf[c]] = MintedEntry(c)]
  /\ Goto(c, "hop")
  /\ UNCHANGED <<now, envPwd, serverVars, portClosed, authClosed, httpClosed, disturbed>>
-----------------------------------------------------------------------------
(* The hop and the remint *)

\* Port.httpPort (before the first hop only), the check of Request, the request.
HopSend(c) ==
  /\ call[c].pc = "hop"
  /\ IF (portClosed /\ call[c].hops = 0) \/ httpClosed
     THEN Return(c, "transport") /\ disturbed' = TRUE
     ELSE /\ call' = [call EXCEPT ![c].pc = "hopping", ![c].hops = @ + 1]
          /\ UNCHANGED disturbed
  /\ UNCHANGED <<now, envPwd, serverVars, clientVars>>

\* The request or its answer is lost, times out, or the context is cancelled.
HopLost(c, arrived) ==
  /\ call[c].pc = "hopping"
  /\ IF arrived /\ c \notin Static /\ ~Dead(call[c].sid)
     THEN sessions' = [sessions EXCEPT ![call[c].sid].used = now]
     ELSE UNCHANGED sessions
  /\ disturbed' = TRUE
  /\ Return(c, "transport")
  /\ UNCHANGED <<now, envPwd, minted, clientVars>>

\* External: the server refuses a session it does not accept, or runs the verb.
ServerHop(c, status) ==
  /\ call[c].pc = "hopping"
  /\ IF c \in Static
     THEN /\ status \in {"ok", "401", "other"}
          /\ UNCHANGED <<sessions, disturbed>>
     ELSE LET s == call[c].sid
          IN  /\ (status = "401") <=> Dead(s)
              /\ sessions' = IF Dead(s) THEN sessions
                             ELSE [sessions EXCEPT ![s].used = now]
              /\ disturbed' = \/ disturbed
                               \/ sessions[s].revoked
                               \/ now >= sessions[s].at + HardTTL
  /\ call' = [call EXCEPT ![c].pc = "answered", ![c].outcome = status]
  /\ UNCHANGED <<now, envPwd, minted, clientVars>>

\* Mutant: the second 401 is reminted like the first.
Remints_Again(c) == call[c].outcome = "401" /\ c \notin Static

\* A 401 in basic mode is reminted, once.
Remints(c) == call[c].outcome = "401" /\ c \notin Static /\ ~call[c].force

\* CallVerb looks at the answer: a 401 in basic mode is reminted, once.
Answer(c) ==
  /\ call[c].pc = "answered"
  /\ call' = IF Remints(c)
             THEN [call EXCEPT ![c].pc = "resolve", ![c].force = TRUE, ![c].outcome = "none"]
             ELSE [call EXCEPT ![c].pc = "done", ![c].t = 0, ![c].pwd = 0]
  /\ UNCHANGED <<now, envPwd, serverVars, clientVars, disturbed>>
-----------------------------------------------------------------------------
(* Close, the environment *)

\* Port.Close under the lock.
ClosePort ==
  /\ MayClose /\ ~portClosed
  /\ portClosed' = TRUE
  /\ UNCHANGED <<now, envPwd, serverVars, cache, call, authClosed, httpClosed, disturbed>>

\* Port.Close, then: the AuthResolver it owns.
CloseAuth ==
  /\ portClosed /\ ~authClosed
  /\ authClosed' = TRUE
  /\ UNCHANGED <<now, envPwd, serverVars, cache, call, portClosed, httpClosed, disturbed>>

\* Port.Close, last: the HTTP client, if the port owns it.
CloseHTTP ==
  /\ authClosed /\ OwnsHTTP /\ ~httpClosed
  /\ httpClosed' = TRUE
  /\ UNCHANGED <<now, envPwd, serverVars, cache, call, portClosed, authClosed, disturbed>>

\* History: a call that has its session, or looks it up, with a time older than the margin.
Overdue(t) == \E c \in Calls \ Static : /\ call[c].pc \in {"lookup", "store", "hop", "hopping"}
                                        /\ Since(t, call[c].t) > Margin

Tick == /\ now < MaxTime
        /\ now' = now + 1
        /\ disturbed' = (disturbed \/ Overdue(now + 1))
        /\ UNCHANGED <<envPwd, serverVars, clientVars, call>>

\* The operator changes the password in the environment.
Rotate == /\ envPwd < MaxPwd
          /\ envPwd' = envPwd + 1
          /\ UNCHANGED <<now, serverVars, clientVars, call, disturbed>>

\* External: the server forgets a session (a restart, a logout).
Revoke(s) == /\ s <= minted /\ s <= MaxRevoked /\ ~sessions[s].revoked
             /\ sessions' = [sessions EXCEPT ![s].revoked = TRUE]
             /\ UNCHANGED <<now, envPwd, minted, clientVars, call, disturbed>>
-----------------------------------------------------------------------------
CallStep(c) == \/ Resolve(c) \/ Lookup(c)
               \/ MintSend(c) \/ ServerMint(c) \/ MintFails(c) \/ MintStore(c)
               \/ HopSend(c)
               \/ \E arrived \in BOOLEAN : HopLost(c, arrived)
               \/ \E status \in {"ok", "401", "other"} : ServerHop(c, status)
               \/ Answer(c)

Next == /\ \/ \E c \in Calls : \/ \E allowed \in BOOLEAN : Begin(c, allowed)
                               \/ CallStep(c)
           \/ ClosePort \/ CloseAuth \/ CloseHTTP
           \/ Tick \/ Rotate
           \/ \E s \in 1..MaxSids : Revoke(s)
        /\ UNCHANGED how

Spec == Init /\ [][Next]_vars
-----------------------------------------------------------------------------
(* Properties *)

(***************************************************************************)
(* "A second 401 is returned as-is - this never loops": a call sends the   *)
(* verb at most twice and mints at most twice, whatever the server does.   *)
(***************************************************************************)
HopBudget == \A c \in Calls : call[c].hops <= 2 /\ call[c].mints <= 2

(***************************************************************************)
(* A call gives up with a 401 only on a session that it minted itself in   *)
(* the forced resolve and that died since: never because another call put  *)
(* a stale session into the cache between the 401 and the second hop.      *)
(***************************************************************************)
Final401Justified ==
  \A c \in Calls \ Static :
    call[c].pc = "done" /\ call[c].outcome = "401" =>
      /\ call[c].force
      /\ sessions[call[c].sid].by = c
      /\ Dead(call[c].sid)

(***************************************************************************)
(* The session in a hop's headers was minted for the hop's own bucket and  *)
(* scope with the password the call read, and no session of an overridden  *)
(* endpoint ever enters the shared cache.                                  *)
(***************************************************************************)
SessionsDoNotLeak ==
  /\ \A c \in Calls \ Static :
       call[c].pc \in {"hop", "hopping"} =>
         /\ sessions[call[c].sid].scope = ScopeOf[c]
         /\ sessions[call[c].sid].pwd = call[c].pwd
         /\ c \in Override => sessions[call[c].sid].by = c
  /\ \A k \in Scopes :
       cache[k].sid # NoSid => sessions[cache[k].sid].by \notin Override

(***************************************************************************)
(* The cache never believes in a session longer than the server does: the  *)
(* hard deadline counts from before the mint request, however late the     *)
(* answer is stored.                                                       *)
(***************************************************************************)
HardDeadlineIsConservative ==
  \A k \in Scopes : cache[k].sid # NoSid =>
    cache[k].hard <= sessions[cache[k].sid].at + HardTTL

(***************************************************************************)
(* The idle margin is enough, if it is less than the lifetime: while every *)
(* hop reaches the server within the margin after its resolve, and no      *)
(* session is revoked or at its hard deadline, no call ever meets a 401,   *)
(* for every interleaving of hits.                                         *)
(***************************************************************************)
MarginCovers ==
  Margin < IdleTTL /\ ~disturbed => \A c \in Calls \ Static : call[c].outcome # "401"

(***************************************************************************)
(* Close is the end of the cache: a mint that was in flight when the       *)
(* resolver closed stores no session.                                      *)
(***************************************************************************)
NoStoreAfterClose ==
  [][authClosed => \A k \in Scopes : cache'[k].sid = cache[k].sid]_vars

\* How far a call is from its return: the steps of its pass, and the second pass.
StepsLeft == [idle |-> 10, resolve |-> 9, lookup |-> 8, mint |-> 7, minting |-> 6, store |-> 5,
              hop |-> 4, hopping |-> 3, answered |-> 2, done |-> 0]
Rank(c) == StepsLeft[call[c].pc] + (IF call[c].force \/ call[c].pc = "done" THEN 0 ELSE 10)

(***************************************************************************)
(* Every call returns, also when the port is closed under its feet: each   *)
(* step that it takes brings it nearer to its return, a remint included,   *)
(* and (CallNeverStuck) it can always take one.  Every request ends,       *)
(* because Request puts a timeout on it (TimeoutS, or the client's own).   *)
(***************************************************************************)
CallsComeHome == [][\A c \in Calls : call'[c] = call[c] \/ Rank(c)' < Rank(c)]_vars

(***************************************************************************)
(* No call under way waits for another call, for Close or for the clock.   *)
(***************************************************************************)
CallNeverStuck ==
  \A c \in Calls : call[c].pc \in {"idle", "done"} \/ ENABLED CallStep(c)

(***************************************************************************)
(* What CallVerb and the session cache keep, whatever the server does: a   *)
(* call is bounded, a 401 that it returns is one that minting again could  *)
(* not have avoided, and the cache never trusts a session longer than the  *)
(* server does nor hands out one of another scope, password or endpoint.   *)
(***************************************************************************)
HopInv == /\ TypeOK /\ HopBudget /\ Final401Justified
          /\ HardDeadlineIsConservative /\ SessionsDoNotLeak
=============================================================================
