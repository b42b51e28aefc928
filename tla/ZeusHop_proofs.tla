--------------------------- MODULE ZeusHop_proofs ---------------------------
(***************************************************************************)
(* Proofs about ZeusHop: what a verb call and the session cache keep for   *)
(* any number of calls, scopes and sessions, and that the idle margin is   *)
(* enough.                                                                 *)
(***************************************************************************)
EXTENDS ZeusHop, TLAPS

\* The parts of the inductive invariant.

\* The first pass sends one verb and one mint at most, the second another one each.
Budget(c) ==
  LET before == IF call[c].force THEN 1 ELSE 0
  IN  /\ call[c].hops <= 2 /\ call[c].mints <= 2
      /\ call[c].pc # "done" => call[c].hops <= before + 1 /\ call[c].mints <= before + 1
      /\ call[c].pc \notin {"hopping", "answered", "done"} => call[c].hops <= before
      /\ call[c].pc \in {"idle", "resolve", "lookup", "mint"} => call[c].mints <= before
      /\ call[c].pc = "lookup" => ~call[c].force

\* A session minted by the call, before its answer is stored.
Fresh(c) ==
  /\ sessions[call[c].sid].by = c
  /\ call[c].t <= sessions[call[c].sid].at
  /\ call[c].t <= sessions[call[c].sid].used

\* A session fit for the headers of the call.
Fitting(c) ==
  /\ sessions[call[c].sid].scope = ScopeOf[c]
  /\ sessions[call[c].sid].pwd = call[c].pwd
  /\ c \in Override => sessions[call[c].sid].by = c

\* The session of a call at these places is one that it minted or took from the cache.
Holding == {"store", "hop", "hopping", "answered"}

\* The session of a call with basic auth, by its place: a 401 was given on a session that
\* is dead and stays so, and a forced resolve ends with a session of the call's own.
Sessioned(c) ==
  /\ call[c].pc \in Holding => call[c].sid # NoSid
  /\ call[c].pc \in Holding /\ call[c].force => sessions[call[c].sid].by = c
  /\ call[c].pc = "store" => Fresh(c)
  /\ call[c].pc \in {"store", "hop", "hopping"} => Fitting(c)
  /\ call[c].pc \in {"answered", "done"} /\ call[c].outcome = "401" =>
       call[c].sid # NoSid /\ Dead(call[c].sid)
  /\ call[c].pc = "done" /\ call[c].outcome = "401" =>
       call[c].force /\ sessions[call[c].sid].by = c

CallOK(c) ==
  /\ call[c].t <= now /\ call[c].sid <= minted
  /\ Budget(c)
  /\ IF c \in Static THEN call[c].pc \notin {"lookup", "mint", "minting", "store"}
                     ELSE Sessioned(c)

\* The entry of a scope is a session of that scope, with its password and its deadline.
EntryOK(k) ==
  /\ cache[k].sid <= minted /\ cache[k].lastUsed <= now
  /\ cache[k].sid # NoSid =>
       /\ sessions[cache[k].sid].scope = k
       /\ sessions[cache[k].sid].pwd = cache[k].pwd
       /\ sessions[cache[k].sid].by \notin Override
       /\ cache[k].hard <= sessions[cache[k].sid].at + HardTTL

HopIInv ==
  /\ TypeOK
  /\ \A s \in 1..MaxSids : sessions[s].used <= now
  /\ \A c \in Calls : CallOK(c)
  /\ \A k \in Scopes : EntryOK(k)

\* A hop on session s is under way.
Pending(c, s) == /\ c \in Calls \ Static
                 /\ call[c].pc \in {"store", "hop", "hopping"}
                 /\ call[c].sid = s

\* One of the hops under way on s will reach the server in time, and refresh s.
Refresher(s) == \E c \in Calls : /\ Pending(c, s)
                                 /\ call[c].t + Margin < sessions[s].used + IdleTTL

\* No 401 yet, and none to come: every session with a hop under way has a refresher, and
\* so has one that the cache believes to be fresher than the server does.
Timely ==
  /\ \A c \in Calls \ Static :
       /\ call[c].outcome # "401"
       /\ call[c].pc = "lookup" => now <= call[c].t + Margin
  /\ \A c \in Calls : \A s \in 1..MaxSids : Pending(c, s) =>
       Refresher(s) /\ now < sessions[s].used + IdleTTL
  /\ \A k \in Scopes : cache[k].sid # NoSid =>
       \/ cache[k].lastUsed <= sessions[cache[k].sid].used
       \/ Refresher(cache[k].sid)

\* What holds as long as nothing disturbs the hops.
InTime == Margin < IdleTTL /\ ~disturbed => Timely
-----------------------------------------------------------------------------
(* The type invariant *)

(* The bounds are numbers. *)
LEMMA Bounds ==
  /\ IdleTTL \in Nat /\ HardTTL \in Nat /\ Margin \in Nat /\ MaxTime \in Nat
  /\ MaxSids \in Nat /\ MaxPwd \in Nat
  /\ 0 \in Times /\ 0 \in Pwds /\ 0 \in Sids /\ 0 \in Requests
  /\ Times \subseteq Nat /\ Pwds \subseteq Nat /\ Sids \subseteq Nat /\ Requests \subseteq Nat
  BY ZeusHopAssumption DEF Times, Pwds, Sids, Requests

(* The places and the outcomes. *)
LEMMA Names ==
  /\ "idle" \in Pc /\ "resolve" \in Pc /\ "lookup" \in Pc /\ "mint" \in Pc /\ "minting" \in Pc
  /\ "store" \in Pc /\ "hop" \in Pc /\ "hopping" \in Pc /\ "answered" \in Pc /\ "done" \in Pc
  /\ "none" \in Outcome /\ "rejected" \in Outcome /\ "closed" \in Outcome /\ "auth" \in Outcome
  /\ "transport" \in Outcome /\ "ok" \in Outcome /\ "401" \in Outcome /\ "other" \in Outcome
  BY DEF Pc, Outcome

LEMMA InitType == Init => TypeOK
<1> SUFFICES ASSUME Init PROVE TypeOK
  OBVIOUS
<1>1. call \in [Calls -> Call] /\ sessions \in [1..MaxSids -> Session] /\ cache \in [Scopes -> Entry]
  BY Bounds, Names DEF Init, Call, NoSid, NotMinted, Session, NoEntry, Entry
<1>2. now \in Times /\ envPwd \in Pwds /\ minted \in 0..MaxSids
  BY Bounds DEF Init
<1>3. QED
  BY <1>1, <1>2 DEF Init, TypeOK

(* What resolveBasic and a return assign to the locals of a call. *)
LEMMA Assigned ==
  ASSUME NEW r \in Call, NEW p \in Pc, NEW o \in Outcome, NEW t \in Times, NEW w \in Pwds
  PROVE  /\ [r EXCEPT !.pc = p, !.t = t, !.pwd = w] \in Call
         /\ [r EXCEPT !.pc = p, !.outcome = o, !.t = t, !.pwd = w] \in Call
  BY DEF Call

(* What an answer and the remint assign. *)
LEMMA Replied ==
  ASSUME NEW r \in Call, NEW p \in Pc, NEW o \in Outcome
  PROVE  /\ [r EXCEPT !.pc = p, !.outcome = o] \in Call
         /\ [r EXCEPT !.pc = p, !.force = TRUE, !.outcome = o] \in Call
  BY DEF Call

(* What the mint's answer assigns. *)
LEMMA Given ==
  ASSUME NEW r \in Call, NEW p \in Pc, NEW s \in Sids
  PROVE  [r EXCEPT !.pc = p, !.sid = s] \in Call
  BY DEF Call

(* A call that returns, and one that goes on. *)
LEMMA ReturnTypes ==
  ASSUME call \in [Calls -> Call], NEW c \in Calls, NEW o \in Outcome, Return(c, o)
  PROVE  call' \in [Calls -> Call]
<1>1. "done" \in Pc /\ 0 \in Times /\ 0 \in Pwds
  BY Bounds, Names
<1>2. call' = [call EXCEPT ![c] = [call[c] EXCEPT !.pc = "done", !.outcome = o, !.t = 0, !.pwd = 0]]
  BY DEF Return
<1>3. [call[c] EXCEPT !.pc = "done", !.outcome = o, !.t = 0, !.pwd = 0] \in Call
  BY <1>1, Assigned
<1>4. QED
  BY <1>2, <1>3

LEMMA GotoTypes ==
  ASSUME call \in [Calls -> Call], NEW c \in Calls, NEW p \in Pc, Goto(c, p)
  PROVE  call' \in [Calls -> Call]
  BY DEF Goto, Call

LEMMA TypeStep == HopIInv /\ Next => TypeOK'
<1> SUFFICES ASSUME HopIInv, Next PROVE TypeOK'
  OBVIOUS
<1>0. TypeOK /\ (\A c \in Calls : Budget(c)) /\ how' \in HowSets
  BY DEF HopIInv, CallOK, Next, TypeOK
<1>t. call \in [Calls -> Call] /\ now \in Times /\ envPwd \in Pwds
  BY <1>0 DEF TypeOK
<1>1. ASSUME NEW c \in Calls, NEW allowed \in BOOLEAN, Begin(c, allowed) PROVE TypeOK'
  <2>1. call' \in [Calls -> Call]
    BY <1>t, <1>1, Names, ReturnTypes, GotoTypes DEF Begin
  <2>2. QED
    BY <1>0, <1>1, <2>1 DEF TypeOK, Begin, clientVars, serverVars
<1>2. ASSUME NEW c \in Calls, Resolve(c) PROVE TypeOK'
  <2>1. CASE call' = [call EXCEPT ![c].pc = IF call[c].force THEN "mint" ELSE "lookup",
                                  ![c].t = now, ![c].pwd = envPwd]
    <3>1. PICK p \in Pc : call' = [call EXCEPT ![c].pc = p, ![c].t = now, ![c].pwd = envPwd]
      BY <2>1, Names
    <3> DEFINE r == [call[c] EXCEPT !.pc = p, !.t = now, !.pwd = envPwd]
    <3>2. r \in Call
      <4>1. call[c] \in Call
        BY <1>t
      <4>2. \A o \in Outcome : r \in Call
        BY <1>t, <4>1, Assigned
      <4>3. QED
        BY <4>2, Names
    <3>3. call' = [call EXCEPT ![c] = r]
      BY <3>1
    <3>4. call' \in [Calls -> Call]
      BY <1>t, <3>2, <3>3
    <3>5. QED
      BY <1>0, <1>2, <3>4 DEF TypeOK, Resolve, clientVars, serverVars
  <2>2. CASE Return(c, "auth") \/ Goto(c, "hop")
    <3>1. call' \in [Calls -> Call]
      BY <1>t, <2>2, Names, ReturnTypes, GotoTypes
    <3>2. QED
      BY <1>0, <1>2, <3>1 DEF TypeOK, Resolve, clientVars, serverVars
  <2>3. QED
    BY <1>2, <2>1, <2>2 DEF Resolve
<1>3. ASSUME NEW c \in Calls, Lookup(c) PROVE TypeOK'
  <2>0. ScopeOf[c] \in Scopes /\ cache \in [Scopes -> Entry]
    BY <1>0, ZeusHopAssumption DEF TypeOK
  <2>1. call' \in [Calls -> Call]
    <3>1. CASE CacheHit(c)
      <4>1. cache[ScopeOf[c]].sid \in Sids
        BY <2>0 DEF Entry
      <4>2. QED
        BY <1>t, <1>3, <3>1, <4>1, Names DEF Lookup, Call
    <3>2. CASE ~CacheHit(c)
      BY <1>t, <1>3, <3>2, Names, GotoTypes DEF Lookup
    <3>3. QED
      BY <3>1, <3>2
  <2>2. cache' \in [Scopes -> Entry]
    <3>1. call[c].t \in Times
      BY <1>t DEF Call
    <3>2. QED
      BY <1>3, <2>0, <3>1 DEF Lookup, Entry
  <2>3. QED
    BY <1>0, <1>3, <2>1, <2>2 DEF TypeOK, Lookup, serverVars
<1>4. ASSUME NEW c \in Calls, MintSend(c) PROVE TypeOK'
  <2>1. call' \in [Calls -> Call]
    <3>1. CASE Return(c, "auth")
      BY <1>t, <3>1, Names, ReturnTypes
    <3>2. CASE call' = [call EXCEPT ![c].pc = "minting", ![c].mints = @ + 1]
      <4>1. call[c].mints + 1 \in Requests
        BY <1>0, <1>t, <1>4 DEF Budget, MintSend, Requests, Call
      <4>2. QED
        BY <1>t, <3>2, <4>1, Names DEF Call
    <3>3. QED
      BY <1>4, <3>1, <3>2 DEF MintSend
  <2>2. QED
    BY <1>0, <1>4, <2>1 DEF TypeOK, MintSend, clientVars, serverVars
<1>5. ASSUME NEW c \in Calls, ServerMint(c) PROVE TypeOK'
  <2>1. minted + 1 \in 1..MaxSids /\ minted + 1 \in 0..MaxSids /\ minted + 1 \in Sids
    BY <1>0, <1>5, Bounds DEF TypeOK, ServerMint, Sids
  <2>2. call' \in [Calls -> Call]
    <3>1. call' = [call EXCEPT ![c] = [call[c] EXCEPT !.pc = "store", !.sid = minted + 1]]
      BY <1>5 DEF ServerMint
    <3>2. [call[c] EXCEPT !.pc = "store", !.sid = minted + 1] \in Call
      BY <1>t, <2>1, Names, Given
    <3>3. QED
      BY <1>t, <3>1, <3>2
  <2>3. sessions' \in [1..MaxSids -> Session]
    <3>1. call[c].pwd \in Pwds /\ ScopeOf[c] \in Scopes /\ sessions \in [1..MaxSids -> Session]
      BY <1>0, <1>t, ZeusHopAssumption DEF Call, TypeOK
    <3>2. QED
      BY <1>t, <1>5, <2>1, <3>1 DEF ServerMint, Session
  <2>4. QED
    BY <1>0, <1>5, <2>1, <2>2, <2>3 DEF TypeOK, ServerMint, clientVars
<1>6. ASSUME NEW c \in Calls, MintFails(c) PROVE TypeOK'
  <2>1. call' \in [Calls -> Call]
    BY <1>t, <1>6, Names, ReturnTypes DEF MintFails
  <2>2. QED
    BY <1>0, <1>6, <2>1 DEF TypeOK, MintFails, clientVars, serverVars
<1>7. ASSUME NEW c \in Calls, MintStore(c) PROVE TypeOK'
  <2>1. call' \in [Calls -> Call]
    BY <1>t, <1>7, Names, GotoTypes DEF MintStore
  <2>2. cache' \in [Scopes -> Entry]
    <3>1. call[c].t \in Times /\ call[c].sid \in Sids /\ call[c].pwd \in Pwds
      BY <1>t DEF Call
    <3>2. MintedEntry(c) \in Entry
      <4>1. call[c].t \in Nat /\ HardTTL \in Nat
        BY <3>1, Bounds
      <4>2. QED
        BY <3>1, <4>1 DEF MintedEntry, Entry
    <3>3. QED
      BY <1>0, <1>7, <3>2 DEF MintStore, TypeOK
  <2>3. QED
    BY <1>0, <1>7, <2>1, <2>2 DEF TypeOK, MintStore, serverVars
<1>8. ASSUME NEW c \in Calls, HopSend(c) PROVE TypeOK'
  <2>1. call' \in [Calls -> Call]
    <3>1. CASE Return(c, "transport")
      BY <1>t, <3>1, Names, ReturnTypes
    <3>2. CASE call' = [call EXCEPT ![c].pc = "hopping", ![c].hops = @ + 1]
      <4>1. call[c].hops + 1 \in Requests
        BY <1>0, <1>t, <1>8 DEF Budget, HopSend, Requests, Call
      <4>2. QED
        BY <1>t, <3>2, <4>1, Names DEF Call
    <3>3. QED
      BY <1>8, <3>1, <3>2 DEF HopSend
  <2>2. QED
    BY <1>0, <1>8, <2>1 DEF TypeOK, HopSend, clientVars, serverVars
<1>s. ASSUME NEW s, sessions' = sessions \/ sessions' = [sessions EXCEPT ![s].used = now]
      PROVE  sessions' \in [1..MaxSids -> Session]
  BY <1>0, <1>t, <1>s DEF TypeOK, Session
<1>9. ASSUME NEW c \in Calls, NEW arrived \in BOOLEAN, HopLost(c, arrived) PROVE TypeOK'
  <2>1. call' \in [Calls -> Call]
    BY <1>t, <1>9, Names, ReturnTypes DEF HopLost
  <2>2. sessions' \in [1..MaxSids -> Session]
    BY <1>9, <1>s DEF HopLost
  <2>3. QED
    BY <1>0, <1>9, <2>1, <2>2 DEF TypeOK, HopLost, clientVars
<1>10. ASSUME NEW c \in Calls, NEW status \in {"ok", "401", "other"}, ServerHop(c, status)
       PROVE  TypeOK'
  <2>1. call' \in [Calls -> Call]
    <3>1. status \in Outcome /\ "answered" \in Pc
      BY Names
    <3>2. call' = [call EXCEPT ![c] = [call[c] EXCEPT !.pc = "answered", !.outcome = status]]
      BY <1>10 DEF ServerHop
    <3>3. [call[c] EXCEPT !.pc = "answered", !.outcome = status] \in Call
      BY <1>t, <3>1, Replied
    <3>4. QED
      BY <1>t, <3>2, <3>3
  <2>2. sessions' \in [1..MaxSids -> Session]
    BY <1>10, <1>s DEF ServerHop
  <2>3. disturbed' \in BOOLEAN
    BY <1>0, <1>10 DEF ServerHop, TypeOK
  <2>4. QED
    BY <1>0, <1>10, <2>1, <2>2, <2>3 DEF TypeOK, ServerHop, clientVars
<1>11. ASSUME NEW c \in Calls, Answer(c) PROVE TypeOK'
  <2>1. call' \in [Calls -> Call]
    <3>1. "done" \in Pc /\ "resolve" \in Pc /\ "none" \in Outcome /\ 0 \in Times /\ 0 \in Pwds
      BY Bounds, Names
    <3>2. CASE Remints(c)
      <4>1. call' = [call EXCEPT ![c] = [call[c] EXCEPT !.pc = "resolve", !.force = TRUE, !.outcome = "none"]]
        BY <1>11, <3>2 DEF Answer
      <4>2. [call[c] EXCEPT !.pc = "resolve", !.force = TRUE, !.outcome = "none"] \in Call
        BY <1>t, <3>1, Replied
      <4>3. QED
        BY <1>t, <4>1, <4>2
    <3>3. CASE ~Remints(c)
      <4>1. call' = [call EXCEPT ![c] = [call[c] EXCEPT !.pc = "done", !.t = 0, !.pwd = 0]]
        BY <1>11, <3>3 DEF Answer
      <4>2. [call[c] EXCEPT !.pc = "done", !.t = 0, !.pwd = 0] \in Call
        BY <1>t, <3>1, Names, Assigned
      <4>3. QED
        BY <1>t, <4>1, <4>2
    <3>4. QED
      BY <3>2, <3>3
  <2>2. QED
    BY <1>0, <1>11, <2>1 DEF TypeOK, Answer, clientVars, serverVars
<1>12. CASE ClosePort \/ CloseAuth \/ CloseHTTP
  BY <1>0, <1>12 DEF TypeOK, ClosePort, CloseAuth, CloseHTTP, serverVars
<1>13. CASE Tick \/ Rotate
  <2>1. now' \in Times /\ envPwd' \in Pwds
    BY <1>t, <1>13, Bounds DEF Tick, Rotate, Times, Pwds
  <2>2. disturbed' \in BOOLEAN
    BY <1>0, <1>13 DEF TypeOK, Tick, Rotate
  <2>3. QED
    BY <1>0, <1>13, <2>1, <2>2 DEF TypeOK, Tick, Rotate, clientVars, serverVars
<1>14. ASSUME NEW s \in 1..MaxSids, Revoke(s) PROVE TypeOK'
  <2>1. sessions' \in [1..MaxSids -> Session]
    <3>1. sessions \in [1..MaxSids -> Session] /\ sessions' = [sessions EXCEPT ![s].revoked = TRUE]
      BY <1>0, <1>14 DEF TypeOK, Revoke
    <3>2. QED
      BY <3>1 DEF Session
  <2>2. QED
    BY <1>0, <1>14, <2>1 DEF TypeOK, Revoke, clientVars
<1>15. QED
  BY <1>1, <1>2, <1>3, <1>4, <1>5, <1>6, <1>7, <1>8, <1>9, <1>10, <1>11, <1>12, <1>13, <1>14
  DEF Next, CallStep
-----------------------------------------------------------------------------
(* What a step does to the sessions, and the parts that a step leaves alone *)

\* A step may add a session, use one that is alive, and revoke one: no more.
Aged ==
  /\ now <= now' /\ minted <= minted' /\ how' = how
  /\ \A s \in 1..minted :
       /\ sessions'[s].scope = sessions[s].scope /\ sessions'[s].pwd = sessions[s].pwd
       /\ sessions'[s].by = sessions[s].by /\ sessions'[s].at = sessions[s].at
       /\ sessions[s].used <= sessions'[s].used
       /\ Dead(s) => sessions'[s].used = sessions[s].used
       /\ sessions[s].revoked => sessions'[s].revoked

(* The numbers of a state. *)
LEMMA Numbers ==
  ASSUME TypeOK
  PROVE  /\ now \in Nat /\ minted \in Nat /\ minted <= MaxSids
         /\ \A c \in Calls : /\ call[c].t \in Nat /\ call[c].sid \in Nat
                             /\ call[c].hops \in Nat /\ call[c].mints \in Nat
         /\ \A s \in 1..MaxSids : sessions[s].at \in Nat /\ sessions[s].used \in Nat
         /\ \A k \in Scopes : /\ cache[k].sid \in Nat /\ cache[k].hard \in Nat
                              /\ cache[k].lastUsed \in Nat
<1>1. now \in Nat /\ minted \in Nat /\ minted <= MaxSids
  BY Bounds DEF TypeOK
<1>2. ASSUME NEW c \in Calls
      PROVE  /\ call[c].t \in Nat /\ call[c].sid \in Nat
             /\ call[c].hops \in Nat /\ call[c].mints \in Nat
  BY Bounds DEF TypeOK, Call
<1>3. ASSUME NEW s \in 1..MaxSids PROVE sessions[s].at \in Nat /\ sessions[s].used \in Nat
  BY Bounds DEF TypeOK, Session
<1>4. ASSUME NEW k \in Scopes
      PROVE  cache[k].sid \in Nat /\ cache[k].hard \in Nat /\ cache[k].lastUsed \in Nat
  BY Bounds DEF TypeOK, Entry
<1>5. QED
  BY <1>1, <1>2, <1>3, <1>4

(* A dead session stays dead. *)
LEMMA DeadStays ==
  ASSUME TypeOK, TypeOK', Aged, NEW s \in 1..minted, Dead(s)
  PROVE  Dead(s)'
<1>1. /\ sessions'[s].used = sessions[s].used /\ sessions'[s].at = sessions[s].at
      /\ sessions[s].revoked => sessions'[s].revoked
      /\ now <= now'
  BY DEF Aged
<1>2. /\ s \in 1..MaxSids /\ now \in Nat /\ now' \in Nat
      /\ sessions[s].used \in Nat /\ sessions[s].at \in Nat
  BY Bounds, Numbers DEF TypeOK
<1>3. QED
  BY <1>1, <1>2, Bounds DEF Dead, Since

(* A call that does not move keeps its part of the invariant. *)
LEMMA OthersKeep ==
  ASSUME TypeOK, TypeOK', Aged, NEW c \in Calls, CallOK(c), call'[c] = call[c]
  PROVE  CallOK(c)'
<1>1. /\ now \in Nat /\ minted \in Nat /\ minted <= MaxSids
      /\ call[c].t \in Nat /\ call[c].sid \in Nat
  BY Numbers
<1>2. now' \in Nat /\ minted' \in Nat
  BY Bounds DEF TypeOK
<1>3. call'[c].t <= now' /\ call'[c].sid <= minted'
  BY <1>1, <1>2 DEF CallOK, Aged
<1>4. Budget(c)'
  BY DEF CallOK, Budget
<1>5. Static' = Static /\ Override' = Override
  BY DEF Static, Override, Aged
<1>6. ASSUME c \notin Static PROVE Sessioned(c)'
  <2>1. Sessioned(c)
    BY <1>6 DEF CallOK
  <2>2. CASE call[c].sid = NoSid
    BY <2>1, <2>2 DEF Sessioned, Holding
  <2>3. CASE call[c].sid # NoSid
    <3>1. call[c].sid \in 1..minted /\ call[c].sid \in 1..MaxSids
      BY <1>1, <2>3, Bounds DEF CallOK, NoSid
    <3>2. /\ sessions'[call[c].sid].scope = sessions[call[c].sid].scope
          /\ sessions'[call[c].sid].pwd = sessions[call[c].sid].pwd
          /\ sessions'[call[c].sid].by = sessions[call[c].sid].by
          /\ sessions'[call[c].sid].at = sessions[call[c].sid].at
          /\ sessions[call[c].sid].used <= sessions'[call[c].sid].used
      BY <3>1 DEF Aged
    <3>3. Dead(call[c].sid) => Dead(call[c].sid)'
      BY <3>1, DeadStays
    <3>4. Fitting(c) => Fitting(c)'
      BY <1>5, <3>2 DEF Fitting
    <3>5. sessions[call[c].sid].used \in Nat /\ sessions'[call[c].sid].used \in Nat
      BY <3>1, Bounds DEF TypeOK, Session
    <3>6. Fresh(c) => Fresh(c)'
      BY <1>1, <3>2, <3>5 DEF Fresh
    <3>7. QED
      BY <2>1, <3>2, <3>3, <3>4, <3>6 DEF Sessioned
  <2>4. QED
    BY <2>2, <2>3
<1>7. QED
  BY <1>3, <1>4, <1>5, <1>6 DEF CallOK

(* An entry that is not written keeps its part. *)
LEMMA EntriesKeep ==
  ASSUME TypeOK, TypeOK', Aged, NEW k \in Scopes, EntryOK(k),
         cache'[k] = cache[k]
  PROVE  EntryOK(k)'
<1>1. /\ now \in Nat /\ minted \in Nat /\ minted <= MaxSids
      /\ cache[k].sid \in Nat /\ cache[k].lastUsed \in Nat
  BY Numbers
<1>2. now' \in Nat /\ minted' \in Nat
  BY Bounds DEF TypeOK
<1>3. Override' = Override
  BY DEF Override, Aged
<1>4. cache'[k].sid <= minted' /\ cache'[k].lastUsed <= now'
  BY <1>1, <1>2 DEF EntryOK, Aged
<1>5. ASSUME cache[k].sid # NoSid
      PROVE  /\ sessions'[cache[k].sid].scope = sessions[cache[k].sid].scope
             /\ sessions'[cache[k].sid].pwd = sessions[cache[k].sid].pwd
             /\ sessions'[cache[k].sid].by = sessions[cache[k].sid].by
             /\ sessions'[cache[k].sid].at = sessions[cache[k].sid].at
  <2>1. cache[k].sid \in 1..minted
    BY <1>1, <1>5 DEF EntryOK, NoSid
  <2>2. QED
    BY <2>1 DEF Aged
<1>6. QED
  BY <1>3, <1>4, <1>5 DEF EntryOK

(* A step of one call: what is left to show is the part of that call, and of the entries
   that it writes. *)
LEMMA OneMoves ==
  ASSUME HopIInv, TypeOK', Aged, NEW c \in Calls,
         \A d \in Calls : d # c => call'[d] = call[d],
         \A s \in 1..MaxSids : sessions'[s].used <= now',
         CallOK(c)',
         \A k \in Scopes : cache'[k] = cache[k] \/ EntryOK(k)'
  PROVE  HopIInv'
<1>1. ASSUME NEW d \in Calls PROVE CallOK(d)'
  <2>1. CASE d = c
    BY <2>1
  <2>2. CASE d # c
    BY <2>2, OthersKeep DEF HopIInv
  <2>3. QED
    BY <2>1, <2>2
<1>2. ASSUME NEW k \in Scopes PROVE EntryOK(k)'
  BY EntriesKeep DEF HopIInv
<1>3. QED
  BY <1>1, <1>2 DEF HopIInv

(* The server does nothing in most steps. *)
LEMMA QuietServer ==
  ASSUME HopIInv, UNCHANGED <<how, now, sessions, minted>>
  PROVE  Aged /\ \A s \in 1..MaxSids : sessions'[s].used <= now'
<1>1. TypeOK
  BY DEF HopIInv
<1>2. /\ now \in Nat /\ minted \in Nat /\ minted <= MaxSids
      /\ \A s \in 1..MaxSids : sessions[s].used \in Nat
  BY <1>1, Numbers
<1>3. QED
  BY <1>2, Bounds DEF Aged, HopIInv

(* The locals of a call that returns, and of one that goes on. *)
LEMMA Returned ==
  ASSUME call \in [Calls -> Call], NEW c \in Calls, NEW o, Return(c, o)
  PROVE  /\ \A d \in Calls : d # c => call'[d] = call[d]
         /\ call'[c].pc = "done" /\ call'[c].outcome = o /\ call'[c].t = 0
         /\ call'[c].sid = call[c].sid /\ call'[c].force = call[c].force
         /\ call'[c].hops = call[c].hops /\ call'[c].mints = call[c].mints
  BY DEF Return, Call

LEMMA Went ==
  ASSUME call \in [Calls -> Call], NEW c \in Calls, NEW p, Goto(c, p)
  PROVE  /\ \A d \in Calls : d # c => call'[d] = call[d]
         /\ call'[c].pc = p /\ call'[c].outcome = call[c].outcome /\ call'[c].t = call[c].t
         /\ call'[c].sid = call[c].sid /\ call'[c].force = call[c].force
         /\ call'[c].pwd = call[c].pwd
         /\ call'[c].hops = call[c].hops /\ call'[c].mints = call[c].mints
  BY DEF Goto, Call

(* Returning without a 401 is always right. *)
LEMMA ReturnKeeps ==
  ASSUME HopIInv, TypeOK', Aged, NEW c \in Calls, NEW o, o # "401", Return(c, o)
  PROVE  CallOK(c)' /\ \A d \in Calls : d # c => call'[d] = call[d]
<1>1. TypeOK /\ CallOK(c)
  BY DEF HopIInv
<1>2. /\ \A d \in Calls : d # c => call'[d] = call[d]
      /\ call'[c].pc = "done" /\ call'[c].outcome = o /\ call'[c].t = 0
      /\ call'[c].sid = call[c].sid /\ call'[c].force = call[c].force
      /\ call'[c].hops = call[c].hops /\ call'[c].mints = call[c].mints
  BY <1>1, Returned DEF TypeOK
<1>3. minted \in Nat /\ call[c].sid \in Nat
  BY <1>1, Numbers
<1>4. minted' \in Nat /\ now' \in Nat
  BY Bounds DEF TypeOK
<1>5. Static' = Static
  BY DEF Static, Aged
<1>6. Budget(c)'
  BY <1>1, <1>2 DEF CallOK, Budget
<1>7. c \notin Static => Sessioned(c)'
  BY <1>2 DEF Sessioned, Holding
<1>8. QED
  BY <1>1, <1>2, <1>3, <1>4, <1>5, <1>6, <1>7 DEF CallOK, Aged
-----------------------------------------------------------------------------
(* The steps of a call, one by one *)

LEMMA BeginKeeps ==
  ASSUME HopIInv, TypeOK', how' = how, NEW c \in Calls, NEW allowed \in BOOLEAN, Begin(c, allowed)
  PROVE  HopIInv'
<1>1. /\ Aged /\ (\A s \in 1..MaxSids : sessions'[s].used <= now') /\ cache' = cache
      /\ TypeOK /\ CallOK(c)
  BY QuietServer DEF Begin, serverVars, clientVars, HopIInv
<1>2. CASE Return(c, "closed") \/ Return(c, "rejected")
  BY <1>1, <1>2, ReturnKeeps, OneMoves
<1>3. CASE Goto(c, "resolve")
  <2>1. /\ \A d \in Calls : d # c => call'[d] = call[d]
        /\ call'[c].pc = "resolve" /\ call'[c].t = call[c].t
        /\ call'[c].sid = call[c].sid /\ call'[c].force = call[c].force
        /\ call'[c].hops = call[c].hops /\ call'[c].mints = call[c].mints
    BY <1>1, <1>3, Went DEF TypeOK
  <2>2. CallOK(c)'
    <3>1. now' = now /\ minted' = minted /\ Static' = Static /\ call[c].pc = "idle"
      BY DEF Begin, serverVars, Static
    <3>2. Budget(c)' /\ Sessioned(c)'
      BY <1>1, <2>1, <3>1 DEF CallOK, Budget, Sessioned, Holding
    <3>3. QED
      BY <1>1, <2>1, <3>1, <3>2 DEF CallOK
  <2>3. QED
    BY <1>1, <2>1, <2>2, OneMoves
<1>4. QED
  BY <1>2, <1>3 DEF Begin

LEMMA ResolveKeeps ==
  ASSUME HopIInv, TypeOK', how' = how, NEW c \in Calls, Resolve(c)
  PROVE  HopIInv'
<1>1. /\ Aged /\ (\A s \in 1..MaxSids : sessions'[s].used <= now') /\ cache' = cache
      /\ TypeOK /\ CallOK(c) /\ call \in [Calls -> Call]
  BY QuietServer DEF Resolve, serverVars, clientVars, HopIInv, TypeOK
<1>0. now' = now /\ minted' = minted /\ Static' = Static /\ call[c].pc = "resolve" /\ now \in Nat
  BY <1>1, Numbers DEF Resolve, serverVars, Static
<1>2. CASE Return(c, "auth")
  BY <1>1, <1>2, ReturnKeeps, OneMoves
<1>3. CASE c \in Static /\ Goto(c, "hop")
  <2>1. /\ \A d \in Calls : d # c => call'[d] = call[d]
        /\ call'[c].pc = "hop" /\ call'[c].t = call[c].t
        /\ call'[c].sid = call[c].sid /\ call'[c].force = call[c].force
        /\ call'[c].hops = call[c].hops /\ call'[c].mints = call[c].mints
    BY <1>1, <1>3, Went
  <2>2. Budget(c)'
    BY <1>0, <1>1, <2>1, Numbers DEF CallOK, Budget
  <2>3. CallOK(c)'
    BY <1>0, <1>1, <1>3, <2>1, <2>2 DEF CallOK
  <2>4. QED
    BY <1>1, <2>1, <2>3, OneMoves
<1>4. CASE /\ c \notin Static
           /\ call' = [call EXCEPT ![c].pc = IF call[c].force THEN "mint" ELSE "lookup",
                                   ![c].t = now, ![c].pwd = envPwd]
  <2>1. /\ \A d \in Calls : d # c => call'[d] = call[d]
        /\ call'[c].pc = (IF call[c].force THEN "mint" ELSE "lookup") /\ call'[c].t = now
        /\ call'[c].sid = call[c].sid /\ call'[c].force = call[c].force
        /\ call'[c].hops = call[c].hops /\ call'[c].mints = call[c].mints
    BY <1>1, <1>4 DEF Call
  <2>2. Budget(c)' /\ Sessioned(c)'
    BY <1>0, <1>1, <2>1 DEF CallOK, Budget, Sessioned, Holding
  <2>3. CallOK(c)'
    BY <1>0, <1>1, <1>4, <2>1, <2>2 DEF CallOK
  <2>4. QED
    BY <1>1, <2>1, <2>3, OneMoves
<1>5. QED
  BY <1>2, <1>3, <1>4 DEF Resolve

LEMMA LookupKeeps ==
  ASSUME HopIInv, TypeOK', how' = how, NEW c \in Calls, Lookup(c)
  PROVE  HopIInv'
<1>1. /\ Aged /\ (\A s \in 1..MaxSids : sessions'[s].used <= now')
      /\ TypeOK /\ CallOK(c) /\ call \in [Calls -> Call] /\ cache \in [Scopes -> Entry]
      /\ \A k \in Scopes : EntryOK(k)
  BY QuietServer DEF Lookup, serverVars, clientVars, HopIInv, TypeOK
<1>2. /\ now' = now /\ minted' = minted /\ sessions' = sessions /\ call[c].pc = "lookup"
      /\ Static' = Static /\ Override' = Override /\ c \notin Static /\ ~call[c].force
  BY <1>1 DEF Lookup, serverVars, Static, Override, CallOK, Budget
<1>3. CASE CacheHit(c)
  <2> DEFINE k == ScopeOf[c]
             ent == cache[k]
  <2>1. k \in Scopes /\ ent.sid # NoSid /\ ent.pwd = call[c].pwd /\ c \notin Override
    BY <1>3, ZeusHopAssumption DEF CacheHit
  <2>2. /\ \A d \in Calls : d # c => call'[d] = call[d]
        /\ call'[c].pc = "hop" /\ call'[c].t = call[c].t /\ call'[c].pwd = call[c].pwd
        /\ call'[c].sid = ent.sid /\ call'[c].force = call[c].force
        /\ call'[c].hops = call[c].hops /\ call'[c].mints = call[c].mints
    BY <1>1, <1>3 DEF Lookup, Call
  <2>3. EntryOK(k)
    BY <1>1, <2>1
  <2>4. Budget(c)'
    BY <1>1, <1>2, <2>2, Numbers DEF CallOK, Budget
  <2>5. Sessioned(c)'
    BY <1>1, <1>2, <2>1, <2>2, <2>3 DEF Sessioned, Holding, Fitting, EntryOK
  <2>6. CallOK(c)'
    BY <1>1, <1>2, <2>2, <2>3, <2>4, <2>5 DEF CallOK, EntryOK
  <2>7. ASSUME NEW j \in Scopes PROVE cache'[j] = cache[j] \/ EntryOK(j)'
    <3>1. CASE j = k
      <4>1. /\ cache'[k].sid = ent.sid /\ cache'[k].pwd = ent.pwd /\ cache'[k].hard = ent.hard
            /\ cache'[k].lastUsed = call[c].t
        BY <1>1, <1>3, <2>1 DEF Lookup, Entry
      <4>2. QED
        BY <1>1, <1>2, <2>3, <3>1, <4>1 DEF EntryOK, CallOK
    <3>2. CASE j # k
      BY <1>1, <1>3, <3>2 DEF Lookup
    <3>3. QED
      BY <3>1, <3>2
  <2>8. QED
    BY <1>1, <2>2, <2>6, <2>7, OneMoves
<1>4. CASE ~CacheHit(c)
  <2>1. cache' = cache /\ Goto(c, "mint")
    BY <1>4 DEF Lookup
  <2>2. /\ \A d \in Calls : d # c => call'[d] = call[d]
        /\ call'[c].pc = "mint" /\ call'[c].t = call[c].t
        /\ call'[c].sid = call[c].sid /\ call'[c].force = call[c].force
        /\ call'[c].hops = call[c].hops /\ call'[c].mints = call[c].mints
    BY <1>1, <2>1, Went
  <2>3. Budget(c)' /\ Sessioned(c)'
    BY <1>1, <1>2, <2>2 DEF CallOK, Budget, Sessioned, Holding
  <2>4. CallOK(c)'
    BY <1>1, <1>2, <2>2, <2>3 DEF CallOK
  <2>5. QED
    BY <1>1, <2>1, <2>2, <2>4, OneMoves
<1>5. QED
  BY <1>3, <1>4

LEMMA MintSendKeeps ==
  ASSUME HopIInv, TypeOK', how' = how, NEW c \in Calls, MintSend(c)
  PROVE  HopIInv'
<1>1. /\ Aged /\ (\A s \in 1..MaxSids : sessions'[s].used <= now') /\ cache' = cache
      /\ TypeOK /\ CallOK(c) /\ call \in [Calls -> Call]
  BY QuietServer DEF MintSend, serverVars, clientVars, HopIInv, TypeOK
<1>2. CASE Return(c, "auth")
  BY <1>1, <1>2, ReturnKeeps, OneMoves
<1>3. CASE call' = [call EXCEPT ![c].pc = "minting", ![c].mints = @ + 1]
  <2>1. /\ \A d \in Calls : d # c => call'[d] = call[d]
        /\ call'[c].pc = "minting" /\ call'[c].t = call[c].t
        /\ call'[c].sid = call[c].sid /\ call'[c].force = call[c].force
        /\ call'[c].hops = call[c].hops /\ call'[c].mints = call[c].mints + 1
    BY <1>1, <1>3 DEF Call
  <2>2. /\ now' = now /\ minted' = minted /\ Static' = Static /\ call[c].pc = "mint"
        /\ call[c].mints \in Nat /\ call[c].hops \in Nat
    BY <1>1, Numbers DEF MintSend, serverVars, Static
  <2>3. Budget(c)' /\ Sessioned(c)'
    BY <1>1, <2>1, <2>2 DEF CallOK, Budget, Sessioned, Holding
  <2>4. CallOK(c)'
    BY <1>1, <2>1, <2>2, <2>3 DEF CallOK
  <2>5. QED
    BY <1>1, <2>1, <2>4, OneMoves
<1>4. QED
  BY <1>2, <1>3 DEF MintSend

LEMMA ServerMintKeeps ==
  ASSUME HopIInv, TypeOK', how' = how, NEW c \in Calls, ServerMint(c)
  PROVE  HopIInv'
<1>1. /\ TypeOK /\ CallOK(c) /\ call \in [Calls -> Call]
      /\ sessions \in [1..MaxSids -> Session]
      /\ cache' = cache /\ now' = now /\ minted' = minted + 1 /\ minted < MaxSids
      /\ Static' = Static /\ Override' = Override /\ call[c].pc = "minting"
  BY DEF ServerMint, clientVars, HopIInv, TypeOK, Static, Override
<1>2. /\ now \in Nat /\ minted \in Nat /\ MaxSids \in Nat
      /\ call[c].t \in Nat /\ call[c].sid \in Nat /\ call[c].mints \in Nat /\ call[c].hops \in Nat
      /\ \A s \in 1..MaxSids : sessions[s].used \in Nat
  BY <1>1, Numbers, Bounds
<1> DEFINE n == minted + 1
<1>3. /\ sessions'[n].scope = ScopeOf[c] /\ sessions'[n].pwd = call[c].pwd
      /\ sessions'[n].by = c /\ sessions'[n].at = now /\ sessions'[n].used = now
      /\ \A s \in 1..MaxSids : s # n => sessions'[s] = sessions[s]
  BY <1>1, <1>2 DEF ServerMint
<1>4. Aged /\ \A s \in 1..MaxSids : sessions'[s].used <= now'
  <2>1. \A s \in 1..MaxSids : sessions[s].used <= now
    BY DEF HopIInv
  <2>2. \A s \in 1..MaxSids : sessions'[s].used <= now'
    BY <1>1, <1>2, <1>3, <2>1
  <2>3. \A s \in 1..minted : s \in 1..MaxSids /\ s # n
    BY <1>1, <1>2
  <2>4. \A s \in 1..minted : sessions'[s] = sessions[s] /\ sessions[s].used \in Nat
    BY <1>2, <1>3, <2>3
  <2>5. now <= now' /\ minted <= minted' /\ how' = how
    BY <1>1, <1>2
  <2>6. QED
    BY <2>2, <2>4, <2>5 DEF Aged
<1>5. /\ \A d \in Calls : d # c => call'[d] = call[d]
      /\ call'[c].pc = "store" /\ call'[c].t = call[c].t /\ call'[c].pwd = call[c].pwd
      /\ call'[c].sid = n /\ call'[c].force = call[c].force
      /\ call'[c].hops = call[c].hops /\ call'[c].mints = call[c].mints
  BY <1>1 DEF ServerMint, Call
<1>6. Budget(c)'
  BY <1>1, <1>2, <1>5 DEF CallOK, Budget
<1>7. Sessioned(c)'
  BY <1>1, <1>2, <1>3, <1>5 DEF CallOK, Sessioned, Holding, Fresh, Fitting, NoSid
<1>8. CallOK(c)'
  BY <1>1, <1>2, <1>5, <1>6, <1>7 DEF CallOK
<1>9. QED
  BY <1>1, <1>4, <1>5, <1>8, OneMoves

LEMMA MintFailsKeeps ==
  ASSUME HopIInv, TypeOK', how' = how, NEW c \in Calls, MintFails(c)
  PROVE  HopIInv'
<1>1. Aged /\ (\A s \in 1..MaxSids : sessions'[s].used <= now') /\ cache' = cache
  BY QuietServer DEF MintFails, serverVars, clientVars
<1>2. Return(c, "auth")
  BY DEF MintFails
<1>3. QED
  BY <1>1, <1>2, ReturnKeeps, OneMoves

LEMMA MintStoreKeeps ==
  ASSUME HopIInv, TypeOK', how' = how, NEW c \in Calls, MintStore(c)
  PROVE  HopIInv'
<1>1. /\ Aged /\ (\A s \in 1..MaxSids : sessions'[s].used <= now')
      /\ TypeOK /\ CallOK(c) /\ call \in [Calls -> Call] /\ cache \in [Scopes -> Entry]
  BY QuietServer DEF MintStore, serverVars, HopIInv, TypeOK
<1>2. /\ now' = now /\ minted' = minted /\ sessions' = sessions /\ call[c].pc = "store"
      /\ Static' = Static /\ Override' = Override /\ c \notin Static
  BY <1>1 DEF MintStore, serverVars, Static, Override, CallOK
<1>3. /\ \A d \in Calls : d # c => call'[d] = call[d]
      /\ call'[c].pc = "hop" /\ call'[c].t = call[c].t /\ call'[c].pwd = call[c].pwd
      /\ call'[c].sid = call[c].sid /\ call'[c].force = call[c].force
      /\ call'[c].hops = call[c].hops /\ call'[c].mints = call[c].mints
  BY <1>1, Went DEF MintStore
<1>4. Budget(c)'
  BY <1>1, <1>2, <1>3 DEF CallOK, Budget
<1>5. Sessioned(c) /\ Fresh(c) /\ Fitting(c)
  BY <1>1, <1>2 DEF CallOK, Sessioned
<1>6. Sessioned(c)'
  BY <1>2, <1>3, <1>5 DEF Sessioned, Holding, Fitting
<1>7. CallOK(c)'
  BY <1>1, <1>2, <1>3, <1>4, <1>6 DEF CallOK
<1>8. ASSUME NEW k \in Scopes PROVE cache'[k] = cache[k] \/ EntryOK(k)'
  <2>1. CASE cache' # cache /\ k = ScopeOf[c]
    <3>1. c \notin Override /\ cache'[k] = MintedEntry(c)
      BY <1>1, <2>1 DEF MintStore
    <3>2. /\ cache'[k].sid = call[c].sid /\ cache'[k].pwd = call[c].pwd
          /\ cache'[k].hard = call[c].t + HardTTL /\ cache'[k].lastUsed = call[c].t
      BY <3>1 DEF MintedEntry
    <3>3. call[c].sid \in 1..MaxSids /\ call[c].t \in Nat /\ HardTTL \in Nat
      BY <1>1, <1>2, <1>5, Numbers, Bounds DEF CallOK, Sessioned, Holding, NoSid
    <3>4. sessions[call[c].sid].at \in Nat
      BY <1>1, <3>3, Numbers
    <3>5. QED
      BY <1>1, <1>2, <1>5, <2>1, <3>1, <3>2, <3>3, <3>4
      DEF EntryOK, CallOK, Fresh, Fitting
  <2>2. CASE cache' = cache \/ k # ScopeOf[c]
    BY <1>1, <2>2 DEF MintStore
  <2>3. QED
    BY <2>1, <2>2
<1>9. QED
  BY <1>1, <1>3, <1>7, <1>8, OneMoves

LEMMA HopSendKeeps ==
  ASSUME HopIInv, TypeOK', how' = how, NEW c \in Calls, HopSend(c)
  PROVE  HopIInv'
<1>1. /\ Aged /\ (\A s \in 1..MaxSids : sessions'[s].used <= now') /\ cache' = cache
      /\ TypeOK /\ CallOK(c) /\ call \in [Calls -> Call]
  BY QuietServer DEF HopSend, serverVars, clientVars, HopIInv, TypeOK
<1>2. CASE Return(c, "transport")
  BY <1>1, <1>2, ReturnKeeps, OneMoves
<1>3. CASE call' = [call EXCEPT ![c].pc = "hopping", ![c].hops = @ + 1]
  <2>1. /\ \A d \in Calls : d # c => call'[d] = call[d]
        /\ call'[c].pc = "hopping" /\ call'[c].t = call[c].t /\ call'[c].pwd = call[c].pwd
        /\ call'[c].sid = call[c].sid /\ call'[c].force = call[c].force
        /\ call'[c].hops = call[c].hops + 1 /\ call'[c].mints = call[c].mints
    BY <1>1, <1>3 DEF Call
  <2>2. /\ now' = now /\ minted' = minted /\ Static' = Static /\ Override' = Override
        /\ sessions' = sessions /\ call[c].pc = "hop"
        /\ call[c].mints \in Nat /\ call[c].hops \in Nat
    BY <1>1, Numbers DEF HopSend, serverVars, Static, Override
  <2>3. Budget(c)'
    BY <1>1, <2>1, <2>2 DEF CallOK, Budget
  <2>4. c \notin Static => Sessioned(c)'
    BY <1>1, <2>1, <2>2 DEF CallOK, Sessioned, Holding, Fitting
  <2>5. CallOK(c)'
    BY <1>1, <2>1, <2>2, <2>3, <2>4 DEF CallOK
  <2>6. QED
    BY <1>1, <2>1, <2>5, OneMoves
<1>4. QED
  BY <1>2, <1>3 DEF HopSend

(* A session is used at the server. *)
LEMMA UsedAges ==
  ASSUME HopIInv, NEW s \in 1..MaxSids, UNCHANGED <<how, now, minted>>,
         \/ sessions' = sessions
         \/ ~Dead(s) /\ sessions' = [sessions EXCEPT ![s].used = now]
  PROVE  Aged /\ \A i \in 1..MaxSids : sessions'[i].used <= now'
<1>1. TypeOK /\ sessions \in [1..MaxSids -> Session]
  BY DEF HopIInv, TypeOK
<1>2. /\ now \in Nat /\ minted \in Nat /\ minted <= MaxSids /\ MaxSids \in Nat
      /\ \A i \in 1..MaxSids : sessions[i].used \in Nat
  BY <1>1, Numbers, Bounds
<1>3. CASE sessions' = sessions
  BY <1>3, QuietServer
<1>4. CASE ~Dead(s) /\ sessions' = [sessions EXCEPT ![s].used = now]
  <2>1. /\ \A i \in 1..MaxSids : i # s => sessions'[i] = sessions[i]
        /\ sessions'[s].scope = sessions[s].scope /\ sessions'[s].pwd = sessions[s].pwd
        /\ sessions'[s].by = sessions[s].by /\ sessions'[s].at = sessions[s].at
        /\ sessions'[s].used = now /\ sessions'[s].revoked = sessions[s].revoked
    BY <1>1, <1>4 DEF Session
  <2>2. QED
    BY <1>2, <1>4, <2>1 DEF Aged, HopIInv
<1>5. QED
  BY <1>3, <1>4

(* The session of a hop that is under way has an id of the table. *)
LEMMA HopHasSid ==
  ASSUME HopIInv, NEW c \in Calls \ Static, call[c].pc \in Holding
  PROVE  call[c].sid \in 1..MaxSids /\ call[c].sid \in 1..minted
<1>1. /\ minted \in Nat /\ minted <= MaxSids /\ call[c].sid \in Nat
      /\ CallOK(c)
  BY Numbers DEF HopIInv
<1>2. QED
  BY <1>1, Bounds DEF CallOK, Sessioned, NoSid

LEMMA HopLostKeeps ==
  ASSUME HopIInv, TypeOK', how' = how, NEW c \in Calls, NEW arrived \in BOOLEAN, HopLost(c, arrived)
  PROVE  HopIInv'
<1>1. cache' = cache /\ UNCHANGED <<how, now, minted>> /\ Return(c, "transport")
  BY DEF HopLost, clientVars
<1>2. Aged /\ \A i \in 1..MaxSids : sessions'[i].used <= now'
  <2>1. CASE c \in Static
    BY <1>1, <2>1, QuietServer DEF HopLost
  <2>2. CASE c \notin Static
    <3>1. call[c].sid \in 1..MaxSids
      BY <2>2, HopHasSid DEF HopLost, Holding
    <3>2. \/ sessions' = sessions
          \/ ~Dead(call[c].sid) /\ sessions' = [sessions EXCEPT ![call[c].sid].used = now]
      BY DEF HopLost
    <3>3. QED
      BY <1>1, <3>1, <3>2, UsedAges
  <2>3. QED
    BY <2>1, <2>2
<1>3. QED
  BY <1>1, <1>2, ReturnKeeps, OneMoves

LEMMA ServerHopKeeps ==
  ASSUME HopIInv, TypeOK', how' = how, NEW c \in Calls, NEW status \in {"ok", "401", "other"},
         ServerHop(c, status)
  PROVE  HopIInv'
<1>1. /\ cache' = cache /\ UNCHANGED <<how, now, minted>> /\ call[c].pc = "hopping"
      /\ TypeOK /\ CallOK(c) /\ call \in [Calls -> Call]
  BY DEF ServerHop, clientVars, HopIInv, TypeOK
<1>2. /\ \A d \in Calls : d # c => call'[d] = call[d]
      /\ call'[c].pc = "answered" /\ call'[c].t = call[c].t /\ call'[c].outcome = status
      /\ call'[c].sid = call[c].sid /\ call'[c].force = call[c].force
      /\ call'[c].hops = call[c].hops /\ call'[c].mints = call[c].mints
  BY <1>1 DEF ServerHop, Call
<1>3. Budget(c)'
  BY <1>1, <1>2 DEF CallOK, Budget
<1>4. Static' = Static
  BY DEF Static
<1>5. CASE c \in Static
  <2>1. Aged /\ \A i \in 1..MaxSids : sessions'[i].used <= now'
    BY <1>1, <1>5, QuietServer DEF ServerHop
  <2>2. CallOK(c)'
    BY <1>1, <1>2, <1>3, <1>4, <1>5 DEF CallOK
  <2>3. QED
    BY <1>1, <1>2, <2>1, <2>2, OneMoves
<1>6. CASE c \notin Static
  <2>1. call[c].sid \in 1..MaxSids /\ call[c].sid \in 1..minted
    BY <1>1, <1>6, HopHasSid DEF Holding
  <2>2. /\ \/ sessions' = sessions
           \/ ~Dead(call[c].sid) /\ sessions' = [sessions EXCEPT ![call[c].sid].used = now]
        /\ status = "401" <=> Dead(call[c].sid)
    BY <1>6 DEF ServerHop
  <2>3. Aged /\ \A i \in 1..MaxSids : sessions'[i].used <= now'
    BY <1>1, <2>1, <2>2, UsedAges
  <2>4. status = "401" => Dead(call[c].sid)'
    <3>1. PICK s \in 1..minted : s = call[c].sid
      BY <2>1
    <3>2. status = "401" => Dead(s)'
      BY <1>1, <2>2, <2>3, <3>1, DeadStays
    <3>3. QED
      BY <1>2, <3>1, <3>2 DEF Dead
  <2>5. Sessioned(c)'
    <3>1. sessions'[call[c].sid].by = sessions[call[c].sid].by
      BY <2>1, <2>3 DEF Aged
    <3>2. Sessioned(c)
      BY <1>1, <1>6 DEF CallOK
    <3>3. QED
      BY <1>1, <1>2, <3>1, <3>2, <2>4 DEF Sessioned, Holding
  <2>6. CallOK(c)'
    BY <1>1, <1>2, <1>3, <1>4, <1>6, <2>5 DEF CallOK
  <2>7. QED
    BY <1>1, <1>2, <2>3, <2>6, OneMoves
<1>7. QED
  BY <1>5, <1>6

LEMMA AnswerKeeps ==
  ASSUME HopIInv, TypeOK', how' = how, NEW c \in Calls, Answer(c)
  PROVE  HopIInv'
<1>1. /\ Aged /\ (\A s \in 1..MaxSids : sessions'[s].used <= now') /\ cache' = cache
      /\ TypeOK /\ CallOK(c) /\ call \in [Calls -> Call]
  BY QuietServer DEF Answer, serverVars, clientVars, HopIInv, TypeOK
<1>2. /\ now' = now /\ minted' = minted /\ Static' = Static /\ sessions' = sessions
      /\ call[c].pc = "answered" /\ now \in Nat
      /\ call[c].mints \in Nat /\ call[c].hops \in Nat
  BY <1>1, Numbers DEF Answer, serverVars, Static
<1>3. CASE Remints(c)
  <2>1. /\ \A d \in Calls : d # c => call'[d] = call[d]
        /\ call'[c].pc = "resolve" /\ call'[c].t = call[c].t
        /\ call'[c].sid = call[c].sid /\ call'[c].force = TRUE
        /\ call'[c].hops = call[c].hops /\ call'[c].mints = call[c].mints
    BY <1>1, <1>3 DEF Answer, Call
  <2>2. Budget(c)' /\ Sessioned(c)'
    BY <1>1, <1>2, <1>3, <2>1 DEF CallOK, Budget, Sessioned, Holding, Remints
  <2>3. CallOK(c)'
    BY <1>1, <1>2, <2>1, <2>2 DEF CallOK
  <2>4. QED
    BY <1>1, <2>1, <2>3, OneMoves
<1>4. CASE ~Remints(c)
  <2>1. /\ \A d \in Calls : d # c => call'[d] = call[d]
        /\ call'[c].pc = "done" /\ call'[c].t = 0 /\ call'[c].outcome = call[c].outcome
        /\ call'[c].sid = call[c].sid /\ call'[c].force = call[c].force
        /\ call'[c].hops = call[c].hops /\ call'[c].mints = call[c].mints
    BY <1>1, <1>4 DEF Answer, Call
  <2>2. Budget(c)'
    BY <1>1, <1>2, <2>1 DEF CallOK, Budget
  <2>3. c \notin Static => Sessioned(c)'
    <3>1. \A s : Dead(s)' = Dead(s)
      BY <1>2 DEF Dead
    <3>2. QED
      BY <1>1, <1>2, <1>4, <2>1, <3>1 DEF CallOK, Sessioned, Holding, Remints
  <2>4. CallOK(c)'
    BY <1>1, <1>2, <2>1, <2>2, <2>3 DEF CallOK
  <2>5. QED
    BY <1>1, <2>1, <2>4, OneMoves
<1>5. QED
  BY <1>3, <1>4

(* Close, the clock, the environment and the server's revocations move no call. *)
LEMMA EnvKeeps ==
  ASSUME HopIInv, TypeOK', how' = how,
         \/ ClosePort \/ CloseAuth \/ CloseHTTP \/ Tick \/ Rotate
         \/ \E s \in 1..MaxSids : Revoke(s)
  PROVE  HopIInv'
<1>1. call' = call /\ cache' = cache /\ minted' = minted
  BY DEF ClosePort, CloseAuth, CloseHTTP, Tick, Rotate, Revoke, serverVars, clientVars
<1>2. TypeOK /\ sessions \in [1..MaxSids -> Session]
  BY DEF HopIInv, TypeOK
<1>3. /\ now \in Nat /\ minted \in Nat /\ minted <= MaxSids /\ MaxSids \in Nat
      /\ \A i \in 1..MaxSids : sessions[i].used \in Nat
  BY <1>2, Numbers, Bounds
<1>4. Aged /\ \A i \in 1..MaxSids : sessions'[i].used <= now'
  <2>1. CASE ClosePort \/ CloseAuth \/ CloseHTTP \/ Rotate
    BY <2>1, QuietServer DEF ClosePort, CloseAuth, CloseHTTP, Rotate, serverVars
  <2>2. CASE Tick
    BY <1>3, <2>2 DEF Tick, serverVars, Aged, HopIInv
  <2>3. ASSUME NEW s \in 1..MaxSids, Revoke(s)
        PROVE  Aged /\ \A i \in 1..MaxSids : sessions'[i].used <= now'
    <3>1. /\ \A i \in 1..MaxSids : i # s => sessions'[i] = sessions[i]
          /\ sessions'[s].scope = sessions[s].scope /\ sessions'[s].pwd = sessions[s].pwd
          /\ sessions'[s].by = sessions[s].by /\ sessions'[s].at = sessions[s].at
          /\ sessions'[s].used = sessions[s].used /\ sessions'[s].revoked
      BY <1>2, <2>3 DEF Revoke, Session
    <3>2. QED
      BY <1>3, <2>3, <3>1 DEF Revoke, Aged, HopIInv
  <2>4. QED
    BY <2>1, <2>2, <2>3
<1>5. QED
  BY <1>1, <1>2, <1>4, OthersKeep, EntriesKeep DEF HopIInv
-----------------------------------------------------------------------------
(* The invariant of a call and of the cache *)

LEMMA InitHop == Init => HopIInv
<1> SUFFICES ASSUME Init PROVE HopIInv
  OBVIOUS
<1>1. TypeOK
  BY InitType
<1>2. \A s \in 1..MaxSids : sessions[s].used <= now
  BY DEF Init, NotMinted
<1>3. ASSUME NEW c \in Calls PROVE CallOK(c)
  BY DEF Init, CallOK, Budget, Sessioned, Holding, NoSid
<1>4. ASSUME NEW k \in Scopes PROVE EntryOK(k)
  BY DEF Init, EntryOK, NoEntry, NoSid
<1>5. QED
  BY <1>1, <1>2, <1>3, <1>4 DEF HopIInv

LEMMA HopStep == HopIInv /\ [Next]_vars => HopIInv'
<1> SUFFICES ASSUME HopIInv, [Next]_vars PROVE HopIInv'
  OBVIOUS
<1>1. CASE Next
  <2>1. TypeOK' /\ how' = how
    BY <1>1, TypeStep DEF Next
  <2>2. ASSUME NEW c \in Calls, NEW allowed \in BOOLEAN, Begin(c, allowed) PROVE HopIInv'
    BY <2>1, <2>2, BeginKeeps
  <2>3. ASSUME NEW c \in Calls, CallStep(c) PROVE HopIInv'
    BY <2>1, <2>3, ResolveKeeps, LookupKeeps, MintSendKeeps, ServerMintKeeps, MintFailsKeeps,
       MintStoreKeeps, HopSendKeeps, HopLostKeeps, ServerHopKeeps, AnswerKeeps
    DEF CallStep
  <2>4. CASE \/ ClosePort \/ CloseAuth \/ CloseHTTP \/ Tick \/ Rotate
             \/ \E s \in 1..MaxSids : Revoke(s)
    BY <2>1, <2>4, EnvKeeps
  <2>5. QED
    BY <1>1, <2>2, <2>3, <2>4 DEF Next
<1>2. CASE UNCHANGED vars
  <2>1. TypeOK'
    BY <1>2 DEF vars, HopIInv, TypeOK
  <2>2. /\ call' = call /\ cache' = cache /\ UNCHANGED <<how, now, sessions, minted>>
    BY <1>2 DEF vars
  <2>3. Aged /\ \A i \in 1..MaxSids : sessions'[i].used <= now'
    BY <2>2, QuietServer
  <2>4. QED
    BY <2>1, <2>2, <2>3, OthersKeep, EntriesKeep DEF HopIInv
<1>3. QED
  BY <1>1, <1>2

LEMMA AlwaysHop == Spec => []HopIInv
  BY InitHop, HopStep, PTL DEF Spec

(* The inductive invariant implies what the run checks. *)
LEMMA HopIInvImplies == HopIInv => HopInv
<1> SUFFICES ASSUME HopIInv PROVE HopInv
  OBVIOUS
<1>1. TypeOK
  BY DEF HopIInv
<1>2. HopBudget
  BY DEF HopIInv, CallOK, Budget, HopBudget
<1>3. Final401Justified
  BY DEF HopIInv, CallOK, Sessioned, Final401Justified
<1>4. HardDeadlineIsConservative
  BY DEF HopIInv, EntryOK, HardDeadlineIsConservative
<1>5. SessionsDoNotLeak
  BY DEF HopIInv, CallOK, Sessioned, Fitting, EntryOK, SessionsDoNotLeak
<1>6. QED
  BY <1>1, <1>2, <1>3, <1>4, <1>5 DEF HopInv

(***************************************************************************)
(* Every call keeps to two verbs and two mints, a 401 it gives back is on  *)
(* a session of its own forced mint, and the cache is conservative and     *)
(* does not leak, for any number of calls, scopes and sessions.            *)
(***************************************************************************)
THEOREM HopsAreSafe == Spec => []HopInv
  BY AlwaysHop, HopIInvImplies, PTL
-----------------------------------------------------------------------------
(* The idle margin *)

(* A call with its session under way has an id that is minted. *)
LEMMA PendingSid ==
  ASSUME HopIInv, NEW c, NEW s, Pending(c, s)
  PROVE  c \in Calls /\ s \in 1..minted /\ s \in 1..MaxSids
<1>1. c \in Calls \ Static /\ call[c].pc \in Holding /\ call[c].sid = s
  BY DEF Pending, Holding
<1>2. QED
  BY <1>1, HopHasSid

(* A refresher stays one while it is under way and the session is as it was. *)
LEMMA RefresherStays ==
  ASSUME NEW s, Refresher(s), sessions'[s].used = sessions[s].used,
         \A d \in Calls : Pending(d, s) => Pending(d, s)' /\ call'[d].t = call[d].t
  PROVE  Refresher(s)'
  BY DEF Refresher

(* A step of one call that takes no hop off the way and uses no session. *)
LEMMA TimelyFrame ==
  ASSUME HopIInv, Timely, how' = how, now' = now,
         \A s \in 1..minted : sessions'[s].used = sessions[s].used,
         NEW c \in Calls, \A d \in Calls : d # c => call'[d] = call[d],
         \A s \in 1..MaxSids : Pending(c, s) => Pending(c, s)' /\ call'[c].t = call[c].t,
         c \notin Static => /\ call'[c].outcome # "401"
                            /\ call'[c].pc = "lookup" => now <= call'[c].t + Margin,
         \A s \in 1..MaxSids : Pending(c, s)' =>
           \/ Pending(c, s)
           \/ Refresher(s)' /\ now < sessions'[s].used + IdleTTL,
         \A k \in Scopes : \/ cache'[k] = cache[k]
                           \/ cache'[k].lastUsed <= sessions'[cache'[k].sid].used
                           \/ Refresher(cache[k].sid)'
  PROVE  Timely'
<1>1. Static' = Static
  BY DEF Static
<1>2. ASSUME NEW s \in 1..minted, s \in 1..MaxSids PROVE Refresher(s) => Refresher(s)'
  <2>1. ASSUME NEW d \in Calls, Pending(d, s) PROVE Pending(d, s)' /\ call'[d].t = call[d].t
    BY <1>1, <1>2, <2>1 DEF Pending
  <2>2. QED
    BY <1>2, <2>1, RefresherStays
<1>3. ASSUME NEW d \in Calls \ Static
      PROVE  /\ call'[d].outcome # "401"
             /\ call'[d].pc = "lookup" => now' <= call'[d].t + Margin
  BY DEF Timely
<1>4. ASSUME NEW d \in Calls, NEW s \in 1..MaxSids, Pending(d, s)'
      PROVE  Refresher(s)' /\ now' < sessions'[s].used + IdleTTL
  <2>1. CASE Pending(d, s)
    <3>1. s \in 1..minted /\ Refresher(s) /\ now < sessions[s].used + IdleTTL
      BY <1>4, <2>1, PendingSid DEF Timely
    <3>2. QED
      BY <1>2, <3>1
  <2>2. CASE ~Pending(d, s)
    <3>1. d = c
      BY <1>1, <1>4, <2>2 DEF Pending
    <3>2. QED
      BY <1>4, <2>2, <3>1
  <2>3. QED
    BY <2>1, <2>2
<1>5. ASSUME NEW k \in Scopes, cache'[k].sid # NoSid
      PROVE  \/ cache'[k].lastUsed <= sessions'[cache'[k].sid].used
             \/ Refresher(cache[k].sid)'
  <2>1. CASE cache'[k] = cache[k]
    <3> DEFINE s == cache[k].sid
    <3>1. s \in 1..minted /\ s \in 1..MaxSids
      <4>1. s \in Nat /\ minted \in Nat /\ minted <= MaxSids /\ s <= minted
        BY Numbers DEF HopIInv, EntryOK
      <4>2. QED
        BY <1>5, <2>1, <4>1, Bounds DEF NoSid
    <3>2. cache[k].lastUsed <= sessions[s].used \/ Refresher(s)
      BY <1>5, <2>1 DEF Timely
    <3>3. PICK i \in 1..minted : i = s /\ i \in 1..MaxSids
      BY <3>1
    <3>4. cache[k].lastUsed <= sessions[i].used \/ Refresher(i)'
      BY <1>2, <3>2, <3>3 DEF Refresher
    <3>5. QED
      BY <2>1, <3>3, <3>4 DEF Refresher, Pending
  <2>2. QED
    BY <2>1
<1>6. QED
  BY <1>1, <1>3, <1>4, <1>5 DEF Timely

(* The steps of a call that has no hop under way, before and after. *)
LEMMA TimelyOutside ==
  ASSUME HopIInv, Timely, how' = how, now' = now, sessions' = sessions, cache' = cache,
         NEW c \in Calls, \A d \in Calls : d # c => call'[d] = call[d],
         \/ c \in Static
         \/ /\ call[c].pc \notin {"store", "hop", "hopping"}
            /\ call'[c].pc \notin {"store", "hop", "hopping"}
            /\ call'[c].outcome # "401"
            /\ call'[c].pc = "lookup" => now <= call'[c].t + Margin
  PROVE  Timely'
<1>1. Static' = Static
  BY DEF Static
<1>2. \A s : ~Pending(c, s) /\ ~Pending(c, s)'
  BY <1>1 DEF Pending
<1>3. QED
  BY <1>2, TimelyFrame

(* A call that returns before it has a hop under way. *)
LEMMA TimelyReturn ==
  ASSUME HopIInv, Timely, how' = how, now' = now, sessions' = sessions, cache' = cache,
         NEW c \in Calls, NEW o, o # "401", Return(c, o),
         c \in Static \/ call[c].pc \notin {"store", "hop", "hopping"}
  PROVE  Timely'
<1>1. call \in [Calls -> Call]
  BY DEF HopIInv, TypeOK
<1>2. /\ \A d \in Calls : d # c => call'[d] = call[d]
      /\ call'[c].pc = "done" /\ call'[c].outcome = o
  BY <1>1, Returned
<1>3. QED
  BY <1>2, TimelyOutside

LEMMA TimelyBegin ==
  ASSUME HopIInv, Timely, how' = how, NEW c \in Calls, NEW allowed \in BOOLEAN, Begin(c, allowed)
  PROVE  Timely'
<1>1. /\ now' = now /\ sessions' = sessions /\ cache' = cache /\ call[c].pc = "idle"
      /\ call \in [Calls -> Call]
  BY DEF Begin, serverVars, clientVars, HopIInv, TypeOK
<1>2. CASE Return(c, "closed") \/ Return(c, "rejected")
  BY <1>1, <1>2, TimelyReturn
<1>3. CASE Goto(c, "resolve")
  <2>1. /\ \A d \in Calls : d # c => call'[d] = call[d]
        /\ call'[c].pc = "resolve" /\ call'[c].outcome = call[c].outcome
    BY <1>1, <1>3, Went
  <2>2. c \in Static \/ call[c].outcome # "401"
    BY DEF Timely
  <2>3. QED
    BY <1>1, <2>1, <2>2, TimelyOutside
<1>4. QED
  BY <1>2, <1>3 DEF Begin

LEMMA TimelyResolve ==
  ASSUME HopIInv, Timely, how' = how, NEW c \in Calls, Resolve(c)
  PROVE  Timely'
<1>1. /\ now' = now /\ sessions' = sessions /\ cache' = cache /\ call[c].pc = "resolve"
      /\ call \in [Calls -> Call]
  BY DEF Resolve, serverVars, clientVars, HopIInv, TypeOK
<1>2. CASE Return(c, "auth")
  BY <1>1, <1>2, TimelyReturn
<1>3. CASE c \in Static /\ Goto(c, "hop")
  BY <1>1, <1>3, Went, TimelyOutside
<1>4. CASE /\ c \notin Static
           /\ call' = [call EXCEPT ![c].pc = IF call[c].force THEN "mint" ELSE "lookup",
                                   ![c].t = now, ![c].pwd = envPwd]
  <2>1. /\ \A d \in Calls : d # c => call'[d] = call[d]
        /\ call'[c].pc \in {"mint", "lookup"} /\ call'[c].t = now
        /\ call'[c].outcome = call[c].outcome
    BY <1>1, <1>4 DEF Call
  <2>2. call[c].outcome # "401"
    BY <1>4 DEF Timely
  <2>3. now <= now + Margin
    BY Numbers, Bounds DEF HopIInv
  <2>4. QED
    BY <1>1, <2>1, <2>2, <2>3, TimelyOutside
<1>5. QED
  BY <1>2, <1>3, <1>4 DEF Resolve

(* A hit: the call is a refresher itself, or the entry rests on one that is under way. *)
LEMMA TimelyLookup ==
  ASSUME HopIInv, Margin < IdleTTL, Timely, how' = how, NEW c \in Calls, Lookup(c)
  PROVE  Timely'
<1>1. /\ now' = now /\ sessions' = sessions /\ call[c].pc = "lookup"
      /\ TypeOK /\ call \in [Calls -> Call] /\ cache \in [Scopes -> Entry]
      /\ Static' = Static
  BY DEF Lookup, serverVars, HopIInv, TypeOK, Static
<1>2. /\ c \notin Static /\ call[c].outcome # "401" /\ now <= call[c].t + Margin
  BY <1>1 DEF Timely, HopIInv, CallOK
<1>3. CASE CacheHit(c)
  <2> DEFINE k == ScopeOf[c]
  <2>1. k \in Scopes /\ cache[k].sid # NoSid /\ call[c].t < cache[k].lastUsed + IdleLimit
    BY <1>3, ZeusHopAssumption DEF CacheHit
  <2>2. /\ \A d \in Calls : d # c => call'[d] = call[d]
        /\ call'[c].pc = "hop" /\ call'[c].t = call[c].t
        /\ call'[c].sid = cache[k].sid /\ call'[c].outcome = call[c].outcome
    BY <1>1, <1>3 DEF Lookup, Call
  <2>3. /\ \A j \in Scopes : j # k => cache'[j] = cache[j]
        /\ cache'[k].sid = cache[k].sid
    BY <1>1, <1>3, <2>1 DEF Lookup, Entry
  <2>4. PICK s \in 1..minted : s = cache[k].sid /\ s \in 1..MaxSids
    <3>1. cache[k].sid \in Nat /\ minted \in Nat /\ minted <= MaxSids /\ cache[k].sid <= minted
      BY <1>1, <2>1, Numbers DEF HopIInv, EntryOK
    <3>2. QED
      BY <2>1, <3>1, Bounds DEF NoSid
  <2>5. /\ now \in Nat /\ call[c].t \in Nat /\ cache[k].lastUsed \in Nat
        /\ sessions[s].used \in Nat /\ IdleTTL \in Nat /\ Margin \in Nat
    BY <1>1, <2>1, <2>4, Numbers, Bounds
  <2>6. Pending(c, s)' /\ \A i : Pending(c, i)' => i = s
    BY <1>1, <1>2, <2>2, <2>4 DEF Pending
  <2>7. \A i : ~Pending(c, i)
    BY <1>1 DEF Pending
  <2>8. Refresher(s)' /\ now < sessions[s].used + IdleTTL
    <3>1. CASE cache[k].lastUsed <= sessions[s].used
      <4>1. call[c].t + Margin < sessions[s].used + IdleTTL
        BY <2>1, <2>5, <3>1 DEF IdleLimit, Since
      <4>2. QED
        BY <1>1, <1>2, <2>2, <2>5, <2>6, <4>1 DEF Refresher
    <3>2. CASE Refresher(s)
      <4>1. PICK d \in Calls : /\ Pending(d, s)
                               /\ call[d].t + Margin < sessions[s].used + IdleTTL
        BY <3>2 DEF Refresher
      <4>2. Pending(d, s)' /\ call'[d].t = call[d].t
        BY <1>1, <2>2, <2>7, <4>1 DEF Pending
      <4>3. now < sessions[s].used + IdleTTL
        BY <2>4, <4>1 DEF Timely
      <4>4. QED
        BY <1>1, <4>1, <4>2, <4>3 DEF Refresher
    <3>3. QED
      BY <2>1, <2>4, <3>1, <3>2 DEF Timely, Refresher
  <2>9. ASSUME NEW j \in Scopes
        PROVE  \/ cache'[j] = cache[j]
               \/ cache'[j].lastUsed <= sessions'[cache'[j].sid].used
               \/ Refresher(cache[j].sid)'
    BY <2>3, <2>4, <2>8 DEF Refresher, Pending
  <2>10. QED
    BY <1>1, <1>2, <2>2, <2>6, <2>7, <2>8, <2>9, TimelyFrame
<1>4. CASE ~CacheHit(c)
  <2>1. cache' = cache /\ Goto(c, "mint")
    BY <1>4 DEF Lookup
  <2>2. QED
    BY <1>1, <1>2, <2>1, Went, TimelyOutside
<1>5. QED
  BY <1>3, <1>4

LEMMA TimelyMintSend ==
  ASSUME HopIInv, Timely, how' = how, NEW c \in Calls, MintSend(c)
  PROVE  Timely'
<1>1. /\ now' = now /\ sessions' = sessions /\ cache' = cache /\ call[c].pc = "mint"
      /\ call \in [Calls -> Call]
  BY DEF MintSend, serverVars, clientVars, HopIInv, TypeOK
<1>2. CASE Return(c, "auth")
  BY <1>1, <1>2, TimelyReturn
<1>3. CASE call' = [call EXCEPT ![c].pc = "minting", ![c].mints = @ + 1]
  <2>1. /\ \A d \in Calls : d # c => call'[d] = call[d]
        /\ call'[c].pc = "minting" /\ call'[c].outcome = call[c].outcome
    BY <1>1, <1>3 DEF Call
  <2>2. c \in Static \/ call[c].outcome # "401"
    BY DEF Timely
  <2>3. QED
    BY <1>1, <2>1, <2>2, TimelyOutside
<1>4. QED
  BY <1>2, <1>3 DEF MintSend

(* A fresh session is refreshed by the hop of the call that minted it. *)
LEMMA TimelyServerMint ==
  ASSUME HopIInv, Margin < IdleTTL, Timely, how' = how, NEW c \in Calls, ServerMint(c)
  PROVE  Timely'
<1>1. /\ TypeOK /\ CallOK(c) /\ call \in [Calls -> Call]
      /\ sessions \in [1..MaxSids -> Session]
      /\ cache' = cache /\ now' = now /\ minted < MaxSids
      /\ Static' = Static /\ call[c].pc = "minting"
  BY DEF ServerMint, clientVars, HopIInv, TypeOK, Static
<1>2. /\ now \in Nat /\ minted \in Nat /\ MaxSids \in Nat /\ call[c].t \in Nat
      /\ IdleTTL \in Nat /\ Margin \in Nat
  BY <1>1, Numbers, Bounds
<1>3. PICK n \in 1..MaxSids : n = minted + 1
  BY <1>1, <1>2
<1>4. /\ sessions'[n].used = now
      /\ \A s \in 1..minted : sessions'[s].used = sessions[s].used
  BY <1>1, <1>2, <1>3 DEF ServerMint
<1>5. /\ \A d \in Calls : d # c => call'[d] = call[d]
      /\ call'[c].pc = "store" /\ call'[c].t = call[c].t
      /\ call'[c].sid = n /\ call'[c].outcome = call[c].outcome
  BY <1>1, <1>3 DEF ServerMint, Call
<1>6. c \notin Static /\ call[c].outcome # "401" /\ call[c].t <= now
  BY <1>1 DEF Timely, CallOK
<1>7. Pending(c, n)' /\ (\A i : Pending(c, i)' => i = n) /\ \A i : ~Pending(c, i)
  BY <1>1, <1>5, <1>6 DEF Pending
<1>8. Refresher(n)' /\ now < sessions'[n].used + IdleTTL
  BY <1>2, <1>4, <1>5, <1>6, <1>7 DEF Refresher
<1>9. QED
  BY <1>1, <1>4, <1>5, <1>6, <1>7, <1>8, TimelyFrame

LEMMA TimelyMintStore ==
  ASSUME HopIInv, Timely, how' = how, NEW c \in Calls, MintStore(c)
  PROVE  Timely'
<1>1. /\ TypeOK /\ CallOK(c) /\ call \in [Calls -> Call] /\ cache \in [Scopes -> Entry]
      /\ now' = now /\ sessions' = sessions /\ Static' = Static /\ call[c].pc = "store"
  BY DEF MintStore, serverVars, HopIInv, TypeOK, Static
<1>2. /\ \A d \in Calls : d # c => call'[d] = call[d]
      /\ call'[c].pc = "hop" /\ call'[c].t = call[c].t
      /\ call'[c].sid = call[c].sid /\ call'[c].outcome = call[c].outcome
  BY <1>1, Went DEF MintStore
<1>3. \A i : Pending(c, i)' = Pending(c, i)
  BY <1>1, <1>2 DEF Pending
<1>4. c \notin Static /\ call[c].outcome # "401" /\ Fresh(c)
  BY <1>1 DEF CallOK, Sessioned, Timely
<1>5. ASSUME NEW k \in Scopes
      PROVE  cache'[k] = cache[k] \/ cache'[k].lastUsed <= sessions'[cache'[k].sid].used
  <2>1. CASE cache' # cache /\ k = ScopeOf[c]
    <3>1. cache'[k] = MintedEntry(c)
      BY <1>1, <2>1 DEF MintStore
    <3>2. QED
      BY <1>1, <1>4, <3>1 DEF MintedEntry, Fresh
  <2>2. CASE cache' = cache \/ k # ScopeOf[c]
    BY <1>1, <2>2 DEF MintStore
  <2>3. QED
    BY <2>1, <2>2
<1>6. QED
  BY <1>1, <1>2, <1>3, <1>4, <1>5, TimelyFrame

LEMMA TimelyHopSend ==
  ASSUME HopIInv, Timely, how' = how, NEW c \in Calls, HopSend(c), ~disturbed'
  PROVE  Timely'
<1>1. /\ call \in [Calls -> Call]
      /\ now' = now /\ sessions' = sessions /\ Static' = Static /\ cache' = cache
      /\ call[c].pc = "hop" /\ call' = [call EXCEPT ![c].pc = "hopping", ![c].hops = @ + 1]
  BY DEF HopSend, serverVars, clientVars, HopIInv, TypeOK, Static
<1>2. /\ \A d \in Calls : d # c => call'[d] = call[d]
      /\ call'[c].pc = "hopping" /\ call'[c].t = call[c].t
      /\ call'[c].sid = call[c].sid /\ call'[c].outcome = call[c].outcome
  BY <1>1 DEF Call
<1>3. \A i : Pending(c, i)' = Pending(c, i)
  BY <1>1, <1>2 DEF Pending
<1>4. c \notin Static => call[c].outcome # "401"
  BY DEF Timely
<1>5. QED
  BY <1>1, <1>2, <1>3, <1>4, TimelyFrame

(* The hop of a refresher arrives in time; it refreshes the session for the others. *)
LEMMA TimelyServerHop ==
  ASSUME HopIInv, Margin < IdleTTL, Timely, how' = how, NEW c \in Calls,
         NEW status \in {"ok", "401", "other"}, ServerHop(c, status), ~disturbed'
  PROVE  Timely'
<1>1. /\ cache' = cache /\ now' = now /\ minted' = minted /\ call[c].pc = "hopping"
      /\ TypeOK /\ call \in [Calls -> Call] /\ sessions \in [1..MaxSids -> Session]
      /\ Static' = Static
  BY DEF ServerHop, clientVars, HopIInv, TypeOK, Static
<1>2. /\ \A d \in Calls : d # c => call'[d] = call[d]
      /\ call'[c].pc = "answered" /\ call'[c].outcome = status
  BY <1>1 DEF ServerHop, Call
<1>3. CASE c \in Static
  <2>1. sessions' = sessions
    BY <1>3 DEF ServerHop
  <2>2. QED
    BY <1>1, <1>2, <1>3, <2>1, TimelyOutside
<1>4. CASE c \notin Static
  <2>1. PICK s \in 1..MaxSids : s = call[c].sid /\ s \in 1..minted
    BY <1>1, <1>4, HopHasSid DEF Holding
  <2>2. Pending(c, s) /\ (\A i : Pending(c, i) => i = s) /\ \A i : ~Pending(c, i)'
    BY <1>1, <1>2, <1>4, <2>1 DEF Pending
  <2>3. /\ now \in Nat /\ IdleTTL \in Nat /\ Margin \in Nat /\ HardTTL \in Nat
        /\ sessions[s].used \in Nat /\ sessions[s].used <= now
    BY <1>1, Numbers, Bounds DEF HopIInv
  <2>4. ~Dead(s)
    <3>1. now < sessions[s].used + IdleTTL
      BY <2>2 DEF Timely
    <3>2. ~sessions[s].revoked /\ ~(now >= sessions[s].at + HardTTL)
      BY <1>4, <2>1 DEF ServerHop
    <3>3. QED
      BY <2>3, <3>1, <3>2 DEF Dead, Since
  <2>5. status # "401" /\ sessions' = [sessions EXCEPT ![s].used = now]
    BY <1>4, <2>1, <2>4 DEF ServerHop
  <2>6. sessions'[s].used = now /\ \A i \in 1..MaxSids : i # s => sessions'[i] = sessions[i]
    BY <1>1, <2>5 DEF Session
  <2>7. ASSUME NEW d \in Calls, NEW i \in 1..MaxSids
        PROVE  /\ Pending(d, i)' <=> d # c /\ Pending(d, i)
               /\ d # c => call'[d].t = call[d].t
    BY <1>1, <1>2, <2>2 DEF Pending
  <2>8. ASSUME NEW i \in 1..MaxSids, i # s, Refresher(i) PROVE Refresher(i)'
    <3>1. \A d \in Calls : Pending(d, i) => Pending(d, i)' /\ call'[d].t = call[d].t
      BY <2>2, <2>7, <2>8
    <3>2. QED
      BY <2>6, <2>8, <3>1, RefresherStays
  <2>9. ASSUME NEW d \in Calls, Pending(d, s)' PROVE Refresher(s)'
    <3>1. call'[d].t \in Nat /\ call'[d].t <= now
      BY <1>1, <1>2, <2>7, <2>9, Numbers DEF HopIInv, CallOK
    <3>2. call'[d].t + Margin < sessions'[s].used + IdleTTL
      BY <2>3, <2>6, <3>1
    <3>3. QED
      BY <2>9, <3>2 DEF Refresher
  <2>10. ASSUME NEW d \in Calls \ Static
         PROVE  /\ call'[d].outcome # "401"
                /\ call'[d].pc = "lookup" => now' <= call'[d].t + Margin
    BY <1>1, <1>2, <2>5 DEF Timely
  <2>11. ASSUME NEW d \in Calls, NEW i \in 1..MaxSids, Pending(d, i)'
         PROVE  Refresher(i)' /\ now' < sessions'[i].used + IdleTTL
    <3>1. CASE i = s
      <4>1. now < now + IdleTTL
        BY <2>3
      <4>2. QED
        BY <1>1, <2>6, <2>9, <2>11, <3>1, <4>1
    <3>2. CASE i # s
      <4>1. Refresher(i) /\ now < sessions[i].used + IdleTTL
        BY <2>7, <2>11 DEF Timely
      <4>2. QED
        BY <1>1, <2>6, <2>8, <3>2, <4>1
    <3>3. QED
      BY <3>1, <3>2
  <2>12. ASSUME NEW k \in Scopes, cache'[k].sid # NoSid
         PROVE  \/ cache'[k].lastUsed <= sessions'[cache'[k].sid].used
                \/ Refresher(cache[k].sid)'
    <3>1. /\ cache[k].sid \in Nat /\ minted \in Nat /\ minted <= MaxSids
          /\ cache[k].sid <= minted /\ cache[k].lastUsed <= now
      BY <1>1, Numbers DEF HopIInv, EntryOK
    <3>2. PICK i \in 1..MaxSids : i = cache[k].sid
      BY <1>1, <2>12, <3>1, Bounds DEF NoSid
    <3>3. CASE i = s
      BY <1>1, <2>6, <3>1, <3>2, <3>3
    <3>4. CASE i # s
      <4>1. cache[k].lastUsed <= sessions[i].used \/ Refresher(i)
        BY <1>1, <2>12, <3>2 DEF Timely, Refresher
      <4>2. cache[k].lastUsed <= sessions'[i].used \/ Refresher(i)'
        BY <2>6, <2>8, <3>4, <4>1
      <4>3. QED
        BY <1>1, <3>2, <4>2 DEF Refresher, Pending
    <3>5. QED
      BY <3>3, <3>4
  <2>13. QED
    BY <1>1, <2>10, <2>11, <2>12 DEF Timely
<1>5. QED
  BY <1>3, <1>4

LEMMA TimelyAnswer ==
  ASSUME HopIInv, Timely, how' = how, NEW c \in Calls, Answer(c)
  PROVE  Timely'
<1>1. /\ now' = now /\ sessions' = sessions /\ cache' = cache /\ call[c].pc = "answered"
      /\ call \in [Calls -> Call]
  BY DEF Answer, serverVars, clientVars, HopIInv, TypeOK
<1>2. c \in Static \/ call[c].outcome # "401"
  BY DEF Timely
<1>3. /\ \A d \in Calls : d # c => call'[d] = call[d]
      /\ call'[c].pc = "done" /\ call'[c].outcome = call[c].outcome
  BY <1>1, <1>2 DEF Answer, Remints, Call
<1>4. QED
  BY <1>1, <1>2, <1>3, TimelyOutside

(* The clock: a hop that is not overdue keeps its session alive. *)
LEMMA TimelyTick ==
  ASSUME HopIInv, Margin < IdleTTL, Timely, how' = how, Tick, ~disturbed'
  PROVE  Timely'
<1>1. /\ call' = call /\ cache' = cache /\ sessions' = sessions /\ now' = now + 1
      /\ Static' = Static /\ ~Overdue(now + 1) /\ TypeOK
  BY DEF Tick, serverVars, clientVars, Static, HopIInv
<1>2. /\ now \in Nat /\ Margin \in Nat /\ IdleTTL \in Nat
      /\ \A c \in Calls : call[c].t \in Nat
      /\ \A s \in 1..MaxSids : sessions[s].used \in Nat
  BY <1>1, Numbers, Bounds
<1>3. \A c \in Calls \ Static : call[c].pc \in {"lookup", "store", "hop", "hopping"} =>
        now + 1 <= call[c].t + Margin
  <2>1. \A c \in Calls \ Static : call[c].t <= now
    BY DEF HopIInv, CallOK
  <2>2. QED
    BY <1>1, <1>2, <2>1 DEF Overdue, Since
<1>4. \A c, s : Pending(c, s)' <=> Pending(c, s)
  BY <1>1 DEF Pending
<1>5. \A s : Refresher(s)' <=> Refresher(s)
  BY <1>1, <1>4 DEF Refresher
<1>6. ASSUME NEW s \in 1..MaxSids, Refresher(s) PROVE now + 1 < sessions[s].used + IdleTTL
  <2>1. PICK c \in Calls : Pending(c, s) /\ call[c].t + Margin < sessions[s].used + IdleTTL
    BY <1>6 DEF Refresher
  <2>2. now + 1 <= call[c].t + Margin
    BY <1>3, <2>1 DEF Pending
  <2>3. QED
    BY <1>2, <2>1, <2>2
<1>7. /\ \A c \in Calls \ Static :
           /\ call[c].outcome # "401"
           /\ call[c].pc = "lookup" => now + 1 <= call[c].t + Margin
      /\ \A c \in Calls : \A s \in 1..MaxSids : Pending(c, s) =>
           Refresher(s) /\ now + 1 < sessions[s].used + IdleTTL
  BY <1>3, <1>6 DEF Timely
<1>8. ASSUME NEW k \in Scopes, cache'[k].sid # NoSid
      PROVE  \/ cache'[k].lastUsed <= sessions'[cache'[k].sid].used
             \/ Refresher(cache[k].sid)'
  <2>1. cache[k].lastUsed <= sessions[cache[k].sid].used \/ Refresher(cache[k].sid)
    BY <1>1, <1>8 DEF Timely
  <2>2. QED
    BY <1>1, <2>1 DEF Refresher, Pending
<1>9. QED
  BY <1>1, <1>4, <1>5, <1>7, <1>8 DEF Timely

(* Close, a rotation and a revocation are not seen by the clocks. *)
LEMMA TimelyEnv ==
  ASSUME HopIInv, Timely, how' = how,
         \/ ClosePort \/ CloseAuth \/ CloseHTTP \/ Rotate \/ UNCHANGED vars
         \/ \E s \in 1..MaxSids : Revoke(s)
  PROVE  Timely'
<1>1. /\ call' = call /\ cache' = cache /\ now' = now /\ Static' = Static
      /\ sessions \in [1..MaxSids -> Session]
  BY DEF ClosePort, CloseAuth, CloseHTTP, Rotate, Revoke, serverVars, clientVars, vars, Static,
         HopIInv, TypeOK
<1>2. \A s \in 1..MaxSids : sessions'[s].used = sessions[s].used
  <2>1. ASSUME NEW i \in 1..MaxSids, Revoke(i)
        PROVE  \A s \in 1..MaxSids : sessions'[s].used = sessions[s].used
    BY <1>1, <2>1 DEF Revoke, Session
  <2>2. CASE ClosePort \/ CloseAuth \/ CloseHTTP \/ Rotate \/ UNCHANGED vars
    BY <2>2 DEF ClosePort, CloseAuth, CloseHTTP, Rotate, serverVars, vars
  <2>3. QED
    BY <2>1, <2>2
<1>3. \A c, s : Pending(c, s)' <=> Pending(c, s)
  BY <1>1 DEF Pending
<1>4. \A s \in 1..MaxSids : Refresher(s)' <=> Refresher(s)
  BY <1>1, <1>2, <1>3 DEF Refresher
<1>5. ASSUME NEW k \in Scopes, cache'[k].sid # NoSid
      PROVE  \/ cache'[k].lastUsed <= sessions'[cache'[k].sid].used
             \/ Refresher(cache[k].sid)'
  <2>1. /\ cache[k].sid \in Nat /\ minted \in Nat /\ minted <= MaxSids
        /\ cache[k].sid <= minted
    BY Numbers DEF HopIInv, EntryOK
  <2>2. PICK i \in 1..MaxSids : i = cache[k].sid
    BY <1>1, <1>5, <2>1, Bounds DEF NoSid
  <2>3. cache[k].lastUsed <= sessions[i].used \/ Refresher(i)
    BY <1>1, <1>5, <2>2 DEF Timely, Refresher
  <2>4. cache[k].lastUsed <= sessions'[i].used \/ Refresher(i)'
    BY <1>2, <1>4, <2>3
  <2>5. QED
    BY <1>1, <2>2, <2>4 DEF Refresher, Pending
<1>6. QED
  BY <1>1, <1>2, <1>3, <1>4, <1>5 DEF Timely

LEMMA InTimeStep == HopIInv /\ InTime /\ [Next]_vars => InTime'
<1> SUFFICES ASSUME HopIInv, InTime, [Next]_vars, Margin < IdleTTL, ~disturbed' PROVE Timely'
  BY DEF InTime
<1>1. ~disturbed
  BY DEF Next, CallStep, vars, Begin, Resolve, Lookup, MintSend, ServerMint, MintFails, MintStore,
         HopSend, HopLost, ServerHop, Answer, ClosePort, CloseAuth, CloseHTTP, Tick, Rotate, Revoke
<1>2. Timely
  BY <1>1 DEF InTime
<1>3. CASE Next
  <2>1. how' = how
    BY <1>3 DEF Next
  <2>2. ASSUME NEW c \in Calls, NEW allowed \in BOOLEAN, Begin(c, allowed) PROVE Timely'
    BY <1>2, <2>1, <2>2, TimelyBegin
  <2>3. ASSUME NEW c \in Calls, CallStep(c) PROVE Timely'
    <3>1. CASE MintFails(c)
      <4>1. /\ now' = now /\ sessions' = sessions /\ cache' = cache /\ Return(c, "auth")
            /\ call[c].pc = "minting"
        BY <3>1 DEF MintFails, serverVars, clientVars
      <4>2. QED
        BY <1>2, <2>1, <4>1, TimelyReturn
    <3>2. \A arrived \in BOOLEAN : ~HopLost(c, arrived)
      BY DEF HopLost
    <3>3. QED
      BY <1>2, <2>1, <2>3, <3>1, <3>2, TimelyResolve, TimelyLookup, TimelyMintSend,
         TimelyServerMint, TimelyMintStore, TimelyHopSend, TimelyServerHop, TimelyAnswer
      DEF CallStep
  <2>4. CASE \/ ClosePort \/ CloseAuth \/ CloseHTTP \/ Tick \/ Rotate
             \/ \E s \in 1..MaxSids : Revoke(s)
    BY <1>2, <2>1, <2>4, TimelyEnv, TimelyTick
  <2>5. QED
    BY <1>3, <2>2, <2>3, <2>4 DEF Next
<1>4. CASE UNCHANGED vars
  BY <1>2, <1>4, TimelyEnv DEF vars
<1>5. QED
  BY <1>3, <1>4

LEMMA InitInTime == Init => InTime
<1> SUFFICES ASSUME Init PROVE Timely
  BY DEF InTime
<1>1. \A c \in Calls : call[c].outcome = "none" /\ call[c].pc = "idle"
  BY DEF Init
<1>2. \A k \in Scopes : cache[k].sid = NoSid
  BY DEF Init, NoEntry
<1>3. QED
  BY <1>1, <1>2 DEF Timely, Pending

(***************************************************************************)
(* The idle margin covers the way to the server, for any lifetime that is  *)
(* longer than the margin: a hit either is used at the server before the   *)
(* session idles out, or rides on another hop that will be.                *)
(***************************************************************************)
THEOREM MarginIsEnough == Spec => []MarginCovers
<1>1. Spec => []InTime
  BY AlwaysHop, InitInTime, InTimeStep, PTL DEF Spec
<1>2. InTime => MarginCovers
  BY DEF InTime, Timely, MarginCovers
<1>3. QED
  BY <1>1, <1>2, PTL
-----------------------------------------------------------------------------
(* Action properties *)

(***************************************************************************)
(* Once the resolver is closed, no step changes which session an entry     *)
(* holds: a mint in flight is used for its hop and forgotten.              *)
(***************************************************************************)
THEOREM NothingStoredAfterClose == Spec => NoStoreAfterClose
<1> DEFINE Kept == \A k \in Scopes : cache'[k].sid = cache[k].sid
<1>1. HopIInv /\ [Next]_vars => [authClosed => Kept]_vars
  <2> SUFFICES ASSUME HopIInv, [Next]_vars, authClosed PROVE Kept
    OBVIOUS
  <2>1. cache \in [Scopes -> Entry]
    BY DEF HopIInv, TypeOK
  <2>2. ASSUME NEW c \in Calls, Lookup(c) PROVE Kept
    BY <2>1, <2>2 DEF Lookup, Entry
  <2>3. cache' = cache \/ \E c \in Calls : Lookup(c)
    BY DEF Next, CallStep, vars, clientVars, Begin, Resolve, MintSend, ServerMint, MintFails,
           MintStore, HopSend, HopLost, ServerHop, Answer, ClosePort, CloseAuth, CloseHTTP, Tick,
           Rotate, Revoke
  <2>4. QED
    BY <2>2, <2>3
<1>2. QED
  BY <1>1, AlwaysHop, PTL DEF Spec, NoStoreAfterClose

(* Every step of a call brings it nearer to its return. *)
LEMMA RankFalls ==
  ASSUME HopIInv, NEW c \in Calls,
         (\E allowed \in BOOLEAN : Begin(c, allowed)) \/ CallStep(c)
  PROVE  (\A d \in Calls : d # c => call'[d] = call[d]) /\ Rank(c)' < Rank(c)
<1> DEFINE Others == \A d \in Calls : d # c => call'[d] = call[d]
<1>1. call \in [Calls -> Call] /\ CallOK(c)
  BY DEF HopIInv, TypeOK
<1>2. ASSUME NEW o, Return(c, o), call[c].pc # "done" PROVE Others /\ Rank(c)' < Rank(c)
  <2>1. Others /\ call'[c].pc = "done" /\ call'[c].force = call[c].force
    BY <1>1, <1>2, Returned
  <2>2. Rank(c)' = 0
    BY <2>1 DEF Rank, StepsLeft
  <2>3. call[c].pc \in Pc
    BY <1>1 DEF Call
  <2>4. Rank(c) \in Nat /\ Rank(c) > 0
    BY <1>2, <2>3 DEF Rank, StepsLeft, Pc
  <2>5. QED
    BY <2>1, <2>2, <2>4
<1>3. ASSUME NEW p, Goto(c, p), p \in DOMAIN StepsLeft, p # "done",
             call[c].pc \in DOMAIN StepsLeft, call[c].pc # "done",
             StepsLeft[p] < StepsLeft[call[c].pc]
      PROVE  Others /\ Rank(c)' < Rank(c)
  <2>1. Others /\ call'[c].pc = p /\ call'[c].force = call[c].force
    BY <1>1, <1>3, Went
  <2>2. StepsLeft[p] \in Nat /\ StepsLeft[call[c].pc] \in Nat
    BY <1>3 DEF StepsLeft
  <2>3. QED
    BY <1>3, <2>1, <2>2 DEF Rank
<1>4. ASSUME Others, call'[c].force = call[c].force,
             \/ call[c].pc = "resolve" /\ call'[c].pc \in {"mint", "lookup"}
             \/ call[c].pc = "lookup" /\ call'[c].pc = "hop"
             \/ call[c].pc = "mint" /\ call'[c].pc = "minting"
             \/ call[c].pc = "minting" /\ call'[c].pc = "store"
             \/ call[c].pc = "hop" /\ call'[c].pc = "hopping"
             \/ call[c].pc = "hopping" /\ call'[c].pc = "answered"
             \/ call[c].pc = "answered" /\ call'[c].pc = "done"
      PROVE  Others /\ Rank(c)' < Rank(c)
  BY <1>4 DEF Rank, StepsLeft
<1>5. ASSUME NEW allowed \in BOOLEAN, Begin(c, allowed) PROVE Others /\ Rank(c)' < Rank(c)
  BY <1>2, <1>3, <1>5 DEF Begin, StepsLeft
<1>6. CASE Resolve(c)
  <2>1. CASE call' = [call EXCEPT ![c].pc = IF call[c].force THEN "mint" ELSE "lookup",
                                  ![c].t = now, ![c].pwd = envPwd]
    <3>1. Others /\ call'[c].force = call[c].force /\ call'[c].pc \in {"mint", "lookup"}
      BY <1>1, <2>1 DEF Call
    <3>2. QED
      BY <1>4, <1>6, <3>1 DEF Resolve
  <2>2. CASE Return(c, "auth") \/ Goto(c, "hop")
    BY <1>2, <1>3, <1>6, <2>2 DEF Resolve, StepsLeft
  <2>3. QED
    BY <1>6, <2>1, <2>2 DEF Resolve
<1>7. CASE Lookup(c)
  <2>1. CASE CacheHit(c)
    <3>1. Others /\ call'[c].force = call[c].force /\ call'[c].pc = "hop"
      BY <1>1, <1>7, <2>1 DEF Lookup, Call
    <3>2. QED
      BY <1>4, <1>7, <3>1 DEF Lookup
  <2>2. CASE ~CacheHit(c)
    BY <1>3, <1>7, <2>2 DEF Lookup, StepsLeft
  <2>3. QED
    BY <2>1, <2>2
<1>8. CASE MintSend(c)
  <2>1. CASE call' = [call EXCEPT ![c].pc = "minting", ![c].mints = @ + 1]
    <3>1. Others /\ call'[c].force = call[c].force /\ call'[c].pc = "minting"
      BY <1>1, <2>1 DEF Call
    <3>2. QED
      BY <1>4, <1>8, <3>1 DEF MintSend
  <2>2. QED
    BY <1>2, <1>8, <2>1 DEF MintSend
<1>9. CASE ServerMint(c)
  <2>1. Others /\ call'[c].force = call[c].force /\ call'[c].pc = "store"
    BY <1>1, <1>9 DEF ServerMint, Call
  <2>2. QED
    BY <1>4, <1>9, <2>1 DEF ServerMint
<1>10. CASE MintFails(c) \/ (\E arrived \in BOOLEAN : HopLost(c, arrived))
  BY <1>2, <1>10 DEF MintFails, HopLost
<1>11. CASE MintStore(c)
  BY <1>3, <1>11 DEF MintStore, StepsLeft
<1>12. CASE HopSend(c)
  <2>1. CASE call' = [call EXCEPT ![c].pc = "hopping", ![c].hops = @ + 1]
    <3>1. Others /\ call'[c].force = call[c].force /\ call'[c].pc = "hopping"
      BY <1>1, <2>1 DEF Call
    <3>2. QED
      BY <1>4, <1>12, <3>1 DEF HopSend
  <2>2. QED
    BY <1>2, <1>12, <2>1 DEF HopSend
<1>13. ASSUME NEW status, ServerHop(c, status) PROVE Others /\ Rank(c)' < Rank(c)
  <2>1. Others /\ call'[c].force = call[c].force /\ call'[c].pc = "answered"
    BY <1>1, <1>13 DEF ServerHop, Call
  <2>2. QED
    BY <1>4, <1>13, <2>1 DEF ServerHop
<1>14. CASE Answer(c)
  <2>1. CASE Remints(c)
    <3>1. Others /\ call'[c].force = TRUE /\ call'[c].pc = "resolve"
      BY <1>1, <1>14, <2>1 DEF Answer, Call
    <3>2. call[c].pc = "answered" /\ ~call[c].force
      BY <1>14, <2>1 DEF Answer, Remints
    <3>3. QED
      BY <3>1, <3>2 DEF Rank, StepsLeft
  <2>2. CASE ~Remints(c)
    <3>1. Others /\ call'[c].force = call[c].force /\ call'[c].pc = "done"
      BY <1>1, <1>14, <2>2 DEF Answer, Call
    <3>2. QED
      BY <1>4, <1>14, <3>1 DEF Answer
  <2>3. QED
    BY <2>1, <2>2
<1>15. QED
  BY <1>5, <1>6, <1>7, <1>8, <1>9, <1>10, <1>11, <1>12, <1>13, <1>14 DEF CallStep

(***************************************************************************)
(* No step takes a call away from its return, whatever happens at the      *)
(* server and whoever closes the port: the second pass is the last.        *)
(***************************************************************************)
THEOREM CallsReturn == Spec => CallsComeHome
<1> DEFINE Home == \A c \in Calls : call'[c] = call[c] \/ Rank(c)' < Rank(c)
<1>1. HopIInv /\ [Next]_vars => [Home]_vars
  <2> SUFFICES ASSUME HopIInv, [Next]_vars PROVE Home
    OBVIOUS
  <2>1. CASE call' = call
    BY <2>1
  <2>2. ASSUME NEW c \in Calls, (\E allowed \in BOOLEAN : Begin(c, allowed)) \/ CallStep(c)
        PROVE  Home
    BY <2>2, RankFalls
  <2>3. \/ call' = call
        \/ \E c \in Calls : (\E allowed \in BOOLEAN : Begin(c, allowed)) \/ CallStep(c)
    BY DEF Next, vars, ClosePort, CloseAuth, CloseHTTP, Tick, Rotate, Revoke
  <2>4. QED
    BY <2>1, <2>2, <2>3
<1>2. QED
  BY <1>1, AlwaysHop, PTL DEF Spec, CallsComeHome
=============================================================================
