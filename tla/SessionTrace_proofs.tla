------------------------ MODULE SessionTrace_proofs ------------------------
(***************************************************************************)
(* Proofs about SessionLifecycle and SessionTrace: what the server keeps   *)
(* of a chat, for any number of turns, sessions, tries and modes, and that *)
(* the trace of a committed turn lies on the round of that turn.           *)
(***************************************************************************)
EXTENDS SessionTrace, TLAPS, WellFoundedInduction, FiniteSetTheorems
-----------------------------------------------------------------------------
(* The inductive invariant.  Its parts take the session, the handle and the *)
(* turn as arguments, so that lemmas can speak of one session.              *)

\* A minted session in turn t: a turn adds at most one round, and the log is sound.
LogOK(S, t) ==
  /\ S.round >= 1 /\ S.round <= t + 1
  /\ {e.round : e \in S.log} = 1..S.round
  /\ \A e \in S.log : e.turn <= t
  /\ \A e, f \in S.log : e.round = f.round => e.turn = f.turn
  /\ \A e, f \in S.log : e.user /\ f.user /\ e.turn = f.turn => e.round = f.round

\* Nothing of turn t is in the session yet.
Before(S, t) == S.round <= t /\ \A e \in S.log : e.turn < t

\* A handle with an id names one of the n minted sessions, in its mode.
Names(h, ss, n) ==
  /\ h.sid <= n
  /\ h.sid # NoSid => h.mode \in Modes /\ h.mode = ss[h.sid].mode

\* The handle h of turn t is open on session S: its round is the next one, or the last
\* one with nothing but this turn in it; a create has stored the user's message apart.
Open(h, S, t, m, hash) ==
  /\ TurnRound(h) \in {S.round, S.round + 1} /\ TurnRound(h) <= t + 1
  /\ S.mode = m
  /\ h.status = "drift" /\ ~h.created => S.hash # hash
  /\ h.created => h.round = 1
  /\ \A e \in S.log : e.round = TurnRound(h) => e.turn = t
  /\ \A e \in S.log : e.turn = t => e.round = TurnRound(h) \/ (h.created /\ e.round = 1)
  /\ h.created => \A e \in S.log : e.user /\ e.turn = t => e.round = 1

\* The session h.sid was created in place of h.recovered.
Replaces(h, ss) ==
  h.recovered # NoSid /\ h.sid # NoSid =>
    /\ h.recovered < h.sid
    /\ \A e \in ss[h.sid].log : \A f \in ss[h.recovered].log : f.turn < e.turn

\* Where the host is in the turn, and what it has.
Stage ==
  /\ from <= minted
  /\ pc # "between" => mode \in Modes /\ turn >= 1
  /\ pc \in {"rehydrating", "creating"} =>
       handle = NoHandle /\ \A s \in 1..minted : Before(sessions[s], turn)
  /\ pc = "rehydrating" => prior.sid # NoSid /\ prior.mode \in {"", mode}
  /\ pc = "committing" => handle.sid # NoSid
  /\ pc \in {"running", "committing"} /\ handle.sid # NoSid =>
       /\ Open(handle, sessions[handle.sid], turn, mode, packHash)
       /\ handle.recovered # NoSid => \A f \in sessions[handle.recovered].log : f.turn < turn

SessionIInv ==
  /\ TypeOK
  /\ \A s \in 1..minted : LogOK(sessions[s], turn)
  /\ Names(prior, sessions, minted) /\ Names(handle, sessions, minted)
  /\ Replaces(handle, sessions)
  /\ Stage

\* A turn that was committed is on the round of the handle, and traces stay there.
TraceIInv ==
  /\ tpc = "posting" => pc = "between" /\ handle.sid # NoSid
  /\ kept =>
       /\ pc = "between" /\ handle.sid \in 1..minted
       /\ \E e \in sessions[handle.sid].log : e.round = handle.round /\ e.turn = turn
  /\ \A d \in docs :
       /\ d.sid \in 1..minted
       /\ \E e \in sessions[d.sid].log : e.round = d.round /\ e.turn = d.turn
-----------------------------------------------------------------------------
(* Types. *)

LEMMA Bounds == MaxTurns \in Nat /\ MaxSids \in Nat /\ MaxTries \in Nat /\ MaxHash \in Nat
BY SessionAssumption

\* The fields of an entry, a session and a handle that numbers are in.
LEMMA Numbers ==
  /\ \A n \in Turns : n \in Nat
  /\ \A n \in Rounds : n \in Nat
  /\ \A n \in Sids : n \in Nat
  /\ \A e \in Entry : e.turn \in Nat /\ e.round \in Nat
  /\ \A S \in Session : S.round \in Nat /\ S.log \subseteq Entry
  /\ \A h \in Handle : h.round \in Nat /\ h.sid \in Nat /\ h.recovered \in Nat
<1>1. /\ \A n \in Turns : n \in Nat
      /\ \A n \in Rounds : n \in Nat
      /\ \A n \in Sids : n \in Nat
  BY Bounds DEF Turns, Rounds, Sids
<1>2. \A e \in Entry : e.turn \in Nat /\ e.round \in Nat
  BY <1>1 DEF Entry
<1>3. \A S \in Session : S.round \in Nat /\ S.log \subseteq Entry
  BY <1>1 DEF Session
<1>4. \A h \in Handle : h.round \in Nat /\ h.sid \in Nat /\ h.recovered \in Nat
  BY <1>1 DEF Handle
<1> QED
  BY <1>1, <1>2, <1>3, <1>4

(* Lemmas about one session. *)

\* A turn later nothing of the turn is in a session, and its log is as sound.
LEMMA NextTurn ==
  ASSUME NEW S \in Session, NEW t \in Nat, LogOK(S, t)
  PROVE  LogOK(S, t + 1) /\ Before(S, t + 1)
<1>1. S.round \in Nat /\ \A e \in S.log : e.turn \in Nat
  BY Numbers
<1>2. LogOK(S, t + 1)
  BY <1>1 DEF LogOK
<1>3. Before(S, t + 1)
  BY <1>1 DEF LogOK, Before
<1> QED
  BY <1>2, <1>3

\* The server keeps a turn under the round of an open handle: the log stays sound and
\* the handle open, so that the same commit can be sent again.
LEMMA StoreIsSound ==
  ASSUME NEW S \in Session, NEW T \in Session, NEW h \in Handle, NEW t \in Turns, NEW m, NEW hash,
         NEW x \in Entry, LogOK(S, t), Open(h, S, t, m, hash),
         x.round = TurnRound(h), x.turn = t, h.created => ~x.user,
         T.round = x.round, T.log = S.log \cup {x}, T.mode = S.mode, T.hash = S.hash
  PROVE  LogOK(T, t) /\ Open(h, T, t, m, hash)
<1>1. S.round \in Nat /\ t \in Nat /\ x.round \in Nat /\ TurnRound(h) \in Nat
  BY Numbers DEF TurnRound
<1>2. \A e \in S.log : e.turn \in Nat /\ e.round \in Nat
  BY Numbers
<1>3. PICK R \in Nat : R = TurnRound(h)
  BY <1>1
<1>4. /\ R \in {S.round, S.round + 1} /\ R <= t + 1
      /\ \A e \in S.log : e.round = R => e.turn = t
      /\ \A e \in S.log : e.turn = t => (e.round = R \/ (h.created /\ e.round = 1))
  BY <1>3 DEF Open
<1>5. {e.round : e \in T.log} = 1..T.round
  <2>1. {e.round : e \in T.log} = {e.round : e \in S.log} \cup {R}
    BY <1>3
  <2>2. {e.round : e \in S.log} = 1..S.round /\ S.round >= 1
    BY DEF LogOK
  <2>3. (1..S.round) \cup {R} = 1..R
    BY <1>1, <1>4, <2>2
  <2> QED
    BY <2>1, <2>2, <2>3, <1>3
<1>6. \A e \in T.log : e.turn <= t
  BY <1>1 DEF LogOK, Open
<1>7. \A e, f \in T.log : e.round = f.round => e.turn = f.turn
  BY <1>3, <1>4 DEF LogOK
<1>8. \A e, f \in T.log : e.user /\ f.user /\ e.turn = f.turn => e.round = f.round
  <2>1. x.user => ~h.created
    OBVIOUS
  <2>2. \A e \in S.log : x.user /\ e.turn = t => e.round = R
    BY <2>1, <1>4
  <2> QED
    BY <2>2, <1>3 DEF LogOK
<1>9. LogOK(T, t)
  <2>1. T.round >= 1 /\ T.round <= t + 1
    BY <1>1, <1>3, <1>4 DEF LogOK
  <2> QED
    BY <2>1, <1>5, <1>6, <1>7, <1>8 DEF LogOK
<1>10. Open(h, T, t, m, hash)
  <2>1. TurnRound(h) \in {T.round, T.round + 1} /\ TurnRound(h) <= t + 1
    BY <1>3, <1>4
  <2>2. /\ T.mode = m /\ (h.created => h.round = 1)
        /\ h.status = "drift" /\ ~h.created => T.hash # hash
    BY DEF Open
  <2>3. \A e \in T.log : e.round = TurnRound(h) => e.turn = t
    BY <1>3, <1>4
  <2>4. \A e \in T.log : e.turn = t => (e.round = TurnRound(h) \/ (h.created /\ e.round = 1))
    BY <1>3, <1>4
  <2>5. h.created => \A e \in T.log : e.user /\ e.turn = t => e.round = 1
    BY DEF Open
  <2> QED
    BY <2>1, <2>2, <2>3, <2>4, <2>5 DEF Open
<1> QED
  BY <1>9, <1>10

\* A session that was just created: its log is the user's message, and the handle that
\* the create returns is open on it.
LEMMA CreateIsSound ==
  ASSUME NEW S \in Session, NEW h \in Handle, NEW t \in Turns, t >= 1, NEW m, NEW hash,
         NEW x \in Entry, x.round = 1, x.turn = t,
         S.round = 1, S.log = {x}, S.mode = m, S.hash = hash
  PROVE  /\ LogOK(S, t)
         /\ h.round = 1 /\ h.created => Open(h, S, t, m, hash)
<1>1. t \in Nat
  BY Numbers
<1>2. LogOK(S, t)
  <2>1. {e.round : e \in S.log} = 1..S.round
    OBVIOUS
  <2> QED
    BY <1>1, <2>1 DEF LogOK
<1>3. ASSUME h.round = 1, h.created PROVE Open(h, S, t, m, hash)
  <2>1. TurnRound(h) = 2
    BY <1>3 DEF TurnRound
  <2> QED
    BY <1>1, <1>3, <2>1 DEF Open
<1> QED
  BY <1>2, <1>3

\* The handle of a turn that goes on with a session in which nothing of it is yet.
LEMMA RehydrateIsSound ==
  ASSUME NEW S \in Session, NEW h \in Handle, NEW t \in Turns, NEW m, NEW hash,
         LogOK(S, t), Before(S, t), S.mode = m, h.round = S.round + 1, ~h.created,
         h.status = "drift" => S.hash # hash
  PROVE  Open(h, S, t, m, hash)
<1>1. TurnRound(h) = S.round + 1
  BY DEF TurnRound
<1>2. S.round \in Nat /\ t \in Nat /\ \A e \in S.log : e.turn \in Nat /\ e.round \in Nat
  BY Numbers
<1>3. \A e \in S.log : e.round \in 1..S.round
  BY DEF LogOK
<1>4. \A e \in S.log : e.round # S.round + 1 /\ e.turn # t
  BY <1>2, <1>3 DEF Before
<1> QED
  BY <1>1, <1>2, <1>4 DEF Open, Before
-----------------------------------------------------------------------------
\* The handles that Setup and Commit make.
LEMMA Handles ==
  /\ \A sid \in Sids, r \in Rounds, c, e \in BOOLEAN, m \in Headers, st \in Statuses, rec \in Sids :
       [sid |-> sid, round |-> r, created |-> c, enabled |-> e, mode |-> m, status |-> st,
        recovered |-> rec] \in Handle
  /\ NoHandle \in Handle
  /\ \A m \in Headers, st \in Statuses :
       LET h == [NoHandle EXCEPT !.round = 1, !.mode = m, !.status = st]
       IN  h \in Handle /\ h.sid = NoSid
  /\ \A m \in Headers, f \in Sids :
       LET h == [NoHandle EXCEPT !.round = 1, !.enabled = TRUE, !.mode = m, !.recovered = f]
       IN  h \in Handle /\ h.sid = NoSid
<1>1. \A sid \in Sids, r \in Rounds, c, e \in BOOLEAN, m \in Headers, st \in Statuses, rec \in Sids :
       [sid |-> sid, round |-> r, created |-> c, enabled |-> e, mode |-> m, status |-> st,
        recovered |-> rec] \in Handle
  BY DEF Handle
<1>2. NoSid \in Sids /\ 0 \in Rounds /\ 1 \in Rounds /\ "" \in Headers /\ "none" \in Statuses
  BY Bounds DEF NoSid, Sids, Rounds, Headers, Statuses
<1>3. NoHandle \in Handle
  BY <1>1, <1>2 DEF NoHandle
<1>4. ASSUME NEW m \in Headers, NEW st \in Statuses
      PROVE  LET h == [NoHandle EXCEPT !.round = 1, !.mode = m, !.status = st]
             IN  h \in Handle /\ h.sid = NoSid
  <2>1. NoHandle.sid = NoSid
    BY DEF NoHandle
  <2> QED
    BY <1>2, <1>3, <2>1 DEF Handle
<1>5. ASSUME NEW m \in Headers, NEW f \in Sids
      PROVE  LET h == [NoHandle EXCEPT !.round = 1, !.enabled = TRUE, !.mode = m, !.recovered = f]
             IN  h \in Handle /\ h.sid = NoSid
  <2>1. NoHandle.sid = NoSid
    BY DEF NoHandle
  <2> QED
    BY <1>2, <1>3, <2>1 DEF Handle
<1> QED
  BY <1>1, <1>3, <1>4, <1>5

\* What Commit makes of an open handle: the same session, the round of the turn.
LEMMA CommittedIs ==
  ASSUME NEW h \in Handle, TurnRound(h) \in Rounds
  PROVE  /\ Committed(h) \in Handle
         /\ Committed(h).sid = h.sid /\ Committed(h).mode = h.mode
         /\ Committed(h).recovered = h.recovered /\ Committed(h).round = TurnRound(h)
<1> DEFINE g == Committed(h)
<1>1. /\ g.sid = h.sid /\ g.round = TurnRound(h) /\ g.created = FALSE /\ g.enabled = h.enabled
      /\ g.mode = h.mode /\ g.status = h.status /\ g.recovered = h.recovered
  BY DEF Committed, Handle
<1>4. g \in Handle
  BY DEF Committed, Handle
<1> QED
  BY <1>1, <1>4

\* Small facts about ids, rounds and modes.
LEMMA Basics ==
  /\ NoSid \in Sids /\ 0 \in Rounds /\ 1 \in Rounds /\ NoSid = 0
  /\ \A m \in Modes : m \in Headers /\ m # ""
  /\ {"none", "match", "drift"} \subseteq Statuses
  /\ {"between", "rehydrating", "creating", "running", "committing"} \subseteq Places
  /\ NoHandle.sid = NoSid /\ NoHandle.recovered = NoSid
<1>1. NoSid \in Sids /\ 0 \in Rounds /\ 1 \in Rounds /\ NoSid = 0
  BY Bounds DEF NoSid, Sids, Rounds
<1>2. \A m \in Modes : m \in Headers /\ m # ""
  BY SessionAssumption DEF Headers
<1>3. {"none", "match", "drift"} \subseteq Statuses
  BY DEF Statuses
<1>4. {"between", "rehydrating", "creating", "running", "committing"} \subseteq Places
  BY DEF Places
<1>5. NoHandle.sid = NoSid /\ NoHandle.recovered = NoSid
  BY DEF NoHandle
<1> QED
  BY <1>1, <1>2, <1>3, <1>4, <1>5

\* A handle without id has nothing to answer for.
LEMMA NoIdIsFine ==
  ASSUME NEW h \in Handle, NEW ss, NEW n \in Nat, h.sid = NoSid
  PROVE  Names(h, ss, n) /\ Replaces(h, ss)
BY DEF Names, Replaces, NoSid
-----------------------------------------------------------------------------
(* The steps. *)

LEMMA InitIsFine == Init => SessionIInv
<1> SUFFICES ASSUME Init PROVE SessionIInv
  OBVIOUS
<1>1. /\ turn = 0 /\ mode = "" /\ pc = "between" /\ prior = NoHandle /\ handle = NoHandle
      /\ from = NoSid /\ delta = {} /\ tries = 0 /\ packHash = 0 /\ minted = 0
      /\ sessions = [s \in 1..MaxSids |-> NotMinted]
  BY DEF Init
<1>2. NotMinted \in Session
  <2>1. 0 \in Rounds /\ 0 \in Hashes /\ "" \in Headers /\ {} \in SUBSET Entry
    BY Bounds DEF Rounds, Hashes, Headers
  <2> QED
    BY <2>1 DEF NotMinted, Session
<1>3. TypeOK
  <2>1. 0 \in Turns /\ 0 \in Hashes /\ 0 \in 0..MaxTries /\ 0 \in Sids /\ "" \in Headers
    BY Bounds DEF Turns, Hashes, Sids, Headers
  <2>2. sessions \in [1..MaxSids -> Session]
    BY <1>1, <1>2
  <2> QED
    BY <1>1, <2>1, <2>2, Handles, Basics DEF TypeOK
<1>4. Names(prior, sessions, minted) /\ Names(handle, sessions, minted)
      /\ Replaces(handle, sessions)
  BY <1>1, NoIdIsFine, Handles, Basics
<1>5. Stage
  <2>1. pc = "between" /\ from = 0 /\ minted = 0
    BY DEF Init, NoSid
  <2> QED
    BY <2>1 DEF Stage
<1>6. 1..minted = {}
  <2>1. minted = 0
    BY DEF Init
  <2> QED
    BY <2>1
<1> QED
  BY <1>3, <1>4, <1>5, <1>6 DEF SessionIInv

LEMMA SetupStep ==
  ASSUME SessionIInv, NEW m \in Modes, NEW enable \in BOOLEAN, NEW named \in BOOLEAN,
         Setup(m, enable, named)
  PROVE  SessionIInv'
<1>1. /\ pc = "between" /\ turn < MaxTurns /\ turn' = turn + 1 /\ mode' = m /\ tries' = 0
      /\ from' = NoSid /\ prior' = prior /\ delta' = delta /\ packHash' = packHash
      /\ sessions' = sessions /\ minted' = minted
  BY DEF Setup, serverVars
<1>2. /\ turn \in Nat /\ minted \in Nat
      /\ \A s \in 1..minted : sessions[s] \in Session /\ LogOK(sessions[s], turn)
  <2>1. turn \in Nat /\ minted \in Nat /\ minted <= MaxSids
    BY Bounds, Numbers DEF SessionIInv, TypeOK, Sids
  <2> QED
    BY <2>1, Bounds DEF SessionIInv, TypeOK
<1>3. /\ handle' \in Handle /\ handle'.sid = NoSid
      /\ pc' \in {"running", "creating", "rehydrating"}
      /\ pc' # "running" => handle' = NoHandle
      /\ pc' = "rehydrating" => prior.sid # NoSid /\ prior.mode \in {"", m}
  <2>1. CASE enable
    BY <2>1, Handles, Basics DEF Setup
  <2>2. CASE ~enable
    <3>1. m \in Headers
      BY Basics
    <3>2. PICK st : st = IF named THEN "match" ELSE "none"
      OBVIOUS
    <3>3. handle' = [NoHandle EXCEPT !.round = 1, !.mode = m, !.status = st] /\ pc' = "running"
      BY <2>2, <3>2 DEF Setup
    <3>4. st \in Statuses
      BY <3>2 DEF Statuses
    <3> QED
      BY <3>1, <3>3, <3>4, Handles
  <2> QED
    BY <2>1, <2>2
<1>4. TypeOK'
  <2>1. turn' \in Turns
    BY <1>1, <1>2, Bounds DEF Turns
  <2>2. tries' \in 0..MaxTries /\ mode' \in Headers /\ from' \in Sids
    <3>1. 0 \in 0..MaxTries
      BY Bounds
    <3>2. m \in Headers /\ NoSid \in Sids
      BY Basics
    <3> QED
      BY <1>1, <3>1, <3>2
  <2> QED
    BY <1>1, <1>3, <2>1, <2>2, Basics DEF SessionIInv, TypeOK
<1>5. \A s \in 1..minted : LogOK(sessions[s], turn + 1) /\ Before(sessions[s], turn + 1)
  BY <1>2, NextTurn
<1>6. (\A s \in 1..minted : LogOK(sessions[s], turn))'
  BY <1>1, <1>5
<1>7. Names(prior, sessions, minted)' /\ Names(handle, sessions, minted)'
      /\ Replaces(handle, sessions)'
  BY <1>1, <1>2, <1>3, NoIdIsFine DEF SessionIInv
<1>8. Stage'
  <2>1. from' <= minted' /\ mode' \in Modes /\ turn' >= 1
    BY <1>1, <1>2 DEF NoSid
  <2> QED
    BY <1>1, <1>3, <1>5, <2>1 DEF Stage
<1> QED
  BY <1>4, <1>6, <1>7, <1>8 DEF SessionIInv

\* The invariant of a state, in the form that the steps need.
LEMMA Known ==
  ASSUME SessionIInv
  PROVE  /\ turn \in Nat /\ minted \in Nat /\ minted <= MaxSids /\ MaxSids \in Nat
         /\ turn <= MaxTurns /\ MaxTurns \in Nat
         /\ prior \in Handle /\ prior.sid \in Nat /\ prior.sid <= minted
         /\ handle \in Handle /\ handle.sid \in Nat /\ handle.sid <= minted
         /\ handle.recovered \in Nat
         /\ sessions \in [1..MaxSids -> Session]
         /\ \A s \in 1..minted : sessions[s] \in Session /\ LogOK(sessions[s], turn)
<1>1. /\ turn \in Turns /\ minted \in Sids /\ prior \in Handle /\ handle \in Handle
      /\ sessions \in [1..MaxSids -> Session]
  BY DEF SessionIInv, TypeOK
<1>2. turn \in Nat /\ minted \in Nat /\ minted <= MaxSids /\ turn <= MaxTurns
  BY <1>1, Bounds DEF Turns, Sids
<1>3. /\ prior.sid \in Nat /\ handle.sid \in Nat /\ handle.recovered \in Nat
      /\ prior.sid <= minted /\ handle.sid <= minted
  BY <1>1, Numbers DEF SessionIInv, Names
<1>4. \A s \in 1..minted : sessions[s] \in Session /\ LogOK(sessions[s], turn)
  BY <1>1, <1>2, Bounds DEF SessionIInv
<1> QED
  BY <1>1, <1>2, <1>3, <1>4, Bounds

LEMMA RehydrateStep ==
  ASSUME SessionIInv, NEW named \in BOOLEAN, NEW hashed \in BOOLEAN, Rehydrate(named, hashed)
  PROVE  SessionIInv'
<1>1. /\ pc = "rehydrating" /\ pc' = "running"
      /\ turn' = turn /\ mode' = mode /\ prior' = prior /\ packHash' = packHash
      /\ from' = from /\ delta' = delta /\ tries' = tries
      /\ sessions' = sessions /\ minted' = minted
  BY DEF Rehydrate, hostVars, serverVars
<1>2. /\ mode \in Modes /\ turn >= 1 /\ prior.sid # NoSid /\ prior.mode \in {"", mode}
      /\ \A s \in 1..minted : Before(sessions[s], turn)
  BY <1>1 DEF SessionIInv, Stage
<1>3. prior.sid \in 1..minted
  <2>1. prior.sid \in Nat /\ minted \in Nat /\ prior.sid <= minted
    BY Known
  <2>2. prior.sid # 0
    BY <1>2 DEF NoSid
  <2> QED
    BY <2>1, <2>2
<1>4. PICK S \in Session : S = sessions[prior.sid]
  BY <1>3, Known
<1>5. LogOK(S, turn) /\ Before(S, turn) /\ S.mode = prior.mode /\ prior.mode = mode
  <2>1. prior.mode = sessions[prior.sid].mode /\ prior.mode \in Modes
    BY <1>2 DEF SessionIInv, Names
  <2> QED
    BY <1>2, <1>3, <1>4, <2>1, Known, Basics
<1>6. S.round \in Nat /\ S.round >= 1 /\ S.round <= turn
  BY <1>5, Numbers DEF LogOK, Before
<1>7. NextRound(JsonInt(S.round, prior.round)) = S.round + 1
  BY <1>6 DEF NextRound, JsonInt
<1>8. S.round + 1 \in Rounds
  BY <1>6, Known DEF Rounds
<1>9. /\ handle'.sid = prior.sid /\ handle'.round = S.round + 1 /\ handle'.created = FALSE
      /\ handle'.mode = mode /\ handle'.status = ContractStatus(prior.sid, named, hashed)
      /\ handle'.recovered = NoSid /\ handle'.enabled = TRUE
  BY <1>4, <1>7 DEF Rehydrate
<1>10. handle'.status = "drift" => S.hash # packHash
  BY <1>4, <1>9 DEF ContractStatus
<1>11. handle' \in Handle
  <2>1. prior.sid \in Sids
    BY Known DEF Sids
  <2>2. ContractStatus(prior.sid, named, hashed) \in Statuses
    BY DEF ContractStatus, Statuses
  <2>3. mode \in Headers
    BY <1>2, Basics
  <2>4. handle' = [sid |-> prior.sid, round |-> S.round + 1, created |-> FALSE, enabled |-> TRUE,
                   mode |-> mode, status |-> ContractStatus(prior.sid, named, hashed), recovered |-> NoSid]
    BY <1>4, <1>7 DEF Rehydrate
  <2> QED
    BY <2>1, <2>2, <2>3, <2>4, <1>8, Handles, Basics
<1>12. TypeOK'
  BY <1>1, <1>11, Basics DEF SessionIInv, TypeOK
<1>13. Open(handle', S, turn, mode, packHash)
  <2>1. PICK h \in Handle : h = handle'
    BY <1>11
  <2>2. h.round = S.round + 1 /\ ~h.created /\ (h.status = "drift" => S.hash # packHash)
    BY <2>1, <1>9, <1>10
  <2>3. turn \in Turns
    BY DEF SessionIInv, TypeOK
  <2>4. Open(h, S, turn, mode, packHash)
    BY <2>2, <2>3, <1>5, RehydrateIsSound
  <2> QED
    BY <2>1, <2>4
<1>14. Stage'
  <2>1. from' <= minted'
    BY <1>1 DEF SessionIInv, Stage
  <2>2. Open(handle', sessions'[handle'.sid], turn', mode', packHash')
    BY <1>1, <1>4, <1>9, <1>13
  <2> QED
    BY <1>1, <1>2, <1>9, <2>1, <2>2 DEF Stage
<1>15. Names(prior, sessions, minted)' /\ (\A s \in 1..minted : LogOK(sessions[s], turn))'
  BY <1>1 DEF SessionIInv
<1>16. Names(handle, sessions, minted)' /\ Replaces(handle, sessions)'
  BY <1>1, <1>2, <1>3, <1>4, <1>5, <1>9, Known DEF Names, Replaces
<1> QED
  BY <1>12, <1>14, <1>15, <1>16 DEF SessionIInv

LEMMA RehydrateFailsStep == ASSUME SessionIInv, RehydrateFails PROVE SessionIInv'
<1>1. /\ pc = "rehydrating" /\ pc' = "creating" /\ from' = prior.sid
      /\ turn' = turn /\ mode' = mode /\ prior' = prior /\ packHash' = packHash
      /\ handle' = handle /\ delta' = delta /\ tries' = tries
      /\ sessions' = sessions /\ minted' = minted
  BY DEF RehydrateFails, hostVars, serverVars
<1>2. from' \in Sids /\ from' <= minted'
  BY <1>1, Known DEF Sids
<1>3. TypeOK'
  BY <1>1, <1>2, Basics DEF SessionIInv, TypeOK
<1>4. Stage'
  BY <1>1, <1>2 DEF SessionIInv, Stage
<1> QED
  BY <1>1, <1>3, <1>4 DEF SessionIInv

LEMMA SetupErrorsStep ==
  ASSUME SessionIInv, NEW keep \in BOOLEAN, SetupErrors(keep) PROVE SessionIInv'
<1>1. /\ pc' = "between" /\ handle' = NoHandle /\ prior' \in {prior, NoHandle}
      /\ turn' = turn /\ mode' = mode /\ packHash' = packHash
      /\ from' = from /\ delta' = delta /\ tries' = tries
      /\ sessions' = sessions /\ minted' = minted
  BY DEF SetupErrors, serverVars
<1>2. handle' \in Handle /\ handle'.sid = NoSid /\ prior' \in Handle
  BY <1>1, Handles, Basics, Known
<1>3. TypeOK'
  BY <1>1, <1>2, Basics DEF SessionIInv, TypeOK
<1>4. from' <= minted'
  BY <1>1 DEF SessionIInv, Stage
<1>5. Stage'
  BY <1>1, <1>4 DEF Stage
<1>6. Names(NoHandle, sessions, minted) /\ Replaces(NoHandle, sessions)
  BY Handles, Basics, Known, NoIdIsFine
<1>7. Names(prior, sessions, minted)' /\ Names(handle, sessions, minted)'
      /\ Replaces(handle, sessions)'
  BY <1>1, <1>6 DEF SessionIInv
<1>8. (\A s \in 1..minted : LogOK(sessions[s], turn))'
  BY <1>1 DEF SessionIInv
<1> QED
  BY <1>3, <1>5, <1>7, <1>8 DEF SessionIInv

LEMMA GiveUpStep == ASSUME SessionIInv, GiveUp PROVE SessionIInv'
<1>1. /\ pc' = "between" /\ prior' = handle /\ handle' = handle
      /\ turn' = turn /\ mode' = mode /\ packHash' = packHash
      /\ from' = from /\ delta' = delta /\ tries' = tries
      /\ sessions' = sessions /\ minted' = minted
  BY DEF GiveUp, serverVars
<1>2. TypeOK'
  BY <1>1, Basics DEF SessionIInv, TypeOK
<1>3. from' <= minted'
  BY <1>1 DEF SessionIInv, Stage
<1>4. Stage'
  BY <1>1, <1>3 DEF Stage
<1> QED
  BY <1>1, <1>2, <1>4 DEF SessionIInv

LEMMA PackChangeStep == ASSUME SessionIInv, PackChange PROVE SessionIInv'
<1>1. /\ pc = "between" /\ packHash < MaxHash /\ packHash' = packHash + 1
      /\ turn' = turn /\ mode' = mode /\ pc' = pc /\ prior' = prior /\ handle' = handle
      /\ from' = from /\ delta' = delta /\ tries' = tries
      /\ sessions' = sessions /\ minted' = minted
  BY DEF PackChange, serverVars
<1>2. packHash' \in Hashes
  BY <1>1, Bounds DEF Hashes, SessionIInv, TypeOK
<1>3. TypeOK'
  BY <1>1, <1>2 DEF SessionIInv, TypeOK
<1>4. from' <= minted'
  BY <1>1 DEF SessionIInv, Stage
<1>5. Stage'
  BY <1>1, <1>4 DEF Stage
<1> QED
  BY <1>1, <1>3, <1>5 DEF SessionIInv

\* The invariant of a handle survives a step that leaves the sessions it names alone.
LEMMA NamesStay ==
  ASSUME NEW h \in Handle, NEW ss, NEW tt, NEW n \in Nat, NEW k \in Nat, n <= k, Names(h, ss, n),
         \A s \in 1..n : tt[s].mode = ss[s].mode
  PROVE  Names(h, tt, k)
<1>1. h.sid \in Nat
  BY Numbers
<1> QED
  BY <1>1 DEF Names, NoSid

LEMMA ReplacesStays ==
  ASSUME NEW h \in Handle, NEW ss, NEW tt, NEW n \in Nat, h.sid <= n, Replaces(h, ss),
         \A s \in 1..n : tt[s].log = ss[s].log
  PROVE  Replaces(h, tt)
<1>1. h.sid \in Nat /\ h.recovered \in Nat
  BY Numbers
<1> QED
  BY <1>1 DEF Replaces, NoSid

\* POST /v2/session: one more session, with the user's message of this turn.
LEMMA NewSession ==
  ASSUME SessionIInv, pc = "creating", ServerCreates
  PROVE  /\ minted' = minted + 1 /\ minted' \in Sids
         /\ sessions' \in [1..MaxSids -> Session]
         /\ \A s \in 1..minted : sessions'[s] = sessions[s]
         /\ \E x \in Entry, N \in Session :
              /\ x.round = 1 /\ x.turn = turn
              /\ N = sessions'[minted + 1]
              /\ N.round = 1 /\ N.log = {x} /\ N.mode = mode /\ N.hash = packHash
<1>1. minted < MaxSids /\ minted' = minted + 1
  BY DEF ServerCreates
<1>2. minted \in Nat /\ MaxSids \in Nat /\ turn \in Turns /\ mode \in Modes /\ packHash \in Hashes
  BY Known DEF SessionIInv, TypeOK, Stage
<1> DEFINE x == [round |-> 1, turn |-> turn, user |-> TRUE]
           N == [alive |-> TRUE, round |-> 1, hash |-> packHash, mode |-> mode, log |-> {x}]
<1>3. x \in Entry
  BY <1>2, Basics DEF Entry
<1>4. N \in Session
  <2>1. mode \in Headers /\ 1 \in Rounds
    BY <1>2, Basics
  <2>2. {x} \in SUBSET Entry
    BY <1>3
  <2> HIDE DEF x
  <2> QED
    BY <1>2, <2>1, <2>2 DEF Session
<1>5. sessions' = [sessions EXCEPT ![minted + 1] = N]
  BY DEF ServerCreates, CreateRequest
<1>6. x.round = 1 /\ x.turn = turn
  OBVIOUS
<1>7. N.round = 1 /\ N.log = {x} /\ N.mode = mode /\ N.hash = packHash
  OBVIOUS
<1> HIDE DEF x, N
<1>8. minted + 1 \in 1..MaxSids /\ minted + 1 \in Sids
  BY <1>1, <1>2 DEF Sids
<1>9. sessions \in [1..MaxSids -> Session]
  BY Known
<1>10. /\ sessions' \in [1..MaxSids -> Session]
       /\ sessions'[minted + 1] = N
       /\ \A s \in 1..minted : sessions'[s] = sessions[s]
  BY <1>1, <1>2, <1>4, <1>5, <1>8, <1>9
<1> QED
  BY <1>1, <1>3, <1>4, <1>6, <1>7, <1>8, <1>10

LEMMA CreateStep ==
  ASSUME SessionIInv, NEW given \in BOOLEAN, NEW raw \in ServerStatuses, Create(given, raw)
  PROVE  SessionIInv'
<1>1. /\ pc = "creating" /\ pc' = "running" /\ ServerCreates
      /\ turn' = turn /\ mode' = mode /\ prior' = prior /\ packHash' = packHash
      /\ from' = from /\ delta' = delta /\ tries' = tries
  BY DEF Create, hostVars
<1>2. /\ minted' = minted + 1 /\ minted' \in Sids
      /\ sessions' \in [1..MaxSids -> Session]
      /\ \A s \in 1..minted : sessions'[s] = sessions[s]
  BY <1>1, NewSession
<1>3. PICK x \in Entry, N \in Session :
        /\ x.round = 1 /\ x.turn = turn
        /\ N = sessions'[minted + 1]
        /\ N.round = 1 /\ N.log = {x} /\ N.mode = mode /\ N.hash = packHash
  BY <1>1, NewSession
<1>4. /\ mode \in Modes /\ turn >= 1 /\ from <= minted /\ from \in Nat
      /\ \A s \in 1..minted : Before(sessions[s], turn)
  BY <1>1, Numbers DEF SessionIInv, Stage, TypeOK
<1>5. /\ turn \in Turns /\ turn \in Nat /\ minted \in Nat /\ from \in Sids /\ MaxSids \in Nat
      /\ \A s \in 1..minted : LogOK(sessions[s], turn)
  BY Known DEF SessionIInv, TypeOK
<1>6. /\ handle'.sid \in {minted + 1, NoSid} /\ handle'.round = 1 /\ handle'.created = TRUE
      /\ handle'.mode = mode /\ handle'.recovered = from
  BY DEF Create
<1>7. handle' \in Handle
  <2>1. PICK id \in Sids : id = IF given THEN minted + 1 ELSE NoSid
    BY <1>2, Basics
  <2>2. mode \in Headers
    BY <1>4, Basics
  <2>3. PICK st : st = NormalizeContractStatus(raw)
    OBVIOUS
  <2>4. st \in Statuses
    BY <2>3 DEF NormalizeContractStatus, ServerStatuses, Statuses
  <2>5. handle' = [sid |-> id, round |-> 1, created |-> TRUE, enabled |-> TRUE, mode |-> mode,
                   status |-> st, recovered |-> from]
    BY <2>1, <2>3 DEF Create
  <2> QED
    BY <2>2, <2>4, <2>5, <1>5, Handles, Basics
<1>8. PICK h \in Handle : h = handle'
  BY <1>7
<1>9. LogOK(N, turn) /\ Open(h, N, turn, mode, packHash)
  BY <1>3, <1>4, <1>5, <1>6, <1>8, CreateIsSound
<1>10. TypeOK'
  BY <1>1, <1>2, <1>7, Basics DEF SessionIInv, TypeOK
<1>11. (\A s \in 1..minted : LogOK(sessions[s], turn))'
  <2>1. ASSUME NEW s \in 1..(minted + 1) PROVE LogOK(sessions'[s], turn)
    <3>1. s \in 1..minted \/ s = minted + 1
      BY <1>5
    <3> QED
      BY <3>1, <1>2, <1>3, <1>5, <1>9
  <2> QED
    BY <2>1, <1>1, <1>2
<1>12. Names(prior, sessions, minted)'
  <2>1. Names(prior, sessions', minted + 1)
    <3>1. prior \in Handle /\ Names(prior, sessions, minted)
      BY DEF SessionIInv, TypeOK
    <3> QED
      BY <3>1, <1>2, <1>5, NamesStay
  <2> QED
    BY <2>1, <1>1, <1>2
<1>13. Names(handle, sessions, minted)'
  <2>1. handle'.sid <= minted + 1
    BY <1>5, <1>6 DEF NoSid
  <2>2. handle'.sid # NoSid => handle'.mode = sessions'[handle'.sid].mode
    BY <1>3, <1>6
  <2> QED
    BY <2>1, <2>2, <1>2, <1>4, <1>6 DEF Names
<1>14. ASSUME h.recovered # NoSid, h.sid # NoSid
       PROVE  /\ h.recovered < h.sid
              /\ \A f \in sessions'[h.recovered].log : f.turn < turn
  <2>1. h.sid = minted + 1 /\ h.recovered = from /\ from \in 1..minted
    BY <1>14, <1>4, <1>5, <1>6, <1>8 DEF NoSid
  <2>2. sessions'[h.recovered] = sessions[from] /\ Before(sessions[from], turn)
    BY <2>1, <1>2, <1>4
  <2> QED
    BY <2>1, <2>2, <1>4, <1>5 DEF Before
<1>15. Replaces(handle, sessions)'
  <2>1. h.sid # NoSid => sessions'[h.sid].log = {x}
    BY <1>3, <1>6, <1>8
  <2>2. Replaces(h, sessions')
    BY <2>1, <1>3, <1>14 DEF Replaces
  <2> QED
    BY <2>2, <1>8
<1>16. Stage'
  <2>1. from' <= minted'
    BY <1>1, <1>2, <1>4, <1>5
  <2>2. h.sid # NoSid => Open(h, sessions'[h.sid], turn, mode, packHash)
    BY <1>3, <1>6, <1>8, <1>9
  <2> QED
    BY <1>1, <1>4, <1>8, <1>14, <2>1, <2>2 DEF Stage
<1> QED
  BY <1>10, <1>11, <1>12, <1>13, <1>15, <1>16 DEF SessionIInv

LEMMA CreateFailsStep ==
  ASSUME SessionIInv, NEW done \in BOOLEAN, NEW keep \in BOOLEAN, CreateFails(done, keep)
  PROVE  SessionIInv'
<1>1. /\ pc = "creating" /\ pc' = "between"
      /\ turn' = turn /\ mode' = mode /\ packHash' = packHash
      /\ from' = from /\ delta' = delta /\ tries' = tries
      /\ prior' \in {prior, handle'}
  BY DEF CreateFails
<1>2. /\ turn \in Turns /\ turn \in Nat /\ minted \in Nat /\ minted \in Sids /\ from \in Sids
      /\ sessions \in [1..MaxSids -> Session]
      /\ mode \in Headers /\ prior \in Handle /\ MaxSids \in Nat
      /\ \A s \in 1..minted : LogOK(sessions[s], turn)
  BY Known DEF SessionIInv, TypeOK
<1>3. handle' \in Handle /\ handle'.sid = NoSid
  <2>1. handle' = [NoHandle EXCEPT !.round = 1, !.enabled = TRUE, !.mode = mode, !.recovered = from]
    BY DEF CreateFails
  <2> QED
    BY <2>1, <1>2, Handles
<1>4. /\ minted' \in Sids /\ minted' \in Nat /\ minted <= minted'
      /\ sessions' \in [1..MaxSids -> Session]
      /\ \A s \in 1..minted : sessions'[s] = sessions[s]
      /\ \A s \in 1..minted' : LogOK(sessions'[s], turn)
  <2>1. CASE done
    <3>1. ServerCreates
      BY <2>1 DEF CreateFails
    <3>2. /\ minted' = minted + 1 /\ minted' \in Sids
          /\ sessions' \in [1..MaxSids -> Session]
          /\ \A s \in 1..minted : sessions'[s] = sessions[s]
      BY <3>1, <1>1, NewSession
    <3>3. PICK x \in Entry, N \in Session :
            /\ x.round = 1 /\ x.turn = turn
            /\ N = sessions'[minted + 1]
            /\ N.round = 1 /\ N.log = {x} /\ N.mode = mode /\ N.hash = packHash
      BY <3>1, <1>1, NewSession
    <3>4. turn >= 1
      BY <1>1 DEF SessionIInv, Stage
    <3>5. LogOK(N, turn)
      BY <3>3, <3>4, <1>2, CreateIsSound, Handles
    <3>6. ASSUME NEW s \in 1..(minted + 1) PROVE LogOK(sessions'[s], turn)
      <4>1. s \in 1..minted \/ s = minted + 1
        BY <1>2
      <4> QED
        BY <4>1, <3>2, <3>3, <3>5, <1>2
    <3> QED
      BY <3>2, <3>6, <1>2
  <2>2. CASE ~done
    <3>1. sessions' = sessions /\ minted' = minted
      BY <2>2 DEF CreateFails, serverVars
    <3> QED
      BY <3>1, <1>2
  <2> QED
    BY <2>1, <2>2
<1>5. TypeOK'
  BY <1>1, <1>2, <1>3, <1>4, Basics DEF SessionIInv, TypeOK
<1>6. (\A s \in 1..minted : LogOK(sessions[s], turn))'
  BY <1>1, <1>4
<1>7. Names(handle', sessions', minted') /\ Replaces(handle', sessions')
  <2>1. PICK h \in Handle : h = handle'
    BY <1>3
  <2>2. Names(h, sessions', minted') /\ Replaces(h, sessions')
    BY <2>1, <1>3, <1>4, NoIdIsFine
  <2> QED
    BY <2>1, <2>2
<1>8. Names(prior, sessions', minted')
  <2>1. Names(prior, sessions, minted)
    BY DEF SessionIInv
  <2> QED
    BY <2>1, <1>2, <1>4, NamesStay
<1>9. Names(prior', sessions', minted')
  BY <1>1, <1>7, <1>8
<1>10. Stage'
  <2>1. from' <= minted'
    <3>1. from <= minted /\ from \in Nat
      BY <1>2, Numbers DEF SessionIInv, Stage
    <3> QED
      BY <3>1, <1>1, <1>2, <1>4
  <2> QED
    BY <2>1, <1>1 DEF Stage
<1> QED
  BY <1>5, <1>6, <1>7, <1>9, <1>10 DEF SessionIInv

\* The round of an open handle is a round.
LEMMA OpenRound ==
  ASSUME SessionIInv, pc \in {"running", "committing"}, handle.sid # NoSid
  PROVE  /\ TurnRound(handle) \in Rounds
         /\ Open(handle, sessions[handle.sid], turn, mode, packHash)
         /\ handle.sid \in 1..minted
<1>1. Open(handle, sessions[handle.sid], turn, mode, packHash)
  BY DEF SessionIInv, Stage
<1>2. TurnRound(handle) \in Nat
  <2>1. handle.round \in Nat
    BY Known, Numbers
  <2> QED
    BY <2>1 DEF TurnRound
<1>3. TurnRound(handle) <= turn + 1
  BY <1>1 DEF Open
<1>4. turn \in Nat /\ turn <= MaxTurns /\ MaxTurns \in Nat
  BY Known
<1>5. TurnRound(handle) \in Rounds
  BY <1>2, <1>3, <1>4 DEF Rounds
<1>6. handle.sid \in 1..minted
  <2>1. handle.sid \in Nat /\ minted \in Nat /\ handle.sid <= minted
    BY Known
  <2>2. handle.sid # 0
    BY DEF NoSid
  <2> QED
    BY <2>1, <2>2
<1> QED
  BY <1>1, <1>5, <1>6

LEMMA CommitStep ==
  ASSUME SessionIInv, NEW d \in SUBSET Roles, Commit(d) PROVE SessionIInv'
<1>1. /\ pc = "running" /\ tries < MaxTries /\ tries' = tries + 1 /\ delta' = d
      /\ turn' = turn /\ mode' = mode /\ packHash' = packHash /\ from' = from
      /\ sessions' = sessions /\ minted' = minted
  BY DEF Commit, serverVars
<1>2. tries' \in 0..MaxTries
  BY <1>1, Bounds DEF SessionIInv, TypeOK
<1>3. \/ pc' = "between" /\ prior' = handle /\ handle' = handle
      \/ handle.sid # NoSid /\ pc' = "between" /\ handle' = Committed(handle) /\ prior' = handle'
      \/ handle.sid # NoSid /\ pc' = "committing" /\ handle' = handle /\ prior' = prior
  <2>1. CASE ~handle.enabled \/ handle.sid = NoSid
    BY <2>1 DEF Commit
  <2>2. CASE (handle.enabled /\ handle.sid # NoSid) /\ TurnTurns(handle, d) = {}
    BY <2>2 DEF Commit
  <2>3. CASE (handle.enabled /\ handle.sid # NoSid) /\ TurnTurns(handle, d) # {}
    BY <2>3 DEF Commit
  <2> QED
    BY <2>1, <2>2, <2>3
<1>4. /\ from' <= minted' /\ mode \in Modes /\ turn >= 1
  BY <1>1 DEF SessionIInv, Stage
<1>5. (\A s \in 1..minted : LogOK(sessions[s], turn))'
  BY <1>1 DEF SessionIInv
<1>6. CASE pc' = "between" /\ prior' = handle /\ handle' = handle
  <2>1. TypeOK'
    BY <1>1, <1>2, <1>6, Basics DEF SessionIInv, TypeOK
  <2>2. Stage'
    BY <1>4, <1>6 DEF Stage
  <2> QED
    BY <2>1, <2>2, <1>1, <1>5, <1>6 DEF SessionIInv
<1>7. CASE handle.sid # NoSid /\ pc' = "between" /\ handle' = Committed(handle) /\ prior' = handle'
  <2>1. TurnRound(handle) \in Rounds /\ handle \in Handle
    BY <1>1, <1>7, OpenRound, Known
  <2>2. PICK h \in Handle : h = Committed(handle)
    BY <2>1, CommittedIs
  <2>3. h.sid = handle.sid /\ h.mode = handle.mode /\ h.recovered = handle.recovered
    BY <2>1, <2>2, CommittedIs
  <2>4. TypeOK'
    BY <2>2, <1>1, <1>2, <1>7, Basics DEF SessionIInv, TypeOK
  <2>5. Stage'
    BY <1>4, <1>7 DEF Stage
  <2>6. Names(h, sessions, minted) /\ Replaces(h, sessions)
    BY <2>3 DEF SessionIInv, Names, Replaces
  <2> QED
    BY <2>2, <2>4, <2>5, <2>6, <1>1, <1>5, <1>7 DEF SessionIInv
<1>8. CASE handle.sid # NoSid /\ pc' = "committing" /\ handle' = handle /\ prior' = prior
  <2>1. TypeOK'
    BY <1>1, <1>2, <1>8, Basics DEF SessionIInv, TypeOK
  <2>2. Stage'
    BY <1>1, <1>4, <1>8 DEF SessionIInv, Stage
  <2> QED
    BY <2>1, <2>2, <1>1, <1>5, <1>8 DEF SessionIInv
<1> QED
  BY <1>3, <1>6, <1>7, <1>8

\* POST /v2/session/{id}/turn: the turn is under its round, and nothing else moved.
LEMMA Stored ==
  ASSUME SessionIInv, pc = "committing", ServerStores
  PROVE  /\ minted' = minted /\ sessions' \in [1..MaxSids -> Session]
         /\ handle.sid \in 1..minted
         /\ \A s \in 1..minted : /\ LogOK(sessions'[s], turn)
                                 /\ sessions'[s].mode = sessions[s].mode
                                 /\ sessions[s].log \subseteq sessions'[s].log
         /\ Open(handle, sessions'[handle.sid], turn, mode, packHash)
         /\ Replaces(handle, sessions')
         /\ handle.recovered # NoSid => \A f \in sessions'[handle.recovered].log : f.turn < turn
         /\ \E e \in sessions'[handle.sid].log : e.round = TurnRound(handle) /\ e.turn = turn
<1>1. /\ handle.sid # NoSid /\ mode \in Modes
      /\ handle.recovered # NoSid => \A f \in sessions[handle.recovered].log : f.turn < turn
  BY DEF SessionIInv, Stage
<1>2. /\ TurnRound(handle) \in Rounds
      /\ Open(handle, sessions[handle.sid], turn, mode, packHash)
      /\ handle.sid \in 1..minted
  BY <1>1, OpenRound
<1>3. /\ turn \in Turns /\ handle \in Handle /\ minted \in Nat /\ MaxSids \in Nat /\ minted <= MaxSids
      /\ sessions \in [1..MaxSids -> Session] /\ handle.recovered \in Nat /\ handle.sid \in Nat
      /\ \A s \in 1..minted : sessions[s] \in Session /\ LogOK(sessions[s], turn)
  BY Known DEF SessionIInv, TypeOK
<1>4. PICK x : x = ContinueRequest
  OBVIOUS
<1>5. x \in Entry /\ x.round = TurnRound(handle) /\ x.turn = turn
  BY <1>1, <1>2, <1>3, <1>4 DEF ContinueRequest, Entry
<1>6. handle.created => ~x.user
  BY <1>4 DEF ContinueRequest, TurnTurns
<1>7. PICK S \in Session : S = sessions[handle.sid]
  BY <1>2, <1>3
<1>8. PICK T : T = [S EXCEPT !.round = x.round, !.log = S.log \cup {x}]
  OBVIOUS
<1>9. T \in Session /\ T.round = x.round /\ T.log = S.log \cup {x} /\ T.mode = S.mode /\ T.hash = S.hash
  <2>1. S.log \cup {x} \in SUBSET Entry /\ x.round \in Rounds
    BY <1>2, <1>5, Numbers
  <2>2. PICK l : l = S.log \cup {x}
    OBVIOUS
  <2>3. PICK r : r = x.round
    OBVIOUS
  <2> QED
    BY <2>1, <2>2, <2>3, <1>8 DEF Session
<1>10. sessions' = [sessions EXCEPT ![handle.sid] = T] /\ minted' = minted
  BY <1>2, <1>3, <1>4, <1>7, <1>8 DEF ServerStores, Session
<1>11. handle.sid \in 1..MaxSids
  BY <1>2, <1>3
<1>12. /\ sessions' \in [1..MaxSids -> Session]
       /\ sessions'[handle.sid] = T
       /\ \A s \in 1..MaxSids : s # handle.sid => sessions'[s] = sessions[s]
  BY <1>3, <1>9, <1>10, <1>11
<1>13. LogOK(T, turn) /\ Open(handle, T, turn, mode, packHash)
  <2>1. turn \in Turns /\ handle \in Handle
    BY <1>3
  <2>2. LogOK(S, turn) /\ Open(handle, S, turn, mode, packHash)
    BY <1>2, <1>3, <1>7
  <2> QED
    BY <1>5, <1>6, <1>9, <2>1, <2>2, StoreIsSound
<1>14. ASSUME NEW s \in 1..minted
       PROVE  /\ LogOK(sessions'[s], turn)
              /\ sessions'[s].mode = sessions[s].mode
              /\ sessions[s].log \subseteq sessions'[s].log
  <2>1. CASE s = handle.sid
    BY <2>1, <1>7, <1>9, <1>12, <1>13
  <2>2. CASE s # handle.sid
    <3>1. sessions'[s] = sessions[s]
      BY <2>2, <1>3, <1>12
    <3> QED
      BY <3>1, <1>3
  <2> QED
    BY <2>1, <2>2
<1>15. ASSUME handle.recovered # NoSid
       PROVE  /\ handle.recovered < handle.sid
              /\ \A e \in sessions[handle.sid].log : \A f \in sessions[handle.recovered].log :
                   f.turn < e.turn
              /\ sessions'[handle.recovered] = sessions[handle.recovered]
  <2>1. /\ handle.recovered < handle.sid
        /\ \A e \in sessions[handle.sid].log : \A f \in sessions[handle.recovered].log :
             f.turn < e.turn
    BY <1>1, <1>15 DEF SessionIInv, Replaces
  <2>2. handle.recovered \in 1..MaxSids /\ handle.recovered # handle.sid
    BY <2>1, <1>3, <1>11, <1>15 DEF NoSid
  <2> QED
    BY <2>1, <2>2, <1>12
<1>16. Replaces(handle, sessions')
  <2> SUFFICES ASSUME handle.recovered # NoSid
               PROVE  /\ handle.recovered < handle.sid
                      /\ \A e \in sessions'[handle.sid].log :
                           \A f \in sessions'[handle.recovered].log : f.turn < e.turn
    BY DEF Replaces
  <2>1. \A f \in sessions[handle.recovered].log : f.turn < x.turn
    BY <1>1, <1>5
  <2> QED
    BY <2>1, <1>7, <1>9, <1>12, <1>15
<1>17. handle.recovered # NoSid => \A f \in sessions'[handle.recovered].log : f.turn < turn
  BY <1>1, <1>15
<1>18. x \in sessions'[handle.sid].log
  BY <1>9, <1>12
<1> QED
  BY <1>2, <1>5, <1>10, <1>12, <1>13, <1>14, <1>16, <1>17, <1>18

LEMMA CommitOKStep == ASSUME SessionIInv, CommitOK PROVE SessionIInv'
<1>1. /\ pc = "committing" /\ pc' = "between" /\ ServerStores
      /\ handle' = Committed(handle) /\ prior' = handle'
      /\ turn' = turn /\ mode' = mode /\ packHash' = packHash
      /\ from' = from /\ delta' = delta /\ tries' = tries
  BY DEF CommitOK
<1>2. /\ minted' = minted /\ sessions' \in [1..MaxSids -> Session]
      /\ \A s \in 1..minted : LogOK(sessions'[s], turn) /\ sessions'[s].mode = sessions[s].mode
      /\ Replaces(handle, sessions')
  BY <1>1, Stored
<1>3. handle.sid # NoSid /\ from <= minted
  BY <1>1 DEF SessionIInv, Stage
<1>4. TurnRound(handle) \in Rounds /\ handle \in Handle /\ minted \in Nat
  BY <1>1, <1>3, OpenRound, Known
<1>5. PICK h \in Handle : h = Committed(handle)
  BY <1>4, CommittedIs
<1>6. h.sid = handle.sid /\ h.mode = handle.mode /\ h.recovered = handle.recovered
  BY <1>4, <1>5, CommittedIs
<1>7. TypeOK'
  BY <1>1, <1>2, <1>5, Basics DEF SessionIInv, TypeOK
<1>8. Stage'
  BY <1>1, <1>2, <1>3 DEF Stage
<1>9. Names(handle, sessions', minted)
  <2>1. Names(handle, sessions, minted)
    BY DEF SessionIInv
  <2>2. minted <= minted
    BY <1>4
  <2> QED
    BY <2>1, <2>2, <1>2, <1>4, NamesStay
<1>10. Names(h, sessions', minted) /\ Replaces(h, sessions')
  BY <1>2, <1>6, <1>9 DEF Names, Replaces
<1>11. (\A s \in 1..minted : LogOK(sessions[s], turn))'
  BY <1>1, <1>2
<1> QED
  BY <1>1, <1>2, <1>5, <1>7, <1>8, <1>10, <1>11 DEF SessionIInv

LEMMA CommitFailsStep ==
  ASSUME SessionIInv, NEW stored \in BOOLEAN, CommitFails(stored) PROVE SessionIInv'
<1>1. /\ pc = "committing" /\ pc' = "running" /\ handle' = handle /\ prior' = prior
      /\ turn' = turn /\ mode' = mode /\ packHash' = packHash
      /\ from' = from /\ delta' = delta /\ tries' = tries
  BY DEF CommitFails, CommitFailed, hostVars
<1>2. handle.sid # NoSid /\ from <= minted /\ mode \in Modes /\ turn >= 1
  BY <1>1 DEF SessionIInv, Stage
<1>3. CASE stored
  <2>1. ServerStores
    BY <1>3 DEF CommitFails
  <2>2. /\ minted' = minted /\ sessions' \in [1..MaxSids -> Session]
        /\ \A s \in 1..minted : LogOK(sessions'[s], turn) /\ sessions'[s].mode = sessions[s].mode
        /\ Open(handle, sessions'[handle.sid], turn, mode, packHash)
        /\ Replaces(handle, sessions')
        /\ handle.recovered # NoSid => \A f \in sessions'[handle.recovered].log : f.turn < turn
    BY <2>1, <1>1, Stored
  <2>3. TypeOK'
    BY <2>2, <1>1, Basics DEF SessionIInv, TypeOK
  <2>4. Stage'
    BY <2>2, <1>1, <1>2 DEF Stage
  <2>5. Names(handle, sessions', minted) /\ Names(prior, sessions', minted)
    <3>1. /\ Names(handle, sessions, minted) /\ Names(prior, sessions, minted)
          /\ handle \in Handle /\ prior \in Handle /\ minted \in Nat
      BY Known DEF SessionIInv
    <3>2. minted <= minted
      BY <3>1
    <3> QED
      BY <3>1, <3>2, <2>2, NamesStay
  <2>6. (\A s \in 1..minted : LogOK(sessions[s], turn))'
    BY <2>2, <1>1
  <2> QED
    BY <1>1, <2>2, <2>3, <2>4, <2>5, <2>6 DEF SessionIInv
<1>4. CASE ~stored
  <2>1. sessions' = sessions /\ minted' = minted
    BY <1>4 DEF CommitFails, serverVars
  <2>2. TypeOK'
    BY <2>1, <1>1, Basics DEF SessionIInv, TypeOK
  <2>3. Stage'
    BY <2>1, <1>1, <1>2 DEF SessionIInv, Stage
  <2> QED
    BY <1>1, <2>1, <2>2, <2>3 DEF SessionIInv
<1> QED
  BY <1>3, <1>4


\* Sessions that differ in whether they are alive are alike to the invariant.
LEMMA Alike ==
  ASSUME NEW S, NEW T, NEW t, T.round = S.round, T.log = S.log, T.mode = S.mode, T.hash = S.hash
  PROVE  /\ LogOK(S, t) => LogOK(T, t)
         /\ Before(S, t) => Before(T, t)
         /\ \A h, m, hash : Open(h, S, t, m, hash) => Open(h, T, t, m, hash)
<1>1. LogOK(S, t) => LogOK(T, t)
  BY DEF LogOK
<1>2. Before(S, t) => Before(T, t)
  BY DEF Before
<1>3. \A h, m, hash : Open(h, S, t, m, hash) => Open(h, T, t, m, hash)
  BY DEF Open
<1> QED
  BY <1>1, <1>2, <1>3

\* What Forget does: one session is not alive, and nothing else moved.
LEMMA Forgotten ==
  ASSUME SessionIInv, NEW s \in 1..minted, Forget(s)
  PROVE  /\ sessions' \in [1..MaxSids -> Session] /\ minted' = minted
         /\ \A r \in 1..MaxSids :
              /\ sessions'[r].round = sessions[r].round /\ sessions'[r].log = sessions[r].log
              /\ sessions'[r].mode = sessions[r].mode /\ sessions'[r].hash = sessions[r].hash
<1>1. sessions' = [sessions EXCEPT ![s].alive = FALSE] /\ minted' = minted
  BY DEF Forget
<1>2. sessions \in [1..MaxSids -> Session] /\ s \in 1..MaxSids
  BY Known
<1>3. PICK S \in Session : S = sessions[s]
  BY <1>2
<1>4. PICK T : T = [S EXCEPT !.alive = FALSE]
  OBVIOUS
<1>5. T \in Session /\ T.round = S.round /\ T.log = S.log /\ T.mode = S.mode /\ T.hash = S.hash
  BY <1>4 DEF Session
<1>6. sessions' = [sessions EXCEPT ![s] = T]
  BY <1>1, <1>2, <1>3, <1>4
<1> QED
  BY <1>1, <1>2, <1>3, <1>5, <1>6

LEMMA ForgetStep == ASSUME SessionIInv, NEW s \in 1..MaxSids, Forget(s) PROVE SessionIInv'
<1>1. /\ turn' = turn /\ mode' = mode /\ pc' = pc /\ prior' = prior /\ packHash' = packHash
      /\ handle' = handle /\ from' = from /\ delta' = delta /\ tries' = tries /\ s <= minted
  BY DEF Forget, hostVars
<1>2. /\ turn \in Nat /\ minted \in Nat /\ minted <= MaxSids /\ MaxSids \in Nat
      /\ handle \in Handle /\ prior \in Handle /\ handle.sid \in Nat /\ handle.sid <= minted
      /\ handle.recovered \in Nat
  BY Known
<1>3. /\ sessions' \in [1..MaxSids -> Session] /\ minted' = minted
      /\ \A r \in 1..MaxSids :
           /\ sessions'[r].round = sessions[r].round /\ sessions'[r].log = sessions[r].log
           /\ sessions'[r].mode = sessions[r].mode /\ sessions'[r].hash = sessions[r].hash
  BY <1>1, <1>2, Forgotten
<1>4. \A r \in 1..minted : r \in 1..MaxSids
  BY <1>2
<1>5. \A r \in 1..MaxSids :
        /\ LogOK(sessions[r], turn) => LogOK(sessions'[r], turn)
        /\ Before(sessions[r], turn) => Before(sessions'[r], turn)
        /\ \A h, m, hash : Open(h, sessions[r], turn, m, hash) => Open(h, sessions'[r], turn, m, hash)
  BY <1>3, Alike
<1>6. TypeOK'
  BY <1>1, <1>3 DEF SessionIInv, TypeOK
<1>7. (\A r \in 1..minted : LogOK(sessions[r], turn))'
  BY <1>1, <1>3, <1>4, <1>5 DEF SessionIInv
<1>8. Names(handle, sessions', minted) /\ Names(prior, sessions', minted) /\ Replaces(handle, sessions')
  <2>1. /\ Names(handle, sessions, minted) /\ Names(prior, sessions, minted)
        /\ Replaces(handle, sessions)
    BY DEF SessionIInv
  <2>2. minted <= minted
    BY <1>2
  <2>3. \A r \in 1..minted : sessions'[r].mode = sessions[r].mode /\ sessions'[r].log = sessions[r].log
    BY <1>3, <1>4
  <2>4. Names(handle, sessions', minted) /\ Names(prior, sessions', minted)
    BY <2>1, <2>2, <2>3, <1>2, NamesStay
  <2>5. Replaces(handle, sessions')
    BY <2>1, <2>3, <1>2, ReplacesStays
  <2> QED
    BY <2>4, <2>5
<1>9. ASSUME pc \in {"running", "committing"}, handle.sid # NoSid
      PROVE  /\ Open(handle, sessions'[handle.sid], turn, mode, packHash)
             /\ handle.recovered # NoSid =>
                  \A f \in sessions'[handle.recovered].log : f.turn < turn
  <2>1. Open(handle, sessions[handle.sid], turn, mode, packHash) /\ handle.sid \in 1..minted
    BY <1>9, OpenRound
  <2>2. Open(handle, sessions'[handle.sid], turn, mode, packHash)
    BY <2>1, <1>4, <1>5
  <2>3. ASSUME handle.recovered # NoSid
        PROVE  \A f \in sessions'[handle.recovered].log : f.turn < turn
    <3>1. handle.recovered < handle.sid
      BY <2>3, <1>9 DEF SessionIInv, Replaces
    <3>2. handle.recovered \in 1..MaxSids
      BY <3>1, <2>3, <1>2 DEF NoSid
    <3>3. \A f \in sessions[handle.recovered].log : f.turn < turn
      BY <2>3, <1>9 DEF SessionIInv, Stage
    <3> QED
      BY <3>2, <3>3, <1>3
  <2> QED
    BY <2>2, <2>3
<1>10. pc \in {"rehydrating", "creating"} =>
         handle = NoHandle /\ \A r \in 1..minted : Before(sessions'[r], turn)
  BY <1>4, <1>5 DEF SessionIInv, Stage
<1>11. /\ from <= minted
       /\ pc # "between" => mode \in Modes /\ turn >= 1
       /\ pc = "rehydrating" => prior.sid # NoSid /\ prior.mode \in {"", mode}
       /\ pc = "committing" => handle.sid # NoSid
  BY DEF SessionIInv, Stage
<1>12. Stage'
  BY <1>1, <1>3, <1>9, <1>10, <1>11 DEF Stage
<1> QED
  BY <1>1, <1>3, <1>6, <1>7, <1>8, <1>12 DEF SessionIInv

\* Every step of the lifecycle keeps the invariant.
LEMMA StepIsFine == SessionIInv /\ [Next]_vars => SessionIInv'
<1> SUFFICES ASSUME SessionIInv, [Next]_vars PROVE SessionIInv'
  OBVIOUS
<1>1. CASE UNCHANGED vars
  BY <1>1 DEF vars, SessionIInv, TypeOK, Stage
<1>2. CASE Next
  BY <1>2, SetupStep, RehydrateStep, RehydrateFailsStep, SetupErrorsStep, CreateStep,
     CreateFailsStep, CommitStep, CommitOKStep, CommitFailsStep, GiveUpStep, ForgetStep,
     PackChangeStep DEF Next
<1> QED
  BY <1>1, <1>2

\* The invariant says what the properties say.
LEMMA InvIsEnough == SessionIInv => SessionInv /\ UserMessageOnce
<1> SUFFICES ASSUME SessionIInv PROVE SessionInv /\ UserMessageOnce
  OBVIOUS
<1>1. \A s \in 1..minted : LogOK(sessions[s], turn)
  BY DEF SessionIInv
<1>2. OneTurnPerRound /\ UserMessageOnce
  BY <1>1 DEF LogOK, OneTurnPerRound, UserMessageOnce
<1>3. RoundsContiguous /\ ModeSwitchIsNewSession
  BY <1>1 DEF LogOK, RoundsContiguous, SessionIInv, Names, ModeSwitchIsNewSession
<1>4. RecoveredFromEarlier
  BY DEF SessionIInv, Replaces, RecoveredFromEarlier
<1>5. DriftIsReal
  BY DEF SessionIInv, Stage, Open, DriftIsReal
<1> QED
  BY <1>2, <1>3, <1>4, <1>5 DEF SessionIInv, SessionInv
-----------------------------------------------------------------------------
(* The theorems. *)

\* A step of SessionTrace is a step of the lifecycle, or leaves it alone.
LEMMA TracingIsAside == SessionIInv /\ TraceIInv /\ [TraceNext]_allVars => [Next]_vars
<1> SUFFICES ASSUME SessionIInv, TraceIInv, [TraceNext]_allVars PROVE [Next]_vars
  OBVIOUS
<1>1. CASE Turn
  BY <1>1 DEF Turn
<1>2. ASSUME NEW calls \in CallLists, NEW wired \in BOOLEAN, Trace(calls, wired)
      PROVE  UNCHANGED vars
  BY <1>2 DEF Trace
<1>3. ASSUME NEW stored \in BOOLEAN, NEW answered \in BOOLEAN, NEW over \in BOOLEAN,
             PostTrace(stored, answered, over)
      PROVE  UNCHANGED vars
  BY <1>3 DEF PostTrace
<1>4. CASE TraceReturns
  BY <1>4 DEF TraceReturns
<1>5. CASE ForgetWhileTracing
  <2>1. handle.sid # NoSid /\ Forget(handle.sid)
    BY <1>5 DEF ForgetWhileTracing, TraceIInv
  <2>2. handle.sid \in 1..MaxSids
    BY <2>1, Known DEF NoSid
  <2> QED
    BY <2>1, <2>2 DEF Next
<1>6. CASE UNCHANGED allVars
  BY <1>6 DEF allVars
<1> QED
  BY <1>1, <1>2, <1>3, <1>4, <1>5, <1>6 DEF TraceNext

\* Sessions only grow: what is in a log stays there.
LEMMA LogsGrow ==
  ASSUME SessionIInv, [Next]_vars
  PROVE  /\ minted \in Nat /\ minted' \in Nat /\ minted <= minted'
         /\ \A s \in 1..minted : sessions[s].log \subseteq sessions'[s].log
<1>1. minted \in Nat /\ MaxSids \in Nat /\ minted <= MaxSids
  BY Known
<1>2. CASE minted' = minted /\ sessions' = sessions
  BY <1>1, <1>2
<1>3. CASE pc = "creating" /\ ServerCreates
  BY <1>1, <1>3, NewSession
<1>4. CASE pc = "committing" /\ ServerStores
  BY <1>1, <1>4, Stored
<1>5. ASSUME NEW s \in 1..MaxSids, Forget(s)
      PROVE  /\ minted' \in Nat /\ minted <= minted'
             /\ \A r \in 1..minted : sessions[r].log \subseteq sessions'[r].log
  <2>1. s \in 1..minted
    BY <1>1, <1>5 DEF Forget
  <2> QED
    BY <1>1, <1>5, <2>1, Forgotten
<1>6. \/ minted' = minted /\ sessions' = sessions
      \/ pc = "creating" /\ ServerCreates
      \/ pc = "committing" /\ ServerStores
      \/ \E s \in 1..MaxSids : Forget(s)
  BY DEF Next, vars, serverVars, Setup, Rehydrate, RehydrateFails, SetupErrors, Create,
         CreateFails, Commit, CommitOK, CommitFails, GiveUp, PackChange
<1> QED
  BY <1>1, <1>2, <1>3, <1>4, <1>5, <1>6

\* Every step of SessionTrace keeps committed turns, and their traces, on their rounds.
LEMMA TraceStep == SessionIInv /\ TraceIInv /\ [TraceNext]_allVars => TraceIInv'
<1> SUFFICES ASSUME SessionIInv, TraceIInv, [TraceNext]_allVars PROVE TraceIInv'
  OBVIOUS
<1>1. [Next]_vars
  BY TracingIsAside
<1>2. \A s \in 1..minted : s \in 1..minted' /\ sessions[s].log \subseteq sessions'[s].log
  BY <1>1, LogsGrow
<1>3. ASSUME NEW s \in 1..minted, NEW r, NEW t, \E e \in sessions[s].log : e.round = r /\ e.turn = t
      PROVE  s \in 1..minted' /\ \E e \in sessions'[s].log : e.round = r /\ e.turn = t
  BY <1>2, <1>3
<1>4. \A d \in docs :
        /\ d.sid \in 1..minted'
        /\ \E e \in sessions'[d.sid].log : e.round = d.round /\ e.turn = d.turn
  BY <1>3 DEF TraceIInv
<1>5. CASE Turn
  <2>1. /\ tpc = "idle" /\ Next /\ tpc' = tpc /\ docs' = docs
        /\ kept' = (CommitOK \/ (kept /\ turn' = turn))
    BY <1>5 DEF Turn
  <2>2. ASSUME CommitOK
        PROVE  /\ pc' = "between" /\ handle'.sid \in 1..minted'
               /\ \E e \in sessions'[handle'.sid].log : e.round = handle'.round /\ e.turn = turn'
    <3>1. /\ pc = "committing" /\ ServerStores /\ handle' = Committed(handle) /\ pc' = "between"
          /\ turn' = turn
      BY <2>2 DEF CommitOK
    <3>2. /\ minted' = minted /\ handle.sid \in 1..minted
          /\ \E e \in sessions'[handle.sid].log : e.round = TurnRound(handle) /\ e.turn = turn
      BY <3>1, Stored
    <3>3. handle.sid # NoSid
      BY <3>1 DEF SessionIInv, Stage
    <3>4. handle'.sid = handle.sid /\ handle'.round = TurnRound(handle)
      BY <3>1, <3>3, OpenRound, Known, CommittedIs
    <3> QED
      BY <3>1, <3>2, <3>4
  <2>3. ASSUME kept, turn' = turn
        PROVE  /\ pc' = "between" /\ handle'.sid \in 1..minted'
               /\ \E e \in sessions'[handle'.sid].log : e.round = handle'.round /\ e.turn = turn'
    <3>1. /\ pc = "between" /\ handle.sid \in 1..minted
          /\ \E e \in sessions[handle.sid].log : e.round = handle.round /\ e.turn = turn
      BY <2>3 DEF TraceIInv
    <3>2. ~ \E m \in Modes, enable, named \in BOOLEAN : Setup(m, enable, named)
      <4>1. turn # turn + 1
        BY Known
      <4> QED
        BY <4>1, <2>3 DEF Setup
    <3>3. PackChange \/ \E s \in 1..MaxSids : Forget(s)
      BY <2>1, <3>1, <3>2 DEF Next, Rehydrate, RehydrateFails, SetupErrors, Create, CreateFails,
         Commit, CommitOK, CommitFails, GiveUp
    <3>4. pc' = pc /\ handle' = handle
      BY <3>3 DEF PackChange, Forget
    <3> QED
      BY <3>1, <3>4, <2>3, <1>3
  <2> QED
    BY <2>1, <2>2, <2>3, <1>4 DEF TraceIInv
<1>6. ASSUME UNCHANGED vars, docs' = docs, kept' = kept,
             tpc' = "posting" => pc = "between" /\ handle.sid # NoSid
      PROVE  TraceIInv'
  BY <1>6 DEF TraceIInv, vars
<1>7. ASSUME NEW calls \in CallLists, NEW wired \in BOOLEAN, Trace(calls, wired)
      PROVE  TraceIInv'
  BY <1>6, <1>7 DEF Trace
<1>8. ASSUME NEW stored \in BOOLEAN, NEW answered \in BOOLEAN, NEW over \in BOOLEAN,
             PostTrace(stored, answered, over)
      PROVE  TraceIInv'
  <2>1. UNCHANGED vars /\ tpc' = tpc /\ kept' = kept /\ tpc = "posting"
    BY <1>8 DEF PostTrace
  <2>2. \A d \in docs' : d \in docs \/
          (kept /\ d = [sid |-> handle.sid, round |-> handle.round, turn |-> turn])
    <3>1. CASE stored
      BY <1>8, <3>1 DEF PostTrace, ServerKeepsTrace, TraceRound
    <3>2. CASE ~stored
      BY <1>8, <3>2 DEF PostTrace
    <3> QED
      BY <3>1, <3>2
  <2>3. kept => \E e \in sessions[handle.sid].log : e.round = handle.round /\ e.turn = turn
    BY DEF TraceIInv
  <2>4. kept => handle.sid \in 1..minted
    BY DEF TraceIInv
  <2>5. \A d \in docs' : /\ d.sid \in 1..minted
                         /\ \E e \in sessions[d.sid].log : e.round = d.round /\ e.turn = d.turn
    BY <2>2, <2>3, <2>4 DEF TraceIInv
  <2> QED
    BY <2>1, <2>5 DEF TraceIInv, vars
<1>9. CASE TraceReturns
  BY <1>6, <1>9 DEF TraceReturns
<1>10. CASE ForgetWhileTracing
  <2>1. pc' = pc /\ handle' = handle /\ turn' = turn /\ tpc' = tpc /\ kept' = kept /\ docs' = docs
    BY <1>10 DEF ForgetWhileTracing, Forget, hostVars, traceVars
  <2> QED
    BY <2>1, <1>3, <1>4 DEF TraceIInv
<1>11. CASE UNCHANGED allVars
  BY <1>6, <1>11 DEF allVars, traceVars, TraceIInv
<1> QED
  BY <1>5, <1>7, <1>8, <1>9, <1>10, <1>11 DEF TraceNext

(***************************************************************************)
(* For any number of turns, sessions, tries and modes, and whatever is     *)
(* lost, retried, given up or forgotten: a round of a durable session      *)
(* belongs to one turn, the rounds have no holes, a session has one mode,  *)
(* a handle knows whether its contract drifted, and a recreated session    *)
(* names the one before it (Setup and Commit of session_lifecycle.go).     *)
(***************************************************************************)
THEOREM SessionsAreSound == Spec => []SessionInv
<1>1. Init => SessionIInv
  BY InitIsFine
<1>2. SessionIInv /\ [Next]_vars => SessionIInv'
  BY StepIsFine
<1>3. SessionIInv => SessionInv
  BY InvIsEnough
<1> QED
  BY <1>1, <1>2, <1>3, PTL DEF Spec

(***************************************************************************)
(* The user's message of a turn is in one round of a session, however      *)
(* often a create or a commit is repeated after a lost answer.             *)
(***************************************************************************)
THEOREM UserIsStoredOnce == Spec => []UserMessageOnce
<1>1. Init => SessionIInv
  BY InitIsFine
<1>2. SessionIInv /\ [Next]_vars => SessionIInv'
  BY StepIsFine
<1>3. SessionIInv => UserMessageOnce
  BY InvIsEnough
<1> QED
  BY <1>1, <1>2, <1>3, PTL DEF Spec

\* The inductive invariants hold while turns are traced too.
LEMMA TracedInvariant == TraceSpec => [](SessionIInv /\ TraceIInv)
<1>1. TraceInit => SessionIInv /\ TraceIInv
  <2> SUFFICES ASSUME TraceInit PROVE SessionIInv /\ TraceIInv
    OBVIOUS
  <2>1. Init /\ kept = FALSE /\ docs = {} /\ tpc = "idle"
    BY DEF TraceInit
  <2>2. TraceIInv
    BY <2>1 DEF TraceIInv
  <2> QED
    BY <2>1, <2>2, InitIsFine
<1>2. SessionIInv /\ TraceIInv /\ [TraceNext]_allVars => (SessionIInv /\ TraceIInv)'
  <2> SUFFICES ASSUME SessionIInv, TraceIInv, [TraceNext]_allVars
               PROVE  (SessionIInv /\ TraceIInv)'
    OBVIOUS
  <2>1. SessionIInv'
    BY TracingIsAside, StepIsFine
  <2>2. TraceIInv'
    BY TraceStep
  <2> QED
    BY <2>1, <2>2
<1> QED
  BY <1>1, <1>2, PTL DEF TraceSpec

(***************************************************************************)
(* Tracing implements the lifecycle that it runs beside: Trace and its     *)
(* posts never change a handle, a session or a turn.                       *)
(***************************************************************************)
THEOREM TracingKeepsLifecycle == TraceSpec => Spec
<1>1. TraceInit => Init
  BY DEF TraceInit
<1>2. SessionIInv /\ TraceIInv /\ [TraceNext]_allVars => [Next]_vars
  BY TracingIsAside
<1> QED
  BY <1>1, <1>2, TracedInvariant, PTL DEF TraceSpec, Spec

(***************************************************************************)
(* The trace of a committed turn lies on the round of that turn, whatever  *)
(* else failed: PostTrace takes the round of the handle, and Commit moves  *)
(* it to the round it posted (session_trace.go, session_lifecycle.go:343). *)
(***************************************************************************)
THEOREM TracesAreOnTheirRound == TraceSpec => []TraceOnOwnRound
<1>1. TraceIInv => TraceOnOwnRound
  BY DEF TraceIInv, TraceOnOwnRound
<1> QED
  BY <1>1, TracedInvariant, PTL
-----------------------------------------------------------------------------
(* The hops of a trace.  NormalizeHops, SelectPrimaryHop and
   OrderedReqIDsForTracePosts are loops; the lemmas below are the induction that
   they need, over sets of numbers instead of predicates. *)

\* A set of numbers has a least one.
LEMMA Least == ASSUME NEW S \in SUBSET Nat, S # {} PROVE \E m \in S : \A n \in S : m <= n
<1> DEFINE R == OpToRel(<, Nat)
<1>1. \A x, y \in Nat : <<x, y>> \in R <=> x < y
  BY DEF OpToRel
<1>2. IsWellFoundedOn(R, Nat)
  BY NatLessThanWellFounded
<1> HIDE DEF R
<1>3. PICK m \in S : \A n \in S : <<n, m>> \notin R
  BY <1>2, WFMin
<1>4. ASSUME NEW n \in S PROVE m <= n
  <2>1. m \in Nat /\ n \in Nat
    OBVIOUS
  <2>2. ~(n < m)
    BY <1>1, <1>3, <2>1, Zenon
  <2>3. QED
    BY <2>1, <2>2
<1>5. QED
  BY <1>4

\* What holds of 0 and goes on from each number to the next holds of all up to n.
LEMMA Inductive ==
  ASSUME NEW n \in Nat, NEW G, 0 \in G, \A i \in 1..n : i - 1 \in G => i \in G
  PROVE  \A i \in 0..n : i \in G
<1> SUFFICES ASSUME \E i \in 0..n : i \notin G PROVE FALSE
  OBVIOUS
<1> DEFINE S == {i \in 0..n : i \notin G}
<1>1. S \in SUBSET Nat /\ S # {}
  OBVIOUS
<1> HIDE DEF S
<1>2. PICK m \in S : \A k \in S : m <= k
  BY <1>1, Least
<1>3. m \in 0..n /\ m \notin G
  BY <1>2 DEF S
<1>4. m \in 1..n /\ m - 1 \in 0..n
  BY <1>3
<1>5. m - 1 \notin S
  BY <1>2, <1>4
<1>6. QED
  BY <1>3, <1>4, <1>5 DEF S

\* f is what the first value e and the step g give, up to n.
Unrolls(f, T, e, g, n) ==
  f \in [0..n -> T] /\ f[0] = e /\ \A i \in 1..n : f[i] = g[f[i - 1]][i]

\* A first value and a step define a function.
LEMMA Recursion ==
  ASSUME NEW T, NEW e \in T, NEW n \in Nat, NEW g \in [T -> [1..n -> T]]
  PROVE  \E f : Unrolls(f, T, e, g, n)
<1> DEFINE G == {m \in 0..n : \E f : Unrolls(f, T, e, g, m)}
<1>1. 0 \in G
  <2>1. PICK f : f = [i \in 0..0 |-> e]
    OBVIOUS
  <2>2. Unrolls(f, T, e, g, 0)
    BY <2>1 DEF Unrolls
  <2>3. QED
    BY <2>2
<1>2. ASSUME NEW m \in 1..n, m - 1 \in G PROVE m \in G
  <2>1. PICK f : Unrolls(f, T, e, g, m - 1)
    BY <1>2
  <2>2. /\ f \in [0..(m - 1) -> T] /\ f[0] = e
        /\ \A i \in 1..(m - 1) : f[i] = g[f[i - 1]][i]
    BY <2>1 DEF Unrolls
  <2>3. f[m - 1] \in T /\ \A i \in 0..m : i # m => f[i] \in T
    BY <2>2
  <2>4. PICK v \in T : v = g[f[m - 1]][m]
    BY <2>3
  <2>5. PICK h : h = [i \in 0..m |-> IF i = m THEN v ELSE f[i]]
    OBVIOUS
  <2>6. h \in [0..m -> T]
    BY <2>3, <2>5
  <2>7. h[m] = v /\ \A i \in 0..(m - 1) : h[i] = f[i]
    BY <2>5
  <2>8. h[0] = e
    <3>1. 0 \in 0..(m - 1)
      OBVIOUS
    <3>2. QED
      BY <2>2, <2>7, <3>1
  <2>9. ASSUME NEW i \in 1..m PROVE h[i] = g[h[i - 1]][i]
    <3>1. h[i - 1] = f[i - 1]
      <4>1. i - 1 \in 0..(m - 1)
        OBVIOUS
      <4>2. QED
        BY <2>7, <4>1
    <3>2. CASE i = m
      BY <2>4, <2>7, <3>1, <3>2
    <3>3. CASE i # m
      <4>1. i \in 1..(m - 1) /\ i \in 0..(m - 1)
        BY <3>3
      <4>2. QED
        BY <2>2, <2>7, <3>1, <4>1
    <3>4. QED
      BY <3>2, <3>3
  <2>10. Unrolls(h, T, e, g, m)
    BY <2>6, <2>8, <2>9 DEF Unrolls
  <2>11. QED
    BY <2>10
<1>3. n \in G
  <2> HIDE DEF G
  <2>1. \A i \in 0..n : i \in G
    BY <1>1, <1>2, Inductive
  <2>2. QED
    BY <2>1
<1>4. QED
  BY <1>3

(* Scores.  The lexicographic order of six bits is that of the number they spell. *)

LEMMA Bits == \A b : Bit(b) \in {0, 1}
  BY DEF Bit

LEMMA GreaterOfSix ==
  ASSUME NEW a \in [1..6 -> {0, 1}], NEW b \in [1..6 -> {0, 1}]
  PROVE  Greater(a, b)
           <=> 32 * a[1] + 16 * a[2] + 8 * a[3] + 4 * a[4] + 2 * a[5] + a[6]
                 > 32 * b[1] + 16 * b[2] + 8 * b[3] + 4 * b[4] + 2 * b[5] + b[6]
<1>1. PICK a1 \in {0, 1}, a2 \in {0, 1}, a3 \in {0, 1}, a4 \in {0, 1}, a5 \in {0, 1}, a6 \in {0, 1} :
        a[1] = a1 /\ a[2] = a2 /\ a[3] = a3 /\ a[4] = a4 /\ a[5] = a5 /\ a[6] = a6
  OBVIOUS
<1>2. PICK b1 \in {0, 1}, b2 \in {0, 1}, b3 \in {0, 1}, b4 \in {0, 1}, b5 \in {0, 1}, b6 \in {0, 1} :
        b[1] = b1 /\ b[2] = b2 /\ b[3] = b3 /\ b[4] = b4 /\ b[5] = b5 /\ b[6] = b6
  OBVIOUS
<1>3. /\ a[1] = a1 /\ a[2] = a2 /\ a[3] = a3 /\ a[4] = a4 /\ a[5] = a5 /\ a[6] = a6
      /\ b[1] = b1 /\ b[2] = b2 /\ b[3] = b3 /\ b[4] = b4 /\ b[5] = b5 /\ b[6] = b6
  BY <1>1, <1>2
<1> DEFINE At(k) == a[k] > b[k] /\ \A j \in 1..(k - 1) : a[j] = b[j]
<1>4. Greater(a, b) <=> \E k \in 1..6 : At(k)
  BY DEF Greater
<1>5. /\ At(1) <=> a1 > b1
      /\ At(2) <=> a1 = b1 /\ a2 > b2
      /\ At(3) <=> a1 = b1 /\ a2 = b2 /\ a3 > b3
  BY <1>3
<1>6. At(4) <=> a1 = b1 /\ a2 = b2 /\ a3 = b3 /\ a4 > b4
  <2>1. \A j \in 1..3 : j = 1 \/ j = 2 \/ j = 3
    OBVIOUS
  <2>2. QED
    BY <1>3, <2>1
<1>7. At(5) <=> a1 = b1 /\ a2 = b2 /\ a3 = b3 /\ a4 = b4 /\ a5 > b5
  <2>1. \A j \in 1..4 : j = 1 \/ j = 2 \/ j = 3 \/ j = 4
    OBVIOUS
  <2>2. QED
    BY <1>3, <2>1
<1>8. At(6) <=> a1 = b1 /\ a2 = b2 /\ a3 = b3 /\ a4 = b4 /\ a5 = b5 /\ a6 > b6
  <2>1. \A j \in 1..5 : j = 1 \/ j = 2 \/ j = 3 \/ j = 4 \/ j = 5
    OBVIOUS
  <2>2. QED
    BY <1>3, <2>1
<1> HIDE DEF At
<1>9. (\E k \in 1..6 : At(k)) <=> At(1) \/ At(2) \/ At(3) \/ At(4) \/ At(5) \/ At(6)
  <2>1. \A k \in 1..6 : k = 1 \/ k = 2 \/ k = 3 \/ k = 4 \/ k = 5 \/ k = 6
    OBVIOUS
  <2>2. QED
    BY <2>1
<1>10. \/ a1 > b1
       \/ a1 = b1 /\ a2 > b2
       \/ a1 = b1 /\ a2 = b2 /\ a3 > b3
       \/ a1 = b1 /\ a2 = b2 /\ a3 = b3 /\ a4 > b4
       \/ a1 = b1 /\ a2 = b2 /\ a3 = b3 /\ a4 = b4 /\ a5 > b5
       \/ a1 = b1 /\ a2 = b2 /\ a3 = b3 /\ a4 = b4 /\ a5 = b5 /\ a6 > b6
       <=> 32 * a1 + 16 * a2 + 8 * a3 + 4 * a4 + 2 * a5 + a6
             > 32 * b1 + 16 * b2 + 8 * b3 + 4 * b4 + 2 * b5 + b6
  OBVIOUS
<1>11. QED
  BY <1>3, <1>4, <1>5, <1>6, <1>7, <1>8, <1>9, <1>10

LEMMA ScoreIs ==
  ASSUME NEW x
  PROVE  HopScoreOf(x) \in [1..6 -> {0, 1}] /\ HopScoreOf(x)[1] = Bit(~StatusOK(x.status))
<1>1. PICK a1 \in {0, 1}, a2 \in {0, 1}, a3 \in {0, 1} :
        /\ a1 = Bit(~StatusOK(x.status)) /\ a2 = Bit(\E n \in ResultSizeOf(x) : n > 0)
        /\ a3 = Bit(x.name \in {"search", "find"})
  BY Bits
<1>2. PICK a4 \in {0, 1}, a5 \in {0, 1}, a6 \in {0, 1} :
        a4 = Bit(x.costs # <<>>) /\ a5 = Bit(x.text) /\ a6 = Bit(x.name # "pipeline")
  BY Bits
<1>3. PICK s : s = <<a1, a2, a3, a4, a5, a6>>
  OBVIOUS
<1>4. s = HopScoreOf(x)
  BY <1>1, <1>2, <1>3 DEF HopScoreOf
<1>5. s \in [1..6 -> {0, 1}] /\ s[1] = a1
  BY <1>3
<1>6. QED
  BY <1>1, <1>4, <1>5

\* What the score says of a hop, as a number.
LEMMA Weights ==
  ASSUME NEW x, NEW y
  PROVE  /\ Weight(x) \in Nat
         /\ Greater(HopScoreOf(x), HopScoreOf(y)) <=> Weight(x) > Weight(y)
         /\ ~StatusOK(x.status) => Weight(x) >= 32
         /\ StatusOK(x.status) => Weight(x) < 32
<1>1. PICK a \in [1..6 -> {0, 1}] : a = HopScoreOf(x) /\ a[1] = Bit(~StatusOK(x.status))
  BY ScoreIs
<1>2. PICK b \in [1..6 -> {0, 1}] : b = HopScoreOf(y)
  BY ScoreIs
<1>3. PICK w, v : /\ w = 32 * a[1] + 16 * a[2] + 8 * a[3] + 4 * a[4] + 2 * a[5] + a[6]
                  /\ v = 32 * b[1] + 16 * b[2] + 8 * b[3] + 4 * b[4] + 2 * b[5] + b[6]
  OBVIOUS
<1>4. Weight(x) = w /\ Weight(y) = v
  BY <1>1, <1>2, <1>3 DEF Weight
<1>5. w \in Nat /\ (a[1] = 1 => w >= 32) /\ (a[1] = 0 => w < 32)
  <2>1. /\ a[1] \in {0, 1} /\ a[2] \in {0, 1} /\ a[3] \in {0, 1}
        /\ a[4] \in {0, 1} /\ a[5] \in {0, 1} /\ a[6] \in {0, 1}
    OBVIOUS
  <2>2. QED
    BY <1>3, <2>1
<1>6. Greater(a, b) <=> w > v
  BY <1>3, GreaterOfSix
<1>7. /\ ~StatusOK(x.status) => a[1] = 1
      /\ StatusOK(x.status) => a[1] = 0
  BY <1>1 DEF Bit
<1>8. QED
  BY <1>1, <1>2, <1>4, <1>5, <1>6, <1>7

\* The hop at i is the earliest of the best up to n.
Best(hs, i, n) == /\ i \in 1..n
                  /\ \A j \in 1..n : Weight(hs[j]) <= Weight(hs[i])
                  /\ \A j \in 1..(i - 1) : Weight(hs[j]) < Weight(hs[i])

(* The loop of SelectPrimaryHop: a later hop replaces the best only if it is
   greater. *)
LEMMA PrimaryIsBest ==
  ASSUME NEW hs, NEW n \in Nat \ {0}, n = Len(hs), DOMAIN hs = 1..n
  PROVE  \E i : Best(hs, i, n) /\ SelectPrimaryHop(hs) = hs[i]
<1> DEFINE Step(i, m) == IF Greater(HopScoreOf(hs[m]), HopScoreOf(hs[i])) THEN m ELSE i
           best == CHOOSE f : f = [m \in 1..n |-> IF m = 1 THEN 1 ELSE Step(f[m - 1], m)]
<1>1. SelectPrimaryHop(hs) = hs[best[n]]
  BY DEF SelectPrimaryHop
<1>2. ASSUME NEW i \in 1..n, NEW m \in 1..n PROVE Step(i, m) \in 1..n
  OBVIOUS
<1>3. ASSUME NEW i, NEW m
      PROVE  \/ Weight(hs[m]) > Weight(hs[i]) /\ Step(i, m) = m
             \/ ~(Weight(hs[m]) > Weight(hs[i])) /\ Step(i, m) = i
  BY Weights
<1> HIDE DEF Step
<1>4. PICK T, k, g : /\ T = 1..n /\ k = n - 1
                     /\ g = [i \in T |-> [m \in 1..k |-> Step(i, m + 1)]]
  OBVIOUS
<1>5. k \in Nat /\ 1 \in T /\ \A m \in 1..k : m + 1 \in 1..n
  BY <1>4
<1>6. g \in [T -> [1..k -> T]]
  BY <1>2, <1>4, <1>5
<1>7. PICK f : Unrolls(f, T, 1, g, k)
  BY <1>5, <1>6, Recursion
<1>8. f \in [0..k -> T] /\ f[0] = 1 /\ \A m \in 1..k : f[m] = g[f[m - 1]][m]
  BY <1>7 DEF Unrolls
<1>9. ASSUME NEW m \in 1..k PROVE f[m] = Step(f[m - 1], m + 1)
  <2>1. f[m - 1] \in T
    <3>1. m - 1 \in 0..k
      BY <1>5
    <3>2. QED
      BY <1>8, <3>1
  <2>2. g[f[m - 1]][m] = Step(f[m - 1], m + 1)
    BY <1>4, <2>1
  <2>3. QED
    BY <1>8, <2>2
<1>10. PICK h : h = [m \in 1..n |-> f[m - 1]]
  OBVIOUS
<1>11. h = [m \in 1..n |-> IF m = 1 THEN 1 ELSE Step(h[m - 1], m)]
  <2>1. ASSUME NEW m \in 1..n PROVE h[m] = IF m = 1 THEN 1 ELSE Step(h[m - 1], m)
    <3>1. CASE m = 1
      <4>1. h[m] = f[0]
        BY <1>10, <3>1
      <4>2. QED
        BY <1>8, <3>1, <4>1
    <3>2. CASE m # 1
      <4>1. PICK q : q = m - 1
        OBVIOUS
      <4>2. q \in 1..k /\ q + 1 = m /\ q \in 1..n /\ q - 1 = m - 1 - 1
        BY <1>4, <3>2, <4>1
      <4>3. h[m] = f[q] /\ h[q] = f[q - 1]
        BY <1>10, <4>1, <4>2
      <4>4. f[q] = Step(f[q - 1], m)
        BY <1>9, <4>2
      <4>5. QED
        BY <3>2, <4>1, <4>3, <4>4
    <3>3. QED
      BY <3>1, <3>2
  <2>2. QED
    BY <1>10, <2>1
<1>12. best = [m \in 1..n |-> IF m = 1 THEN 1 ELSE Step(best[m - 1], m)]
  BY <1>11
<1>13. PICK b : b = best
  OBVIOUS
<1>14. b[1] = 1 /\ \A m \in 1..n : m # 1 => b[m] = Step(b[m - 1], m)
  <2> HIDE DEF best
  <2>1. QED
    BY <1>12, <1>13
<1> HIDE DEF best
<1> DEFINE G == {m \in 0..k : Best(hs, b[m + 1], m + 1)}
<1>15. 0 \in G
  <2>1. Best(hs, 1, 1)
    BY Weights DEF Best
  <2>2. QED
    BY <1>5, <1>14, <2>1
<1>16. ASSUME NEW m \in 1..k, m - 1 \in G PROVE m \in G
  <2>1. PICK i : i = b[m]
    OBVIOUS
  <2>2. Best(hs, i, m)
    BY <1>16, <2>1
  <2>3. i \in 1..m /\ m \in Nat /\ m \in 1..n /\ m + 1 \in 1..n
    BY <1>4, <2>2 DEF Best
  <2>4. b[m + 1] = Step(i, m + 1)
    BY <1>14, <2>1, <2>3
  <2>5. /\ \A j \in 1..m : Weight(hs[j]) <= Weight(hs[i])
        /\ \A j \in 1..(i - 1) : Weight(hs[j]) < Weight(hs[i])
    BY <2>2 DEF Best
  <2>6. \A x : Weight(x) \in Nat
    BY Weights
  <2>7. \A j \in 1..(m + 1) : j \in 1..m \/ j = m + 1
    BY <2>3
  <2>8. CASE Weight(hs[m + 1]) > Weight(hs[i]) /\ Step(i, m + 1) = m + 1
    <3>1. \A j \in 1..m : Weight(hs[j]) < Weight(hs[m + 1])
      BY <2>5, <2>6, <2>8
    <3>2. \A j \in 1..(m + 1) : Weight(hs[j]) <= Weight(hs[m + 1])
      BY <2>6, <2>7, <3>1
    <3>3. Best(hs, m + 1, m + 1)
      BY <2>3, <3>1, <3>2 DEF Best
    <3>4. QED
      BY <1>5, <2>4, <2>8, <3>3
  <2>9. CASE ~(Weight(hs[m + 1]) > Weight(hs[i])) /\ Step(i, m + 1) = i
    <3>1. Weight(hs[m + 1]) <= Weight(hs[i])
      BY <2>6, <2>9
    <3>2. Best(hs, i, m + 1)
      BY <2>3, <2>5, <2>7, <3>1 DEF Best
    <3>3. QED
      BY <1>5, <2>4, <2>9, <3>2
  <2>10. QED
    BY <1>3, <2>8, <2>9
<1>17. k \in G
  <2> HIDE DEF G
  <2>1. \A m \in 0..k : m \in G
    BY <1>5, <1>15, <1>16, Inductive
  <2>2. QED
    BY <1>5, <2>1
<1>18. Best(hs, b[n], n)
  <2>1. k + 1 = n
    BY <1>4
  <2>2. QED
    BY <1>17, <2>1
<1>19. QED
  BY <1>1, <1>13, <1>18

(* NormalizeHops: no two hops with one req_id. *)

Apart(hs) == \A i, j \in 1..Len(hs) : hs[i].id = hs[j].id => i = j

LEMMA AppendApart ==
  ASSUME NEW X, NEW s \in Seq(X), NEW x \in X, Apart(s), \A i \in 1..Len(s) : s[i].id # x.id
  PROVE  Apart(Append(s, x))
<1>1. PICK n, t : n = Len(s) /\ t = Append(s, x)
  OBVIOUS
<1>2. n \in Nat /\ Len(t) = n + 1 /\ t[n + 1] = x /\ \A i \in 1..n : t[i] = s[i]
  BY <1>1
<1>3. \A i \in 1..(n + 1) : i \in 1..n \/ i = n + 1
  BY <1>2
<1>4. ASSUME NEW i \in 1..(n + 1), NEW j \in 1..(n + 1), t[i].id = t[j].id PROVE i = j
  <2>1. CASE i \in 1..n /\ j \in 1..n
    BY <1>1, <1>2, <1>4, <2>1 DEF Apart
  <2>2. CASE i \in 1..n /\ j = n + 1
    BY <1>1, <1>2, <1>4, <2>2
  <2>3. CASE i = n + 1 /\ j \in 1..n
    BY <1>1, <1>2, <1>4, <2>3
  <2>4. QED
    BY <1>3, <2>1, <2>2, <2>3
<1>5. QED
  BY <1>1, <1>2, <1>4 DEF Apart

LEMMA NormalizedAreApart ==
  ASSUME NEW raws, NEW n \in Nat, n = Len(raws)
  PROVE  \E X : NormalizeHops(raws) \in Seq(X) /\ Apart(NormalizeHops(raws))
<1> DEFINE Skips(s, x) == x.id = Blank \/ \E j \in 1..Len(s) : s[j].id = x.id
           Step(s, i) == IF Skips(s, NormalizeHop(raws[i])) THEN s ELSE Append(s, NormalizeHop(raws[i]))
           loop == CHOOSE f : f = [i \in 0..n |-> IF i = 0 THEN <<>> ELSE Step(f[i - 1], i)]
<1>1. PICK X, T, e : X = {NormalizeHop(raws[i]) : i \in 1..n} /\ T = Seq(X) /\ e = <<>>
  OBVIOUS
<1>2. e \in T /\ \A i \in 1..n : NormalizeHop(raws[i]) \in X
  BY <1>1
<1>3. ASSUME NEW s \in T, NEW i \in 1..n PROVE Step(s, i) \in T
  <2>1. Append(s, NormalizeHop(raws[i])) \in T
    BY <1>1, <1>2
  <2>2. QED
    BY <2>1
<1>4. NormalizeHops(raws) = loop[n]
  BY DEF NormalizeHops
<1>5. ASSUME NEW s, NEW i \in 1..n
      PROVE  \/ Step(s, i) = s
             \/ /\ Step(s, i) = Append(s, NormalizeHop(raws[i]))
                /\ \A j \in 1..Len(s) : s[j].id # NormalizeHop(raws[i]).id
  OBVIOUS
<1> HIDE DEF Step
<1>6. PICK g : g = [s \in T |-> [i \in 1..n |-> Step(s, i)]]
  OBVIOUS
<1>7. g \in [T -> [1..n -> T]] /\ \A s \in T, i \in 1..n : g[s][i] = Step(s, i)
  BY <1>3, <1>6
<1>8. PICK f : Unrolls(f, T, e, g, n)
  BY <1>2, <1>7, Recursion
<1>9. f \in [0..n -> T] /\ f[0] = e /\ \A i \in 1..n : f[i] = g[f[i - 1]][i]
  BY <1>8 DEF Unrolls
<1>10. ASSUME NEW i \in 1..n PROVE f[i] = Step(f[i - 1], i)
  <2>1. i - 1 \in 0..n
    OBVIOUS
  <2>2. f[i - 1] \in T
    BY <1>9, <2>1
  <2>3. QED
    BY <1>7, <1>9, <2>2
<1>11. f = [i \in 0..n |-> IF i = 0 THEN <<>> ELSE Step(f[i - 1], i)]
  <2>1. \A i \in 0..n : f[i] = IF i = 0 THEN <<>> ELSE Step(f[i - 1], i)
    BY <1>1, <1>9, <1>10
  <2>2. QED
    BY <1>9, <2>1
<1>12. loop = [i \in 0..n |-> IF i = 0 THEN <<>> ELSE Step(loop[i - 1], i)]
  BY <1>11
<1>13. PICK k : k = loop
  OBVIOUS
<1> HIDE DEF loop
<1>14. k[0] = e /\ \A i \in 1..n : k[i] = Step(k[i - 1], i)
  BY <1>1, <1>12, <1>13
<1> DEFINE G == {i \in 0..n : k[i] \in T /\ Apart(k[i])}
<1>15. 0 \in G
  <2>1. 1..Len(e) = {}
    BY <1>1
  <2>2. Apart(e)
    BY <2>1 DEF Apart
  <2>3. QED
    BY <1>2, <1>14, <2>2
<1>16. ASSUME NEW i \in 1..n, i - 1 \in G PROVE i \in G
  <2>1. PICK s : s = k[i - 1]
    OBVIOUS
  <2>2. s \in T /\ Apart(s) /\ k[i] = Step(s, i) /\ i \in 0..n
    BY <1>14, <1>16, <2>1
  <2>3. PICK x : x = NormalizeHop(raws[i])
    OBVIOUS
  <2>4. x \in X
    BY <1>2, <2>3
  <2>5. Step(s, i) \in T
    BY <1>3, <2>2
  <2>6. Apart(Step(s, i))
    <3>1. CASE Step(s, i) = s
      BY <2>2, <3>1
    <3>2. CASE Step(s, i) = Append(s, x) /\ \A j \in 1..Len(s) : s[j].id # x.id
      BY <1>1, <2>2, <2>4, <3>2, AppendApart
    <3>3. QED
      BY <1>5, <2>3, <3>1, <3>2
  <2>7. QED
    BY <2>2, <2>5, <2>6
<1>17. n \in G
  <2> HIDE DEF G
  <2>1. \A i \in 0..n : i \in G
    BY <1>15, <1>16, Inductive
  <2>2. QED
    BY <2>1
<1>18. QED
  BY <1>1, <1>4, <1>13, <1>17

(* OrderedReqIDsForTracePosts: every req_id once, the primary's last. *)

Ids(hs) == {hs[i].id : i \in 1..Len(hs)}

Once(s) == \A i, j \in 1..Len(s) : s[i] = s[j] => i = j

Has(s, x) == \E i \in 1..Len(s) : s[i] = x

LEMMA AppendOnce ==
  ASSUME NEW X, NEW s \in Seq(X), NEW x \in X
  PROVE  /\ Once(s) /\ ~Has(s, x) => Once(Append(s, x))
         /\ \A y : Has(Append(s, x), y) <=> Has(s, y) \/ y = x
<1>1. PICK n, t : n = Len(s) /\ t = Append(s, x)
  OBVIOUS
<1>2. n \in Nat /\ Len(t) = n + 1 /\ t[n + 1] = x /\ \A i \in 1..n : t[i] = s[i]
  BY <1>1
<1>3. /\ \A i \in 1..(n + 1) : i \in 1..n \/ i = n + 1
      /\ \A i \in 1..n : i \in 1..(n + 1)
      /\ n + 1 \in 1..(n + 1)
  BY <1>2
<1>4. ASSUME Once(s), ~Has(s, x), NEW i \in 1..(n + 1), NEW j \in 1..(n + 1), t[i] = t[j] PROVE i = j
  <2>1. CASE i \in 1..n /\ j \in 1..n
    BY <1>1, <1>2, <1>4, <2>1 DEF Once
  <2>2. CASE i \in 1..n /\ j = n + 1
    BY <1>1, <1>2, <1>4, <2>2 DEF Has
  <2>3. CASE i = n + 1 /\ j \in 1..n
    BY <1>1, <1>2, <1>4, <2>3 DEF Has
  <2>4. QED
    BY <1>3, <2>1, <2>2, <2>3
<1>5. Once(s) /\ ~Has(s, x) => Once(t)
  BY <1>2, <1>4 DEF Once
<1>6. ASSUME NEW y PROVE Has(t, y) <=> Has(s, y) \/ y = x
  <2>1. Has(t, y) <=> \E i \in 1..(n + 1) : t[i] = y
    BY <1>2 DEF Has
  <2>2. Has(s, y) <=> \E i \in 1..n : t[i] = y
    BY <1>1, <1>2 DEF Has
  <2>3. QED
    BY <1>2, <1>3, <2>1, <2>2
<1>7. QED
  BY <1>1, <1>5, <1>6

\* The req_ids of the first m hops but the primary's.
Others(s, hs, m, p) ==
  Once(s) /\ \A y : Has(s, y) <=> y # p /\ \E j \in 1..m : hs[j].id = y

LEMMA PostOrderIs ==
  ASSUME NEW hs, NEW n \in Nat \ {0}, n = Len(hs), DOMAIN hs = 1..n, Apart(hs),
         NEW p, p = SelectPrimaryHop(hs).id
  PROVE  LET o == PostOrder(hs)
         IN  /\ o \in Seq(Ids(hs)) /\ o # <<>> /\ o[Len(o)] = p
             /\ Once(o) /\ \A y \in Ids(hs) : Has(o, y)
<1> DEFINE Step(s, i) == IF hs[i].id = p THEN s ELSE Append(s, hs[i].id)
           loop == CHOOSE f : f = [i \in 0..n |-> IF i = 0 THEN <<>> ELSE Step(f[i - 1], i)]
<1>1. PICK X, T, e : X = Ids(hs) /\ T = Seq(X) /\ e = <<>>
  OBVIOUS
<1>2. e \in T /\ \A i \in 1..n : hs[i].id \in X
  BY <1>1 DEF Ids
<1>3. ASSUME NEW s \in T, NEW i \in 1..n PROVE Step(s, i) \in T
  <2>1. Append(s, hs[i].id) \in T
    BY <1>1, <1>2
  <2>2. QED
    BY <2>1
<1>4. PostOrder(hs) = Append(loop[n], p)
  <2>1. hs # <<>>
    OBVIOUS
  <2>2. QED
    BY <2>1 DEF PostOrder
<1>5. ASSUME NEW s, NEW i \in 1..n
      PROVE  \/ hs[i].id = p /\ Step(s, i) = s
             \/ hs[i].id # p /\ Step(s, i) = Append(s, hs[i].id)
  OBVIOUS
<1> HIDE DEF Step
<1>6. PICK g : g = [s \in T |-> [i \in 1..n |-> Step(s, i)]]
  OBVIOUS
<1>7. g \in [T -> [1..n -> T]] /\ \A s \in T, i \in 1..n : g[s][i] = Step(s, i)
  BY <1>3, <1>6
<1>8. PICK f : Unrolls(f, T, e, g, n)
  BY <1>2, <1>7, Recursion
<1>9. f \in [0..n -> T] /\ f[0] = e /\ \A i \in 1..n : f[i] = g[f[i - 1]][i]
  BY <1>8 DEF Unrolls
<1>10. ASSUME NEW i \in 1..n PROVE f[i] = Step(f[i - 1], i)
  <2>1. i - 1 \in 0..n
    OBVIOUS
  <2>2. f[i - 1] \in T
    BY <1>9, <2>1
  <2>3. QED
    BY <1>7, <1>9, <2>2
<1>11. f = [i \in 0..n |-> IF i = 0 THEN <<>> ELSE Step(f[i - 1], i)]
  <2>1. \A i \in 0..n : f[i] = IF i = 0 THEN <<>> ELSE Step(f[i - 1], i)
    BY <1>1, <1>9, <1>10
  <2>2. QED
    BY <1>9, <2>1
<1>12. loop = [i \in 0..n |-> IF i = 0 THEN <<>> ELSE Step(loop[i - 1], i)]
  BY <1>11
<1>13. PICK k : k = loop
  OBVIOUS
<1> HIDE DEF loop
<1>14. k[0] = e /\ \A i \in 1..n : k[i] = Step(k[i - 1], i)
  BY <1>1, <1>12, <1>13
<1> DEFINE G == {i \in 0..n : k[i] \in T /\ Others(k[i], hs, i, p)}
<1>15. 0 \in G
  <2>1. 1..Len(e) = {}
    BY <1>1
  <2>2. Others(e, hs, 0, p)
    BY <2>1 DEF Others, Once, Has
  <2>3. QED
    BY <1>2, <1>14, <2>2
<1>16. ASSUME NEW i \in 1..n, i - 1 \in G PROVE i \in G
  <2>1. PICK s : s = k[i - 1]
    OBVIOUS
  <2>2. s \in T /\ Others(s, hs, i - 1, p) /\ k[i] = Step(s, i) /\ i \in 0..n
    BY <1>14, <1>16, <2>1
  <2>3. PICK x : x = hs[i].id
    OBVIOUS
  <2>4. x \in X
    BY <1>2, <2>3
  <2>5. Step(s, i) \in T
    BY <1>3, <2>2
  <2>6. \A y : (\E j \in 1..i : hs[j].id = y) <=> (y = x \/ \E j \in 1..(i - 1) : hs[j].id = y)
    <3>1. \A j \in 1..i : j \in 1..(i - 1) \/ j = i
      OBVIOUS
    <3>2. i \in 1..i /\ \A j \in 1..(i - 1) : j \in 1..i
      OBVIOUS
    <3>3. QED
      BY <2>3, <3>1, <3>2
  <2>7. ~Has(s, x)
    <3>1. ASSUME NEW j \in 1..(i - 1), hs[j].id = x PROVE FALSE
      <4>1. j \in 1..n /\ i \in 1..n /\ j # i
        OBVIOUS
      <4>2. QED
        BY <2>3, <3>1, <4>1 DEF Apart
    <3>2. QED
      BY <2>2, <3>1 DEF Others
  <2>8. Others(Step(s, i), hs, i, p)
    <3>1. CASE x = p /\ Step(s, i) = s
      BY <2>2, <2>6, <3>1 DEF Others
    <3>2. CASE x # p /\ Step(s, i) = Append(s, x)
      <4>1. Once(Append(s, x)) /\ \A y : Has(Append(s, x), y) <=> Has(s, y) \/ y = x
        BY <1>1, <2>2, <2>4, <2>7, AppendOnce DEF Others
      <4>2. PICK t : t = Append(s, x)
        OBVIOUS
      <4>3. Others(t, hs, i, p)
        BY <2>2, <2>6, <3>2, <4>1, <4>2 DEF Others
      <4>4. QED
        BY <3>2, <4>2, <4>3
    <3>3. QED
      BY <1>5, <2>3, <3>1, <3>2
  <2>9. QED
    BY <2>2, <2>5, <2>8
<1>17. n \in G
  <2> HIDE DEF G
  <2>1. \A i \in 0..n : i \in G
    BY <1>15, <1>16, Inductive
  <2>2. QED
    BY <2>1
<1>18. PICK s : s = k[n]
  OBVIOUS
<1>19. s \in Seq(X) /\ Others(s, hs, n, p)
  BY <1>1, <1>17, <1>18
<1>20. p \in X
  <2>1. PICK i : Best(hs, i, n) /\ SelectPrimaryHop(hs) = hs[i]
    BY PrimaryIsBest
  <2>2. i \in 1..n
    BY <2>1 DEF Best
  <2>3. QED
    BY <1>2, <2>1, <2>2
<1>21. PICK o : o = Append(s, p)
  OBVIOUS
<1>22. o \in Seq(X) /\ o # <<>> /\ o[Len(o)] = p
  BY <1>19, <1>20, <1>21
<1>23. Once(o) /\ \A y : Has(o, y) <=> Has(s, y) \/ y = p
  BY <1>19, <1>20, <1>21, AppendOnce DEF Others
<1>24. \A y \in X : Has(o, y)
  BY <1>1, <1>19, <1>23 DEF Others, Ids
<1>25. PostOrder(hs) = o
  BY <1>4, <1>13, <1>18, <1>21
<1>26. QED
  BY <1>1, <1>22, <1>23, <1>24, <1>25

(* The posts *)

\* The posts still to make, the req_ids stored, and the ones that failed.
Posts(o, d, f, X, p) ==
  /\ Once(o) /\ Once(d) /\ \A y : ~(Has(o, y) /\ Has(d, y))
  /\ \A y \in X : y \in f \/ Has(o, y) \/ Has(d, y)
  /\ o # <<>> => o[Len(o)] = p
  /\ o = <<>> => p \in f \/ (d # <<>> /\ d[Len(d)] = p)

NotWired == "session client not wired" \in failed

HopsIInv ==
  tpc = "posting" =>
    /\ Len(hops) \in Nat \ {0} /\ DOMAIN hops = 1..Len(hops)
    /\ order \in Seq(Ids(hops)) /\ doc \in Seq(Ids(hops))
    /\ \/ NotWired /\ order = <<>>
       \/ Posts(order, doc, failed, Ids(hops), SelectPrimaryHop(hops).id)

LEMMA TailHas ==
  ASSUME NEW X, NEW o \in Seq(X), o # <<>>
  PROVE  /\ Tail(o) \in Seq(X) /\ Head(o) \in X
         /\ \A y : Has(o, y) <=> y = Head(o) \/ Has(Tail(o), y)
         /\ Once(o) => Once(Tail(o)) /\ ~Has(Tail(o), Head(o))
         /\ Tail(o) # <<>> => Tail(o)[Len(Tail(o))] = o[Len(o)]
         /\ Tail(o) = <<>> => Head(o) = o[Len(o)]
<1>1. PICK q, h, n : q = Tail(o) /\ h = Head(o) /\ n = Len(q)
  OBVIOUS
<1>2. q \in Seq(X) /\ h \in X /\ n \in Nat /\ Len(o) = n + 1
  BY <1>1
<1>3. o[1] = h /\ \A i \in 1..n : q[i] = o[i + 1] /\ i + 1 \in 1..(n + 1)
  BY <1>1, <1>2
<1>4. \A i \in 1..(n + 1) : i = 1 \/ i - 1 \in 1..n
  BY <1>2
<1>5. 1 \in 1..(n + 1) /\ \A i \in 1..(n + 1) : i \in Int /\ (i - 1) + 1 = i
  BY <1>2
<1>6. ASSUME NEW y PROVE Has(o, y) <=> y = h \/ Has(q, y)
  <2>1. Has(o, y) <=> \E i \in 1..(n + 1) : o[i] = y
    BY <1>2 DEF Has
  <2>2. Has(q, y) <=> \E i \in 1..n : o[i + 1] = y
    BY <1>1, <1>3 DEF Has
  <2>3. ASSUME NEW i \in 1..(n + 1), o[i] = y PROVE y = h \/ Has(q, y)
    <3>1. CASE i = 1
      BY <1>3, <2>3, <3>1
    <3>2. CASE i - 1 \in 1..n
      <4>1. PICK j \in 1..n : j + 1 = i
        BY <1>5, <3>2
      <4>2. QED
        BY <2>2, <2>3, <4>1
    <3>3. QED
      BY <1>4, <3>1, <3>2
  <2>4. QED
    BY <1>3, <1>5, <2>1, <2>2, <2>3
<1>7. ASSUME Once(o) PROVE Once(q) /\ ~Has(q, h)
  <2>1. \A i, j \in 1..(n + 1) : o[i] = o[j] => i = j
    BY <1>2, <1>7 DEF Once
  <2>2. ASSUME NEW i \in 1..n, NEW j \in 1..n, q[i] = q[j] PROVE i = j
    <3>1. i + 1 = j + 1
      BY <1>3, <2>1, <2>2
    <3>2. QED
      BY <1>2, <3>1
  <2>3. ASSUME NEW i \in 1..n, q[i] = h PROVE FALSE
    <3>1. i + 1 = 1
      BY <1>3, <1>5, <2>1, <2>3
    <3>2. QED
      BY <1>2, <3>1
  <2>4. QED
    BY <1>1, <2>2, <2>3 DEF Once, Has
<1>8. q # <<>> => q[n] = o[n + 1]
  <2>1. q # <<>> => n \in 1..n
    BY <1>1, <1>2
  <2>2. QED
    BY <1>3, <2>1
<1>9. q = <<>> => h = o[n + 1]
  <2>1. q = <<>> => n = 0
    BY <1>1
  <2>2. QED
    BY <1>3, <2>1
<1>10. QED
  BY <1>1, <1>2, <1>6, <1>7, <1>8, <1>9

\* One POST: stored, or failed, or both, when its answer was lost.
LEMMA PostKeeps ==
  ASSUME NEW X, NEW o \in Seq(X), NEW d \in Seq(X), NEW f, NEW p, o # <<>>, Posts(o, d, f, X, p),
         NEW e, NEW f2, f \subseteq f2,
         (e = d /\ Head(o) \in f2) \/ e = Append(d, Head(o))
  PROVE  Tail(o) \in Seq(X) /\ e \in Seq(X) /\ Posts(Tail(o), e, f2, X, p)
<1>1. PICK q, h : q = Tail(o) /\ h = Head(o)
  OBVIOUS
<1>2. /\ q \in Seq(X) /\ h \in X
      /\ \A y : Has(o, y) <=> y = h \/ Has(q, y)
      /\ Once(q) /\ ~Has(q, h)
      /\ q # <<>> => q[Len(q)] = p
      /\ q = <<>> => h = p
  BY <1>1, TailHas DEF Posts
<1>3. /\ Once(d) /\ ~Has(d, h) /\ \A y : ~(Has(q, y) /\ Has(d, y))
      /\ \A y \in X : y \in f2 \/ y = h \/ Has(q, y) \/ Has(d, y)
  BY <1>2 DEF Posts
<1>4. CASE e = d /\ h \in f2
  <2>1. Posts(q, d, f2, X, p)
    BY <1>2, <1>3, <1>4 DEF Posts
  <2>2. QED
    BY <1>1, <1>2, <1>4, <2>1
<1>5. CASE e = Append(d, h)
  <2>1. e \in Seq(X) /\ e # <<>> /\ e[Len(e)] = h
    BY <1>2, <1>5
  <2>2. Once(e) /\ \A y : Has(e, y) <=> Has(d, y) \/ y = h
    BY <1>2, <1>3, <1>5, AppendOnce
  <2>3. \A y : ~(Has(q, y) /\ Has(e, y))
    BY <1>2, <1>3, <2>2
  <2>4. \A y \in X : y \in f2 \/ Has(q, y) \/ Has(e, y)
    BY <1>3, <2>2
  <2>5. Posts(q, e, f2, X, p)
    BY <1>2, <2>1, <2>2, <2>3, <2>4 DEF Posts
  <2>6. QED
    BY <1>1, <1>2, <2>1, <2>5
<1>6. QED
  BY <1>1, <1>4, <1>5

LEMMA TraceStarts ==
  ASSUME NEW calls \in CallLists, NEW wired \in BOOLEAN, Trace(calls, wired)
  PROVE  HopsIInv'
<1>1. PICK n, raws : n = Len(calls) /\ raws = [i \in DOMAIN calls |-> HopRec(calls[i])]
  OBVIOUS
<1>2. n \in Nat /\ DOMAIN calls = 1..n
  BY <1>1, CallListsAssumption
<1>3. n = Len(raws)
  BY <1>1, <1>2
<1>4. PICK hs : hs = NormalizeHops(raws)
  OBVIOUS
<1>5. PICK X : hs \in Seq(X) /\ Apart(hs)
  BY <1>2, <1>3, <1>4, NormalizedAreApart
<1>6. /\ hs # <<>> /\ hops' = hs /\ doc' = <<>>
      /\ wired => order' = PostOrder(hs)
      /\ ~wired => order' = <<>> /\ NotWired'
  BY <1>1, <1>4 DEF Trace, NotWired
<1>7. PICK m : m = Len(hs)
  OBVIOUS
<1>8. m \in Nat \ {0} /\ DOMAIN hs = 1..m
  BY <1>5, <1>6, <1>7
<1>9. PICK p, o : p = SelectPrimaryHop(hs).id /\ o = PostOrder(hs)
  OBVIOUS
<1>10. /\ o \in Seq(Ids(hs)) /\ o # <<>> /\ o[Len(o)] = p
       /\ Once(o) /\ \A y \in Ids(hs) : Has(o, y)
  BY <1>5, <1>7, <1>8, <1>9, PostOrderIs
<1>e. PICK d : d = <<>>
  OBVIOUS
<1>11. d = <<>> /\ d \in Seq(Ids(hs)) /\ 1..Len(d) = {}
  BY <1>e
<1>12. Once(d) /\ \A y : ~Has(d, y)
  BY <1>11 DEF Once, Has
<1>13. Posts(o, d, failed', Ids(hs), p)
  BY <1>10, <1>12 DEF Posts
<1>14. CASE wired
  BY <1>6, <1>7, <1>8, <1>9, <1>10, <1>11, <1>13, <1>14 DEF HopsIInv
<1>15. CASE ~wired
  BY <1>6, <1>7, <1>8, <1>11, <1>15 DEF HopsIInv
<1>16. QED
  BY <1>14, <1>15

LEMMA PostsGoOn ==
  ASSUME HopsIInv, NEW stored \in BOOLEAN, NEW answered \in BOOLEAN, NEW over \in BOOLEAN,
         PostTrace(stored, answered, over)
  PROVE  HopsIInv'
<1>1. /\ tpc = "posting" /\ order # <<>> /\ hops' = hops /\ order' = Tail(order)
      /\ failed' = IF stored /\ answered THEN failed ELSE failed \cup {Head(order)}
  BY DEF PostTrace
<1>2. PICK X, p : X = Ids(hops) /\ p = SelectPrimaryHop(hops).id
  OBVIOUS
<1>3. /\ order \in Seq(X) /\ doc \in Seq(X) /\ Posts(order, doc, failed, X, p)
      /\ Len(hops) \in Nat \ {0} /\ DOMAIN hops = 1..Len(hops)
  BY <1>1, <1>2 DEF HopsIInv
<1>4. failed \subseteq failed' /\ (~stored => Head(order) \in failed')
  BY <1>1
<1>5. /\ stored => doc' = Append(doc, Head(order))
      /\ ~stored => doc' = doc
  BY DEF PostTrace, ServerKeepsTrace
<1>6. Tail(order) \in Seq(X) /\ doc' \in Seq(X) /\ Posts(Tail(order), doc', failed', X, p)
  BY <1>1, <1>3, <1>4, <1>5, PostKeeps
<1>7. QED
  BY <1>1, <1>2, <1>3, <1>6 DEF HopsIInv

LEMMA HopsStep == HopsIInv /\ [TraceNext]_allVars => HopsIInv'
<1> SUFFICES ASSUME HopsIInv, [TraceNext]_allVars PROVE HopsIInv'
  OBVIOUS
<1>1. ASSUME UNCHANGED <<tpc, hops, order, doc, failed>> PROVE HopsIInv'
  BY <1>1 DEF HopsIInv, NotWired
<1>2. ASSUME tpc' = "idle" PROVE HopsIInv'
  BY <1>2 DEF HopsIInv
<1>3. CASE Turn
  BY <1>1, <1>3 DEF Turn
<1>4. CASE TraceReturns
  BY <1>2, <1>4 DEF TraceReturns
<1>5. CASE ForgetWhileTracing \/ UNCHANGED allVars
  BY <1>1, <1>5 DEF ForgetWhileTracing, allVars, traceVars
<1>6. QED
  BY <1>3, <1>4, <1>5, TraceStarts, PostsGoOn DEF TraceNext

LEMMA HopsAreEnough == HopsIInv => PrimaryIsEarliestBest /\ RoundEndsOnPrimary
<1> SUFFICES ASSUME HopsIInv, tpc = "posting"
             PROVE  PrimaryIsEarliestBest /\ RoundEndsOnPrimary
  BY DEF PrimaryIsEarliestBest, RoundEndsOnPrimary
<1>1. PICK n, q : n = Len(hops) /\ q = SelectPrimaryHop(hops)
  OBVIOUS
<1>2. n \in Nat \ {0} /\ DOMAIN hops = 1..n
  BY <1>1 DEF HopsIInv
<1>3. PICK i : Best(hops, i, n) /\ q = hops[i]
  BY <1>1, <1>2, PrimaryIsBest
<1>4. /\ i \in 1..n
      /\ \A j \in 1..n : Weight(hops[j]) <= Weight(q)
      /\ \A j \in 1..(i - 1) : Weight(hops[j]) < Weight(q)
  BY <1>3 DEF Best
<1>5. (\E j \in 1..n : ~StatusOK(hops[j].status)) <=> ~StatusOK(q.status)
  <2>1. ASSUME NEW j \in 1..n, ~StatusOK(hops[j].status), StatusOK(q.status) PROVE FALSE
    <3>1. Weight(hops[j]) >= 32 /\ Weight(q) < 32 /\ Weight(hops[j]) \in Nat /\ Weight(q) \in Nat
      BY <2>1, Weights
    <3>2. Weight(hops[j]) <= Weight(q)
      BY <1>4
    <3>3. QED
      BY <3>1, <3>2
  <2>2. QED
    BY <1>3, <1>4, <2>1
<1>6. (Outcome(hops) = "error") = ~StatusOK(q.status)
  BY <1>2, <1>5 DEF Outcome
<1>7. PrimaryIsEarliestBest
  <2>1. \E k \in DOMAIN hops :
          /\ hops[k] = q
          /\ \A j \in DOMAIN hops : Weight(hops[j]) <= Weight(q)
          /\ \A j \in 1..(k - 1) : Weight(hops[j]) < Weight(q)
    BY <1>2, <1>3, <1>4
  <2>2. QED
    BY <1>1, <1>6, <2>1 DEF PrimaryIsEarliestBest
<1>8. ASSUME order = <<>>, ~NotWired
      PROVE  /\ \A k \in DOMAIN hops : hops[k].id \notin failed =>
                  Cardinality({j \in DOMAIN doc : doc[j] = hops[k].id}) = 1
             /\ q.id \notin failed => Last(doc) = q.id
  <2>1. PICK X : X = Ids(hops)
    OBVIOUS
  <2>2. doc \in Seq(X) /\ Posts(order, doc, failed, X, q.id)
    BY <1>1, <1>8, <2>1 DEF HopsIInv
  <2>3. \A y : ~Has(order, y)
    <3>1. 1..Len(order) = {}
      BY <1>8
    <3>2. QED
      BY <3>1 DEF Has
  <2>4. ASSUME NEW k \in DOMAIN hops, hops[k].id \notin failed
        PROVE  Cardinality({j \in DOMAIN doc : doc[j] = hops[k].id}) = 1
    <3>1. PICK y : y = hops[k].id
      OBVIOUS
    <3>2. y \in X
      BY <1>1, <1>2, <2>1, <3>1 DEF Ids
    <3>3. Has(doc, y) /\ Once(doc)
      BY <2>2, <2>3, <2>4, <3>1, <3>2 DEF Posts
    <3>4. PICK j \in 1..Len(doc) : doc[j] = y
      BY <3>3 DEF Has
    <3>5. \A l \in 1..Len(doc) : doc[l] = y => l = j
      BY <3>3, <3>4 DEF Once
    <3>6. DOMAIN doc = 1..Len(doc)
      BY <2>2
    <3>7. {l \in DOMAIN doc : doc[l] = y} = {j}
      BY <3>4, <3>5, <3>6
    <3>8. QED
      BY <3>1, <3>7, FS_Singleton
  <2>5. q.id \notin failed => Last(doc) = q.id
    BY <1>8, <2>2 DEF Posts, Last
  <2>6. QED
    BY <2>4, <2>5
<1>9. RoundEndsOnPrimary
  BY <1>1, <1>8 DEF RoundEndsOnPrimary, NotWired
<1>10. QED
  BY <1>7, <1>9

(***************************************************************************)
(* A trace joins the right hop of the right round of the right turn, for   *)
(* any number of hops and whatever posts fail: the primary hop is the      *)
(* earliest of the highest score, every req_id without an error is stored  *)
(* once, and the round's document ends on the primary unless its own POST  *)
(* failed (ProjectSessionTrace of session_trace.go).                       *)
(***************************************************************************)
THEOREM TracesAreRight == TraceSpec => []TraceInv
<1>1. TraceInit => HopsIInv
  BY DEF TraceInit, HopsIInv
<1>2. HopsIInv /\ [TraceNext]_allVars => HopsIInv'
  BY HopsStep
<1>3. HopsIInv /\ TraceOnOwnRound => TraceInv
  BY HopsAreEnough DEF TraceInv
<1>4. QED
  BY <1>1, <1>2, <1>3, TracesAreOnTheirRound, PTL DEF TraceSpec
=============================================================================
