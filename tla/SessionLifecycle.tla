-------------------------- MODULE SessionLifecycle --------------------------
(***************************************************************************)
(* Durable chat sessions:                                                  *)
(*   src/application/session_lifecycle.go  Setup, create, Commit           *)
(*   src/adapters/zeushttp/session.go      Create, Rehydrate, ContinueTurn *)
(*   src/domain/session.go                 the handle, contract status     *)
(*   src/api/session.go                    Setup, Commit                   *)
(*                                                                         *)
(* A host runs the turns of one chat, one after the other.  A turn is a    *)
(* Setup with the handle of the turn before (create a session, rehydrate   *)
(* it, or recreate one that is gone) and then Commits of what the turn     *)
(* produced.  A request may be lost on the way, or its answer on the way   *)
(* back; the host may give a turn up, or commit again.  The server is      *)
(* external: it mints the ids, keeps per session a round and the turns     *)
(* posted to it, and may forget a session.                                 *)
(***************************************************************************)
EXTENDS Naturals

CONSTANTS Modes,      \* X-Zeus mode of a turn
          MaxTurns,   \* bound: turns of the chat
          MaxSids,    \* bound: sessions the server mints
          MaxTries,   \* bound: commits of one turn
          MaxHash     \* bound: the contract hash of the host's pack changes

ASSUME SessionAssumption ==
  /\ {MaxTurns, MaxSids, MaxTries, MaxHash} \subseteq Nat
  /\ Modes # {} /\ "" \notin Modes

VARIABLES
  turn,      \* the number of the turn
  mode,      \* the mode of the turn
  pc,        \* where the host is in the turn
  prior,     \* the handle that the host kept from the turn before
  handle,    \* the handle of this turn: what Setup or Commit returned last
  from,      \* recoveredFrom of the create in progress
  delta,     \* ProducedDelta of the commit in progress: the roles in it
  tries,     \* commits of this turn
  packHash,  \* the contract hash of the host's chat request, a version
  sessions,  \* server
  minted     \* server: sessions 1..minted exist

hostVars == <<turn, mode, prior, packHash>>
serverVars == <<sessions, minted>>
vars == <<turn, mode, pc, prior, handle, from, delta, tries, packHash, sessions, minted>>
-----------------------------------------------------------------------------
NoSid == 0
Sids == 0..MaxSids
Turns == 0..MaxTurns
Hashes == 0..MaxHash
Rounds == 0..(MaxTurns + 2)
Headers == Modes \cup {""}
Statuses == {"none", "match", "drift"}
ServerStatuses == {"", "ok", "match", "drift"}
Roles == {"user", "assistant"}

\* domain.SessionHandle, the fields that decisions depend on.
Handle == [sid : Sids, round : Rounds, created : BOOLEAN, enabled : BOOLEAN,
           mode : Headers, status : Statuses, recovered : Sids]

\* opts.Prior = nil: the handle of a host that has none.
NoHandle == [sid |-> NoSid, round |-> 0, created |-> FALSE, enabled |-> FALSE, mode |-> "",
             status |-> "none", recovered |-> NoSid]

\* One posted turn, and whether the user's message is in it.
Entry == [round : Rounds, turn : Turns, user : BOOLEAN]

Session == [alive : BOOLEAN, round : Rounds, hash : Hashes, mode : Headers,
            log : SUBSET Entry]

NotMinted == [alive |-> FALSE, round |-> 0, hash |-> 0, mode |-> "", log |-> {}]

Places == {"between", "rehydrating", "creating", "running", "committing"}

TypeOK ==
  /\ turn \in Turns /\ mode \in Headers /\ pc \in Places
  /\ prior \in Handle /\ handle \in Handle
  /\ from \in Sids
  /\ delta \in SUBSET Roles
  /\ tries \in 0..MaxTries
  /\ packHash \in Hashes
  /\ minted \in Sids
  /\ sessions \in [1..MaxSids -> Session]

Init ==
  /\ turn = 0 /\ mode = "" /\ pc = "between"
  /\ prior = NoHandle /\ handle = NoHandle
  /\ from = NoSid /\ delta = {} /\ tries = 0 /\ packHash = 0
  /\ sessions = [s \in 1..MaxSids |-> NotMinted]
  /\ minted = 0
-----------------------------------------------------------------------------
(* Setup *)

\* Setup until its first request: disabled, a mode switch, a prior id, or none.  The
\* host has named its contract, or runs without.
Setup(m, enable, named) ==
  /\ pc = "between" /\ turn < MaxTurns
  /\ turn' = turn + 1
  /\ mode' = m
  /\ tries' = 0
  /\ from' = NoSid
  /\ IF ~enable
     THEN /\ handle' = [NoHandle EXCEPT !.round = 1, !.mode = m,
                                          !.status = IF named THEN "match" ELSE "none"]
          /\ pc' = "running"
     ELSE /\ handle' = NoHandle
          /\ pc' = IF prior.sid = NoSid \/ (prior.mode # "" /\ prior.mode # m)
                   THEN "creating" ELSE "rehydrating"
  /\ UNCHANGED <<prior, delta, packHash, serverVars>>

\* Mutant: the host's own round comes first.
JsonInt_PriorFirst(v, def) == IF def = 0 THEN v ELSE def

\* jsonInt: an absent or zero number is the default.
JsonInt(v, def) == IF v = 0 THEN def ELSE v

\* The round of a turn on a rehydrated session: the one after the server's.
NextRound(r) == IF r > 0 THEN r + 1 ELSE 1

\* ContractStatusFromRehydrate: the contract is named by the host or the answer, and
\* both have a hash to compare.  Without one, any session matches.
ContractStatus(s, named, hashed) ==
  CASE ~named -> "none"
    [] named /\ hashed -> IF sessions[s].hash = packHash THEN "match" ELSE "drift"
    [] OTHER -> "match"

\* The session is there: the turn continues it, one round after the server's.
Rehydrate(named, hashed) ==
  /\ pc = "rehydrating"
  /\ sessions[prior.sid].alive
  /\ handle' = [sid |-> prior.sid,
                round |-> NextRound(JsonInt(sessions[prior.sid].round, prior.round)),
                created |-> FALSE, enabled |-> TRUE, mode |-> mode,
                status |-> ContractStatus(prior.sid, named, hashed), recovered |-> NoSid]
  /\ pc' = "running"
  /\ UNCHANGED <<hostVars, from, delta, tries, serverVars>>

\* Not 200, or no answer at all: the same turn goes on with a new session.
RehydrateFails ==
  /\ pc = "rehydrating"
  /\ from' = prior.sid
  /\ pc' = "creating"
  /\ UNCHANGED <<hostVars, handle, delta, tries, serverVars>>

\* Setup fails before its request is sent (no credentials, a closed client, a
\* cancelled context): the error comes with the zero handle.
SetupErrors(keep) ==
  /\ pc \in {"rehydrating", "creating"}
  /\ handle' = NoHandle
  /\ prior' = IF keep THEN prior ELSE NoHandle
  /\ pc' = "between"
  /\ UNCHANGED <<turn, mode, packHash, from, delta, tries, serverVars>>

\* POST /v2/session: the conversation is the user's message, no id is sent.
CreateRequest == [hash |-> packHash, turn |-> turn, user |-> TRUE, mode |-> mode]

\* External: the server mints an id and stores the user's message as round 1.
ServerCreates ==
  /\ minted < MaxSids
  /\ minted' = minted + 1
  /\ sessions' = [sessions EXCEPT ![minted + 1] =
       [alive |-> TRUE, round |-> 1, hash |-> CreateRequest.hash, mode |-> CreateRequest.mode,
        log |-> {[round |-> 1, turn |-> CreateRequest.turn, user |-> CreateRequest.user]}]]

\* NormalizeContractStatus: the server's verdict on the contract, if it gave one.
NormalizeContractStatus(raw) ==
  CASE raw = "" -> "none"
    [] raw = "ok" -> "match"
    [] OTHER -> raw

\* create: the server's answer arrives; it may lack the session_id, and the contract
\* status is whatever it says.
Create(given, raw) ==
  /\ pc = "creating"
  /\ ServerCreates
  /\ handle' = [sid |-> IF given THEN minted + 1 ELSE NoSid, round |-> 1,
                created |-> TRUE, enabled |-> TRUE, mode |-> mode,
                status |-> NormalizeContractStatus(raw), recovered |-> from]
  /\ pc' = "running"
  /\ UNCHANGED <<hostVars, from, delta, tries>>

\* create fails: refused, lost, or done by the server with its answer lost.  The
\* host gets an error and a handle without id; it keeps either handle.
CreateFails(done, keep) ==
  /\ pc = "creating"
  /\ IF done THEN ServerCreates ELSE UNCHANGED serverVars
  /\ handle' = [NoHandle EXCEPT !.round = 1, !.enabled = TRUE, !.mode = mode,
                                !.recovered = from]
  /\ prior' = IF keep THEN prior ELSE handle'
  /\ pc' = "between"
  /\ UNCHANGED <<turn, mode, packHash, from, delta, tries>>
-----------------------------------------------------------------------------
(* Commit *)

\* turnRound: a session created in this turn has its user message as a round.
TurnRound(h) == IF h.created THEN h.round + 1 ELSE h.round

\* Mutant: the user message is posted again after a create.
TurnTurns_KeepsUser(h, d) == d

\* turnTurns: the user message of a create is not posted again.
TurnTurns(h, d) == IF h.created THEN d \ {"user"} ELSE d

\* What Commit does to the handle when it returns OK.
Committed(h) == [h EXCEPT !.round = TurnRound(h), !.created = FALSE]

\* What Commit does to the handle when the POST fails.
CommitFailed(h) == h

\* Commit until its request: nothing to do, nothing to post, or the POST.
Commit(d) ==
  /\ pc = "running"
  /\ tries < MaxTries
  /\ tries = 0 \/ d = delta
  /\ tries' = tries + 1
  /\ delta' = d
  /\ CASE ~handle.enabled \/ handle.sid = NoSid ->
            prior' = handle /\ pc' = "between" /\ UNCHANGED handle
       [] (handle.enabled /\ handle.sid # NoSid) /\ TurnTurns(handle, d) = {} ->
            /\ handle' = Committed(handle)
            /\ prior' = handle'
            /\ pc' = "between"
       [] OTHER -> pc' = "committing" /\ UNCHANGED <<handle, prior>>
  /\ UNCHANGED <<turn, mode, packHash, from, serverVars>>

\* POST /v2/session/{id}/turn: the client's round and the turn's messages.  Its mode
\* header is an option of the commit (or the configured mode, or "analytics") and not
\* the handle's mode: it may be any, and is left out.
ContinueRequest == [round |-> TurnRound(handle), turn |-> turn,
                    user |-> "user" \in TurnTurns(handle, delta)]

\* External: the server keeps the turn under the client's round.
ServerStores ==
  /\ sessions[handle.sid].alive
  /\ sessions' = [sessions EXCEPT ![handle.sid].round = ContinueRequest.round,
                                  ![handle.sid].log = @ \cup {ContinueRequest}]
  /\ UNCHANGED minted

\* The POST succeeds: the host keeps the new handle for the next turn.
CommitOK ==
  /\ pc = "committing"
  /\ ServerStores
  /\ handle' = Committed(handle)
  /\ prior' = handle'
  /\ pc' = "between"
  /\ UNCHANGED <<turn, mode, packHash, from, delta, tries>>

\* The POST fails: refused (409, a dead session), lost, or stored with its answer
\* lost.  The handle keeps its round; the host commits again or goes on.
CommitFails(stored) ==
  /\ pc = "committing"
  /\ IF stored THEN ServerStores ELSE UNCHANGED serverVars
  /\ handle' = CommitFailed(handle)
  /\ pc' = "running"
  /\ UNCHANGED <<hostVars, from, delta, tries>>

\* The host gives the turn up, before its commit or after a failed one.
GiveUp ==
  /\ pc = "running"
  /\ prior' = handle
  /\ pc' = "between"
  /\ UNCHANGED <<turn, mode, packHash, handle, from, delta, tries, serverVars>>
-----------------------------------------------------------------------------
\* External: the server forgets a session (expiry, restart).
Forget(s) ==
  /\ s <= minted /\ sessions[s].alive
  /\ sessions' = [sessions EXCEPT ![s].alive = FALSE]
  /\ UNCHANGED <<hostVars, pc, handle, from, delta, tries, minted>>

\* The host loads another version of its pack between two turns.
PackChange ==
  /\ pc = "between" /\ packHash < MaxHash
  /\ packHash' = packHash + 1
  /\ UNCHANGED <<turn, mode, pc, prior, handle, from, delta, tries, serverVars>>

Next ==
  \/ \E m \in Modes, enable, named \in BOOLEAN : Setup(m, enable, named)
  \/ \E named, hashed \in BOOLEAN : Rehydrate(named, hashed)
  \/ RehydrateFails
  \/ \E keep \in BOOLEAN : SetupErrors(keep)
  \/ \E given \in BOOLEAN, raw \in ServerStatuses : Create(given, raw)
  \/ \E done, keep \in BOOLEAN : CreateFails(done, keep)
  \/ \E d \in SUBSET Roles : Commit(d)
  \/ CommitOK
  \/ \E stored \in BOOLEAN : CommitFails(stored)
  \/ GiveUp
  \/ \E s \in 1..MaxSids : Forget(s)
  \/ PackChange

Spec == Init /\ [][Next]_vars
-----------------------------------------------------------------------------
(* Properties *)

(***************************************************************************)
(* A round of a session belongs to one turn, whatever was lost: a commit   *)
(* whose answer was lost is not overwritten by the next turn, and a retry  *)
(* goes to the round of its first attempt.                                 *)
(***************************************************************************)
OneTurnPerRound ==
  \A s \in 1..minted : \A e, f \in sessions[s].log : e.round = f.round => e.turn = f.turn

(***************************************************************************)
(* The rounds of a session have no holes: a commit that posted nothing, or *)
(* was lost, does not make the next turn skip a round.                     *)
(***************************************************************************)
RoundsContiguous ==
  \A s \in 1..minted : {e.round : e \in sessions[s].log} = 1..sessions[s].round

(***************************************************************************)
(* The user's message of a turn is stored once in a session: in the create *)
(* or in a commit, and in one round only however often that is retried.    *)
(***************************************************************************)
UserMessageOnce ==
  \A s \in 1..minted : \A e, f \in sessions[s].log :
    e.user /\ f.user /\ e.turn = f.turn => e.round = f.round

(***************************************************************************)
(* "Mode switch = new session": a handle with an id is of the mode that    *)
(* its session was created in, whatever was lost, recreated or switched    *)
(* before.  The turns committed to it may still be sent in any mode: the   *)
(* header of a commit is its own (session_lifecycle.go:350-353).           *)
(***************************************************************************)
ModeSwitchIsNewSession ==
  \A h \in {prior, handle} : h.sid # NoSid => h.mode = sessions[h.sid].mode

(***************************************************************************)
(* "drift" on a continued session is no false alarm: the session was       *)
(* created, turns ago, with another contract than the host has now.  The   *)
(* converse does not hold: an answer without a hash reads "match", and a   *)
(* new session has the status that the server says.                        *)
(***************************************************************************)
DriftIsReal ==
  /\ pc \in {"running", "committing"} /\ handle.sid # NoSid
  /\ handle.status = "drift" /\ ~handle.created
  => sessions[handle.sid].hash # packHash

(***************************************************************************)
(* A session that was recreated in a turn names the one it replaces, and   *)
(* never itself; its log starts with that turn.                            *)
(***************************************************************************)
RecoveredFromEarlier ==
  handle.recovered # NoSid /\ handle.sid # NoSid =>
    /\ handle.recovered < handle.sid
    /\ \A e \in sessions[handle.sid].log : \A f \in sessions[handle.recovered].log :
         f.turn < e.turn

(***************************************************************************)
(* The invariant of a durable session: its rounds are its turns, one each  *)
(* and without holes, its handles are of its mode, and drift is real.      *)
(***************************************************************************)
SessionInv == /\ TypeOK /\ OneTurnPerRound /\ RoundsContiguous /\ RecoveredFromEarlier
              /\ ModeSwitchIsNewSession /\ DriftIsReal
=============================================================================
