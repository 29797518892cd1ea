-------------------------------- MODULE Relay --------------------------------
(***************************************************************************)
(* The relay at work on one account pool: chat requests (chatCompletions   *)
(* in internal/server/handler.go), passes over all accounts (the check-in  *)
(* and keep-alive of internal/scheduler and the quota refresh of the user  *)
(* API), device logins that add a credential each, and restarts.  Every    *)
(* call of the pool is one step; the HTTP calls in between take time, and  *)
(* anything may happen to the pool meanwhile.                              *)
(*                                                                         *)
(* Everything that happens to any pool may happen to this one: the         *)
(* scheduler looks after the administrator's, which the model list is      *)
(* fetched with, too; accounts are deleted by users through the API, and   *)
(* by the administrator by hand.  How EnsureDT decides is module           *)
(* Credential's subject; here it fails as "auth invalid" for a credential  *)
(* without tokens, may do so for a login the upstream has ended, and may   *)
(* fail otherwise at any time.                                             *)
(***************************************************************************)
EXTENDS Pool

CONSTANTS
  Request,        \* goroutines that serve chat requests
  Pass,           \* goroutines that go over all accounts
  Poll,           \* goroutines that complete device logins
  QuotaCooldown,  \* ticks of a cooldown after a pass found no quota left: 12h,
                  \* whatever HardCooldown is configured to be
  MaxRotate,      \* accounts tried for one request
  Good            \* accounts whose upstream never fails nor refuses

VARIABLES
  req,    \* the requests
  pass,   \* the passes
  flow,   \* the device logins being completed
  auth,   \* the auth directory: account -> the login in its file, or Absent
  dead,   \* the logins the upstream has ended
  crossed \* history: accounts whose file was last written between LoadFile()
          \* and Add() of a poll for them, or by login.sh, and since which the
          \* server has not started

relayVars == <<byUID, state, lastSaveFailed, req, pass, flow, auth, dead, crossed>>

ASSUME RotateAssumption == MaxRotate \in Nat \ {0}
ASSUME QuotaAssumption == QuotaCooldown \in Nat \ {0}
ASSUME GoodAssumption == Good \subseteq Uid
ASSUME FiniteAssumption == IsFiniteSet(Uid)
ASSUME NobodyAssumption == Absent \notin Uid \cup Login

Work == [acct: Uid \cup {Absent}, login: Login \cup {NoLogin}]
NoWork == [acct |-> Absent, login |-> NoLogin]

(* The credential pointer a goroutine takes from the pool. *)
Take(u) == [acct |-> u, login |-> byUID[u].c.login]

(* EnsureDT cannot succeed for ever with this credential. *)
Over(u, l) == l = NoLogin \/ <<u, l>> \in dead

(* The entry of an account at startup: what state.json has on it, and the   *)
(* credential in its auth file.                                             *)
Started(s, l, f) ==
  IF l = Absent THEN Revive(s) ELSE AddTo(Revive(s), [login |-> l, fp |-> f])

Idle == [pc |-> "idle", tried |-> {}, on |-> NoWork, out |-> "none"]
Resting == [pc |-> "idle", kind |-> "none", todo |-> {}, on |-> NoWork]
NoFlow == [pc |-> "idle", on |-> NoWork]

Init ==
  /\ auth \in [Uid -> Login \cup {Absent}]
  /\ \A u \in Good : auth[u] # Absent
  /\ \E f \in Fp : byUID = [u \in Uid |-> Started(Absent, auth[u], f)]
  /\ state = Persisted
  /\ lastSaveFailed = FALSE
  /\ req = [r \in Request |-> Idle]
  /\ pass = [j \in Pass |-> Resting]
  /\ flow = [p \in Poll |-> NoFlow]
  /\ dead = {}
  /\ crossed = {}

-----------------------------------------------------------------------------
(* Chat requests *)

Goto(r, pc) == req' = [req EXCEPT ![r].pc = pc, ![r].on = NoWork]
Finish(r, out) == req' = [req EXCEPT ![r] = [Idle EXCEPT !.pc = "done", !.out = out]]
OnlyReq == UNCHANGED <<byUID, state, lastSaveFailed, pass, flow, auth, dead, crossed>>
ReqAndPool == UNCHANGED <<pass, flow, auth, dead, crossed>>

Arrive(r) ==
  /\ req[r].pc \in {"idle", "done"}
  /\ IF PickSet(byUID, {}) = {}
     THEN Finish(r, "unavailable")
     ELSE req' = [req EXCEPT ![r] = [Idle EXCEPT !.pc = "models"]]
  /\ OnlyReq

(* effectiveModelMap(): the cached map or the built-in one, or else the     *)
(* best account is asked for the models; a failure only disables it.  What  *)
(* the map holds is module Catalogue's subject.                             *)
ModelsKnown(r) ==
  /\ req[r].pc = "models"
  /\ Goto(r, "rotate")
  /\ OnlyReq

ModelsPick(r) ==
  /\ req[r].pc = "models"
  /\ \E u \in PickSet(byUID, {}) :
       req' = [req EXCEPT ![r].pc = "fetch", ![r].on = Take(u)]
  /\ OnlyReq

(* Mutation of ModelsInvalid: any failure to fetch the models disables. *)
ModelsFailed(r) ==
  /\ req[r].pc = "fetch"
  /\ Disable(req[r].on.acct)
  /\ Goto(r, "rotate")
  /\ ReqAndPool

ModelsInvalid(r) ==
  /\ req[r].pc = "fetch" /\ Over(req[r].on.acct, req[r].on.login)
  /\ Disable(req[r].on.acct)
  /\ Goto(r, "rotate")
  /\ ReqAndPool

ModelsAnswered(r) ==
  /\ req[r].pc = "fetch" /\ req[r].on.login # NoLogin
  /\ Goto(r, "rotate")
  /\ OnlyReq

(* The map has no entry for the model: 400. *)
UnknownModel(r) ==
  /\ req[r].pc = "rotate" /\ req[r].tried = {}
  /\ Finish(r, "unknown_model")
  /\ OnlyReq

Tries(r) == Cardinality(req[r].tried)

(* Mutation of Rotate: the account is not marked as tried. *)
RotateUnmarked(r) ==
  /\ req[r].pc = "rotate" /\ Tries(r) < MaxRotate
  /\ \E u \in PickSet(byUID, req[r].tried) :
       req' = [req EXCEPT ![r].pc = "ensure", ![r].on = Take(u)]
  /\ OnlyReq

Rotate(r) ==
  /\ req[r].pc = "rotate" /\ Tries(r) < MaxRotate
  /\ \E u \in PickSet(byUID, req[r].tried) :
       req' = [req EXCEPT ![r].pc = "ensure", ![r].on = Take(u),
                          ![r].tried = @ \cup {u}]
  /\ OnlyReq

GiveUp(r) ==
  /\ req[r].pc = "rotate"
  /\ Tries(r) >= MaxRotate \/ PickSet(byUID, req[r].tried) = {}
  /\ Finish(r, "unavailable")
  /\ OnlyReq

EnsureInvalid(r) ==
  /\ req[r].pc = "ensure" /\ Over(req[r].on.acct, req[r].on.login)
  /\ Disable(req[r].on.acct)
  /\ Goto(r, "rotate")
  /\ ReqAndPool

(* Mutation of EnsureError: a failed refresh disables instead of cooling. *)
EnsureErrorDisables(r) ==
  /\ req[r].pc = "ensure" /\ req[r].on.login # NoLogin
  /\ req[r].on.acct \notin Good
  /\ Disable(req[r].on.acct)
  /\ Goto(r, "rotate")
  /\ ReqAndPool

EnsureError(r) ==
  /\ req[r].pc = "ensure" /\ req[r].on.login # NoLogin
  /\ req[r].on.acct \notin Good
  /\ Cooldown(req[r].on.acct, ErrCooldown)
  /\ Goto(r, "rotate")
  /\ ReqAndPool

(* Mutation of EnsureOk: an account without tokens passes. *)
EnsureUnchecked(r) ==
  /\ req[r].pc = "ensure"
  /\ req' = [req EXCEPT ![r].pc = "forward"]
  /\ OnlyReq

EnsureOk(r) ==
  /\ req[r].pc = "ensure" /\ req[r].on.login # NoLogin
  /\ req' = [req EXCEPT ![r].pc = "forward"]
  /\ OnlyReq

(* What an upstream that refuses says: its status, and whether its text     *)
(* speaks of credits ("credit") or of TOKEN_EXPIRE ("expired").             *)
Status == {400, 401, 402, 404, 429, 500}
Says == {"credit", "expired", "other"}

(* Classify(): credits come first, whatever the status.  No answer is of    *)
(* the kind session_dead, which chatCompletions() would disable for.        *)
Classify(status, text) ==
  CASE status = 402 \/ text = "credit" -> "hard_credit"
    [] status = 401 /\ text = "expired" -> "token_expired"
    [] status = 429 -> "soft_rate"
    [] status = 404 -> "not_found"
    [] status >= 500 -> "server"
    [] OTHER -> "client"

ErrKinds == {Classify(s, t) : s \in Status, t \in Says}

(* The kinds of error after which an account rests at once. *)
RestAfter ==
  [hard_credit |-> HardCooldown, soft_rate |-> SoftCooldown, not_found |-> SoftCooldown]

Refused(r, kind) ==
  /\ req[r].pc = "forward" /\ req[r].on.acct \notin Good
  /\ kind \in DOMAIN RestAfter
  /\ Cooldown(req[r].on.acct, RestAfter[kind])
  /\ Goto(r, "rotate")
  /\ ReqAndPool

(* Any other kind of error, or no answer at all. *)
Failed(r, kind) ==
  /\ req[r].pc = "forward" /\ req[r].on.acct \notin Good
  /\ kind \notin DOMAIN RestAfter
  /\ NoteError(req[r].on.acct, ErrCooldown)
  /\ Goto(r, "rotate")
  /\ ReqAndPool

Served(r) ==
  /\ req[r].pc = "forward"
  /\ NoteSuccess(req[r].on.acct)
  /\ Finish(r, "served")
  /\ ReqAndPool

-----------------------------------------------------------------------------
(* Passes over all accounts: RunCheckinNow, RunKeepaliveNow and            *)
(* handleQuotaRefresh.  They go by account name; any order is allowed here. *)

OnlyPass == UNCHANGED <<byUID, state, lastSaveFailed, req, flow, auth, dead, crossed>>
PassAndPool == UNCHANGED <<req, flow, auth, dead, crossed>>
NextAccount(j) == pass' = [pass EXCEPT ![j].pc = "next", ![j].on = NoWork]

(* List(): what is disabled now is left out, whatever happens later.  One   *)
(* goroutine runs the passes of the scheduler.                              *)
StartPass(j, kind) ==
  /\ pass[j].pc = "idle"
  /\ kind # "quota" => \A i \in Pass : pass[i].kind \in {"none", "quota"}
  /\ pass' = [pass EXCEPT ![j] =
       [pc |-> "next", kind |-> kind, on |-> NoWork,
        todo |-> {u \in Uid : Held(u) /\ ~byUID[u].disabled}]]
  /\ OnlyPass

SkipAccount(j, u) ==
  /\ pass[j].pc = "next" /\ u \in pass[j].todo
  /\ ~Held(u) \/ byUID[u].c.login = NoLogin
  /\ pass' = [pass EXCEPT ![j].todo = @ \ {u}]
  /\ OnlyPass

(* Mutation of Visit: the account stays on the list. *)
VisitAgain(j, u) ==
  /\ pass[j].pc = "next" /\ u \in pass[j].todo
  /\ Held(u) /\ byUID[u].c.login # NoLogin
  /\ pass' = [pass EXCEPT
       ![j].pc = IF pass[j].kind = "quota" THEN "quota" ELSE "ensure",
       ![j].on = Take(u)]
  /\ OnlyPass

Visit(j, u) ==
  /\ pass[j].pc = "next" /\ u \in pass[j].todo
  /\ Held(u) /\ byUID[u].c.login # NoLogin
  /\ pass' = [pass EXCEPT
       ![j].pc = IF pass[j].kind = "quota" THEN "quota" ELSE "ensure",
       ![j].on = Take(u), ![j].todo = @ \ {u}]
  /\ OnlyPass

PassInvalid(j) ==
  /\ pass[j].pc = "ensure" /\ Over(pass[j].on.acct, pass[j].on.login)
  /\ Disable(pass[j].on.acct)
  /\ NextAccount(j)
  /\ PassAndPool

(* Mutation of PassError: any failure of a pass disables. *)
PassErrorDisables(j) ==
  /\ pass[j].pc \in {"ensure", "quota"}
  /\ Disable(pass[j].on.acct)
  /\ NextAccount(j)
  /\ PassAndPool

PassError(j) ==
  /\ pass[j].pc \in {"ensure", "quota"}
  /\ NextAccount(j)
  /\ OnlyPass

PassEnsured(j) ==
  /\ pass[j].pc = "ensure"
  /\ IF pass[j].kind = "checkin"
     THEN pass' = [pass EXCEPT ![j].pc = "quota"]
     ELSE NextAccount(j)
  /\ OnlyPass

QuotaExceeded(j) ==
  /\ pass[j].pc = "quota" /\ pass[j].on.acct \notin Good
  /\ Cooldown(pass[j].on.acct, QuotaCooldown)
  /\ NextAccount(j)
  /\ PassAndPool

QuotaRead(j, remain) ==
  /\ pass[j].pc = "quota"
  /\ ReenableIfCredits(pass[j].on.acct, remain)
  /\ NextAccount(j)
  /\ PassAndPool

EndPass(j) ==
  /\ pass[j].pc = "next" /\ pass[j].todo = {}
  /\ pass' = [pass EXCEPT ![j] = Resting]
  /\ IF pass[j].kind = "keepalive" THEN SaveState
     ELSE UNCHANGED <<byUID, state, lastSaveFailed>>
  /\ PassAndPool

-----------------------------------------------------------------------------
(* The end of a device login (handleLoginPoll): the auth file is written,   *)
(* read back and added to the pool, and the pool is saved.  Several polls,  *)
(* for one account even, do so at once.                                     *)

InUse(u) ==
  {auth[u]} \cup (IF Held(u) THEN {byUID[u].c.login} ELSE {})
    \cup {req[r].on.login : r \in {r \in Request : req[r].on.acct = u}}
    \cup {pass[j].on.login : j \in {j \in Pass : pass[j].on.acct = u}}
    \cup {flow[p].on.login : p \in {p \in Poll : flow[p].on.acct = u}}

(* A poll has read the file of account u, or has yet to, and not added it.  *)
HasRead(u) == \E p \in Poll : flow[p].pc = "read" /\ flow[p].on.acct = u
LoggingIn(u) == HasRead(u) \/ \E p \in Poll : flow[p].pc = "written" /\ flow[p].on.acct = u

(* The file of account u is written with the tokens of a new login. *)
NewFile(u, l) ==
  /\ l \notin InUse(u)
  /\ auth' = [auth EXCEPT ![u] = l]
  /\ dead' = dead \ {<<u, l>>}
  /\ UNCHANGED <<byUID, state, lastSaveFailed, req, pass>>

LoginWrite(p, u, l) ==
  /\ flow[p].pc = "idle"
  /\ NewFile(u, l)
  /\ flow' = [flow EXCEPT ![p] = [pc |-> "written", on |-> [acct |-> u, login |-> l]]]
  /\ crossed' = IF HasRead(u) THEN crossed \cup {u} ELSE crossed \ {u}

(* LoadFile() reads what is in the file by now. *)
LoginRead(p) ==
  /\ flow[p].pc = "written" /\ auth[flow[p].on.acct] # Absent
  /\ flow' = [flow EXCEPT ![p].pc = "read", ![p].on.login = auth[flow[p].on.acct]]
  /\ UNCHANGED <<byUID, state, lastSaveFailed, req, pass, auth, dead, crossed>>

LoginAdd(p) ==
  /\ flow[p].pc = "read"
  /\ \E f \in Fp : Add(flow[p].on.acct, [login |-> flow[p].on.login, fp |-> f])
  /\ flow' = [flow EXCEPT ![p].pc = "added"]
  /\ UNCHANGED <<req, pass, auth, dead, crossed>>

(* The file was deleted before it was read back: the pool is left alone. *)
LoginGone(p) ==
  /\ flow[p].pc = "written" /\ auth[flow[p].on.acct] = Absent
  /\ flow' = [flow EXCEPT ![p] = NoFlow]
  /\ UNCHANGED <<byUID, state, lastSaveFailed, req, pass, auth, dead, crossed>>

LoginSave(p) ==
  /\ flow[p].pc = "added"
  /\ SaveState
  /\ flow' = [flow EXCEPT ![p] = NoFlow]
  /\ UNCHANGED <<req, pass, auth, dead, crossed>>

(* login.sh writes a file, which the server reads when it starts again. *)
LoginByScript(u, l) ==
  /\ NewFile(u, l)
  /\ crossed' = crossed \cup {u}
  /\ UNCHANGED flow

(* handleDeleteAccount, or a hand: the file goes, the pool keeps the account. *)
DeleteAccount(u) ==
  /\ u \notin Good /\ auth[u] # Absent
  /\ auth' = [auth EXCEPT ![u] = Absent]
  /\ UNCHANGED <<byUID, state, lastSaveFailed, req, pass, flow, dead, crossed>>

-----------------------------------------------------------------------------
(* The upstream ends a login. *)
Die(u) ==
  /\ u \notin Good /\ auth[u] # Absent /\ <<u, auth[u]>> \notin dead
  /\ dead' = dead \cup {<<u, auth[u]>>}
  /\ UNCHANGED <<byUID, state, lastSaveFailed, req, pass, flow, auth, crossed>>

(* main(): the process starts again, at any point; state.json is loaded,    *)
(* the auth files are added and the pool is saved before anyone is served.  *)
RelayRestart ==
  /\ \E saved \in Readable, f \in Fp :
       byUID' = [u \in Uid |-> Started(saved[u], auth[u], f)]
  /\ SaveLocked
  /\ req' = [r \in Request |-> Idle]
  /\ pass' = [j \in Pass |-> Resting]
  /\ flow' = [p \in Poll |-> NoFlow]
  /\ crossed' = {}
  /\ UNCHANGED <<auth, dead>>

RelayTick == Tick /\ UNCHANGED <<req, pass, flow, auth, dead, crossed>>

Ensure(r) == EnsureInvalid(r) \/ EnsureError(r) \/ EnsureOk(r)
Forward(r) ==
  \/ Served(r)
  \/ \E kind \in ErrKinds \cup {"none"} : Refused(r, kind) \/ Failed(r, kind)

(* Everything a request does after it arrived. *)
Proceed(r) ==
  \/ ModelsKnown(r) \/ ModelsPick(r) \/ ModelsInvalid(r) \/ ModelsAnswered(r)
  \/ UnknownModel(r) \/ Rotate(r) \/ GiveUp(r) \/ Ensure(r) \/ Forward(r)

(* Everything a pass does after it started. *)
GoOn(j) ==
  \/ \E u \in Uid : SkipAccount(j, u) \/ Visit(j, u)
  \/ PassInvalid(j) \/ PassError(j) \/ PassEnsured(j) \/ QuotaExceeded(j)
  \/ \E b \in Balance : QuotaRead(j, b)
  \/ EndPass(j)

Next ==
  \/ \E r \in Request : Arrive(r) \/ Proceed(r)
  \/ \E j \in Pass :
       \/ \E kind \in {"checkin", "keepalive", "quota"} : StartPass(j, kind)
       \/ GoOn(j)
  \/ \E u \in Uid :
       \/ \E l \in Login : LoginByScript(u, l) \/ \E p \in Poll : LoginWrite(p, u, l)
       \/ DeleteAccount(u)
       \/ Die(u)
  \/ \E p \in Poll : LoginRead(p) \/ LoginGone(p) \/ LoginAdd(p) \/ LoginSave(p)
  \/ RelayRestart
  \/ RelayTick

Spec == Init /\ [][Next]_relayVars

(* A goroutine whose HTTP calls all have timeouts goes on; nothing is said  *)
(* of how calls end, of new requests or of the clock.                       *)
FairSpec ==
  /\ Spec
  /\ \A r \in Request : WF_relayVars(Proceed(r))
  /\ \A j \in Pass : WF_relayVars(GoOn(j))

-----------------------------------------------------------------------------
(* The variables have their types; a goroutine has an account in hand       *)
(* exactly while it works on one, and nobody forwards to an account that is *)
(* known only from state.json.                                              *)
RelayTypeOK ==
  /\ PoolTypeOK
  /\ req \in [Request ->
       [pc: {"idle", "models", "fetch", "rotate", "ensure", "forward", "done"},
        tried: SUBSET Uid, on: Work,
        out: {"none", "served", "unavailable", "unknown_model"}]]
  /\ pass \in [Pass ->
       [pc: {"idle", "next", "ensure", "quota"},
        kind: {"none", "checkin", "keepalive", "quota"},
        todo: SUBSET Uid, on: Work]]
  /\ flow \in [Poll -> [pc: {"idle", "written", "read", "added"}, on: Work]]
  /\ auth \in [Uid -> Login \cup {Absent}]
  /\ dead \subseteq Uid \X Login /\ crossed \subseteq Uid
  /\ \A r \in Request :
       /\ req[r].on.acct # Absent <=> req[r].pc \in {"fetch", "ensure", "forward"}
       /\ req[r].pc = "forward" => req[r].on.login # NoLogin

(* Failover is complete: as long as some account is beyond reproach and no  *)
(* more accounts exist than a request may try, no request is turned away,   *)
(* whatever happens to the other accounts in the meantime.  Runs that state *)
(* it have a Good account.                                                  *)
AlwaysServed ==
  (Good # {} /\ Cardinality(Uid) <= MaxRotate)
    => \A r \in Request : req[r].out # "unavailable"

(* The auth directory and the pool agree: once the device logins of an      *)
(* account are completed, the pool uses the credential of its auth file,    *)
(* whatever requests, passes, deletions, logins of other accounts and       *)
(* restarts came in between.  Two things can leave them apart, until the    *)
(* account logs in again or the server starts: two polls for one account    *)
(* cross (user_api.go:281-294 has no lock: one writes the file between the  *)
(* other's LoadFile and Add), and login.sh, which only a restart reads.     *)
FileInPool ==
  \A u \in Uid \ crossed :
    (auth[u] # Absent /\ ~LoggingIn(u)) => Held(u) /\ byUID[u].c.login = auth[u]

(* Some goroutine still has an earlier credential of account u in hand. *)
Outdated(u) ==
  \E w \in {req[r].on : r \in Request} \cup {pass[j].on : j \in Pass} :
    w.acct = u /\ w.login # byUID[u].c.login

NewlyDisabled(u) ==
  Held(u) /\ ~byUID[u].disabled /\ Held(u)' /\ byUID'[u].disabled

(* An account is disabled only if its credential is beyond use, or by a     *)
(* goroutine that had an earlier credential of the account in hand; no      *)
(* error or refusal disables it, and no restart does, unless the last save  *)
(* failed and an older state.json has the ban.                              *)
DisabledWithCause ==
  [][\A u \in Uid :
       NewlyDisabled(u)
         => \/ Over(u, byUID[u].c.login) \/ Outdated(u)
            \/ lastSaveFailed /\ RelayRestart]_relayVars

(* A cooldown is cut short only by credits: what pool.go:185 says of        *)
(* ReenableIfCredits and README.md:30 of the 12 hours after a 402.  The     *)
(* code sets the end of the cooldown anew at every refusal, so that a 429   *)
(* that arrives after a 402 shortens it to a minute.                        *)
HardCooldownHolds ==
  [][\A u \in Uid :
       (Held(u) /\ Held(u)' /\ byUID[u].left > SoftCooldown)
         => byUID'[u].left >= byUID[u].left - 1 \/ byUID'[u].credits > 0
    ]_relayVars

(* What pool.go:174 says: a new OAuth login is the way out of "disabled".   *)
LoginEnables ==
  [][\A p \in Poll : LoginAdd(p) => ~byUID'[flow[p].on.acct].disabled]_relayVars

(* Every request is answered. *)
RequestEnds ==
  \A r \in Request : req[r].pc \notin {"idle", "done"}
                       ~> req[r].pc \in {"idle", "done"}

(* Every pass ends, so the scheduler gets to its next hour. *)
PassEnds == \A j \in Pass : pass[j].pc # "idle" ~> pass[j].pc = "idle"
==============================================================================
