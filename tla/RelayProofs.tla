----------------------------- MODULE RelayProofs -----------------------------
(***************************************************************************)
(* Theorems about Relay, for any sets of accounts, credentials, polls,     *)
(* requests and passes, any cooldowns and any bound on the accounts tried. *)
(***************************************************************************)
EXTENDS Relay, PoolProofs, FiniteSetTheorems, WellFoundedInduction

-----------------------------------------------------------------------------
(* What the relay does to the pool: one call of one account, a save, a      *)
(* tick, or a restart.                                                      *)

LoginsStored == auth \in [Uid -> Login \cup {Absent}]

Harsh(u) == NoteError(u, ErrCooldown) \/ \E d \in Nat \ {0} : Cooldown(u, d)
Mild(u) == NoteSuccess(u) \/ \E b \in Balance : ReenableIfCredits(u, b)
Call(u) == Disable(u) \/ Harsh(u) \/ Mild(u)

(* The call of a goroutine that has x in hand: it disables only what is     *)
(* beyond use, and is harsh only to accounts that are not Good.             *)
CallBy(x) ==
  /\ x.acct \in Uid
  /\ \/ Disable(x.acct) /\ Over(x.acct, x.login)
     \/ Harsh(x.acct) /\ x.acct \notin Good
     \/ Mild(x.acct)

AddLogin(u, l) == \E f \in Fp : Add(u, [login |-> l, fp |-> f])

Reload ==
  /\ \E saved \in Readable, f \in Fp :
       byUID' = [u \in Uid |-> Started(saved[u], auth[u], f)]
  /\ SaveLocked

LEMMA CallKeepsPool ==
  ASSUME PoolInv, NEW u \in Uid, Call(u)
  PROVE  PoolInv'
<1>1. CASE Disable(u)
  <2>1. GoodPool /\ Held(u) => GoodEntry([byUID[u] EXCEPT !.disabled = TRUE])
    BY DEF GoodPool, GoodEntry, Entry
  <2> QED
    BY <1>1, <2>1, PutStep DEF Disable
<1>2. ASSUME NEW d \in Nat \ {0}, Cooldown(u, d) PROVE PoolInv'
  <2>1. GoodPool /\ Held(u)
          => GoodEntry([byUID[u] EXCEPT !.left = d, !.errCount = 0])
    BY CooledGood DEF GoodPool
  <2> QED
    BY <1>2, <2>1, PutStep DEF Cooldown
<1>3. CASE NoteError(u, ErrCooldown)
  <2>1. GoodPool /\ Held(u) => GoodEntry(AfterError(byUID[u], ErrCooldown))
    BY AfterErrorGood, CooldownAssumption DEF GoodPool, Cooldowns
  <2> QED
    BY <1>3, <2>1, PutStep DEF NoteError
<1>4. ASSUME NEW b \in Balance, ReenableIfCredits(u, b) PROVE PoolInv'
  <2>1. GoodPool /\ Held(u) => GoodEntry(Thawed(byUID[u], b))
    BY ThawedGood DEF GoodPool
  <2> QED
    BY <1>4, <2>1, PutStep DEF ReenableIfCredits
<1> QED
  BY <1>1, <1>2, <1>3, <1>4, NoteSuccessStep DEF Call, Harsh, Mild

LEMMA AddLoginKeepsPool ==
  ASSUME PoolInv, NEW u \in Uid, NEW l \in Login, AddLogin(u, l)
  PROVE  PoolInv'
<1>1. PICK f \in Fp : Add(u, [login |-> l, fp |-> f])
  BY DEF AddLogin
<1>2. [login |-> l, fp |-> f] \in Cred
  BY DEF Cred
<1> QED
  BY <1>1, <1>2, AddStep

LEMMA SaveKeepsPool ==
  ASSUME PoolInv, SaveState
  PROVE  PoolInv'
BY TypeIsGoodPool, SavedPool DEF SaveState, PoolInv, PoolTypeOK, GoodPool, Held

LEMMA StartedGood ==
  ASSUME NEW s \in Saved \cup {Absent}, NEW l \in Login \cup {Absent}, NEW f \in Fp
  PROVE  /\ Started(s, l, f) # Absent => GoodEntry(Started(s, l, f))
         /\ l # Absent => /\ Started(s, l, f) # Absent
                          /\ Started(s, l, f).c.login = l
<1>1. Revive(s) # Absent => GoodEntry(Revive(s))
  BY ReviveGood DEF Revive
<1>2. CASE l = Absent
  BY <1>1, <1>2 DEF Started
<1>3. CASE l # Absent
  <2> DEFINE c == [login |-> l, fp |-> f]
  <2>1. c \in Cred /\ c.login = l
    BY <1>3 DEF Cred
  <2>2. Started(s, l, f) = AddTo(Revive(s), c)
    BY <1>3 DEF Started
  <2> HIDE DEF c
  <2>3. GoodEntry(Started(s, l, f))
    BY <1>1, <2>1, <2>2, AddToGood
  <2>4. AddTo(Revive(s), c).c.login = l
    <3>1. CASE Revive(s) = Absent
      BY <2>1, <3>1 DEF AddTo, NewEntry
    <3>2. CASE Revive(s) # Absent
      <4>1. AddTo(Revive(s), c) = [Revive(s) EXCEPT !.c = KeepFp(Revive(s).c, c)]
        BY <3>2 DEF AddTo
      <4>2. KeepFp(Revive(s).c, c).login = l
        BY <2>1 DEF KeepFp, Cred
      <4> QED
        BY <1>1, <3>2, <4>1, <4>2 DEF GoodEntry, Entry
    <3> QED
      BY <3>1, <3>2
  <2> QED
    BY <2>2, <2>3, <2>4, AbsentAssumption DEF GoodEntry
<1> QED
  BY <1>2, <1>3

(* After a restart the pool is what state.json and the auth files say. *)
LEMMA Reloaded ==
  ASSUME PoolInv, LoginsStored, Reload
  PROVE  \E saved \in Readable, f \in Fp :
           \A u \in Uid : /\ saved[u] \in Saved \cup {Absent}
                          /\ byUID'[u] = Started(saved[u], auth[u], f)
<1>1. PICK saved \in Readable, f \in Fp :
           byUID' = [u \in Uid |-> Started(saved[u], auth[u], f)]
  BY DEF Reload
<1>2. \A u \in Uid : saved[u] \in Saved \cup {Absent}
  BY DEF Readable, Empty, PoolInv, PoolTypeOK
<1> QED
  BY <1>1, <1>2

LEMMA ReloadKeepsPool ==
  ASSUME PoolInv, LoginsStored, Reload
  PROVE  PoolInv'
<1>1. PICK saved \in Readable, f \in Fp :
           byUID' = [u \in Uid |-> Started(saved[u], auth[u], f)]
  BY DEF Reload
<1>2. ASSUME NEW u \in Uid
      PROVE  byUID'[u] # Absent => GoodEntry(byUID'[u])
  <2>1. saved[u] \in Saved \cup {Absent} /\ auth[u] \in Login \cup {Absent}
    BY DEF Readable, Empty, PoolInv, PoolTypeOK, LoginsStored
  <2>2. byUID'[u] = Started(saved[u], auth[u], f)
    BY <1>1
  <2> QED
    BY <2>1, <2>2, StartedGood
<1>3. GoodPool'
  <2>1. byUID' = [u \in Uid |-> byUID'[u]]
    BY <1>1
  <2>2. \A u \in Uid : byUID'[u] \in Entry \cup {Absent}
    BY <1>2 DEF GoodEntry
  <2>3. byUID' \in [Uid -> Entry \cup {Absent}]
    BY <2>1, <2>2
  <2> QED
    BY <1>2, <2>3 DEF GoodPool, Held
<1> QED
  BY <1>3, SavedPool DEF PoolInv, PoolTypeOK, Reload

PoolMove ==
  \/ UNCHANGED poolVars
  \/ \E u \in Uid : Call(u) \/ \E l \in Login : AddLogin(u, l)
  \/ SaveState \/ Tick \/ Reload

LEMMA PoolMoveInv ==
  ASSUME PoolInv, LoginsStored, PoolMove
  PROVE  PoolInv'
<1>1. CASE UNCHANGED poolVars
  BY <1>1, PoolInvStep
<1> QED
  BY <1>1, CallKeepsPool, AddLoginKeepsPool, SaveKeepsPool, TickStep, ReloadKeepsPool
  DEF PoolMove

-----------------------------------------------------------------------------
(* Type correctness.  What a goroutine has in hand when it is about to call *)
(* the pool is an account, and a login flow that adds a credential has one. *)

ReqType ==
  [pc: {"idle", "models", "fetch", "rotate", "ensure", "forward", "done"},
   tried: SUBSET Uid, on: Work,
   out: {"none", "served", "unavailable", "unknown_model"}]

ReqOK(q) ==
  /\ q \in ReqType
  /\ q.on.acct # Absent <=> q.pc \in {"fetch", "ensure", "forward"}
  /\ q.pc = "forward" => q.on.login # NoLogin

PassType ==
  [pc: {"idle", "next", "ensure", "quota"},
   kind: {"none", "checkin", "keepalive", "quota"},
   todo: SUBSET Uid, on: Work]

PassOK(p) ==
  /\ p \in PassType
  /\ p.pc \in {"ensure", "quota"} => p.on.acct \in Uid
  /\ p.on.acct # Absent => p.on.login # NoLogin

ReqsOK == req \in [Request -> ReqType] /\ \A r \in Request : ReqOK(req[r])
PassesOK == pass \in [Pass -> PassType] /\ \A j \in Pass : PassOK(pass[j])

FlowType == [pc: {"idle", "written", "read", "added"}, on: Work]

FlowFits(f) ==
  /\ f \in FlowType
  /\ f.pc # "idle" => f.on.acct \in Uid
  /\ f.pc = "read" => f.on.login \in Login

FlowOK == flow \in [Poll -> FlowType] /\ \A p \in Poll : FlowFits(flow[p])

MarksOK == dead \subseteq Uid \X Login /\ crossed \subseteq Uid

ControlOK == ReqsOK /\ PassesOK /\ FlowOK /\ LoginsStored /\ MarksOK

LEMMA ControlType ==
  ASSUME PoolInv, ControlOK
  PROVE  RelayTypeOK
BY DEF PoolInv, ControlOK, ReqsOK, ReqOK, ReqType, PassesOK, PassType, FlowOK, FlowType,
       LoginsStored, MarksOK, RelayTypeOK

LEMMA WorkFacts ==
  /\ NoWork \in Work /\ NoWork.acct = Absent /\ NoWork.login = NoLogin
  /\ \A x \in Work : x.acct # Absent => x.acct \in Uid
BY DEF NoWork, Work

LEMMA TakeWork ==
  ASSUME PoolInv, NEW u \in Uid, Held(u)
  PROVE  Take(u) \in Work /\ Take(u).acct = u /\ Take(u).login = byUID[u].c.login
<1>1. byUID[u] \in Entry
  BY DEF PoolInv, PoolTypeOK, Held
<1>2. byUID[u].c.login \in Login \cup {NoLogin}
  BY <1>1 DEF Entry, Cred
<1> QED
  BY <1>2 DEF Take, Work

LEMMA PickedIsHeld ==
  ASSUME NEW tried, NEW u \in PickSet(byUID, tried)
  PROVE  u \in Uid \ tried /\ Held(u) /\ Healthy(byUID[u])
BY DEF PickSet, Healthy, Held

LEMMA OneRequest ==
  ASSUME ReqsOK, NEW r \in Request, NEW q, ReqOK(q), req' = [req EXCEPT ![r] = q]
  PROVE  ReqsOK'
BY DEF ReqsOK, ReqOK

LEMMA OnePass ==
  ASSUME PassesOK, NEW j \in Pass, NEW p, PassOK(p), pass' = [pass EXCEPT ![j] = p]
  PROVE  PassesOK'
BY DEF PassesOK, PassOK

LEMMA OneFlow ==
  ASSUME FlowOK, NEW p \in Poll, NEW f, FlowFits(f), flow' = [flow EXCEPT ![p] = f]
  PROVE  FlowOK' /\ flow'[p] = f /\ \A q \in Poll : q # p => flow'[q] = flow[q]
BY DEF FlowOK, FlowFits

LEMMA IdleOK == ReqOK(Idle) /\ PassOK(Resting) /\ FlowFits(NoFlow)
BY WorkFacts DEF ReqOK, ReqType, Idle, PassOK, PassType, Resting, FlowFits, FlowType, NoFlow

LEMMA GotoOK ==
  ASSUME ReqsOK, NEW r \in Request, Goto(r, "rotate")
  PROVE  /\ ReqsOK'
         /\ req' = [req EXCEPT ![r] = [req[r] EXCEPT !.pc = "rotate", !.on = NoWork]]
<1> DEFINE q == [req[r] EXCEPT !.pc = "rotate", !.on = NoWork]
<1>1. req' = [req EXCEPT ![r] = q]
  BY DEF Goto, ReqsOK, ReqType
<1>2. ReqOK(q)
  BY WorkFacts DEF ReqsOK, ReqOK, ReqType
<1> HIDE DEF q
<1>3. ReqsOK'
  BY <1>1, <1>2, OneRequest
<1> QED
  BY <1>1, <1>3 DEF q

LEMMA FinishOK ==
  ASSUME ReqsOK, NEW r \in Request,
         NEW out \in {"served", "unavailable", "unknown_model"}, Finish(r, out)
  PROVE  ReqsOK'
<1>1. ReqOK([Idle EXCEPT !.pc = "done", !.out = out])
  BY WorkFacts DEF ReqOK, ReqType, Idle
<1> QED
  BY <1>1, OneRequest DEF Finish

LEMMA NextAccountOK ==
  ASSUME PassesOK, NEW j \in Pass, NextAccount(j)
  PROVE  PassesOK'
<1> DEFINE p == [pass[j] EXCEPT !.pc = "next", !.on = NoWork]
<1>1. pass' = [pass EXCEPT ![j] = p]
  BY DEF NextAccount, PassesOK, PassType
<1>2. PassOK(p)
  BY WorkFacts DEF PassesOK, PassOK, PassType
<1> HIDE DEF p
<1> QED
  BY <1>1, <1>2, OnePass

LEMMA RestPositive ==
  ASSUME NEW kind \in DOMAIN RestAfter
  PROVE  RestAfter[kind] \in Nat \ {0}
BY CooldownAssumption DEF RestAfter, Cooldowns

LEMMA InHand ==
  ASSUME ControlOK, NEW r \in Request, req[r].pc \in {"fetch", "ensure", "forward"}
  PROVE  req[r].on.acct \in Uid
<1>1. req[r] \in ReqType /\ req[r].on.acct # Absent
  BY DEF ControlOK, ReqsOK, ReqOK
<1> QED
  BY <1>1, WorkFacts DEF ReqType

(* Every step of a request is one call of the pool, or none. *)
LEMMA RequestCalls ==
  ASSUME ControlOK, NEW r \in Request, Arrive(r) \/ Proceed(r)
  PROVE  /\ UNCHANGED <<pass, flow, auth, dead, crossed>>
         /\ UNCHANGED poolVars \/ CallBy(req[r].on)
<1>1. CASE \/ Arrive(r) \/ ModelsKnown(r) \/ ModelsPick(r) \/ ModelsAnswered(r)
           \/ UnknownModel(r) \/ Rotate(r) \/ GiveUp(r) \/ EnsureOk(r)
  <2>1. OnlyReq
    BY <1>1 DEF Arrive, ModelsKnown, ModelsPick, ModelsAnswered, UnknownModel, Rotate,
                GiveUp, EnsureOk
  <2> QED
    BY <2>1 DEF OnlyReq, poolVars
<1>2. CASE ModelsInvalid(r) \/ EnsureInvalid(r)
  BY <1>2, InHand DEF ModelsInvalid, EnsureInvalid, ReqAndPool, CallBy
<1>3. CASE EnsureError(r)
  <2>1. ErrCooldown \in Nat \ {0}
    BY CooldownAssumption DEF Cooldowns
  <2> QED
    BY <1>3, <2>1, InHand DEF EnsureError, ReqAndPool, CallBy, Harsh
<1>4. CASE Served(r)
  BY <1>4, InHand DEF Served, ReqAndPool, CallBy, Mild
<1>5. ASSUME NEW kind \in ErrKinds \cup {"none"}, Refused(r, kind) \/ Failed(r, kind)
      PROVE  UNCHANGED <<pass, flow, auth, dead, crossed>> /\ CallBy(req[r].on)
  BY <1>5, InHand, RestPositive DEF Refused, Failed, ReqAndPool, CallBy, Harsh
<1> QED
  BY <1>1, <1>2, <1>3, <1>4, <1>5 DEF Proceed, Ensure, Forward

LEMMA RequestControl ==
  ASSUME PoolInv, ControlOK, NEW r \in Request, Arrive(r) \/ Proceed(r)
  PROVE  ReqsOK'
<1> USE DEF ControlOK
<1>0. ReqsOK /\ req[r] \in ReqType /\ ReqOK(req[r])
  BY DEF ReqsOK
<1>1. CASE Arrive(r)
  <2>1. ReqOK([Idle EXCEPT !.pc = "models"])
    BY WorkFacts DEF ReqOK, ReqType, Idle
  <2> QED
    BY <1>0, <1>1, <2>1, OneRequest, FinishOK DEF Arrive
<1>2. CASE ModelsPick(r)
  <2>1. PICK u \in PickSet(byUID, {}) :
          req' = [req EXCEPT ![r].pc = "fetch", ![r].on = Take(u)]
    BY <1>2 DEF ModelsPick
  <2> DEFINE q == [req[r] EXCEPT !.pc = "fetch", !.on = Take(u)]
  <2>2. Take(u) \in Work /\ Take(u).acct # Absent
    BY PickedIsHeld, TakeWork, NobodyAssumption
  <2>3. req' = [req EXCEPT ![r] = q]
    BY <1>0, <2>1 DEF ReqsOK, ReqType
  <2>4. ReqOK(q)
    BY <1>0, <2>2 DEF ReqOK, ReqType
  <2> HIDE DEF q
  <2> QED
    BY <1>0, <2>3, <2>4, OneRequest
<1>3. CASE Rotate(r)
  <2>1. PICK u \in PickSet(byUID, req[r].tried) :
          req' = [req EXCEPT ![r].pc = "ensure", ![r].on = Take(u),
                             ![r].tried = @ \cup {u}]
    BY <1>3 DEF Rotate
  <2> DEFINE q == [req[r] EXCEPT !.pc = "ensure", !.on = Take(u), !.tried = @ \cup {u}]
  <2>2. u \in Uid /\ Take(u) \in Work /\ Take(u).acct # Absent
    BY PickedIsHeld, TakeWork, NobodyAssumption
  <2>3. req' = [req EXCEPT ![r] = q]
    BY <1>0, <2>1 DEF ReqsOK, ReqType
  <2>4. ReqOK(q)
    BY <1>0, <2>2 DEF ReqOK, ReqType
  <2> HIDE DEF q
  <2> QED
    BY <1>0, <2>3, <2>4, OneRequest
<1>4. CASE EnsureOk(r)
  <2> DEFINE q == [req[r] EXCEPT !.pc = "forward"]
  <2>1. req' = [req EXCEPT ![r] = q]
    BY <1>0, <1>4 DEF EnsureOk, ReqsOK, ReqType
  <2>2. ReqOK(q)
    BY <1>0, <1>4 DEF EnsureOk, ReqOK, ReqType
  <2> HIDE DEF q
  <2> QED
    BY <1>0, <2>1, <2>2, OneRequest
<1>5. CASE \/ UnknownModel(r) \/ GiveUp(r) \/ Served(r)
  BY <1>0, <1>5, FinishOK DEF UnknownModel, GiveUp, Served
<1>6. CASE \/ ModelsKnown(r) \/ ModelsInvalid(r) \/ ModelsAnswered(r)
           \/ EnsureInvalid(r) \/ EnsureError(r)
  BY <1>0, <1>6, GotoOK
  DEF ModelsKnown, ModelsInvalid, ModelsAnswered, EnsureInvalid, EnsureError
<1>7. ASSUME NEW kind \in ErrKinds \cup {"none"}, Refused(r, kind) \/ Failed(r, kind)
      PROVE  ReqsOK'
  BY <1>0, <1>7, GotoOK DEF Refused, Failed
<1> QED
  BY <1>1, <1>2, <1>3, <1>4, <1>5, <1>6, <1>7 DEF Proceed, Ensure, Forward

(* Every step of a pass is one call of the pool, a save, or neither. *)
LEMMA PassCalls ==
  ASSUME ControlOK, NEW j \in Pass,
         GoOn(j) \/ \E kind \in {"checkin", "keepalive", "quota"} : StartPass(j, kind)
  PROVE  /\ UNCHANGED <<req, flow, auth, dead, crossed>>
         /\ UNCHANGED poolVars \/ SaveState \/ CallBy(pass[j].on)
<1>0. pass[j].pc \in {"ensure", "quota"} => pass[j].on.acct \in Uid
  BY DEF ControlOK, PassesOK, PassOK
<1>1. CASE \/ \E kind \in {"checkin", "keepalive", "quota"} : StartPass(j, kind)
           \/ \E u \in Uid : SkipAccount(j, u) \/ Visit(j, u)
           \/ PassError(j) \/ PassEnsured(j)
  BY <1>1 DEF StartPass, SkipAccount, Visit, PassError, PassEnsured, OnlyPass, poolVars
<1>2. CASE PassInvalid(j)
  BY <1>0, <1>2 DEF PassInvalid, PassAndPool, CallBy
<1>3. CASE QuotaExceeded(j)
  BY <1>0, <1>3, QuotaAssumption DEF QuotaExceeded, PassAndPool, CallBy, Harsh
<1>4. ASSUME NEW b \in Balance, QuotaRead(j, b)
      PROVE  UNCHANGED <<req, flow, auth, dead, crossed>> /\ CallBy(pass[j].on)
  BY <1>0, <1>4 DEF QuotaRead, PassAndPool, CallBy, Mild
<1>5. CASE EndPass(j)
  BY <1>5 DEF EndPass, PassAndPool, poolVars
<1> QED
  BY <1>1, <1>2, <1>3, <1>4, <1>5 DEF GoOn

LEMMA PassControl ==
  ASSUME PoolInv, ControlOK, NEW j \in Pass,
         GoOn(j) \/ \E kind \in {"checkin", "keepalive", "quota"} : StartPass(j, kind)
  PROVE  PassesOK'
<1> USE DEF ControlOK
<1>0. PassesOK /\ pass[j] \in PassType /\ PassOK(pass[j])
  BY DEF PassesOK
<1>1. ASSUME NEW kind \in {"checkin", "keepalive", "quota"}, StartPass(j, kind)
      PROVE  PassesOK'
  <2> DEFINE p == [pc |-> "next", kind |-> kind, on |-> NoWork,
                   todo |-> {u \in Uid : Held(u) /\ ~byUID[u].disabled}]
  <2>1. PassOK(p)
    BY WorkFacts DEF PassOK, PassType
  <2>2. pass' = [pass EXCEPT ![j] = p]
    BY <1>1 DEF StartPass
  <2> HIDE DEF p
  <2> QED
    BY <1>0, <2>1, <2>2, OnePass
<1>2. ASSUME NEW u \in Uid, SkipAccount(j, u) PROVE PassesOK'
  <2> DEFINE p == [pass[j] EXCEPT !.todo = @ \ {u}]
  <2>1. pass' = [pass EXCEPT ![j] = p]
    BY <1>0, <1>2 DEF SkipAccount, PassesOK, PassType
  <2>2. PassOK(p)
    BY <1>0, <1>2 DEF SkipAccount, PassOK, PassType
  <2> HIDE DEF p
  <2> QED
    BY <1>0, <2>1, <2>2, OnePass
<1>3. ASSUME NEW u \in Uid, Visit(j, u) PROVE PassesOK'
  <2> DEFINE pc == IF pass[j].kind = "quota" THEN "quota" ELSE "ensure"
             p == [pass[j] EXCEPT !.pc = pc, !.on = Take(u), !.todo = @ \ {u}]
  <2>1. pass' = [pass EXCEPT ![j] = p]
    BY <1>0, <1>3 DEF Visit, PassesOK, PassType
  <2>2. Take(u) \in Work /\ Take(u).acct = u /\ Take(u).login # NoLogin
    BY <1>3, TakeWork DEF Visit
  <2>3. PassOK(p)
    BY <1>0, <2>2 DEF PassOK, PassType
  <2> HIDE DEF p
  <2> QED
    BY <1>0, <2>1, <2>3, OnePass
<1>4. CASE PassEnsured(j)
  <2> DEFINE p == [pass[j] EXCEPT !.pc = "quota"]
  <2>1. CASE pass' = [pass EXCEPT ![j].pc = "quota"]
    <3>1. pass' = [pass EXCEPT ![j] = p]
      BY <1>0, <2>1 DEF PassesOK, PassType
    <3>2. PassOK(p)
      BY <1>0, <1>4 DEF PassEnsured, PassOK, PassType
    <3> HIDE DEF p
    <3> QED
      BY <1>0, <3>1, <3>2, OnePass
  <2> QED
    BY <1>0, <1>4, <2>1, NextAccountOK DEF PassEnsured
<1>5. CASE PassInvalid(j) \/ PassError(j) \/ QuotaExceeded(j)
             \/ \E b \in Balance : QuotaRead(j, b)
  BY <1>0, <1>5, NextAccountOK DEF PassInvalid, PassError, QuotaExceeded, QuotaRead
<1>6. CASE EndPass(j)
  BY <1>0, <1>6, IdleOK, OnePass DEF EndPass
<1> QED
  BY <1>1, <1>2, <1>3, <1>4, <1>5, <1>6 DEF GoOn

(* A new login is written to its file, by a poll or by login.sh. *)
Rewrite(u, l) == LoginByScript(u, l) \/ \E p \in Poll : LoginWrite(p, u, l)

(* The other steps of a device login. *)
FlowStep(p) == LoginRead(p) \/ LoginGone(p) \/ LoginAdd(p) \/ LoginSave(p)

LEMMA RewriteFacts ==
  ASSUME ControlOK, NEW u \in Uid, NEW l \in Login, Rewrite(u, l)
  PROVE  /\ UNCHANGED poolVars /\ UNCHANGED <<req, pass>>
         /\ LoginsStored' /\ MarksOK' /\ dead' \subseteq dead
         /\ auth' = [auth EXCEPT ![u] = l]
         /\ crossed \ {u} \subseteq crossed'
         /\ HasRead(u) => u \in crossed'
<1> USE DEF ControlOK
<1>1. NewFile(u, l)
  BY DEF Rewrite, LoginByScript, LoginWrite
<1>2. crossed' \in {crossed \cup {u}, crossed \ {u}} /\ (HasRead(u) => u \in crossed')
  BY DEF Rewrite, LoginByScript, LoginWrite
<1>3. crossed' \subseteq Uid
  BY <1>2 DEF MarksOK
<1> QED
  BY <1>1, <1>2, <1>3 DEF NewFile, poolVars, LoginsStored, MarksOK

LEMMA RewriteFlow ==
  ASSUME ControlOK, NEW u \in Uid, NEW l \in Login, Rewrite(u, l)
  PROVE  /\ FlowOK'
         /\ \A p \in Poll : \/ flow'[p] = flow[p]
                          \/ /\ flow[p].pc = "idle" /\ flow'[p].pc = "written"
                             /\ flow'[p].on.acct = u
<1> USE DEF ControlOK
<1>1. CASE LoginByScript(u, l)
  BY <1>1 DEF LoginByScript, FlowOK
<1>2. ASSUME NEW p \in Poll, LoginWrite(p, u, l)
      PROVE  /\ FlowOK' /\ flow[p].pc = "idle"
             /\ flow'[p].pc = "written" /\ flow'[p].on.acct = u
             /\ \A q \in Poll : q # p => flow'[q] = flow[q]
  <2> DEFINE f == [pc |-> "written", on |-> [acct |-> u, login |-> l]]
  <2>1. FlowFits(f)
    BY DEF FlowFits, FlowType, Work
  <2>2. flow' = [flow EXCEPT ![p] = f] /\ flow[p].pc = "idle"
    BY <1>2 DEF LoginWrite
  <2>3. f.pc = "written" /\ f.on.acct = u
    OBVIOUS
  <2> HIDE DEF f
  <2> QED
    BY <2>1, <2>2, <2>3, OneFlow
<1> QED
  BY <1>1, <1>2 DEF Rewrite

LEMMA FlowControl ==
  ASSUME ControlOK, NEW p \in Poll, FlowStep(p)
  PROVE  /\ FlowOK' /\ UNCHANGED <<req, pass, auth, dead, crossed>>
         /\ \A q \in Poll : q # p => flow'[q] = flow[q]
         /\ LoginRead(p) => /\ flow'[p].pc = "read" /\ flow'[p].on.acct = flow[p].on.acct
                            /\ flow'[p].on.login = auth[flow[p].on.acct]
         /\ LoginAdd(p) => flow'[p].pc = "added"
         /\ LoginGone(p) \/ LoginSave(p) => flow'[p].pc = "idle"
<1> USE DEF ControlOK
<1>0. FlowFits(flow[p]) /\ flow[p].on \in Work
  BY DEF FlowOK, FlowFits, FlowType
<1>1. UNCHANGED <<req, pass, auth, dead, crossed>>
  BY DEF FlowStep, LoginRead, LoginGone, LoginAdd, LoginSave
<1>2. CASE LoginRead(p)
  <2> DEFINE x == [flow[p].on EXCEPT !.login = auth[flow[p].on.acct]]
             f == [flow[p] EXCEPT !.pc = "read", !.on = x]
  <2>1. flow[p].on.acct \in Uid /\ auth[flow[p].on.acct] \in Login
    BY <1>0, <1>2 DEF LoginRead, FlowFits, LoginsStored
  <2>2. flow' = [flow EXCEPT ![p] = f]
    BY <1>0, <1>2 DEF LoginRead, FlowOK, FlowFits, FlowType
  <2>3. /\ x \in Work /\ x.acct = flow[p].on.acct
        /\ x.login = auth[flow[p].on.acct]
    BY <1>0, <2>1 DEF Work
  <2> HIDE DEF x
  <2>4. f.pc = "read" /\ f.on = x /\ FlowFits(f)
    BY <1>0, <2>1, <2>3 DEF FlowFits, FlowType
  <2> HIDE DEF f
  <2>5. ~LoginAdd(p) /\ ~LoginGone(p) /\ ~LoginSave(p)
    BY <1>2 DEF LoginRead, LoginAdd, LoginGone, LoginSave
  <2> QED
    BY <1>1, <2>2, <2>3, <2>4, <2>5, OneFlow
<1>3. CASE LoginGone(p) \/ LoginSave(p)
  <2>1. flow' = [flow EXCEPT ![p] = NoFlow]
    BY <1>3 DEF LoginGone, LoginSave
  <2>2. ~LoginAdd(p) /\ ~LoginRead(p)
    BY <1>3 DEF LoginRead, LoginAdd, LoginGone, LoginSave
  <2>3. NoFlow.pc = "idle" /\ FlowFits(NoFlow)
    BY IdleOK DEF NoFlow
  <2> QED
    BY <1>1, <2>1, <2>2, <2>3, OneFlow
<1>4. CASE LoginAdd(p)
  <2> DEFINE f == [flow[p] EXCEPT !.pc = "added"]
  <2>1. flow' = [flow EXCEPT ![p] = f]
    BY <1>0, <1>4 DEF LoginAdd, FlowOK, FlowFits, FlowType
  <2>2. FlowFits(f) /\ f.pc = "added"
    BY <1>0, <1>4 DEF LoginAdd, FlowFits, FlowType
  <2> HIDE DEF f
  <2>3. ~LoginRead(p) /\ ~LoginGone(p) /\ ~LoginSave(p)
    BY <1>4 DEF LoginRead, LoginAdd, LoginGone, LoginSave
  <2> QED
    BY <1>1, <2>1, <2>2, <2>3, OneFlow
<1> QED
  BY <1>2, <1>3, <1>4 DEF FlowStep

(* A device login does to the pool what its Add or its save does. *)
LEMMA FlowCalls ==
  ASSUME ControlOK, NEW p \in Poll, FlowStep(p)
  PROVE  \/ UNCHANGED poolVars \/ SaveState
         \/ /\ LoginAdd(p) /\ flow[p].on.acct \in Uid /\ flow[p].on.login \in Login
            /\ AddLogin(flow[p].on.acct, flow[p].on.login)
<1>1. CASE LoginAdd(p)
  <2>1. flow[p].on.acct \in Uid /\ flow[p].on.login \in Login
    BY <1>1 DEF LoginAdd, ControlOK, FlowOK, FlowFits
  <2> QED
    BY <1>1, <2>1 DEF LoginAdd, AddLogin
<1>2. CASE LoginRead(p) \/ LoginGone(p) \/ LoginSave(p)
  BY <1>2 DEF LoginRead, LoginGone, LoginSave, poolVars
<1> QED
  BY <1>1, <1>2 DEF FlowStep

RelayInv == PoolInv /\ ControlOK

LEMMA RelayInvInit == Init => RelayInv
<1> SUFFICES ASSUME Init PROVE RelayInv
  OBVIOUS
<1>1. auth \in [Uid -> Login \cup {Absent}]
  BY DEF Init
<1>2. PICK f \in Fp : byUID = [u \in Uid |-> Started(Absent, auth[u], f)]
  BY DEF Init
<1>3. ASSUME NEW u \in Uid
      PROVE  /\ byUID[u] \in Entry \cup {Absent}
             /\ Held(u) => GoodEntry(byUID[u])
             /\ state[u] \in Saved \cup {Absent}
             /\ Held(u) => OnDisk(u)
  <2>1. byUID[u] # Absent => GoodEntry(byUID[u])
    BY <1>1, <1>2, StartedGood
  <2>2. byUID[u] \in Entry \cup {Absent}
    BY <2>1 DEF GoodEntry
  <2>3. state[u] = Save(byUID[u])
    BY DEF Init, Persisted
  <2>4. CASE Held(u)
    <3>1. state[u] \in Saved
      BY <2>2, <2>3, <2>4, SaveType DEF Held
    <3> QED
      BY <2>1, <2>2, <2>3, <2>4, <3>1, AbsentAssumption DEF Held, Save, OnDisk
  <2>5. CASE ~Held(u)
    BY <2>2, <2>3, <2>5 DEF Held, Save
  <2> QED
    BY <2>1, <2>2, <2>4, <2>5 DEF Held
<1>4. PoolTypeOK
  <2>1. byUID = [u \in Uid |-> byUID[u]] /\ state = [u \in Uid |-> state[u]]
    BY <1>2 DEF Init, Persisted
  <2>2. /\ byUID \in [Uid -> Entry \cup {Absent}]
        /\ state \in [Uid -> Saved \cup {Absent}]
    BY <1>3, <2>1
  <2> QED
    BY <1>3, <2>2 DEF PoolTypeOK, Init, GoodEntry
<1>5. PoolInv
  BY <1>3, <1>4 DEF PoolInv, Durable
<1>6. ControlOK
  BY <1>1, IdleOK, WorkFacts
  DEF Init, ControlOK, ReqsOK, ReqOK, PassesOK, PassOK, FlowOK, FlowFits, LoginsStored, MarksOK
<1> QED
  BY <1>5, <1>6 DEF RelayInv

LEMMA RelayInvStep == RelayInv /\ [Next]_relayVars => RelayInv'
<1> SUFFICES ASSUME RelayInv, [Next]_relayVars PROVE RelayInv'
  OBVIOUS
<1> USE DEF RelayInv
<1>0. LoginsStored
  BY DEF ControlOK
<1>1. ASSUME NEW r \in Request, Arrive(r) \/ Proceed(r) PROVE RelayInv'
  <2>1. PoolInv'
    BY <1>0, <1>1, RequestCalls, PoolMoveInv DEF PoolMove, CallBy, Call
  <2>2. ReqsOK'
    BY <1>1, RequestControl
  <2> QED
    BY <1>1, <2>1, <2>2, RequestCalls
    DEF ControlOK, PassesOK, FlowOK, LoginsStored, MarksOK
<1>2. ASSUME NEW j \in Pass,
             GoOn(j) \/ \E kind \in {"checkin", "keepalive", "quota"} : StartPass(j, kind)
      PROVE  RelayInv'
  <2>1. PoolInv'
    BY <1>0, <1>2, PassCalls, PoolMoveInv DEF PoolMove, CallBy, Call
  <2>2. PassesOK'
    BY <1>2, PassControl
  <2> QED
    BY <1>2, <2>1, <2>2, PassCalls
    DEF ControlOK, ReqsOK, FlowOK, LoginsStored, MarksOK
<1>3. ASSUME NEW p \in Poll, FlowStep(p) PROVE RelayInv'
  <2>1. PoolMove
    BY <1>3, FlowCalls DEF PoolMove
  <2>2. PoolInv'
    BY <1>0, <2>1, PoolMoveInv
  <2> QED
    BY <1>3, <2>2, FlowControl DEF ControlOK, ReqsOK, PassesOK, LoginsStored, MarksOK
<1>8. ASSUME NEW u \in Uid, NEW l \in Login, Rewrite(u, l) PROVE RelayInv'
  <2>1. PoolInv'
    BY <1>0, <1>8, RewriteFacts, PoolMoveInv DEF PoolMove
  <2> QED
    BY <1>8, <2>1, RewriteFacts, RewriteFlow DEF ControlOK, ReqsOK, PassesOK
<1>4. ASSUME NEW u \in Uid, DeleteAccount(u) \/ Die(u) PROVE RelayInv'
  <2>1. UNCHANGED poolVars /\ UNCHANGED <<req, pass, flow>>
    BY <1>4 DEF DeleteAccount, Die, poolVars
  <2>2. LoginsStored' /\ MarksOK'
    BY <1>4 DEF DeleteAccount, Die, ControlOK, LoginsStored, MarksOK
  <2>3. PoolInv'
    BY <1>0, <2>1, PoolMoveInv DEF PoolMove
  <2> QED
    BY <2>1, <2>2, <2>3 DEF ControlOK, ReqsOK, PassesOK, FlowOK
<1>5. CASE RelayRestart
  <2>1. PoolInv'
    BY <1>0, <1>5, PoolMoveInv DEF RelayRestart, PoolMove, Reload
  <2>2. ReqsOK' /\ PassesOK' /\ FlowOK'
    BY <1>5, IdleOK, WorkFacts
    DEF RelayRestart, ReqsOK, ReqOK, PassesOK, PassOK, FlowOK, FlowFits
  <2> QED
    BY <1>5, <2>1, <2>2 DEF RelayRestart, ControlOK, LoginsStored, MarksOK
<1>6. CASE RelayTick
  <2>1. PoolInv'
    BY <1>0, <1>6, PoolMoveInv DEF RelayTick, PoolMove
  <2> QED
    BY <1>6, <2>1
    DEF RelayTick, ControlOK, ReqsOK, PassesOK, FlowOK, LoginsStored, MarksOK
<1>7. CASE UNCHANGED relayVars
  <2>1. PoolInv'
    BY <1>0, <1>7, PoolMoveInv DEF relayVars, poolVars, PoolMove
  <2> QED
    BY <1>7, <2>1
    DEF relayVars, ControlOK, ReqsOK, PassesOK, FlowOK, LoginsStored, MarksOK
<1> QED
  BY <1>1, <1>2, <1>3, <1>4, <1>5, <1>6, <1>7, <1>8 DEF Next, Rewrite, FlowStep

(* Nobody has an account in hand but while working on it, and nobody        *)
(* forwards a request to an account that is known only from state.json.     *)
THEOREM RelayTypeCorrect == Spec => []RelayTypeOK
<1>1. RelayInv => RelayTypeOK
  BY ControlType DEF RelayInv
<1> QED
  BY <1>1, RelayInvInit, RelayInvStep, PTL DEF Spec

(* The pool of a server at work keeps the promise it makes on its own: as   *)
(* long as the last save worked, no ban, balance or cooldown is only in     *)
(* memory, whatever requests, passes, logins and restarts run.              *)
THEOREM RelayDurable == Spec => []Durable
<1>1. RelayInv => Durable
  BY DEF RelayInv, PoolInv
<1> QED
  BY <1>1, RelayInvInit, RelayInvStep, PTL DEF Spec

-----------------------------------------------------------------------------
(* The auth directory and the pool. *)

SameLogins ==
  \A u \in Uid : Held(u) => Held(u)' /\ byUID'[u].c.login = byUID[u].c.login

(* A call puts an entry with the same credential; only Disable disables. *)
LEMMA CallEntry ==
  ASSUME PoolInv, NEW u \in Uid, Call(u)
  PROVE  \E e : /\ Put(u, e)
                /\ Held(u) => /\ GoodEntry(e) /\ e.c = byUID[u].c
                              /\ Harsh(u) \/ Mild(u) => e.disabled = byUID[u].disabled
                              /\ Mild(u) => e.left \in {byUID[u].left, 0}
<1> DEFINE Fits(e) ==
      Held(u) => /\ GoodEntry(e) /\ e.c = byUID[u].c
                 /\ Harsh(u) \/ Mild(u) => e.disabled = byUID[u].disabled
                 /\ Mild(u) => e.left \in {byUID[u].left, 0}
<1>0. Held(u) => GoodEntry(byUID[u]) /\ byUID[u] \in Entry
  BY TypeIsGoodPool DEF PoolInv, GoodPool, GoodEntry
<1>1. CASE Mild(u)
  <2>1. ASSUME NoteSuccess(u) PROVE \E e : Put(u, e) /\ Fits(e)
    <3>1. Fits([byUID[u] EXCEPT !.errCount = 0])
      BY <1>0, ThresholdAssumption DEF GoodEntry, Entry
    <3> HIDE DEF Fits
    <3> QED
      BY <2>1, <3>1 DEF NoteSuccess
  <2>2. ASSUME NEW b \in Balance, ReenableIfCredits(u, b)
        PROVE  \E e : Put(u, e) /\ Fits(e)
    <3>1. Held(u) => GoodEntry(Thawed(byUID[u], b))
      BY <1>0, ThawedGood
    <3>2. Fits(Thawed(byUID[u], b))
      BY <1>0, <3>1 DEF Thawed, Entry
    <3> HIDE DEF Fits
    <3> QED
      BY <2>2, <3>2 DEF ReenableIfCredits
  <2> QED
    BY <1>1, <2>1, <2>2 DEF Mild
<1>2. CASE Harsh(u) /\ ~Mild(u)
  <2>1. ASSUME NEW d \in Nat \ {0}, Cooldown(u, d)
        PROVE  \E e : Put(u, e) /\ Fits(e)
    <3>1. Fits([byUID[u] EXCEPT !.left = d, !.errCount = 0])
      BY <1>0, <1>2, CooledGood DEF Entry
    <3> HIDE DEF Fits
    <3> QED
      BY <2>1, <3>1 DEF Cooldown
  <2>2. ASSUME NoteError(u, ErrCooldown)
        PROVE  \E e : Put(u, e) /\ Fits(e)
    <3>1. Held(u) => GoodEntry(AfterError(byUID[u], ErrCooldown))
      BY <1>0, AfterErrorGood, CooldownAssumption DEF Cooldowns
    <3>2. Fits(AfterError(byUID[u], ErrCooldown))
      BY <1>0, <1>2, <3>1 DEF AfterError, Entry
    <3> HIDE DEF Fits
    <3> QED
      BY <2>2, <3>2 DEF NoteError
  <2> QED
    BY <1>2, <2>1, <2>2 DEF Harsh
<1>3. CASE Disable(u) /\ ~Mild(u) /\ ~Harsh(u)
  <2>1. Fits([byUID[u] EXCEPT !.disabled = TRUE])
    BY <1>0, <1>3 DEF GoodEntry, Entry
  <2>2. \E e : Put(u, e) /\ Fits(e)
    <3> HIDE DEF Fits
    <3> QED
      BY <1>3, <2>1 DEF Disable
  <2> QED
    BY <2>2
<1> QED
  BY <1>1, <1>2, <1>3 DEF Call

LEMMA CallKeepsLogins ==
  ASSUME PoolInv, NEW u \in Uid, Call(u)
  PROVE  SameLogins
<1>1. PICK e : Put(u, e) /\ (Held(u) => GoodEntry(e) /\ e.c = byUID[u].c)
  BY CallEntry
<1>2. GoodPool
  BY TypeIsGoodPool DEF PoolInv
<1>3. ASSUME NEW w \in Uid, Held(w)
      PROVE  Held(w)' /\ byUID'[w].c.login = byUID[w].c.login
  <2>1. byUID'[w] = IF w = u /\ Held(u) THEN e ELSE byUID[w]
    BY <1>1, <1>2, PutEffect
  <2>2. CASE w = u
    BY <1>1, <1>3, <2>1, <2>2, AbsentAssumption DEF Held, GoodEntry
  <2>3. CASE w # u
    BY <1>3, <2>1, <2>3 DEF Held
  <2> QED
    BY <2>2, <2>3
<1> QED
  BY <1>3 DEF SameLogins

LEMMA TickKeepsLogins ==
  ASSUME PoolInv, Tick
  PROVE  SameLogins
<1>1. ASSUME NEW u \in Uid, Held(u)
      PROVE  Held(u)' /\ byUID'[u].c.login = byUID[u].c.login
  <2>1. byUID[u] \in Entry /\ GoodEntry(byUID[u]) /\ byUID'[u] = Elapse(byUID[u])
    BY <1>1, TypeIsGoodPool DEF Tick, PoolInv, GoodPool, GoodEntry
  <2>2. byUID'[u] # Absent
    BY <2>1, ElapseGood, AbsentAssumption DEF GoodEntry
  <2> QED
    BY <2>1, <2>2 DEF Held, Elapse, Entry
<1> QED
  BY <1>1 DEF SameLogins

(* What a poll has read back is what the file has, unless the file was      *)
(* deleted, or written again in between.                                    *)
ReadBack(p) ==
  (flow[p].pc = "read" /\ flow[p].on.acct \notin crossed)
    => auth[flow[p].on.acct] \in {flow[p].on.login, Absent}

FilesKept == FileInPool /\ \A p \in Poll : ReadBack(p)

LEMMA FilesFrame ==
  ASSUME FilesKept, SameLogins, UNCHANGED <<flow, auth, crossed>>
  PROVE  FilesKept'
BY DEF FilesKept, FileInPool, ReadBack, SameLogins, LoggingIn, HasRead

LEMMA FilesRewrite ==
  ASSUME RelayInv, FilesKept, NEW u \in Uid, NEW l \in Login, Rewrite(u, l)
  PROVE  FilesKept'
<1> USE DEF RelayInv
<1>1. \A w \in Uid : w # u => auth'[w] = auth[w]
  BY RewriteFacts DEF ControlOK, LoginsStored
<1>2. ASSUME NEW w \in Uid \ crossed', auth'[w] # Absent, ~LoggingIn(w)'
      PROVE  Held(w)' /\ byUID'[w].c.login = auth'[w]
  <2>1. CASE w = u
    <3>1. ~LoginByScript(u, l)
      BY <1>2, <2>1 DEF LoginByScript
    <3>2. PICK p \in Poll : LoginWrite(p, u, l)
      BY <3>1 DEF Rewrite
    <3>3. flow'[p].pc = "written" /\ flow'[p].on.acct = u
      BY <3>2 DEF LoginWrite, ControlOK, FlowOK
    <3> QED
      BY <1>2, <2>1, <3>3 DEF LoggingIn
  <2>2. CASE w # u
    <3>1. w \in Uid \ crossed
      BY <1>2, <2>2, RewriteFacts
    <3>2. ~LoggingIn(w)
      BY <1>2, RewriteFlow DEF LoggingIn, HasRead
    <3>3. Held(w) /\ byUID[w].c.login = auth[w]
      BY <1>1, <1>2, <2>2, <3>1, <3>2 DEF FilesKept, FileInPool
    <3> QED
      BY <1>1, <2>2, <3>3, RewriteFacts DEF poolVars, Held
  <2> QED
    BY <2>1, <2>2
<1>3. ASSUME NEW p \in Poll, flow'[p].pc = "read", flow'[p].on.acct \notin crossed'
      PROVE  auth'[flow'[p].on.acct] \in {flow'[p].on.login, Absent}
  <2>1. flow'[p] = flow[p]
    BY <1>3, RewriteFlow
  <2>2. flow[p].on.acct # u
    BY <1>3, <2>1, RewriteFacts DEF HasRead
  <2>3. flow[p].on.acct \in Uid \ crossed
    BY <1>3, <2>1, <2>2, RewriteFacts DEF ControlOK, FlowOK, FlowFits
  <2> QED
    BY <1>1, <1>3, <2>1, <2>2, <2>3 DEF FilesKept, ReadBack
<1> QED
  BY <1>2, <1>3 DEF FilesKept, FileInPool, ReadBack

(* After Add the pool has the credential that was read back. *)
LEMMA AddedLogin ==
  ASSUME PoolInv, NEW u \in Uid, NEW l \in Login, AddLogin(u, l)
  PROVE  /\ Held(u)' /\ byUID'[u].c.login = l
         /\ \A w \in Uid \ {u} : byUID'[w] = byUID[w]
<1>1. PICK f \in Fp : Add(u, [login |-> l, fp |-> f])
  BY DEF AddLogin
<1> DEFINE c == [login |-> l, fp |-> f]
<1>2. c \in Cred /\ c.login = l
  BY DEF Cred
<1>3. byUID' = [byUID EXCEPT ![u] = AddTo(byUID[u], c)] /\ GoodPool
  BY <1>1, TypeIsGoodPool DEF Add, PoolInv
<1> HIDE DEF c
<1>4. byUID'[u] = AddTo(byUID[u], c)
  BY <1>3 DEF GoodPool
<1>5. GoodEntry(AddTo(byUID[u], c))
  BY <1>2, <1>3, AddToGood DEF GoodPool, Held
<1>6. CASE ~Held(u)
  <2>1. byUID'[u] = NewEntry(c) /\ GoodEntry(byUID'[u])
    BY <1>4, <1>5, <1>6 DEF Held, AddTo
  <2>2. byUID'[u] # Absent
    BY <2>1, AbsentAssumption DEF GoodEntry
  <2>3. byUID'[u].c = c
    BY <2>1 DEF NewEntry
  <2> QED
    BY <1>2, <1>3, <2>2, <2>3 DEF Held, GoodPool
<1>7. CASE Held(u)
  <2>1. AddTo(byUID[u], c) = [byUID[u] EXCEPT !.c = KeepFp(byUID[u].c, c)]
    BY <1>7 DEF Held, AddTo
  <2>2. KeepFp(byUID[u].c, c).login = c.login
    BY <1>2 DEF KeepFp, Cred
  <2>3. byUID[u] \in Entry
    BY <1>3, <1>7 DEF GoodPool, GoodEntry
  <2>4. Held(u)' /\ byUID'[u].c.login = l
    BY <1>2, <1>4, <1>5, <2>1, <2>2, <2>3, AbsentAssumption DEF Held, GoodEntry, Entry
  <2> QED
    BY <1>3, <2>4 DEF GoodPool
<1> QED
  BY <1>6, <1>7

LEMMA FilesLogin ==
  ASSUME RelayInv, FilesKept, NEW p \in Poll, FlowStep(p)
  PROVE  FilesKept'
<1> USE DEF RelayInv
<1>0. /\ FlowOK' /\ UNCHANGED <<auth, crossed>>
      /\ \A q \in Poll : q # p => flow'[q] = flow[q]
      /\ flow[p].pc # "idle" => flow[p].on.acct \in Uid
  BY FlowControl DEF ControlOK, FlowOK, FlowFits
<1>1. CASE LoginRead(p)
  <2>1. /\ flow'[p].pc = "read" /\ flow'[p].on.acct = flow[p].on.acct
        /\ flow'[p].on.login = auth[flow[p].on.acct]
        /\ flow[p].pc = "written" /\ UNCHANGED byUID
    BY <1>1, FlowControl DEF LoginRead
  <2>2. \A u \in Uid : LoggingIn(u) => LoggingIn(u)'
    BY <1>0, <2>1 DEF LoggingIn, HasRead
  <2> QED
    BY <1>0, <2>1, <2>2 DEF FilesKept, FileInPool, ReadBack, Held
<1>2. CASE LoginSave(p)
  <2>1. /\ flow[p].pc = "added" /\ flow'[p].pc = "idle" /\ UNCHANGED byUID
    BY <1>2, FlowControl DEF LoginSave, SaveState
  <2>2. \A u \in Uid : LoggingIn(u) => LoggingIn(u)'
    BY <1>0, <2>1 DEF LoggingIn, HasRead
  <2> QED
    BY <1>0, <2>1, <2>2 DEF FilesKept, FileInPool, ReadBack, Held
<1>3. CASE LoginGone(p)
  <2>1. /\ flow[p].pc = "written" /\ auth[flow[p].on.acct] = Absent
        /\ flow'[p].pc = "idle" /\ UNCHANGED byUID
    BY <1>3, FlowControl DEF LoginGone
  <2>2. \A u \in Uid : LoggingIn(u) /\ u # flow[p].on.acct => LoggingIn(u)'
    BY <1>0 DEF LoggingIn, HasRead
  <2> QED
    BY <1>0, <2>1, <2>2 DEF FilesKept, FileInPool, ReadBack, Held
<1>4. CASE LoginAdd(p)
  <2>0. PICK u \in Uid : u = flow[p].on.acct
    BY <1>0, <1>4 DEF LoginAdd
  <2>1. flow[p].pc = "read" /\ flow'[p].pc = "added"
    BY <1>4, FlowControl DEF LoginAdd
  <2>2. flow[p].on.login \in Login /\ AddLogin(u, flow[p].on.login)
    BY <1>4, <2>0, <2>1 DEF LoginAdd, AddLogin, ControlOK, FlowOK, FlowFits
  <2>3. u \notin crossed => auth[u] \in {flow[p].on.login, Absent}
    BY <2>0, <2>1 DEF FilesKept, ReadBack
  <2>4. \A w \in Uid : LoggingIn(w) /\ w # u => LoggingIn(w)'
    BY <1>0, <2>0 DEF LoggingIn, HasRead
  <2>5. /\ Held(u)' /\ byUID'[u].c.login = flow[p].on.login
        /\ \A w \in Uid \ {u} : byUID'[w] = byUID[w]
    BY <2>1, <2>2, AddedLogin
  <2>6. FileInPool'
    BY <1>0, <2>1, <2>3, <2>4, <2>5 DEF FilesKept, FileInPool, Held
  <2>7. \A q \in Poll : ReadBack(q)'
    BY <1>0, <2>1 DEF FilesKept, ReadBack
  <2> QED
    BY <2>6, <2>7 DEF FilesKept
<1> QED
  BY <1>1, <1>2, <1>3, <1>4 DEF FlowStep

LEMMA FilesStep == RelayInv /\ FilesKept /\ [Next]_relayVars => FilesKept'
<1> SUFFICES ASSUME RelayInv, FilesKept, [Next]_relayVars PROVE FilesKept'
  OBVIOUS
<1> USE DEF RelayInv
<1>1. ASSUME NEW r \in Request, Arrive(r) \/ Proceed(r) PROVE FilesKept'
  <2>1. SameLogins
    BY <1>1, RequestCalls, CallKeepsLogins DEF CallBy, Call, poolVars, SameLogins, Held
  <2> QED
    BY <1>1, <2>1, RequestCalls, FilesFrame
<1>2. ASSUME NEW j \in Pass,
             GoOn(j) \/ \E kind \in {"checkin", "keepalive", "quota"} : StartPass(j, kind)
      PROVE  FilesKept'
  <2>1. SameLogins
    BY <1>2, PassCalls, CallKeepsLogins
    DEF CallBy, Call, poolVars, SaveState, SameLogins, Held
  <2> QED
    BY <1>2, <2>1, PassCalls, FilesFrame
<1>3. ASSUME NEW u \in Uid, DeleteAccount(u) \/ Die(u) PROVE FilesKept'
  <2>1. /\ UNCHANGED <<byUID, flow, crossed>>
        /\ \A w \in Uid : auth'[w] \in {auth[w], Absent}
    BY <1>3 DEF DeleteAccount, Die, ControlOK, LoginsStored
  <2>2. \A p \in Poll : flow[p].pc = "read" => flow[p].on.acct \in Uid
    BY DEF ControlOK, FlowOK, FlowFits
  <2>3. FileInPool'
    BY <2>1 DEF FilesKept, FileInPool, LoggingIn, HasRead, Held
  <2> QED
    BY <2>1, <2>2, <2>3 DEF FilesKept, ReadBack
<1>4. CASE RelayRestart
  <2>1. PICK saved \in Readable, f \in Fp :
          \A u \in Uid : /\ saved[u] \in Saved \cup {Absent}
                         /\ byUID'[u] = Started(saved[u], auth[u], f)
    BY <1>4, Reloaded DEF RelayRestart, Reload, ControlOK
  <2>2. ASSUME NEW u \in Uid, auth[u] # Absent
        PROVE  Held(u)' /\ byUID'[u].c.login = auth[u]
    <3>1. auth[u] \in Login \cup {Absent} /\ saved[u] \in Saved \cup {Absent}
      BY <2>1 DEF ControlOK, LoginsStored
    <3>2. Started(saved[u], auth[u], f) # Absent
      BY <2>2, <3>1, StartedGood
    <3>3. Started(saved[u], auth[u], f).c.login = auth[u]
      BY <2>2, <3>1, StartedGood
    <3> QED
      BY <2>1, <3>2, <3>3 DEF Held
  <2> QED
    BY <1>4, <2>2 DEF RelayRestart, NoFlow, FilesKept, FileInPool, ReadBack
<1>5. CASE RelayTick
  BY <1>5, TickKeepsLogins, FilesFrame DEF RelayTick
<1>6. CASE UNCHANGED relayVars
  BY <1>6, FilesFrame DEF relayVars, SameLogins, Held
<1> QED
  BY <1>1, <1>2, <1>3, <1>4, <1>5, <1>6, FilesLogin, FilesRewrite DEF Next, Rewrite, FlowStep

LEMMA FilesInit == Init => FilesKept
<1> SUFFICES ASSUME Init PROVE FilesKept
  OBVIOUS
<1>1. PICK f \in Fp : byUID = [u \in Uid |-> Started(Absent, auth[u], f)]
  BY DEF Init
<1>2. \A u \in Uid : auth[u] # Absent => Held(u) /\ byUID[u].c.login = auth[u]
  BY <1>1, StartedGood DEF Held, Init
<1> QED
  BY <1>2 DEF FilesKept, FileInPool, ReadBack, Init, NoFlow

(* For any number of device logins at once, of one account even, the pool   *)
(* uses the credential of the auth file once they are completed: no call,   *)
(* pass, deletion or restart mixes them up.  Left out are the accounts      *)
(* whose file was last written by login.sh, or between LoadFile() and Add() *)
(* of another poll for them (user_api.go:281-294), and not loaded since.    *)
THEOREM FilesAreInPool == Spec => []FileInPool
<1>1. FilesKept => FileInPool
  BY DEF FilesKept
<1>2. Init => RelayInv /\ FilesKept
  BY RelayInvInit, FilesInit
<1>3. RelayInv /\ FilesKept /\ [Next]_relayVars => (RelayInv /\ FilesKept)'
  BY RelayInvStep, FilesStep
<1> QED
  BY <1>1, <1>2, <1>3, PTL DEF Spec

-----------------------------------------------------------------------------
(* What one step of the relay does to the pool. *)

InHands == {req[r].on : r \in Request} \cup {pass[j].on : j \in Pass}

RelayMove ==
  \/ UNCHANGED poolVars \/ SaveState \/ Tick \/ (Reload /\ RelayRestart)
  \/ \E x \in InHands : CallBy(x)
  \/ \E u \in Uid, l \in Login : AddLogin(u, l)

LEMMA RelayMoves ==
  ASSUME RelayInv, [Next]_relayVars
  PROVE  RelayMove
<1> USE DEF RelayInv
<1>1. ASSUME NEW r \in Request, Arrive(r) \/ Proceed(r) PROVE RelayMove
  BY <1>1, RequestCalls DEF RelayMove, InHands
<1>2. ASSUME NEW j \in Pass,
             GoOn(j) \/ \E kind \in {"checkin", "keepalive", "quota"} : StartPass(j, kind)
      PROVE  RelayMove
  BY <1>2, PassCalls DEF RelayMove, InHands
<1>3. ASSUME NEW p \in Poll, FlowStep(p) PROVE RelayMove
  BY <1>3, FlowCalls DEF RelayMove
<1>6. ASSUME NEW u \in Uid, NEW l \in Login, Rewrite(u, l) PROVE RelayMove
  BY <1>6, RewriteFacts DEF RelayMove
<1>4. CASE (\E u \in Uid : DeleteAccount(u) \/ Die(u)) \/ UNCHANGED relayVars
  BY <1>4 DEF DeleteAccount, Die, relayVars, RelayMove, poolVars
<1>5. CASE RelayRestart \/ RelayTick
  BY <1>5 DEF RelayRestart, RelayTick, Reload, RelayMove
<1> QED
  BY <1>1, <1>2, <1>3, <1>4, <1>5, <1>6 DEF Next, Rewrite, FlowStep

(* Unless the last save failed, state.json has nothing that is not in       *)
(* memory: the converse of Durable.  A restart then frees or bans nobody.   *)
DiskAgrees ==
  lastSaveFailed \/ \A u \in Uid : state[u] # Absent => Held(u) /\ OnDisk(u)

LEMMA SaveAgrees ==
  ASSUME PoolInv', SaveLocked
  PROVE  DiskAgrees'
<1>1. CASE lastSaveFailed' = TRUE
  BY <1>1 DEF DiskAgrees
<1>2. CASE state' = Persisted'
  <2>1. ASSUME NEW u \in Uid, state'[u] # Absent
        PROVE  Held(u)' /\ OnDisk(u)'
    <3>1. state'[u] = Save(byUID'[u])
      BY <1>2 DEF Persisted
    <3>2. byUID'[u] # Absent
      BY <2>1, <3>1 DEF Save
    <3> QED
      BY <2>1, <3>1, <3>2 DEF Save, Held, OnDisk
  <2> QED
    BY <2>1 DEF DiskAgrees
<1> QED
  BY <1>1, <1>2 DEF SaveLocked

LEMMA UnsavedAgrees ==
  ASSUME DiskAgrees, Unsaved,
         \A u \in Uid : Held(u) => /\ Held(u)'
                                  /\ byUID'[u].credits = byUID[u].credits
                                  /\ byUID'[u].disabled = byUID[u].disabled
                                  /\ byUID'[u].left = byUID[u].left
  PROVE  DiskAgrees'
BY DEF DiskAgrees, Unsaved, OnDisk

LEMMA CallAgrees ==
  ASSUME PoolInv, PoolInv', DiskAgrees, NEW u \in Uid, Call(u)
  PROVE  DiskAgrees'
<1>1. CASE SaveLocked
  BY <1>1, SaveAgrees
<1>2. CASE NoteSuccess(u)
  <2> DEFINE e == [byUID[u] EXCEPT !.errCount = 0]
  <2>1. Put(u, e) /\ Unsaved
    BY <1>2 DEF NoteSuccess
  <2>2. GoodPool
    BY TypeIsGoodPool DEF PoolInv
  <2>3. ASSUME NEW w \in Uid, Held(w)
        PROVE  /\ Held(w)'
               /\ byUID'[w].credits = byUID[w].credits
               /\ byUID'[w].disabled = byUID[w].disabled
               /\ byUID'[w].left = byUID[w].left
    <3>1. byUID[w] \in Entry
      BY <2>2, <2>3 DEF GoodPool, GoodEntry
    <3>2. CASE w = u
      <4>1. /\ e \in Entry /\ e.credits = byUID[w].credits
            /\ e.disabled = byUID[w].disabled /\ e.left = byUID[w].left
        BY <3>1, <3>2 DEF Entry
      <4> HIDE DEF e
      <4>2. byUID'[w] = e
        BY <2>1, <2>2, <2>3, <3>2, PutEffect
      <4> QED
        BY <4>1, <4>2, AbsentAssumption DEF Held
    <3>3. CASE w # u
      <4> HIDE DEF e
      <4>1. byUID'[w] = byUID[w]
        BY <2>1, <2>2, <3>3, PutEffect
      <4> QED
        BY <2>3, <4>1 DEF Held
    <3> QED
      BY <3>2, <3>3
  <2> QED
    BY <2>1, <2>3, UnsavedAgrees
<1> QED
  BY <1>1, <1>2
  DEF Call, Harsh, Mild, Disable, NoteError, Cooldown, ReenableIfCredits

LEMMA AddLoginAgrees ==
  ASSUME PoolInv, DiskAgrees, NEW u \in Uid, NEW l \in Login, AddLogin(u, l)
  PROVE  /\ DiskAgrees'
         /\ \A w \in Uid : Held(w) => byUID'[w].disabled = byUID[w].disabled
<1>1. PICK f \in Fp : Add(u, [login |-> l, fp |-> f])
  BY DEF AddLogin
<1> DEFINE c == [login |-> l, fp |-> f]
<1>2. /\ byUID' = [byUID EXCEPT ![u] = AddTo(byUID[u], c)] /\ Unsaved
      /\ c \in Cred /\ GoodPool
  BY <1>1, TypeIsGoodPool DEF Add, PoolInv, Cred
<1> HIDE DEF c
<1>3. ASSUME NEW w \in Uid, Held(w)
      PROVE  /\ Held(w)'
             /\ byUID'[w].credits = byUID[w].credits
             /\ byUID'[w].disabled = byUID[w].disabled
             /\ byUID'[w].left = byUID[w].left
  <2>1. byUID[w] \in Entry
    BY <1>2, <1>3 DEF GoodPool, GoodEntry
  <2>2. CASE w = u
    <3>1. byUID'[w] = [byUID[w] EXCEPT !.c = KeepFp(byUID[w].c, c)]
      BY <1>2, <1>3, <2>2 DEF GoodPool, AddTo, Held
    <3>2. KeepFp(byUID[w].c, c) \in Cred
      BY <1>2, <2>1, KeepFpCred DEF Entry
    <3>3. byUID'[w] \in Entry
      BY <2>1, <3>1, <3>2 DEF Entry
    <3> QED
      BY <2>1, <3>1, <3>3, AbsentAssumption DEF Held, Entry
  <2>3. CASE w # u
    BY <1>2, <1>3, <2>3 DEF GoodPool, Held
  <2> QED
    BY <2>2, <2>3
<1> QED
  BY <1>2, <1>3, UnsavedAgrees

LEMMA TickAgrees ==
  ASSUME PoolInv, DiskAgrees, Tick
  PROVE  DiskAgrees'
<1>1. CASE lastSaveFailed
  BY <1>1 DEF Tick, DiskAgrees
<1>2. CASE ~lastSaveFailed
  <2>1. ASSUME NEW u \in Uid, state'[u] # Absent
        PROVE  Held(u)' /\ OnDisk(u)'
    <3>1. byUID'[u] = Elapse(byUID[u]) /\ state'[u] = Elapse(state[u])
      BY DEF Tick
    <3>2. state[u] # Absent
      BY <2>1, <3>1 DEF Elapse
    <3>3. Held(u) /\ OnDisk(u)
      BY <1>2, <3>2 DEF DiskAgrees
    <3>4. byUID[u] \in Entry /\ GoodEntry(byUID[u]) /\ state[u] \in Saved
      BY <3>2, <3>3, TypeIsGoodPool DEF PoolInv, PoolTypeOK, GoodPool, GoodEntry, Held
    <3>5. /\ Elapse(byUID[u]).credits = byUID[u].credits
          /\ Elapse(byUID[u]).disabled = byUID[u].disabled
          /\ Elapse(byUID[u]).left = IF byUID[u].left = 0 THEN 0 ELSE byUID[u].left - 1
      BY <3>3, <3>4 DEF Elapse, Entry, Held
    <3>6. /\ Elapse(state[u]).credits = state[u].credits
          /\ Elapse(state[u]).disabled = state[u].disabled
          /\ Elapse(state[u]).left = IF state[u].left = 0 THEN 0 ELSE state[u].left - 1
      BY <3>2, <3>4 DEF Elapse, Saved
    <3>7. byUID'[u] # Absent
      BY <3>1, <3>4, ElapseGood, AbsentAssumption DEF GoodEntry
    <3> QED
      BY <2>1, <3>1, <3>3, <3>5, <3>6, <3>7 DEF Held, OnDisk
  <2> QED
    BY <2>1 DEF DiskAgrees
<1> QED
  BY <1>1, <1>2

LEMMA DiskAgreesInit == Init => DiskAgrees
BY DEF Init, DiskAgrees, Persisted, Save, Held, OnDisk

LEMMA DiskAgreesStep == RelayInv /\ DiskAgrees /\ [Next]_relayVars => DiskAgrees'
<1> SUFFICES ASSUME RelayInv, DiskAgrees, [Next]_relayVars PROVE DiskAgrees'
  OBVIOUS
<1>0. PoolInv /\ PoolInv'
  BY RelayInvStep DEF RelayInv
<1>1. CASE UNCHANGED poolVars
  BY <1>1 DEF poolVars, DiskAgrees, Held, OnDisk
<1>2. CASE SaveState \/ Reload
  BY <1>0, <1>2, SaveAgrees DEF SaveState, Reload
<1>3. CASE Tick
  BY <1>0, <1>3, TickAgrees
<1>4. ASSUME NEW x \in InHands, CallBy(x) PROVE DiskAgrees'
  BY <1>0, <1>4, CallAgrees DEF CallBy, Call
<1>5. CASE \E u \in Uid, l \in Login : AddLogin(u, l)
  BY <1>0, <1>5, AddLoginAgrees
<1> QED
  BY <1>1, <1>2, <1>3, <1>4, <1>5, RelayMoves DEF RelayMove

LEMMA DisabledStep ==
  ASSUME RelayInv, DiskAgrees, [Next]_relayVars, NEW u \in Uid, NewlyDisabled(u)
  PROVE  Over(u, byUID[u].c.login) \/ Outdated(u) \/ (lastSaveFailed /\ RelayRestart)
<1>0. GoodPool /\ PoolInv /\ Held(u) /\ byUID[u] \in Entry
  BY TypeIsGoodPool DEF RelayInv, PoolInv, NewlyDisabled, GoodPool, GoodEntry
<1>1. CASE UNCHANGED poolVars \/ SaveState
  BY <1>1 DEF poolVars, SaveState, NewlyDisabled
<1>2. CASE Tick
  <2>1. byUID'[u] = Elapse(byUID[u])
    BY <1>2 DEF Tick
  <2>2. byUID'[u].disabled = byUID[u].disabled
    BY <1>0, <2>1 DEF Elapse, Entry
  <2> QED
    BY <2>2 DEF NewlyDisabled
<1>3. CASE Reload /\ RelayRestart
  <2>1. PICK saved \in Readable, f \in Fp :
          \A w \in Uid : /\ saved[w] \in Saved \cup {Absent}
                         /\ byUID'[w] = Started(saved[w], auth[w], f)
    BY <1>0, <1>3, Reloaded DEF RelayInv, ControlOK
  <2>2. saved[u] = state[u] \/ saved[u] = Absent
    BY <2>1 DEF Readable, Empty
  <2>3. byUID'[u] # Absent /\ byUID'[u].disabled
    BY DEF NewlyDisabled, Held
  <2>4. saved[u] # Absent /\ saved[u].disabled
    <3> DEFINE c == [login |-> auth[u], fp |-> f]
    <3>1. byUID'[u] = IF auth[u] = Absent THEN Revive(saved[u]) ELSE AddTo(Revive(saved[u]), c)
      BY <2>1 DEF Started
    <3>2. CASE saved[u] = Absent
      BY <2>3, <3>1, <3>2 DEF Revive, AddTo, NewEntry
    <3>3. CASE saved[u] # Absent
      <4>1. saved[u] \in Saved /\ Revive(saved[u]) \in Entry
        BY <2>1, <3>3, ReviveGood DEF GoodEntry
      <4>2. Revive(saved[u]).disabled = saved[u].disabled
        BY <3>3 DEF Revive
      <4>3. AddTo(Revive(saved[u]), c)
              = [Revive(saved[u]) EXCEPT !.c = KeepFp(Revive(saved[u]).c, c)]
        BY <4>1, AbsentAssumption DEF AddTo
      <4>4. AddTo(Revive(saved[u]), c).disabled = saved[u].disabled
        BY <4>1, <4>2, <4>3 DEF Entry
      <4> QED
        BY <2>3, <3>1, <3>3, <4>2, <4>4
    <3> QED
      BY <3>2, <3>3
  <2> QED
    BY <1>3, <2>2, <2>4 DEF DiskAgrees, OnDisk, NewlyDisabled
<1>4. ASSUME NEW x \in InHands, CallBy(x)
      PROVE  Over(u, byUID[u].c.login) \/ Outdated(u)
  <2>1. x.acct \in Uid /\ Call(x.acct)
    BY <1>4 DEF CallBy, Call
  <2>2. PICK e : /\ Put(x.acct, e)
                 /\ (Held(x.acct) /\ (Harsh(x.acct) \/ Mild(x.acct)))
                      => e.disabled = byUID[x.acct].disabled
    BY <1>0, <2>1, CallEntry
  <2>3. byUID'[u] = IF u = x.acct /\ Held(u) THEN e ELSE byUID[u]
    BY <1>0, <2>1, <2>2, PutEffect
  <2>4. u = x.acct /\ ~Harsh(x.acct) /\ ~Mild(x.acct)
    BY <1>0, <2>2, <2>3 DEF NewlyDisabled
  <2>5. Over(u, x.login)
    BY <1>4, <2>4 DEF CallBy
  <2> QED
    BY <2>4, <2>5 DEF InHands, Outdated
<1>5. CASE \E w \in Uid, l \in Login : AddLogin(w, l)
  BY <1>0, <1>5, AddLoginAgrees DEF NewlyDisabled
<1> QED
  BY <1>1, <1>2, <1>3, <1>4, <1>5, RelayMoves DEF RelayMove

(* Nobody is banned without a cause: an account becomes disabled only when  *)
(* its credential is beyond use, or when a goroutine acts on a credential   *)
(* of the account that has been replaced since; no error, no refusal, no    *)
(* login and no restart bans, except that a restart may bring back the ban  *)
(* of an older state.json after a save that failed.                         *)
THEOREM BansHaveCauses == Spec => DisabledWithCause
<1>1. Init => RelayInv /\ DiskAgrees
  BY RelayInvInit, DiskAgreesInit
<1>2. RelayInv /\ DiskAgrees /\ [Next]_relayVars => (RelayInv /\ DiskAgrees)'
  BY RelayInvStep, DiskAgreesStep
<1>3. RelayInv /\ DiskAgrees /\ [Next]_relayVars
        => [\A u \in Uid :
              NewlyDisabled(u)
                => \/ Over(u, byUID[u].c.login) \/ Outdated(u)
                   \/ lastSaveFailed /\ RelayRestart]_relayVars
  BY DisabledStep
<1> QED
  BY <1>1, <1>2, <1>3, PTL DEF Spec, DisabledWithCause

-----------------------------------------------------------------------------
(* Failover. *)

(* Of any healthy accounts, some have the most credits: Pick finds one.     *)
LEMMA BestExists ==
  ASSUME GoodPool, NEW tried, NEW g \in Uid \ tried, Healthy(byUID[g])
  PROVE  PickSet(byUID, tried) # {}
<1> DEFINE ok == {u \in Uid \ tried : Healthy(byUID[u])}
           Better(u) == {w \in ok : byUID[w].credits > byUID[u].credits}
           Ranks == {Better(u) : u \in ok}
<1>1. \A u \in ok : byUID[u].credits \in Int
  BY BalanceAssumption DEF GoodPool, Healthy, Entry
<1>2. IsFiniteSet(ok) /\ \A u \in ok : IsFiniteSet(Better(u))
  BY FiniteAssumption, FS_Subset
<1>3. Ranks \subseteq FiniteSubsetsOf(ok) /\ Ranks # {}
  BY <1>2 DEF FiniteSubsetsOf
<1>4. PICK R \in Ranks : \A S \in Ranks : <<S, R>> \notin StrictSubsetOrdering(ok)
  <2> HIDE DEF ok, Ranks
  <2> QED
    BY <1>3, FS_StrictSubsetOrderingWellFounded, WFMin
<1>5. PICK u \in ok : R = Better(u)
  OBVIOUS
<1>6. ASSUME NEW w \in ok, byUID[w].credits > byUID[u].credits PROVE FALSE
  <2>1. Better(w) \subseteq Better(u)
    BY <1>1, <1>6
  <2>2. w \in Better(u) /\ w \notin Better(w)
    BY <1>1, <1>6
  <2>3. <<Better(w), Better(u)>> \in StrictSubsetOrdering(ok)
    BY <2>1, <2>2 DEF StrictSubsetOrdering
  <2> QED
    BY <1>4, <1>5, <2>3
<1>7. \A w \in ok : byUID[w].credits <= byUID[u].credits
  BY <1>1, <1>6
<1>8. u \in PickSet(byUID, tried)
  BY <1>5, <1>7 DEF PickSet
<1> QED
  BY <1>8

(* What a Good account keeps: its entry is healthy and has a credential,    *)
(* nothing on disk says otherwise, it has an auth file, and no login of it  *)
(* ends.                                                                    *)
Fit(g) == Held(g) /\ ~byUID[g].disabled /\ byUID[g].left = 0 /\ byUID[g].c.login # NoLogin
FitOnDisk(g) == state[g] # Absent => ~state[g].disabled /\ state[g].left = 0
Alive(g) == auth[g] # Absent /\ \A l \in Login : <<g, l>> \notin dead

Enough == Good # {} /\ Cardinality(Uid) <= MaxRotate

(* A request holds no stale credential-less pointer to a Good account, and  *)
(* has tried one only if it is at work on it now: from a Good account it    *)
(* does not come back.                                                      *)
Faithful(q) ==
  /\ Enough => q.out # "unavailable"
  /\ \A g \in Good : q.on.acct = g => q.on.login # NoLogin
  /\ \A g \in Good : g \in q.tried => q.on.acct = g /\ q.pc \in {"ensure", "forward"}

GoodInv ==
  /\ \A g \in Good : Fit(g) /\ FitOnDisk(g) /\ Alive(g)
  /\ \A r \in Request : Faithful(req[r])

LEMMA GoodFacts ==
  ASSUME NEW g \in Good
  PROVE  g \in Uid /\ g # Absent
BY GoodAssumption, NobodyAssumption

LEMMA FitHealthy ==
  ASSUME NEW g \in Good, Fit(g)
  PROVE  Healthy(byUID[g])
BY DEF Fit, Healthy, Held

(* Nobody bans or cools a Good account. *)
LEMMA GoodCalls ==
  ASSUME RelayInv, GoodInv, NEW g \in Good, NEW x \in InHands, CallBy(x), x.acct = g
  PROVE  Mild(g)
<1>1. x.login # NoLogin
  BY GoodFacts DEF InHands, GoodInv, Faithful, RelayInv, ControlOK, PassesOK, PassOK
<1>2. x.login \in Login \cup {NoLogin}
  BY DEF InHands, RelayInv, ControlOK, PassesOK, PassType, ReqsOK, ReqType, Work
<1>3. ~Over(g, x.login)
  BY <1>1, <1>2 DEF Over, GoodInv, Alive
<1> QED
  BY <1>3 DEF CallBy

LEMMA SaveFit ==
  ASSUME NEW g \in Good, Fit(g)', FitOnDisk(g), SaveLocked \/ Unsaved
  PROVE  FitOnDisk(g)'
<1>1. CASE UNCHANGED state
  BY <1>1 DEF FitOnDisk
<1>2. CASE state' = Persisted'
  <2>1. state'[g] = Save(byUID'[g]) /\ byUID'[g] # Absent
    BY <1>2, GoodFacts DEF Persisted, Fit, Held
  <2> QED
    BY <2>1 DEF FitOnDisk, Save, Fit
<1> QED
  BY <1>1, <1>2 DEF SaveLocked, Unsaved

LEMMA GoodPoolStep ==
  ASSUME RelayInv, GoodInv, RelayMove, NEW g \in Good
  PROVE  Fit(g)' /\ FitOnDisk(g)'
<1>0. /\ g \in Uid /\ PoolInv /\ GoodPool /\ Fit(g) /\ FitOnDisk(g)
      /\ byUID[g] \in Entry
  BY GoodFacts, TypeIsGoodPool DEF GoodInv, RelayInv, PoolInv, Fit, GoodPool, GoodEntry
<1>1. CASE UNCHANGED poolVars \/ SaveState
  BY <1>0, <1>1, SaveFit DEF poolVars, SaveState, Fit, Held, Unsaved
<1>2. CASE Tick
  <2>1. byUID'[g] = byUID[g] /\ state'[g] = Elapse(state[g])
    BY <1>0, <1>2 DEF Tick, Elapse, Fit
  <2>2. Elapse(state[g]) = state[g]
    BY <1>0 DEF FitOnDisk, Elapse
  <2> QED
    BY <1>0, <2>1, <2>2 DEF Fit, FitOnDisk, Held
<1>3. CASE Reload
  <2>1. PICK saved \in Readable, f \in Fp :
          \A w \in Uid : /\ saved[w] \in Saved \cup {Absent}
                         /\ byUID'[w] = Started(saved[w], auth[w], f)
    BY <1>0, <1>3, Reloaded DEF RelayInv, ControlOK
  <2>2. saved[g] = state[g] \/ saved[g] = Absent
    BY <1>0, <2>1 DEF Readable, Empty
  <2>3. /\ auth[g] # Absent /\ auth[g] \in Login /\ saved[g] \in Saved \cup {Absent}
        /\ auth[g] # NoLogin
    BY <1>0, <2>1, SentinelAssumption
    DEF GoodInv, Alive, RelayInv, ControlOK, LoginsStored
  <2>4. byUID'[g] # Absent /\ byUID'[g].c.login = auth[g]
    <3>1. /\ Started(saved[g], auth[g], f) # Absent
          /\ Started(saved[g], auth[g], f).c.login = auth[g]
      BY <2>3, StartedGood
    <3> QED
      BY <1>0, <2>1, <3>1
  <2>5. ~byUID'[g].disabled /\ byUID'[g].left = 0
    <3> DEFINE c == [login |-> auth[g], fp |-> f]
    <3>1. byUID'[g] = AddTo(Revive(saved[g]), c)
      BY <1>0, <2>1, <2>3 DEF Started
    <3>2. CASE saved[g] = Absent
      BY <3>1, <3>2 DEF Revive, AddTo, NewEntry
    <3>3. CASE saved[g] # Absent
      <4>1. saved[g] \in Saved /\ Revive(saved[g]) \in Entry
        BY <2>3, <3>3, ReviveGood DEF GoodEntry
      <4>2. /\ Revive(saved[g]).disabled = saved[g].disabled
            /\ Revive(saved[g]).left = saved[g].left
        BY <3>3 DEF Revive
      <4>3. byUID'[g] = [Revive(saved[g]) EXCEPT !.c = KeepFp(Revive(saved[g]).c, c)]
        BY <3>1, <4>1, AbsentAssumption DEF AddTo
      <4>4. /\ byUID'[g].disabled = saved[g].disabled
            /\ byUID'[g].left = saved[g].left
        BY <4>1, <4>2, <4>3 DEF Entry
      <4> QED
        BY <1>0, <2>2, <3>3, <4>4 DEF FitOnDisk
    <3> QED
      BY <3>2, <3>3
  <2>6. Fit(g)'
    BY <2>3, <2>4, <2>5 DEF Fit, Held
  <2> QED
    BY <1>0, <1>3, <2>6, SaveFit DEF Reload
<1>4. ASSUME NEW x \in InHands, CallBy(x)
      PROVE  Fit(g)' /\ FitOnDisk(g)'
  <2>1. x.acct \in Uid /\ Call(x.acct)
    BY <1>4 DEF CallBy, Call
  <2>2. PICK e : /\ Put(x.acct, e)
                 /\ Held(x.acct) => /\ GoodEntry(e) /\ e.c = byUID[x.acct].c
                                    /\ Harsh(x.acct) \/ Mild(x.acct)
                                         => e.disabled = byUID[x.acct].disabled
                                    /\ Mild(x.acct) => e.left \in {byUID[x.acct].left, 0}
    BY <1>0, <2>1, CallEntry
  <2>3. byUID'[g] = IF g = x.acct /\ Held(g) THEN e ELSE byUID[g]
    BY <1>0, <2>1, <2>2, PutEffect
  <2>4. Fit(g)'
    <3>1. CASE x.acct = g
      <4>1. Mild(g)
        BY <1>4, <3>1, GoodCalls
      <4>2. Held(g) /\ byUID'[g] = e
        BY <1>0, <2>3, <3>1 DEF Fit
      <4>3. GoodEntry(e) /\ e.c = byUID[g].c /\ ~e.disabled /\ e.left = 0
        BY <1>0, <2>2, <3>1, <4>1, <4>2 DEF Fit
      <4> QED
        BY <1>0, <4>2, <4>3, AbsentAssumption DEF Fit, Held, GoodEntry
    <3>2. CASE x.acct # g
      BY <1>0, <2>3, <3>2 DEF Fit, Held
    <3> QED
      BY <3>1, <3>2
  <2>5. SaveLocked \/ Unsaved
    BY <2>1
    DEF Call, Harsh, Mild, Disable, NoteError, Cooldown, ReenableIfCredits, NoteSuccess
  <2> QED
    BY <1>0, <2>4, <2>5, SaveFit
<1>5. ASSUME NEW w \in Uid, NEW l \in Login, AddLogin(w, l)
      PROVE  Fit(g)' /\ FitOnDisk(g)'
  <2>1. PICK f \in Fp : Add(w, [login |-> l, fp |-> f])
    BY <1>5 DEF AddLogin
  <2> DEFINE c == [login |-> l, fp |-> f]
  <2>2. c \in Cred /\ c.login # NoLogin
    BY <1>5, SentinelAssumption DEF Cred
  <2>3. byUID' = [byUID EXCEPT ![w] = AddTo(byUID[w], c)] /\ Unsaved
    BY <2>1 DEF Add
  <2> HIDE DEF c
  <2>4. CASE w = g
    <3>1. byUID'[g] = [byUID[g] EXCEPT !.c = KeepFp(byUID[g].c, c)]
      BY <1>0, <2>3, <2>4 DEF GoodPool, AddTo, Fit, Held
    <3>2. /\ KeepFp(byUID[g].c, c).login = c.login
          /\ KeepFp(byUID[g].c, c) \in Cred
      BY <1>0, <2>2, KeepFpCred DEF Entry, KeepFp, Cred
    <3>3. byUID'[g] \in Entry
      BY <1>0, <3>1, <3>2 DEF Entry
    <3>4. Fit(g)'
      BY <1>0, <2>2, <3>1, <3>2, <3>3, AbsentAssumption DEF Fit, Held, Entry
    <3> QED
      BY <1>0, <2>3, <3>4, SaveFit
  <2>5. CASE w # g
    <3>1. Fit(g)'
      BY <1>0, <2>3, <2>5 DEF GoodPool, Fit, Held
    <3> QED
      BY <1>0, <2>3, <3>1, SaveFit
  <2> QED
    BY <2>4, <2>5
<1> QED
  BY <1>1, <1>2, <1>3, <1>4, <1>5 DEF RelayMove

LEMMA GoodAliveStep ==
  ASSUME RelayInv, GoodInv, [Next]_relayVars, NEW g \in Good
  PROVE  Alive(g)'
<1>0. /\ g \in Uid /\ Alive(g) /\ auth \in [Uid -> Login \cup {Absent}]
  BY GoodFacts DEF GoodInv, RelayInv, ControlOK, LoginsStored
<1>1. CASE UNCHANGED <<auth, dead>>
  BY <1>0, <1>1 DEF Alive
<1>2. ASSUME NEW u \in Uid, NEW l \in Login, Rewrite(u, l) PROVE Alive(g)'
  <2>1. auth'[g] \in {auth[g], l} /\ dead' \subseteq dead
    BY <1>0, <1>2, RewriteFacts DEF RelayInv
  <2> QED
    BY <1>0, <2>1, NobodyAssumption DEF Alive
<1>3. ASSUME NEW u \in Uid, DeleteAccount(u) \/ Die(u) PROVE Alive(g)'
  <2>1. u # g
    BY <1>3 DEF DeleteAccount, Die
  <2>2. auth'[g] = auth[g] /\ dead' \subseteq dead \cup {<<u, auth[u]>>}
    BY <1>0, <1>3, <2>1 DEF DeleteAccount, Die
  <2> QED
    BY <1>0, <2>1, <2>2 DEF Alive
<1>4. ASSUME NEW r \in Request, Arrive(r) \/ Proceed(r) PROVE UNCHANGED <<auth, dead>>
  BY <1>4, RequestCalls DEF RelayInv
<1>5. ASSUME NEW j \in Pass,
             GoOn(j) \/ \E kind \in {"checkin", "keepalive", "quota"} : StartPass(j, kind)
      PROVE  UNCHANGED <<auth, dead>>
  BY <1>5, PassCalls DEF RelayInv
<1>6. CASE RelayRestart \/ RelayTick \/ UNCHANGED relayVars
  BY <1>1, <1>6 DEF RelayRestart, RelayTick, relayVars
<1>7. ASSUME NEW p \in Poll, FlowStep(p) PROVE UNCHANGED <<auth, dead>>
  BY <1>7, FlowControl DEF RelayInv
<1> QED
  BY <1>1, <1>2, <1>3, <1>4, <1>5, <1>6, <1>7 DEF Next, Rewrite, FlowStep

(* The steps of the request itself. *)
LEMMA FaithfulFresh ==
  /\ Faithful(Idle)
  /\ Faithful([Idle EXCEPT !.pc = "models"])
  /\ \A out \in {"served", "unknown_model"} :
       Faithful([Idle EXCEPT !.pc = "done", !.out = out])
  /\ ~Enough => Faithful([Idle EXCEPT !.pc = "done", !.out = "unavailable"])
BY GoodFacts, WorkFacts DEF Faithful, Idle

LEMMA OneFaithful ==
  ASSUME ReqsOK, \A s \in Request : Faithful(req[s]), NEW r \in Request,
         NEW q, Faithful(q), req' = [req EXCEPT ![r] = q]
  PROVE  \A s \in Request : Faithful(req'[s])
<1>1. \A s \in Request : req'[s] = IF s = r THEN q ELSE req[s]
  BY DEF ReqsOK
<1> QED
  BY <1>1

LEMMA GotoFaithful ==
  ASSUME ReqsOK, \A s \in Request : Faithful(req[s]), NEW r \in Request,
         Goto(r, "rotate"), req[r].on.acct \notin Good \/ req[r].pc \in {"models", "fetch"}
  PROVE  \A s \in Request : Faithful(req'[s])
<1> DEFINE q == [req[r] EXCEPT !.pc = "rotate", !.on = NoWork]
<1>1. req' = [req EXCEPT ![r] = q]
  BY GotoOK
<1>2. req[r] \in ReqType /\ Faithful(req[r])
  BY DEF ReqsOK
<1>3. q.out = req[r].out /\ q.tried = req[r].tried /\ q.on = NoWork
  BY <1>2 DEF ReqType
<1>4. \A g \in Good : g \notin req[r].tried
  BY <1>2 DEF Faithful
<1> HIDE DEF q
<1>5. Faithful(q)
  BY <1>2, <1>3, <1>4, GoodFacts, WorkFacts DEF Faithful
<1> QED
  BY <1>1, <1>5, OneFaithful

(* With a Good account untried there is one to pick, and a try is left.     *)
LEMMA NeverGivesUp ==
  ASSUME RelayInv, GoodInv, NEW tried \in SUBSET Uid, \A g \in Good : g \notin tried,
         Enough
  PROVE  PickSet(byUID, tried) # {} /\ Cardinality(tried) < MaxRotate
<1>1. PICK g \in Good : TRUE
  BY DEF Enough
<1>2. g \in Uid \ tried /\ Healthy(byUID[g])
  BY <1>1, GoodFacts, FitHealthy DEF GoodInv
<1>3. PickSet(byUID, tried) # {}
  BY <1>2, BestExists, TypeIsGoodPool DEF RelayInv, PoolInv
<1>4. /\ IsFiniteSet(tried) /\ Cardinality(tried) <= Cardinality(Uid)
      /\ Cardinality(Uid) # Cardinality(tried)
  BY <1>2, FiniteAssumption, FS_Subset
<1>5. Cardinality(tried) \in Nat /\ Cardinality(Uid) \in Nat
  BY <1>4, FiniteAssumption, FS_CardinalityType
<1> QED
  BY <1>3, <1>4, <1>5, RotateAssumption DEF Enough

LEMMA FaithfulStep ==
  ASSUME RelayInv, GoodInv, NEW r \in Request, Arrive(r) \/ Proceed(r)
  PROVE  \A s \in Request : Faithful(req'[s])
<1> DEFINE Kept == \A s \in Request : Faithful(req'[s])
<1>0. /\ PoolInv /\ ReqsOK /\ req[r] \in ReqType /\ ReqOK(req[r])
      /\ Faithful(req[r]) /\ \A s \in Request : Faithful(req[s])
      /\ \A g \in Good : Fit(g)
  BY DEF RelayInv, ControlOK, ReqsOK, GoodInv
<1>1. CASE Arrive(r)
  <2>1. CASE PickSet(byUID, {}) = {}
    <3>1. ~Enough
      BY <2>1, NeverGivesUp
    <3>2. Faithful([Idle EXCEPT !.pc = "done", !.out = "unavailable"])
      BY <3>1, FaithfulFresh
    <3> QED
      BY <1>0, <1>1, <2>1, <3>2, OneFaithful DEF Arrive, Finish
  <2>2. CASE PickSet(byUID, {}) # {}
    BY <1>0, <1>1, <2>2, FaithfulFresh, OneFaithful DEF Arrive
  <2> QED
    BY <2>1, <2>2
<1>2. CASE ModelsPick(r)
  <2>1. PICK u \in PickSet(byUID, {}) :
          req' = [req EXCEPT ![r].pc = "fetch", ![r].on = Take(u)]
    BY <1>2 DEF ModelsPick
  <2> DEFINE q == [req[r] EXCEPT !.pc = "fetch", !.on = Take(u)]
  <2>2. Take(u).acct = u /\ Take(u).login = byUID[u].c.login
    BY <1>0, PickedIsHeld, TakeWork
  <2>3. req' = [req EXCEPT ![r] = q]
    BY <1>0, <2>1 DEF ReqsOK, ReqType
  <2>4. /\ q.out = req[r].out /\ q.tried = req[r].tried /\ q.on = Take(u)
        /\ req[r].pc = "models"
    BY <1>0, <1>2 DEF ModelsPick, ReqType
  <2> HIDE DEF q
  <2>5. Faithful(q)
    BY <1>0, <2>2, <2>4 DEF Faithful, Fit
  <2> QED
    BY <1>0, <2>3, <2>5, OneFaithful
<1>3. CASE Rotate(r)
  <2>1. PICK u \in PickSet(byUID, req[r].tried) :
          req' = [req EXCEPT ![r].pc = "ensure", ![r].on = Take(u),
                             ![r].tried = @ \cup {u}]
    BY <1>3 DEF Rotate
  <2> DEFINE q == [req[r] EXCEPT !.pc = "ensure", !.on = Take(u), !.tried = @ \cup {u}]
  <2>2. Take(u).acct = u /\ Take(u).login = byUID[u].c.login
    BY <1>0, PickedIsHeld, TakeWork
  <2>3. req' = [req EXCEPT ![r] = q]
    BY <1>0, <2>1 DEF ReqsOK, ReqType
  <2>4. /\ q.out = req[r].out /\ q.tried = req[r].tried \cup {u} /\ q.on = Take(u)
        /\ q.pc = "ensure" /\ req[r].pc = "rotate"
    BY <1>0, <1>3 DEF Rotate, ReqType
  <2> HIDE DEF q
  <2>5. Faithful(q)
    BY <1>0, <2>2, <2>4 DEF Faithful, Fit
  <2> QED
    BY <1>0, <2>3, <2>5, OneFaithful
<1>4. CASE EnsureOk(r)
  <2> DEFINE q == [req[r] EXCEPT !.pc = "forward"]
  <2>1. req' = [req EXCEPT ![r] = q]
    BY <1>0, <1>4 DEF EnsureOk, ReqsOK, ReqType
  <2>2. /\ q.out = req[r].out /\ q.tried = req[r].tried /\ q.on = req[r].on
        /\ q.pc = "forward"
    BY <1>0 DEF ReqType
  <2> HIDE DEF q
  <2>3. Faithful(q)
    BY <1>0, <2>2 DEF Faithful
  <2> QED
    BY <1>0, <2>1, <2>3, OneFaithful
<1>5. CASE GiveUp(r)
  <2>1. /\ req[r].pc = "rotate" /\ req[r].tried \in SUBSET Uid
        /\ \/ Cardinality(req[r].tried) >= MaxRotate
           \/ PickSet(byUID, req[r].tried) = {}
    BY <1>0, <1>5 DEF GiveUp, Tries, ReqType
  <2>2. \A g \in Good : g \notin req[r].tried
    BY <1>0, <2>1 DEF Faithful
  <2>3. ~Enough
    <3>1. SUFFICES ASSUME Enough PROVE FALSE
      OBVIOUS
    <3>2. PickSet(byUID, req[r].tried) # {} /\ Cardinality(req[r].tried) < MaxRotate
      BY <2>1, <2>2, <3>1, NeverGivesUp
    <3>3. Cardinality(req[r].tried) \in Nat
      BY <2>1, FiniteAssumption, FS_Subset, FS_CardinalityType
    <3> QED
      BY <2>1, <3>2, <3>3, RotateAssumption
  <2>4. Faithful([Idle EXCEPT !.pc = "done", !.out = "unavailable"])
    BY <2>3, FaithfulFresh
  <2> QED
    BY <1>0, <1>5, <2>4, OneFaithful DEF GiveUp, Finish
<1>6. CASE UnknownModel(r) \/ Served(r)
  BY <1>0, <1>6, FaithfulFresh, OneFaithful DEF UnknownModel, Served, Finish
<1>7. CASE ModelsKnown(r) \/ ModelsInvalid(r) \/ ModelsAnswered(r)
  BY <1>0, <1>7, GotoFaithful DEF ModelsKnown, ModelsInvalid, ModelsAnswered
<1>8. CASE EnsureInvalid(r)
  <2>1. req[r].on.acct \notin Good
    <3>1. SUFFICES ASSUME req[r].on.acct \in Good PROVE FALSE
      OBVIOUS
    <3>2. req[r].on.login # NoLogin
      BY <1>0, <3>1 DEF Faithful
    <3>3. req[r].on.login \in Login
      BY <1>0, <3>2 DEF ReqType, Work
    <3> QED
      BY <1>8, <3>1, <3>2, <3>3 DEF EnsureInvalid, Over, GoodInv, Alive
  <2> QED
    BY <1>0, <1>8, <2>1, GotoFaithful DEF EnsureInvalid
<1>9. CASE EnsureError(r)
  BY <1>0, <1>9, GotoFaithful DEF EnsureError
<1>10. ASSUME NEW kind \in ErrKinds \cup {"none"}, Refused(r, kind) \/ Failed(r, kind)
       PROVE  Kept
  BY <1>0, <1>10, GotoFaithful DEF Refused, Failed
<1> QED
  BY <1>1, <1>2, <1>3, <1>4, <1>5, <1>6, <1>7, <1>8, <1>9, <1>10
  DEF Proceed, Ensure, Forward

LEMMA GoodInit == Init => GoodInv
<1> SUFFICES ASSUME Init PROVE GoodInv
  OBVIOUS
<1>1. PICK f \in Fp : byUID = [u \in Uid |-> Started(Absent, auth[u], f)]
  BY DEF Init
<1>2. ASSUME NEW g \in Good PROVE Fit(g) /\ FitOnDisk(g) /\ Alive(g)
  <2>1. /\ g \in Uid /\ auth[g] # Absent /\ auth[g] \in Login /\ dead = {}
        /\ state[g] = Save(byUID[g])
    BY GoodFacts DEF Init, Persisted
  <2> DEFINE c == [login |-> auth[g], fp |-> f]
  <2>2. byUID[g] = NewEntry(c) /\ c.login # NoLogin
    BY <1>1, <2>1, SentinelAssumption DEF Started, Revive, AddTo
  <2>3. byUID[g] # Absent
    BY <1>1, <2>1, StartedGood
  <2> HIDE DEF c
  <2>4. Fit(g)
    BY <2>2, <2>3 DEF Fit, Held, NewEntry
  <2>5. FitOnDisk(g)
    BY <2>1, <2>3, <2>4 DEF Fit, FitOnDisk, Save
  <2> QED
    BY <2>1, <2>4, <2>5 DEF Alive
<1> QED
  BY <1>2, FaithfulFresh DEF GoodInv, Init

LEMMA GoodStep == RelayInv /\ GoodInv /\ [Next]_relayVars => GoodInv'
<1> SUFFICES ASSUME RelayInv, GoodInv, [Next]_relayVars PROVE GoodInv'
  OBVIOUS
<1>1. \A g \in Good : Fit(g)' /\ FitOnDisk(g)' /\ Alive(g)'
  BY RelayMoves, GoodPoolStep, GoodAliveStep
<1>2. \A s \in Request : Faithful(req'[s])
  <2>1. CASE UNCHANGED req
    BY <2>1 DEF GoodInv
  <2>2. CASE RelayRestart
    BY <2>2, FaithfulFresh DEF RelayRestart
  <2>3. ASSUME NEW j \in Pass,
               GoOn(j) \/ \E kind \in {"checkin", "keepalive", "quota"} : StartPass(j, kind)
        PROVE  UNCHANGED req
    BY <2>3, PassCalls DEF RelayInv
  <2>4. CASE \/ \E u \in Uid : DeleteAccount(u) \/ Die(u)
             \/ RelayTick \/ UNCHANGED relayVars
    BY <2>1, <2>4 DEF DeleteAccount, Die, RelayTick, relayVars
  <2>5. ASSUME NEW u \in Uid, NEW l \in Login, Rewrite(u, l) PROVE UNCHANGED req
    BY <2>5, RewriteFacts DEF RelayInv
  <2>6. ASSUME NEW p \in Poll, FlowStep(p) PROVE UNCHANGED req
    BY <2>6, FlowControl DEF RelayInv
  <2> QED
    BY <2>1, <2>2, <2>3, <2>4, <2>5, <2>6, FaithfulStep DEF Next, Rewrite, FlowStep
<1> QED
  BY <1>1, <1>2 DEF GoodInv, Faithful

(* Failover is complete: while one account is beyond reproach and there are *)
(* no more accounts than a request may try, no request is turned away, for  *)
(* any number of accounts, requests and passes, whatever the other accounts *)
(* suffer, and over restarts and failures of the disk.                      *)
THEOREM FailoverIsComplete == Spec => []AlwaysServed
<1>1. Init => RelayInv /\ GoodInv
  BY RelayInvInit, GoodInit
<1>2. RelayInv /\ GoodInv /\ [Next]_relayVars => (RelayInv /\ GoodInv)'
  BY RelayInvStep, GoodStep
<1>3. GoodInv => AlwaysServed
  BY DEF GoodInv, Faithful, Enough, AlwaysServed
<1> QED
  BY <1>1, <1>2, <1>3, PTL DEF Spec
==============================================================================
