-------------------------------- MODULE Pool --------------------------------
(***************************************************************************)
(* The account pool, internal/pool/pool.go: the map byUID from an account  *)
(* to its entry, and state.json, the file the pool is reloaded from when   *)
(* the process starts.  Every method of the Go type runs under the pool's  *)
(* mutex from its first line to its last, so each is one action here.      *)
(*                                                                         *)
(* A cooldown is kept as the number of ticks left until `until`: 0 stands  *)
(* for the zero time and for every time that has passed, which the code    *)
(* treats alike.  Nicknames, reasons and file layout are left out.         *)
(***************************************************************************)
EXTENDS Integers, FiniteSets

CONSTANTS
  Uid,           \* accounts
  Login,         \* the credentials logins produced, told apart by identity
  NoLogin,       \* the token-less credential an entry read from state.json has
  Fp,            \* machine fingerprints
  NoFp,          \* no fingerprint generated yet (MachineID == "")
  Balance,       \* credit balances
  Absent,        \* no entry
  HardCooldown,  \* ticks of a cooldown after 402 (12h by default)
  SoftCooldown,  \* ticks of a cooldown after 429 or 404
  ErrCooldown,   \* ticks of a cooldown after ErrThreshold errors in a row
  ErrThreshold,  \* errors in a row that cool an account
  DiskMayFail    \* whether reading and writing state.json may fail

VARIABLES
  byUID,           \* the map of pool.go: account -> entry, or Absent
  state,           \* state.json: account -> saved entry, or Absent
  lastSaveFailed   \* history: the last saveLocked() did not reach the disk

poolVars == <<byUID, state, lastSaveFailed>>

Cooldowns == {HardCooldown, SoftCooldown, ErrCooldown}

Cred  == [login: Login \cup {NoLogin}, fp: Fp \cup {NoFp}]
Entry == [c: Cred, credits: Balance, disabled: BOOLEAN, left: Nat, errCount: Nat]
Saved == [credits: Balance, disabled: BOOLEAN, left: Nat, fp: Fp \cup {NoFp}]

ASSUME BalanceAssumption == Balance \subseteq Int /\ 0 \in Balance
ASSUME CooldownAssumption == Cooldowns \subseteq Nat \ {0}
ASSUME ThresholdAssumption == ErrThreshold \in Nat \ {0}
ASSUME DiskAssumption == DiskMayFail \in BOOLEAN
ASSUME AbsentAssumption == Absent \notin Entry /\ Absent \notin Saved
ASSUME SentinelAssumption == NoLogin \notin Login /\ NoFp \notin Fp

-----------------------------------------------------------------------------
(* The data the methods work on. *)

NewEntry(c) ==
  [c |-> c, credits |-> 0, disabled |-> FALSE, left |-> 0, errCount |-> 0]

(* Mutation of KeepFp: every login brings a machine of its own. *)
KeepFpNever(old, c) == c

(* A new credential takes over the fingerprint of the one it replaces. *)
KeepFp(old, c) == IF old.fp = NoFp THEN c ELSE [c EXCEPT !.fp = old.fp]

(* Mutations of AddTo: a new credential starts with a clean record; a new   *)
(* credential of a known account is ignored.                                *)
AddToAfresh(e, c) == IF e = Absent THEN NewEntry(c) ELSE NewEntry(KeepFp(e.c, c))
AddToOnce(e, c) == IF e = Absent THEN NewEntry(c) ELSE e

(* The entry e after credential c was added for its account. *)
AddTo(e, c) ==
  IF e = Absent THEN NewEntry(c) ELSE [e EXCEPT !.c = KeepFp(e.c, c)]

(* What saveLocked() writes, and what load() makes of it. *)
Save(e) ==
  IF e = Absent THEN Absent
  ELSE [credits |-> e.credits, disabled |-> e.disabled, left |-> e.left,
        fp |-> e.c.fp]

Persisted == [u \in Uid |-> Save(byUID[u])]

Revive(s) ==
  IF s = Absent THEN Absent
  ELSE [c |-> [login |-> NoLogin, fp |-> s.fp], credits |-> s.credits,
        disabled |-> s.disabled, left |-> s.left, errCount |-> 0]

Load(file) == [u \in Uid |-> Revive(file[u])]

Empty == [u \in Uid |-> Absent]

Healthy(e) == e # Absent /\ ~e.disabled /\ e.left = 0

(* The accounts PickExcluding may return: the healthy ones not yet tried    *)
(* that have the most credits; the order of a Go map decides between them.  *)
PickSet(pool, tried) ==
  LET ok == {u \in Uid \ tried : Healthy(pool[u])}
  IN  {u \in ok : \A w \in ok : pool[w].credits <= pool[u].credits}

Held(u) == byUID[u] # Absent

-----------------------------------------------------------------------------
PoolInit ==
  /\ byUID = Empty
  /\ state = Empty
  /\ lastSaveFailed = FALSE

(* saveLocked(): the whole pool goes to a temporary file that is renamed    *)
(* over state.json; every error is dropped and leaves the old file.         *)
SaveLocked ==
  \/ state' = Persisted' /\ lastSaveFailed' = FALSE
  \/ DiskMayFail /\ lastSaveFailed' = TRUE /\ UNCHANGED state

Unsaved == UNCHANGED <<state, lastSaveFailed>>

(* Give account u the entry e, if the pool holds u at all. *)
Put(u, e) == byUID' = IF Held(u) THEN [byUID EXCEPT ![u] = e] ELSE byUID

Add(u, c) ==
  /\ byUID' = [byUID EXCEPT ![u] = AddTo(@, c)]
  /\ Unsaved

SyncToDir(dir) ==
  /\ byUID' = [u \in Uid |-> IF dir[u] = Absent THEN Absent
                             ELSE AddTo(byUID[u], dir[u])]
  /\ Unsaved

SetCredits(u, credits) ==
  /\ Put(u, [byUID[u] EXCEPT !.credits = credits])
  /\ SaveLocked

(* Mutation of Cooldown: the save is forgotten. *)
CooldownUnsaved(u, d) ==
  /\ Put(u, [byUID[u] EXCEPT !.left = d, !.errCount = 0])
  /\ Unsaved

Cooldown(u, d) ==
  /\ Put(u, [byUID[u] EXCEPT !.left = d, !.errCount = 0])
  /\ SaveLocked

Disable(u) ==
  /\ Put(u, [byUID[u] EXCEPT !.disabled = TRUE])
  /\ SaveLocked

(* Mutation of Thawed: a balance of zero thaws, too. *)
ThawedAnyway(e, remain) ==
  IF e.disabled THEN [e EXCEPT !.credits = remain]
  ELSE [e EXCEPT !.credits = remain, !.left = 0, !.errCount = 0]

Thawed(e, remain) ==
  IF remain > 0 /\ ~e.disabled
  THEN [e EXCEPT !.credits = remain, !.left = 0, !.errCount = 0]
  ELSE [e EXCEPT !.credits = remain]

ReenableIfCredits(u, remain) ==
  /\ Put(u, Thawed(byUID[u], remain))
  /\ SaveLocked

(* Mutation of AfterError: the counter is not reset at the threshold. *)
AfterErrorCounting(e, d) ==
  IF e.errCount + 1 >= ErrThreshold
  THEN [e EXCEPT !.left = d, !.errCount = @ + 1]
  ELSE [e EXCEPT !.errCount = @ + 1]

AfterError(e, d) ==
  IF e.errCount + 1 >= ErrThreshold
  THEN [e EXCEPT !.left = d, !.errCount = 0]
  ELSE [e EXCEPT !.errCount = @ + 1]

NoteError(u, d) ==
  /\ Put(u, AfterError(byUID[u], d))
  /\ SaveLocked

NoteSuccess(u) ==
  /\ Put(u, [byUID[u] EXCEPT !.errCount = 0])
  /\ Unsaved

(* Cred.EnsureMachineFingerprint on a credential the pool holds. *)
EnsureFingerprint(u) ==
  /\ Held(u)
  /\ byUID[u].c.fp = NoFp
  /\ \E f \in Fp : byUID' = [byUID EXCEPT ![u].c.fp = f]
  /\ Unsaved

SaveState == UNCHANGED byUID /\ SaveLocked

(* What reading state.json may give: one that cannot be read or parsed is   *)
(* taken for an empty one, without an error.                                *)
Readable == {state} \cup (IF DiskMayFail THEN {Empty} ELSE {})

(* New(): the process starts again, at any point. *)
Restart ==
  /\ \E saved \in Readable : byUID' = Load(saved)
  /\ lastSaveFailed' = FALSE
  /\ UNCHANGED state

Elapse(x) == IF x = Absent \/ x.left = 0 THEN x ELSE [x EXCEPT !.left = @ - 1]

(* Time passes, for the pool and for the times written in state.json. *)
Tick ==
  /\ byUID' = [u \in Uid |-> Elapse(byUID[u])]
  /\ state' = [u \in Uid |-> Elapse(state[u])]
  /\ UNCHANGED lastSaveFailed

PoolNext ==
  \/ \E u \in Uid :
       \/ \E l \in Login, f \in Fp \cup {NoFp} : Add(u, [login |-> l, fp |-> f])
       \/ \E b \in Balance : SetCredits(u, b) \/ ReenableIfCredits(u, b)
       \/ \E d \in {HardCooldown, SoftCooldown, ErrCooldown} : Cooldown(u, d)
       \/ Disable(u)
       \/ NoteError(u, ErrCooldown)
       \/ NoteSuccess(u)
       \/ EnsureFingerprint(u)
  \/ \E dir \in [Uid -> [login: Login, fp: Fp] \cup {Absent}] : SyncToDir(dir)
  \/ SaveState
  \/ Restart
  \/ Tick

PoolSpec == PoolInit /\ [][PoolNext]_poolVars

-----------------------------------------------------------------------------
(* Every entry is well formed, and no account the pool holds has reached    *)
(* the error threshold: NoteError turns the last error into a cooldown and  *)
(* starts counting afresh.                                                  *)
PoolTypeOK ==
  /\ byUID \in [Uid -> Entry \cup {Absent}]
  /\ state \in [Uid -> Saved \cup {Absent}]
  /\ lastSaveFailed \in BOOLEAN
  /\ \A u \in Uid : Held(u) => byUID[u].errCount < ErrThreshold

(* What is known of an account is on disk, up to the credential and the     *)
(* error counter, which state.json does not have.                           *)
OnDisk(u) ==
  /\ state[u] # Absent
  /\ state[u].credits = byUID[u].credits
  /\ state[u].disabled = byUID[u].disabled
  /\ state[u].left = byUID[u].left

Pristine(e) == e.credits = 0 /\ ~e.disabled /\ e.left = 0

(* Unless the last save failed, the balance, the ban and the cooldown of    *)
(* every account in memory are those of state.json, whatever sequence of    *)
(* calls led here; only an account about which nothing was learnt since it  *)
(* was added may be missing from it or have older data there.  So a crash   *)
(* loses no ban and no cooldown, and one good save repairs all failed ones. *)
Durable ==
  lastSaveFailed \/ \A u \in Uid : Held(u) => Pristine(byUID[u]) \/ OnDisk(u)

(* An account keeps its machine fingerprint while the pool holds it, over   *)
(* re-logins and directory scans; only a restart may replace it, by the one *)
(* that was saved last.                                                     *)
FingerprintKept ==
  [][\A u \in Uid :
       (Held(u) /\ Held(u)' /\ byUID[u].c.fp # NoFp)
         => byUID'[u].c.fp \in
              {byUID[u].c.fp} \cup IF state[u] = Absent THEN {} ELSE {state[u].fp}
    ]_poolVars

(* An account that was cooling for more than one tick becomes healthy at    *)
(* once by one call only, ReenableIfCredits for this account with a         *)
(* positive balance; no other call does it, whatever balance the account    *)
(* has, and no restart, unless a save had failed.  A shorter Cooldown may   *)
(* still bring the end nearer.                                              *)
EarlyThawNeedsCredits ==
  [][\A u \in Uid :
       (Held(u) /\ Held(u)' /\ byUID[u].left > 1 /\ Healthy(byUID'[u]))
         => \/ \E b \in Balance : b > 0 /\ ReenableIfCredits(u, b)
            \/ lastSaveFailed /\ Restart
    ]_poolVars

Avail(e) ==
  CASE e = Absent -> "absent"
    [] e # Absent /\ e.disabled -> "disabled"
    [] e # Absent /\ ~e.disabled /\ e.left > 0 -> "cooling"
    [] OTHER -> "ready"

Life == INSTANCE AccountLife WITH avail <- [u \in Uid |-> Avail(byUID[u])]

(* As long as state.json can be read and written, every step of the pool,   *)
(* crashes included, is a step of AccountLife: bans last, cooldowns end     *)
(* only by the clock or by credits, and a restart frees no account.         *)
ImplementsLife == Life!Spec
==============================================================================
