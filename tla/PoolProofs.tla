----------------------------- MODULE PoolProofs -----------------------------
(***************************************************************************)
(* Theorems about Pool, for any set of accounts, any balances and          *)
(* cooldowns, and a disk that may or may not fail.                         *)
(***************************************************************************)
EXTENDS Pool, TLAPS

(* An entry of the type invariant. *)
GoodEntry(e) == e \in Entry /\ e.errCount < ErrThreshold

-----------------------------------------------------------------------------
(* The operators on entries keep entries well formed. *)

LEMMA CooldownNat == Cooldowns \subseteq Nat /\ 0 \notin Cooldowns
BY CooldownAssumption

LEMMA NewEntryGood ==
  ASSUME NEW c \in Cred
  PROVE  GoodEntry(NewEntry(c))
BY BalanceAssumption, ThresholdAssumption DEF NewEntry, GoodEntry, Entry

LEMMA KeepFpCred ==
  ASSUME NEW old \in Cred, NEW c \in Cred
  PROVE  KeepFp(old, c) \in Cred
BY DEF KeepFp, Cred

LEMMA AddToGood ==
  ASSUME NEW e, NEW c \in Cred, e # Absent => GoodEntry(e)
  PROVE  GoodEntry(AddTo(e, c))
<1>1. CASE e = Absent
  BY <1>1, NewEntryGood DEF AddTo
<1>2. CASE e # Absent
  <2>1. e \in Entry /\ e.c \in Cred /\ e.errCount < ErrThreshold
    BY <1>2 DEF GoodEntry, Entry
  <2>2. KeepFp(e.c, c) \in Cred
    BY <2>1, KeepFpCred
  <2>3. AddTo(e, c) = [e EXCEPT !.c = KeepFp(e.c, c)]
    BY <1>2 DEF AddTo
  <2> QED
    BY <2>1, <2>2, <2>3 DEF GoodEntry, Entry
<1> QED
  BY <1>1, <1>2

LEMMA CooledGood ==
  ASSUME NEW e, GoodEntry(e), NEW d \in Nat
  PROVE  GoodEntry([e EXCEPT !.left = d, !.errCount = 0])
<1>1. [e EXCEPT !.left = d, !.errCount = 0] \in Entry
  BY DEF GoodEntry, Entry
<1>2. [e EXCEPT !.left = d, !.errCount = 0].errCount = 0
  BY DEF GoodEntry, Entry
<1> QED
  BY <1>1, <1>2, ThresholdAssumption DEF GoodEntry

LEMMA ThawedGood ==
  ASSUME NEW e, GoodEntry(e), NEW b \in Balance
  PROVE  GoodEntry(Thawed(e, b))
<1> DEFINE thawed == [e EXCEPT !.credits = b, !.left = 0, !.errCount = 0]
<1>1. thawed \in Entry
  BY DEF GoodEntry, Entry
<1>2. thawed.errCount = 0
  BY DEF GoodEntry, Entry
<1>3. GoodEntry(thawed)
  BY <1>1, <1>2, ThresholdAssumption DEF GoodEntry
<1>4. GoodEntry([e EXCEPT !.credits = b])
  BY DEF GoodEntry, Entry
<1> QED
  BY <1>3, <1>4, Zenon DEF Thawed

LEMMA AfterErrorGood ==
  ASSUME NEW e, GoodEntry(e), NEW d \in Nat
  PROVE  GoodEntry(AfterError(e, d))
<1>1. CASE e.errCount + 1 >= ErrThreshold
  BY <1>1, CooledGood DEF AfterError
<1>2. CASE ~(e.errCount + 1 >= ErrThreshold)
  BY <1>2, ThresholdAssumption DEF GoodEntry, Entry, AfterError
<1> QED
  BY <1>1, <1>2

LEMMA ElapseGood ==
  ASSUME NEW e, GoodEntry(e)
  PROVE  GoodEntry(Elapse(e))
BY AbsentAssumption DEF GoodEntry, Entry, Elapse

LEMMA SaveType ==
  ASSUME NEW e \in Entry
  PROVE  Save(e) \in Saved
BY AbsentAssumption DEF Entry, Saved, Save, Cred

LEMMA ReviveGood ==
  ASSUME NEW s \in Saved
  PROVE  GoodEntry(Revive(s))
BY AbsentAssumption, ThresholdAssumption
DEF GoodEntry, Entry, Saved, Revive, Cred

LEMMA ElapseSaved ==
  ASSUME NEW s \in Saved
  PROVE  Elapse(s) \in Saved
BY AbsentAssumption DEF Saved, Elapse

-----------------------------------------------------------------------------
(* A whole pool, and the two ways a method may leave the disk. *)

GoodPool ==
  /\ byUID \in [Uid -> Entry \cup {Absent}]
  /\ \A u \in Uid : Held(u) => GoodEntry(byUID[u])

LEMMA TypeIsGoodPool ==
  PoolTypeOK => GoodPool
BY DEF PoolTypeOK, GoodPool, GoodEntry, Held

LEMMA GoodPoolType ==
  ASSUME GoodPool, state \in [Uid -> Saved \cup {Absent}], lastSaveFailed \in BOOLEAN
  PROVE  PoolTypeOK
BY DEF PoolTypeOK, GoodPool, GoodEntry

LEMMA PutGood ==
  ASSUME GoodPool, NEW u \in Uid, NEW e, Held(u) => GoodEntry(e), Put(u, e)
  PROVE  GoodPool'
<1>1. CASE Held(u)
  <2>1. byUID' = [byUID EXCEPT ![u] = e]
    BY <1>1 DEF Put
  <2> QED
    BY <1>1, <2>1 DEF GoodPool, GoodEntry, Held
<1>2. CASE ~Held(u)
  <2>1. byUID' = byUID
    BY <1>2 DEF Put
  <2> QED
    BY <2>1 DEF GoodPool, Held
<1> QED
  BY <1>1, <1>2

(* After a save that worked, everything in memory is on disk, whatever was  *)
(* there before: this is why a good save repairs the failed ones.           *)
LEMMA SavedPool ==
  ASSUME GoodPool', SaveLocked, state \in [Uid -> Saved \cup {Absent}]
  PROVE  PoolTypeOK' /\ Durable'
<1>1. CASE state' = Persisted' /\ lastSaveFailed' = FALSE
  <2>1. ASSUME NEW u \in Uid
        PROVE  /\ state'[u] \in Saved \cup {Absent}
               /\ Held(u)' => OnDisk(u)'
    <3>1. state'[u] = Save(byUID'[u])
      BY <1>1 DEF Persisted
    <3>2. CASE byUID'[u] = Absent
      BY <3>1, <3>2 DEF Save, Held
    <3>3. CASE byUID'[u] # Absent
      <4>1. byUID'[u] \in Entry
        BY <3>3 DEF GoodPool
      <4>2. state'[u] \in Saved
        BY <4>1, <3>1, SaveType
      <4>3. state'[u] = [credits |-> byUID'[u].credits,
                         disabled |-> byUID'[u].disabled,
                         left |-> byUID'[u].left, fp |-> byUID'[u].c.fp]
        BY <3>1, <3>3 DEF Save
      <4>4. state'[u] # Absent
        BY <4>2, AbsentAssumption
      <4> QED
        BY <4>2, <4>3, <4>4 DEF OnDisk
    <3> QED
      BY <3>2, <3>3
  <2>2. state' \in [Uid -> Saved \cup {Absent}]
    <3>1. state' = [u \in Uid |-> Save(byUID'[u])]
      BY <1>1 DEF Persisted
    <3> QED
      BY <2>1, <3>1
  <2>3. PoolTypeOK'
    BY <1>1, <2>2 DEF PoolTypeOK, GoodPool, GoodEntry
  <2> QED
    BY <2>1, <2>3 DEF Durable
<1>2. CASE lastSaveFailed' = TRUE /\ UNCHANGED state
  BY <1>2 DEF PoolTypeOK, GoodPool, GoodEntry, Durable
<1> QED
  BY <1>1, <1>2 DEF SaveLocked

(* A method that does not save may only add fresh entries and touch fields  *)
(* the file does not have.                                                  *)
SameSavedData(u) ==
  /\ Held(u)
  /\ byUID'[u].credits = byUID[u].credits
  /\ byUID'[u].disabled = byUID[u].disabled
  /\ byUID'[u].left = byUID[u].left

LEMMA UnsavedPool ==
  ASSUME PoolTypeOK, Durable, GoodPool', Unsaved,
         \A u \in Uid : Held(u)' => Pristine(byUID'[u]) \/ SameSavedData(u)
  PROVE  PoolTypeOK' /\ Durable'
<1>1. PoolTypeOK'
  BY DEF Unsaved, PoolTypeOK, GoodPool, GoodEntry
<1>2. ASSUME ~lastSaveFailed, NEW u \in Uid, Held(u)', ~Pristine(byUID'[u])
      PROVE  OnDisk(u)'
  <2>1. SameSavedData(u)
    BY <1>2
  <2>2. ~Pristine(byUID[u])
    BY <1>2, <2>1 DEF SameSavedData, Pristine
  <2>3. OnDisk(u)
    BY <1>2, <2>1, <2>2 DEF Durable, SameSavedData
  <2> QED
    BY <2>1, <2>3 DEF OnDisk, SameSavedData, Unsaved
<1> QED
  BY <1>1, <1>2 DEF Durable, Unsaved

-----------------------------------------------------------------------------
(* PoolInv is inductive.  Each half needs the other: Durable compares       *)
(* fields that only well-formed entries have.                               *)

PoolInv == PoolTypeOK /\ Durable

LEMMA PoolInvInit == PoolInit => PoolInv
BY DEF PoolInit, PoolInv, PoolTypeOK, Durable, Held, Empty

LEMMA AddStep ==
  ASSUME PoolInv, NEW u \in Uid, NEW c \in Cred, Add(u, c)
  PROVE  PoolInv'
<1>1. GoodPool
  BY TypeIsGoodPool DEF PoolInv
<1>2. GoodEntry(AddTo(byUID[u], c))
  BY <1>1, AddToGood DEF GoodPool, Held
<1>3. byUID' = [byUID EXCEPT ![u] = AddTo(byUID[u], c)]
  BY DEF Add
<1>4. GoodPool'
  BY <1>1, <1>2, <1>3 DEF GoodPool, GoodEntry, Held
<1>5. ASSUME NEW w \in Uid, Held(w)'
      PROVE  Pristine(byUID'[w]) \/ SameSavedData(w)
  <2>1. CASE w # u
    BY <1>1, <1>3, <1>5, <2>1 DEF GoodPool, Held, SameSavedData
  <2>2. CASE w = u /\ ~Held(u)
    BY <1>1, <1>3, <2>2 DEF GoodPool, Held, AddTo, NewEntry, Pristine
  <2>3. CASE w = u /\ Held(u)
    <3>1. byUID[u] \in Entry
      BY <1>1, <2>3 DEF GoodPool, GoodEntry
    <3>2. byUID'[u] = [byUID[u] EXCEPT !.c = KeepFp(byUID[u].c, c)]
      BY <1>1, <1>3, <2>3 DEF GoodPool, Held, AddTo
    <3> QED
      BY <2>3, <3>1, <3>2 DEF Entry, SameSavedData
  <2> QED
    BY <2>1, <2>2, <2>3
<1> QED
  BY <1>4, <1>5, UnsavedPool DEF PoolInv, Add

LEMMA SyncToDirStep ==
  ASSUME PoolInv, NEW dir \in [Uid -> Cred \cup {Absent}], SyncToDir(dir)
  PROVE  PoolInv'
<1>1. GoodPool
  BY TypeIsGoodPool DEF PoolInv
<1>2. byUID' = [u \in Uid |-> IF dir[u] = Absent THEN Absent
                              ELSE AddTo(byUID[u], dir[u])]
  BY DEF SyncToDir
<1>3. ASSUME NEW u \in Uid, Held(u)'
      PROVE  /\ GoodEntry(byUID'[u])
             /\ Pristine(byUID'[u]) \/ SameSavedData(u)
  <2>1. dir[u] \in Cred /\ byUID'[u] = AddTo(byUID[u], dir[u])
    BY <1>2, <1>3 DEF Held
  <2>2. GoodEntry(byUID'[u])
    BY <1>1, <2>1, AddToGood DEF GoodPool, Held
  <2>3. CASE ~Held(u)
    BY <2>1, <2>2, <2>3 DEF Held, AddTo, NewEntry, Pristine
  <2>4. CASE Held(u)
    <3>1. byUID[u] \in Entry
      BY <1>1, <2>4 DEF GoodPool, GoodEntry
    <3>2. byUID'[u] = [byUID[u] EXCEPT !.c = KeepFp(byUID[u].c, dir[u])]
      BY <2>1, <2>4 DEF Held, AddTo
    <3> QED
      BY <2>2, <2>4, <3>1, <3>2 DEF Entry, SameSavedData
  <2> QED
    BY <2>2, <2>3, <2>4
<1>4. GoodPool'
  <2>1. \A u \in Uid : byUID'[u] \in Entry \cup {Absent}
    BY <1>3 DEF Held, GoodEntry
  <2>2. byUID' = [u \in Uid |-> byUID'[u]]
    BY <1>2
  <2>3. byUID' \in [Uid -> Entry \cup {Absent}]
    BY <2>1, <2>2
  <2> QED
    BY <1>3, <2>3 DEF GoodPool
<1> QED
  BY <1>3, <1>4, UnsavedPool DEF PoolInv, SyncToDir

(* The methods that end in saveLocked() differ in the entry they put. *)
LEMMA PutStep ==
  ASSUME PoolInv, NEW u \in Uid, NEW e, GoodPool /\ Held(u) => GoodEntry(e),
         Put(u, e), SaveLocked
  PROVE  PoolInv'
<1>1. GoodPool
  BY TypeIsGoodPool DEF PoolInv
<1>2. GoodPool'
  BY <1>1, PutGood
<1> QED
  BY <1>2, SavedPool DEF PoolInv, PoolTypeOK

LEMMA NoteSuccessStep ==
  ASSUME PoolInv, NEW u \in Uid, NoteSuccess(u)
  PROVE  PoolInv'
<1> DEFINE e == [byUID[u] EXCEPT !.errCount = 0]
<1>1. GoodPool
  BY TypeIsGoodPool DEF PoolInv
<1>2. Held(u) => GoodEntry(e)
  BY <1>1, ThresholdAssumption DEF GoodPool, GoodEntry, Entry
<1>3. Put(u, e)
  BY DEF NoteSuccess
<1>4. GoodPool'
  BY <1>1, <1>2, <1>3, PutGood
<1>5. ASSUME NEW w \in Uid, Held(w)' PROVE SameSavedData(w)
  <2>1. CASE w = u /\ Held(u)
    BY <1>1, <1>3, <2>1 DEF Put, GoodPool, GoodEntry, Entry, SameSavedData
  <2>2. CASE w # u \/ ~Held(u)
    BY <1>1, <1>3, <1>5, <2>2 DEF Put, GoodPool, Held, SameSavedData
  <2> QED
    BY <2>1, <2>2
<1> QED
  BY <1>4, <1>5, UnsavedPool DEF PoolInv, NoteSuccess

LEMMA EnsureFingerprintStep ==
  ASSUME PoolInv, NEW u \in Uid, EnsureFingerprint(u)
  PROVE  PoolInv'
<1>1. GoodPool
  BY TypeIsGoodPool DEF PoolInv
<1>2. PICK f \in Fp : byUID' = [byUID EXCEPT ![u].c.fp = f]
  BY DEF EnsureFingerprint
<1>3. Held(u) /\ byUID[u] \in Entry
  BY <1>1 DEF EnsureFingerprint, GoodPool, GoodEntry
<1>4. byUID'[u] = [byUID[u] EXCEPT !.c = [byUID[u].c EXCEPT !.fp = f]]
  BY <1>1, <1>2 DEF GoodPool
<1>5. [byUID[u].c EXCEPT !.fp = f] \in Cred
  BY <1>3 DEF Entry, Cred
<1>6. GoodEntry(byUID'[u]) /\ SameSavedData(u)
  BY <1>1, <1>3, <1>4, <1>5 DEF GoodPool, GoodEntry, Entry, SameSavedData
<1>7. \A w \in Uid \ {u} : byUID'[w] = byUID[w]
  BY <1>1, <1>2 DEF GoodPool
<1>8. byUID' = [w \in Uid |-> byUID'[w]]
  BY <1>1, <1>2 DEF GoodPool
<1>9. GoodPool'
  <2>1. \A w \in Uid : byUID'[w] \in Entry \cup {Absent}
    BY <1>1, <1>6, <1>7 DEF GoodPool, GoodEntry
  <2>2. byUID' \in [Uid -> Entry \cup {Absent}]
    BY <1>8, <2>1
  <2> QED
    BY <1>1, <1>6, <1>7, <2>2 DEF GoodPool, Held
<1>10. \A w \in Uid : Held(w)' => SameSavedData(w)
  BY <1>6, <1>7 DEF Held, SameSavedData
<1> QED
  BY <1>9, <1>10, UnsavedPool DEF PoolInv, EnsureFingerprint

LEMMA RestartStep ==
  ASSUME PoolInv, Restart
  PROVE  PoolInv'
<1>1. CASE byUID' = Load(state)
  <2>1. ASSUME NEW u \in Uid, Held(u)'
        PROVE  GoodEntry(byUID'[u]) /\ OnDisk(u)'
    <3>1. byUID'[u] = Revive(state[u])
      BY <1>1 DEF Load
    <3>2. state[u] # Absent
      BY <2>1, <3>1 DEF Held, Revive
    <3>3. state[u] \in Saved
      BY <3>2 DEF PoolInv, PoolTypeOK
    <3>4. GoodEntry(byUID'[u])
      BY <3>1, <3>3, ReviveGood
    <3>5. state' = state
      BY DEF Restart
    <3> QED
      BY <3>1, <3>2, <3>3, <3>4, <3>5 DEF OnDisk, Revive, Saved
  <2>2. GoodPool'
    <3>1. byUID' = [u \in Uid |-> byUID'[u]]
      BY <1>1 DEF Load
    <3>2. \A u \in Uid : byUID'[u] \in Entry \cup {Absent}
      BY <2>1 DEF Held, GoodEntry
    <3>3. byUID' \in [Uid -> Entry \cup {Absent}]
      BY <3>1, <3>2
    <3> QED
      BY <2>1, <3>3 DEF GoodPool
  <2> QED
    BY <2>1, <2>2
    DEF PoolInv, PoolTypeOK, GoodPool, GoodEntry, Durable, Restart
<1>2. CASE byUID' = Empty
  BY <1>2 DEF PoolInv, PoolTypeOK, Durable, Restart, Empty, Held
<1>3. Load(Empty) = Empty
  BY DEF Load, Empty, Revive
<1>4. byUID' = Load(state) \/ byUID' = Load(Empty)
  BY DEF Restart, Readable
<1> QED
  BY <1>1, <1>2, <1>3, <1>4

LEMMA TickStep ==
  ASSUME PoolInv, Tick
  PROVE  PoolInv'
<1>1. GoodPool
  BY TypeIsGoodPool DEF PoolInv
<1>2. /\ byUID' = [u \in Uid |-> Elapse(byUID[u])]
      /\ state' = [u \in Uid |-> Elapse(state[u])]
      /\ lastSaveFailed' = lastSaveFailed
  BY DEF Tick
<1>3. ASSUME NEW u \in Uid
      PROVE  /\ byUID'[u] \in Entry \cup {Absent}
             /\ Held(u)' => Held(u) /\ GoodEntry(byUID'[u])
  BY <1>1, <1>2, ElapseGood DEF GoodPool, GoodEntry, Held, Elapse
<1>4. ASSUME NEW u \in Uid PROVE state'[u] \in Saved \cup {Absent}
  BY <1>2, ElapseSaved DEF PoolInv, PoolTypeOK, Elapse
<1>5. PoolTypeOK'
  <2>1. /\ byUID' \in [Uid -> Entry \cup {Absent}]
        /\ state' \in [Uid -> Saved \cup {Absent}]
    BY <1>2, <1>3, <1>4
  <2> QED
    BY <1>2, <1>3, <2>1 DEF PoolInv, PoolTypeOK, GoodEntry
<1>6. ASSUME ~lastSaveFailed, NEW u \in Uid, Held(u)'
      PROVE  Pristine(byUID'[u]) \/ OnDisk(u)'
  <2>1. Held(u) /\ byUID[u] \in Entry
    BY <1>1, <1>3, <1>6 DEF GoodPool, GoodEntry
  <2>2. byUID'[u] = Elapse(byUID[u]) /\ state'[u] = Elapse(state[u])
    BY <1>2
  <2>3. CASE Pristine(byUID[u])
    BY <2>2, <2>3 DEF Pristine, Elapse
  <2>4. CASE OnDisk(u)
    <3>1. state[u] \in Saved
      BY <2>4 DEF OnDisk, PoolInv, PoolTypeOK
    <3>2. /\ byUID'[u].credits = byUID[u].credits
          /\ byUID'[u].disabled = byUID[u].disabled
          /\ byUID'[u].left = IF byUID[u].left = 0 THEN 0 ELSE byUID[u].left - 1
      BY <2>1, <2>2 DEF Elapse, Entry, Held
    <3>3. /\ state'[u] # Absent
          /\ state'[u].credits = state[u].credits
          /\ state'[u].disabled = state[u].disabled
          /\ state'[u].left = IF state[u].left = 0 THEN 0 ELSE state[u].left - 1
      BY <2>2, <2>4, <3>1, <1>4, AbsentAssumption DEF Elapse, Saved, OnDisk
    <3> QED
      BY <2>4, <3>2, <3>3 DEF OnDisk
  <2> QED
    BY <1>6, <2>1, <2>3, <2>4 DEF PoolInv, Durable
<1> QED
  BY <1>2, <1>5, <1>6 DEF PoolInv, Durable

LEMMA PoolInvStep ==
  ASSUME PoolInv, [PoolNext]_poolVars
  PROVE  PoolInv'
<1>1. ASSUME NEW u \in Uid, NEW l \in Login, NEW f \in Fp \cup {NoFp},
             Add(u, [login |-> l, fp |-> f])
      PROVE  PoolInv'
  <2>1. [login |-> l, fp |-> f] \in Cred
    BY DEF Cred
  <2> QED
    BY <1>1, <2>1, AddStep
<1>2. ASSUME NEW u \in Uid, NEW b \in Balance, SetCredits(u, b)
      PROVE  PoolInv'
  <2>1. GoodPool /\ Held(u) => GoodEntry([byUID[u] EXCEPT !.credits = b])
    BY DEF GoodPool, GoodEntry, Entry
  <2> QED
    BY <1>2, <2>1, PutStep DEF SetCredits
<1>3. ASSUME NEW u \in Uid, NEW b \in Balance, ReenableIfCredits(u, b)
      PROVE  PoolInv'
  <2>1. GoodPool /\ Held(u) => GoodEntry(Thawed(byUID[u], b))
    BY ThawedGood DEF GoodPool
  <2> QED
    BY <1>3, <2>1, PutStep DEF ReenableIfCredits
<1>4. ASSUME NEW u \in Uid, NEW d \in {HardCooldown, SoftCooldown, ErrCooldown},
             Cooldown(u, d)
      PROVE  PoolInv'
  <2>1. d \in Nat
    BY CooldownAssumption DEF Cooldowns
  <2>2. GoodPool /\ Held(u)
          => GoodEntry([byUID[u] EXCEPT !.left = d, !.errCount = 0])
    BY <2>1, CooledGood DEF GoodPool
  <2> QED
    BY <1>4, <2>2, PutStep DEF Cooldown
<1>5. ASSUME NEW u \in Uid, Disable(u)
      PROVE  PoolInv'
  <2>1. GoodPool /\ Held(u) => GoodEntry([byUID[u] EXCEPT !.disabled = TRUE])
    BY DEF GoodPool, GoodEntry, Entry
  <2> QED
    BY <1>5, <2>1, PutStep DEF Disable
<1>6. ASSUME NEW u \in Uid, NoteError(u, ErrCooldown)
      PROVE  PoolInv'
  <2>1. GoodPool /\ Held(u) => GoodEntry(AfterError(byUID[u], ErrCooldown))
    BY AfterErrorGood, CooldownAssumption DEF GoodPool, Cooldowns
  <2> QED
    BY <1>6, <2>1, PutStep DEF NoteError
<1>7. ASSUME NEW dir \in [Uid -> [login: Login, fp: Fp] \cup {Absent}],
             SyncToDir(dir)
      PROVE  PoolInv'
  <2>1. dir \in [Uid -> Cred \cup {Absent}]
    BY DEF Cred
  <2> QED
    BY <1>7, <2>1, SyncToDirStep
<1>8. ASSUME SaveState PROVE PoolInv'
  BY <1>8, TypeIsGoodPool, SavedPool
  DEF SaveState, PoolInv, PoolTypeOK, GoodPool, Held
<1>9. CASE UNCHANGED poolVars
  BY <1>9 DEF poolVars, PoolInv, PoolTypeOK, Durable, Held, OnDisk
<1> QED
  BY <1>1, <1>2, <1>3, <1>4, <1>5, <1>6, <1>7, <1>8, <1>9,
     NoteSuccessStep, EnsureFingerprintStep, RestartStep, TickStep DEF PoolNext

(* The pool is well formed in every state: in particular no error count     *)
(* ever reaches the threshold.                                              *)
THEOREM PoolTypeCorrect == PoolSpec => []PoolTypeOK
<1>1. PoolInit => PoolInv
  BY PoolInvInit
<1>2. PoolInv /\ [PoolNext]_poolVars => PoolInv'
  BY PoolInvStep
<1>3. PoolInv => PoolTypeOK
  BY DEF PoolInv
<1> QED
  BY <1>1, <1>2, <1>3, PTL DEF PoolSpec

(* Whatever is called in whatever order, and however often the disk fails:  *)
(* unless the very last save failed, state.json has the balance, the ban    *)
(* and the cooldown of every account that has any.                          *)
THEOREM PoolDurable == PoolSpec => []Durable
<1>1. PoolInit => PoolInv
  BY PoolInvInit
<1>2. PoolInv /\ [PoolNext]_poolVars => PoolInv'
  BY PoolInvStep
<1>3. PoolInv => Durable
  BY DEF PoolInv
<1> QED
  BY <1>1, <1>2, <1>3, PTL DEF PoolSpec

-----------------------------------------------------------------------------
(* What becomes of one entry: everything a method or the clock may do to    *)
(* an entry that stays in the pool, a restart aside.                        *)

PlainStep(e, new) ==
  \/ new = e
  \/ \E c \in Cred : new = [e EXCEPT !.c = KeepFp(e.c, c)]
  \/ e.c.fp = NoFp /\ \E f \in Fp : new = [e EXCEPT !.c = [e.c EXCEPT !.fp = f]]
  \/ \E b \in Balance : new = [e EXCEPT !.credits = b]
  \/ \E d \in Cooldowns : new = [e EXCEPT !.left = d, !.errCount = 0]
  \/ new = AfterError(e, ErrCooldown)
  \/ new = [e EXCEPT !.disabled = TRUE]
  \/ new = [e EXCEPT !.errCount = 0]
  \/ new = Elapse(e)

EntryStep(e, new) == PlainStep(e, new) \/ \E b \in Balance : new = Thawed(e, b)

LEMMA PutEffect ==
  ASSUME GoodPool, NEW u \in Uid, NEW e, Put(u, e), NEW w \in Uid
  PROVE  byUID'[w] = IF w = u /\ Held(u) THEN e ELSE byUID[w]
BY DEF GoodPool, Put

LEMMA EntrySteps ==
  ASSUME PoolInv, PoolNext, NEW u \in Uid, Held(u), Held(u)'
  PROVE  \/ PlainStep(byUID[u], byUID'[u]) \/ Restart
         \/ \E b \in Balance : /\ ReenableIfCredits(u, b)
                               /\ byUID'[u] = Thawed(byUID[u], b)
<1> DEFINE Stepped == PlainStep(byUID[u], byUID'[u])
<1>0. GoodPool /\ byUID[u] \in Entry
  BY TypeIsGoodPool DEF PoolInv, GoodPool, GoodEntry
<1>1. ASSUME NEW w \in Uid, NEW l \in Login, NEW f \in Fp \cup {NoFp},
             Add(w, [login |-> l, fp |-> f])
      PROVE  Stepped
  <2> DEFINE c == [login |-> l, fp |-> f]
  <2>1. c \in Cred
    BY DEF Cred
  <2>2. byUID' = [byUID EXCEPT ![w] = AddTo(byUID[w], c)]
    BY <1>1 DEF Add
  <2> HIDE DEF c
  <2>3. CASE w = u
    <3>1. byUID'[u] = [byUID[u] EXCEPT !.c = KeepFp(byUID[u].c, c)]
      BY <1>0, <2>2, <2>3 DEF GoodPool, Held, AddTo
    <3> QED
      BY <2>1, <3>1 DEF PlainStep
  <2>4. CASE w # u
    BY <1>0, <2>2, <2>4 DEF GoodPool, PlainStep
  <2> QED
    BY <2>3, <2>4
<1>2. ASSUME NEW w \in Uid, NEW e, Put(w, e),
             w = u => PlainStep(byUID[u], e)
      PROVE  Stepped
  <2>1. byUID'[u] = IF u = w /\ Held(w) THEN e ELSE byUID[u]
    BY <1>0, <1>2, PutEffect
  <2> QED
    BY <1>2, <2>1 DEF PlainStep
<1>3. ASSUME NEW w \in Uid, NEW b \in Balance, SetCredits(w, b)
      PROVE  Stepped
  <2>1. w = u => PlainStep(byUID[u], [byUID[w] EXCEPT !.credits = b])
    BY DEF PlainStep
  <2>2. Put(w, [byUID[w] EXCEPT !.credits = b])
    BY <1>3 DEF SetCredits
  <2> HIDE DEF Stepped
  <2> QED
    BY <1>2, <2>1, <2>2
<1>10. ASSUME NEW w \in Uid, NEW b \in Balance, ReenableIfCredits(w, b)
       PROVE  Stepped \/ (ReenableIfCredits(u, b) /\ byUID'[u] = Thawed(byUID[u], b))
  <2>1. byUID'[u] = IF u = w /\ Held(w) THEN Thawed(byUID[w], b) ELSE byUID[u]
    BY <1>0, <1>10, PutEffect DEF ReenableIfCredits
  <2>2. CASE w = u
    BY <1>10, <2>1, <2>2
  <2>3. CASE w # u
    BY <2>1, <2>3 DEF PlainStep
  <2> QED
    BY <2>2, <2>3
<1>4. ASSUME NEW w \in Uid, NEW d \in {HardCooldown, SoftCooldown, ErrCooldown},
             Cooldown(w, d)
      PROVE  Stepped
  <2>1. w = u => PlainStep(byUID[u], [byUID[w] EXCEPT !.left = d, !.errCount = 0])
    BY DEF PlainStep, Cooldowns
  <2> HIDE DEF Stepped
  <2> QED
    BY <1>2, <1>4, <2>1 DEF Cooldown
<1>5. ASSUME NEW w \in Uid,
             Disable(w) \/ NoteError(w, ErrCooldown) \/ NoteSuccess(w)
      PROVE  Stepped
  <2>1. w = u => /\ PlainStep(byUID[u], [byUID[w] EXCEPT !.disabled = TRUE])
                 /\ PlainStep(byUID[u], AfterError(byUID[w], ErrCooldown))
                 /\ PlainStep(byUID[u], [byUID[w] EXCEPT !.errCount = 0])
    BY DEF PlainStep
  <2> HIDE DEF Stepped
  <2> QED
    BY <1>2, <1>5, <2>1 DEF Disable, NoteError, NoteSuccess
<1>6. ASSUME NEW w \in Uid, EnsureFingerprint(w)
      PROVE  Stepped
  <2>1. PICK f \in Fp : byUID' = [byUID EXCEPT ![w].c.fp = f]
    BY <1>6 DEF EnsureFingerprint
  <2>2. byUID'[u] = IF u = w THEN [byUID[u] EXCEPT !.c = [byUID[u].c EXCEPT !.fp = f]]
                    ELSE byUID[u]
    BY <1>0, <2>1 DEF GoodPool
  <2> QED
    BY <1>6, <2>2 DEF PlainStep, EnsureFingerprint
<1>7. ASSUME NEW dir \in [Uid -> [login: Login, fp: Fp] \cup {Absent}],
             SyncToDir(dir)
      PROVE  Stepped
  <2>1. dir[u] \in Cred /\ byUID'[u] = AddTo(byUID[u], dir[u])
    BY <1>7 DEF SyncToDir, Held, Cred
  <2>2. byUID'[u] = [byUID[u] EXCEPT !.c = KeepFp(byUID[u].c, dir[u])]
    BY <2>1 DEF AddTo, Held
  <2> QED
    BY <2>1, <2>2 DEF PlainStep
<1>8. CASE SaveState
  BY <1>8 DEF SaveState, PlainStep
<1>9. CASE Tick
  BY <1>9 DEF Tick, PlainStep
<1> QED
  BY <1>1, <1>3, <1>4, <1>5, <1>6, <1>7, <1>8, <1>9, <1>10 DEF PoolNext

LEMMA EntryKeepsFp ==
  ASSUME NEW e, GoodEntry(e), NEW new, EntryStep(e, new), e.c.fp # NoFp
  PROVE  new.c.fp = e.c.fp
<1>1. e \in Entry /\ e.c \in Cred
  BY DEF GoodEntry, Entry
<1>2. ASSUME NEW c \in Cred, new = [e EXCEPT !.c = KeepFp(e.c, c)]
      PROVE  new.c.fp = e.c.fp
  <2>1. KeepFp(e.c, c) = [c EXCEPT !.fp = e.c.fp]
    BY DEF KeepFp
  <2>2. KeepFp(e.c, c).fp = e.c.fp
    BY <2>1 DEF Cred
  <2> QED
    BY <1>1, <1>2, <2>2 DEF Entry
<1>3. ASSUME NEW b \in Balance, new = [e EXCEPT !.credits = b] \/ new = Thawed(e, b)
      PROVE  new.c.fp = e.c.fp
  BY <1>1, <1>3 DEF Thawed, Entry
<1>4. ASSUME NEW d \in Cooldowns, new = [e EXCEPT !.left = d, !.errCount = 0]
      PROVE  new.c.fp = e.c.fp
  BY <1>1, <1>4 DEF Entry
<1>5. CASE \/ new = AfterError(e, ErrCooldown) \/ new = [e EXCEPT !.disabled = TRUE]
           \/ new = [e EXCEPT !.errCount = 0] \/ new = Elapse(e) \/ new = e
  BY <1>1, <1>5 DEF AfterError, Elapse, Entry
<1> QED
  BY <1>2, <1>3, <1>4, <1>5 DEF EntryStep, PlainStep

(* A thaw ends a cooldown only with credits, and no other step ends one of  *)
(* more than a tick.                                                        *)
LEMMA EntryThaws ==
  ASSUME NEW e, GoodEntry(e), e.left > 1
  PROVE  /\ \A b \in Balance : Healthy(Thawed(e, b)) => b > 0
         /\ \A new : PlainStep(e, new) => ~Healthy(new)
<1>1. e \in Entry /\ e.left \in Nat /\ e.left # 0
  BY DEF GoodEntry, Entry
<1>2. ASSUME NEW b \in Balance, Healthy(Thawed(e, b)) PROVE b > 0
  BY <1>1, <1>2 DEF Thawed, Healthy, Entry
<1> SUFFICES ASSUME NEW new, PlainStep(e, new), Healthy(new) PROVE FALSE
  BY <1>2
<1>8. new.left = 0 /\ ~new.disabled
  BY DEF Healthy
<1>3. ASSUME NEW b \in Balance, new = [e EXCEPT !.credits = b]
      PROVE  FALSE
  BY <1>1, <1>8, <1>3 DEF Entry
<1>4. ASSUME NEW d \in Cooldowns, new = [e EXCEPT !.left = d, !.errCount = 0]
      PROVE  FALSE
  BY <1>1, <1>8, <1>4, CooldownAssumption DEF Entry
<1>5. ASSUME new = AfterError(e, ErrCooldown) PROVE FALSE
  BY <1>1, <1>8, <1>5, CooldownAssumption DEF AfterError, Entry, Cooldowns
<1>6. ASSUME new = Elapse(e) PROVE FALSE
  <2>1. new = [e EXCEPT !.left = e.left - 1]
    BY <1>1, <1>6, AbsentAssumption DEF Elapse
  <2> QED
    BY <1>1, <1>8, <2>1 DEF Entry
<1>7. ASSUME \/ \E c \in Cred : new = [e EXCEPT !.c = KeepFp(e.c, c)]
             \/ \E f \in Fp : new = [e EXCEPT !.c = [e.c EXCEPT !.fp = f]]
             \/ new = [e EXCEPT !.disabled = TRUE]
             \/ new = [e EXCEPT !.errCount = 0] \/ new = e
      PROVE  FALSE
  BY <1>1, <1>8, <1>7 DEF Entry
<1> QED
  BY <1>3, <1>4, <1>5, <1>6, <1>7 DEF PlainStep

LEMMA RestartFromFile ==
  ASSUME PoolInv, Restart, NEW u \in Uid, Held(u)'
  PROVE  state[u] \in Saved /\ byUID'[u] = Revive(state[u])
<1>1. byUID' = Load(state) \/ byUID' = Load(Empty)
  BY DEF Restart, Readable
<1>2. byUID'[u] = Revive(state[u]) /\ state[u] # Absent
  BY <1>1 DEF Load, Empty, Revive, Held
<1> QED
  BY <1>2 DEF PoolInv, PoolTypeOK

(* While the pool holds an account, its credential keeps the machine        *)
(* fingerprint it has, whoever logs in or rescans the directory; a restart  *)
(* may replace it by the saved one.                                         *)
THEOREM FingerprintIsKept == PoolSpec => FingerprintKept
<1> DEFINE Kept(u) ==
      (Held(u) /\ Held(u)' /\ byUID[u].c.fp # NoFp)
        => byUID'[u].c.fp \in
             {byUID[u].c.fp} \cup IF state[u] = Absent THEN {} ELSE {state[u].fp}
<1>1. ASSUME PoolInv, PoolNext, NEW u \in Uid PROVE Kept(u)
  <2> SUFFICES ASSUME Held(u), Held(u)', byUID[u].c.fp # NoFp
               PROVE  byUID'[u].c.fp \in {byUID[u].c.fp} \cup
                        IF state[u] = Absent THEN {} ELSE {state[u].fp}
    OBVIOUS
  <2>1. GoodEntry(byUID[u])
    BY <1>1, TypeIsGoodPool DEF PoolInv, GoodPool
  <2>2. CASE Restart
    <3>1. state[u] \in Saved /\ byUID'[u] = Revive(state[u])
      BY <1>1, <2>2, RestartFromFile
    <3> QED
      BY <3>1, AbsentAssumption DEF Revive
  <2>3. CASE ~Restart
    BY <1>1, <2>1, <2>3, EntrySteps, EntryKeepsFp DEF EntryStep
  <2> QED
    BY <2>2, <2>3
<1>2. PoolInit => PoolInv
  BY PoolInvInit
<1>3. PoolInv /\ [PoolNext]_poolVars => PoolInv'
  BY PoolInvStep
<1>4. PoolInv /\ [PoolNext]_poolVars => [\A u \in Uid : Kept(u)]_poolVars
  BY <1>1
<1> QED
  BY <1>2, <1>3, <1>4, PTL DEF PoolSpec, FingerprintKept

(* An account that was cooling for more than one tick becomes healthy at    *)
(* once by one call only, ReenableIfCredits() for this account with a       *)
(* positive balance (pool.go:185-204), and by no restart unless a save had  *)
(* failed.                                                                  *)
THEOREM ThawNeedsCredits == PoolSpec => EarlyThawNeedsCredits
<1> DEFINE Thaws(u) ==
      (Held(u) /\ Held(u)' /\ byUID[u].left > 1 /\ Healthy(byUID'[u]))
        => \/ \E b \in Balance : b > 0 /\ ReenableIfCredits(u, b)
           \/ lastSaveFailed /\ Restart
<1>1. ASSUME PoolInv, PoolNext, NEW u \in Uid PROVE Thaws(u)
  <2> SUFFICES ASSUME Held(u), Held(u)', byUID[u].left > 1, Healthy(byUID'[u]),
                      ~(lastSaveFailed /\ Restart)
               PROVE  \E b \in Balance : b > 0 /\ ReenableIfCredits(u, b)
    OBVIOUS
  <2>1. GoodEntry(byUID[u])
    BY <1>1, TypeIsGoodPool DEF PoolInv, GoodPool
  <2>2. CASE Restart
    <3>1. state[u] \in Saved /\ byUID'[u] = Revive(state[u])
      BY <1>1, <2>2, RestartFromFile
    <3>2. ~Pristine(byUID[u])
      BY <2>1 DEF Pristine, GoodEntry, Entry
    <3>3. OnDisk(u)
      BY <1>1, <2>2, <3>2 DEF PoolInv, Durable
    <3>4. byUID'[u].left = byUID[u].left
      BY <3>1, <3>3, AbsentAssumption DEF Revive, OnDisk
    <3> QED
      BY <2>1, <3>4 DEF Healthy, GoodEntry, Entry
  <2>3. CASE ~Restart
    BY <1>1, <2>1, <2>3, EntrySteps, EntryThaws
  <2> QED
    BY <2>2, <2>3
<1>2. PoolInit => PoolInv
  BY PoolInvInit
<1>3. PoolInv /\ [PoolNext]_poolVars => PoolInv'
  BY PoolInvStep
<1>4. PoolInv /\ [PoolNext]_poolVars => [\A u \in Uid : Thaws(u)]_poolVars
  BY <1>1
<1> QED
  BY <1>2, <1>3, <1>4, PTL DEF PoolSpec, EarlyThawNeedsCredits

-----------------------------------------------------------------------------
(* The pool implements AccountLife as long as state.json can be read and    *)
(* written.  The invariant this needs beyond Durable is that no save fails, *)
(* so that every account that is cooling or disabled is so in the file.     *)

AvailNow == [u \in Uid |-> Avail(byUID[u])]

LifeStep == Life!Next \/ UNCHANGED AvailNow

DiskInv == PoolInv /\ lastSaveFailed = FALSE

LEMMA AvailKind ==
  ASSUME NEW e
  PROVE  Avail(e) \in {"absent", "ready", "cooling", "disabled"}
BY DEF Avail

(* How one account may move in AccountLife, other than at a restart or when *)
(* the directory is rescanned.                                              *)
Arrow(from, to) ==
  \/ to = from
  \/ from = "absent" /\ to = "ready"
  \/ from = "ready" /\ to = "cooling"
  \/ from \in {"ready", "cooling"} /\ to = "disabled"
  \/ from = "cooling" /\ to = "ready"

(* Only one account moves, along one of the arrows of AccountLife. *)
LEMMA LifeOne ==
  ASSUME NEW u \in Uid, \A w \in Uid \ {u} : byUID'[w] = byUID[w],
         Arrow(Avail(byUID[u]), Avail(byUID'[u]))
  PROVE  LifeStep
<1>1. /\ AvailNow[u] = Avail(byUID[u]) /\ AvailNow'[u] = Avail(byUID'[u])
      /\ \A w \in Uid \ {u} : AvailNow'[w] = AvailNow[w]
  BY DEF AvailNow
<1>2. /\ AvailNow = [w \in Uid |-> AvailNow[w]]
      /\ AvailNow' = [w \in Uid |-> AvailNow'[w]]
  BY DEF AvailNow
<1> HIDE DEF AvailNow
<1>3. CASE AvailNow'[u] = AvailNow[u]
  BY <1>1, <1>2, <1>3 DEF LifeStep
<1>4. CASE AvailNow[u] = "absent" /\ AvailNow'[u] = "ready"
  <2>1. Life!Admit(u)
    BY <1>1, <1>2, <1>4 DEF Life!Admit, AvailNow
  <2> QED
    BY <2>1 DEF LifeStep, Life!Next
<1>5. CASE AvailNow[u] = "ready" /\ AvailNow'[u] = "cooling"
  <2>1. Life!Cool(u)
    BY <1>1, <1>2, <1>5 DEF Life!Cool, AvailNow
  <2> QED
    BY <2>1 DEF LifeStep, Life!Next
<1>6. CASE AvailNow[u] \in {"ready", "cooling"} /\ AvailNow'[u] = "disabled"
  <2>1. Life!Ban(u)
    BY <1>1, <1>2, <1>6 DEF Life!Ban, AvailNow
  <2> QED
    BY <2>1 DEF LifeStep, Life!Next
<1>7. CASE AvailNow[u] = "cooling" /\ AvailNow'[u] = "ready"
  <2>1. {u} \in SUBSET {w \in Uid : AvailNow[w] = "cooling"}
    BY <1>7
  <2>2. AvailNow' = [w \in Uid |-> IF w \in {u} THEN "ready" ELSE AvailNow[w]]
    BY <1>1, <1>2, <1>7
  <2>3. Life!Thaw
    BY <2>1, <2>2 DEF Life!Thaw, AvailNow
  <2> QED
    BY <2>3 DEF LifeStep, Life!Next
<1> QED
  BY <1>1, <1>3, <1>4, <1>5, <1>6, <1>7 DEF Arrow

LEMMA EntryArrow ==
  ASSUME NEW e, GoodEntry(e), NEW new, EntryStep(e, new)
  PROVE  Arrow(Avail(e), Avail(new))
<1>1. e \in Entry /\ e # Absent
  BY AbsentAssumption DEF GoodEntry, Entry
<1>2. ASSUME NEW x \in Entry
      PROVE  Avail(x) = IF x.disabled THEN "disabled"
                        ELSE IF x.left > 0 THEN "cooling" ELSE "ready"
  <2>1. x # Absent /\ x.disabled \in BOOLEAN
    BY AbsentAssumption DEF Entry
  <2> QED
    BY <2>1 DEF Avail
<1>3. CASE \/ \E c \in Cred : new = [e EXCEPT !.c = KeepFp(e.c, c)]
           \/ \E f \in Fp : new = [e EXCEPT !.c = [e.c EXCEPT !.fp = f]]
           \/ \E b \in Balance : new = [e EXCEPT !.credits = b]
           \/ new = [e EXCEPT !.errCount = 0] \/ new = e
  <2>1. new \in Entry
    BY <1>1, <1>3, KeepFpCred, ThresholdAssumption DEF Entry, Cred
  <2>2. new.disabled = e.disabled /\ new.left = e.left
    BY <1>1, <1>3 DEF Entry
  <2> QED
    BY <1>1, <1>2, <2>1, <2>2 DEF Arrow
<1>4. ASSUME NEW b \in Balance, new = Thawed(e, b)
      PROVE  Arrow(Avail(e), Avail(new))
  <2>1. new \in Entry
    BY <1>4, ThawedGood DEF GoodEntry
  <2>2. new.disabled = e.disabled /\ (new.left = e.left \/ new.left = 0)
    BY <1>1, <1>4 DEF Thawed, Entry
  <2> QED
    BY <1>1, <1>2, <2>1, <2>2 DEF Arrow
<1>5. ASSUME NEW d \in Cooldowns, new = [e EXCEPT !.left = d, !.errCount = 0]
      PROVE  Arrow(Avail(e), Avail(new))
  <2>1. d \in Nat /\ d > 0
    BY <1>5, CooldownAssumption
  <2>2. new \in Entry
    BY <1>5, <2>1, CooledGood DEF GoodEntry
  <2>3. new.left > 0 /\ new.disabled = e.disabled
    BY <1>1, <1>5, <2>1 DEF Entry
  <2> QED
    BY <1>1, <1>2, <2>2, <2>3 DEF Arrow
<1>6. ASSUME new = AfterError(e, ErrCooldown)
      PROVE  Arrow(Avail(e), Avail(new))
  <2>1. ErrCooldown \in Nat \ {0}
    BY CooldownAssumption DEF Cooldowns
  <2>2. new \in Entry
    BY <1>6, <2>1, AfterErrorGood DEF GoodEntry
  <2>3. new.disabled = e.disabled /\ (new.left = e.left \/ new.left = ErrCooldown)
    BY <1>1, <1>6 DEF AfterError, Entry
  <2> QED
    BY <1>1, <1>2, <2>1, <2>2, <2>3 DEF Arrow
<1>7. ASSUME new = [e EXCEPT !.disabled = TRUE]
      PROVE  Arrow(Avail(e), Avail(new))
  <2>1. new \in Entry /\ new.disabled
    BY <1>1, <1>7 DEF Entry
  <2> QED
    BY <1>1, <1>2, <2>1 DEF Arrow
<1>8. ASSUME new = Elapse(e)
      PROVE  Arrow(Avail(e), Avail(new))
  <2>1. new \in Entry
    BY <1>8, ElapseGood DEF GoodEntry
  <2>2. new.disabled = e.disabled /\ (new.left <= e.left)
    BY <1>1, <1>8 DEF Elapse, Entry
  <2>3. new.left \in Nat /\ e.left \in Nat
    BY <1>1, <2>1 DEF Entry
  <2> QED
    BY <1>1, <1>2, <2>1, <2>2, <2>3 DEF Arrow
<1> QED
  BY <1>3, <1>4, <1>5, <1>6, <1>7, <1>8 DEF EntryStep, PlainStep

LEMMA NewEntryReady ==
  ASSUME NEW c \in Cred
  PROVE  Avail(NewEntry(c)) = "ready"
<1>1. NewEntry(c) # Absent
  BY NewEntryGood, AbsentAssumption DEF GoodEntry
<1> QED
  BY <1>1 DEF NewEntry, Avail

(* Methods that touch one account. *)
LEMMA LifeOfOne ==
  ASSUME PoolInv, PoolNext, NEW u \in Uid,
         \A w \in Uid \ {u} : byUID'[w] = byUID[w],
         Held(u) => Held(u)', ~Restart,
         ~Held(u) => byUID'[u] = byUID[u]
                       \/ \E c \in Cred : byUID'[u] = NewEntry(c)
  PROVE  LifeStep
<1>1. CASE Held(u)
  <2>1. GoodEntry(byUID[u])
    BY <1>1, TypeIsGoodPool DEF PoolInv, GoodPool
  <2> QED
    BY <1>1, <2>1, EntrySteps, EntryArrow, LifeOne DEF EntryStep
<1>2. CASE ~Held(u) /\ byUID'[u] = byUID[u]
  BY <1>2, LifeOne DEF Arrow
<1>3. ASSUME ~Held(u), NEW c \in Cred, byUID'[u] = NewEntry(c) PROVE LifeStep
  <2>1. Avail(byUID[u]) = "absent" /\ Avail(byUID'[u]) = "ready"
    BY <1>3, NewEntryReady DEF Held, Avail
  <2> QED
    BY <2>1, LifeOne DEF Arrow
<1> QED
  BY <1>1, <1>2, <1>3

LEMMA LifeTick ==
  ASSUME PoolInv, Tick
  PROVE  LifeStep
<1> DEFINE S == {u \in Uid : AvailNow[u] = "cooling" /\ AvailNow'[u] = "ready"}
<1>1. ASSUME NEW u \in Uid
      PROVE  AvailNow'[u] = IF u \in S THEN "ready" ELSE AvailNow[u]
  <2>1. byUID'[u] = Elapse(byUID[u])
    BY DEF Tick
  <2>2. AvailNow[u] = Avail(byUID[u]) /\ AvailNow'[u] = Avail(byUID'[u])
    BY DEF AvailNow
  <2>3. CASE ~Held(u)
    BY <2>1, <2>2, <2>3 DEF Held, Elapse
  <2>4. CASE Held(u)
    <3>1. byUID[u] \in Entry /\ byUID[u].disabled \in BOOLEAN /\ byUID[u].left \in Nat
      BY <2>4, TypeIsGoodPool DEF PoolInv, GoodPool, GoodEntry, Entry
    <3>2. CASE byUID[u].left = 0
      BY <2>1, <2>2, <3>2 DEF Elapse
    <3>3. CASE byUID[u].left # 0
      <4>1. byUID'[u] = [byUID[u] EXCEPT !.left = byUID[u].left - 1]
        BY <2>1, <2>4, <3>3 DEF Elapse, Held
      <4>2. byUID'[u] \in Entry /\ byUID'[u].disabled = byUID[u].disabled
        BY <3>1, <3>3, <4>1 DEF Entry
      <4>3. byUID'[u] # Absent /\ byUID[u] # Absent
        BY <2>4, <4>2, AbsentAssumption DEF Held
      <4>4. CASE byUID[u].disabled
        BY <2>2, <4>2, <4>3, <4>4 DEF Avail
      <4>5. CASE ~byUID[u].disabled
        <5>1. Avail(byUID[u]) = "cooling"
          BY <3>1, <3>3, <4>3, <4>5 DEF Avail
        <5>2. Avail(byUID'[u]) \in {"cooling", "ready"}
          BY <4>2, <4>3, <4>5 DEF Avail
        <5> QED
          BY <2>2, <5>1, <5>2
      <4> QED
        BY <4>4, <4>5
    <3> QED
      BY <3>2, <3>3
  <2> QED
    BY <2>3, <2>4
<1>2. S \in SUBSET {u \in Uid : AvailNow[u] = "cooling"}
  OBVIOUS
<1>3. AvailNow' = [u \in Uid |-> IF u \in S THEN "ready" ELSE AvailNow[u]]
  <2>1. AvailNow' = [u \in Uid |-> AvailNow'[u]]
    BY DEF AvailNow
  <2> HIDE DEF S, AvailNow
  <2> QED
    BY <1>1, <2>1
<1>4. Life!Thaw
  <2> HIDE DEF S
  <2> QED
    BY <1>2, <1>3 DEF Life!Thaw, AvailNow
<1> QED
  BY <1>4 DEF LifeStep, Life!Next

LEMMA LifeRescan ==
  ASSUME PoolInv, NEW dir \in [Uid -> [login: Login, fp: Fp] \cup {Absent}],
         SyncToDir(dir)
  PROVE  LifeStep
<1> DEFINE Dir == {u \in Uid : dir[u] # Absent}
<1>1. ASSUME NEW u \in Uid
      PROVE  AvailNow'[u] = IF u \notin Dir THEN "absent"
                            ELSE IF AvailNow[u] = "absent" THEN "ready"
                            ELSE AvailNow[u]
  <2>1. byUID'[u] = IF dir[u] = Absent THEN Absent ELSE AddTo(byUID[u], dir[u])
    BY DEF SyncToDir
  <2>2. AvailNow[u] = Avail(byUID[u]) /\ AvailNow'[u] = Avail(byUID'[u])
    BY DEF AvailNow
  <2>3. CASE dir[u] = Absent
    BY <2>1, <2>2, <2>3 DEF Avail
  <2>4. CASE dir[u] # Absent /\ ~Held(u)
    <3>1. dir[u] \in Cred
      BY <2>4 DEF Cred
    <3>2. byUID'[u] = NewEntry(dir[u])
      BY <2>1, <2>4 DEF Held, AddTo
    <3>3. Avail(byUID[u]) = "absent"
      BY <2>4 DEF Held, Avail
    <3> QED
      BY <2>2, <2>4, <3>1, <3>2, <3>3, NewEntryReady
  <2>5. CASE dir[u] # Absent /\ Held(u)
    <3>1. byUID[u] \in Entry /\ dir[u] \in Cred /\ byUID[u].c \in Cred
      BY <2>5, TypeIsGoodPool DEF PoolInv, GoodPool, GoodEntry, Entry, Cred
    <3>2. byUID'[u] = [byUID[u] EXCEPT !.c = KeepFp(byUID[u].c, dir[u])]
      BY <2>1, <2>5 DEF Held, AddTo
    <3>3. KeepFp(byUID[u].c, dir[u]) \in Cred
      BY <3>1, KeepFpCred
    <3>4. /\ byUID'[u] \in Entry
          /\ byUID'[u].disabled = byUID[u].disabled
          /\ byUID'[u].left = byUID[u].left
      BY <3>1, <3>2, <3>3 DEF Entry
    <3>5. byUID'[u] # Absent /\ byUID[u] # Absent
      BY <2>5, <3>4, AbsentAssumption DEF Held
    <3>6. Avail(byUID'[u]) = Avail(byUID[u]) /\ Avail(byUID[u]) # "absent"
      BY <3>4, <3>5 DEF Avail
    <3> QED
      BY <2>2, <2>5, <3>6
  <2> QED
    BY <2>3, <2>4, <2>5
<1>2. Life!Rescan
  <2>1. AvailNow' = [u \in Uid |-> AvailNow'[u]] /\ Dir \in SUBSET Uid
    BY DEF AvailNow
  <2>2. AvailNow' = [u \in Uid |-> IF u \notin Dir THEN "absent"
                                   ELSE IF AvailNow[u] = "absent" THEN "ready"
                                   ELSE AvailNow[u]]
    <3> HIDE DEF Dir, AvailNow
    <3> QED
      BY <1>1, <2>1
  <2> HIDE DEF Dir
  <2> QED
    BY <2>1, <2>2 DEF Life!Rescan, AvailNow
<1> QED
  BY <1>2 DEF LifeStep, Life!Next

(* The heart of the matter: an account that is cooling or disabled is not   *)
(* pristine, so the file has its condition, and the restart brings it back. *)
LEMMA LifeRestart ==
  ASSUME DiskInv, DiskMayFail = FALSE, Restart
  PROVE  LifeStep
<1>1. byUID' = Load(state)
  BY DEF Restart, Readable
<1>2. ASSUME NEW u \in Uid, AvailNow[u] \in {"cooling", "disabled"}
      PROVE  AvailNow'[u] = AvailNow[u]
  <2>1. AvailNow[u] = Avail(byUID[u]) /\ AvailNow'[u] = Avail(byUID'[u])
    BY DEF AvailNow
  <2>2. byUID[u] # Absent /\ (byUID[u].disabled \/ byUID[u].left > 0)
    BY <1>2, <2>1 DEF Avail
  <2>3. byUID[u] \in Entry
    BY <2>2 DEF DiskInv, PoolInv, PoolTypeOK
  <2>4. OnDisk(u)
    BY <2>2, <2>3 DEF DiskInv, PoolInv, Durable, Held, Pristine, Entry
  <2>5. state[u] \in Saved /\ byUID'[u] = Revive(state[u])
    BY <1>1, <2>4 DEF Load, OnDisk, DiskInv, PoolInv, PoolTypeOK
  <2>6. /\ byUID'[u].disabled = byUID[u].disabled
        /\ byUID'[u].left = byUID[u].left
    BY <2>4, <2>5 DEF Revive, OnDisk
  <2>7. byUID'[u] # Absent
    BY <2>5, ReviveGood, AbsentAssumption DEF GoodEntry
  <2> QED
    BY <2>1, <2>2, <2>6, <2>7 DEF Avail
<1>3. AvailNow' \in [Uid -> {"absent", "ready", "cooling", "disabled"}]
  BY AvailKind DEF AvailNow
<1>4. Life!Restart
  BY <1>2, <1>3 DEF Life!Restart, Life!Availability, Life!Restricted, AvailNow
<1> QED
  BY <1>4 DEF LifeStep, Life!Next

LEMMA LifeSteps ==
  ASSUME DiskInv, DiskMayFail = FALSE, PoolNext
  PROVE  LifeStep
<1> USE DEF DiskInv
<1>0. GoodPool
  BY TypeIsGoodPool DEF PoolInv
<1>1. ASSUME NEW u \in Uid, NEW l \in Login, NEW f \in Fp \cup {NoFp},
             Add(u, [login |-> l, fp |-> f]), ~Restart
      PROVE  LifeStep
  <2> DEFINE c == [login |-> l, fp |-> f]
  <2>1. c \in Cred
    BY DEF Cred
  <2>2. byUID' = [byUID EXCEPT ![u] = AddTo(byUID[u], c)]
    BY <1>1 DEF Add
  <2> HIDE DEF c
  <2>3. byUID'[u] = AddTo(byUID[u], c) /\ \A w \in Uid \ {u} : byUID'[w] = byUID[w]
    BY <1>0, <2>2 DEF GoodPool
  <2>4. GoodEntry(byUID'[u])
    BY <1>0, <2>1, <2>3, AddToGood DEF GoodPool, Held
  <2>5. Held(u)'
    BY <2>4, AbsentAssumption DEF Held, GoodEntry
  <2>6. ~Held(u) => byUID'[u] = NewEntry(c)
    BY <2>3 DEF Held, AddTo
  <2> QED
    BY <1>1, <2>1, <2>3, <2>5, <2>6, LifeOfOne
<1>2. ASSUME NEW u \in Uid, NEW e, Put(u, e), GoodPool /\ Held(u) => GoodEntry(e),
             ~Restart
      PROVE  LifeStep
  <2>1. \A w \in Uid : byUID'[w] = IF w = u /\ Held(u) THEN e ELSE byUID[w]
    BY <1>0, <1>2, PutEffect
  <2>2. Held(u) => Held(u)'
    BY <1>0, <1>2, <2>1, AbsentAssumption DEF Held, GoodEntry
  <2> QED
    BY <1>2, <2>1, <2>2, LifeOfOne
<1>3. ASSUME NEW u \in Uid, NEW b \in Balance, ~Restart,
             SetCredits(u, b) \/ ReenableIfCredits(u, b)
      PROVE  LifeStep
  <2>1. GoodPool /\ Held(u) => /\ GoodEntry([byUID[u] EXCEPT !.credits = b])
                               /\ GoodEntry(Thawed(byUID[u], b))
    BY ThawedGood DEF GoodPool, GoodEntry, Entry
  <2> QED
    BY <1>2, <1>3, <2>1 DEF SetCredits, ReenableIfCredits
<1>4. ASSUME NEW u \in Uid, NEW d \in {HardCooldown, SoftCooldown, ErrCooldown},
             Cooldown(u, d), ~Restart
      PROVE  LifeStep
  <2>1. d \in Nat
    BY CooldownAssumption DEF Cooldowns
  <2>2. GoodPool /\ Held(u) => GoodEntry([byUID[u] EXCEPT !.left = d, !.errCount = 0])
    BY <2>1, CooledGood DEF GoodPool
  <2> QED
    BY <1>2, <1>4, <2>2 DEF Cooldown
<1>5. ASSUME NEW u \in Uid, ~Restart,
             Disable(u) \/ NoteError(u, ErrCooldown) \/ NoteSuccess(u)
      PROVE  LifeStep
  <2>1. GoodPool /\ Held(u) => GoodEntry([byUID[u] EXCEPT !.disabled = TRUE])
    BY DEF GoodPool, GoodEntry, Entry
  <2>2. GoodPool /\ Held(u) => GoodEntry(AfterError(byUID[u], ErrCooldown))
    BY AfterErrorGood, CooldownAssumption DEF GoodPool, Cooldowns
  <2>3. GoodPool /\ Held(u) => GoodEntry([byUID[u] EXCEPT !.errCount = 0])
    BY ThresholdAssumption DEF GoodPool, GoodEntry, Entry
  <2> QED
    BY <1>2, <1>5, <2>1, <2>2, <2>3 DEF Disable, NoteError, NoteSuccess
<1>6. ASSUME NEW u \in Uid, EnsureFingerprint(u), ~Restart
      PROVE  LifeStep
  <2>1. /\ Held(u) /\ Held(u)'
        /\ \A w \in Uid \ {u} : byUID'[w] = byUID[w]
    <3>1. PICK f \in Fp : byUID' = [byUID EXCEPT ![u].c.fp = f]
      BY <1>6 DEF EnsureFingerprint
    <3>2. PoolInv'
      BY <1>6, EnsureFingerprintStep
    <3>3. byUID[u] \in Entry /\ Held(u)
      BY <1>0, <1>6 DEF EnsureFingerprint, GoodPool, GoodEntry
    <3>4. byUID'[u] = [byUID[u] EXCEPT !.c = [byUID[u].c EXCEPT !.fp = f]]
      BY <1>0, <3>1 DEF GoodPool
    <3>5. [byUID[u].c EXCEPT !.fp = f] \in Cred
      BY <3>3 DEF Entry, Cred
    <3>6. byUID'[u] \in Entry
      BY <3>3, <3>4, <3>5 DEF Entry
    <3> QED
      BY <1>0, <3>1, <3>3, <3>6, AbsentAssumption DEF GoodPool, Held
  <2> QED
    BY <1>6, <2>1, LifeOfOne
<1>7. CASE SaveState
  BY <1>7 DEF SaveState, LifeStep, AvailNow
<1> QED
  BY <1>1, <1>3, <1>4, <1>5, <1>6, <1>7, LifeTick, LifeRescan, LifeRestart
  DEF PoolNext

LEMMA DiskInvStep ==
  ASSUME DiskInv, DiskMayFail = FALSE, [PoolNext]_poolVars
  PROVE  DiskInv'
<1>1. PoolInv'
  BY PoolInvStep DEF DiskInv
<1>2. lastSaveFailed' = FALSE
  BY DEF DiskInv, PoolNext, Add, SetCredits, ReenableIfCredits, Cooldown, Disable,
         NoteError, NoteSuccess, EnsureFingerprint, SyncToDir, SaveState, Restart,
         Tick, SaveLocked, Unsaved, poolVars
<1> QED
  BY <1>1, <1>2 DEF DiskInv

(* As long as state.json can be read and written, every behaviour of the    *)
(* pool, crashes included, is one of AccountLife: nothing but credits and   *)
(* the clock ends a cooldown, nothing ends a ban while the pool holds the   *)
(* account, and no restart frees an account that Pick refused before it.    *)
THEOREM PoolImplementsLife ==
  ASSUME DiskMayFail = FALSE
  PROVE  PoolSpec => ImplementsLife
<1>1. PoolInit => DiskInv
  BY PoolInvInit DEF DiskInv, PoolInit
<1>2. DiskInv /\ [PoolNext]_poolVars => DiskInv'
  BY DiskInvStep
<1>3. PoolInit => Life!Init
  BY DEF PoolInit, Empty, Life!Init, Avail
<1>4. DiskInv /\ [PoolNext]_poolVars
        => [Life!Next]_([u \in Uid |-> Avail(byUID[u])])
  <2>1. CASE PoolNext /\ DiskInv
    BY <2>1, LifeSteps DEF LifeStep, AvailNow
  <2>2. CASE UNCHANGED poolVars
    BY <2>2 DEF poolVars
  <2> QED
    BY <2>1, <2>2
<1> QED
  BY <1>1, <1>2, <1>3, <1>4, PTL DEF PoolSpec, ImplementsLife, Life!Spec
=============================================================================
