---------------------------- MODULE TenancyProofs ----------------------------
(***************************************************************************)
(* Theorems about Tenancy, for any sets of users, names, accounts,         *)
(* sessions and goroutines, and any users with the role of an              *)
(* administrator.                                                          *)
(***************************************************************************)
EXTENDS Tenancy, TLAPS

-----------------------------------------------------------------------------
(* The parts of the type invariant that the operations touch, and what a   *)
(* job holds at each of its points.                                        *)

StoreOK ==
  /\ users \in [User -> Name \cup {Absent}] /\ file \in [User -> Name \cup {Absent}]
  /\ byKey = {u \in User : users[u] # Absent}
  /\ Named(users) /\ Named(file)
  /\ told \in [User -> {"nothing", "created", "failed", "deleted", "not deleted"}]

PoolsOK ==
  /\ DOMAIN pools = Somebody
  /\ \A u \in Somebody : pools[u] # Absent => pools[u] \subseteq Account
  /\ dir \in [Somebody -> SUBSET Account]

LoginsOK ==
  /\ asked \in [Somebody -> SUBSET Account]
  /\ sess \in [Session -> Somebody \cup {Absent}]
  /\ granted \in [Session -> Account \cup {Absent}]

(* A job knows whom it is for, what it polls and what it got, when it is   *)
(* about to use them.                                                      *)
JobOK(job) ==
  /\ job \in Job
  /\ job.pc # "idle" => job.user \in Somebody
  /\ job.pc \in {"register", "remove"} => job.user \in User
  /\ job.pc = "polling" => job.sess \in Session
  /\ job.pc \in {"write", "add"} => job.acct \in Account

JobsOK ==
  /\ work \in [Worker -> Job]
  /\ \A w \in Worker : JobOK(work[w])

TypeInv == StoreOK /\ PoolsOK /\ LoginsOK /\ JobsOK

LEMMA TypeInvType ==
  ASSUME TypeInv
  PROVE  TenancyTypeOK
BY DEF TypeInv, StoreOK, PoolsOK, LoginsOK, JobsOK, TenancyTypeOK

LEMMA IdleJob == JobOK(Idle)
BY DEF JobOK, Idle, Job

LEMMA BecomeJobs ==
  ASSUME JobsOK, NEW w \in Worker, NEW job, JobOK(job), Become(w, job)
  PROVE  JobsOK'
BY DEF JobsOK, JobOK, Become

LEMMA BecomeIdle ==
  ASSUME JobsOK, NEW w \in Worker, Become(w, Idle)
  PROVE  JobsOK'
BY IdleJob, BecomeJobs

LEMMA BecomeFor ==
  ASSUME JobsOK, NEW w \in Worker, NEW u \in Somebody,
         NEW pc \in {"register", "remove", "chat", "login", "account"},
         pc \in {"register", "remove"} => u \in User,
         Become(w, [Idle EXCEPT !.pc = pc, !.user = u])
  PROVE  JobsOK'
<1>1. JobOK([Idle EXCEPT !.pc = pc, !.user = u])
  BY DEF JobOK, Idle, Job
<1> QED
  BY <1>1, BecomeJobs

LEMMA AdminIsSomebody == Admin \in Somebody /\ User \subseteq Somebody /\ Absent \notin Somebody
BY AdminNotUser DEF Somebody

-----------------------------------------------------------------------------
(* Type correctness: the operations of the store, then the others. *)

LEMMA CreateType ==
  ASSUME TypeInv, NEW w \in Worker, NEW u \in User, NEW n \in Name, Create(w, u, n)
  PROVE  TypeInv'
<1> USE DEF TypeInv
<1>1. users' = [users EXCEPT ![u] = n] /\ n # Absent
  BY AbsentIsNothing DEF Create
<1>2. users' \in [User -> Name \cup {Absent}] /\ file' = users'
  BY <1>1 DEF Create, StoreOK
<1>3. byKey' = {v \in User : users'[v] # Absent}
  BY <1>1 DEF Create, StoreOK
<1>4. Named(users)'
  BY <1>1 DEF Create, StoreOK, Named, NameFree
<1>5. StoreOK'
  BY <1>2, <1>3, <1>4 DEF Create, StoreOK, Named, Tell
<1>6. JobsOK'
  BY BecomeFor, AdminIsSomebody DEF Create
<1> QED
  BY <1>5, <1>6 DEF Create, PoolsOK, LoginsOK, WorkAndStore

LEMMA ForgetStore ==
  ASSUME StoreOK, NEW u \in User, Forget(u)
  PROVE  /\ users' \in [User -> Name \cup {Absent}]
         /\ byKey' = {v \in User : users'[v] # Absent}
         /\ Named(users)'
<1>1. users' = [users EXCEPT ![u] = Absent]
  BY DEF Forget
<1>2. users' \in [User -> Name \cup {Absent}]
  BY <1>1 DEF StoreOK
<1>3. byKey' = {v \in User : users'[v] # Absent}
  BY <1>1 DEF StoreOK, Forget
<1> QED
  BY <1>1, <1>2, <1>3 DEF StoreOK, Named

LEMMA DeleteType ==
  ASSUME TypeInv, NEW w \in Worker, NEW u \in User, Delete(w, u) \/ DeleteFails(w, u)
  PROVE  TypeInv'
<1> USE DEF TypeInv
<1>1. StoreOK'
  BY ForgetStore DEF Delete, DeleteFails, StoreOK, Named, Tell
<1>2. JobsOK'
  BY BecomeFor, AdminIsSomebody DEF Delete, DeleteFails, JobsOK
<1> QED
  BY <1>1, <1>2 DEF Delete, DeleteFails, PoolsOK, LoginsOK, WorkAndStore

(* What becomes of the pools when one of them changes. *)
LEMMA OnePoolType ==
  ASSUME PoolsOK, NEW u, NEW p, p # Absent => p \subseteq Account,
         pools' = [pools EXCEPT ![u] = p], UNCHANGED dir
  PROVE  PoolsOK'
BY DEF PoolsOK

LEMMA RegisterType ==
  ASSUME TypeInv, NEW w \in Worker, Register(w) \/ Remove(w)
  PROVE  TypeInv'
<1> USE DEF TypeInv
<1>1. JobsOK'
  BY BecomeIdle DEF Register, Remove
<1>2. PoolsOK'
  <2>1. work[w].user \in Somebody
    BY AdminIsSomebody DEF Register, Remove, JobsOK, JobOK
  <2>2. dir[work[w].user] \subseteq Account
    BY <2>1 DEF PoolsOK
  <2> QED
    BY <2>2, OnePoolType DEF Register, Remove, PoolsOK
<1> QED
  BY <1>1, <1>2 DEF Register, Remove, StoreOK, LoginsOK

LEMMA RestartType ==
  ASSUME TypeInv, Restart
  PROVE  TypeInv'
<1> USE DEF TypeInv
<1>1. StoreOK'
  BY DEF Restart, StoreOK, Named
<1>2. PoolsOK'
  BY DEF Restart, PoolsOK, LoadedPools
<1>3. LoginsOK'
  BY DEF Restart, LoginsOK
<1>4. JobsOK'
  BY IdleJob DEF Restart, JobsOK, JobOK
<1> QED
  BY <1>1, <1>2, <1>3, <1>4

(* A step that only moves one goroutine. *)
LEMMA OnlyWorkType ==
  ASSUME TypeInv, JobsOK', OnlyWork
  PROVE  TypeInv'
BY DEF TypeInv, OnlyWork, StoreOK, PoolsOK, LoginsOK, Named

LEMMA RequestType ==
  ASSUME TypeInv, NEW w \in Worker,
         \/ \E u \in Somebody, kind \in {"chat", "login", "account"} :
              Authenticate(w, u, kind)
         \/ Route(w) \/ Served(w) \/ NoPool(w) \/ Pending(w) \/ LoginLost(w)
  PROVE  TypeInv'
<1> USE DEF TypeInv
<1>1. ASSUME NEW u \in Somebody, NEW kind \in {"chat", "login", "account"},
             Authenticate(w, u, kind)
      PROVE  TypeInv'
  BY <1>1, BecomeFor, OnlyWorkType DEF Authenticate
<1>2. CASE Route(w)
  <2> DEFINE job == [work[w] EXCEPT !.pc = "serving", !.at = PoolOf(work[w].user)]
  <2>1. PoolOf(work[w].user) \in Somebody
    BY <1>2, AdminIsSomebody DEF Route, PoolOf, JobsOK, JobOK
  <2>2. JobOK(work[w])
    BY DEF JobsOK
  <2>3. JobOK(job)
    BY <1>2, <2>1, <2>2 DEF Route, JobOK, Job
  <2>4. Become(w, job)
    BY <1>2 DEF Route, Become
  <2> QED
    BY <1>2, <2>3, <2>4, BecomeJobs, OnlyWorkType DEF Route
<1>3. CASE Served(w) \/ NoPool(w) \/ Pending(w) \/ LoginLost(w)
  BY <1>3, BecomeIdle, OnlyWorkType DEF Served, NoPool, Pending, LoginLost
<1> QED
  BY <1>1, <1>2, <1>3

LEMMA AccountType ==
  ASSUME TypeInv, NEW w \in Worker, NEW a \in Account, DeleteAccount(w, a)
  PROVE  TypeInv'
<1> USE DEF TypeInv
<1>1. JobsOK'
  BY BecomeIdle DEF DeleteAccount
<1>2. PoolsOK'
  BY DEF DeleteAccount, PoolsOK
<1> QED
  BY <1>1, <1>2 DEF DeleteAccount, StoreOK, LoginsOK

LEMMA SessionType ==
  ASSUME TypeInv, NEW s \in Session,
         \/ \E w \in Worker : LoginURL(w, s) \/ \E c \in Somebody : Poll(w, s, c)
         \/ EndSession(s) \/ \E a \in Account : Authorise(s, a)
  PROVE  TypeInv'
<1> USE DEF TypeInv
<1>1. ASSUME NEW w \in Worker, LoginURL(w, s) PROVE TypeInv'
  <2>1. work[w].user \in Somebody
    BY <1>1 DEF LoginURL, JobsOK, JobOK
  <2> QED
    BY <1>1, <2>1, BecomeIdle DEF LoginURL, StoreOK, PoolsOK, LoginsOK
<1>2. ASSUME NEW w \in Worker, NEW c \in Somebody, Poll(w, s, c) PROVE TypeInv'
  <2>1. sess[s] \in Somebody
    BY <1>2 DEF Poll, LoginsOK
  <2>2. JobOK([Idle EXCEPT !.pc = "polling", !.user = sess[s], !.sess = s])
    BY <2>1 DEF JobOK, Idle, Job
  <2> QED
    BY <1>2, <2>2, BecomeJobs, OnlyWorkType DEF Poll
<1>3. CASE EndSession(s)
  BY <1>3 DEF EndSession, StoreOK, PoolsOK, LoginsOK, JobsOK
<1>4. ASSUME NEW a \in Account, Authorise(s, a) PROVE TypeInv'
  <2>1. sess[s] \in Somebody
    BY <1>4 DEF Authorise, LoginsOK
  <2>2. LoginsOK'
    BY <1>4, <2>1 DEF Authorise, LoginsOK
  <2> QED
    BY <1>4, <2>2 DEF Authorise, StoreOK, PoolsOK, JobsOK
<1> QED
  BY <1>1, <1>2, <1>3, <1>4

LEMMA LoginType ==
  ASSUME TypeInv, NEW w \in Worker, Authorised(w) \/ WriteAuth(w) \/ AddAccount(w)
  PROVE  TypeInv'
<1> USE DEF TypeInv
<1> DEFINE u == work[w].user
<1>0. JobOK(work[w]) /\ u \in Somebody
  BY DEF Authorised, WriteAuth, AddAccount, JobsOK, JobOK
<1>1. CASE Authorised(w)
  <2> DEFINE s == work[w].sess
             job == [Idle EXCEPT !.pc = "write", !.user = u, !.acct = granted[s]]
  <2>1. s \in Session /\ granted[s] \in Account
    BY <1>0, <1>1 DEF Authorised, JobOK, LoginsOK
  <2>2. JobOK(job)
    BY <1>0, <2>1 DEF JobOK, Idle, Job
  <2>3. JobsOK'
    BY <1>1, <2>2, BecomeJobs DEF Authorised
  <2> QED
    BY <1>1, <2>1, <2>3 DEF Authorised, StoreOK, PoolsOK, LoginsOK
<1>2. CASE WriteAuth(w)
  <2>1. work[w].acct \in Account
    BY <1>0, <1>2 DEF WriteAuth, JobOK
  <2>2. JobOK([work[w] EXCEPT !.pc = "add"])
    BY <1>0, <2>1 DEF JobOK, Job
  <2>3. JobsOK'
    BY <1>2, <2>2, BecomeJobs DEF WriteAuth, Step, Become
  <2> QED
    BY <1>0, <1>2, <2>1, <2>3 DEF WriteAuth, StoreOK, PoolsOK, LoginsOK
<1>3. CASE AddAccount(w)
  <2>1. work[w].acct \in Account
    BY <1>0, <1>3 DEF AddAccount, JobOK
  <2>2. PoolsOK'
    BY <1>0, <1>3, <2>1 DEF AddAccount, PoolsOK
  <2> QED
    BY <1>3, <2>2, BecomeIdle DEF AddAccount, StoreOK, LoginsOK
<1> QED
  BY <1>1, <1>2, <1>3

LEMMA TypeInit == Init => TypeInv
<1> SUFFICES ASSUME Init PROVE TypeInv
  OBVIOUS
<1>1. JobsOK
  BY IdleJob DEF Init, JobsOK, JobOK
<1> QED
  BY <1>1, AbsentNotPool, AdminIsSomebody
  DEF Init, TypeInv, StoreOK, PoolsOK, LoginsOK, Named

LEMMA TypeStep == TypeInv /\ [Next]_vars => TypeInv'
<1> SUFFICES ASSUME TypeInv, [Next]_vars PROVE TypeInv'
  OBVIOUS
<1>1. ASSUME NEW w \in Worker, NEW u \in User, NEW n \in Name, CreateFails(w, u, n)
      PROVE  TypeInv'
  BY <1>1 DEF CreateFails, Unsaved, WorkAndStore, Tell, TypeInv, StoreOK, PoolsOK,
              LoginsOK, JobsOK
<1>2. CASE UNCHANGED vars
  BY <1>2 DEF vars, TypeInv, StoreOK, PoolsOK, LoginsOK, JobsOK, Named
<1> QED
  BY <1>1, <1>2, CreateType, DeleteType, RegisterType, RestartType, RequestType,
     AccountType, SessionType, LoginType
  DEF Next

(* Type correctness: keys and users agree and no two users share a name,   *)
(* in memory and in users.json, whichever writes of Store.save fail.       *)
THEOREM TenancyTypeCorrect == Spec => []TenancyTypeOK
<1>1. TypeInv => TenancyTypeOK
  BY TypeInvType
<1> QED
  BY <1>1, TypeInit, TypeStep, PTL DEF Spec
-----------------------------------------------------------------------------
(* Users, users.json and pools.  Two facts make the properties inductive:  *)
(* users.json has nobody but users of whom the administrator was told that *)
(* they were created or could not be deleted, and a pool is only taken     *)
(* away from a user whose deletion was reported.                           *)

FileAsTold ==
  \A u \in User : file[u] # Absent => told[u] \in {"created", "not deleted"}

RemovesDeleted ==
  \A w \in Worker : work[w].pc = "remove" => told[work[w].user] = "deleted"

StoreInv == NobodyForgotten /\ FileAsTold /\ RemovesDeleted /\ EveryUserHasPool

LEMMA StoreInvDeleted ==
  ASSUME TypeInv, StoreInv
  PROVE  DeletedStaysDeleted
BY DEF TypeInv, StoreOK, StoreInv, NobodyForgotten, FileAsTold, DeletedStaysDeleted

(* A goroutine that is not about to register a pool leaves those that are. *)
LEMMA RegisteringKept ==
  ASSUME JobsOK, NEW w \in Worker, NEW job, Become(w, job),
         work[w].pc # "register", NEW u, Registering(u)
  PROVE  Registering(u)'
BY DEF JobsOK, Become, Registering

LEMMA OtherRemoves ==
  ASSUME JobsOK, RemovesDeleted, UNCHANGED told, NEW w \in Worker, NEW job,
         Become(w, job), job.pc # "remove"
  PROVE  RemovesDeleted'
BY DEF JobsOK, Become, RemovesDeleted

(* A step of one goroutine that leaves the store and takes no pool away. *)
LEMMA StoreFrame ==
  ASSUME TypeInv, StoreInv, UNCHANGED <<users, file, told>>,
         NEW w \in Worker, NEW job, Become(w, job),
         work[w].pc # "register", job.pc # "remove",
         \A u \in User : pools[u] # Absent => pools'[u] # Absent
  PROVE  StoreInv'
<1>1. RemovesDeleted'
  BY OtherRemoves DEF TypeInv, StoreInv
<1>2. EveryUserHasPool'
  BY RegisteringKept DEF TypeInv, StoreInv, EveryUserHasPool
<1> QED
  BY <1>1, <1>2 DEF StoreInv, NobodyForgotten, FileAsTold

(* A step of no goroutine that leaves the store and the pools. *)
LEMMA StoreStutter ==
  ASSUME StoreInv, UNCHANGED <<users, file, told, pools, work>>
  PROVE  StoreInv'
BY DEF StoreInv, NobodyForgotten, FileAsTold, RemovesDeleted, EveryUserHasPool,
       Registering

LEMMA IdlePc == Idle.pc = "idle"
BY DEF Idle

LEMMA CreateStore ==
  ASSUME TypeInv, StoreInv, NEW w \in Worker, NEW u \in User, NEW n \in Name,
         Create(w, u, n)
  PROVE  StoreInv'
<1> DEFINE job == [Idle EXCEPT !.pc = "register", !.user = u]
<1> USE DEF TypeInv, StoreInv
<1>1. users' = [users EXCEPT ![u] = n] /\ file' = users' /\ UNCHANGED pools
  BY DEF Create, WorkAndStore
<1>2. told' = [told EXCEPT ![u] = "created"] /\ told[u] = "nothing"
  BY DEF Create, Tell
<1>3. Become(w, job) /\ job.pc = "register" /\ job.user = u
  BY DEF Create, Idle
<1>4. NobodyForgotten'
  BY <1>1 DEF NobodyForgotten
<1>5. FileAsTold'
  BY <1>1, <1>2 DEF FileAsTold, NobodyForgotten, StoreOK
<1>6. work' = [work EXCEPT ![w] = job]
  BY <1>3 DEF Become
<1>7. RemovesDeleted'
  <2> HIDE DEF job
  <2> QED
    BY <1>2, <1>3, <1>6 DEF RemovesDeleted, JobsOK, JobOK, StoreOK
<1>8. Registering(u)'
  <2> HIDE DEF job
  <2> QED
    BY <1>3, <1>6 DEF Registering, JobsOK
<1>9. EveryUserHasPool'
  <2> SUFFICES ASSUME NEW v \in User, users'[v] # Absent, v # u
               PROVE  pools'[v] # Absent \/ Registering(v)'
    BY <1>8 DEF EveryUserHasPool
  <2>1. pools[v] # Absent \/ Registering(v)
    BY <1>1 DEF EveryUserHasPool, StoreOK
  <2>2. work[w].pc # "register"
    BY DEF Create
  <2> QED
    BY <1>1, <1>3, <2>1, <2>2, RegisteringKept
<1> QED
  BY <1>4, <1>5, <1>7, <1>9

LEMMA DeleteStore ==
  ASSUME TypeInv, StoreInv, NEW w \in Worker, NEW u \in User,
         Delete(w, u) \/ DeleteFails(w, u)
  PROVE  StoreInv'
<1> USE DEF TypeInv, StoreInv
<1>1. users' = [users EXCEPT ![u] = Absent] /\ users[u] # Absent /\ UNCHANGED pools
  BY DEF Delete, DeleteFails, Forget, WorkAndStore
<1>2. told[u] \in {"created", "not deleted"}
  BY <1>1 DEF NobodyForgotten, FileAsTold
<1>3. CASE Delete(w, u)
  <2> DEFINE job == [Idle EXCEPT !.pc = "remove", !.user = u]
  <2>1. file' = users' /\ told' = [told EXCEPT ![u] = "deleted"]
    BY <1>3 DEF Delete, Tell
  <2>2. Become(w, job) /\ job.pc = "remove" /\ job.user = u /\ work[w].pc = "idle"
    BY <1>3 DEF Delete, Idle
  <2>3. NobodyForgotten' /\ FileAsTold'
    BY <1>1, <2>1 DEF NobodyForgotten, FileAsTold, StoreOK
  <2>4. work' = [work EXCEPT ![w] = job]
    BY <2>2 DEF Become
  <2>5. RemovesDeleted'
    <3> HIDE DEF job
    <3> QED
      BY <2>1, <2>2, <2>4 DEF RemovesDeleted, JobsOK, JobOK, StoreOK
  <2>6. EveryUserHasPool'
    <3> HIDE DEF job
    <3> QED
      BY <1>1, <2>2, RegisteringKept DEF EveryUserHasPool, StoreOK
  <2> QED
    BY <2>3, <2>5, <2>6
<1>4. CASE DeleteFails(w, u)
  <2>1. UNCHANGED <<file, work>> /\ told' = [told EXCEPT ![u] = "not deleted"]
    BY <1>4 DEF DeleteFails, Tell
  <2>2. NobodyForgotten' /\ FileAsTold'
    BY <1>1, <1>2, <2>1 DEF NobodyForgotten, FileAsTold, StoreOK
  <2>3. RemovesDeleted'
    BY <1>2, <2>1 DEF RemovesDeleted, JobsOK, JobOK, StoreOK
  <2>4. EveryUserHasPool'
    BY <1>1, <2>1 DEF EveryUserHasPool, Registering, StoreOK
  <2> QED
    BY <2>2, <2>3, <2>4
<1> QED
  BY <1>3, <1>4

LEMMA CreateFailsStore ==
  ASSUME TypeInv, StoreInv, NEW w \in Worker, NEW u \in User, NEW n \in Name,
         CreateFails(w, u, n)
  PROVE  StoreInv'
<1> USE DEF TypeInv, StoreInv
<1>1. UNCHANGED <<users, file, work, pools>>
  BY DEF CreateFails, Unsaved, WorkAndStore
<1>2. told' = [told EXCEPT ![u] = "failed"] /\ told[u] = "nothing"
  BY DEF CreateFails, Tell
<1>3. NobodyForgotten' /\ FileAsTold'
  BY <1>1, <1>2 DEF NobodyForgotten, FileAsTold, StoreOK
<1>4. RemovesDeleted'
  BY <1>1, <1>2 DEF RemovesDeleted, JobsOK, JobOK, StoreOK
<1>5. EveryUserHasPool'
  BY <1>1 DEF EveryUserHasPool, Registering
<1> QED
  BY <1>3, <1>4, <1>5

LEMMA RegisterStore ==
  ASSUME TypeInv, StoreInv, NEW w \in Worker, Register(w)
  PROVE  StoreInv'
<1> DEFINE u == work[w].user
<1> USE DEF TypeInv, StoreInv
<1>1. u \in User /\ u \in Somebody
  BY AdminIsSomebody DEF Register, JobsOK, JobOK
<1>2. pools'[u] # Absent /\ \A v \in User : pools[v] # Absent => pools'[v] # Absent
  BY <1>1, AbsentNotPool, AdminIsSomebody DEF Register, PoolsOK
<1>3. UNCHANGED <<users, file, told>> /\ Become(w, Idle)
  BY DEF Register
<1>4. RemovesDeleted'
  BY <1>3, OtherRemoves, IdlePc
<1>5. EveryUserHasPool'
  <2> SUFFICES ASSUME NEW v \in User, users[v] # Absent, v # u
               PROVE  pools'[v] # Absent \/ Registering(v)'
    BY <1>2, <1>3 DEF EveryUserHasPool
  <2>1. CASE pools[v] # Absent
    BY <1>2, <2>1
  <2>2. CASE Registering(v)
    BY <1>3, <2>2 DEF Registering, Become, JobsOK
  <2> QED
    BY <2>1, <2>2 DEF EveryUserHasPool
<1> QED
  BY <1>3, <1>4, <1>5 DEF NobodyForgotten, FileAsTold

LEMMA RemoveStore ==
  ASSUME TypeInv, StoreInv, NEW w \in Worker, Remove(w)
  PROVE  StoreInv'
<1> DEFINE u == work[w].user
<1> USE DEF TypeInv, StoreInv
<1>1. u \in User /\ users[u] = Absent
  BY StoreInvDeleted DEF Remove, JobsOK, JobOK, RemovesDeleted, DeletedStaysDeleted
<1>2. UNCHANGED <<users, file, told>> /\ Become(w, Idle) /\ work[w].pc # "register"
  BY DEF Remove
<1>3. \A v \in User : users[v] # Absent => pools'[v] = pools[v]
  BY <1>1 DEF Remove, PoolsOK
<1>4. RemovesDeleted'
  BY <1>2, OtherRemoves, IdlePc
<1>5. EveryUserHasPool'
  BY <1>2, <1>3, RegisteringKept DEF EveryUserHasPool
<1> QED
  BY <1>2, <1>4, <1>5 DEF NobodyForgotten, FileAsTold

LEMMA RestartStore ==
  ASSUME TypeInv, StoreInv, Restart
  PROVE  StoreInv'
<1> USE DEF TypeInv, StoreInv
<1>1. NobodyForgotten' /\ FileAsTold'
  BY DEF Restart, NobodyForgotten, FileAsTold
<1>2. RemovesDeleted'
  BY IdlePc DEF Restart, RemovesDeleted
<1>3. EveryUserHasPool'
  BY AbsentNotPool, AdminIsSomebody DEF Restart, LoadedPools, EveryUserHasPool, PoolsOK
<1> QED
  BY <1>1, <1>2, <1>3

LEMMA RequestStore ==
  ASSUME TypeInv, StoreInv, NEW w \in Worker,
         \/ \E u \in Somebody, kind \in {"chat", "login", "account"} :
              Authenticate(w, u, kind)
         \/ Route(w) \/ Served(w) \/ NoPool(w) \/ Pending(w) \/ LoginLost(w)
         \/ \E a \in Account : DeleteAccount(w, a)
         \/ \E s \in Session :
              LoginURL(w, s) \/ \E caller \in Somebody : Poll(w, s, caller)
         \/ Authorised(w)
  PROVE  StoreInv'
<1> USE DEF TypeInv
<1>1. UNCHANGED <<users, file, told, pools>> /\ work[w].pc # "register"
  BY DEF OnlyWork, Authenticate, Route, Served, NoPool, Pending, LoginLost,
         DeleteAccount, LoginURL, Poll, Authorised
<1> DEFINE Moves == \E job : Become(w, job) /\ job.pc # "remove"
<1>2. Moves
  <2>1. ASSUME NEW u \in Somebody, NEW kind \in {"chat", "login", "account"},
               Authenticate(w, u, kind)
        PROVE  Moves
    <3>1. [Idle EXCEPT !.pc = kind, !.user = u].pc # "remove"
      BY DEF Idle
    <3> QED
      BY <2>1, <3>1 DEF Authenticate
  <2>2. CASE Route(w)
    <3> DEFINE job == [work[w] EXCEPT !.pc = "serving", !.at = PoolOf(work[w].user)]
    <3>1. Become(w, job)
      BY <2>2 DEF Route, Become
    <3>2. work[w] \in Job
      BY DEF JobsOK
    <3>3. job.pc = "serving"
      BY <3>2 DEF Job
    <3> QED
      BY <3>1, <3>3
  <2>3. CASE Served(w) \/ NoPool(w) \/ Pending(w) \/ LoginLost(w)
    BY <2>3, IdlePc DEF Served, NoPool, Pending, LoginLost
  <2>6. ASSUME NEW a \in Account, DeleteAccount(w, a) PROVE Moves
    BY <2>6, IdlePc DEF DeleteAccount
  <2>7. ASSUME NEW s \in Session, LoginURL(w, s) PROVE Moves
    BY <2>7, IdlePc DEF LoginURL
  <2>4. ASSUME NEW s \in Session, NEW c \in Somebody, Poll(w, s, c)
        PROVE  Moves
    <3>1. [Idle EXCEPT !.pc = "polling", !.user = sess[s], !.sess = s].pc # "remove"
      BY DEF Idle
    <3> QED
      BY <2>4, <3>1 DEF Poll
  <2>5. CASE Authorised(w)
    <3>1. [Idle EXCEPT !.pc = "write", !.user = work[w].user,
                       !.acct = granted[work[w].sess]].pc # "remove"
      BY DEF Idle
    <3> QED
      BY <2>5, <3>1 DEF Authorised
  <2> HIDE DEF Moves
  <2> QED
    BY <2>1, <2>2, <2>3, <2>4, <2>5, <2>6, <2>7
<1> QED
  BY <1>1, <1>2, StoreFrame

LEMMA LoginStore ==
  ASSUME TypeInv, StoreInv, NEW w \in Worker, WriteAuth(w) \/ AddAccount(w)
  PROVE  StoreInv'
<1> USE DEF TypeInv
<1>1. CASE WriteAuth(w)
  <2>1. Become(w, [work[w] EXCEPT !.pc = "add"])
    BY <1>1 DEF WriteAuth, Step, Become
  <2>2. [work[w] EXCEPT !.pc = "add"].pc # "remove"
    BY DEF JobsOK, Job
  <2> QED
    BY <1>1, <2>1, <2>2, StoreFrame DEF WriteAuth
<1>2. CASE AddAccount(w)
  <2>1. \A u \in User : pools[u] # Absent => pools'[u] # Absent
    <3>1. work[w].acct \in Account /\ work[w].user \in Somebody
      BY <1>2 DEF AddAccount, JobsOK, JobOK
    <3> QED
      BY <1>2, <3>1, AbsentNotPool, AdminIsSomebody DEF AddAccount, PoolsOK
  <2> QED
    BY <1>2, <2>1, IdlePc, StoreFrame DEF AddAccount
<1> QED
  BY <1>1, <1>2

LEMMA StoreInit == Init => StoreInv
BY IdlePc DEF Init, StoreInv, NobodyForgotten, FileAsTold, RemovesDeleted, EveryUserHasPool

LEMMA StoreStep == TypeInv /\ StoreInv /\ [Next]_vars => StoreInv'
<1> SUFFICES ASSUME TypeInv, StoreInv, [Next]_vars PROVE StoreInv'
  OBVIOUS
<1>1. ASSUME NEW s \in Session, EndSession(s) \/ \E a \in Account : Authorise(s, a)
      PROVE  StoreInv'
  BY <1>1, StoreStutter DEF EndSession, Authorise
<1>2. CASE UNCHANGED vars
  BY <1>2, StoreStutter DEF vars
<1> QED
  BY <1>1, <1>2, CreateStore, CreateFailsStore, DeleteStore, RegisterStore,
     RemoveStore, RestartStore, RequestStore, LoginStore
  DEF Next

(* Whoever can log in now can log in after a restart, whichever writes of  *)
(* users.json failed on the way: Create() and Delete() save the whole map. *)
THEOREM NobodyIsForgotten == Spec => []NobodyForgotten
<1>1. Init => TypeInv /\ StoreInv
  BY TypeInit, StoreInit
<1>2. TypeInv /\ StoreInv /\ [Next]_vars => (TypeInv /\ StoreInv)'
  BY TypeStep, StoreStep
<1>3. StoreInv => NobodyForgotten
  BY DEF StoreInv
<1> QED
  BY <1>1, <1>2, <1>3, PTL DEF Spec

(* A user whose deletion was reported is in no later state of the store,   *)
(* of users.json or of the key index: not after any save, not after any    *)
(* restart.                                                                *)
THEOREM DeletedIsForEver == Spec => []DeletedStaysDeleted
<1>1. Init => TypeInv /\ StoreInv
  BY TypeInit, StoreInit
<1>2. TypeInv /\ StoreInv /\ [Next]_vars => (TypeInv /\ StoreInv)'
  BY TypeStep, StoreStep
<1>3. TypeInv /\ StoreInv => DeletedStaysDeleted
  BY StoreInvDeleted
<1> QED
  BY <1>1, <1>2, <1>3, PTL DEF Spec

(* Every user has a pool, except between Create() and RegisterUser() of    *)
(* the handler that creates it: no deletion takes the pool of a user who   *)
(* is still there, and a restart registers everybody in users.json.        *)
THEOREM UsersHavePools == Spec => []EveryUserHasPool
<1>1. Init => TypeInv /\ StoreInv
  BY TypeInit, StoreInit
<1>2. TypeInv /\ StoreInv /\ [Next]_vars => (TypeInv /\ StoreInv)'
  BY TypeStep, StoreStep
<1>3. StoreInv => EveryUserHasPool
  BY DEF StoreInv
<1> QED
  BY <1>1, <1>2, <1>3, PTL DEF Spec

(* getUserPool() falls back to the administrator's pool for a user only    *)
(* while that user is being created, or when it was deleted after the      *)
(* request was authenticated.                                              *)
THEOREM FallbackIsTransient == Spec => FallbackOnlyInTransit
<1> DEFINE Allowed(w) == Route(w) /\ work'[w].at # work[w].user
                        => users[work[w].user] = Absent \/ Registering(work[w].user)
<1>1. ASSUME TypeInv, StoreInv, NEW w \in Worker, Route(w), work'[w].at # work[w].user
      PROVE  users[work[w].user] = Absent \/ Registering(work[w].user)
  <2>1. work[w] \in Job /\ JobOK(work[w]) /\ work[w].pc = "chat"
    BY <1>1 DEF Route, TypeInv, JobsOK
  <2>2. work[w].user \in Somebody
    BY <2>1 DEF JobOK
  <2>3. work'[w].at = PoolOf(work[w].user)
    BY <1>1, <2>1 DEF Route, TypeInv, JobsOK, Job
  <2>4. pools[work[w].user] = Absent /\ work[w].user # Admin
    BY <1>1, <2>3 DEF PoolOf
  <2> QED
    BY <1>1, <2>2, <2>4 DEF StoreInv, EveryUserHasPool, Somebody
<1>2. TypeInv /\ StoreInv => \A w \in Worker : Allowed(w)
  BY <1>1
<1>3. Init => TypeInv /\ StoreInv
  BY TypeInit, StoreInit
<1>4. TypeInv /\ StoreInv /\ [Next]_vars => (TypeInv /\ StoreInv)'
  BY TypeStep, StoreStep
<1>5. (TypeInv /\ StoreInv) =>
        [\A w \in Worker : Allowed(w)]_vars
  BY <1>2
<1> QED
  BY <1>3, <1>4, <1>5, PTL DEF Spec, FallbackOnlyInTransit

-----------------------------------------------------------------------------
(* Logins and accounts.  What makes OwnAccounts inductive: an account that  *)
(* a session gave was asked for by the user who began it, and so was the    *)
(* account a goroutine may still get from the session it polls, or got from *)
(* it; a session that is polled is nobody else's.                           *)

SessionsOwn ==
  \A s \in Session :
    sess[s] # Absent /\ granted[s] # Absent => granted[s] \in asked[sess[s]]

JobOwn(job) ==
  /\ job.pc = "polling" => /\ sess[job.sess] \in {Absent, job.user}
                           /\ granted[job.sess] # Absent
                                => granted[job.sess] \in asked[job.user]
  /\ job.pc \in {"write", "add"} => job.acct \in asked[job.user]

JobsOwn == \A w \in Worker : JobOwn(work[w])

LoginInv == SessionsOwn /\ JobsOwn /\ OwnAccounts

LEMMA BecomeOwn ==
  ASSUME JobsOK, JobsOwn, UNCHANGED <<sess, granted, asked>>,
         NEW w \in Worker, NEW job, Become(w, job), JobOwn(job)
  PROVE  JobsOwn'
BY DEF JobsOK, JobsOwn, JobOwn, Become

(* A step of one goroutine that takes it to no login. *)
LEMMA LoginFrame ==
  ASSUME TypeInv, LoginInv, UNCHANGED <<sess, granted, asked>>,
         NEW w \in Worker, NEW job, Become(w, job),
         job.pc \notin {"polling", "write", "add"}, OwnAccounts'
  PROVE  LoginInv'
<1>1. JobOwn(job)
  BY DEF JobOwn
<1>2. JobsOwn'
  BY <1>1, BecomeOwn DEF TypeInv, LoginInv
<1> QED
  BY <1>2 DEF LoginInv, SessionsOwn

LEMMA SamePoolsOwn ==
  ASSUME OwnAccounts, UNCHANGED <<pools, dir, asked>>
  PROVE  OwnAccounts'
BY DEF OwnAccounts

LEMMA StoreLogin ==
  ASSUME TypeInv, LoginInv, NEW w \in Worker, NEW u \in User,
         Delete(w, u) \/ DeleteFails(w, u)
           \/ \E n \in Name : Create(w, u, n) \/ CreateFails(w, u, n)
  PROVE  LoginInv'
<1>1. UNCHANGED <<pools, dir, sess, granted, asked>>
  BY DEF Delete, DeleteFails, Create, CreateFails, WorkAndStore
<1>2. OwnAccounts'
  BY <1>1, SamePoolsOwn DEF LoginInv
<1>3. CASE UNCHANGED work
  BY <1>1, <1>2, <1>3 DEF LoginInv, SessionsOwn, JobsOwn, JobOwn
<1>4. CASE \E pc \in {"register", "remove"} :
             Become(w, [Idle EXCEPT !.pc = pc, !.user = u])
  <2>1. PICK pc \in {"register", "remove"} :
             Become(w, [Idle EXCEPT !.pc = pc, !.user = u])
    BY <1>4
  <2>2. [Idle EXCEPT !.pc = pc, !.user = u].pc = pc
    BY DEF Idle
  <2> QED
    BY <1>1, <1>2, <2>1, <2>2, LoginFrame
<1> QED
  BY <1>3, <1>4 DEF Delete, DeleteFails, Create, CreateFails

LEMMA PoolLogin ==
  ASSUME TypeInv, LoginInv, NEW w \in Worker,
         Register(w) \/ Remove(w) \/ \E a \in Account : DeleteAccount(w, a)
  PROVE  LoginInv'
<1> DEFINE u == work[w].user
<1> USE DEF LoginInv, TypeInv
<1>1. Become(w, Idle) /\ UNCHANGED <<sess, granted, asked>>
  BY DEF Register, Remove, DeleteAccount
<1>2. u \in Somebody
  BY AdminIsSomebody DEF Register, Remove, DeleteAccount, JobsOK, JobOK
<1>3. OwnAccounts'
  <2>1. CASE Register(w)
    BY <1>2, <2>1 DEF Register, OwnAccounts, PoolsOK
  <2>2. CASE Remove(w)
    BY <1>2, <2>2 DEF Remove, OwnAccounts, PoolsOK
  <2>3. ASSUME NEW a \in Account, DeleteAccount(w, a) PROVE OwnAccounts'
    BY <1>2, <2>3 DEF DeleteAccount, OwnAccounts, PoolsOK
  <2> QED
    BY <2>1, <2>2, <2>3
<1> QED
  BY <1>1, <1>3, IdlePc, LoginFrame

LEMMA RestartLogin ==
  ASSUME TypeInv, LoginInv, Restart
  PROVE  LoginInv'
<1>1. SessionsOwn'
  BY DEF Restart, SessionsOwn
<1>2. JobsOwn'
  BY IdlePc DEF Restart, JobsOwn, JobOwn
<1>3. OwnAccounts'
  BY DEF Restart, LoadedPools, OwnAccounts, LoginInv
<1> QED
  BY <1>1, <1>2, <1>3 DEF LoginInv

LEMMA RequestLogin ==
  ASSUME TypeInv, LoginInv, NEW w \in Worker,
         \/ \E u \in Somebody, kind \in {"chat", "login", "account"} :
              Authenticate(w, u, kind)
         \/ Route(w) \/ Served(w) \/ NoPool(w) \/ Pending(w) \/ LoginLost(w)
  PROVE  LoginInv'
<1> USE DEF TypeInv, LoginInv
<1>1. OnlyWork /\ OwnAccounts'
  BY SamePoolsOwn DEF OnlyWork, Authenticate, Route, Served, NoPool, Pending, LoginLost
<1>2. UNCHANGED <<sess, granted, asked>>
  BY <1>1 DEF OnlyWork
<1>3. ASSUME NEW u \in Somebody, NEW kind \in {"chat", "login", "account"},
             Authenticate(w, u, kind)
      PROVE  LoginInv'
  <2>1. [Idle EXCEPT !.pc = kind, !.user = u].pc = kind
    BY DEF Idle
  <2> QED
    BY <1>1, <1>2, <1>3, <2>1, LoginFrame DEF Authenticate
<1>4. CASE Route(w)
  <2> DEFINE job == [work[w] EXCEPT !.pc = "serving", !.at = PoolOf(work[w].user)]
  <2>1. work[w] \in Job
    BY DEF JobsOK
  <2>2. job.pc = "serving"
    BY <2>1 DEF Job
  <2>3. Become(w, job)
    BY <1>4 DEF Route, Become
  <2> HIDE DEF job
  <2> QED
    BY <1>1, <1>2, <2>2, <2>3, LoginFrame
<1>5. CASE Served(w) \/ NoPool(w) \/ Pending(w) \/ LoginLost(w)
  BY <1>1, <1>2, <1>5, IdlePc, LoginFrame DEF Served, NoPool, Pending, LoginLost
<1> QED
  BY <1>3, <1>4, <1>5

LEMMA LoginURLLogin ==
  ASSUME TypeInv, LoginInv, NEW w \in Worker, NEW s \in Session, LoginURL(w, s)
  PROVE  LoginInv'
<1> USE DEF TypeInv, LoginInv
<1>1. /\ sess' = [sess EXCEPT ![s] = work[w].user]
      /\ granted' = [granted EXCEPT ![s] = Absent]
      /\ Become(w, Idle) /\ UNCHANGED <<pools, dir, asked>>
      /\ \A v \in Worker : work[v].sess # s
  BY DEF LoginURL, Forgotten
<1>2. SessionsOwn'
  BY <1>1 DEF SessionsOwn, LoginsOK
<1>3. OwnAccounts'
  BY <1>1, SamePoolsOwn
<1>4. JobsOwn'
  <2> SUFFICES ASSUME NEW v \in Worker PROVE JobOwn(work[v])'
    BY DEF JobsOwn
  <2>1. CASE v = w
    <3>1. work'[v] = Idle
      BY <1>1, <2>1 DEF Become, JobsOK
    <3> QED
      BY <3>1, IdlePc DEF JobOwn
  <2>2. CASE v # w
    <3>1. work'[v] = work[v] /\ JobOwn(work[v]) /\ JobOK(work[v]) /\ work[v].sess # s
      BY <1>1, <2>2 DEF Become, JobsOK, JobsOwn
    <3>2. work[v].pc = "polling" =>
            sess'[work[v].sess] = sess[work[v].sess]
              /\ granted'[work[v].sess] = granted[work[v].sess]
      BY <1>1, <3>1 DEF JobOK, LoginsOK
    <3> QED
      BY <1>1, <3>1, <3>2 DEF JobOwn
  <2> QED
    BY <2>1, <2>2
<1> QED
  BY <1>2, <1>3, <1>4

LEMMA AuthoriseLogin ==
  ASSUME TypeInv, LoginInv, NEW s \in Session, NEW a \in Account, Authorise(s, a)
  PROVE  LoginInv'
<1> USE DEF TypeInv, LoginInv
<1> DEFINE owner == sess[s]
<1>1. owner \in Somebody /\ owner # Absent
  BY DEF Authorise, LoginsOK
<1>2. /\ granted' = [granted EXCEPT ![s] = a]
      /\ asked' = [asked EXCEPT ![owner] = @ \cup {a}]
      /\ UNCHANGED <<pools, dir, sess, work>>
  BY DEF Authorise
<1>3. /\ a \in asked'[owner]
      /\ \A u \in Somebody : asked[u] \subseteq asked'[u]
  BY <1>1, <1>2 DEF LoginsOK
<1>4. granted'[s] = a /\ \A t \in Session : t # s => granted'[t] = granted[t]
  BY <1>2 DEF LoginsOK
<1> HIDE DEF owner
<1>5. SessionsOwn'
  <2> SUFFICES ASSUME NEW t \in Session, sess[t] # Absent, granted'[t] # Absent
               PROVE  granted'[t] \in asked'[sess[t]]
    BY <1>2 DEF SessionsOwn
  <2>1. CASE t = s
    BY <1>3, <1>4, <2>1 DEF owner
  <2>2. CASE t # s
    BY <1>3, <1>4, <2>2 DEF SessionsOwn, LoginsOK
  <2> QED
    BY <2>1, <2>2
<1>6. JobsOwn'
  <2> SUFFICES ASSUME NEW v \in Worker PROVE JobOwn(work[v])'
    BY DEF JobsOwn
  <2>1. work'[v] = work[v] /\ JobOwn(work[v]) /\ JobOK(work[v])
    BY <1>2 DEF JobsOwn, JobsOK
  <2>2. ASSUME work[v].pc = "polling"
        PROVE  /\ sess'[work[v].sess] \in {Absent, work[v].user}
               /\ granted'[work[v].sess] # Absent
                    => granted'[work[v].sess] \in asked'[work[v].user]
    <3>1. work[v].user \in Somebody /\ work[v].sess \in Session
      BY <2>1, <2>2 DEF JobOK
    <3>2. CASE work[v].sess = s
      BY <1>1, <1>2, <1>3, <1>4, <2>1, <2>2, <3>2 DEF JobOwn, owner
    <3>3. CASE work[v].sess # s
      BY <1>2, <1>3, <1>4, <2>1, <2>2, <3>1, <3>3 DEF JobOwn
    <3> QED
      BY <3>2, <3>3
  <2>3. work[v].pc \in {"write", "add"} => work[v].acct \in asked'[work[v].user]
    BY <1>3, <2>1 DEF JobOwn, JobOK
  <2> QED
    BY <2>1, <2>2, <2>3 DEF JobOwn
<1>7. OwnAccounts'
  BY <1>2, <1>3 DEF OwnAccounts
<1> QED
  BY <1>5, <1>6, <1>7

LEMMA EndSessionLogin ==
  ASSUME TypeInv, LoginInv, NEW s \in Session, EndSession(s)
  PROVE  LoginInv'
<1> USE DEF TypeInv, LoginInv
<1>1. /\ sess' = [sess EXCEPT ![s] = Absent]
      /\ UNCHANGED <<granted, asked, work, pools, dir>>
  BY DEF EndSession
<1>2. \A t \in Session : sess'[t] \in {Absent, sess[t]}
  BY <1>1 DEF LoginsOK
<1>3. SessionsOwn'
  BY <1>1, <1>2 DEF SessionsOwn
<1>4. JobsOwn'
  BY <1>1, <1>2 DEF JobsOwn, JobOwn, JobsOK, JobOK
<1> QED
  BY <1>1, <1>3, <1>4, SamePoolsOwn

LEMMA PollLogin ==
  ASSUME TypeInv, LoginInv, NEW w \in Worker, NEW s \in Session,
         NEW c \in Somebody, Poll(w, s, c)
  PROVE  LoginInv'
<1> USE DEF TypeInv, LoginInv
<1> DEFINE job == [Idle EXCEPT !.pc = "polling", !.user = sess[s], !.sess = s]
<1>1. job.pc = "polling" /\ job.user = sess[s] /\ job.sess = s
  BY DEF Idle
<1>2. Become(w, job) /\ UNCHANGED <<sess, granted, asked, pools, dir>> /\ sess[s] # Absent
  BY DEF Poll, OnlyWork
<1> HIDE DEF job
<1>3. JobOwn(job)
  BY <1>1, <1>2 DEF JobOwn, SessionsOwn
<1>4. JobsOwn'
  BY <1>2, <1>3, BecomeOwn
<1> QED
  BY <1>2, <1>4, SamePoolsOwn DEF SessionsOwn

LEMMA AuthorisedLogin ==
  ASSUME TypeInv, LoginInv, NEW w \in Worker, Authorised(w)
  PROVE  LoginInv'
<1> USE DEF TypeInv, LoginInv
<1> DEFINE s == work[w].sess
           u == work[w].user
           job == [Idle EXCEPT !.pc = "write", !.user = u, !.acct = granted[s]]
<1>1. job.pc = "write" /\ job.user = u /\ job.acct = granted[s]
  BY DEF Idle
<1>2. /\ sess' = [sess EXCEPT ![s] = Absent]
      /\ work' = [work EXCEPT ![w] = job]
      /\ UNCHANGED <<granted, asked, pools, dir>>
  BY DEF Authorised, Become
<1>3. JobOwn(work[w]) /\ work[w].pc = "polling" /\ granted[s] # Absent
  BY DEF Authorised, JobsOwn
<1>4. granted[s] \in asked[u]
  BY <1>3 DEF JobOwn
<1>5. \A t \in Session : sess'[t] \in {Absent, sess[t]}
  BY <1>2 DEF LoginsOK
<1> HIDE DEF s, u, job
<1>6. SessionsOwn'
  BY <1>2, <1>5 DEF SessionsOwn
<1>7. JobsOwn'
  <2> SUFFICES ASSUME NEW v \in Worker PROVE JobOwn(work[v])'
    BY DEF JobsOwn
  <2>1. CASE v = w
    <3>1. work'[v] = job
      BY <1>2, <2>1 DEF JobsOK
    <3> QED
      BY <1>1, <1>2, <1>4, <3>1 DEF JobOwn
  <2>2. CASE v # w
    <3>1. work'[v] = work[v] /\ JobOwn(work[v]) /\ JobOK(work[v])
      BY <1>2, <2>2 DEF JobsOK, JobsOwn
    <3> QED
      BY <1>2, <1>5, <3>1 DEF JobOwn, JobOK
  <2> QED
    BY <2>1, <2>2
<1> QED
  BY <1>2, <1>6, <1>7, SamePoolsOwn

LEMMA WriteLogin ==
  ASSUME TypeInv, LoginInv, NEW w \in Worker, WriteAuth(w) \/ AddAccount(w)
  PROVE  LoginInv'
<1> USE DEF TypeInv, LoginInv
<1> DEFINE u == work[w].user
           a == work[w].acct
<1>1. JobOK(work[w]) /\ JobOwn(work[w]) /\ work[w].pc \in {"write", "add"}
  BY DEF WriteAuth, AddAccount, JobsOK, JobsOwn
<1>2. u \in Somebody /\ a \in asked[u] /\ UNCHANGED <<sess, granted, asked>>
  BY <1>1 DEF JobOK, JobOwn, WriteAuth, AddAccount
<1>3. CASE WriteAuth(w)
  <2> DEFINE job == [work[w] EXCEPT !.pc = "add"]
  <2>1. job.pc = "add" /\ job.acct = a /\ job.user = u
    BY <1>1 DEF JobOK, Job
  <2>2. Become(w, job) /\ dir' = [dir EXCEPT ![u] = @ \cup {a}] /\ UNCHANGED pools
    BY <1>3 DEF WriteAuth, Step, Become
  <2> HIDE DEF job, u, a
  <2>3. JobOwn(job)
    BY <1>2, <2>1 DEF JobOwn
  <2>4. JobsOwn'
    BY <1>2, <2>2, <2>3, BecomeOwn
  <2>5. OwnAccounts'
    BY <1>2, <2>2 DEF OwnAccounts, PoolsOK
  <2> QED
    BY <1>2, <2>4, <2>5 DEF SessionsOwn
<1>4. CASE AddAccount(w)
  <2>1. OwnAccounts'
    BY <1>2, <1>4 DEF AddAccount, OwnAccounts, PoolsOK
  <2> QED
    BY <1>2, <1>4, <2>1, IdlePc, LoginFrame DEF AddAccount
<1> QED
  BY <1>3, <1>4

LEMMA LoginInit == Init => LoginInv
BY IdlePc DEF Init, LoginInv, SessionsOwn, JobsOwn, JobOwn, OwnAccounts

LEMMA LoginStep == TypeInv /\ LoginInv /\ [Next]_vars => LoginInv'
<1> SUFFICES ASSUME TypeInv, LoginInv, [Next]_vars PROVE LoginInv'
  OBVIOUS
<1>1. CASE UNCHANGED vars
  BY <1>1 DEF vars, LoginInv, SessionsOwn, JobsOwn, JobOwn, OwnAccounts
<1> QED
  BY <1>1, StoreLogin, PoolLogin, RestartLogin, RequestLogin, LoginURLLogin,
     AuthoriseLogin, EndSessionLogin, PollLogin, AuthorisedLogin, WriteLogin
  DEF Next

(* Whatever logins, polls, cancellations, deletions of users and restarts  *)
(* run at once, an account gets into a user's pool or auth directory only  *)
(* if that user began the session in which it was authorised.              *)
THEOREM AccountsAreOwn == Spec => []OwnAccounts
<1>1. Init => TypeInv /\ LoginInv
  BY TypeInit, LoginInit
<1>2. TypeInv /\ LoginInv /\ [Next]_vars => (TypeInv /\ LoginInv)'
  BY TypeStep, LoginStep
<1>3. LoginInv => OwnAccounts
  BY DEF LoginInv
<1> QED
  BY <1>1, <1>2, <1>3, PTL DEF Spec
==============================================================================
