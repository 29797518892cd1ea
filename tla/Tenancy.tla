------------------------------- MODULE Tenancy -------------------------------
(***************************************************************************)
(* Users and their pools: the user store with users.json and the pool      *)
(* manager (internal/user/store.go), the administrator's handlers that     *)
(* create and delete users, the way a request finds its pool, and the      *)
(* device-login sessions (internal/server).  Store and manager have a      *)
(* mutex each; a handler calls one after the other, and other handlers run *)
(* in between.                                                             *)
(*                                                                         *)
(* A user is its id, and stands for its API key, too: both are drawn at    *)
(* random and never used twice.  A pool is the set of accounts it can log  *)
(* in; what happens to an account in a pool is module Relay's subject.     *)
(***************************************************************************)
EXTENDS FiniteSets

CONSTANTS
  User,       \* ids of created users
  Name,       \* user names
  Account,    \* accounts of the upstream
  Worker,     \* goroutines that serve requests
  Session,    \* session ids
  AdminRole,  \* the users created with the role "admin"
  Admin,      \* the identity of the configured API key, whose pool always exists
  Absent      \* no entry

VARIABLES
  users,   \* Store.users: user -> name, or Absent
  byKey,   \* Store.byKey: the users whose key is known
  file,    \* users.json: user -> name, or Absent
  pools,   \* PoolManager.pools and authDirs: user -> accounts, or Absent
  dir,     \* pools/<id> on disk: user -> the accounts with an auth file
  sess,    \* userSessionStore: session -> the user who began it, or Absent
  granted, \* at the upstream: session -> the account authorised in it, or Absent
  work,    \* what each goroutine is at
  told,    \* history: what the administrator was told of each user last
  asked    \* history: the accounts authorised in the sessions each user began

vars == <<users, byKey, file, pools, dir, sess, granted, work,
          told, asked>>

ASSUME AdminNotUser == Admin \notin User /\ Absent \notin User \cup {Admin}
ASSUME AbsentIsNothing == Absent \notin Name \cup Account \cup Session
ASSUME AbsentNotPool == \A accounts \in SUBSET Account : Absent # accounts
ASSUME RoleAssumption == AdminRole \subseteq User

Somebody == User \cup {Admin}

Job == [pc: {"idle", "register", "remove", "chat", "serving", "login",
             "account", "polling", "write", "add"},
        user: Somebody \cup {Absent},  \* whom the job is for
        at: Somebody \cup {Absent},    \* whose pool serves a chat request
        sess: Session \cup {Absent},   \* the session that is polled
        acct: Account \cup {Absent}]   \* the account it gave

Idle == [pc |-> "idle", user |-> Absent, at |-> Absent, sess |-> Absent,
         acct |-> Absent]

Init ==
  /\ users = [u \in User |-> Absent]
  /\ byKey = {}
  /\ file = users
  /\ pools = [u \in Somebody |-> IF u = Admin THEN {} ELSE Absent]
  /\ dir = [u \in Somebody |-> {}]
  /\ sess = [s \in Session |-> Absent]
  /\ granted = [s \in Session |-> Absent]
  /\ work = [w \in Worker |-> Idle]
  /\ told = [u \in User |-> "nothing"]
  /\ asked = [u \in Somebody |-> {}]

Become(w, job) == work' = [work EXCEPT ![w] = job]
Step(w, pc) == work' = [work EXCEPT ![w].pc = pc]
Tell(u, what) == told' = [told EXCEPT ![u] = what]
OnlyWork == UNCHANGED <<users, byKey, file, pools, dir, sess, granted, told, asked>>
WorkAndStore == UNCHANGED <<pools, dir, sess, granted, asked>>

-----------------------------------------------------------------------------
(* Creating and deleting users: handleCreateUser, handleDeleteUser *)

(* Mutation of Unsaved: the new user stays although it was not saved. *)
UnsavedKept(u, n) ==
  /\ users' = [users EXCEPT ![u] = n]
  /\ byKey' = byKey \cup {u}

(* Create() takes the new user back when users.json cannot be written. *)
Unsaved(u, n) == UNCHANGED <<users, byKey>>

(* Mutation of NameFree: the name is not checked. *)
NameUnchecked(n) == TRUE

NameFree(n) == \A v \in User : users[v] # n

Create(w, u, n) ==
  /\ work[w].pc = "idle" /\ told[u] = "nothing"
  /\ NameFree(n)
  /\ users' = [users EXCEPT ![u] = n]
  /\ byKey' = byKey \cup {u}
  /\ file' = users'
  /\ Tell(u, "created")
  /\ Become(w, [Idle EXCEPT !.pc = "register", !.user = u])
  /\ WorkAndStore

CreateFails(w, u, n) ==
  /\ work[w].pc = "idle" /\ told[u] = "nothing"
  /\ NameFree(n)
  /\ Unsaved(u, n)
  /\ Tell(u, "failed")
  /\ UNCHANGED <<file, work>>
  /\ WorkAndStore

(* RegisterUser(): a pool with the accounts that have auth files. *)
Register(w) ==
  LET u == work[w].user
  IN  /\ work[w].pc = "register"
      /\ pools' = IF pools[u] = Absent THEN [pools EXCEPT ![u] = dir[u]] ELSE pools
      /\ Become(w, Idle)
      /\ UNCHANGED <<users, byKey, file, dir, sess, granted, told, asked>>

Forget(u) ==
  /\ users[u] # Absent
  /\ users' = [users EXCEPT ![u] = Absent]
  /\ byKey' = byKey \ {u}

Delete(w, u) ==
  /\ work[w].pc = "idle"
  /\ Forget(u)
  /\ file' = users'
  /\ Tell(u, "deleted")
  /\ Become(w, [Idle EXCEPT !.pc = "remove", !.user = u])
  /\ WorkAndStore

(* Mutation of DeleteFails: the error of save() is dropped. *)
DeleteFailsUnheard(w, u) ==
  /\ work[w].pc = "idle"
  /\ Forget(u)
  /\ Tell(u, "deleted")
  /\ Become(w, [Idle EXCEPT !.pc = "remove", !.user = u])
  /\ UNCHANGED file
  /\ WorkAndStore

(* users.json cannot be written: the user is gone from memory and stays in  *)
(* the file; the handler answers 404 and leaves the pool registered.        *)
DeleteFails(w, u) ==
  /\ work[w].pc = "idle"
  /\ Forget(u)
  /\ Tell(u, "not deleted")
  /\ UNCHANGED <<file, work>>
  /\ WorkAndStore

Remove(w) ==
  /\ work[w].pc = "remove"
  /\ pools' = [pools EXCEPT ![work[w].user] = Absent]
  /\ Become(w, Idle)
  /\ UNCHANGED <<users, byKey, file, dir, sess, granted, told, asked>>

-----------------------------------------------------------------------------
(* Requests: withAuth looks the key up, the handler then looks for a pool. *)

Known == byKey \cup {Admin}

Authenticate(w, u, kind) ==
  /\ work[w].pc = "idle" /\ u \in Known
  /\ Become(w, [Idle EXCEPT !.pc = kind, !.user = u])
  /\ OnlyWork

(* Mutation of PoolOf: the role decides, whatever the id. *)
PoolOfRole(u) == IF u \in AdminRole \/ pools[u] = Absent THEN Admin ELSE u

(* getUserPool(): a user without a pool gets the administrator's. *)
PoolOf(u) == IF pools[u] = Absent THEN Admin ELSE u

Route(w) ==
  /\ work[w].pc = "chat"
  /\ work' = [work EXCEPT ![w].pc = "serving", ![w].at = PoolOf(work[w].user)]
  /\ OnlyWork

Served(w) ==
  /\ work[w].pc = "serving"
  /\ Become(w, Idle)
  /\ OnlyWork

(* No auth directory: 500.  For the administrator's accounts there is none. *)
NoPool(w) ==
  LET u == work[w].user
  IN  /\ \/ work[w].pc = "write" /\ pools[u] = Absent
         \/ work[w].pc = "account" /\ (u = Admin \/ pools[u] = Absent)
      /\ Become(w, Idle)
      /\ OnlyWork

(* handleDeleteAccount: the auth file goes, the pool keeps the account. *)
DeleteAccount(w, a) ==
  LET u == work[w].user
  IN  /\ work[w].pc = "account" /\ u # Admin /\ pools[u] # Absent
      /\ dir' = [dir EXCEPT ![u] = @ \ {a}]
      /\ Become(w, Idle)
      /\ UNCHANGED <<users, byKey, file, pools, sess, granted, told, asked>>

-----------------------------------------------------------------------------
(* Device login: handleLoginURL, handleLoginPoll, handleLoginCancel *)

(* Session ids are never used twice; here one may be when it is forgotten. *)
Forgotten(s) == sess[s] = Absent /\ \A w \in Worker : work[w].sess # s

LoginURL(w, s) ==
  /\ work[w].pc = "login"
  /\ Forgotten(s)
  /\ sess' = [sess EXCEPT ![s] = work[w].user]
  /\ granted' = [granted EXCEPT ![s] = Absent]
  /\ Become(w, Idle)
  /\ UNCHANGED <<users, byKey, file, pools, dir, told, asked>>

(* The user opens the link of a session and authorises account a. *)
Authorise(s, a) ==
  /\ sess[s] # Absent /\ granted[s] = Absent
  /\ granted' = [granted EXCEPT ![s] = a]
  /\ asked' = [asked EXCEPT ![sess[s]] = @ \cup {a}]
  /\ UNCHANGED <<users, byKey, file, pools, dir, sess, work, told>>

(* Mutation of Poll: the login is for whoever polls. *)
PollAsCaller(w, s, caller) ==
  /\ work[w].pc = "idle" /\ caller \in Known
  /\ sess[s] # Absent
  /\ Become(w, [Idle EXCEPT !.pc = "polling", !.user = caller, !.sess = s])
  /\ OnlyWork

(* The login is for the user who began the session, whoever polls it. *)
Poll(w, s, caller) ==
  /\ work[w].pc = "idle" /\ caller \in Known
  /\ sess[s] # Absent
  /\ Become(w, [Idle EXCEPT !.pc = "polling", !.user = sess[s], !.sess = s])
  /\ OnlyWork

(* Not authorised yet, or the upstream cannot be asked: the session stays. *)
Pending(w) ==
  /\ work[w].pc = "polling"
  /\ Become(w, Idle)
  /\ OnlyWork

(* Every poll under way gets the token, even when the session was deleted   *)
(* meanwhile, by another poll, by a cancellation or because it expired.     *)
Authorised(w) ==
  LET s == work[w].sess
  IN  /\ work[w].pc = "polling" /\ granted[s] # Absent
      /\ sess' = [sess EXCEPT ![s] = Absent]
      /\ Become(w, [Idle EXCEPT !.pc = "write", !.user = work[w].user,
                                !.acct = granted[s]])
      /\ UNCHANGED <<users, byKey, file, pools, dir, granted, told, asked>>

(* The auth file cannot be written, or the account has no nickname and too  *)
(* short an id, at which the handler panics: the session is gone already.   *)
LoginLost(w) ==
  /\ work[w].pc = "write"
  /\ Become(w, Idle)
  /\ OnlyWork

WriteAuth(w) ==
  LET u == work[w].user
  IN  /\ work[w].pc = "write" /\ pools[u] # Absent
      /\ dir' = [dir EXCEPT ![u] = @ \cup {work[w].acct}]
      /\ Step(w, "add")
      /\ UNCHANGED <<users, byKey, file, pools, sess, granted, told, asked>>

(* The pool is looked up again, and the file is read back: if either is     *)
(* gone, nothing is added.  The client is told "success" in any case.       *)
AddAccount(w) ==
  LET u == work[w].user
      a == work[w].acct
  IN  /\ work[w].pc = "add"
      /\ pools' = IF pools[u] # Absent /\ a \in dir[u]
                  THEN [pools EXCEPT ![u] = @ \cup {a}] ELSE pools
      /\ Become(w, Idle)
      /\ UNCHANGED <<users, byKey, file, dir, sess, granted, told, asked>>

(* handleLoginCancel, or the ten minutes are over. *)
EndSession(s) ==
  /\ sess[s] # Absent
  /\ sess' = [sess EXCEPT ![s] = Absent]
  /\ UNCHANGED <<users, byKey, file, pools, dir, granted, work, told, asked>>

-----------------------------------------------------------------------------
(* Mutation of LoadedPools: users get their pools when they are created. *)
LoadedPoolsNone == [u \in Somebody |-> IF u = Admin THEN dir[u] ELSE Absent]

(* main() registers a pool for every user of users.json. *)
LoadedPools ==
  [u \in Somebody |-> IF u = Admin \/ file[u] # Absent THEN dir[u] ELSE Absent]

Restart ==
  /\ users' = file
  /\ byKey' = {u \in User : file[u] # Absent}
  /\ pools' = LoadedPools
  /\ sess' = [s \in Session |-> Absent]
  /\ work' = [w \in Worker |-> Idle]
  /\ UNCHANGED <<file, dir, granted, told, asked>>

Next ==
  \/ \E w \in Worker :
       \/ \E u \in User, n \in Name : Create(w, u, n) \/ CreateFails(w, u, n)
       \/ \E u \in User : Delete(w, u) \/ DeleteFails(w, u)
       \/ Register(w) \/ Remove(w)
       \/ \E u \in Somebody, kind \in {"chat", "login", "account"} :
            Authenticate(w, u, kind)
       \/ Route(w) \/ Served(w) \/ NoPool(w)
       \/ \E a \in Account : DeleteAccount(w, a)
       \/ \E s \in Session :
            LoginURL(w, s) \/ \E caller \in Somebody : Poll(w, s, caller)
       \/ Pending(w) \/ Authorised(w) \/ LoginLost(w) \/ WriteAuth(w) \/ AddAccount(w)
  \/ \E s \in Session : EndSession(s) \/ \E a \in Account : Authorise(s, a)
  \/ Restart

Spec == Init /\ [][Next]_vars

-----------------------------------------------------------------------------
(* The variables have their types, keys and users agree, and no two users   *)
(* share a name, neither in memory nor in users.json.                       *)
Named(f) == \A u, v \in User : f[u] = f[v] /\ f[u] # Absent => u = v

TenancyTypeOK ==
  /\ users \in [User -> Name \cup {Absent}] /\ file \in [User -> Name \cup {Absent}]
  /\ byKey = {u \in User : users[u] # Absent}
  /\ Named(users) /\ Named(file)
  /\ DOMAIN pools = Somebody
  /\ \A u \in Somebody : pools[u] # Absent => pools[u] \subseteq Account
  /\ dir \in [Somebody -> SUBSET Account] /\ asked \in [Somebody -> SUBSET Account]
  /\ sess \in [Session -> Somebody \cup {Absent}]
  /\ granted \in [Session -> Account \cup {Absent}]
  /\ work \in [Worker -> Job]
  /\ told \in [User -> {"nothing", "created", "failed", "deleted", "not deleted"}]

(* Whoever can log in now can log in after a restart: a user in memory is   *)
(* in users.json under the same name, whichever writes failed on the way.   *)
NobodyForgotten ==
  \A u \in User : users[u] # Absent => file[u] = users[u]

(* A user whose deletion the administrator was told of never comes back,    *)
(* not with a restart and not with a later save.                            *)
DeletedStaysDeleted ==
  \A u \in User :
    told[u] = "deleted" => u \notin byKey /\ users[u] = Absent /\ file[u] = Absent

(* Some goroutine is between creating user u and registering a pool for it. *)
Registering(u) == \E w \in Worker : work[w].pc = "register" /\ work[w].user = u

(* Every user has a pool, except for the moment between Create() and        *)
(* RegisterUser().                                                          *)
EveryUserHasPool ==
  \A u \in User : users[u] # Absent => pools[u] # Absent \/ Registering(u)

(* An account is in a pool or an auth directory only if the user whose it   *)
(* is has asked for it: logins, concurrent polls, deletions of users and    *)
(* restarts never mix the accounts of two users.                            *)
OwnAccounts ==
  \A u \in Somebody : dir[u] \subseteq asked[u]
                        /\ (pools[u] # Absent => pools[u] \subseteq asked[u])

(* A request is served from the administrator's pool instead of its user's  *)
(* only if the user is being created or was deleted since the request came. *)
FallbackOnlyInTransit ==
  [][\A w \in Worker :
       Route(w) /\ work'[w].at # work[w].user
         => users[work[w].user] = Absent \/ Registering(work[w].user)]_vars
==============================================================================
