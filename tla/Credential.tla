----------------------------- MODULE Credential -----------------------------
(***************************************************************************)
(* One credential object, internal/cred/cred.go, shared by the goroutines  *)
(* that relay requests, check in and keep accounts alive.  EnsureDT holds  *)
(* the credential's mutex over the HTTP call that trades the refresh token *)
(* (drt) for a new pair; the upstream accepts each drt once.  The auth     *)
(* file has the pair of the login and is read again when the process       *)
(* starts; nothing writes a refreshed pair back to it.                     *)
(*                                                                         *)
(* A drt is known by its standing with the upstream, not by its text:      *)
(* "live" is the one it will accept, "spent" one it has already accepted.  *)
(* Expiry times count down, as in Pool.                                    *)
(***************************************************************************)
EXTENDS Integers

CONSTANTS
  Caller,   \* goroutines that call EnsureDT on this credential
  Nobody,   \* the mutex is free
  Unset,    \* DTExpiresAt = 0
  Life,     \* ticks a dt lives when the upstream does not say
  Margin    \* ticks before its expiry from which a dt is renewed (2h)

VARIABLES
  mem,      \* the fields DT (only whether it is set), DRT and DTExpiresAt
  file,     \* the same three in the auth file
  mu,       \* who holds c.mu
  pc,       \* what each caller is at
  sent,     \* the drt in the caller's refresh request
  got,      \* the drt in the upstream's answer to it
  outcome,  \* how the caller's last EnsureDT ended
  revoked,  \* the upstream has ended the login
  mishap    \* history: "lost" an answer, or fell back on the file by "restart"

vars == <<mem, file, mu, pc, sent, got, outcome, revoked, mishap>>

Standing == {"none", "live", "spent"}
Expiry   == (0 .. Life) \cup {Unset}
Tokens   == [dt: BOOLEAN, drt: Standing, expiry: Expiry]

ASSUME LifeAssumption == Life \in Nat /\ Margin \in 0 .. Life - 1
ASSUME NobodyAssumption == Nobody \notin Caller
ASSUME UnsetAssumption == Unset \notin 0 .. Life

(* LoadFile() refuses a file with neither token. *)
AuthFiles == {t \in [dt: BOOLEAN, drt: {"none", "live"}, expiry: Expiry] :
                t.dt \/ t.drt # "none"}

Init ==
  /\ file \in AuthFiles
  /\ mem = file
  /\ mu = Nobody
  /\ pc = [c \in Caller |-> "idle"]
  /\ sent = [c \in Caller |-> "none"]
  /\ got = [c \in Caller |-> "none"]
  /\ outcome = [c \in Caller |-> "none"]
  /\ revoked = FALSE
  /\ mishap = {}

-----------------------------------------------------------------------------
(* EnsureDT *)

Fresh == mem.dt /\ mem.expiry # Unset /\ mem.expiry > Margin

Call(c) ==
  /\ pc[c] = "idle"
  /\ pc' = [pc EXCEPT ![c] = "waiting"]
  /\ outcome' = [outcome EXCEPT ![c] = "none"]
  /\ UNCHANGED <<mem, file, mu, sent, got, revoked, mishap>>

(* The mutex is taken and, the dt being fresh, released again at once. *)
UseAsIs(c) ==
  /\ pc[c] = "waiting" /\ mu = Nobody
  /\ Fresh
  /\ pc' = [pc EXCEPT ![c] = "ready"]
  /\ outcome' = [outcome EXCEPT ![c] = "ok"]
  /\ UNCHANGED <<mem, file, mu, sent, got, revoked, mishap>>

NoRefreshToken(c) ==
  /\ pc[c] = "waiting" /\ mu = Nobody
  /\ ~Fresh /\ mem.drt = "none"
  /\ pc' = [pc EXCEPT ![c] = "idle"]
  /\ outcome' = [outcome EXCEPT ![c] = "invalid"]
  /\ UNCHANGED <<mem, file, mu, sent, got, revoked, mishap>>

(* Mutation of Ask: the mutex is released before the HTTP call. *)
AskUnlocked(c) ==
  /\ pc[c] = "waiting" /\ mu = Nobody
  /\ ~Fresh /\ mem.drt # "none"
  /\ sent' = [sent EXCEPT ![c] = mem.drt]
  /\ pc' = [pc EXCEPT ![c] = "asking"]
  /\ UNCHANGED <<mem, file, mu, got, outcome, revoked, mishap>>

(* The mutex is kept while the refresh request is on its way. *)
Ask(c) ==
  /\ pc[c] = "waiting" /\ mu = Nobody
  /\ ~Fresh /\ mem.drt # "none"
  /\ mu' = c
  /\ sent' = [sent EXCEPT ![c] = mem.drt]
  /\ pc' = [pc EXCEPT ![c] = "asking"]
  /\ UNCHANGED <<mem, file, got, outcome, revoked, mishap>>

(* Mutation of Unlock: returning leaves the mutex locked. *)
UnlockForgotten(c) == UNCHANGED mu

Unlock(c) == mu' = IF mu = c THEN Nobody ELSE mu

(* EnsureDT returns to caller c without a new pair. *)
Return(c, how) ==
  /\ outcome' = [outcome EXCEPT ![c] = how]
  /\ pc' = [pc EXCEPT ![c] = "idle"]
  /\ sent' = [sent EXCEPT ![c] = "none"]
  /\ got' = [got EXCEPT ![c] = "none"]
  /\ Unlock(c)

Spent(s) == IF s = "live" THEN "spent" ELSE s

(* The upstream's token endpoint accepts the drt of request c and replaces  *)
(* it: every copy of the drt that anyone still has is spent from now on.    *)
Rotate(c) ==
  /\ pc[c] = "asking" /\ sent[c] = "live" /\ ~revoked
  /\ mem' = [mem EXCEPT !.drt = Spent(@)]
  /\ file' = [file EXCEPT !.drt = Spent(@)]
  /\ sent' = [d \in Caller |-> Spent(sent[d])]

Accept(c) ==
  /\ Rotate(c)
  /\ got' = [[d \in Caller |-> Spent(got[d])] EXCEPT ![c] = "live"]
  /\ pc' = [pc EXCEPT ![c] = "answered"]
  /\ UNCHANGED <<mu, outcome, revoked, mishap>>

(* 401 or 403: AuthInvalidError. *)
Reject(c) ==
  /\ pc[c] = "asking" /\ (sent[c] # "live" \/ revoked)
  /\ Return(c, "invalid")
  /\ UNCHANGED <<mem, file, revoked, mishap>>

(* Mutation of Fail: every failure counts as AuthInvalidError. *)
FailAsInvalid(c) ==
  /\ pc[c] = "asking"
  /\ Return(c, "invalid")
  /\ UNCHANGED <<mem, file, revoked, mishap>>

(* Any other failure before the upstream took the drt. *)
Fail(c) ==
  /\ pc[c] = "asking"
  /\ Return(c, "error")
  /\ UNCHANGED <<mem, file, revoked, mishap>>

(* The upstream took the drt, but the 30s timeout, a broken connection, a   *)
(* body that does not parse or an incomplete pair loses the new one.        *)
LoseAnswer(c) ==
  /\ pc[c] = "answered"
  /\ mishap' = mishap \cup {"lost"}
  /\ Return(c, "error")
  /\ UNCHANGED <<mem, file, revoked>>

(* Mutation of NewExpiry: milliseconds taken for seconds. *)
NewExpiryInSeconds(stated) == IF stated # Unset THEN 1000 * stated ELSE Life

(* DTExpiresAt after a refresh whose answer states `stated` as expiry, or   *)
(* states none (Unset).                                                     *)
NewExpiry(stated) ==
  IF stated # Unset THEN stated
  ELSE IF mem.expiry = Unset THEN Life ELSE mem.expiry

(* An upstream that states a lifetime states a useful one. *)
Stated == {Unset} \cup (Margin + 1 .. Life)

(* Mutation of Apply: the new drt is not stored. *)
ApplyWithoutDRT(c, stated) ==
  /\ pc[c] = "answered"
  /\ mem' = [mem EXCEPT !.dt = TRUE, !.expiry = NewExpiry(stated)]
  /\ pc' = [pc EXCEPT ![c] = "ready"]
  /\ outcome' = [outcome EXCEPT ![c] = "ok"]
  /\ sent' = [sent EXCEPT ![c] = "none"]
  /\ got' = [got EXCEPT ![c] = "none"]
  /\ Unlock(c)
  /\ UNCHANGED <<file, revoked, mishap>>

(* refreshLocked() takes over the new pair and EnsureDT returns nil. *)
Apply(c, stated) ==
  /\ pc[c] = "answered"
  /\ mem' = [dt |-> TRUE, drt |-> got[c], expiry |-> NewExpiry(stated)]
  /\ pc' = [pc EXCEPT ![c] = "ready"]
  /\ outcome' = [outcome EXCEPT ![c] = "ok"]
  /\ sent' = [sent EXCEPT ![c] = "none"]
  /\ got' = [got EXCEPT ![c] = "none"]
  /\ Unlock(c)
  /\ UNCHANGED <<file, revoked, mishap>>

-----------------------------------------------------------------------------
(* What callers and the world around the credential do. *)

(* The upstream request made with the dt ends; after a 401 the relay clears *)
(* DTExpiresAt, without the mutex, to force a refresh next time.            *)
Forwarded(c) ==
  /\ pc[c] = "ready"
  /\ pc' = [pc EXCEPT ![c] = "idle"]
  /\ UNCHANGED <<mem, file, mu, sent, got, outcome, revoked, mishap>>

TokenExpired(c) ==
  /\ pc[c] = "ready"
  /\ mem' = [mem EXCEPT !.expiry = Unset]
  /\ pc' = [pc EXCEPT ![c] = "idle"]
  /\ UNCHANGED <<file, mu, sent, got, outcome, revoked, mishap>>

(* The account's owner ends the session, or the drt reaches its own end. *)
Revoke ==
  /\ ~revoked
  /\ revoked' = TRUE
  /\ UNCHANGED <<mem, file, mu, pc, sent, got, outcome, mishap>>

InFlight(c) == pc[c] \in {"asking", "answered"}
Refreshing == \E c \in Caller : InFlight(c)
Reaching == \E c \in Caller : pc[c] = "asking" /\ sent[c] = "live" /\ ~revoked

(* The process dies and comes up again, with the pair in the auth file; a   *)
(* refresh request on its way may still reach the upstream.                 *)
Restart ==
  /\ \/ UNCHANGED file
     \/ Reaching /\ file' = [file EXCEPT !.drt = Spent(@)]
  /\ mem' = file'
  /\ mu' = Nobody
  /\ pc' = [c \in Caller |-> "idle"]
  /\ sent' = [c \in Caller |-> "none"]
  /\ got' = [c \in Caller |-> "none"]
  /\ outcome' = [c \in Caller |-> "none"]
  /\ mishap' = mishap \cup IF file'.drt # "spent" THEN {}
                           ELSE IF Refreshing THEN {"lost"} ELSE {"restart"}
  /\ UNCHANGED revoked

Sooner(e) == IF e = Unset \/ e = 0 THEN e ELSE e - 1

Tick ==
  /\ mem' = [mem EXCEPT !.expiry = Sooner(@)]
  /\ file' = [file EXCEPT !.expiry = Sooner(@)]
  /\ UNCHANGED <<mu, pc, sent, got, outcome, revoked, mishap>>

Enter(c)  == UseAsIs(c) \/ NoRefreshToken(c) \/ Ask(c)
Answer(c) == Accept(c) \/ Reject(c) \/ Fail(c)
Settle(c) == LoseAnswer(c) \/ \E stated \in Stated : Apply(c, stated)
Finish(c) == Forwarded(c) \/ TokenExpired(c)

Next ==
  \/ \E c \in Caller : Call(c) \/ Enter(c) \/ Answer(c) \/ Settle(c) \/ Finish(c)
  \/ Revoke
  \/ Restart
  \/ Tick

Spec == Init /\ [][Next]_vars

(* A Go mutex hands itself over to a goroutine that has waited for 1ms, so  *)
(* no waiter starves; the HTTP client gives up after 30s, so every request  *)
(* ends one way or the other.  Whether anyone calls, and how the upstream   *)
(* answers, is left open.                                                   *)
FairSpec ==
  /\ Spec
  /\ \A c \in Caller : /\ SF_vars(Enter(c))
                       /\ WF_vars(Answer(c))
                       /\ WF_vars(Settle(c))

-----------------------------------------------------------------------------
(* The variables have their types, and a caller has a request or an answer  *)
(* only while EnsureDT waits for one.                                       *)
TypeOK ==
  /\ mem \in Tokens /\ file \in Tokens
  /\ mu \in Caller \cup {Nobody}
  /\ pc \in [Caller -> {"idle", "waiting", "asking", "answered", "ready"}]
  /\ sent \in [Caller -> Standing]
  /\ got \in [Caller -> {"none", "live"}]
  /\ outcome \in [Caller -> {"none", "ok", "invalid", "error"}]
  /\ revoked \in BOOLEAN
  /\ mishap \subseteq {"lost", "restart"}
  /\ \A c \in Caller : sent[c] # "none" <=> InFlight(c)

(* However many goroutines find the dt stale at once, one refreshes it. *)
SingleFlight ==
  \A c, d \in Caller : InFlight(c) /\ InFlight(d) => c = d

(* The login survives its own refreshes: unless the upstream ended it, an   *)
(* answer was lost or a restart went back to a pair already traded in, the  *)
(* drt the upstream will accept next is in the credential or in the answer  *)
(* that the holder of the mutex is about to store.                          *)
LoginKept ==
  \/ revoked
  \/ mishap # {}
  \/ mem.drt # "spent"
  \/ \E c \in Caller : pc[c] = "answered" /\ got[c] = "live"

(* An account is declared dead (and disabled by the caller) only if its     *)
(* login is dead, has no drt at all, or one of the two mishaps happened: no *)
(* interleaving of callers gets a living login disabled.                    *)
DeadOnlyIfLost ==
  \A c \in Caller :
    outcome[c] = "invalid" => revoked \/ mishap # {} \/ mem.drt = "none"

(* What cred.go:6 says: AuthInvalidError means that the drt is dead.  The   *)
(* code falls short of it after a restart, even if no answer is ever lost:  *)
(* the file still has the drt that the first refresh spent.                 *)
InvalidMeansDead ==
  \A c \in Caller :
    outcome[c] = "invalid" => revoked \/ "lost" \in mishap \/ mem.drt = "none"

(* Every call of EnsureDT returns. *)
EnsureReturns ==
  \A c \in Caller : pc[c] \in {"waiting", "asking", "answered"}
                      ~> pc[c] \in {"idle", "ready"}
==============================================================================
