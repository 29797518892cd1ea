-------------------------- MODULE CredentialProofs --------------------------
(***************************************************************************)
(* Theorems about Credential, for any set of callers and any lifetimes.    *)
(***************************************************************************)
EXTENDS Credential, TLAPS

(* The mutex is held exactly while a refresh is under way, and the tokens   *)
(* of that refresh stand in a fixed relation to the credential's own.       *)
MutexInv ==
  \A c \in Caller :
    /\ InFlight(c) <=> mu = c
    /\ InFlight(c) => mem.drt # "none"
    /\ pc[c] = "asking" => sent[c] = mem.drt
    /\ pc[c] = "answered" <=> got[c] = "live"

CredInv == TypeOK /\ MutexInv /\ LoginKept /\ DeadOnlyIfLost

LEMMA CredInvInit == Init => CredInv
<1> SUFFICES ASSUME Init PROVE CredInv
  OBVIOUS
<1>1. file \in Tokens /\ mem \in Tokens /\ mem.drt \in {"none", "live"}
  BY DEF Init, AuthFiles, Tokens, Standing
<1>2. TypeOK
  BY <1>1 DEF Init, TypeOK, InFlight, Standing
<1>3. MutexInv
  BY NobodyAssumption DEF Init, MutexInv, InFlight
<1>4. LoginKept /\ DeadOnlyIfLost
  BY <1>1 DEF Init, LoginKept, DeadOnlyIfLost
<1> QED
  BY <1>2, <1>3, <1>4 DEF CredInv

LEMMA SpentStanding == \A s \in Standing : Spent(s) \in Standing
BY DEF Standing, Spent

LEMMA SoonerExpiry == \A e \in Expiry : Sooner(e) \in Expiry
BY LifeAssumption, UnsetAssumption DEF Expiry, Sooner

(* A call of EnsureDT that starts, or that returns without asking, changes  *)
(* no token.                                                                *)
LEMMA CallStep ==
  ASSUME CredInv, NEW c \in Caller,
         Call(c) \/ UseAsIs(c) \/ NoRefreshToken(c) \/ Forwarded(c)
  PROVE  CredInv'
<1>1. /\ UNCHANGED <<mem, file, mu, sent, got, revoked, mishap>>
      /\ ~InFlight(c) /\ ~InFlight(c)'
      /\ \A d \in Caller \ {c} : pc'[d] = pc[d] /\ outcome'[d] = outcome[d]
      /\ outcome'[c] = "invalid" => outcome[c] = "invalid" \/ mem.drt = "none"
  BY DEF CredInv, TypeOK, InFlight, Call, UseAsIs, NoRefreshToken, Forwarded
<1>2. TypeOK'
  BY DEF CredInv, TypeOK, InFlight, Call, UseAsIs, NoRefreshToken, Forwarded
<1>3. \A d \in Caller : /\ InFlight(d)' <=> InFlight(d)
                        /\ (pc'[d] = "asking") <=> (pc[d] = "asking")
                        /\ (pc'[d] = "answered") <=> (pc[d] = "answered")
  BY <1>1 DEF InFlight
<1>4. MutexInv'
  BY <1>1, <1>3 DEF CredInv, MutexInv
<1>5. LoginKept'
  BY <1>1, <1>3 DEF CredInv, LoginKept
<1>6. DeadOnlyIfLost'
  BY <1>1 DEF CredInv, DeadOnlyIfLost
<1> QED
  BY <1>2, <1>4, <1>5, <1>6 DEF CredInv

LEMMA AskStep ==
  ASSUME CredInv, NEW c \in Caller, Ask(c)
  PROVE  CredInv'
<1>1. TypeOK'
  BY DEF CredInv, TypeOK, InFlight, Ask, Tokens
<1>2. ASSUME NEW d \in Caller, d # c
      PROVE  pc'[d] = pc[d] /\ sent'[d] = sent[d] /\ ~InFlight(d)
  BY <1>2, NobodyAssumption DEF CredInv, TypeOK, MutexInv, Ask
<1>3. pc'[c] = "asking" /\ sent'[c] = mem.drt /\ pc[c] = "waiting"
  BY DEF CredInv, TypeOK, Ask
<1>4. MutexInv'
  BY <1>2, <1>3 DEF CredInv, MutexInv, InFlight, Ask
<1>5. LoginKept'
  BY <1>2, <1>3 DEF CredInv, LoginKept, Ask
<1>6. DeadOnlyIfLost'
  BY DEF CredInv, DeadOnlyIfLost, Ask
<1> QED
  BY <1>1, <1>4, <1>5, <1>6 DEF CredInv

LEMMA AcceptStep ==
  ASSUME CredInv, NEW c \in Caller, Accept(c)
  PROVE  CredInv'
<1>1. /\ mem' = [mem EXCEPT !.drt = "spent"]
      /\ file' = [file EXCEPT !.drt = Spent(file.drt)]
      /\ sent' = [d \in Caller |-> Spent(sent[d])]
      /\ got' = [[d \in Caller |-> Spent(got[d])] EXCEPT ![c] = "live"]
      /\ pc' = [pc EXCEPT ![c] = "answered"]
      /\ pc[c] = "asking" /\ mem.drt = "live" /\ sent[c] = "live"
      /\ UNCHANGED <<mu, outcome, revoked, mishap>>
  BY DEF CredInv, MutexInv, Accept, Rotate, Spent
<1>2. \A d \in Caller \ {c} : ~InFlight(d) /\ got[d] = "none" /\ sent[d] = "none"
  BY <1>1 DEF CredInv, TypeOK, MutexInv, InFlight
<1>3. /\ pc'[c] = "answered" /\ got'[c] = "live" /\ sent'[c] = "spent"
      /\ \A d \in Caller \ {c} : /\ pc'[d] = pc[d] /\ ~InFlight(d)'
                                 /\ got'[d] = "none" /\ sent'[d] = "none"
  BY <1>1, <1>2 DEF CredInv, TypeOK, Spent, InFlight
<1>4. TypeOK'
  <2>1. mem' \in Tokens /\ file' \in Tokens
    BY <1>1, SpentStanding DEF CredInv, TypeOK, Tokens, Standing
  <2>2. sent' \in [Caller -> Standing] /\ got' \in [Caller -> {"none", "live"}]
    BY <1>1, <1>3 DEF Standing
  <2>3. \A d \in Caller : sent'[d] # "none" <=> InFlight(d)'
    BY <1>3 DEF InFlight
  <2> QED
    BY <1>1, <2>1, <2>2, <2>3 DEF CredInv, TypeOK
<1>5. mem'.drt = "spent"
  BY <1>1 DEF CredInv, TypeOK, Tokens
<1>6. MutexInv'
  BY <1>1, <1>3, <1>5 DEF CredInv, MutexInv, InFlight
<1>7. LoginKept'
  BY <1>3 DEF LoginKept
<1>8. DeadOnlyIfLost'
  BY <1>1 DEF CredInv, DeadOnlyIfLost
<1> QED
  BY <1>4, <1>6, <1>7, <1>8 DEF CredInv

(* EnsureDT gives up and unlocks.  It may say "invalid" only about a drt    *)
(* the upstream would not take, and that is the credential's own.           *)
LEMMA ReturnStep ==
  ASSUME CredInv, NEW c \in Caller, Reject(c) \/ Fail(c) \/ LoseAnswer(c)
  PROVE  CredInv'
<1>1. InFlight(c) /\ mu = c
  BY DEF CredInv, MutexInv, InFlight, Reject, Fail, LoseAnswer
<1>2. /\ UNCHANGED <<mem, file, revoked>>
      /\ mu' = Nobody
      /\ pc' = [pc EXCEPT ![c] = "idle"]
      /\ sent' = [sent EXCEPT ![c] = "none"]
      /\ got' = [got EXCEPT ![c] = "none"]
      /\ mishap' \in {mishap, mishap \cup {"lost"}}
  BY <1>1 DEF Reject, Fail, LoseAnswer, Return, Unlock
<1>3. \A d \in Caller \ {c} : ~InFlight(d)
  BY <1>1 DEF CredInv, MutexInv
<1>4. /\ pc'[c] = "idle" /\ sent'[c] = "none" /\ got'[c] = "none"
      /\ \A d \in Caller \ {c} :
           pc'[d] = pc[d] /\ sent'[d] = sent[d] /\ got'[d] = got[d]
  BY <1>2 DEF CredInv, TypeOK
<1>5. TypeOK'
  <2>1. outcome' \in [Caller -> {"none", "ok", "invalid", "error"}]
    BY DEF CredInv, TypeOK, Reject, Fail, LoseAnswer, Return
  <2>2. \A d \in Caller : sent'[d] # "none" <=> InFlight(d)'
    BY <1>4 DEF CredInv, TypeOK, InFlight
  <2> QED
    BY <1>2, <2>1, <2>2 DEF CredInv, TypeOK, Standing
<1>6. MutexInv'
  BY <1>2, <1>3, <1>4, NobodyAssumption DEF CredInv, MutexInv, InFlight
<1>7. CASE Reject(c)
  <2>1. mishap' = mishap /\ pc[c] = "asking"
    BY <1>7 DEF Reject
  <2>2. revoked \/ mem.drt = "spent"
    BY <1>7, <2>1 DEF CredInv, TypeOK, MutexInv, Reject, Tokens, Standing, InFlight
  <2>3. \A d \in Caller : pc[d] # "answered"
    BY <1>3, <2>1 DEF InFlight
  <2>4. revoked \/ mishap # {}
    BY <2>2, <2>3 DEF CredInv, LoginKept
  <2> QED
    BY <1>2, <1>5, <1>6, <2>1, <2>4 DEF CredInv, LoginKept, DeadOnlyIfLost
<1>8. CASE Fail(c)
  <2>1. mishap' = mishap /\ pc[c] = "asking"
    BY <1>8 DEF Fail
  <2>2. \A d \in Caller : pc[d] # "answered"
    BY <1>3, <2>1 DEF InFlight
  <2>3. outcome'[c] # "invalid" /\ \A d \in Caller \ {c} : outcome'[d] = outcome[d]
    BY <1>8 DEF Fail, Return, CredInv, TypeOK
  <2>4. LoginKept' /\ DeadOnlyIfLost'
    BY <1>2, <2>1, <2>2, <2>3 DEF CredInv, LoginKept, DeadOnlyIfLost
  <2> QED
    BY <1>5, <1>6, <2>4 DEF CredInv
<1>9. CASE LoseAnswer(c)
  BY <1>5, <1>6, <1>9 DEF CredInv, LoginKept, DeadOnlyIfLost, LoseAnswer
<1> QED
  BY <1>7, <1>8, <1>9

(* The answer is stored: the live drt moves from it into the credential. *)
LEMMA ApplyStep ==
  ASSUME CredInv, NEW c \in Caller, NEW stated \in Stated, Apply(c, stated)
  PROVE  CredInv'
<1>1. pc[c] = "answered" /\ got[c] = "live" /\ mu = c /\ mem.drt # "none"
  BY DEF CredInv, MutexInv, InFlight, Apply
<1>2. /\ mem' = [dt |-> TRUE, drt |-> "live", expiry |-> NewExpiry(stated)]
      /\ mu' = Nobody
      /\ pc' = [pc EXCEPT ![c] = "ready"]
      /\ sent' = [sent EXCEPT ![c] = "none"]
      /\ got' = [got EXCEPT ![c] = "none"]
      /\ outcome' = [outcome EXCEPT ![c] = "ok"]
      /\ UNCHANGED <<file, revoked, mishap>>
  BY <1>1 DEF Apply, Unlock
<1>3. /\ pc'[c] = "ready" /\ sent'[c] = "none" /\ got'[c] = "none"
      /\ outcome'[c] = "ok"
      /\ \A d \in Caller \ {c} :
           /\ pc'[d] = pc[d] /\ sent'[d] = sent[d] /\ got'[d] = got[d]
           /\ outcome'[d] = outcome[d] /\ ~InFlight(d)
  BY <1>1, <1>2 DEF CredInv, TypeOK, MutexInv
<1>4. mem' \in Tokens /\ mem'.drt = "live"
  <2>1. NewExpiry(stated) \in Expiry
    BY LifeAssumption
    DEF CredInv, TypeOK, Tokens, NewExpiry, Stated, Expiry
  <2> QED
    BY <1>2, <2>1 DEF Tokens, Standing
<1>5. TypeOK'
  <2>1. \A d \in Caller : sent'[d] # "none" <=> InFlight(d)'
    BY <1>3 DEF CredInv, TypeOK, InFlight
  <2> QED
    BY <1>2, <1>4, <2>1 DEF CredInv, TypeOK, Standing
<1>6. MutexInv'
  BY <1>2, <1>3, NobodyAssumption DEF CredInv, MutexInv, InFlight
<1>7. LoginKept'
  BY <1>4 DEF LoginKept
<1>8. DeadOnlyIfLost'
  BY <1>1, <1>2, <1>3 DEF CredInv, DeadOnlyIfLost
<1> QED
  BY <1>5, <1>6, <1>7, <1>8 DEF CredInv

(* Steps that touch only expiry times, or end the login. *)
LEMMA ExpiryStep ==
  ASSUME CredInv, Tick \/ \E c \in Caller : TokenExpired(c)
  PROVE  CredInv'
<1>1. /\ mem' \in Tokens /\ mem'.drt = mem.drt
      /\ file' \in Tokens
      /\ UNCHANGED <<mu, sent, got, outcome, revoked, mishap>>
  BY SoonerExpiry DEF CredInv, TypeOK, Tokens, Expiry, Tick, TokenExpired
<1>2. /\ pc' \in [Caller -> {"idle", "waiting", "asking", "answered", "ready"}]
      /\ \A d \in Caller : /\ InFlight(d)' <=> InFlight(d)
                           /\ (pc'[d] = "asking") <=> (pc[d] = "asking")
                           /\ (pc'[d] = "answered") <=> (pc[d] = "answered")
  BY DEF CredInv, TypeOK, InFlight, Tick, TokenExpired
<1>3. TypeOK'
  BY <1>1, <1>2 DEF CredInv, TypeOK
<1>4. MutexInv'
  BY <1>1, <1>2 DEF CredInv, MutexInv
<1>5. LoginKept' /\ DeadOnlyIfLost'
  BY <1>1, <1>2 DEF CredInv, LoginKept, DeadOnlyIfLost
<1> QED
  BY <1>3, <1>4, <1>5 DEF CredInv

LEMMA RevokeStep ==
  ASSUME CredInv, Revoke
  PROVE  CredInv'
BY DEF CredInv, TypeOK, InFlight, MutexInv, LoginKept, DeadOnlyIfLost, Revoke

LEMMA RestartStep ==
  ASSUME CredInv, Restart
  PROVE  CredInv'
<1>1. /\ mu' = Nobody /\ revoked' = revoked /\ mem' = file'
      /\ \A c \in Caller : /\ pc'[c] = "idle" /\ sent'[c] = "none"
                           /\ got'[c] = "none" /\ outcome'[c] = "none"
  BY DEF Restart
<1>2. file' \in Tokens
  BY SpentStanding DEF CredInv, TypeOK, Tokens, Restart
<1>3. TypeOK'
  BY <1>1, <1>2 DEF CredInv, TypeOK, InFlight, Restart, Standing
<1>4. MutexInv'
  BY <1>1, NobodyAssumption DEF MutexInv, InFlight
<1>5. LoginKept'
  BY <1>1 DEF LoginKept, Restart
<1>6. DeadOnlyIfLost'
  BY <1>1 DEF DeadOnlyIfLost
<1> QED
  BY <1>3, <1>4, <1>5, <1>6 DEF CredInv

LEMMA CredInvStep ==
  ASSUME CredInv, [Next]_vars
  PROVE  CredInv'
<1>1. CASE UNCHANGED vars
  BY <1>1 DEF vars, CredInv, TypeOK, InFlight, MutexInv, LoginKept, DeadOnlyIfLost
<1> QED
  BY <1>1, CallStep, AskStep, AcceptStep, ReturnStep, ApplyStep, ExpiryStep,
     RevokeStep, RestartStep
  DEF Next, Enter, Answer, Settle, Finish

-----------------------------------------------------------------------------
(* Types, and with them that requests and answers exist only in EnsureDT. *)
THEOREM CredentialTypes == Spec => []TypeOK
<1>1. CredInv => TypeOK
  BY DEF CredInv
<1> QED
  BY <1>1, CredInvInit, CredInvStep, PTL DEF Spec

(* However many goroutines call EnsureDT at once, one refreshes. *)
THEOREM RefreshSingleFlight == Spec => []SingleFlight
<1>1. CredInv => SingleFlight
  BY DEF CredInv, MutexInv, SingleFlight
<1> QED
  BY <1>1, CredInvInit, CredInvStep, PTL DEF Spec

(* The callers never lose the login between them: only the upstream, a lost *)
(* answer or a restart can.                                                 *)
THEOREM LoginSurvivesRefreshes == Spec => []LoginKept
<1>1. CredInv => LoginKept
  BY DEF CredInv
<1> QED
  BY <1>1, CredInvInit, CredInvStep, PTL DEF Spec

(* No interleaving of callers declares a living login dead. *)
THEOREM LivingLoginNotDisabled == Spec => []DeadOnlyIfLost
<1>1. CredInv => DeadOnlyIfLost
  BY DEF CredInv
<1> QED
  BY <1>1, CredInvInit, CredInvStep, PTL DEF Spec
==============================================================================
