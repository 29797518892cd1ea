# Verification of qoderwork2api

`qoderwork2api` is a Go server that offers an OpenAI-style chat API and serves
it from a pool of QoderWork accounts. It logs accounts in by a device flow,
renews their tokens, chooses an account for every request, puts accounts that
were refused to rest, checks them in twice a day and keeps what it knows about
them in `state.json`. This directory has TLA+ models of the parts where
something can go wrong that a test would hardly reach, the TLC runs that check
them on small instances, and proofs of the most important properties for
instances of any size. Paths below are relative to the repository (`src/` is its
root here).

## 1. The system

| component | code | state | operations |
|---|---|---|---|
| account pool | `internal/pool/pool.go` | `byUID`: account -> credential, credits, disabled, `until`, `errCount`; `state.json` | Add, SyncToDir, SetCredits, Cooldown, Disable, ReenableIfCredits, NoteError, NoteSuccess, PickExcluding, List, SaveState, New (load) |
| device credential | `internal/cred/cred.go` | `DT`, `DRT`, `DTExpiresAt`, the machine fingerprint, a mutex; the auth file | EnsureDT, refreshLocked, EnsureMachineFingerprint, LoadFile, LoadDir, MarshalCredFile |
| chat handler | `internal/server/handler.go` | per request: the accounts tried | chatCompletions (rotation over accounts), models, getUserPool, effectiveModelMap |
| scheduler | `internal/scheduler/scheduler.go` | one goroutine and its timer | Run, RunCheckinNow, RunKeepaliveNow |
| user API: accounts and quota | `internal/server/user_api.go` | - | handleListAccounts, handleDeleteAccount, handleQuotaRefresh, handleUserStats |
| device login sessions | `internal/server/user_api.go` | `sessions`: user and nonce -> login under way, 10 minutes | handleLoginStart, handleLoginPoll, handleLoginCancel |
| user store | `internal/user/store.go` | users by name and by API key; `users.json` | Create, Delete, AuthByPassword, GetByKey, List |
| pool manager | `internal/user/store.go` | user -> pool, auth directory | RegisterUser, GetPool, RemoveUser |
| admin API: users | `internal/server/user_api.go` | - | handleCreateUser, handleDeleteUser, handleListUsers |
| authentication | `internal/server/auth.go`, `handler.go` | tokens in requests | AuthMiddleware, withAuth |
| model catalogue | `internal/server/handler.go`, `internal/upstream/models.go` | the model table and its time | effectiveModelMap, FetchModels |
| stream conversion | `internal/upstream/sse.go` | per answer: text, tool calls by index | ParseNestedSSE, StreamAsOpenAI, AggregateNested |
| QoderEncoding | `internal/upstream/encoding.go` | - | QoderEncode, QoderDecode |
| upstream client, error classes | `internal/upstream/client.go`, `chat.go`, `classify.go` | - | ChatForward, Classify, FetchQuota, Checkin |
| request body, COSY signing | `internal/upstream/body.go`, `cosy.go` | - | building and signing a request |
| start-up and shutdown | `cmd/server/main.go` | - | main |
| configuration, page, scripts | `cmd/server/config.go`, `internal/server/admin.html`, `*.sh`, `cmd/checkin_test` | - | - |

### How the parts interact

* Every HTTP request is a goroutine. A chat request asks the pool for the
  healthy account with most credits, calls `EnsureDT` on its credential, forwards
  the request and reports what happened to the pool *by account name*; on a
  failure it goes on to the next account, at most `MaxRotate` times.
* The scheduler is one goroutine. It reads the list of accounts once per pass and
  calls the upstream for each; it reports to the pool by name, too.
* A device login writes the auth file, reads it back, adds the credential to the
  pool and saves the pool. The pointer in the pool is replaced; goroutines
  that took the earlier credential keep it.
* `state.json` is written after every verdict on an account, by one function that
  drops every error; it is read when the process starts, before the auth files.
* The tokens in a credential are renewed in memory, under its own mutex, which is
  held over the HTTP call; the pool's mutex is never held over a call.

### What is hard about it, and what makes it correct

| component | hard | correct means |
|---|---|---|
| pool | crash between verdict and file; a save that fails; long call sequences | bans and cooldowns survive crashes, end only by the clock or by credits; one machine fingerprint per account |
| credential | several callers find the token stale; an answer is lost; a restart | a refresh token is used once; the login survives its own refreshes; only dead logins are called dead; every call returns |
| chat handler | accounts change between two calls of the pool; verdicts arrive late | a good account is found if there is one; accounts are disabled for cause; every request ends |
| scheduler | accounts come and go during a pass; the wall clock is set, the goroutine is late, a pass is long | every pass ends; every hour of the plan gets its passes, and gets them once |
| configuration | zero, negative, empty and unreadable settings, put right in three places | a server that runs has settings the rest can rely on |
| model catalogue | goroutines fetch at once, answers come late, the upstream is away | no list is used for too long; the latest one wins; what is listed can be asked for |
| login | interleaves with all of the above | pool and auth directory agree |
| streams, encoding | fragments of tool calls interleave; two kinds of client; a stream breaks off | both clients get the same answer; a stream whose connection broke does not look whole (one that ends in order but without the upstream's `[DONE]` does, `sse.go:45`); the upstream reads what was meant |
| user store, pool manager | users come and go between look-ups; a file cannot be written | a user is served from the user's own pool and from no other |

PROJECT.json lists the hazards one by one with the line where each bites.

## 2. Modules

```
AccountLife  <- implemented by -  Pool  <- extended by -  Relay
                                  Credential (one account's tokens, seen by Relay as "auth invalid" or not)
Tenancy (users, their pools and sessions, above many Relays)
Stream, QoderEncoding  <- extended by -  Exchange (one call of the upstream, inside Relay's Forward)
Config  <- extended by -  SchedulerClock (when the passes of Relay begin)
Catalogue (what Relay's step "models" returns)
```

| module | models | state | actions |
|---|---|---|---|
| `AccountLife` | what a pool promises of one account: available, cooling, disabled, out, and the moves between them | `avail` | Admit, Cool, Ban, Thaw, Rescan, Restart |
| `Pool` | `internal/pool/pool.go` | `byUID` (entries), `state` (state.json), `lastSaveFailed` (history) | one per method; each method holds the mutex from first to last line, so each is one action, with the call of `saveLocked` that most of them end in inside. `Restart` is `New` and `load`; `Tick` is the clock |
| `Credential` | `internal/cred/cred.go`, one credential under many goroutines | `mem`, `file`, `mu`, and per caller `pc`, `sent`, `got`, `outcome` | Call, UseAsIs/NoRefreshToken/Ask (the first half of EnsureDT), Accept/Reject/Fail (the upstream), LoseAnswer/Apply (the second half), TokenExpired (the relay's write without the mutex), Revoke, Restart, Tick |
| `Relay` | a pool at work: `chatCompletions`, scheduler passes, quota refresh, device logins, `login.sh`, account deletion, restart | `req`, `pass`, `flow` (the polls that complete a login), `auth` (auth directory), `dead`, `crossed` (history), and Pool's | one action per call of the pool or return of an HTTP call; between them everything else may happen |
| `Tenancy` | `internal/user/store.go`, user and session handlers of `user_api.go`, `getUserPool`, `withAuth` | `users`, `byKey`, `file` (users.json), `pools`, `dir`, `sess`, `work` and history | Create, Delete and their failures, Register, Remove, Authenticate, Route, the steps of a poll (and its loss, LoginLost), Restart |
| `QoderEncoding` | `internal/upstream/encoding.go` | none | operators `QoderEncode`, `QoderDecode` |
| `Stream` | `internal/upstream/sse.go` | `seen` (history), `out`, `doneLines`, `streamEnd`, `agg`, `aggEnd` | ReadChunk, ReadEnd, ReadError |
| `Exchange` | `ChatForward` and the reading of the answer | `phase`, `body`, `wire`, and Stream's | Encode, Post, Refuse, Accept, Answering |
| `Config` | `cmd/server/config.go`, and the repairs of `NewHandler` and `scheduler.New` | none | operators `Load`, `Accepted`, `Settings` |
| `SchedulerClock` | `Run` and `nextFire` of `internal/scheduler/scheduler.go` in a process that may not start | `file`, `env`, `pc`, `hour`, `left` (the timer, or the rest of a pass), `now` (the wall clock), `lag`, `upsets`, and history | Start, Exit, Wait, Fire, EndPass; Tick, SetForward, SetBack are the clock |
| `Catalogue` | `internal/upstream/models.go` and the cache of `handler.go` | `cache`, `work`, `list` and `up` (the upstream), `gone` (history) | Ask, Answer, Fail, Store, ReadMeta, Done; Change, Toggle, Restart, Tick around them |
| `PoolProofs`, `CredentialProofs`, `RelayProofs`, `TenancyProofs`, `SchedulerProofs`, `CatalogueProofs`, `QoderProofs` (of Exchange, with Stream and QoderEncoding) | - | - | theorems |
| `FoldProofs` | - | - | lemmas about folds and about induction over 0 .. n, for the modules above |
| `MCPool`, `MCCredential`, `MCRelay`, `MCTenancy`, `MCExchange`, `MCUpkeep`, `MCCatalogue` | - | - | symmetry and values for TLC |

`map` in PROJECT.json gives the source lines of every definition. Definitions
whose comment says "Mutation of" are plausible mistakes in the code; no run uses
them, they are put in a definition's place to see that a property notices.

### Abstractions

* Time. `until` and `DTExpiresAt` are kept as the ticks left, so that no clock
  grows; a tick may come at any moment. The cooldowns keep their order
  (hard > soft, error) and not their lengths. The 12 hours that
  `scheduler.go:110` and `user_api.go:143` write as a literal are a constant of
  their own (`QuotaCooldown`), whatever the hard cooldown is configured to be.
* Tokens. A refresh token is known by what the upstream will make of it: live
  or spent. The upstream is the most general one that accepts a token once.
* Upstream answers. A refusal is a status and what its text speaks of (credits,
  TOKEN_EXPIRE, or neither); `Classify` makes its kind of them as the code does, and
  the kinds decide what follows. No answer is of the kind "session dead", so the branch
  for it (`handler.go:377`) is never taken, in the model as in the code;
  a 401 without `TOKEN_EXPIRE` is an ordinary client error.
* A pass visits accounts in any order; the code takes them in one order, which
  is among these.
* `Relay` lets everything happen to its pool that happens to any: the scheduler and
  the fetching of models concern the administrator's pool, deletions through the API
  a user's. What the model list says is `Catalogue`'s subject; `Relay` has what
  fetching it does to the account.
* In `SchedulerClock` a day is 24 hours of `Slot` ticks on the wall clock, and a timer
  counts ticks, not the clock's. The code adds 24 hours to an hour that is past, which
  is another hour of the day when summer time begins or ends; the timer is then
  early or late by an hour, as after a change of the clock. A pass is the time it
  takes. A number in the environment that does not parse is skipped, one in the file
  breaks the file; this is a property of the texts (`TextAssumption`), not of the instance.
* In `Catalogue` names are sequences over a small alphabet with two upper case
  letters, three separators and a digit; trimming blanks before and dashes after the
  loop comes to what the operator writes. White space other than the blank, which the code
  trims at the ends of a display name and keeps inside it, is left out. Only fetching takes time.
* Ids, API keys and session ids are random in the code and never collide here.
  `users.json` and `state.json` are replaced by renaming a temporary file, so
  they are old or new, never torn. An auth file is written in place
  (`user_api.go:281`); the models write it in one step, so nobody reads half of one.
* The fields DT and DRT are read by `ChatForward` without the mutex while a
  refresh may write them. `Credential` has the unsynchronised write of
  `DTExpiresAt`, but takes reads of the strings as whole.
* In `Stream` a chunk has one choice, and one field stands for several that the
  code treats alike: `head` for id, type and name of a call. Left out are role and usage
  of a chunk, of which the last one given counts, as with `finish_reason`, and id and
  created, of which the first one counts (`sse.go:67-72`). The two
  consumers run side by side on the same input; the code runs one of them.

## 3. Runs

| run | instance | shows |
|---|---|---|
| `PoolLife` | 2 accounts, 2 fingerprints, disk works | `PoolTypeOK`: entries well formed, the error count below its threshold. `ImplementsLife`: each account moves as `AccountLife` says, restarts included (a ban survives them). `FingerprintKept`: logins, scans and restarts keep the machine fingerprint. `EarlyThawNeedsCredits`: an account in the middle of a cooldown becomes healthy at once only by `ReenableIfCredits` for it with a positive balance (or a restart after a failed save); that a shorter cooldown may replace a longer one is finding 2 |
| `Credential` | 3 goroutines, fair | `TypeOK`; `SingleFlight`: one refresh at a time; `LoginKept`: no interleaving loses the login; `DeadOnlyIfLost`: no interleaving declares a living login dead; `EnsureReturns` |
| `RelayFailover` | 2 accounts, one beyond reproach; 2 requests, 2 polls, 2 logins, deletions, `login.sh`, restarts | `AlwaysServed`: no request is turned away; `FileInPool`: auth directory and pool agree on every account that is not being logged in, except where two polls for it crossed or `login.sh` wrote the file; `DisabledWithCause`: only a dead login, or a goroutine holding an earlier credential, disables an account |
| `RelayProgress` | 1 account, a request, a pass, a poll, logins, restarts, a disk that fails, fair | `RequestEnds`, `PassEnds`; `RelayTypeOK`: among others, nobody forwards for an account known from state.json only; `DisabledWithCause`, here with a pass and a restart that finds an old file; `Durable`: unless the last save failed, state.json has the balance, ban and rest of cooldown of every account that has any |
| `Tenancy` | 2 users (one with the role admin), 2 names, 2 goroutines, 1 session | `TenancyTypeOK`; `NobodyForgotten`: who can log in can after a restart; `DeletedStaysDeleted`; `EveryUserHasPool`; `OwnAccounts`: accounts never change hands; `FallbackOnlyInTransit`: the administrator's pool serves others only for users in the making or just deleted |
| `Exchange` | bodies of up to 12 letters, streams of up to 4 of 16 chunks, 3 calls | `TypeOK`; `ReadBack`: the upstream decodes what was encoded; `SameAnswer`: streaming and waiting clients get the same answer, where silence about the finish reason counts as "stop"; `CallsInOrder`; `OneContentKey`; `DoneMeansAll`: `[DONE]` is written once, after all deltas, and not when a connection broke |
| `Upkeep` | 7 files, 3 environments; 24 hours of 4 ticks, 2 upsets, fair | `TypeOK`; `Usable`: whoever runs has usable settings; `Punctual`: an hour of the plan that strikes while the scheduler waits gets its passes; `NoRepeat`: none runs twice in an hour, unless the clock was set back or the plan has a negative hour; `EveryHourServed`: every hour of a plan without negative hours is served again and again |
| `Catalogue` | 2 goroutines, 3 lists, a cache of 2 ticks and fetches of 1, fair | `TypeOK`; `Staleness`: no list is used that was given up too long ago; `ListingAgrees`: a name that several models have means the same one in the listing and in a chat that use the same list; `ListedIsAskable`: names made of display names, and those of the built-in table, can be asked for, with the same model; `Converges`: a list that stays is used by everybody in the end |
| `CredentialRestart` | 1 goroutine | `InvalidMeansDead` is violated (finding 1) |
| `RelayHardCooldown` | 1 account, 2 requests | `HardCooldownHolds` is violated (finding 2) |
| `RelayRelogin` | 1 account, 2 logins | `LoginEnables` is violated (finding 3) |
| `StartUpNoConfig` | as `Upkeep` | `MissingMeansDefaults` is violated (finding 4) |

### Bounds

* Two accounts are enough for one to be chosen over, or confused with, another;
  methods of the pool other than PickExcluding touch one account, and
  `PoolProofs` has the proofs for any number. Balances 0 and 1 are what the code compares: it asks
  only whether a balance is positive or larger than another.
* `ErrThreshold` 2 lets an error be counted, counted out and be forgotten by
  a success in between. Cooldowns of 1 to 3 ticks let a short one end, or
  replace a long one, before the long one is over.
* Three callers: one refreshes while one waits and one uses the token it got
  before. `Life` 3 and `Margin` 1 give fresh, stale and expired tokens.
* `MaxRotate` equals the number of accounts in `RelayFailover`, where the claim
  is that everybody is tried, and more than that in `RelayProgress`, so that a
  request can also run out of accounts.
* `RelayFailover` has two polls and two logins, the fewest with which a login can cross another
  one for the same account: without the exception TLC shows how file and pool part. It has two
  requests, of which one can change an account under the other, and no pass, to which the
  state space leaves no room; passes are in `RelayProgress`, and
  in the proofs for any number of everything.
* `RelayProgress` has one account, since the state of a request that goes over
  two and of a pass over two under fairness is too large to check beside a failing
  disk. An account picked twice, or visited twice, is what would keep
  either going, and one account is enough for that; others only come before or after it.
* Two users and names: a name is refused, used again after a deletion, and
  accounts could go to the wrong one. Ids are used once, so a third user adds
  only another creation.
* Texts of 4, 8 and 12 letters leave each remainder modulo 3, with no, one and
  two pads. Four chunks let a third call open between two fragments of
  another; three indices are the fewest that a faulty sort can get wrong.
* `Upkeep`: four ticks leave room in an hour for a goroutine that is late by one, two
  passes of up to one and a clock set by two; `BoundAssumption` says what "less than an
  hour in all" means. A long pass of six ticks reaches into the next hour, so hours
  that follow each other are lost to it, and the plan {1, 2}, {2, 24} has such hours, one of
  both kinds and one that does not exist. The plan {-3, 21} has a negative hour and the same one as it
  should be written. Two upsets allow each pair of: the clock
  set forward, set back, a long pass, the end of the process.
* `Catalogue`: two goroutines are enough for a late answer to overwrite a newer one; the
  third list is needed so that a goroutine can have one, the cache another and the
  upstream a third. Names get up to six characters, with separators at both ends, in runs
  and alone; two models of one list have the same name; one has no display
  name, and one has a display name without a letter.
* Deadlock is checked except in `Exchange`, which ends when the answer was read.
* Symmetry is used for sets whose members the module and its properties only
  compare for equality, and in no run with a liveness property.

### Fairness

`Credential!FairSpec` has weak fairness of the upstream's answers and of the
steps after them: the HTTP client has a 30 second timeout, and each end of it is
an action (`Fail`, `LoseAnswer`). It has strong fairness of entering EnsureDT,
since the mutex is free only now and then for a waiter: a Go mutex is handed to
a goroutine that has waited for more than a millisecond. No
fairness is assumed of callers, of the clock or of the upstream's mood.
`Relay!FairSpec` has weak fairness of each request's and pass's own steps, for
the same timeouts, and of nothing else: not of new requests, the clock, logins
or which way a call ends. `EnsureDT` counts as one call there,
which `EnsureReturns` justifies.
`SchedulerClock!FairSpec` has weak fairness of the tick and of the scheduler's own steps:
its goroutine is scheduled, its timer fires, and a pass ends (`PassEnds`). Nobody need
start the process; `EveryHourServed` speaks of one that stays up.
`Catalogue!FairSpec` has weak fairness of the tick and of what a request does once it has
begun; `FetchModels` has a timeout of 15 seconds. Nobody need ask, and the upstream
need not answer.

### Findings

1. A rotated refresh token is kept in memory only (`cred.go:234`). After a
   restart the file's token, which the first refresh has spent, is
   used again; the upstream refuses it and the account is disabled although its
   login was alive.
2. The later verdict replaces the earlier one (`pool.go:167`): a 429 of a request
   that was under way when a 402 came shortens twelve hours to a minute.
3. A new device login does not enable a disabled account (`pool.go:86`), which
   the comments give as the way out.
4. A server without a config file does not start (`main.go:29`): the error of
   `os.ReadFile` is wrapped once more by `Load`, and `os.IsNotExist` does not look into
   wrapped errors (`errors.Is` does). The log line about defaults is never reached.

What else the models contain or the reading showed, and no text contradicts:

* A refresh that states no lifetime keeps an expiry that has passed
  (`cred.go:243`), so each call refreshes again until one states it.
* A request that met `MaxRotate` refusals reports all accounts unavailable even if there
  were more (`handler.go:420`).
* A user without a registered pool is served from the administrator's
  (`handler.go:300`); `FallbackOnlyInTransit` says when that can happen.
* `Classify` never says "session dead" (`classify.go:75`).
* The 12 hours after an exceeded quota are fixed in passes and configurable in requests.
* An hour beyond 23 in the plan fires, on some other day, at an hour that no pass is planned
  for (`scheduler.go:41`); a pass that runs past a full hour of the plan loses that
  hour; a clock set back where two hours of the plan follow each other repeats the
  first. README.md:85 gives a threshold of 5 errors, as `config.example.json` has it; the default is 3 (`config.go:53`).
* While the upstream does not answer, every request that finds the model list stale fetches
  it anew (`handler.go:251`), and an older answer may overwrite a newer one.
* A model without a display name whose key has upper case letters is listed and refused: the
  look-up is in lower case (`handler.go:332`); `ListedIsAskable` leaves such keys out. A display
  name of separators only gives the name "", which is listed and refused (`handler.go:316`);
  `ListedIsAskable` allows for that one.
* /v1/models may show a key of one list for a name of another: the details are read under a
  lock of their own (`handler.go:175`), and are not dropped when a fetch fails and the
  names come from the built-in table (`handler.go:253`). `ListingAgrees` says whose key it is.
* Two polls for one account may cross (`user_api.go:281-294`): one writes its file after the
  other's `LoadFile` and before its `Add`. If the other adds last, the file has one login and
  the pool the other until the account logs in again or the server starts.
* The signature and the header `cosy-date` come from two readings of the clock (`cosy.go:155`
  and 174); a refusal that follows from it counts as an error of the account. No module has it.
* The hours of a plan are not validated. -3 is 21:00 of the day before, which is past, and
  a day later is 21:00 of today (`scheduler.go:41-44`): with -3 in the plan, from 21:00 to
  midnight `nextFire`, which is to give the next time after now (`scheduler.go:37`), returns
  one before it, every timer fires at once, and what the plan has in the running hour is repeated
  as fast as it ends. `NoRepeat` and `EveryHourServed` state the exception.
* A login is lost when its auth file cannot be written, since its session is deleted first
  (`user_api.go:238`).

One does contradict a comment and awaits a run: `pool.go:101` says that the
state of the accounts SyncToDir drops stays in state.json, but the next save
(`main.go:96`, right after) writes the accounts that are held and no others.
The callback that calls SyncToDir is handed to the handlers, none of which calls
it. `Pool` has SyncToDir as the code does it, and `AccountLife!Rescan`
lets an account it dropped come back available.

## 4. Proofs

Every invariant and every action property that a passing run checks is also proved, for all
values of the constants under the ASSUMEs of the modules. These say that thresholds and
cooldowns are positive; that "absent" and "nobody" are none of the things they are absent
from; that there are finitely many accounts; that the alphabet has no letter twice; that a
token is renewed before it ends (`Margin < Life`); that a number in a configuration file is
one; that late wake-ups, short passes and changes of the
clock stay under an hour in all; that lists, names and chunks are sequences and records as
the JSON they stand for gives them; that the names of the built-in table are in lower case and
not empty; and that the lists of the upstream have at least one usable model.

Three theorems have a hypothesis of their own. `PoolImplementsLife` wants a disk that works:
when a save fails, a restart may free an account. `ClockTypeCorrect` wants the hours in the file to be
0 to 24 (`DayHours`): only then is a timer never longer than a day. `ContentKeysAreSingle` wants
what `sse.go:205` says of the upstream, one text in a chunk at most (`OneText`).

* **Pool** (`PoolProofs`): `PoolTypeCorrect` and `PoolDurable`, by the invariant
  `PoolInv == PoolTypeOK /\ Durable`. Most
  methods end in a save, which either makes `state` the image of `byUID` or sets
  `lastSaveFailed` (`SavedPool`). The others (Add, SyncToDir, NoteSuccess and the
  fingerprint) change only what state.json does not have, or add accounts
  nothing is known about (`UnsavedPool`). A tick ages both sides alike. `FingerprintIsKept`
  and `ThawNeedsCredits` follow step by step: whatever else is called leaves the
  cooldown alone or sets a whole one (`EntrySteps`, `EntryThaws`); a restart needs `Durable`.
  `PoolImplementsLife` maps each step to one of `AccountLife` or a stutter,
  with one lemma per move of one account (`LifeSteps`); the
  restart maps to `Life!Restart` since no save has failed (`DiskInv`).
* **Credential** (`CredentialProofs`): `CredentialTypes`, `RefreshSingleFlight`,
  `LoginSurvivesRefreshes`, `LivingLoginNotDisabled`, from `CredInv`. None
  is inductive alone: single flight needs that whoever has a request on its way
  holds the mutex (`MutexInv`), and that a rejected token was really dead
  needs that the token in a request is the one in the credential, which needs
  single flight.
* **Relay** (`RelayProofs`): every step of a request, pass or login comes to one call
  of the pool by a goroutine with some credential in hand (`RelayMove`), so that each
  invariant has a handful of cases instead of thirty actions. `RelayTypeCorrect` and
  `RelayDurable` from `RelayInv`. `FilesAreInPool` holds for any number of polls: only a poll
  between its write and its add makes the directory run ahead of the pool, and what any poll for an
  account has read back is what the file has, unless another one has crossed it
  (`ReadBack`, `FilesKept`); so whichever of them adds last, it adds the file's login.
  `BansHaveCauses` needs the converse of `Durable`: unless
  the last save failed, the file has no ban that memory has not (`DiskAgrees`). The
  exception for a restart after a failed save in `DisabledWithCause` came out of this proof: without
  it the property is false when state.json can be neither read at one start nor written then,
  and is read at the next one: the ban in it comes back.
  `FailoverIsComplete` needs `GoodInv`: a good account is
  healthy in memory and on disk, and a request that has tried it is still working on it;
  so as long as one is left untried `PickExcluding` finds somebody (`BestExists`, by
  well-founded induction over finite sets), and the number of accounts tried never
  exceeds `MaxRotate`.
* **Tenancy** (`TenancyProofs`): `TypeInv` says what a job holds at each of its points.
  `StoreInv` adds that users.json has only users who were reported created or
  could not be deleted, and that a pool is only removed after a reported deletion:
  `NobodyIsForgotten`, `DeletedIsForEver`, `UsersHavePools`, `FallbackIsTransient`.
  `LoginInv` follows an account from the session it was granted in, over the
  goroutine that polls, into a pool: `AccountsAreOwn`.
* **Scheduler and settings** (`SchedulerProofs`): `UsableSettings`, from any file and
  environment (`Chosen`: a process that runs was started with texts that it could use).
  `HoursAreServed` and `PassesRunOnce` from `ClockInv`: the timer never fires later than
  the next hour of the plan strikes, but for the time spent (`OnTime`), an hour that is owed
  its passes is not over when it fires, and a timer armed after a pass does not fire in the same hour
  (`OnceOK`), unless a negative hour made it `Overdue`; negative hours are otherwise as good as any.
  The time of day is taken modulo 24 hours; `DayFacts` and `AheadFacts` say what is
  needed of it.
* **Model list** (`CatalogueProofs`): `CatalogueTypes` and `NoStaleList`. The bound on the age
  of a list is not inductive: needed are a bound on how long a list
  that a goroutine has in hand has been gone by how long it has waited, and one for
  the cache by its age; a late answer satisfies the second when it is stored, because the
  first held for it. `ListingIsRight` and `ListedNamesAreFound` are about what the loops over a list and
  over a name compute, see below.
* **Encoding** (`QoderProofs`): `RoundTrip`: decoding undoes encoding for texts of
  every length over every alphabet. `RearrangedProperties` says where each letter of
  a rearranged text comes from; going back by this map twice
  leads home (`FromInvolution`). `UpstreamReadsBody` carries it over to `Exchange`.
* **Streams** (`QoderProofs`): `DoneComesLast` and `ContentKeysAreSingle` from `StreamInv`, which
  says how the ends of the two readers belong together. `AnswersAreSame` and `CallsAreSorted` from
  `AnswerInv`: after every chunk `AggregateNested` holds, for each index, the call that
  all fragments so far make (`Collected`), and the indices once each. A fragment
  more keeps this (`WithFragmentCollects`), hence a chunk more does (`AggregatedCollects`).
  `sortInts` is proved to sort (`SortIntsSorts`): an exchange brings the smaller one forward
  and disturbs nothing before, a pass puts its position right, all passes put all right.
  `ExchangeTypeCorrect` is a consequence.

### Folds and induction

The loops of the code are folds in the models, which the provers know nothing of, and the induction
theorems of the library take a predicate, which cannot be given to them. `FoldProofs` goes
around both. A set of naturals has a least member (`LeastNat`, from well-founded
finite sets); so a *set* that contains 0 and with each number the next
contains all up to n (`Climb`). A fold is a choice among functions on sets of positions; `FoldExists`
makes one, and `Unroll` shows that any of them takes, on the prefixes, the steps that are expected. An
operator cannot be quantified over, so each fold of the models has a lemma
that passes from its operator to a function and says: the fold is the end of a sequence of
values, each of which follows from the one before by one call (`PassFold`, `SortFold`, `AggregatedFold`
and those of `CatalogueProofs`). All else is induction along this sequence.

### Only model-checked

Liveness (`EnsureReturns`, `RequestEnds`, `PassEnds`, `EveryHourServed`, `Converges`), which
needs ENABLED. The violations of the findings are counterexamples of small instances. That
`EnsureDT` always returns, which `Relay` relies on when it counts it as one call, is `EnsureReturns`.

## 5. Not modelled

* Request body (`body.go`): copies fields of one JSON document into another, without state
  and without a step that depends on one before; `NormalizeReasoningEffort` is a table.
* The signature of `cosy.go`, of which `Exchange` has only the refusal without a machine
  fingerprint, and its ciphers, hashes and key wrapping: calls of libraries over bytes.
* `client.go` beyond the outcomes of a call: which JSON leads to which balance, and the
  plan and user information that is only shown.
* Listening address, paths and API key of the configuration; the five seconds that
  requests get at a shutdown (`main.go:124`); admin page, shell scripts
  (but for the auth file that `login.sh` writes), `cmd/checkin_test`, which use the server from outside.
* Memory-level races on strings and maps, such as the unlocked reads of DT and DRT
  (`chat.go:73`); log messages; statistics.

## 6. Plan

Done: Pool, AccountLife, Credential, Relay, Tenancy, QoderEncoding, Stream,
Exchange, Config, SchedulerClock, Catalogue, and the proofs above. The pool and the
credentials came first, since every other part acts through them.

Next, in this order:

1. `Relay`: the upstream's balance as state, so that a balance that was read
   before a 402 and reported after it can be judged.
2. Proofs: what a pool promises under a failing disk, as a weaker `AccountLife` in which a
   restart may go back to any earlier save; that a pass of the scheduler visits
   no account twice.
3. The unlocked reads of DT and DRT in `ChatForward`, as a step of their own in `Credential`.
