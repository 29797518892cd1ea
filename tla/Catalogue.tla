------------------------------- MODULE Catalogue -------------------------------
(***************************************************************************)
(* The models a client may ask for: FetchModels, ResolveModelMap and       *)
(* NormalizeModelName of internal/upstream/models.go, and the cache that   *)
(* chatCompletions() and models() of internal/server/handler.go share.     *)
(* Every request that finds the cache stale fetches the list of the        *)
(* upstream itself, several at a time, and stores what it got; without an  *)
(* account, or an answer, it uses the table built into the program.        *)
(*                                                                         *)
(* A name is a sequence of characters.  Of a model its key, its display    *)
(* name and whether it is enabled count.  What a request does between its  *)
(* fetches takes no time next to the hour that the cache lives.            *)
(***************************************************************************)
EXTENDS Integers, SequencesExt

CONSTANTS
  Worker,    \* goroutines of requests
  Lists,     \* what the upstream may list, each a sequence of models
  Static,    \* the table of fallbackModelMap(), from name to key
  TTL,       \* ticks the cache is fresh: dynamicModelsTTL
  MaxFetch   \* ticks EnsureDT and FetchModels take at most

VARIABLES
  list,   \* what the upstream lists now
  up,     \* whether there is an account and the upstream answers it
  cache,  \* dynamicModels, from which dynamicMap is made; and its age
  work,   \* what each goroutine is at
  gone    \* history: ticks since the upstream listed something last

vars == <<list, up, cache, work, gone>>

Upper == {"A", "B"}
Separator == {" ", "_", "-"}

Lower(c) == CASE c = "A" -> "a" [] c = "B" -> "b" [] OTHER -> c
ToLower(name) == [i \in DOMAIN name |-> Lower(name[i])]

(* Mutation of Normalized: letters stay as they are. *)
NormalizedInCase(c) == c

(* What NormalizeModelName writes for a character that is no separator. *)
Normalized(c) == Lower(c)

Write(b, c) ==
  IF c \notin Separator THEN Append(b, Normalized(c))
  ELSE IF b = <<>> \/ Last(b) = "-" THEN b ELSE Append(b, "-")

(* NormalizeModelName(): lower case, one dash for every run of separators,  *)
(* none at either end.                                                      *)
NormalizeModelName(name) ==
  LET b == FoldLeft(Write, <<>>, name)
  IN  IF b # <<>> /\ Last(b) = "-" THEN Front(b) ELSE b

NameOf(m) == IF m.display # <<>> THEN NormalizeModelName(m.display) ELSE m.key

(* What FetchModels keeps of a list; nothing kept is an error. *)
Keep(kept, m) == IF m.enable /\ m.key # <<>> THEN Append(kept, m) ELSE kept
Enabled(models) == FoldLeft(Keep, <<>>, models)

Names(models) == {NameOf(models[i]) : i \in DOMAIN models}

(* Mutation of Meant: the first model of a name counts. *)
FirstMeant(models, n) ==
  models[CHOOSE i \in DOMAIN models :
           /\ NameOf(models[i]) = n
           /\ \A j \in 1 .. i - 1 : NameOf(models[j]) # n]

(* dynamicModelsMeta(): of several models of a name the last one counts. *)
Meant(models, n) ==
  models[CHOOSE i \in DOMAIN models :
           /\ NameOf(models[i]) = n
           /\ \A j \in i + 1 .. Len(models) : NameOf(models[j]) # n]

(* ResolveModelMap(): from name to key; a later model overwrites. *)
Enter(map, m) ==
  [n \in DOMAIN map \cup {NameOf(m)} |-> IF n = NameOf(m) THEN m.key ELSE map[n]]
Resolve(models) == FoldLeft(Enter, <<>>, models)

(* The map a request works with: of a fetched list, or of none. *)
MapOf(models) == IF models = <<>> THEN Static ELSE Resolve(models)

(* models(): the key that is shown for a name, when the map was made of one *)
(* list and the details are read from another.                              *)
Shown(models, meta, n) ==
  IF n \in Names(meta) THEN Meant(meta, n).key ELSE MapOf(models)[n]

(* A list is a sequence of models, a display name one of characters. *)
ASSUME SequencesAssumption ==
  \A l \in Lists :
    l \in Seq(Range(l)) /\ \A m \in Range(l) : m.display \in Seq(Range(m.display))
ASSUME ListsAssumption ==
  \A l \in Lists : Enabled(l) # <<>> /\ \A k \in Lists \ {l} : Enabled(k) # Enabled(l)
ASSUME NameAssumption == \A n \in DOMAIN Static : n # <<>> /\ ToLower(n) = n
ASSUME TimeAssumption == TTL \in Nat \ {0} /\ MaxFetch \in Nat

Fetched == {Enabled(l) : l \in Lists}
LongGone == TTL + MaxFetch + 1
Job ==
  [pc: {"idle", "fetching", "answered", "mapped", "listed", "over"},
   job: {"none", "chat", "list"}, wait: 0 .. MaxFetch,
   models: Fetched \cup {<<>>}, meta: Fetched \cup {<<>>}]
At(pc, job, models) ==
  [pc |-> pc, job |-> job, wait |-> 0, models |-> models, meta |-> <<>>]
Idle == At("idle", "none", <<>>)

Init ==
  /\ list \in Lists /\ up \in BOOLEAN
  /\ cache = [models |-> <<>>, age |-> TTL]
  /\ work = [w \in Worker |-> Idle]
  /\ gone = [l \in Fetched |-> IF l = Enabled(list) THEN 0 ELSE LongGone]

-----------------------------------------------------------------------------
(* Mutations of Fresh: the cache is fresh for a tick longer; for good. *)
FreshInclusive == cache.models # <<>> /\ cache.age <= TTL
FreshForever == cache.models # <<>>

Fresh == cache.models # <<>> /\ cache.age < TTL

(* A chat request, or one for the list of models, enters effectiveModelMap. *)
Ask(w, job) ==
  /\ work[w].pc = "idle"
  /\ work' = [work EXCEPT ![w] =
                IF Fresh THEN At("mapped", job, cache.models) ELSE At("fetching", job, <<>>)]
  /\ UNCHANGED <<list, up, cache, gone>>

(* Mutation of Answer: models that are not enabled are kept. *)
AnswerUnfiltered(w) ==
  /\ work[w].pc = "fetching" /\ up
  /\ work' = [work EXCEPT ![w].pc = "answered", ![w].models = list]
  /\ UNCHANGED <<list, up, cache, gone>>

(* The upstream answers; the answer is still on its way. *)
Answer(w) ==
  /\ work[w].pc = "fetching" /\ up
  /\ work' = [work EXCEPT ![w].pc = "answered", ![w].models = Enabled(list)]
  /\ UNCHANGED <<list, up, cache, gone>>

(* No account, no valid token, or no answer that can be used. *)
Fail(w) ==
  /\ work[w].pc \in {"fetching", "answered"} /\ ~up
  /\ work' = [work EXCEPT ![w].pc = "mapped", ![w].models = <<>>]
  /\ UNCHANGED <<list, up, cache, gone>>

Store(w) ==
  /\ work[w].pc = "answered"
  /\ cache' = [models |-> work[w].models, age |-> 0]
  /\ work' = [work EXCEPT ![w].pc = "mapped"]
  /\ UNCHANGED <<list, up, gone>>

(* dynamicModelsMeta() takes the lock a second time. *)
ReadMeta(w) ==
  /\ work[w].pc = "mapped" /\ work[w].job = "list"
  /\ work' = [work EXCEPT ![w].pc = "listed", ![w].meta = cache.models]
  /\ UNCHANGED <<list, up, cache, gone>>

(* The list is sent; or the chat request looks its model up and goes on.    *)
(* The next request of this goroutine comes in another tick.                *)
Done(w) ==
  /\ \/ work[w].pc = "listed"
     \/ work[w].pc = "mapped" /\ work[w].job = "chat"
  /\ work' = [work EXCEPT ![w] = At("over", "none", <<>>)]
  /\ UNCHANGED <<list, up, cache, gone>>

-----------------------------------------------------------------------------
Change(l) ==
  /\ l # list
  /\ list' = l
  /\ gone' = [gone EXCEPT ![Enabled(l)] = 0]
  /\ UNCHANGED <<up, cache, work>>

Toggle ==
  /\ up' = ~up
  /\ UNCHANGED <<list, cache, work, gone>>

Restart ==
  /\ cache' = [models |-> <<>>, age |-> TTL]
  /\ work' = [w \in Worker |-> Idle]
  /\ UNCHANGED <<list, up, gone>>

(* Only fetches take time. *)
Tick ==
  /\ \A w \in Worker : \/ work[w].pc \in {"idle", "over"}
                       \/ work[w].pc \in {"fetching", "answered"} /\ work[w].wait < MaxFetch
  /\ cache' = [cache EXCEPT !.age = IF @ < TTL THEN @ + 1 ELSE TTL]
  /\ work' = [w \in Worker |->
                IF work[w].pc \in {"idle", "over"} THEN Idle ELSE [work[w] EXCEPT !.wait = @ + 1]]
  /\ gone' = [l \in Fetched |->
                IF l = Enabled(list) THEN 0
                ELSE IF gone[l] < LongGone THEN gone[l] + 1 ELSE LongGone]
  /\ UNCHANGED <<list, up>>

Serve(w) == Answer(w) \/ Fail(w) \/ Store(w) \/ ReadMeta(w) \/ Done(w)

Next ==
  \/ \E w \in Worker : Serve(w) \/ \E job \in {"chat", "list"} : Ask(w, job)
  \/ \E l \in Lists : Change(l)
  \/ Toggle \/ Restart \/ Tick

Spec == Init /\ [][Next]_vars

(* Time passes, and requests go on: a fetch has a timeout of 15 seconds.    *)
(* Nobody need ask, and the upstream need not come back.                    *)
FairSpec == Spec /\ WF_vars(Tick) /\ \A w \in Worker : WF_vars(Serve(w))

-----------------------------------------------------------------------------
(* The variables have their types, and a request knows models only while it *)
(* works with them.                                                         *)
TypeOK ==
  /\ list \in Lists /\ up \in BOOLEAN
  /\ cache \in [models: Fetched \cup {<<>>}, age: 0 .. TTL]
  /\ gone \in [Fetched -> 0 .. LongGone]
  /\ work \in [Worker -> Job]
  /\ \A w \in Worker :
       work[w].pc \in {"idle", "fetching", "over"} => work[w].models = <<>>

(* A request never works with a list that the upstream gave up longer ago   *)
(* than the cache is fresh and a fetch takes, although an answer that comes *)
(* late overwrites a newer one and makes its list fresh again.              *)
Staleness ==
  \A w \in Worker :
    work[w].pc = "mapped" /\ work[w].models # <<>>
      => gone[work[w].models] < TTL + MaxFetch

(* Once the upstream answers and its list stays what it is, every request   *)
(* works with that list before long: not with an older one that goroutines  *)
(* hand on to each other, and not with the built-in table.                  *)
Converges ==
  \A l \in Lists :
    <>[](up /\ list = l)
      => <>[](\A w \in Worker : work[w].pc = "mapped" => work[w].models = Enabled(l))

(* What /v1/models shows as the upstream's key of a name is what a chat     *)
(* with this name gets from the list that was in the cache when the details *)
(* were read, or, for a name that list lacks, from the map the names were   *)
(* taken from: a name that several models have means the same one to        *)
(* everybody.  The two lists need not be one: another goroutine may store   *)
(* its own in between, and after a fetch that failed the names are those of *)
(* the built-in table while the cache has a list of any age.                *)
ListingAgrees ==
  \A w \in Worker :
    work[w].pc = "listed" =>
      \A n \in DOMAIN MapOf(work[w].models) :
        Shown(work[w].models, work[w].meta, n) =
          IF work[w].meta # <<>> /\ n \in DOMAIN MapOf(work[w].meta)
          THEN MapOf(work[w].meta)[n] ELSE MapOf(work[w].models)[n]

(* The models of a list that are listed under their display name. *)
Displayed(models) == {m \in Range(models) : m.display # <<>>}

(* The shown names but those that are keys of the upstream. *)
ShownNames(models) ==
  IF models = <<>> THEN DOMAIN Static ELSE {NameOf(m) : m \in Displayed(models)}

(* A client can use every name it is shown that comes from a display name   *)
(* or the built-in table: chatCompletions() looks it up in lower case, and  *)
(* finds the same model.  Only the empty name it refuses (handler.go:316),  *)
(* and that is shown only for a display name made of separators.            *)
ListedIsAskable ==
  \A w \in Worker :
    work[w].pc = "listed" =>
      LET models == work[w].models
          map == MapOf(models)
      IN  \A n \in ShownNames(models) :
            /\ n \in DOMAIN map /\ ToLower(n) \in DOMAIN map
            /\ map[ToLower(n)] = map[n]
            /\ n = <<>> => \E m \in Displayed(models) : Range(m.display) \subseteq Separator
================================================================================
