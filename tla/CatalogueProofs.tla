----------------------------- MODULE CatalogueProofs -----------------------------
(***************************************************************************)
(* How old the list of models can be that a request works with, for any    *)
(* lists, numbers of requests and times.  An answer on its way is at most  *)
(* as stale as it has been waited for, and the list in the cache is at     *)
(* most as stale as it is old and its fetch took.                          *)
(*                                                                         *)
(* Then what the two answers made of one list have to do with each other:  *)
(* the loops of NormalizeModelName, FetchModels and ResolveModelMap are    *)
(* folds, and are followed element by element.                             *)
(***************************************************************************)
EXTENDS Catalogue, FoldProofs, SequenceTheorems

Answered ==
  \A w \in Worker :
    work[w].pc = "answered" =>
      work[w].models # <<>> /\ gone[work[w].models] <= work[w].wait

Cached == Fresh => gone[cache.models] <= MaxFetch + cache.age

Inv ==
  /\ TypeOK
  /\ gone[Enabled(list)] = 0
  /\ Answered
  /\ Cached
  /\ Staleness

LEMMA FetchedLists ==
  ASSUME NEW l \in Lists
  PROVE  Enabled(l) \in Fetched /\ Enabled(l) # <<>>
BY ListsAssumption DEF Fetched

LEMMA Numbers ==
  /\ TTL \in Nat \ {0} /\ MaxFetch \in Nat
  /\ LongGone = TTL + MaxFetch + 1 /\ LongGone \in Nat
BY TimeAssumption DEF LongGone

LEMMA IdleIsJob == Idle \in Job /\ At("over", "none", <<>>) \in Job
BY Numbers DEF Idle, At, Job

LEMMA InvInit == Init => Inv
<1> SUFFICES ASSUME Init
             PROVE  Inv
  OBVIOUS
<1>1. Enabled(list) \in Fetched
  BY FetchedLists DEF Init
<1>2. gone \in [Fetched -> 0 .. LongGone] /\ gone[Enabled(list)] = 0
  BY <1>1, Numbers DEF Init
<1>3. work \in [Worker -> Job] /\ \A w \in Worker : work[w] = Idle
  BY IdleIsJob DEF Init
<1>4. TypeOK
  BY <1>2, <1>3, Numbers DEF Init, TypeOK, Idle, At
<1> QED
  BY <1>2, <1>3, <1>4 DEF Init, Inv, Answered, Cached, Fresh, Staleness, Idle, At

(* A step of one goroutine leaves the others, and what they know, alone.    *)
LEMMA OneWorker ==
  ASSUME Inv, NEW w \in Worker, NEW j \in Job,
         work' = [work EXCEPT ![w] = j],
         UNCHANGED <<list, up, gone>>, cache' \in [models: Fetched \cup {<<>>}, age: 0 .. TTL],
         Cached',
         j.pc \in {"idle", "fetching", "over"} => j.models = <<>>,
         j.pc = "answered" => j.models # <<>> /\ gone[j.models] <= j.wait,
         j.pc = "mapped" /\ j.models # <<>> => gone[j.models] < TTL + MaxFetch
  PROVE  Inv'
<1>1. work' \in [Worker -> Job] /\ \A v \in Worker : work'[v] = IF v = w THEN j ELSE work[v]
  BY DEF Inv, TypeOK
<1>2. TypeOK'
  BY <1>1 DEF Inv, TypeOK
<1>3. Answered'
  BY <1>1 DEF Inv, Answered
<1>4. Staleness'
  BY <1>1 DEF Inv, Staleness
<1> QED
  BY <1>2, <1>3, <1>4 DEF Inv

LEMMA CachedKept == Cached /\ UNCHANGED <<cache, gone>> => Cached'
BY DEF Cached, Fresh

LEMMA AskStep ==
  ASSUME Inv, NEW w \in Worker, NEW job \in {"chat", "list"}, Ask(w, job)
  PROVE  Inv'
<1> DEFINE hit == At("mapped", job, cache.models)
           miss == At("fetching", job, <<>>)
<1>0. job \in {"none", "chat", "list"} /\ 0 \in 0 .. MaxFetch
  BY Numbers
<1>1. Cached' /\ UNCHANGED <<list, up, cache, gone>>
  BY CachedKept DEF Inv, Ask
<1>2. cache \in [models: Fetched \cup {<<>>}, age: 0 .. TTL]
  BY DEF Inv, TypeOK
<1>3. CASE Fresh
  <2>1. hit \in Job /\ hit.pc = "mapped" /\ hit.models = cache.models
    BY <1>0, <1>2 DEF Job, At
  <2>2. gone[cache.models] <= MaxFetch + cache.age /\ cache.age < TTL
    BY <1>3 DEF Inv, Cached, Fresh
  <2>3. gone[cache.models] \in Nat
    BY <1>2, <1>3, Numbers DEF Inv, TypeOK, Fresh
  <2>4. gone[cache.models] < TTL + MaxFetch
    BY <1>2, <2>2, <2>3, Numbers
  <2>5. work' = [work EXCEPT ![w] = hit]
    BY <1>3 DEF Ask
  <2> HIDE DEF hit
  <2> QED
    BY <1>1, <1>2, <2>1, <2>4, <2>5, OneWorker
<1>4. CASE ~Fresh
  <2>1. miss \in Job /\ miss.pc = "fetching" /\ miss.models = <<>>
    BY <1>0 DEF Job, At
  <2>2. work' = [work EXCEPT ![w] = miss]
    BY <1>4 DEF Ask
  <2> HIDE DEF miss
  <2> QED
    BY <1>1, <1>2, <2>1, <2>2, OneWorker
<1> QED
  BY <1>3, <1>4

LEMMA ServeStep ==
  ASSUME Inv, NEW w \in Worker, Serve(w)
  PROVE  Inv'
<1>1. work[w] \in Job /\ cache \in [models: Fetched \cup {<<>>}, age: 0 .. TTL]
  BY DEF Inv, TypeOK
<1>2. CASE Answer(w)
  <2> DEFINE j == [work[w] EXCEPT !.pc = "answered", !.models = Enabled(list)]
  <2>1. Enabled(list) \in Fetched /\ Enabled(list) # <<>> /\ gone[Enabled(list)] = 0
    BY FetchedLists DEF Inv, TypeOK
  <2>2. j \in Job /\ j.pc = "answered" /\ j.models = Enabled(list) /\ j.wait = work[w].wait
    BY <1>1, <2>1 DEF Job
  <2>3. gone[Enabled(list)] <= work[w].wait
    BY <1>1, <2>1, Numbers DEF Job
  <2>4. work' = [work EXCEPT ![w] = j] /\ UNCHANGED <<list, up, cache, gone>> /\ Cached'
    BY <1>2, CachedKept DEF Inv, TypeOK, Answer
  <2> HIDE DEF j
  <2> QED
    BY <1>1, <2>1, <2>2, <2>3, <2>4, OneWorker
<1>3. CASE Fail(w)
  <2> DEFINE j == [work[w] EXCEPT !.pc = "mapped", !.models = <<>>]
  <2>1. j \in Job /\ j.pc = "mapped" /\ j.models = <<>>
    BY <1>1 DEF Job
  <2>2. work' = [work EXCEPT ![w] = j] /\ UNCHANGED <<list, up, cache, gone>> /\ Cached'
    BY <1>3, CachedKept DEF Inv, TypeOK, Fail
  <2> HIDE DEF j
  <2> QED
    BY <1>1, <2>1, <2>2, OneWorker
<1>4. CASE Store(w)
  <2> DEFINE j == [work[w] EXCEPT !.pc = "mapped"]
  <2>1. j \in Job /\ j.pc = "mapped" /\ j.models = work[w].models
    BY <1>1 DEF Job
  <2>2. work[w].models # <<>> /\ gone[work[w].models] <= work[w].wait
    BY <1>4 DEF Inv, Answered, Store
  <2>3. gone[work[w].models] \in Nat /\ work[w].wait \in 0 .. MaxFetch
    BY <1>1, <2>2, Numbers DEF Inv, TypeOK, Job
  <2>4. gone[work[w].models] <= MaxFetch /\ gone[work[w].models] < TTL + MaxFetch
    BY <2>2, <2>3, Numbers
  <2>5. /\ work' = [work EXCEPT ![w] = j] /\ UNCHANGED <<list, up, gone>>
        /\ cache' = [models |-> work[w].models, age |-> 0]
    BY <1>4 DEF Inv, TypeOK, Store
  <2>6. cache' \in [models: Fetched \cup {<<>>}, age: 0 .. TTL]
    BY <1>1, <2>5, Numbers DEF Job
  <2>7. Cached'
    BY <2>3, <2>4, <2>5, Numbers DEF Cached, Fresh
  <2> HIDE DEF j
  <2> QED
    BY <2>1, <2>4, <2>5, <2>6, <2>7, OneWorker
<1>5. CASE ReadMeta(w)
  <2> DEFINE j == [work[w] EXCEPT !.pc = "listed", !.meta = cache.models]
  <2>1. j \in Job /\ j.pc = "listed"
    BY <1>1 DEF Job
  <2>2. work' = [work EXCEPT ![w] = j] /\ UNCHANGED <<list, up, cache, gone>> /\ Cached'
    BY <1>5, CachedKept DEF Inv, TypeOK, ReadMeta
  <2> HIDE DEF j
  <2> QED
    BY <1>1, <2>1, <2>2, OneWorker
<1>6. CASE Done(w)
  <2> DEFINE j == At("over", "none", <<>>)
  <2>1. j \in Job /\ j.pc = "over" /\ j.models = <<>>
    BY IdleIsJob DEF Idle, At
  <2>2. work' = [work EXCEPT ![w] = j] /\ UNCHANGED <<list, up, cache, gone>> /\ Cached'
    BY <1>6, CachedKept DEF Inv, Done
  <2> HIDE DEF j
  <2> QED
    BY <1>1, <2>1, <2>2, OneWorker
<1> QED
  BY <1>2, <1>3, <1>4, <1>5, <1>6 DEF Serve

LEMMA ChangeStep ==
  ASSUME Inv, NEW l \in Lists, Change(l)
  PROVE  Inv'
<1>1. Enabled(l) \in Fetched
  BY FetchedLists
<1>2. /\ gone' \in [Fetched -> 0 .. LongGone]
      /\ \A k \in Fetched : gone'[k] = IF k = Enabled(l) THEN 0 ELSE gone[k]
  BY <1>1, Numbers DEF Inv, TypeOK, Change
<1>3. \A k \in Fetched : gone[k] \in Nat /\ gone'[k] \in Nat /\ gone'[k] <= gone[k]
  BY <1>2, Numbers DEF Inv, TypeOK
<1>4. list' = l /\ UNCHANGED <<up, cache, work>>
  BY DEF Change
<1>5. TypeOK'
  BY <1>2, <1>4 DEF Inv, TypeOK
<1>6. Answered'
  <2> SUFFICES ASSUME NEW w \in Worker, work[w].pc = "answered"
               PROVE  work[w].models # <<>> /\ gone'[work[w].models] <= work[w].wait
    BY <1>4 DEF Answered
  <2>1. work[w].models # <<>> /\ gone[work[w].models] <= work[w].wait
    BY DEF Inv, Answered
  <2>2. work[w].models \in Fetched /\ work[w].wait \in Nat
    BY <2>1, Numbers DEF Inv, TypeOK, Job
  <2> QED
    BY <1>3, <2>1, <2>2
<1>7. Cached'
  <2> SUFFICES ASSUME Fresh
               PROVE  gone'[cache.models] <= MaxFetch + cache.age
    BY <1>4 DEF Cached, Fresh
  <2>1. gone[cache.models] <= MaxFetch + cache.age
    BY DEF Inv, Cached
  <2>2. cache.models \in Fetched /\ cache.age \in Nat
    BY Numbers DEF Inv, TypeOK, Fresh
  <2> QED
    BY <1>3, <2>1, <2>2, Numbers
<1>8. Staleness'
  <2> SUFFICES ASSUME NEW w \in Worker, work[w].pc = "mapped", work[w].models # <<>>
               PROVE  gone'[work[w].models] < TTL + MaxFetch
    BY <1>4 DEF Staleness
  <2>1. gone[work[w].models] < TTL + MaxFetch
    BY DEF Inv, Staleness
  <2>2. work[w].models \in Fetched
    BY DEF Inv, TypeOK, Job
  <2> QED
    BY <1>3, <2>1, <2>2, Numbers
<1> QED
  BY <1>1, <1>2, <1>4, <1>5, <1>6, <1>7, <1>8 DEF Inv

LEMMA RestartStep ==
  ASSUME Inv, Restart
  PROVE  Inv'
<1>1. work' \in [Worker -> Job] /\ \A w \in Worker : work'[w] = Idle
  BY IdleIsJob DEF Restart
<1>2. TypeOK'
  BY <1>1, Numbers DEF Inv, TypeOK, Restart, Idle, At
<1> QED
  BY <1>1, <1>2 DEF Inv, Restart, Answered, Cached, Fresh, Staleness, Idle, At

LEMMA TickStep ==
  ASSUME Inv, Tick
  PROVE  Inv'
<1>1. Enabled(list) \in Fetched
  BY FetchedLists DEF Inv, TypeOK
<1>2. /\ gone' \in [Fetched -> 0 .. LongGone]
      /\ gone'[Enabled(list)] = 0
      /\ \A k \in Fetched : gone'[k] \in Nat /\ gone'[k] <= gone[k] + 1
  BY <1>1, Numbers DEF Inv, TypeOK, Tick
<1>3. /\ cache' \in [models: Fetched \cup {<<>>}, age: 0 .. TTL]
      /\ cache'.models = cache.models
      /\ cache'.age = IF cache.age < TTL THEN cache.age + 1 ELSE TTL
  <2> DEFINE age == IF cache.age < TTL THEN cache.age + 1 ELSE TTL
  <2>1. cache \in [models: Fetched \cup {<<>>}, age: 0 .. TTL]
    BY DEF Inv, TypeOK
  <2>2. age \in 0 .. TTL
    BY <2>1, Numbers
  <2>3. cache' = [cache EXCEPT !.age = age]
    BY DEF Tick
  <2> HIDE DEF age
  <2>4. /\ cache' \in [models: Fetched \cup {<<>>}, age: 0 .. TTL]
        /\ cache'.models = cache.models /\ cache'.age = age
    BY <2>1, <2>2, <2>3
  <2> QED
    BY <2>4 DEF age
<1>4. \A w \in Worker :
        /\ work'[w] = IF work[w].pc \in {"idle", "over"} THEN Idle
                      ELSE [work[w] EXCEPT !.wait = @ + 1]
        /\ work[w] \in Job
        /\ work[w].pc \in {"idle", "over", "fetching", "answered"}
        /\ work[w].pc \in {"fetching", "answered"} => work[w].wait < MaxFetch
  BY DEF Inv, TypeOK, Tick
<1>5. \A w \in Worker :
        /\ work'[w] \in Job
        /\ work'[w].pc \in {"idle", "fetching", "answered"}
        /\ work'[w].pc # "answered" => work'[w].models = <<>>
        /\ work'[w].pc = "answered" => /\ work[w].pc = "answered"
                                       /\ work'[w].models = work[w].models
                                       /\ work'[w].wait = work[w].wait + 1
  <2> SUFFICES ASSUME NEW w \in Worker
               PROVE  /\ work'[w] \in Job
                      /\ work'[w].pc \in {"idle", "fetching", "answered"}
                      /\ work'[w].pc # "answered" => work'[w].models = <<>>
                      /\ work'[w].pc = "answered" => /\ work[w].pc = "answered"
                                                     /\ work'[w].models = work[w].models
                                                     /\ work'[w].wait = work[w].wait + 1
    OBVIOUS
  <2>1. CASE work[w].pc \in {"idle", "over"}
    <3>1. work'[w] = Idle
      BY <1>4, <2>1
    <3>2. Idle.pc = "idle" /\ Idle.models = <<>>
      BY DEF Idle, At
    <3> QED
      BY <3>1, <3>2, IdleIsJob
  <2>2. CASE work[w].pc \in {"fetching", "answered"}
    <3>1. work'[w] = [work[w] EXCEPT !.wait = work[w].wait + 1]
      BY <1>4, <2>2
    <3>2. work[w].wait + 1 \in 0 .. MaxFetch
      <4>1. work[w].wait \in 0 .. MaxFetch /\ work[w].wait < MaxFetch
        BY <1>4, <2>2 DEF Job
      <4> QED
        BY <4>1, Numbers
    <3>3. work[w].pc = "fetching" => work[w].models = <<>>
      BY DEF Inv, TypeOK
    <3>4. work'[w] \in Job
      BY <1>4, <3>1, <3>2 DEF Job
    <3>5. /\ work'[w].pc = work[w].pc /\ work'[w].models = work[w].models
          /\ work'[w].wait = work[w].wait + 1
      BY <1>4, <3>1 DEF Job
    <3> QED
      BY <2>2, <3>3, <3>4, <3>5
  <2> QED
    BY <1>4, <2>1, <2>2
<1>6. work' \in [Worker -> Job]
  BY <1>5 DEF Tick
<1>7. TypeOK'
  BY <1>2, <1>3, <1>5, <1>6 DEF Inv, TypeOK, Tick
<1>8. Answered'
  <2> SUFFICES ASSUME NEW w \in Worker, work'[w].pc = "answered"
               PROVE  work'[w].models # <<>> /\ gone'[work'[w].models] <= work'[w].wait
    BY DEF Answered
  <2>1. work[w].models # <<>> /\ gone[work[w].models] <= work[w].wait
    BY <1>5 DEF Inv, Answered
  <2>2. work[w].models \in Fetched /\ work[w].wait \in Nat /\ gone[work[w].models] \in Nat
    BY <1>4, <2>1, Numbers DEF Job, Inv, TypeOK
  <2> QED
    BY <1>2, <1>5, <2>1, <2>2
<1>9. Cached'
  <2> SUFFICES ASSUME cache.models # <<>>, cache'.age < TTL
               PROVE  gone'[cache.models] <= MaxFetch + cache'.age
    BY <1>3 DEF Cached, Fresh
  <2>1. cache.age \in Nat /\ cache.age < TTL /\ cache'.age = cache.age + 1
    BY <1>3, Numbers DEF Inv, TypeOK
  <2>2. gone[cache.models] <= MaxFetch + cache.age
    BY <2>1 DEF Inv, Cached, Fresh
  <2>3. cache.models \in Fetched /\ gone[cache.models] \in Nat
    BY Numbers DEF Inv, TypeOK
  <2> QED
    BY <1>2, <2>1, <2>2, <2>3, Numbers
<1>10. Staleness'
  BY <1>5 DEF Staleness
<1> QED
  BY <1>2, <1>7, <1>8, <1>9, <1>10 DEF Inv, Tick

LEMMA InvStep == Inv /\ [Next]_vars => Inv'
<1> SUFFICES ASSUME Inv, [Next]_vars
             PROVE  Inv'
  OBVIOUS
<1>1. CASE Toggle \/ UNCHANGED vars
  BY <1>1 DEF Toggle, vars, Inv, TypeOK, Answered, Cached, Fresh, Staleness
<1> QED
  BY <1>1, AskStep, ServeStep, ChangeStep, RestartStep, TickStep DEF Next

THEOREM CatalogueInvariant == Spec => []Inv
BY InvInit, InvStep, PTL DEF Spec

(* The variables of the model cache keep their types, for any lists and     *)
(* numbers of requests (effectiveModelMap, handler.go:232-262).             *)
THEOREM CatalogueTypes == Spec => []TypeOK
<1>1. Inv => TypeOK
  BY DEF Inv
<1> QED
  BY <1>1, CatalogueInvariant, PTL

(* No request works with a list that the upstream gave up longer ago than   *)
(* TTL and one fetch, however many requests fetch at a time and in whatever *)
(* order they store their answers (effectiveModelMap, handler.go:232-262).  *)
THEOREM NoStaleList == Spec => []Staleness
<1>1. Inv => Staleness
  BY DEF Inv
<1> QED
  BY <1>1, CatalogueInvariant, PTL

-----------------------------------------------------------------------------
(* What NormalizeModelName has written before it cuts a last dash. *)
Written(name) == FoldLeft(Write, <<>>, name)

(* The folds of the module, each as the sequence of what it has after every *)
(* element, in any set that its operation does not lead out of.             *)
Writes(A, s, n) == DOMAIN s = 1 .. n /\ \A a \in A, i \in 1 .. n : Write(a, s[i]) \in A

LEMMA WriteFold ==
  ASSUME NEW A, <<>> \in A, NEW n \in Nat, NEW s, Writes(A, s, n)
  PROVE  \E F \in [0 .. n -> A] :
           /\ F[0] = <<>> /\ F[n] = Written(s)
           /\ \A i \in 1 .. n : F[i] = Write(F[i - 1], s[i])
<1> DEFINE Steps(f) == f = [S \in SUBSET DOMAIN s |->
                              IF S = {} THEN <<>> ELSE Write(f[S \ {Max(S)}], s[Max(S)])]
           g == [a \in A |-> [i \in 1 .. n |-> Write(a, s[i])]]
<1>1. Written(s) = (CHOOSE f : Steps(f))[DOMAIN s]
  BY Zenon DEF Written, FoldLeft, MapThenFoldSet
<1> USE DEF Writes
<1>2. g \in [A -> [1 .. n -> A]] /\ \A a \in A, i \in 1 .. n : g[a][i] = Write(a, s[i])
  OBVIOUS
<1> HIDE DEF g
<1>3. PICK f \in [SUBSET (1 .. n) -> A] : Folds(f, n, <<>>, g)
  BY <1>2, FoldExists
<1>4. Steps(f)
  <2>1. ASSUME NEW S \in SUBSET (1 .. n), S # {}
        PROVE  f[S] = Write(f[S \ {Max(S)}], s[Max(S)])
    <3>1. f[S \ {Max(S)}] \in A /\ Max(S) \in 1 .. n
      BY <2>1, GreatestPosition
    <3> QED
      BY <1>2, <1>3, <2>1, <3>1 DEF Folds
  <2>2. f[{}] = <<>> /\ f = [S \in SUBSET (1 .. n) |-> f[S]]
    BY <1>3 DEF Folds
  <2> QED
    BY <2>1, <2>2
<1>5. PICK e : Steps(e) /\ Written(s) = e[1 .. n]
  <2> HIDE DEF Steps
  <2> QED
    BY <1>1, <1>4
<1>6. Goes(e, n, <<>>, A, g)
  <2> SUFFICES ASSUME NEW k \in 1 .. n, e[1 .. k - 1] \in A
               PROVE  e[1 .. k] = g[e[1 .. k - 1]][k]
    BY <1>5 DEF Goes
  <2>1. /\ 1 .. k \in SUBSET (1 .. n) /\ 1 .. k # {}
        /\ Max(1 .. k) = k /\ (1 .. k) \ {k} = 1 .. k - 1
    BY PrefixFacts
  <2>2. e[1 .. k] = Write(e[(1 .. k) \ {Max(1 .. k)}], s[Max(1 .. k)])
    BY <1>5, <2>1
  <2>3. e[1 .. k] = Write(e[1 .. k - 1], s[k])
    BY <2>1, <2>2
  <2> QED
    BY <1>2, <2>3
<1> HIDE DEF Steps
<1>7. PICK F \in [0 .. n -> A] : Unrolled(F, n, <<>>, e, g)
  <2>1. g \in [A -> [1 .. n -> A]]
    BY <1>2
  <2> QED
    BY <1>6, <2>1, Unroll
<1>8. \A i \in 1 .. n : F[i] = Write(F[i - 1], s[i])
  <2>1. \A i \in 1 .. n : F[i - 1] \in A
    OBVIOUS
  <2> QED
    BY <1>2, <1>7, <2>1 DEF Unrolled
<1> QED
  BY <1>5, <1>7, <1>8 DEF Unrolled

Keeps(A, s, n) == DOMAIN s = 1 .. n /\ \A a \in A, i \in 1 .. n : Keep(a, s[i]) \in A

LEMMA KeepFold ==
  ASSUME NEW A, <<>> \in A, NEW n \in Nat, NEW s, Keeps(A, s, n)
  PROVE  \E F \in [0 .. n -> A] :
           /\ F[0] = <<>> /\ F[n] = Enabled(s)
           /\ \A i \in 1 .. n : F[i] = Keep(F[i - 1], s[i])
<1> DEFINE Steps(f) == f = [S \in SUBSET DOMAIN s |->
                              IF S = {} THEN <<>> ELSE Keep(f[S \ {Max(S)}], s[Max(S)])]
           g == [a \in A |-> [i \in 1 .. n |-> Keep(a, s[i])]]
<1>1. Enabled(s) = (CHOOSE f : Steps(f))[DOMAIN s]
  BY Zenon DEF Enabled, FoldLeft, MapThenFoldSet
<1> USE DEF Keeps
<1>2. g \in [A -> [1 .. n -> A]] /\ \A a \in A, i \in 1 .. n : g[a][i] = Keep(a, s[i])
  OBVIOUS
<1> HIDE DEF g
<1>3. PICK f \in [SUBSET (1 .. n) -> A] : Folds(f, n, <<>>, g)
  BY <1>2, FoldExists
<1>4. Steps(f)
  <2>1. ASSUME NEW S \in SUBSET (1 .. n), S # {}
        PROVE  f[S] = Keep(f[S \ {Max(S)}], s[Max(S)])
    <3>1. f[S \ {Max(S)}] \in A /\ Max(S) \in 1 .. n
      BY <2>1, GreatestPosition
    <3> QED
      BY <1>2, <1>3, <2>1, <3>1 DEF Folds
  <2>2. f[{}] = <<>> /\ f = [S \in SUBSET (1 .. n) |-> f[S]]
    BY <1>3 DEF Folds
  <2> QED
    BY <2>1, <2>2
<1>5. PICK e : Steps(e) /\ Enabled(s) = e[1 .. n]
  <2> HIDE DEF Steps
  <2> QED
    BY <1>1, <1>4
<1>6. Goes(e, n, <<>>, A, g)
  <2> SUFFICES ASSUME NEW k \in 1 .. n, e[1 .. k - 1] \in A
               PROVE  e[1 .. k] = g[e[1 .. k - 1]][k]
    BY <1>5 DEF Goes
  <2>1. /\ 1 .. k \in SUBSET (1 .. n) /\ 1 .. k # {}
        /\ Max(1 .. k) = k /\ (1 .. k) \ {k} = 1 .. k - 1
    BY PrefixFacts
  <2>2. e[1 .. k] = Keep(e[(1 .. k) \ {Max(1 .. k)}], s[Max(1 .. k)])
    BY <1>5, <2>1
  <2>3. e[1 .. k] = Keep(e[1 .. k - 1], s[k])
    BY <2>1, <2>2
  <2> QED
    BY <1>2, <2>3
<1> HIDE DEF Steps
<1>7. PICK F \in [0 .. n -> A] : Unrolled(F, n, <<>>, e, g)
  <2>1. g \in [A -> [1 .. n -> A]]
    BY <1>2
  <2> QED
    BY <1>6, <2>1, Unroll
<1>8. \A i \in 1 .. n : F[i] = Keep(F[i - 1], s[i])
  <2>1. \A i \in 1 .. n : F[i - 1] \in A
    OBVIOUS
  <2> QED
    BY <1>2, <1>7, <2>1 DEF Unrolled
<1> QED
  BY <1>5, <1>7, <1>8 DEF Unrolled

Enters(A, s, n) == DOMAIN s = 1 .. n /\ \A a \in A, i \in 1 .. n : Enter(a, s[i]) \in A

LEMMA EnterFold ==
  ASSUME NEW A, <<>> \in A, NEW n \in Nat, NEW s, Enters(A, s, n)
  PROVE  \E F \in [0 .. n -> A] :
           /\ F[0] = <<>> /\ F[n] = Resolve(s)
           /\ \A i \in 1 .. n : F[i] = Enter(F[i - 1], s[i])
<1> DEFINE Steps(f) == f = [S \in SUBSET DOMAIN s |->
                              IF S = {} THEN <<>> ELSE Enter(f[S \ {Max(S)}], s[Max(S)])]
           g == [a \in A |-> [i \in 1 .. n |-> Enter(a, s[i])]]
<1>1. Resolve(s) = (CHOOSE f : Steps(f))[DOMAIN s]
  BY Zenon DEF Resolve, FoldLeft, MapThenFoldSet
<1> USE DEF Enters
<1>2. g \in [A -> [1 .. n -> A]] /\ \A a \in A, i \in 1 .. n : g[a][i] = Enter(a, s[i])
  OBVIOUS
<1> HIDE DEF g
<1>3. PICK f \in [SUBSET (1 .. n) -> A] : Folds(f, n, <<>>, g)
  BY <1>2, FoldExists
<1>4. Steps(f)
  <2>1. ASSUME NEW S \in SUBSET (1 .. n), S # {}
        PROVE  f[S] = Enter(f[S \ {Max(S)}], s[Max(S)])
    <3>1. f[S \ {Max(S)}] \in A /\ Max(S) \in 1 .. n
      BY <2>1, GreatestPosition
    <3> QED
      BY <1>2, <1>3, <2>1, <3>1 DEF Folds
  <2>2. f[{}] = <<>> /\ f = [S \in SUBSET (1 .. n) |-> f[S]]
    BY <1>3 DEF Folds
  <2> QED
    BY <2>1, <2>2
<1>5. PICK e : Steps(e) /\ Resolve(s) = e[1 .. n]
  <2> HIDE DEF Steps
  <2> QED
    BY <1>1, <1>4
<1>6. Goes(e, n, <<>>, A, g)
  <2> SUFFICES ASSUME NEW k \in 1 .. n, e[1 .. k - 1] \in A
               PROVE  e[1 .. k] = g[e[1 .. k - 1]][k]
    BY <1>5 DEF Goes
  <2>1. /\ 1 .. k \in SUBSET (1 .. n) /\ 1 .. k # {}
        /\ Max(1 .. k) = k /\ (1 .. k) \ {k} = 1 .. k - 1
    BY PrefixFacts
  <2>2. e[1 .. k] = Enter(e[(1 .. k) \ {Max(1 .. k)}], s[Max(1 .. k)])
    BY <1>5, <2>1
  <2>3. e[1 .. k] = Enter(e[1 .. k - 1], s[k])
    BY <2>1, <2>2
  <2> QED
    BY <1>2, <2>3
<1> HIDE DEF Steps
<1>7. PICK F \in [0 .. n -> A] : Unrolled(F, n, <<>>, e, g)
  <2>1. g \in [A -> [1 .. n -> A]]
    BY <1>2
  <2> QED
    BY <1>6, <2>1, Unroll
<1>8. \A i \in 1 .. n : F[i] = Enter(F[i - 1], s[i])
  <2>1. \A i \in 1 .. n : F[i - 1] \in A
    OBVIOUS
  <2> QED
    BY <1>2, <1>7, <2>1 DEF Unrolled
<1> QED
  BY <1>5, <1>7, <1>8 DEF Unrolled

(* What is kept of a list is a sequence of its models. *)
LEMMA EnabledIsKept ==
  ASSUME NEW l \in Lists
  PROVE  Enabled(l) \in Seq(Range(l))
<1> DEFINE A == Seq(Range(l))
           n == Len(l)
<1>1. l \in A
  BY SequencesAssumption
<1>2. DOMAIN l = 1 .. n /\ n \in Nat /\ \A i \in 1 .. n : l[i] \in Range(l)
  BY <1>1, LenProperties DEF Range
<1>3. <<>> \in A
  OBVIOUS
<1>4. Keeps(A, l, n)
  BY <1>2, AppendProperties DEF Keep, Keeps
<1> HIDE DEF A, n
<1>5. PICK F \in [0 .. n -> A] : F[n] = Enabled(l)
  <2>1. n \in Nat
    BY <1>2
  <2> QED
    BY <1>3, <1>4, <2>1, KeepFold
<1>6. F[n] \in A
  BY <1>2
<1> QED
  BY <1>5, <1>6 DEF A

(* In a map that Resolve made of the first k models a name stands for the   *)
(* last of them that has it.                                                *)
Mapped(models, k, map) ==
  /\ DOMAIN map = {NameOf(models[i]) : i \in 1 .. k}
  /\ \A m \in DOMAIN map : \E i \in 1 .. k :
       /\ NameOf(models[i]) = m /\ map[m] = models[i].key
       /\ \A j \in i + 1 .. k : NameOf(models[j]) # m

LEMMA EnterMaps ==
  ASSUME NEW S, NEW models \in Seq(S), NEW k \in 0 .. Len(models), k # Len(models),
         NEW map, Mapped(models, k, map)
  PROVE  Mapped(models, k + 1, Enter(map, models[k + 1]))
<1> DEFINE last == NameOf(models[k + 1])
           new == Enter(map, models[k + 1])
<1>1. k \in Nat /\ k + 1 \in 1 .. k + 1 /\ \A i \in 1 .. k + 1 : i \in 1 .. k \/ i = k + 1
  BY LenProperties
<1>2. /\ DOMAIN new = DOMAIN map \cup {last}
      /\ \A m \in DOMAIN new : new[m] = IF m = last THEN models[k + 1].key ELSE map[m]
  BY DEF Enter
<1>3. DOMAIN new = {NameOf(models[i]) : i \in 1 .. k + 1}
  <2>1. \A i \in 1 .. k : i \in 1 .. k + 1
    BY <1>1
  <2> QED
    BY <1>1, <1>2, <2>1 DEF Mapped
<1>4. ASSUME NEW m \in DOMAIN new
      PROVE  \E i \in 1 .. k + 1 :
               /\ NameOf(models[i]) = m /\ new[m] = models[i].key
               /\ \A j \in i + 1 .. k + 1 : NameOf(models[j]) # m
  <2>1. CASE m = last
    <3>1. \A j \in (k + 1) + 1 .. k + 1 : FALSE
      BY <1>1
    <3> QED
      BY <1>1, <1>2, <2>1, <3>1
  <2>2. CASE m # last
    <3>1. m \in DOMAIN map /\ new[m] = map[m]
      BY <1>2, <2>2
    <3>2. PICK i \in 1 .. k :
            /\ NameOf(models[i]) = m /\ map[m] = models[i].key
            /\ \A j \in i + 1 .. k : NameOf(models[j]) # m
      BY <3>1 DEF Mapped
    <3>3. i \in 1 .. k + 1 /\ \A j \in i + 1 .. k + 1 : j \in i + 1 .. k \/ j = k + 1
      BY <1>1
    <3>4. \A j \in i + 1 .. k + 1 : NameOf(models[j]) # m
      BY <2>2, <3>2, <3>3
    <3> QED
      BY <3>1, <3>2, <3>3, <3>4
  <2> QED
    BY <2>1, <2>2
<1> HIDE DEF new, last
<1> QED
  BY <1>3, <1>4 DEF Mapped, new

LEMMA ResolveMaps ==
  ASSUME NEW S, NEW models \in Seq(S)
  PROVE  Mapped(models, Len(models), Resolve(models))
<1> DEFINE n == Len(models)
           N == {NameOf(models[i]) : i \in 1 .. n}
           V == {models[i].key : i \in 1 .. n}
           A == UNION {[D -> V] : D \in SUBSET N}
<1>1. n \in Nat /\ DOMAIN models = 1 .. n
  BY LenProperties
<1>2. <<>> \in A
  <2>1. <<>> \in [{} -> V]
    OBVIOUS
  <2> QED
    BY <2>1
<1>3. ASSUME NEW a \in A, NEW i \in 1 .. n
      PROVE  Enter(a, models[i]) \in A
  <2>1. PICK D \in SUBSET N : a \in [D -> V]
    BY <1>3
  <2>2. D \cup {NameOf(models[i])} \in SUBSET N
    OBVIOUS
  <2>3. models[i].key \in V
    OBVIOUS
  <2> HIDE DEF V, N
  <2>4. Enter(a, models[i]) \in [D \cup {NameOf(models[i])} -> V]
    BY <2>1, <2>3 DEF Enter
  <2> QED
    BY <2>2, <2>4
<1> HIDE DEF A
<1>9. Enters(A, models, n)
  BY <1>1, <1>3 DEF Enters
<1>4. PICK F \in [0 .. n -> A] :
        /\ F[0] = <<>> /\ F[n] = Resolve(models)
        /\ \A i \in 1 .. n : F[i] = Enter(F[i - 1], models[i])
  <2>1. n \in Nat
    BY <1>1
  <2> HIDE DEF n
  <2> QED
    BY <1>2, <1>9, <2>1, EnterFold
<1> DEFINE Good == {k \in 0 .. n : Mapped(models, k, F[k])}
<1>5. 0 \in Good
  <2>1. 1 .. 0 = {} /\ DOMAIN <<>> = {}
    OBVIOUS
  <2> QED
    BY <1>1, <1>4, <2>1 DEF Mapped
<1>6. ASSUME NEW k \in 0 .. n, k \in Good, k # n
      PROVE  k + 1 \in Good
  <2>1. k + 1 \in 1 .. n /\ k + 1 \in 0 .. n /\ (k + 1) - 1 = k
    <3> HIDE DEF Good, N, V, n
    <3> QED
      BY <1>1, <1>6
  <2>2. F[k + 1] = Enter(F[k], models[k + 1])
    BY <1>4, <2>1
  <2> QED
    BY <1>6, <2>1, <2>2, EnterMaps
<1>7. \A k \in 0 .. n : k \in Good
  <2> HIDE DEF Good, n
  <2> QED
    BY <1>1, <1>5, <1>6, Climb
<1>8. Mapped(models, n, F[n])
  BY <1>1, <1>7
<1> QED
  BY <1>4, <1>8

(* The details are of the last model of a name, as the map is. *)
LEMMA ShownIsMapped ==
  ASSUME NEW S, NEW models \in Seq(S), NEW own, NEW n
  PROVE  Shown(own, models, n) = IF models # <<>> /\ n \in DOMAIN MapOf(models)
                                 THEN MapOf(models)[n] ELSE MapOf(own)[n]
<1>0. Mapped(models, Len(models), Resolve(models)) /\ DOMAIN models = 1 .. Len(models)
  BY ResolveMaps, LenProperties
<1>1. CASE n \notin Names(models)
  <2>1. n \notin DOMAIN Resolve(models)
    BY <1>0, <1>1 DEF Mapped, Names
  <2> QED
    BY <1>1, <2>1 DEF Shown, MapOf
<1>2. CASE n \in Names(models)
  <2>1. /\ models # <<>> /\ MapOf(models) = Resolve(models)
        /\ n \in DOMAIN Resolve(models)
    BY <1>0, <1>2 DEF Names, MapOf, Mapped
  <2>2. PICK i \in 1 .. Len(models) :
          /\ NameOf(models[i]) = n /\ MapOf(models)[n] = models[i].key
          /\ \A j \in i + 1 .. Len(models) : NameOf(models[j]) # n
    BY <1>0, <2>1 DEF Mapped
  <2>3. DOMAIN models = 1 .. Len(models) /\ Len(models) \in Nat
    BY LenProperties
  <2> DEFINE Is(k) == NameOf(models[k]) = n /\ \A j \in k + 1 .. Len(models) : NameOf(models[j]) # n
  <2>4. ASSUME NEW k \in DOMAIN models, Is(k)
        PROVE  k = i
    <3>1. ~ (k < i)
      <4>1. k < i => i \in k + 1 .. Len(models)
        BY <2>3
      <4> QED
        BY <2>2, <2>4, <4>1
    <3>2. ~ (i < k)
      <4>1. i < k => k \in i + 1 .. Len(models)
        BY <2>3
      <4> QED
        BY <2>2, <2>4, <4>1
    <3> QED
      BY <2>3, <3>1, <3>2
  <2>5. Is(i) /\ i \in DOMAIN models
    BY <2>2, <2>3
  <2>6. Meant(models, n) = models[CHOOSE k \in DOMAIN models : Is(k)]
    BY DEF Meant
  <2> HIDE DEF Is
  <2>7. (CHOOSE k \in DOMAIN models : Is(k)) = i
    BY <2>4, <2>5
  <2> QED
    BY <1>2, <2>1, <2>2, <2>6, <2>7 DEF Shown
<1> QED
  BY <1>1, <1>2

(* What the listing shows is what a chat gets. *)
LEMMA InvListingAgrees == Inv => ListingAgrees
<1> SUFFICES ASSUME Inv, NEW w \in Worker
             PROVE  \A n : Shown(work[w].models, work[w].meta, n) =
                             IF work[w].meta # <<>> /\ n \in DOMAIN MapOf(work[w].meta)
                             THEN MapOf(work[w].meta)[n] ELSE MapOf(work[w].models)[n]
  BY DEF ListingAgrees
<1>1. work[w].meta \in Fetched \cup {<<>>}
  BY DEF Inv, TypeOK, Job
<1>2. \E S : work[w].meta \in Seq(S)
  <2>1. CASE work[w].meta = <<>>
    <3>1. <<>> \in Seq({})
      OBVIOUS
    <3> QED
      BY <2>1, <3>1
  <2>2. CASE work[w].meta \in Fetched
    BY <2>2, EnabledIsKept DEF Fetched
  <2> QED
    BY <1>1, <2>1, <2>2
<1> QED
  BY <1>2, ShownIsMapped

LEMMA Letters ==
  /\ \A c : Lower(Lower(c)) = Lower(c) /\ (c # "-" => Lower(c) # "-")
  /\ Lower("-") = "-"
BY DEF Lower

(* What is made of a name is in lower case, and not empty if the name has a *)
(* character that is no separator.                                          *)
LEMMA NamesAreLower ==
  ASSUME NEW S, NEW name \in Seq(S)
  PROVE  /\ ToLower(NormalizeModelName(name)) = NormalizeModelName(name)
         /\ NormalizeModelName(name) = <<>>
              => \A p \in 1 .. Len(name) : name[p] \in Separator
<1> DEFINE n == Len(name)
           C == {Lower(c) : c \in S} \cup {"-"}
           A == {b \in Seq(C) : b # <<>> => b[1] # "-"}
<1>1. n \in Nat /\ DOMAIN name = 1 .. n /\ \A i \in 1 .. n : name[i] \in S
  BY LenProperties, ElementOfSeq
<1>2. <<>> \in A
  OBVIOUS
<1>3. ASSUME NEW b \in A, NEW c \in S
      PROVE  Write(b, c) \in A /\ (c \notin Separator \/ b # <<>> => Write(b, c) # <<>>)
  <2>1. b \in Seq(C) /\ (b # <<>> => b[1] # "-")
    OBVIOUS
  <2>2. ASSUME NEW d \in C, b # <<>> \/ d # "-"
        PROVE  Append(b, d) \in A /\ Append(b, d) # <<>>
    <3> HIDE DEF C
    <3>1. /\ Append(b, d) \in Seq(C) /\ Len(Append(b, d)) = Len(b) + 1 /\ Len(b) \in Nat
          /\ Append(b, d)[Len(b) + 1] = d
          /\ \A i \in 1 .. Len(b) : Append(b, d)[i] = b[i]
      BY <2>1, <2>2, AppendProperties, LenProperties
    <3>2. b = <<>> <=> Len(b) = 0
      BY <2>1, EmptySeq
    <3>3. Append(b, d)[1] # "-"
      <4>1. CASE b = <<>>
        BY <2>2, <3>1, <3>2, <4>1
      <4>2. CASE b # <<>>
        <5>1. 1 \in 1 .. Len(b)
          BY <3>1, <3>2, <4>2
        <5> QED
          BY <2>1, <3>1, <4>2, <5>1
      <4> QED
        BY <4>1, <4>2
    <3>4. Append(b, d) # <<>>
      BY <3>1, EmptySeq
    <3> QED
      BY <3>1, <3>3, <3>4
  <2>3. CASE c \notin Separator
    <3>1. Lower(c) \in C /\ Lower(c) # "-"
      BY <2>3, Letters DEF Separator
    <3>2. Write(b, c) = Append(b, Lower(c))
      BY <2>3 DEF Write, Normalized
    <3> HIDE DEF A, C
    <3> QED
      BY <2>2, <3>1, <3>2
  <2>4. CASE c \in Separator
    <3>1. Write(b, c) = b \/ (b # <<>> /\ Write(b, c) = Append(b, "-"))
      BY <2>4 DEF Write
    <3>2. "-" \in C
      OBVIOUS
    <3> HIDE DEF C
    <3>3. CASE Write(b, c) = b
      BY <2>4, <3>3
    <3>4. CASE b # <<>> /\ Write(b, c) = Append(b, "-")
      <4> HIDE DEF A
      <4> QED
        BY <2>2, <3>2, <3>4
    <3> QED
      BY <3>1, <3>3, <3>4
  <2> QED
    BY <2>3, <2>4
<1>4. Writes(A, name, n)
  <2> HIDE DEF A
  <2> QED
    BY <1>1, <1>3 DEF Writes
<1> HIDE DEF A
<1>5. PICK F \in [0 .. n -> A] :
        /\ F[0] = <<>> /\ F[n] = Written(name)
        /\ \A i \in 1 .. n : F[i] = Write(F[i - 1], name[i])
  <2>1. n \in Nat
    BY <1>1
  <2> HIDE DEF n
  <2> QED
    BY <1>2, <1>4, <2>1, WriteFold
<1> DEFINE b == Written(name)
<1>6. b \in A
  BY <1>1, <1>5
<1>7. ASSUME NEW p \in 1 .. n, name[p] \notin Separator
      PROVE  b # <<>>
  <2> DEFINE Full == {k \in 0 .. n : k >= p => F[k] # <<>>}
  <2>1. ASSUME NEW k \in 0 .. n, k \in Full, k # n
        PROVE  k + 1 \in Full
    <3>1. k + 1 \in 1 .. n /\ k + 1 \in 0 .. n /\ (k + 1) - 1 = k
      <4> HIDE DEF Full, n
      <4> QED
        BY <1>1, <2>1
    <3>2. F[k + 1] = Write(F[k], name[k + 1]) /\ name[k + 1] \in S /\ F[k] \in A
      BY <1>1, <1>5, <3>1
    <3>3. k + 1 >= p => k >= p \/ k + 1 = p
      BY <3>1
    <3>4. k + 1 >= p => F[k] # <<>> \/ name[k + 1] \notin Separator
      BY <1>7, <2>1, <3>3
    <3> QED
      BY <1>3, <3>1, <3>2, <3>4
  <2>2. 0 \in Full
    BY <1>1
  <2>3. \A k \in 0 .. n : k \in Full
    <3> HIDE DEF Full, n
    <3> QED
      BY <1>1, <2>1, <2>2, Climb
  <2>4. n \in 0 .. n /\ n >= p
    BY <1>1
  <2> QED
    BY <1>5, <2>3, <2>4
<1>9. b # <<>> => /\ b \in Seq(C) /\ b[1] # "-" /\ Len(b) \in Nat \ {0}
                 /\ Last(b) = b[Len(b)]
  BY <1>6, EmptySeq, LenProperties DEF A, Last
<1>10. NormalizeModelName(name) = IF b # <<>> /\ Last(b) = "-" THEN Front(b) ELSE b
  BY Zenon DEF NormalizeModelName, Written
<1> HIDE DEF b
<1>11. ASSUME NEW f \in Seq(C)
       PROVE  ToLower(f) = f
  <2>1. DOMAIN f = 1 .. Len(f) /\ \A i \in DOMAIN f : f[i] \in C
    BY LenProperties, ElementOfSeq
  <2>2. \A c \in C : Lower(c) = c
    BY Letters
  <2>3. \A i \in DOMAIN f : Lower(f[i]) = f[i]
    BY <2>1, <2>2
  <2>4. f = [i \in DOMAIN f |-> f[i]]
    OBVIOUS
  <2> QED
    BY <2>3, <2>4 DEF ToLower
<1>12. CASE b # <<>> /\ Last(b) = "-"
  <2>1. Len(b) # 1
    BY <1>9, <1>12
  <2>2. Len(b) - 1 \in Nat \ {0} /\ Len(b) - 1 \in 1 .. Len(b)
    <3>1. \A k \in Nat \ {0} : k # 1 => k - 1 \in Nat \ {0} /\ k - 1 \in 1 .. k
      OBVIOUS
    <3> QED
      BY <1>9, <2>1, <3>1
  <2>3. Front(b) \in Seq(C) /\ Len(Front(b)) = Len(b) - 1
    <3> HIDE DEF C
    <3>1. \A i \in 1 .. Len(b) - 1 : b[i] \in C
      BY <1>9, <2>2, ElementOfSeq
    <3>2. /\ SubSeq(b, 1, Len(b) - 1) \in Seq(C)
          /\ Len(SubSeq(b, 1, Len(b) - 1)) = (Len(b) - 1) - 1 + 1
      BY <2>2, <3>1, SubSeqProperties
    <3> QED
      BY <2>2, <3>2 DEF Front
  <2>4. Front(b) # <<>>
    BY <2>2, <2>3, EmptySeq
  <2> QED
    BY <1>10, <1>11, <1>12, <2>3, <2>4
<1>13. CASE b # <<>> /\ Last(b) # "-"
  BY <1>9, <1>10, <1>11, <1>13
<1>14. CASE b = <<>>
  <2>1. NormalizeModelName(name) = <<>>
    BY <1>10, <1>14
  <2>2. ToLower(<<>>) = <<>>
    BY DEF ToLower
  <2> QED
    BY <1>7, <1>14, <2>1, <2>2
<1> QED
  BY <1>12, <1>13, <1>14

(* Whoever asks for a name of the list finds it. *)
LEMMA InvListedIsAskable == Inv => ListedIsAskable
<1> SUFFICES ASSUME Inv, NEW w \in Worker, NEW n \in ShownNames(work[w].models)
             PROVE  LET models == work[w].models
                        map == MapOf(models)
                    IN  /\ n \in DOMAIN map /\ ToLower(n) \in DOMAIN map
                        /\ map[ToLower(n)] = map[n]
                        /\ n = <<>> => \E m \in Displayed(models) :
                                         Range(m.display) \subseteq Separator
  BY DEF ListedIsAskable
<1> DEFINE models == work[w].models
<1>1. models \in Fetched \cup {<<>>}
  BY DEF Inv, TypeOK, Job
<1>2. CASE models = <<>>
  BY <1>2, NameAssumption DEF MapOf, ShownNames
<1>3. CASE models # <<>>
  <2>1. PICK l \in Lists : models = Enabled(l)
    BY <1>1, <1>3 DEF Fetched
  <2>2. models \in Seq(Range(l))
    BY <2>1, EnabledIsKept
  <2>3. DOMAIN models = 1 .. Len(models) /\ \A i \in DOMAIN models : models[i] \in Range(l)
    BY <2>2, LenProperties, ElementOfSeq
  <2>4. MapOf(models) = Resolve(models)
    BY <1>3 DEF MapOf
  <2>5. Mapped(models, Len(models), Resolve(models))
    BY <2>2, ResolveMaps
  <2>6. PICK m \in Displayed(models) : n = NameOf(m)
    BY <1>3 DEF ShownNames
  <2>7. PICK i \in 1 .. Len(models) : m = models[i]
    BY <2>3 DEF Displayed, Range
  <2>8. n \in DOMAIN Resolve(models)
    BY <2>5, <2>6, <2>7 DEF Mapped
  <2>9. m.display # <<>> /\ n = NormalizeModelName(m.display) /\ m \in Range(l)
    BY <2>3, <2>6, <2>7 DEF Displayed, NameOf
  <2>10. m.display \in Seq(Range(m.display))
    BY <2>9, SequencesAssumption
  <2>11. ToLower(n) = n
    BY <2>9, <2>10, NamesAreLower
  <2>12. n = <<>> => Range(m.display) \subseteq Separator
    BY <2>9, <2>10, NamesAreLower, LenProperties DEF Range
  <2> QED
    BY <2>4, <2>6, <2>8, <2>11, <2>12
<1> QED
  BY <1>2, <1>3

(* The key /v1/models shows for a name is what a chat gets from the list    *)
(* the cache had when the details were read, or for a name it lacks from    *)
(* the map of the names, for any lists, whoever stores another list between *)
(* the two locks and however old the cached one is (dynamicModelsMeta and   *)
(* models, handler.go:173-230; ResolveModelMap, models.go:89-99).           *)
THEOREM ListingIsRight == Spec => []ListingAgrees
BY CatalogueInvariant, InvListingAgrees, PTL

(* A name of the list that comes from a display name or the built-in table  *)
(* is found, with the same model, when it is asked for in lower case,       *)
(* whatever separators and capitals the display name has, and it is empty   *)
(* only if the display name has nothing else than separators                *)
(* (NormalizeModelName, models.go:106-128; chatCompletions,                 *)
(* handler.go:316-332).                                                     *)
THEOREM ListedNamesAreFound == Spec => []ListedIsAskable
BY CatalogueInvariant, InvListedIsAskable, PTL
==================================================================================
