----------------------------- MODULE SchedulerProofs -----------------------------
(***************************************************************************)
(* Whatever the configuration file and the environment say, a server that  *)
(* runs has usable settings, and its scheduler serves every hour of the    *)
(* plan that strikes while it waits, once, for any length of an hour in    *)
(* ticks, any plan and any number of exceptions, as long as late wake-ups  *)
(* and changes of the clock stay under an hour in all.  A negative hour    *)
(* takes the once away and nothing else: its timer may be set for a time   *)
(* that is past (UntilFacts, NextFireFacts).                               *)
(***************************************************************************)
EXTENDS SchedulerClock, FoldProofs

Key == Duration \cup Number \cup Hours \cup {"region"}

LEMMA DefaultIsUsable ==
  /\ DOMAIN Default = Key
  /\ \A k \in Duration \cup Number : Default[k] \in Int /\ Default[k] > 0
  /\ \A k \in Hours : Default[k] # {}
BY DEF Default, Key, Duration, Number, Hours

(* A process that goes on was started with a text it can use. *)
Chosen ==
  Running => /\ file \in File \ {Missing, Broken} /\ env \in Env
             /\ Accepted(file, env)

LEMMA ChosenInit == Init => Chosen
BY DEF Init, Chosen, Running

LEMMA ChosenStep == Chosen /\ [Next]_vars => Chosen'
<1> SUFFICES ASSUME Chosen, [Next]_vars
             PROVE  Chosen'
  OBVIOUS
<1>1. ASSUME NEW f \in File, NEW e \in Env, Start(f, e)
      PROVE  Chosen'
  <2>1. Running' => Accepted(f, e)
    BY <1>1 DEF Start, Running
  <2> QED
    BY <1>1, <2>1 DEF Start, Chosen, Accepted
<1>2. CASE Exit
  BY <1>2 DEF Exit, Chosen, Running
<1>3. CASE UNCHANGED <<file, env>> /\ (Running' => Running)
  BY <1>3 DEF Chosen
<1>4. CASE Wait
  BY <1>3, <1>4 DEF Wait, Running
<1>5. CASE Fire
  BY <1>3, <1>5 DEF Fire, Go, Running
<1>6. CASE EndPass
  BY <1>3, <1>6 DEF EndPass, Go, Running, Kind
<1>7. CASE Tick
  BY <1>3, <1>7 DEF Tick, Running
<1>8. ASSUME NEW d \in Shift, SetForward(d) \/ SetBack(d)
      PROVE  Chosen'
  BY <1>3, <1>8 DEF SetForward, SetBack, Running, process
<1>9. CASE UNCHANGED vars
  BY <1>3, <1>9 DEF vars, Running, process
<1> QED
  BY <1>1, <1>2, <1>4, <1>5, <1>6, <1>7, <1>8, <1>9 DEF Next

(* Settings that are accepted are repaired to usable ones. *)
LEMMA SettingsAreUsable ==
  ASSUME NEW f \in File \ {Missing, Broken}, NEW e \in Env, Accepted(f, e)
  PROVE  /\ \A k \in Duration \cup Number : Settings(f, e)[k] > 0
         /\ \A k \in Hours : Settings(f, e)[k] # {}
<1> DEFINE c == Load(f, e)
<1>1. Says(f) /\ Says(e) /\ \A k \in Number : f[k] # Bad
  BY TextAssumption
<1>2. /\ DOMAIN c = Key
      /\ \A k \in Key : c[k] = IF Heard(e)[k] # Unset THEN Heard(e)[k]
                               ELSE IF f[k] # Unset THEN f[k] ELSE Default[k]
  BY DefaultIsUsable DEF Load, Overlay
<1>3. \A k \in Key : Heard(e)[k] = IF k \in Number /\ e[k] = Bad THEN Unset ELSE e[k]
  BY <1>1 DEF Heard, Says, Key
<1>4. Duration \cup Number \subseteq Key /\ Hours \subseteq Key
  BY DEF Key
<1>5. \A k \in Duration : c[k] # Bad
  BY DEF Accepted, Acceptable
<1> HIDE DEF c
<1>6. ASSUME NEW k \in Duration \cup Number
      PROVE  c[k] \in Int
  <2>1. e[k] \in {Bad, Unset} \/ e[k] \in Int
    BY <1>1 DEF Says
  <2>2. f[k] \in {Bad, Unset} \/ f[k] \in Int
    BY <1>1 DEF Says
  <2>3. k \in Key /\ Default[k] \in Int
    BY <1>4, DefaultIsUsable
  <2>4. CASE k \in Duration
    <3>1. k \notin Number
      BY <2>4 DEF Duration, Number
    <3> QED
      BY <1>2, <1>3, <1>5, <2>1, <2>2, <2>3, <2>4, <3>1
  <2>5. CASE k \in Number
    BY <1>1, <1>2, <1>3, <2>1, <2>2, <2>3, <2>5
  <2> QED
    BY <2>4, <2>5
<1>7. /\ \A k \in Hours : Settings(f, e)[k] = IF c[k] = {} THEN Default[k] ELSE c[k]
      /\ \A k \in Duration \cup Number : Settings(f, e)[k] = OrDefault(c, k)
  BY <1>2 DEF Settings, c, Key, Duration, Number, Hours
<1>8. \A k \in Duration \cup Number : OrDefault(c, k) > 0
  BY <1>6, DefaultIsUsable DEF OrDefault
<1> QED
  BY <1>7, <1>8, DefaultIsUsable

LEMMA ChosenUsable == Chosen => Usable
BY SettingsAreUsable DEF Chosen, Usable, Plan

(* For every file and every environment, a server that goes on after        *)
(* Load() has positive cooldowns, threshold and timeout, and hours to fire  *)
(* at (config.go:77-142, handler.go:52-69, scheduler.go:27-35).             *)
THEOREM UsableSettings == Spec => []Usable
<1>1. Spec => []Chosen
  BY ChosenInit, ChosenStep, PTL DEF Spec
<1> QED
  BY <1>1, ChosenUsable, PTL

-----------------------------------------------------------------------------
(* Times of the day. *)

(* Ticks since the hour struck, and ticks until h strikes next. *)
Past(t) == t - HourAt(t) * Slot
Ahead(t, h) == LET d == h * Slot - t IN IF d > 0 THEN d ELSE d + DayLength

LEMMA HourFacts ==
  ASSUME NEW t \in 0 .. DayLength - 1
  PROVE  /\ HourAt(t) \in 0 .. Day - 1
         /\ Past(t) \in 0 .. Slot - 1
         /\ t = HourAt(t) * Slot + Past(t)
<1>1. t \in Nat /\ Slot \in Nat \ {0} /\ t < 24 * Slot
  BY SlotAssumption DEF DayLength, Day
<1>2. t \div Slot \in Int /\ (t \div Slot) * Slot <= t /\ t < (t \div Slot) * Slot + Slot
  BY <1>1
<1>3. t \div Slot >= 0
  BY <1>1
<1>4. t \div Slot <= 23
  BY <1>1
<1> QED
  BY <1>1, <1>2, <1>3, <1>4 DEF HourAt, Past, Day

LEMMA HourUnique ==
  ASSUME NEW t \in 0 .. DayLength - 1, NEW h \in Int, h * Slot <= t, t < h * Slot + Slot
  PROVE  h = HourAt(t)
<1>1. t \in Nat /\ Slot \in Nat \ {0}
  BY SlotAssumption DEF DayLength, Day
<1>2. /\ HourAt(t) \in Int /\ HourAt(t) * Slot <= t
      /\ t < HourAt(t) * Slot + Slot
  BY <1>1, HourFacts DEF Past
<1>3. ~ (h < HourAt(t))
  <2>1. h + 1 <= HourAt(t) => (h + 1) * Slot <= HourAt(t) * Slot
    BY <1>1, <1>2
  <2> QED
    BY <1>1, <1>2, <2>1
<1>4. ~ (HourAt(t) < h)
  <2>1. HourAt(t) + 1 <= h => (HourAt(t) + 1) * Slot <= h * Slot
    BY <1>1, <1>2
  <2> QED
    BY <1>1, <1>2, <2>1
<1> QED
  BY <1>2, <1>3, <1>4

LEMMA AheadFacts ==
  ASSUME NEW t \in 0 .. DayLength - 1, NEW h \in Nat
  PROVE  /\ Ahead(t, h) \in Nat \ {0}
         /\ Ahead(t, h) + Past(t) >= Slot
         /\ h <= Day => Ahead(t, h) <= DayLength
         /\ h = HourAt(t) => Ahead(t, h) = DayLength - Past(t)
<1> DEFINE H == HourAt(t)
<1>1. /\ t \in Nat /\ Slot \in Nat \ {0} /\ t < DayLength /\ DayLength = 24 * Slot
      /\ H \in 0 .. 23 /\ Past(t) \in 0 .. Slot - 1 /\ t = H * Slot + Past(t)
  BY SlotAssumption, HourFacts DEF DayLength, Day
<1> HIDE DEF H
<1>2. h * Slot \in Nat /\ H * Slot \in Nat /\ DayLength \in Nat
  BY <1>1
<1>3. /\ h >= H + 1 => h * Slot >= H * Slot + Slot
      /\ h <= H => h * Slot <= H * Slot
      /\ h <= Day => h * Slot <= DayLength
      /\ H * Slot <= 23 * Slot
  <2>1. h >= H + 1 => h * Slot >= (H + 1) * Slot
    BY <1>1
  <2> QED
    BY <1>1, <2>1 DEF Day
<1>4. Ahead(t, h) = IF h >= H + 1 THEN h * Slot - t ELSE h * Slot - t + DayLength
  BY <1>1, <1>2, <1>3 DEF Ahead
<1> QED
  BY <1>1, <1>2, <1>3, <1>4 DEF H

(* An hour that is no hour of the day may be past still; if it is not, it   *)
(* lies in no hour that has begun.                                          *)
LEMMA UntilFacts ==
  ASSUME NEW t \in 0 .. DayLength - 1, NEW h \in Int
  PROVE  /\ Ahead(t, h) \in Int
         /\ h >= 0 => Ahead(t, h) > 0
         /\ h <= Day => Ahead(t, h) <= DayLength
         /\ Ahead(t, h) > 0 => Ahead(t, h) + Past(t) >= Slot
<1>1. CASE h >= 0
  <2>1. h \in Nat
    BY <1>1
  <2>2. Ahead(t, h) \in Nat \ {0} /\ Ahead(t, h) + Past(t) >= Slot
        /\ (h <= Day => Ahead(t, h) <= DayLength)
    BY <2>1, AheadFacts
  <2> QED
    BY <2>2
<1>2. CASE h < 0
  <2> DEFINE H == HourAt(t)
             g == h + 24
  <2>1. /\ t \in Nat /\ Slot \in Nat \ {0} /\ DayLength = 24 * Slot
        /\ H \in 0 .. 23 /\ Past(t) \in 0 .. Slot - 1 /\ t = H * Slot + Past(t)
    BY SlotAssumption, HourFacts DEF DayLength, Day
  <2> HIDE DEF H
  <2>2. h * Slot \in Int /\ h * Slot < 0 /\ g * Slot \in Int /\ g * Slot = h * Slot + DayLength
    BY <1>2, <2>1
  <2>3. Ahead(t, h) = g * Slot - t
    BY <2>1, <2>2 DEF Ahead
  <2> HIDE DEF g
  <2>4. g \in Int /\ H * Slot \in Nat
    BY <2>1 DEF g
  <2>5. g >= H + 1 => g * Slot >= H * Slot + Slot
    <3>1. g >= H + 1 => g * Slot >= (H + 1) * Slot
      BY <2>1, <2>4
    <3> QED
      BY <2>1, <3>1
  <2>6. g <= H => g * Slot <= H * Slot
    BY <2>1, <2>4
  <2> QED
    BY <1>2, <2>1, <2>2, <2>3, <2>4, <2>5, <2>6
<1> QED
  BY <1>1, <1>2

(* What s ticks change, where they are no more than an hour. *)
LEMMA Later ==
  ASSUME NEW t \in 0 .. DayLength - 1, NEW s \in 1 .. Slot, NEW u \in 0 .. DayLength - 1,
         u = t + s \/ u = t + s - DayLength
  PROVE  /\ HourAt(u) = HourAt(t) =>
              /\ Past(u) = Past(t) + s
              /\ \A h \in 0 .. Day - 1 : Ahead(u, h) = Ahead(t, h) - s
         /\ HourAt(u) # HourAt(t) =>
              /\ Past(u) = s - Ahead(t, HourAt(u))
              /\ Past(t) + s >= Slot
              /\ Ahead(u, HourAt(u)) = Ahead(t, HourAt(u)) + DayLength - s
              /\ \A h \in 0 .. Day - 1 :
                   h # HourAt(u) => Ahead(u, h) = Ahead(t, h) - s
<1> DEFINE H == HourAt(t)
           G == HourAt(u)
<1>1. /\ t \in Nat /\ Slot \in Nat \ {0} /\ t < DayLength /\ DayLength = 24 * Slot
      /\ H \in 0 .. 23 /\ Past(t) \in 0 .. Slot - 1 /\ t = H * Slot + Past(t)
      /\ u \in Nat /\ u < DayLength
      /\ G \in 0 .. 23 /\ Past(u) \in 0 .. Slot - 1 /\ u = G * Slot + Past(u)
  BY SlotAssumption, HourFacts DEF DayLength, Day
<1> HIDE DEF H, G
<1>2. \A a, b \in 0 .. 24 :
        /\ a * Slot \in Nat
        /\ a < b => a * Slot + Slot <= b * Slot
        /\ a + 1 < b => a * Slot + Slot + Slot <= b * Slot
  <2> TAKE a, b \in 0 .. 24
  <2>1. a < b => (a + 1) * Slot <= b * Slot
    BY <1>1
  <2>2. a + 1 < b => (a + 2) * Slot <= b * Slot
    BY <1>1
  <2>3. (a + 1) * Slot = a * Slot + Slot /\ (a + 2) * Slot = a * Slot + Slot + Slot
    BY <1>1
  <2> QED
    BY <1>1, <2>1, <2>2, <2>3
<1>3. \A h \in 0 .. 23 :
        /\ Ahead(t, h) = IF h > H THEN h * Slot - t ELSE h * Slot - t + DayLength
        /\ Ahead(u, h) = IF h > G THEN h * Slot - u ELSE h * Slot - u + DayLength
  <2> TAKE h \in 0 .. 23
  <2>1. h > H <=> h * Slot > t
    BY <1>1, <1>2
  <2>2. h > G <=> h * Slot > u
    BY <1>1, <1>2
  <2> QED
    BY <1>1, <1>2, <2>1, <2>2 DEF Ahead
<1>4. CASE u = t + s
  <2>1. G = H \/ G = H + 1
    BY <1>1, <1>2, <1>4
  <2>2. CASE G = H
    BY <1>1, <1>2, <1>3, <1>4, <2>2 DEF G, H, Day
  <2>3. CASE G = H + 1
    BY <1>1, <1>2, <1>3, <1>4, <2>3 DEF G, H, Day
  <2> QED
    BY <2>1, <2>2, <2>3
<1>5. CASE u = t + s - DayLength
  <2>1. G = 0 /\ H = 23
    BY <1>1, <1>2, <1>5
  <2> QED
    BY <1>1, <1>2, <1>3, <1>5, <2>1 DEF G, H, Day
<1> QED
  BY <1>4, <1>5

-----------------------------------------------------------------------------
(* The inductive invariant. *)

(* How far one change of the clock, or one that every exception could have  *)
(* been, may move it; and how far the exceptions so far can have moved it.  *)
Most == IF Upsets = 0 THEN 0 ELSE (Slot - 1 - MaxLag) \div Upsets
Spent == (Upsets - upsets) * Most
Planned == {h \in 0 .. Day - 1 : \E k \in Kind : h \in Plan[k]}

LEMMA TimesMore ==
  ASSUME NEW a \in Nat, NEW b \in Int, NEW c \in Int, b <= c
  PROVE  a * b <= a * c
<1>1. c - b \in Nat /\ a * (c - b) \in Nat
  OBVIOUS
<1>2. a * (c - b) = a * c - a * b
  OBVIOUS
<1> QED
  BY <1>1, <1>2

LEMMA MostFacts ==
  /\ Most \in Nat /\ MaxLag \in Nat /\ Upsets \in Nat
  /\ Upsets * Most \in Nat /\ MaxLag + Upsets * Most < Slot
  /\ Upsets > 0 => \A d \in Shift : d \in Int /\ - Most <= d /\ d <= Most
<1>1. MaxLag \in Nat /\ Upsets \in Nat /\ Slot \in Nat /\ MaxLag < Slot
  BY SlotAssumption, BoundAssumption
<1>2. CASE Upsets = 0
  BY <1>1, <1>2 DEF Most
<1>3. CASE Upsets > 0
  <2> DEFINE room == Slot - 1 - MaxLag
  <2>1. room \in Nat
    BY <1>1
  <2>2. Most = room \div Upsets
    BY <1>3 DEF Most
  <2> HIDE DEF room
  <2>3. /\ Most \in Nat /\ Upsets * Most <= room /\ room < Upsets * Most + Upsets
        /\ Upsets * Most \in Nat
    BY <1>1, <1>3, <2>1, <2>2
  <2>4. ASSUME NEW d \in Shift
        PROVE  d \in Int /\ - Most <= d /\ d <= Most
    <3>1. /\ d \in Int /\ Upsets * d \in Int
          /\ Upsets * d <= room /\ - (Upsets * d) <= room
      BY <1>1, <2>4, SetAssumption, BoundAssumption DEF room
    <3>2. d <= Most
      <4>1. Upsets \in Nat /\ Most + 1 \in Int /\ d \in Int
        BY <1>1, <2>3, <3>1
      <4>2. Most + 1 <= d => Upsets * (Most + 1) <= Upsets * d
        BY <4>1, TimesMore
      <4>3. Upsets * (Most + 1) = Upsets * Most + Upsets
        BY <1>1, <2>3
      <4> QED
        BY <1>1, <2>1, <2>3, <3>1, <4>2, <4>3
    <3>3. - Most <= d
      <4>1. Upsets \in Nat /\ Most + 1 \in Int /\ - d \in Int
        BY <1>1, <2>3, <3>1
      <4>2. Most + 1 <= - d => Upsets * (Most + 1) <= Upsets * (- d)
        BY <4>1, TimesMore
      <4>3. Upsets * (Most + 1) = Upsets * Most + Upsets /\ Upsets * (- d) = - (Upsets * d)
        BY <1>1, <2>3, <3>1
      <4> QED
        BY <1>1, <2>1, <2>3, <3>1, <4>2, <4>3
    <3> QED
      BY <3>1, <3>2, <3>3
  <2> QED
    BY <1>1, <2>1, <2>3, <2>4 DEF room
<1> QED
  BY <1>1, <1>2, <1>3

LEMMA SpentFacts ==
  ASSUME upsets \in 0 .. Upsets
  PROVE  /\ Spent \in Nat /\ MaxLag + Spent < Slot
         /\ upsets > 0 => Spent + Most <= Upsets * Most
         /\ upsets' = upsets => Spent' = Spent
         /\ upsets > 0 /\ upsets' = upsets - 1 => Spent' = Spent + Most
<1> DEFINE n == Upsets - upsets
<1>1. /\ n \in 0 .. Upsets /\ (upsets > 0 => n + 1 <= Upsets)
      /\ (upsets' = upsets => Upsets - upsets' = n)
      /\ (upsets > 0 /\ upsets' = upsets - 1 => Upsets - upsets' = n + 1)
  BY MostFacts
<1>2. Spent = n * Most /\ Spent' = (Upsets - upsets') * Most
  BY DEF Spent, Most
<1> HIDE DEF n
<1>3. n * Most \in Nat /\ n * Most <= Upsets * Most
  BY <1>1, MostFacts
<1>4. n + 1 <= Upsets => (n + 1) * Most <= Upsets * Most
  BY <1>1, MostFacts
<1>5. (n + 1) * Most = n * Most + Most
  BY <1>1, MostFacts
<1> QED
  BY <1>1, <1>2, <1>3, <1>4, <1>5, MostFacts, SlotAssumption

(* The hours of a plan are finitely many numbers, and there is one for      *)
(* every kind.                                                              *)
LEMMA PlanHours ==
  ASSUME NEW f \in File \ {Missing, Broken}, NEW e \in Env, NEW k \in Kind
  PROVE  /\ Settings(f, e)[k] # {}
         /\ Settings(f, e)[k] \subseteq Int /\ IsFiniteSet(Settings(f, e)[k])
         /\ (f[k] = Unset \/ \A h \in f[k] : h <= Day) =>
               \A h \in Settings(f, e)[k] : h <= Day
<1> DEFINE c == Load(f, e)
<1>1. /\ k \in Hours /\ k \in Key /\ k \notin Number /\ k \in DOMAIN Default
      /\ Default[k] # {} /\ Default[k] \subseteq 0 .. 24
  <2>1. DOMAIN Default = Key /\ k \in Hours /\ k \in Key /\ k \notin Number
    BY DefaultIsUsable DEF Kind, Hours, Key, Number
  <2>2. Default["checkin"] = {9, 21} /\ Default["keepalive"] = {0, 12}
    BY DEF Default
  <2>3. k = "checkin" \/ k = "keepalive"
    BY DEF Kind
  <2> QED
    BY <2>1, <2>2, <2>3
<1>2. Says(f) /\ e[k] = Unset /\ DOMAIN e = Key
  BY <1>1, TextAssumption DEF Says, Key
<1>3. Heard(e)[k] = Unset
  BY <1>1, <1>2 DEF Heard
<1>4. c[k] = (IF f[k] # Unset THEN f[k] ELSE Default[k]) /\ DOMAIN c = Key
  BY <1>1, <1>2, <1>3, DefaultIsUsable DEF Load, Overlay
<1>5. Settings(f, e)[k] = IF c[k] = {} THEN Default[k] ELSE c[k]
  BY <1>1, <1>4 DEF Settings, c, Hours
<1>6. f[k] = Unset \/ (f[k] \subseteq Int /\ IsFiniteSet(f[k]))
  BY <1>1, <1>2 DEF Says
<1>7. IsFiniteSet(Default[k])
  <2>1. 0 \in Int /\ 24 \in Int
    OBVIOUS
  <2>2. IsFiniteSet(0 .. 24)
    BY <2>1, FS_Interval
  <2> QED
    BY <1>1, <2>2, FS_Subset
<1> HIDE DEF c
<1>8. Default[k] \subseteq Int /\ \A h \in Default[k] : h <= Day
  BY <1>1 DEF Day
<1> QED
  BY <1>1, <1>4, <1>5, <1>6, <1>7, <1>8

(* Of finitely many values one is least: that with the fewest below it.     *)
LEMMA LeastValue ==
  ASSUME NEW H, IsFiniteSet(H), H # {}, NEW u \in [H -> Int]
  PROVE  \E m \in H : \A x \in H : u[m] <= u[x]
<1> DEFINE Below(m) == {x \in H : u[x] < u[m]}
           Counts == {Cardinality(Below(m)) : m \in H}
<1>1. \A m \in H : IsFiniteSet(Below(m)) /\ Cardinality(Below(m)) \in Nat
  <2> TAKE m \in H
  <2>1. Below(m) \in SUBSET H
    OBVIOUS
  <2> HIDE DEF Below
  <2>2. IsFiniteSet(Below(m))
    BY <2>1, FS_Subset
  <2> QED
    BY <2>2, FS_CardinalityType
<1>2. Counts \in SUBSET Nat /\ Counts # {}
  <2> HIDE DEF Below
  <2> QED BY <1>1
<1>3. PICK c \in Counts : \A n \in Counts : c <= n
  <2> HIDE DEF Counts
  <2> QED BY <1>2, LeastNat
<1>4. PICK m \in H : c = Cardinality(Below(m))
  OBVIOUS
<1>5. ASSUME NEW x \in H, u[x] < u[m]
      PROVE  FALSE
  <2>1. \A y \in H : u[y] \in Int
    OBVIOUS
  <2>2. Below(x) \in SUBSET Below(m) /\ x \in Below(m) /\ x \notin Below(x)
    BY <1>5, <2>1
  <2>3. Cardinality(Below(m)) <= Cardinality(Below(x))
    BY <1>3, <1>4
  <2> HIDE DEF Below
  <2>4. /\ Cardinality(Below(x)) <= Cardinality(Below(m))
        /\ Cardinality(Below(m)) = Cardinality(Below(x)) => Below(m) = Below(x)
    BY <1>1, <2>2, FS_Subset
  <2>5. Cardinality(Below(m)) = Cardinality(Below(x))
    BY <1>1, <2>3, <2>4
  <2> QED
    BY <2>2, <2>4, <2>5
<1>6. \A x \in H : u[m] \in Int /\ u[x] \in Int
  OBVIOUS
<1> QED
  BY <1>5, <1>6

ClockType ==
  /\ pc \in {"down", "fatal", "free", "waiting"} \cup Kind
  /\ hour \in 0 .. Day - 1 /\ now \in 0 .. DayLength - 1
  /\ left \in Nat
  /\ lag \in 0 .. MaxLag /\ upsets \in 0 .. Upsets
  /\ owed \subseteq Kind /\ missed \subseteq Kind
  /\ runs \in [Kind -> 0 .. 2] /\ early \in BOOLEAN /\ again \subseteq 0 .. Day - 1

(* What is owed while Run is not waiting, or in a pass, is the pass that is *)
(* still to come.                                                           *)
OweOK ==
  /\ pc \in {"down", "fatal", "free", "keepalive"} => owed = {}
  /\ pc = "waiting" => owed \subseteq {k \in Kind : HourAt(now) \in Plan[k]}
  /\ pc = "checkin" => owed \subseteq {k \in {"keepalive"} : hour \in Plan[k]}

LagOK == pc = "waiting" /\ left > 0 => lag = 0

(* An hour that will strike again does so soon. *)
AgainOK == \A h \in again : Ahead(now, h) <= Spent

(* The timer fires before the next hour of the plan strikes, or so soon     *)
(* after it that the hour is not over.                                      *)
OnTime ==
  pc = "waiting" =>
    /\ \A h \in Planned :
         left <= Ahead(now, h) + Spent + IF h \in again THEN DayLength ELSE 0
    /\ owed # {} => left + Past(now) <= Spent + lag

(* A timer armed after a pass of this hour does not fire in this hour.      *)
OnceOK ==
  /\ pc = "waiting" /\ ~early =>
       (\A k \in Kind : runs[k] = 0) \/ Past(now) + left >= Slot
  /\ pc = "checkin" /\ ~early => runs["keepalive"] = 0
  /\ \A k \in Kind : runs[k] <= 1

ClockInv ==
  /\ Chosen /\ ClockType
  /\ OweOK /\ LagOK /\ AgainOK /\ OnTime /\ OnceOK /\ missed = {}

LEMMA DayFacts ==
  /\ Slot \in Nat \ {0} /\ DayLength \in Nat /\ DayLength = 24 * Slot /\ Day = 24
  /\ \A t \in 0 .. 2 * DayLength - 1 :
       t % DayLength = IF t < DayLength THEN t ELSE t - DayLength
<1>1. Slot \in Nat \ {0} /\ DayLength \in Nat /\ DayLength = 24 * Slot /\ Day = 24 /\ DayLength > 0
  BY SlotAssumption DEF DayLength, Day
<1>2. ASSUME NEW t \in 0 .. 2 * DayLength - 1
      PROVE  t % DayLength = IF t < DayLength THEN t ELSE t - DayLength
  BY <1>1, <1>2
<1> QED
  BY <1>1, <1>2

(* The first time to come, unless an hour is overdue.                       *)
LEMMA NextFireFacts ==
  ASSUME ClockType, Chosen, Running
  PROVE  /\ NextFire \in Int
         /\ \E h \in Plan["checkin"] \cup Plan["keepalive"] : h \in Int /\ NextFire = Ahead(now, h)
         /\ \A h \in Planned : NextFire <= Ahead(now, h)
         /\ ~ Overdue => NextFire > 0
<1> DEFINE H == Plan["checkin"] \cup Plan["keepalive"]
           S == {Until(h) : h \in H}
           u == [h \in H |-> Until(h)]
<1>1. H # {} /\ H \subseteq Int /\ IsFiniteSet(H)
  <2>1. \A k \in Kind : Plan[k] # {} /\ Plan[k] \subseteq Int /\ IsFiniteSet(Plan[k])
    BY PlanHours DEF Chosen, Plan
  <2>2. \A k \in {"checkin", "keepalive"} : k \in Kind
    BY DEF Kind
  <2> QED
    BY <2>1, <2>2, FS_Union
<1>2. \A h \in H : Until(h) = Ahead(now, h) /\ Until(h) \in Int
  BY <1>1, UntilFacts DEF Until, Ahead, ClockType
<1>3. u \in [H -> Int]
  <2> HIDE DEF H
  <2> QED BY <1>2
<1>4. PICK m \in H : \A h \in H : u[m] <= u[h]
  <2> HIDE DEF u, H
  <2> QED BY <1>1, <1>3, LeastValue
<1>5. NextFire = Min(S)
  BY DEF NextFire
<1>6. Until(m) \in S /\ \A n \in S : Until(m) <= n
  <2>1. \A h \in H : u[h] = Until(h)
    OBVIOUS
  <2> HIDE DEF H, u
  <2> QED BY <1>4, <2>1
<1>7. NextFire \in S /\ \A n \in S : NextFire <= n
  <2> HIDE DEF S
  <2> QED BY <1>5, <1>6 DEF Min
<1>8. Planned \subseteq H
  BY DEF Planned, Kind
<1>9. ~ Overdue => \A h \in H : Until(h) > 0
  <2>1. \A h \in H : h >= 0 => Until(h) > 0
    BY <1>1, <1>2, UntilFacts DEF ClockType
  <2>2. ~ Overdue => \A h \in H : ~ (h < 0 /\ Until(h) <= 0)
    BY DEF Overdue
  <2> HIDE DEF H
  <2> QED
    BY <1>1, <1>2, <2>1, <2>2
<1> QED
  BY <1>1, <1>2, <1>7, <1>8, <1>9

LEMMA ClockInit == Init => ClockInv
<1> SUFFICES ASSUME Init PROVE ClockInv
  OBVIOUS
<1>1. ClockType
  <2>1. runs \in [Kind -> 0 .. 2] /\ 0 \in 0 .. Upsets /\ 0 \in 0 .. MaxLag
    BY MostFacts DEF Init
  <2>2. upsets \in 0 .. Upsets /\ hour \in 0 .. Day - 1
    BY MostFacts, DayFacts DEF Init
  <2> QED
    BY <2>1, <2>2 DEF Init, ClockType
<1>2. Chosen
  BY ChosenInit
<1>3. \A k \in Kind : runs[k] <= 1
  BY DEF Init
<1> QED
  <2>1. OweOK /\ LagOK /\ AgainOK /\ OnTime
    BY DEF Init, OweOK, LagOK, AgainOK, OnTime
  <2>2. OnceOK
    BY <1>3 DEF Init, OnceOK
  <2> QED
    BY <1>1, <1>2, <2>1, <2>2 DEF Init, ClockInv

-----------------------------------------------------------------------------
(* The scheduler moves. *)

LEMMA StartKeeps ==
  ASSUME ClockInv, NEW f \in File, NEW e \in Env, Start(f, e)
  PROVE  ClockInv'
<1>1. /\ pc' \in {"free", "fatal"} /\ owed = {}
      /\ UNCHANGED <<hour, left, now, lag, upsets, owed, missed, runs, early, again>>
  BY DEF Start, history, ClockInv, ClockType, OweOK, Running, Kind
<1>2. Chosen'
  BY ChosenStep DEF ClockInv, Next
<1>3. ClockType'
  BY <1>1 DEF ClockInv, ClockType
<1>4. Spent' = Spent
  BY <1>1 DEF Spent
<1>5. OweOK' /\ LagOK' /\ OnTime' /\ OnceOK'
  BY <1>1 DEF ClockInv, OweOK, LagOK, OnTime, OnceOK
<1>6. AgainOK'
  BY <1>1, <1>4 DEF ClockInv, AgainOK, Ahead
<1> QED
  BY <1>1, <1>2, <1>3, <1>5, <1>6 DEF ClockInv

LEMMA ExitKeeps == ClockInv /\ Exit => ClockInv'
<1> SUFFICES ASSUME ClockInv, Exit PROVE ClockInv'
  OBVIOUS
<1>1. ClockType'
  <2>1. upsets' \in 0 .. Upsets /\ 0 \in 0 .. MaxLag /\ 0 \in 0 .. Day - 1
    BY MostFacts, DayFacts DEF Exit, ClockInv, ClockType
  <2> QED
    BY <2>1 DEF Exit, ClockInv, ClockType
<1>2. Chosen'
  BY ChosenStep DEF ClockInv, Next
<1>3. OweOK' /\ LagOK' /\ AgainOK' /\ OnTime'
  BY DEF Exit, OweOK, LagOK, AgainOK, OnTime
<1>4. OnceOK'
  BY DEF Exit, OnceOK, ClockInv
<1> QED
  BY <1>1, <1>2, <1>3, <1>4 DEF ClockInv, Exit

LEMMA WaitKeeps == ClockInv /\ Wait => ClockInv'
<1> SUFFICES ASSUME ClockInv, Wait PROVE ClockInv'
  OBVIOUS
<1>1. /\ pc' = "waiting" /\ left' = (IF NextFire > 0 THEN NextFire ELSE 0)
      /\ owed' = {} /\ lag' = 0
      /\ early' = Overdue /\ hour' = 0
      /\ UNCHANGED <<file, env, now, upsets, missed, runs, again>>
  BY DEF Wait, ClockInv, OweOK
<1>n. /\ NextFire \in Int
      /\ \E h \in Plan["checkin"] \cup Plan["keepalive"] : h \in Int /\ NextFire = Ahead(now, h)
      /\ \A h \in Planned : NextFire <= Ahead(now, h)
      /\ ~ Overdue => NextFire > 0
  BY NextFireFacts DEF Wait, ClockInv, Running
<1>2. /\ left' \in Nat /\ (NextFire <= 0 => left' = 0) /\ (NextFire > 0 => left' = NextFire)
  BY <1>1, <1>n
<1>3. now \in 0 .. DayLength - 1 /\ upsets \in 0 .. Upsets
  BY DEF ClockInv, ClockType
<1>4. ClockType'
  <2>1. 0 \in 0 .. MaxLag /\ 0 \in 0 .. Day - 1
    BY MostFacts, DayFacts
  <2> QED
    BY <1>1, <1>2, <2>1 DEF ClockInv, ClockType, Overdue
<1>5. Chosen'
  BY ChosenStep DEF ClockInv, Next
<1>6. /\ Spent' = Spent /\ Spent \in Nat /\ Past(now)' = Past(now)
      /\ Planned' = Planned
  BY <1>1, <1>3, SpentFacts DEF Past, HourAt, Planned, Plan
<1>7. OweOK' /\ LagOK'
  BY <1>1 DEF OweOK, LagOK
<1>8. AgainOK'
  BY <1>1, <1>6 DEF ClockInv, AgainOK, Ahead
<1>9. OnTime'
  <2>1. ASSUME NEW h \in Planned
        PROVE  left' <= Ahead(now, h) + Spent + IF h \in again THEN DayLength ELSE 0
    <3>1. h \in Nat /\ Ahead(now, h) \in Nat /\ DayLength \in Nat
      BY <1>3, AheadFacts, DayFacts DEF Planned
    <3> QED
      BY <1>1, <1>2, <1>n, <1>6, <3>1
  <2>2. \A h : Ahead(now, h)' = Ahead(now, h)
    BY <1>1 DEF Ahead
  <2> QED
    BY <1>1, <1>6, <2>1, <2>2 DEF OnTime
<1>10. OnceOK'
  <2>1. ~ Overdue => Past(now) + left' >= Slot
    <3> SUFFICES ASSUME ~ Overdue
                 PROVE  Past(now) + left' >= Slot
      OBVIOUS
    <3>1. PICK h \in Int : NextFire = Ahead(now, h)
      BY <1>n
    <3>2. left' = Ahead(now, h) /\ Ahead(now, h) > 0
      BY <1>2, <1>n, <3>1
    <3>3. Ahead(now, h) \in Int /\ Ahead(now, h) + Past(now) >= Slot
      BY <1>3, <3>2, UntilFacts
    <3>4. Past(now) \in Int
      BY <1>3, HourFacts, DayFacts
    <3> QED
      BY <3>2, <3>3, <3>4
  <2> QED
    BY <1>1, <1>6, <2>1 DEF OnceOK, ClockInv
<1> QED
  BY <1>1, <1>4, <1>5, <1>7, <1>8, <1>9, <1>10 DEF ClockInv

(* A pass begins, or the passes of an hour are over. *)
LEMMA GoFacts ==
  ASSUME ClockType, NEW stage \in Kind \cup {"free"}, Go(stage)
  PROVE  /\ pc' = stage /\ left' \in Nat /\ upsets' \in 0 .. Upsets /\ Spent <= Spent'
         /\ Spent \in Nat /\ Spent' \in Nat
         /\ owed' = owed \ {stage}
         /\ runs' = [k \in Kind |->
                IF k = stage /\ ~early /\ runs[k] < 2 THEN runs[k] + 1 ELSE runs[k]]
         /\ runs' \in [Kind -> 0 .. 2]
         /\ UNCHANGED <<file, env, now, lag, missed, early, again>>
<1>1. MaxPass \in Nat /\ LongPass \in Nat
  BY BoundAssumption
<1>2. /\ left' \in Nat
      /\ \/ upsets' = upsets
         \/ upsets > 0 /\ upsets' = upsets - 1
  BY <1>1 DEF Go
<1>3. upsets' \in 0 .. Upsets
  BY <1>2, MostFacts DEF ClockType
<1>4. Spent <= Spent' /\ Spent \in Nat /\ Spent' \in Nat
  BY <1>2, SpentFacts, MostFacts DEF ClockType
<1>5. runs' \in [Kind -> 0 .. 2]
  <2>1. \A k \in Kind : runs[k] \in 0 .. 2
    BY DEF ClockType
  <2>2. \A k \in Kind :
          (IF k = stage /\ ~early /\ runs[k] < 2 THEN runs[k] + 1 ELSE runs[k]) \in 0 .. 2
    BY <2>1
  <2> QED
    BY <2>2 DEF Go
<1>6. /\ pc' = stage /\ owed' = owed \ {stage}
      /\ UNCHANGED <<file, env, now, lag, missed, early, again>>
  BY DEF Go
<1>7. runs' = [k \in Kind |->
                IF k = stage /\ ~early /\ runs[k] < 2 THEN runs[k] + 1 ELSE runs[k]]
  BY DEF Go
<1> QED
  BY <1>2, <1>3, <1>4, <1>5, <1>6, <1>7

LEMMA StageFacts ==
  ASSUME NEW h, NEW todo
  PROVE  /\ Stage(h, todo) \in Kind \cup {"free"}
         /\ Stage(h, todo) \in Kind => Stage(h, todo) \in todo
         /\ \A k \in todo \cap Kind :
              h \in Plan[k] => Stage(h, todo) = "checkin" \/ Stage(h, todo) = k
BY DEF Stage, Kind

LEMMA GoKeeps ==
  ASSUME ClockInv, NEW stage \in Kind \cup {"free"}, Go(stage),
         hour' \in 0 .. Day - 1, Chosen',
         stage = "checkin" =>
            owed \ {"checkin"} \subseteq {k \in {"keepalive"} : hour' \in Plan[k]},
         stage # "checkin" => owed \ {stage} = {},
         ~early => /\ stage \in Kind => runs[stage] = 0
                   /\ stage = "checkin" => runs["keepalive"] = 0
  PROVE  ClockInv'
<1>1. /\ pc' = stage /\ left' \in Nat /\ upsets' \in 0 .. Upsets /\ Spent <= Spent'
      /\ Spent \in Nat /\ Spent' \in Nat
      /\ owed' = owed \ {stage}
      /\ runs' = [k \in Kind |->
             IF k = stage /\ ~early /\ runs[k] < 2 THEN runs[k] + 1 ELSE runs[k]]
      /\ runs' \in [Kind -> 0 .. 2]
      /\ UNCHANGED <<file, env, now, lag, missed, early, again>>
  BY GoFacts DEF ClockInv
<1>2. ClockType'
  BY <1>1 DEF ClockInv, ClockType
<1>3. Plan' = Plan
  BY <1>1 DEF Plan
<1>4. OweOK'
  BY <1>1, <1>3 DEF OweOK, Kind
<1>5. LagOK' /\ OnTime'
  BY <1>1 DEF LagOK, OnTime, Kind
<1>6. AgainOK'
  <2>1. ASSUME NEW h \in again
        PROVE  Ahead(now, h) <= Spent'
    <3>1. h \in Nat /\ Ahead(now, h) \in Nat
      BY AheadFacts DEF ClockInv, ClockType, Day
    <3> QED
      BY <1>1, <3>1 DEF ClockInv, AgainOK
  <2>2. \A h : Ahead(now, h)' = Ahead(now, h)
    BY <1>1 DEF Ahead
  <2> QED
    BY <1>1, <2>1, <2>2 DEF AgainOK
<1>7. OnceOK'
  <2>1. \A k \in Kind : runs[k] \in 0 .. 2 /\ runs[k] <= 1
    BY DEF ClockInv, ClockType, OnceOK
  <2>2. \A k \in Kind : runs'[k] <= 1
    BY <1>1, <2>1
  <2>3. stage = "checkin" /\ ~early => runs'["keepalive"] = 0
    BY <1>1 DEF Kind
  <2> QED
    BY <1>1, <2>2, <2>3 DEF OnceOK, Kind
<1> QED
  BY <1>1, <1>2, <1>4, <1>5, <1>6, <1>7 DEF ClockInv

LEMMA FireKeeps == ClockInv /\ Fire => ClockInv'
<1> SUFFICES ASSUME ClockInv, Fire PROVE ClockInv'
  OBVIOUS
<1> DEFINE stage == Stage(HourAt(now), Kind)
<1>1. pc = "waiting" /\ left = 0 /\ hour' = HourAt(now) /\ Go(stage)
  BY DEF Fire
<1>2. Chosen'
  BY ChosenStep DEF ClockInv, Next
<1>3. now \in 0 .. DayLength - 1
  BY DEF ClockInv, ClockType
<1>4. HourAt(now) \in 0 .. Day - 1 /\ Past(now) < Slot
  BY <1>3, HourFacts, DayFacts
<1>5. owed \subseteq {k \in Kind : HourAt(now) \in Plan[k]}
  BY <1>1 DEF ClockInv, OweOK
<1>6. /\ stage \in Kind \cup {"free"}
      /\ \A k \in Kind : HourAt(now) \in Plan[k] => stage = "checkin" \/ stage = k
  BY StageFacts
<1> HIDE DEF stage
<1>7. ~early => \A k \in Kind : runs[k] = 0
  BY <1>1, <1>3, <1>4, HourFacts, DayFacts DEF ClockInv, OnceOK
<1>8. stage = "checkin" =>
         owed \ {"checkin"} \subseteq {k \in {"keepalive"} : hour' \in Plan[k]}
  BY <1>1, <1>5 DEF Kind
<1>9. stage # "checkin" => owed \ {stage} = {}
  BY <1>5, <1>6
<1>10. hour' \in 0 .. Day - 1
  BY <1>1, <1>4
<1>11. "keepalive" \in Kind
  BY DEF Kind
<1> QED
  BY <1>1, <1>2, <1>6, <1>7, <1>8, <1>9, <1>10, <1>11, GoKeeps

LEMMA EndPassKeeps == ClockInv /\ EndPass => ClockInv'
<1> SUFFICES ASSUME ClockInv, EndPass PROVE ClockInv'
  OBVIOUS
<1>1. Chosen'
  BY ChosenStep DEF ClockInv, Next
<1>2. hour' \in 0 .. Day - 1
  BY DEF EndPass, ClockInv, ClockType
<1>3. CASE pc = "checkin"
  <2> DEFINE stage == Stage(hour, {"keepalive"})
  <2>1. Go(stage) /\ hour' = hour
    BY <1>3 DEF EndPass
  <2>2. /\ stage \in {"keepalive", "free"}
        /\ hour \in Plan["keepalive"] => stage = "keepalive"
    BY DEF Stage, Kind
  <2> HIDE DEF stage
  <2>3. owed \ {stage} = {}
    BY <1>3, <2>2 DEF ClockInv, OweOK
  <2>4. ~early => runs["keepalive"] = 0
    BY <1>3 DEF ClockInv, OnceOK
  <2>5. stage \in Kind \cup {"free"} /\ stage # "checkin" /\ (stage \in Kind => stage = "keepalive")
    BY <2>2 DEF Kind
  <2> QED
    BY <1>1, <1>2, <2>1, <2>3, <2>4, <2>5, GoKeeps
<1>4. CASE pc = "keepalive"
  <2>1. Go("free") /\ owed = {}
    BY <1>4 DEF EndPass, ClockInv, OweOK
  <2>2. "free" \notin Kind
    BY DEF Kind
  <2> QED
    BY <1>1, <1>2, <2>1, <2>2, GoKeeps
<1> QED
  BY <1>3, <1>4 DEF EndPass, Kind

-----------------------------------------------------------------------------
(* The clock goes on. *)

LEMMA ModDay ==
  ASSUME NEW n \in 0 .. 2 * DayLength - 1
  PROVE  n % DayLength = IF n < DayLength THEN n ELSE n - DayLength
BY DayFacts

(* The clock goes on by s ticks, of which the timer may have counted one.   *)
LEMMA ForwardKeeps ==
  ASSUME ClockInv, Chosen', UNCHANGED <<file, env, pc, hour>>,
         NEW s \in 1 .. Slot, NEW t \in 0 .. DayLength - 1,
         t = now + s \/ t = now + s - DayLength, Advance(t),
         NEW rest \in Nat, left' = rest, NEW late \in 0 .. MaxLag, lag' = late,
         upsets' \in 0 .. Upsets, NEW gain \in Nat, Spent' = Spent + gain,
         left <= rest + s,
         pc = "waiting" =>
           /\ rest > 0 => late = 0
           /\ rest + s <= left + gain \/ (rest = 0 /\ s = 1)
           /\ rest + s + lag <= left + gain + late
           /\ s + Spent + lag < Slot + left
  PROVE  ClockInv'
<1> DEFINE H == HourAt(now)
           G == HourAt(t)
           was == Past(now)
           is == Past(t)
<1>1. /\ now \in 0 .. DayLength - 1 /\ now' = t /\ Plan' = Plan /\ left \in Nat
      /\ Spent \in Nat /\ lag \in Nat /\ DayLength \in Nat /\ Slot \in Nat \ {0}
      /\ late \in Nat /\ again \subseteq 0 .. Day - 1 /\ s \in Nat
  BY MostFacts, SpentFacts, DayFacts DEF ClockInv, ClockType, Advance, Plan
<1>2. G = H => is = was + s /\ \A h \in 0 .. Day - 1 : Ahead(t, h) = Ahead(now, h) - s
  BY <1>1, Later
<1>3. G # H => /\ is = s - Ahead(now, G) /\ was + s >= Slot
               /\ Ahead(t, G) = Ahead(now, G) + DayLength - s
               /\ \A h \in 0 .. Day - 1 : h # G => Ahead(t, h) = Ahead(now, h) - s
  BY <1>1, Later
<1>4. /\ \A h \in 0 .. Day - 1 : Ahead(now, h) \in Nat \ {0} /\ Ahead(t, h) \in Nat \ {0}
      /\ H \in 0 .. Day - 1 /\ G \in 0 .. Day - 1
      /\ was \in Nat /\ is \in Nat /\ was < Slot /\ is < Slot
  <2>1. \A h \in 0 .. Day - 1 : h \in Nat
    BY DayFacts
  <2>2. \A h \in 0 .. Day - 1 : Ahead(now, h) \in Nat \ {0} /\ Ahead(t, h) \in Nat \ {0}
    BY <1>1, <2>1, AheadFacts
  <2>3. H \in 0 .. Day - 1 /\ G \in 0 .. Day - 1 /\ was \in 0 .. Slot - 1 /\ is \in 0 .. Slot - 1
    BY <1>1, HourFacts
  <2> QED
    BY <1>1, <2>2, <2>3
<1>5. HourAt(now)' = G /\ Past(now)' = is /\ Planned' = Planned
      /\ \A h : Ahead(now, h)' = Ahead(t, h)
  BY <1>1 DEF Past, HourAt, Planned, Ahead
<1>6. G = H => UNCHANGED <<owed, missed, runs, early, again>>
  BY DEF Advance, history
<1>7. G # H => Strike(G)
  BY DEF Advance
<1> HIDE DEF H, G, was, is
<1>8. missed' = {}
  <2>1. CASE G = H
    BY <1>6, <2>1 DEF ClockInv
  <2>2. CASE G # H /\ pc \in Kind
    BY <1>7, <2>2 DEF ClockInv, Strike
  <2>3. CASE G # H /\ pc = "waiting"
    <3>1. owed # {} => left + was <= Spent + lag
      BY <2>3 DEF ClockInv, OnTime, was
    <3>2. owed = {}
      BY <1>1, <1>3, <1>4, <2>3, <3>1
    <3> QED
      BY <1>7, <2>3, <3>2 DEF ClockInv, Strike
  <2>4. CASE G # H /\ pc \in {"down", "fatal", "free"}
    BY <1>7, <2>4 DEF ClockInv, OweOK, Strike
  <2> QED
    BY <2>1, <2>2, <2>3, <2>4 DEF ClockInv, ClockType
<1>9. ClockType'
  <2>1. /\ owed' \subseteq Kind /\ runs' \in [Kind -> 0 .. 2] /\ early' \in BOOLEAN
        /\ again' \subseteq 0 .. Day - 1
    BY <1>6, <1>7 DEF ClockInv, ClockType, Strike
  <2> QED
    BY <1>1, <1>8, <2>1 DEF ClockInv, ClockType
<1>10. OweOK'
  <2>1. G = H => HourAt(now)' = HourAt(now)
    BY <1>5 DEF H
  <2>2. CASE G = H
    BY <1>1, <1>6, <2>1, <2>2 DEF ClockInv, OweOK
  <2>3. CASE G # H
    BY <1>1, <1>5, <1>7, <2>3 DEF ClockInv, OweOK, Strike, Kind
  <2> QED
    BY <2>2, <2>3
<1>11. LagOK'
  BY <1>1 DEF LagOK
<1>12. AgainOK'
  <2>1. ASSUME NEW h \in again'
        PROVE  Ahead(t, h) <= Spent + gain
    <3>1. h \in again /\ h \in 0 .. Day - 1 /\ (G # H => h # G)
      BY <1>1, <1>6, <1>7 DEF Strike
    <3>2. Ahead(t, h) = Ahead(now, h) - s /\ Ahead(now, h) <= Spent
      BY <1>2, <1>3, <3>1 DEF ClockInv, AgainOK
    <3> QED
      BY <1>1, <1>4, <3>1, <3>2
  <2> QED
    BY <1>5, <2>1 DEF AgainOK
<1>13. OnTime'
  <2> SUFFICES ASSUME pc = "waiting"
               PROVE  /\ \A h \in Planned :
                           rest <= Ahead(t, h) + (Spent + gain) + IF h \in again' THEN DayLength ELSE 0
                      /\ owed' # {} => rest + is <= (Spent + gain) + late
    BY <1>1, <1>5 DEF OnTime
  <2>1. /\ \A h \in Planned :
             left <= Ahead(now, h) + Spent + IF h \in again THEN DayLength ELSE 0
        /\ owed # {} => left + was <= Spent + lag
    BY DEF ClockInv, OnTime, was
  <2>2. ASSUME NEW h \in Planned
        PROVE  rest <= Ahead(t, h) + (Spent + gain) + IF h \in again' THEN DayLength ELSE 0
    <3> DEFINE more == IF h \in again THEN DayLength ELSE 0
    <3>1. h \in 0 .. Day - 1 /\ more \in Nat /\ left <= Ahead(now, h) + Spent + more
      BY <1>1, <2>1 DEF Planned
    <3>2. CASE G # H /\ h = G
      <4>1. Ahead(t, h) = Ahead(now, h) + DayLength - s /\ more <= DayLength
        BY <1>1, <1>3, <3>2
      <4> HIDE DEF more
      <4>2. rest <= Ahead(t, h) + (Spent + gain)
        BY <1>1, <1>4, <3>1, <4>1
      <4> QED
        BY <1>1, <1>4, <3>1, <4>2
    <3>3. CASE ~(G # H /\ h = G)
      <4>1. Ahead(t, h) = Ahead(now, h) - s /\ Ahead(t, h) \in Nat /\ Ahead(now, h) \in Nat
        BY <1>2, <1>3, <1>4, <3>1, <3>3
      <4>2. h \in again' <=> h \in again
        BY <1>6, <1>7, <3>3 DEF Strike
      <4>3. more = IF h \in again' THEN DayLength ELSE 0
        BY <4>2
      <4> HIDE DEF more
      <4>4. rest <= Ahead(t, h) + (Spent + gain) + more
        BY <1>1, <3>1, <4>1
      <4> QED
        BY <4>3, <4>4
    <3> QED
      BY <3>2, <3>3
  <2>3. ASSUME owed' # {}
        PROVE  rest + is <= (Spent + gain) + late
    <3>1. CASE G = H
      <4>1. left + was <= Spent + lag /\ is = was + s
        BY <1>2, <1>6, <2>1, <2>3, <3>1
      <4> QED
        BY <1>1, <1>4, <4>1
    <3>2. CASE G # H
      <4>1. G \notin again /\ \E k \in Kind : G \in Plan[k]
        BY <1>7, <2>3, <3>2 DEF Strike, Kind
      <4>2. G \in Planned
        BY <1>4, <4>1 DEF Planned
      <4>3. left <= Ahead(now, G) + Spent + 0
        BY <2>1, <4>1, <4>2
      <4>4. is = s - Ahead(now, G) /\ Ahead(now, G) \in Nat \ {0}
        BY <1>3, <1>4, <3>2
      <4> QED
        BY <1>1, <1>4, <4>3, <4>4
    <3> QED
      BY <3>1, <3>2
  <2> QED
    BY <2>2, <2>3
<1>14. OnceOK'
  <2>1. CASE G = H
    <3>1. pc = "waiting" /\ ~early =>
            (\A k \in Kind : runs[k] = 0) \/ was + left >= Slot
      BY DEF ClockInv, OnceOK, was
    <3>2. is = was + s
      BY <1>2, <2>1
    <3>3. pc = "waiting" /\ ~early =>
            (\A k \in Kind : runs[k] = 0) \/ is + rest >= Slot
      BY <1>1, <1>4, <3>1, <3>2
    <3> QED
      BY <1>5, <1>6, <2>1, <3>3 DEF ClockInv, OnceOK
  <2>2. CASE G # H
    <3>1. runs' = [k \in Kind |-> 0]
      BY <1>7, <2>2 DEF Strike
    <3>2. \A k \in Kind : runs'[k] = 0 /\ runs'[k] <= 1
      BY <3>1
    <3> QED
      BY <3>2 DEF OnceOK, Kind
  <2> QED
    BY <2>1, <2>2
<1> QED
  BY <1>8, <1>9, <1>10, <1>11, <1>12, <1>13, <1>14 DEF ClockInv

LEMMA TickKeeps == ClockInv /\ Tick => ClockInv'
<1> SUFFICES ASSUME ClockInv, Tick PROVE ClockInv'
  OBVIOUS
<1> DEFINE t == (now + 1) % DayLength
<1>1. /\ now \in 0 .. DayLength - 1 /\ DayLength \in Nat /\ Slot \in Nat \ {0}
      /\ left \in Nat /\ lag \in 0 .. MaxLag /\ upsets \in 0 .. Upsets
      /\ MaxLag \in Nat /\ Upsets \in Nat
  BY DayFacts, MostFacts DEF ClockInv, ClockType
<1>2. t \in 0 .. DayLength - 1 /\ (t = now + 1 \/ t = now + 1 - DayLength)
  <2>1. now + 1 \in 0 .. 2 * DayLength - 1
    BY <1>1
  <2>2. ASSUME NEW n, n = now + 1
        PROVE  n % DayLength = IF n < DayLength THEN n ELSE n - DayLength
    BY <2>1, <2>2, ModDay
  <2> QED
    BY <1>1, <2>2
<1>3. /\ Ready => lag < MaxLag
      /\ Advance(t) /\ UNCHANGED <<file, env, pc, hour, upsets>>
      /\ left' = IF left > 0 THEN left - 1 ELSE 0
      /\ lag' = IF Ready THEN lag + 1 ELSE lag
  BY DEF Tick
<1> HIDE DEF t
<1>4. left' \in Nat /\ lag' \in 0 .. MaxLag /\ upsets' \in 0 .. Upsets /\ left <= left' + 1
  BY <1>1, <1>3
<1>5. Spent' = Spent /\ Spent \in Nat /\ MaxLag + Spent < Slot
  BY <1>1, <1>3, SpentFacts
<1>6. pc = "waiting" =>
        /\ left' > 0 => lag' = 0
        /\ left' + 1 <= left \/ left' = 0
        /\ left' + 1 + lag <= left + lag'
        /\ 1 + Spent + lag < Slot + left
  <2> SUFFICES ASSUME pc = "waiting"
               PROVE  /\ left' > 0 => lag' = 0
                      /\ left' + 1 <= left \/ left' = 0
                      /\ left' + 1 + lag <= left + lag'
                      /\ 1 + Spent + lag < Slot + left
    OBVIOUS
  <2>1. Ready <=> left = 0
    BY DEF Ready, Kind
  <2>2. left > 0 => lag = 0
    BY DEF ClockInv, LagOK
  <2>3. CASE left = 0
    <3>1. left' = 0 /\ lag' = lag + 1 /\ lag < MaxLag
      BY <1>3, <2>1, <2>3
    <3> QED
      BY <1>1, <1>5, <2>3, <3>1
  <2>4. CASE left > 0
    <3>1. left' = left - 1 /\ lag' = 0 /\ lag = 0
      BY <1>1, <1>3, <2>1, <2>2, <2>4
    <3> QED
      BY <1>1, <1>5, <2>4, <3>1
  <2> QED
    BY <1>1, <2>3, <2>4
<1>7. Chosen'
  BY ChosenStep DEF ClockInv, Next
<1>8. 1 \in 1 .. Slot /\ 0 \in Nat /\ Spent' = Spent + 0
  BY <1>1, <1>5
<1>9. PICK rest \in Nat, late \in 0 .. MaxLag : left' = rest /\ lag' = late
  BY <1>4
<1>10. pc = "waiting" =>
        /\ rest > 0 => late = 0
        /\ rest + 1 <= left + 0 \/ (rest = 0 /\ 1 = 1)
        /\ rest + 1 + lag <= left + 0 + late
        /\ 1 + Spent + lag < Slot + left
  BY <1>1, <1>6, <1>9
<1> QED
  BY <1>2, <1>3, <1>4, <1>7, <1>8, <1>9, <1>10, ForwardKeeps

LEMMA SetForwardKeeps ==
  ASSUME ClockInv, NEW d \in Shift, SetForward(d)
  PROVE  ClockInv'
<1> DEFINE t == (now + d) % DayLength
<1>1. /\ now \in 0 .. DayLength - 1 /\ DayLength \in Nat /\ Slot \in Nat \ {0}
      /\ left \in Nat /\ lag \in 0 .. MaxLag /\ upsets \in 0 .. Upsets
      /\ MaxLag \in Nat /\ Upsets \in Nat /\ DayLength = 24 * Slot
  BY DayFacts, MostFacts DEF ClockInv, ClockType
<1>2. /\ d > 0 /\ upsets > 0 /\ Advance(t) /\ upsets' = upsets - 1
      /\ UNCHANGED <<file, env, pc, hour, left, lag>>
  BY DEF SetForward, process
<1>3. /\ Spent' = Spent + Most /\ Spent \in Nat /\ Most \in Nat
      /\ MaxLag + Spent + Most < Slot
  <2>1. /\ Spent \in Nat /\ Spent' = Spent + Most /\ Spent + Most <= Upsets * Most
    BY <1>1, <1>2, SpentFacts
  <2>2. Most \in Nat /\ Upsets * Most \in Nat /\ MaxLag + Upsets * Most < Slot
    BY MostFacts
  <2> QED
    BY <1>1, <2>1, <2>2
<1>4. d \in 1 .. Slot /\ d <= Most
  <2>1. d \in Int /\ d <= Most
    BY <1>1, <1>2, MostFacts
  <2> QED
    BY <1>1, <1>2, <1>3, <2>1
<1>5. t \in 0 .. DayLength - 1 /\ (t = now + d \/ t = now + d - DayLength)
  <2>1. now + d \in 0 .. 2 * DayLength - 1 /\ d <= DayLength
    BY <1>1, <1>4
  <2>2. ASSUME NEW n, n = now + d
        PROVE  n % DayLength = IF n < DayLength THEN n ELSE n - DayLength
    BY <2>1, <2>2, ModDay
  <2> QED
    BY <1>1, <1>4, <2>1, <2>2
<1> HIDE DEF t
<1>6. upsets' \in 0 .. Upsets /\ Chosen' /\ LagOK
  <2>1. SetForward(d) \/ SetBack(d)
    OBVIOUS
  <2> QED
    BY <1>1, <1>2, <2>1, ChosenStep DEF ClockInv, Next
<1>7. PICK rest \in Nat, late \in 0 .. MaxLag :
        left = rest /\ left' = rest /\ lag = late /\ lag' = late
  BY <1>1, <1>2
<1>8. /\ left <= rest + d
      /\ rest + d <= left + Most
      /\ rest + d + lag <= left + Most + late
      /\ d + Spent + lag < Slot + left
  BY <1>1, <1>3, <1>4, <1>7
<1>9. pc = "waiting" => (rest > 0 => late = 0)
  BY <1>6, <1>7 DEF LagOK
<1> QED
  BY <1>2, <1>3, <1>4, <1>5, <1>6, <1>7, <1>8, <1>9, ForwardKeeps

-----------------------------------------------------------------------------
(* The clock is set back; the theorems. *)

LEMMA AheadNat ==
  ASSUME NEW t \in 0 .. DayLength - 1, NEW h \in 0 .. Day - 1
  PROVE  Ahead(t, h) \in Nat
BY AheadFacts, DayFacts

LEMMA SetBackKeeps ==
  ASSUME ClockInv, NEW d \in Shift, SetBack(d)
  PROVE  ClockInv'
<1>1. /\ now \in 0 .. DayLength - 1 /\ DayLength \in Nat /\ Slot \in Nat \ {0}
      /\ left \in Nat /\ lag \in 0 .. MaxLag /\ upsets \in 0 .. Upsets
      /\ MaxLag \in Nat /\ Upsets \in Nat /\ DayLength = 24 * Slot
      /\ again \subseteq 0 .. Day - 1 /\ lag \in Nat
  BY DayFacts, MostFacts DEF ClockInv, ClockType
<1>2. /\ d < 0 /\ upsets > 0 /\ upsets' = upsets - 1
      /\ now' = (now + d + DayLength) % DayLength
      /\ UNCHANGED <<file, env, pc, hour, left, lag, missed, runs>>
      /\ early' = (early \/ pc = "waiting")
      /\ Plan' = Plan
  BY DEF SetBack, process, Plan
<1>3. /\ Spent' = Spent + Most /\ Spent \in Nat /\ Most \in Nat
      /\ MaxLag + Spent + Most < Slot
  <2>1. /\ Spent \in Nat /\ Spent' = Spent + Most /\ Spent + Most <= Upsets * Most
    BY <1>1, <1>2, SpentFacts
  <2>2. Most \in Nat /\ Upsets * Most \in Nat /\ MaxLag + Upsets * Most < Slot
    BY MostFacts
  <2> QED
    BY <1>1, <2>1, <2>2
<1>4. PICK s \in 1 .. Slot : s = - d /\ d = - s /\ s <= Most
  <2>1. d \in Int /\ - Most <= d
    BY <1>1, <1>2, MostFacts
  <2>2. - d \in 1 .. Slot /\ d = - (- d) /\ - d <= Most
    BY <1>1, <1>2, <1>3, <2>1
  <2> QED
    BY <2>2
<1>5. PICK t \in 0 .. DayLength - 1 :
        now' = t /\ (now = t + s \/ now = t + s - DayLength)
  <2>1. now + d + DayLength \in 0 .. 2 * DayLength - 1 /\ s <= DayLength
    BY <1>1, <1>4
  <2>2. ASSUME NEW n, n = now + d + DayLength
        PROVE  n % DayLength = IF n < DayLength THEN n ELSE n - DayLength
    BY <2>1, <2>2, ModDay
  <2>3. now' = IF now + d + DayLength < DayLength THEN now + d + DayLength ELSE now + d
    BY <1>1, <1>2, <1>4, <2>1, <2>2
  <2>4. /\ now' \in 0 .. DayLength - 1
        /\ now = now' + s \/ now = now' + s - DayLength
    BY <1>1, <1>4, <2>1, <2>3
  <2> QED
    BY <2>4
<1> DEFINE H == HourAt(now)
           G == HourAt(t)
           was == Past(now)
           is == Past(t)
<1>6. G = H => was = is + s /\ \A h \in 0 .. Day - 1 : Ahead(t, h) = Ahead(now, h) + s
  <2>1. G = H => was = is + s /\ \A h \in 0 .. Day - 1 : Ahead(now, h) = Ahead(t, h) - s
    BY <1>1, <1>5, Later
  <2>2. \A h \in 0 .. Day - 1 : Ahead(now, h) \in Nat /\ Ahead(t, h) \in Nat
    BY <1>1, AheadNat
  <2> QED
    BY <2>1, <2>2
<1>7. G # H => /\ Ahead(t, H) = s - was
               /\ \A h \in 0 .. Day - 1 : h # H => Ahead(t, h) = Ahead(now, h) + s
  <2>1. G # H => /\ was = s - Ahead(t, H)
                 /\ \A h \in 0 .. Day - 1 : h # H => Ahead(now, h) = Ahead(t, h) - s
    BY <1>1, <1>5, Later
  <2>2. \A h \in 0 .. Day - 1 : Ahead(now, h) \in Nat /\ Ahead(t, h) \in Nat
    BY <1>1, AheadNat
  <2>3. H \in 0 .. Day - 1
    BY <1>1, HourFacts
  <2> HIDE DEF G, H, was, is
  <2>4. G # H => Ahead(t, H) = s - was
    BY <2>1, <2>2, <2>3
  <2> QED
    BY <2>1, <2>2, <2>4
<1>8. /\ \A h \in 0 .. Day - 1 : Ahead(now, h) \in Nat \ {0} /\ Ahead(t, h) \in Nat \ {0}
      /\ H \in 0 .. Day - 1 /\ G \in 0 .. Day - 1
      /\ was \in Nat /\ is \in Nat /\ was < Slot /\ is < Slot
      /\ Ahead(now, H) = DayLength - was
  <2>1. \A h \in 0 .. Day - 1 : h \in Nat
    BY DayFacts
  <2>2. \A h \in 0 .. Day - 1 : Ahead(now, h) \in Nat \ {0} /\ Ahead(t, h) \in Nat \ {0}
    BY <1>1, <2>1, AheadFacts
  <2>3. H \in 0 .. Day - 1 /\ G \in 0 .. Day - 1 /\ was \in 0 .. Slot - 1 /\ is \in 0 .. Slot - 1
    BY <1>1, HourFacts
  <2>4. Ahead(now, H) = DayLength - was
    BY <1>1, <2>1, <2>3, AheadFacts
  <2> QED
    BY <1>1, <2>2, <2>3, <2>4
<1>9. /\ HourAt(now)' = G /\ Past(now)' = is /\ Planned' = Planned
      /\ \A h : Ahead(now, h)' = Ahead(t, h)
  BY <1>2, <1>5 DEF Past, HourAt, Planned, Ahead
<1>10. /\ G # H /\ pc = "waiting" =>
            /\ owed' = {}
            /\ again' = IF owed = {} THEN again \cup {H} ELSE again
       /\ ~(G # H /\ pc = "waiting") => UNCHANGED <<owed, again>>
  BY <1>9 DEF SetBack
<1>11. H = HourAt(now) /\ was = Past(now)
  OBVIOUS
<1> HIDE DEF H, G, was, is
<1>12. H \notin again
  BY <1>1, <1>3, <1>8 DEF ClockInv, AgainOK
<1>13. Chosen'
  <2>1. SetForward(d) \/ SetBack(d)
    OBVIOUS
  <2> QED
    BY <2>1, ChosenStep DEF ClockInv, Next
<1>14. ClockType'
  <2>1. upsets' \in 0 .. Upsets
    BY <1>1, <1>2
  <2>2. owed' \subseteq Kind /\ again' \subseteq 0 .. Day - 1
    BY <1>8, <1>10 DEF ClockInv, ClockType
  <2>3. early' \in BOOLEAN
    BY <1>2 DEF ClockInv, ClockType
  <2> QED
    BY <1>2, <1>5, <2>1, <2>2, <2>3 DEF ClockInv, ClockType
<1>15. OweOK'
  <2>1. CASE G # H /\ pc = "waiting"
    BY <1>2, <1>10, <2>1 DEF OweOK
  <2>2. CASE ~(G # H /\ pc = "waiting")
    BY <1>2, <1>9, <1>10, <1>11, <2>2 DEF ClockInv, OweOK
  <2> QED
    BY <2>1, <2>2
<1>16. LagOK'
  BY <1>2 DEF ClockInv, LagOK
<1>17. AgainOK'
  <2>1. ASSUME NEW h \in again'
        PROVE  Ahead(t, h) <= Spent + Most
    <3>1. h \in 0 .. Day - 1 /\ (h \in again \/ h = H)
      BY <1>1, <1>8, <1>10
    <3>2. CASE h = H /\ G # H
      BY <1>1, <1>3, <1>4, <1>7, <1>8, <3>1, <3>2
    <3>3. CASE h \in again
      <4>1. h # H /\ Ahead(now, h) <= Spent
        BY <1>12, <3>3 DEF ClockInv, AgainOK
      <4>2. Ahead(t, h) = Ahead(now, h) + s
        BY <1>6, <1>7, <3>1, <4>1
      <4> QED
        BY <1>3, <1>4, <1>8, <3>1, <4>1, <4>2
    <3> QED
      BY <1>10, <3>1, <3>2, <3>3
  <2> QED
    BY <1>3, <1>9, <2>1 DEF AgainOK
<1>18. OnTime'
  <2> SUFFICES ASSUME pc = "waiting"
               PROVE  /\ \A h \in Planned :
                           left <= Ahead(t, h) + (Spent + Most)
                                     + IF h \in again' THEN DayLength ELSE 0
                      /\ owed' # {} => left + is <= (Spent + Most) + lag
    BY <1>2, <1>3, <1>9 DEF OnTime
  <2>1. /\ \A h \in Planned :
             left <= Ahead(now, h) + Spent + IF h \in again THEN DayLength ELSE 0
        /\ owed # {} => left + was <= Spent + lag
    BY <1>11 DEF ClockInv, OnTime
  <2>2. left > 0 => lag = 0
    BY DEF ClockInv, LagOK
  <2>3. ASSUME NEW h \in Planned
        PROVE  left <= Ahead(t, h) + (Spent + Most) + IF h \in again' THEN DayLength ELSE 0
    <3>1. h \in 0 .. Day - 1
      BY DEF Planned
    <3>2. CASE G # H /\ h = H
      <4>1. Ahead(t, h) = s - was /\ Ahead(t, h) \in Nat
        BY <1>7, <1>8, <3>1, <3>2
      <4>2. CASE owed = {}
        <5>1. h \in again' /\ left <= Ahead(now, h) + Spent + 0
          BY <1>10, <1>12, <2>1, <3>2, <4>2
        <5>2. Ahead(now, h) = DayLength - was
          BY <1>8, <3>2
        <5>3. left <= Ahead(t, h) + (Spent + Most) + DayLength
          BY <1>1, <1>3, <1>4, <1>8, <4>1, <5>1, <5>2
        <5> QED
          BY <5>1, <5>3
      <4>3. CASE owed # {}
        <5>1. h \notin again' /\ left + was <= Spent + lag
          BY <1>10, <1>12, <2>1, <3>2, <4>3
        <5>2. left <= Ahead(t, h) + (Spent + Most) + 0
          BY <1>1, <1>3, <1>4, <1>8, <2>2, <4>1, <5>1
        <5> QED
          BY <5>1, <5>2
      <4> QED
        BY <4>2, <4>3
    <3>3. CASE ~(G # H /\ h = H)
      <4> DEFINE more == IF h \in again THEN DayLength ELSE 0
      <4>1. /\ Ahead(t, h) = Ahead(now, h) + s /\ Ahead(now, h) \in Nat
        BY <1>6, <1>7, <1>8, <3>1, <3>3
      <4>2. h \in again' <=> h \in again
        BY <1>10, <3>3
      <4>3. more = IF h \in again' THEN DayLength ELSE 0
        BY <4>2
      <4>4. more \in Nat /\ left <= Ahead(now, h) + Spent + more
        BY <1>1, <2>1
      <4> HIDE DEF more
      <4>5. left <= Ahead(t, h) + (Spent + Most) + more
        BY <1>1, <1>3, <1>4, <4>1, <4>4
      <4> QED
        BY <4>3, <4>5
    <3> QED
      BY <3>2, <3>3
  <2>4. ASSUME owed' # {}
        PROVE  left + is <= (Spent + Most) + lag
    <3>1. G = H /\ owed # {}
      BY <1>10, <2>4
    <3>2. was = is + s /\ left + was <= Spent + lag
      BY <1>6, <2>1, <3>1
    <3> QED
      BY <1>1, <1>3, <1>4, <1>8, <3>2
  <2> QED
    BY <2>3, <2>4
<1>19. OnceOK'
  BY <1>2 DEF ClockInv, OnceOK
<1> QED
  BY <1>2, <1>13, <1>14, <1>15, <1>16, <1>17, <1>18, <1>19 DEF ClockInv

LEMMA ClockStep == ClockInv /\ [Next]_vars => ClockInv'
<1> SUFFICES ASSUME ClockInv, [Next]_vars
             PROVE  ClockInv'
  OBVIOUS
<1>1. ASSUME NEW f \in File, NEW e \in Env, Start(f, e)
      PROVE  ClockInv'
  BY <1>1, StartKeeps
<1>2. CASE Exit
  BY <1>2, ExitKeeps
<1>3. CASE Wait
  BY <1>3, WaitKeeps
<1>4. CASE Fire
  BY <1>4, FireKeeps
<1>5. CASE EndPass
  BY <1>5, EndPassKeeps
<1>6. CASE Tick
  BY <1>6, TickKeeps
<1>7. ASSUME NEW d \in Shift, SetForward(d)
      PROVE  ClockInv'
  BY <1>7, SetForwardKeeps
<1>8. ASSUME NEW d \in Shift, SetBack(d)
      PROVE  ClockInv'
  BY <1>8, SetBackKeeps
<1>9. CASE UNCHANGED vars
  <2> USE <1>9 DEF vars, process, history
  <2>1. Chosen'
    BY DEF ClockInv, Chosen, Running
  <2>2. ClockType' /\ LagOK'
    BY DEF ClockInv, ClockType, LagOK
  <2>3. OweOK' /\ OnceOK'
    BY DEF ClockInv, OweOK, OnceOK, HourAt, Past, Plan
  <2>4. AgainOK' /\ OnTime'
    BY DEF ClockInv, AgainOK, OnTime, Ahead, Past, HourAt, Spent, Planned, Plan
  <2> QED
    BY <2>1, <2>2, <2>3, <2>4 DEF ClockInv
<1> QED
  BY <1>1, <1>2, <1>3, <1>4, <1>5, <1>6, <1>7, <1>8, <1>9 DEF Next

LEMMA ClockAlways == Spec => []ClockInv
BY ClockInit, ClockStep, PTL DEF Spec

(* Every hour of the plan that strikes while Run waits for its timer gets   *)
(* its passes, the check-in and the keep-alive where both are due, although *)
(* the goroutine wakes up late and the wall clock is set on or back between *)
(* arming the timer and reading the hour again (scheduler.go:55-76).        *)
THEOREM HoursAreServed == Spec => []Punctual
<1>1. ClockInv => Punctual
  BY DEF ClockInv, Punctual
<1> QED
  BY <1>1, ClockAlways, PTL

(* No kind of pass begins twice in one hour by timers that neither a clock  *)
(* set back nor a negative hour made early: for any plan, nextFire() never  *)
(* returns an hour that has struck already, unless the hour is a negative   *)
(* one of which it finds the time past (scheduler.go:38-50).                *)
THEOREM PassesRunOnce == Spec => []NoRepeat
<1>1. ClockInv => NoRepeat
  BY DEF ClockInv, OnceOK, NoRepeat
<1> QED
  BY <1>1, ClockAlways, PTL

(* The hours a file names are not past the day, midnight among them twice.  *)
DayHours ==
  \A f \in File \ {Missing, Broken}, k \in Hours :
    f[k] = Unset \/ \A h \in f[k] : h <= Day

LEMMA TimerInADay ==
  ASSUME DayHours, ClockInv, Wait
  PROVE  left' <= DayLength
<1>1. /\ ClockType /\ Chosen /\ Running
  BY DEF ClockInv, Wait, Running
<1>2. /\ NextFire \in Int
      /\ \E h \in Plan["checkin"] \cup Plan["keepalive"] : h \in Int /\ NextFire = Ahead(now, h)
  BY <1>1, NextFireFacts
<1>3. PICK h \in Plan["checkin"] \cup Plan["keepalive"] : h \in Int /\ NextFire = Ahead(now, h)
  BY <1>2
<1>4. \A k \in Kind : \A g \in Plan[k] : g <= Day
  <2>1. file \in File \ {Missing, Broken} /\ env \in Env
    BY <1>1 DEF Chosen
  <2>2. \A k \in Kind : file[k] = Unset \/ \A g \in file[k] : g <= Day
    BY <2>1 DEF DayHours, Hours, Kind
  <2> QED
    BY <2>1, <2>2, PlanHours DEF Plan
<1>5. h <= Day /\ now \in 0 .. DayLength - 1
  BY <1>1, <1>3, <1>4 DEF Kind, ClockType
<1>6. Ahead(now, h) <= DayLength
  BY <1>3, <1>5, UntilFacts
<1>7. left' = IF NextFire > 0 THEN NextFire ELSE 0
  BY DEF Wait
<1> QED
  BY <1>2, <1>3, <1>6, <1>7, DayFacts

(* The variables of Run keep their types, and with no hour past 24 in the   *)
(* file the timer of nextFire() is never set for more than a day            *)
(* (scheduler.go:38-76).                                                    *)
THEOREM ClockTypeCorrect ==
  ASSUME DayHours
  PROVE  Spec => []TypeOK
<1> DEFINE Short == pc = "waiting" => left <= DayLength
<1>1. Init => Short
  BY DEF Init
<1>2. ClockInv /\ Short /\ [Next]_vars => Short'
  <2> SUFFICES ASSUME ClockInv, Short, [Next]_vars, pc' = "waiting"
               PROVE  left' <= DayLength
    OBVIOUS
  <2>1. left \in Nat /\ DayLength \in Nat
    BY DayFacts DEF ClockInv, ClockType
  <2>2. CASE Wait
    BY <2>2, TimerInADay
  <2>3. CASE Tick
    BY <2>1, <2>3 DEF Tick
  <2>4. CASE pc = "waiting" /\ left' = left
    BY <2>4
  <2>5. ASSUME NEW d \in Shift, SetForward(d) \/ SetBack(d)
        PROVE  left' <= DayLength
    BY <2>4, <2>5 DEF SetForward, SetBack, process
  <2>6. CASE UNCHANGED vars
    BY <2>4, <2>6 DEF vars, process
  <2>7. ~ Exit /\ \A f \in File, e \in Env : ~ Start(f, e)
    BY DEF Exit, Start
  <2>8. ~ Fire /\ ~ EndPass
    <3>1. \A stage \in Kind \cup {"free"} : ~ Go(stage)
      BY DEF Go, Kind
    <3>2. /\ Stage(HourAt(now), Kind) \in Kind \cup {"free"}
          /\ Stage(hour, {"keepalive"}) \in Kind \cup {"free"}
      BY StageFacts
    <3> QED
      BY <3>1, <3>2 DEF Fire, EndPass
  <2> QED
    BY <2>2, <2>3, <2>5, <2>6, <2>7, <2>8 DEF Next
<1>3. ClockInv /\ Short => TypeOK
  BY DEF ClockInv, ClockType, TypeOK
<1> HIDE DEF Short
<1> QED
  BY <1>1, <1>2, <1>3, ClockAlways, PTL DEF Spec
==================================================================================
