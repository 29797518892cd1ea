----------------------------- MODULE SchedulerClock -----------------------------
(***************************************************************************)
(* When the scheduler runs its passes: Run and nextFire of                 *)
(* internal/scheduler/scheduler.go, in a process that main() starts with   *)
(* the settings of module Config.  Run computes the next full hour of its  *)
(* plan from the wall clock and arms a timer; the timer counts real time,  *)
(* and when it has fired the hour is read from the wall clock again.       *)
(* Meanwhile somebody may set the wall clock, and a pass takes time.       *)
(*                                                                         *)
(* Time passes in ticks, Slot of them an hour.  What a pass does to the    *)
(* accounts is module Relay's subject.                                     *)
(***************************************************************************)
EXTENDS Config, FiniteSetsExt

CONSTANTS
  File,      \* what config.json may be when the process starts
  Env,       \* what the environment may say then
  Slot,      \* ticks of an hour
  MaxLag,    \* ticks the goroutine may be late between two waits
  MaxPass,   \* ticks a pass takes at most, as a rule
  LongPass,  \* ticks a pass may take as an exception
  Shift,     \* by how many ticks the wall clock may be set
  Upsets     \* how often it is set, a pass is long or the process ends

VARIABLES
  file,    \* config.json when the process started
  env,     \* the environment then
  pc,      \* the process: down or fatal; or Run: free, waiting, or in a pass
  hour,    \* h, the hour Run read last
  left,    \* ticks until the timer fires or the pass is over
  now,     \* the wall clock, in ticks since midnight
  lag,     \* ticks the goroutine has lost since it last began to wait
  upsets,  \* exceptions still to come
  owed,    \* history: the kinds of pass that are due in this hour
  missed,  \* history: the kinds of pass that were due and did not run
  runs,    \* history: passes begun in this hour, up to 2, by a timer not early
  early,   \* history: the timer was set too early, or the clock back since
  again    \* history: hours that strike again with nothing more due in them

process == <<file, env, pc, hour, left>>
history == <<owed, missed, runs, early, again>>
vars == <<process, now, lag, upsets, history>>

Kind == {"checkin", "keepalive"}
DayLength == Day * Slot
NoEnv == [k \in DOMAIN Default |-> Unset]

(* A number in the file is one, or else the file is broken. *)
ASSUME TextAssumption ==
  /\ {Missing, Broken} \cap {Unset, Bad} = {}
  /\ \A e \in Env : Says(e) /\ \A k \in Hours \cup {"region"} : e[k] = Unset
  /\ \A f \in File \ {Missing, Broken} : Says(f) /\ \A k \in Number : f[k] # Bad
ASSUME SlotAssumption == Slot \in Nat \ {0}
ASSUME SetAssumption == \A d \in Shift : d \in Int /\ d # 0
ASSUME BoundAssumption ==
  /\ {MaxLag, MaxPass, LongPass, Upsets} \subseteq Nat
  /\ MaxLag + 2 * MaxPass < Slot
  /\ \A d \in Shift : MaxLag + Upsets * d < Slot /\ MaxLag - Upsets * d < Slot

Running == pc \notin {"down", "fatal"}
Plan == Settings(file, env)
HourAt(t) == t \div Slot

Init ==
  /\ file = Missing /\ env = NoEnv
  /\ pc = "down" /\ hour = 0 /\ left = 0
  /\ now \in 0 .. DayLength - 1
  /\ lag = 0 /\ upsets = Upsets
  /\ owed = {} /\ missed = {} /\ runs = [k \in Kind |-> 0] /\ early = FALSE /\ again = {}

-----------------------------------------------------------------------------
(* Mutations of Until: the hour that strikes right now is still to come;    *)
(* always tomorrow.                                                         *)
UntilNow(h) == LET d == h * Slot - now IN IF d >= 0 THEN d ELSE d + DayLength
UntilTomorrow(h) == h * Slot - now + DayLength

(* Ticks until h o'clock of today, or a day later if that is past, which a  *)
(* negative hour may be still.                                              *)
Until(h) == LET d == h * Slot - now IN IF d > 0 THEN d ELSE d + DayLength

(* Mutation of NextFire: the last of the hours instead of the first. *)
NextFireLast == Max({Until(h) : h \in Plan["checkin"] \cup Plan["keepalive"]})

(* nextFire() *)
NextFire == Min({Until(h) : h \in Plan["checkin"] \cup Plan["keepalive"]})

(* A negative hour of the plan makes nextFire() return a time that is past. *)
Overdue == \E h \in Plan["checkin"] \cup Plan["keepalive"] : h < 0 /\ Until(h) <= 0

(* main(): the settings are loaded, or the process ends at once. *)
Start(f, e) ==
  /\ ~Running
  /\ file' = f /\ env' = e
  /\ pc' = IF Accepted(f, e) THEN "free" ELSE "fatal"
  /\ UNCHANGED <<hour, left, now, lag, upsets, history>>

(* The process ends, by a signal or otherwise, and its passes with it. *)
Exit ==
  /\ Running /\ upsets > 0
  /\ file' = Missing /\ env' = NoEnv
  /\ pc' = "down" /\ hour' = 0 /\ left' = 0 /\ lag' = 0
  /\ upsets' = upsets - 1
  /\ owed' = {} /\ early' = FALSE /\ again' = {}
  /\ UNCHANGED <<now, missed, runs>>

(* A timer for a time that is past fires at once. *)
Wait ==
  /\ pc = "free"
  /\ pc' = "waiting" /\ left' = (IF NextFire > 0 THEN NextFire ELSE 0)
  /\ hour' = 0 /\ lag' = 0
  /\ early' = Overdue
  /\ UNCHANGED <<file, env, now, upsets, owed, missed, runs, again>>

(* Mutation of Stage: one kind of pass an hour. *)
StageOnly(h, todo) ==
  IF h \in Plan["checkin"] THEN (IF "checkin" \in todo THEN "checkin" ELSE "free")
  ELSE IF h \in Plan["keepalive"] THEN "keepalive" ELSE "free"

(* What Run does next of the passes todo, when it read hour h. *)
Stage(h, todo) ==
  IF "checkin" \in todo /\ h \in Plan["checkin"] THEN "checkin"
  ELSE IF "keepalive" \in todo /\ h \in Plan["keepalive"] THEN "keepalive"
  ELSE "free"

Go(stage) ==
  /\ pc' = stage
  /\ \/ /\ left' \in IF stage \in Kind THEN 0 .. MaxPass ELSE {0}
        /\ UNCHANGED upsets
     \/ /\ stage \in Kind /\ upsets > 0
        /\ left' = LongPass
        /\ upsets' = upsets - 1
  /\ owed' = owed \ {stage}
  /\ runs' = [k \in Kind |->
                IF k = stage /\ ~early /\ runs[k] < 2 THEN runs[k] + 1 ELSE runs[k]]
  /\ UNCHANGED <<file, env, now, lag, missed, early, again>>

Fire ==
  /\ pc = "waiting" /\ left = 0
  /\ hour' = HourAt(now)
  /\ Go(Stage(HourAt(now), Kind))

EndPass ==
  /\ pc \in Kind /\ left = 0
  /\ Go(IF pc = "checkin" THEN Stage(hour, {"keepalive"}) ELSE "free")
  /\ UNCHANGED hour

-----------------------------------------------------------------------------
(* The hour on the clock changes to h: what is due in it is owed if Run was *)
(* waiting when it struck, and what was owed before has been missed, unless *)
(* the pass under way still goes on to it.                                  *)
Strike(h) ==
  /\ missed' = IF pc \in Kind THEN missed ELSE missed \cup owed
  /\ owed' = CASE pc = "waiting" /\ h \notin again -> {k \in Kind : h \in Plan[k]}
               [] pc \in Kind -> owed
               [] OTHER -> {}
  /\ again' = again \ {h}
  /\ runs' = [k \in Kind |-> 0]
  /\ UNCHANGED early

(* The clock goes on to, or is set to, time t. *)
Advance(t) ==
  /\ now' = t
  /\ IF HourAt(t) # HourAt(now) THEN Strike(HourAt(t))
     ELSE UNCHANGED history

(* The goroutine has something to do. *)
Ready == pc = "free" \/ (pc \in Kind \cup {"waiting"} /\ left = 0)

Tick ==
  /\ Ready => lag < MaxLag
  /\ Advance((now + 1) % DayLength)
  /\ left' = IF left > 0 THEN left - 1 ELSE 0
  /\ lag' = IF Ready THEN lag + 1 ELSE lag
  /\ UNCHANGED <<file, env, pc, hour, upsets>>

SetForward(d) ==
  /\ d > 0 /\ upsets > 0
  /\ Advance((now + d) % DayLength)
  /\ upsets' = upsets - 1
  /\ UNCHANGED <<process, lag>>

(* An hour the clock is set back before will strike again: what is owed in  *)
(* it then is what is owed in it now.                                       *)
SetBack(d) ==
  /\ d < 0 /\ upsets > 0
  /\ now' = (now + d + DayLength) % DayLength
  /\ IF HourAt(now') # HourAt(now) /\ pc = "waiting"
     THEN /\ owed' = {}
          /\ again' = IF owed = {} THEN again \cup {HourAt(now)} ELSE again
     ELSE UNCHANGED <<owed, again>>
  /\ early' = (early \/ pc = "waiting")
  /\ upsets' = upsets - 1
  /\ UNCHANGED <<process, lag, missed, runs>>

Next ==
  \/ \E f \in File, e \in Env : Start(f, e)
  \/ Exit
  \/ Wait \/ Fire \/ EndPass
  \/ Tick
  \/ \E d \in Shift : SetForward(d) \/ SetBack(d)

Spec == Init /\ [][Next]_vars

(* Time passes, and a goroutine that is ready runs.  Nobody need start the  *)
(* process, set the clock or end the process.                               *)
FairSpec == Spec /\ WF_vars(Tick) /\ WF_vars(Wait) /\ WF_vars(Fire) /\ WF_vars(EndPass)

-----------------------------------------------------------------------------
(* The variables have their types, and no timer is set for more than a day. *)
TypeOK ==
  /\ pc \in {"down", "fatal", "free", "waiting"} \cup Kind
  /\ hour \in 0 .. Day - 1 /\ now \in 0 .. DayLength - 1
  /\ left \in Nat /\ (pc = "waiting" => left <= DayLength)
  /\ lag \in 0 .. MaxLag /\ upsets \in 0 .. Upsets
  /\ owed \subseteq Kind /\ missed \subseteq Kind
  /\ runs \in [Kind -> 0 .. 2] /\ early \in BOOLEAN /\ again \subseteq 0 .. Day - 1

(* Whatever the file and the environment say, a server that runs has what   *)
(* the pool and the scheduler rely on: cooldowns that end in the future, an *)
(* error threshold of at least one, a timeout, and hours to fire at.        *)
Usable ==
  Running => /\ \A k \in Duration \cup Number : Plan[k] > 0
             /\ \A k \in Hours : Plan[k] # {}

(* An hour of the plan that strikes while the scheduler waits gets its      *)
(* passes, both of them where both are due, although the goroutine may be   *)
(* late and the wall clock may be set, by less than an hour in all: the     *)
(* hour is read when the timer fires, and a timer that fires early is set   *)
(* again.                                                                   *)
Punctual == missed = {}

(* When an hour has struck once no kind of pass runs twice in it: not after *)
(* a pass that took no time, not after a restart, and not after the clock   *)
(* was set.  There are two exceptions.  A timer that a clock set back has   *)
(* made early: where two hours of the plan follow each other it fires in    *)
(* the first again.  And a negative hour in the plan, -3 say: from 21:00 on *)
(* nextFire() takes it for 21:00 of the same day, which is past             *)
(* (scheduler.go:41-44), so that until midnight each timer fires at once,   *)
(* and what is due in such an hour runs over and over.                      *)
NoRepeat == \A k \in Kind : runs[k] <= 1

(* As long as the process runs, every hour of the plan gets its passes      *)
(* again and again: no hour is forgotten for good after late timers, long   *)
(* passes and changes of the clock.  This is for a plan without negative    *)
(* hours: Run is busy until midnight on account of one, and a goroutine     *)
(* that is late each time between reading 23 and arming the next timer      *)
(* would lose the midnight passes each time.                                *)
EveryHourServed ==
  \A k \in Kind, h \in 0 .. Day - 1 :
    <>[](Running /\ h \in Plan[k] /\ \A j \in Kind : Plan[j] \subseteq Nat)
      => []<>(pc = k /\ hour = h)

(* What the message at main.go:30 says: without a config file the server    *)
(* uses defaults and environment.                                           *)
MissingMeansDefaults ==
  (file = Missing /\ Acceptable(Overlay(Default, Heard(env)))) => pc # "fatal"
=================================================================================
