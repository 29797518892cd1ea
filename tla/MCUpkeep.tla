------------------------------- MODULE MCUpkeep -------------------------------
(* The scheduler with the default plan, with settings that have to be put   *)
(* right, with a plan of hours that follow each other, one of them for both *)
(* passes and one that does not exist, and with a plan that has a negative  *)
(* hour.                                                                    *)
EXTENDS SchedulerClock

Only(said) == [k \in DOMAIN Default |-> IF k \in DOMAIN said THEN said[k] ELSE Unset]

MCFile ==
  {Missing, Broken, NoEnv, Only([region |-> "global"]),
   Only([hard |-> 0, soft |-> -1, threshold |-> 0, timeout |-> -5, checkin |-> {}]),
   Only([checkin |-> {1, 2}, keepalive |-> {2, 24}]),
   Only([checkin |-> {-3, 21}])}

MCEnv ==
  {NoEnv, Only([soft |-> Bad]), Only([threshold |-> Bad, err |-> 0])}

MCShift == {-1, 1}
===============================================================================
