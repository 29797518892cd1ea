----------------------------- MODULE AccountLife -----------------------------
(***************************************************************************)
(* What the account pool of internal/pool/pool.go promises about one       *)
(* account, and nothing of how it keeps the promise: an account is absent  *)
(* from the pool, ready to be picked, cooling, or disabled, and this is    *)
(* how it may move between the four.  The specification has no credits, no *)
(* error counters, no state file and no clock; module Pool, which has all  *)
(* of them and loses its memory at a crash, implements it.                 *)
(***************************************************************************)
CONSTANT Uid

VARIABLE avail    \* the availability of each account

Availability == {"absent", "ready", "cooling", "disabled"}

(* A restricted account is one Pick refuses although the pool holds it. *)
Restricted(u) == avail[u] \in {"cooling", "disabled"}

Init == avail = [u \in Uid |-> "absent"]

(* A credential is added for an account the pool did not hold. *)
Admit(u) ==
  /\ avail[u] = "absent"
  /\ avail' = [avail EXCEPT ![u] = "ready"]

(* An upstream refusal or a run of errors cools an account that is in use. *)
Cool(u) ==
  /\ avail[u] = "ready"
  /\ avail' = [avail EXCEPT ![u] = "cooling"]

(* The credential is dead.  There is no action that takes "disabled" away  *)
(* from an account while the pool holds it.                                *)
Ban(u) ==
  /\ avail[u] \in {"ready", "cooling"}
  /\ avail' = [avail EXCEPT ![u] = "disabled"]

(* Cooldowns end, by the clock (several at once) or by fresh credits. *)
Thaw ==
  \E S \in SUBSET {u \in Uid : avail[u] = "cooling"} :
    avail' = [u \in Uid |-> IF u \in S THEN "ready" ELSE avail[u]]

(* The auth directory is rescanned: accounts come and go. *)
Rescan ==
  \E Dir \in SUBSET Uid :
    avail' = [u \in Uid |-> IF u \notin Dir THEN "absent"
                            ELSE IF avail[u] = "absent" THEN "ready"
                            ELSE avail[u]]

(* A crash and restart may forget a ready account or bring an absent one   *)
(* back in any condition, but no restricted account comes out of it any    *)
(* freer than it went in.                                                  *)
Restart ==
  /\ avail' \in [Uid -> Availability]
  /\ \A u \in Uid : Restricted(u) => avail'[u] = avail[u]

Next ==
  \/ \E u \in Uid : Admit(u) \/ Cool(u) \/ Ban(u)
  \/ Thaw
  \/ Rescan
  \/ Restart

Spec == Init /\ [][Next]_avail
==============================================================================
