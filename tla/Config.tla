-------------------------------- MODULE Config --------------------------------
(***************************************************************************)
(* Where the settings of the server come from: the defaults, the file, the *)
(* QW2A_* environment and the repairs of cmd/server/config.go, and what    *)
(* NewHandler and scheduler.New still put right.  A duration is its length *)
(* in seconds, or Bad when its text cannot be parsed.  The listening       *)
(* address, the paths and the API key are left out.                        *)
(***************************************************************************)
EXTENDS Integers, FiniteSets

CONSTANTS
  Missing,  \* the file does not exist
  Broken,   \* the file cannot be read or is not JSON of the right types
  Unset,    \* a key the file or the environment does not have
  Bad       \* a text that is not what it should be

Duration == {"hard", "soft", "err"}
Number == {"threshold", "timeout"}
Hours == {"checkin", "keepalive"}

(* What a file or an environment says; regions are in lower case.  An hour  *)
(* is any number: nobody asks whether it is one of the day.                 *)
Says(text) ==
  /\ DOMAIN text = Duration \cup Number \cup Hours \cup {"region"}
  /\ \A k \in Duration \cup Number : text[k] \in {Bad, Unset} \/ text[k] \in Int
  /\ \A k \in Hours : text[k] = Unset \/ (text[k] \subseteq Int /\ IsFiniteSet(text[k]))
  /\ text["region"] \in {"cn", "", "global", Unset}

Day == 24

Default ==
  [hard |-> 12 * 3600, soft |-> 60, err |-> 600, threshold |-> 3, timeout |-> 180,
   checkin |-> {9, 21}, keepalive |-> {0, 12}, region |-> "cn"]

(* json.Unmarshal into a Config, and applyEnv: what is said replaces.       *)
Overlay(c, text) == [k \in DOMAIN c |-> IF text[k] = Unset THEN c[k] ELSE text[k]]

(* applyEnv skips numbers that do not parse. *)
Heard(env) ==
  [k \in DOMAIN env |-> IF k \in Number /\ env[k] = Bad THEN Unset ELSE env[k]]

Load(file, env) == Overlay(Overlay(Default, file), Heard(env))

(* normalize() finds nothing to refuse. *)
Acceptable(c) ==
  /\ \A k \in Duration : c[k] # Bad
  /\ c["region"] \in {"cn", ""}

(* main() goes on.  It means to load the defaults when there is no file,    *)
(* but os.IsNotExist does not look into the error that Load wraps.          *)
Accepted(file, env) == file \notin {Missing, Broken} /\ Acceptable(Load(file, env))

(* Mutation of OrDefault: zero is taken for a setting. *)
OrDefaultZero(c, k) == IF c[k] >= 0 THEN c[k] ELSE Default[k]

OrDefault(c, k) == IF c[k] > 0 THEN c[k] ELSE Default[k]

(* The settings of a running server: normalize(), NewHandler and            *)
(* scheduler.New replace what is not positive, and empty plans.             *)
Settings(file, env) ==
  LET c == Load(file, env)
  IN  [k \in DOMAIN c \ {"region"} |->
         IF k \in Hours THEN (IF c[k] = {} THEN Default[k] ELSE c[k])
         ELSE OrDefault(c, k)]
===============================================================================
