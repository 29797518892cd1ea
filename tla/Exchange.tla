------------------------------- MODULE Exchange -------------------------------
(***************************************************************************)
(* One exchange with the upstream, as ChatForward in                       *)
(* internal/upstream/chat.go and the caller that reads its answer make it: *)
(* the body is encoded, signed (cosy.go) and posted, and the stream that   *)
(* comes back is read to its end.  The signature itself, a digest of the   *)
(* text on the wire and of headers that travel with it, is left out.  What *)
(* refusals lead to is module Relay's subject.                             *)
(***************************************************************************)
EXTENDS Stream, QoderEncoding

CONSTANT Body  \* the base64 texts of bodies

ASSUME BodyAssumption == Body \subseteq Seq(Std \cup {Pad})

VARIABLES
  phase,   \* idle, encoded, posted, answering
  body,    \* history: the text that was encoded
  wire     \* the request as it travels

request == <<body, wire>>
vars == <<phase, request, seen, out, doneLines, streamEnd, agg, aggEnd>>

TypeOK ==
  /\ phase \in {"idle", "encoded", "posted", "answering"}
  /\ body \in Seq(Std \cup {Pad})
  /\ wire \in Seq(WireLetters)
  /\ seen \in Seq(Chunk)
  /\ Len(out) <= Len(seen) /\ Len(doneLines) <= 1
  /\ streamEnd \in {"reading", "done", "failed"}
  /\ aggEnd \in {"reading", "done", "failed"}
  /\ DOMAIN agg.calls = ToSet(agg.order)

Init ==
  /\ phase = "idle"
  /\ body = <<>> /\ wire = <<>>
  /\ StreamInit

Encode ==
  /\ phase = "idle"
  /\ \E b \in Body :
       /\ body' = b
       /\ wire' = QoderEncode(b)
  /\ phase' = "encoded"
  /\ UNCHANGED streamVars

(* ApplyHeaders() and HTTP.Do. *)
Post ==
  /\ phase = "encoded"
  /\ phase' = "posted"
  /\ UNCHANGED <<request, streamVars>>

Forget == body' = <<>> /\ wire' = <<>>

(* The transport fails or the status is 400 or above; or there is no        *)
(* machine fingerprint to sign with.                                        *)
Refuse ==
  /\ phase \in {"encoded", "posted"}
  /\ phase' = "idle" /\ Forget
  /\ UNCHANGED streamVars

(* The upstream answers with a stream. *)
Accept ==
  /\ phase = "posted"
  /\ phase' = "answering" /\ Forget
  /\ UNCHANGED streamVars

Answering == phase = "answering" /\ StreamNext /\ UNCHANGED <<phase, request>>

Next == Encode \/ Post \/ Refuse \/ Accept \/ Answering

Spec == Init /\ [][Next]_vars

-----------------------------------------------------------------------------
(* The upstream reads what was meant: QoderDecode undoes QoderEncode for   *)
(* every body, whatever remainder its length leaves when it is cut in      *)
(* thirds, pads included (encoding.go:35 and 57).                          *)
ReadBack ==
  phase = "posted" => QoderDecode(wire) = [ok |-> TRUE, text |-> body]
==============================================================================
