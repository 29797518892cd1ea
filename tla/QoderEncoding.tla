---------------------------- MODULE QoderEncoding ----------------------------
(***************************************************************************)
(* internal/upstream/encoding.go: the encoding of a request body.  The     *)
(* base64 text of the body is cut in three, its first and last third       *)
(* change places, and every letter is written in another alphabet.         *)
(*                                                                         *)
(* base64 itself is the standard library's: a body is its base64 text      *)
(* here, a sequence of letters of Std and of pads.                         *)
(***************************************************************************)
EXTENDS Integers, Sequences

CONSTANTS
  Std,     \* stdAlphabet
  Pad,     \* '='
  Custom,  \* customAlphabet as a function: letter of Std -> the letter written
  WirePad  \* customPad

ASSUME AlphabetAssumption ==
  /\ Custom = [c \in Std |-> Custom[c]]
  /\ \A c, d \in Std : Custom[c] = Custom[d] => c = d
  /\ \A c \in Std : Custom[c] # WirePad
  /\ Pad \notin Std

(* The tables stdToCustom, with the pad, and customToStd. *)
Written == [c \in Std \cup {Pad} |-> IF c = Pad THEN WirePad ELSE Custom[c]]
WireLetters == {Written[c] : c \in Std \cup {Pad}}
Read == [w \in WireLetters |-> CHOOSE c \in Std \cup {Pad} : Written[c] = w]

Rearranged(s) ==
  LET n == Len(s)
      a == n \div 3
  IN  SubSeq(s, n - a + 1, n) \o SubSeq(s, a + 1, n - a) \o SubSeq(s, 1, a)

QoderEncode(s) ==
  LET r == Rearranged(s) IN [i \in 1 .. Len(s) |-> Written[r[i]]]

Refused == [ok |-> FALSE, text |-> <<>>]

(* Mutation of QoderDecode: the thirds are rotated instead of exchanged. *)
DecodeRotated(e) ==
  LET m == [i \in 1 .. Len(e) |-> Read[e[i]]]
      a == Len(e) \div 3
  IN  IF \E i \in 1 .. Len(e) : e[i] \notin WireLetters
      THEN Refused
      ELSE [ok |-> TRUE, text |-> SubSeq(m, a + 1, Len(e)) \o SubSeq(m, 1, a)]

QoderDecode(e) ==
  IF \E i \in 1 .. Len(e) : e[i] \notin WireLetters
  THEN Refused
  ELSE [ok |-> TRUE, text |-> Rearranged([i \in 1 .. Len(e) |-> Read[e[i]]])]
==============================================================================
