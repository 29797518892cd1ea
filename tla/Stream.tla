-------------------------------- MODULE Stream --------------------------------
(***************************************************************************)
(* internal/upstream/sse.go: what becomes of the upstream's stream of      *)
(* chunks.  A client that asked for a stream gets chunk after chunk from   *)
(* StreamAsOpenAI; a client that did not gets one message, which           *)
(* AggregateNested puts together.  Both are modelled side by side over the *)
(* same upstream lines, so that their results can be compared.             *)
(*                                                                         *)
(* A chunk is the delta of its one choice.  Its text is a function from    *)
(* the keys present in the JSON object ("content", "reasoning_content") to *)
(* text; the head of a fragment of a tool call stands for its id, type and *)
(* name, which are treated alike, NoHead for the empty or missing one; a   *)
(* missing index is read as 0.  Left out are role and usage, of which the  *)
(* last one given counts, as with finish_reason; id and created, of which  *)
(* the first one given counts; and the model's name, which both put in.    *)
(* Lines that are no chunk ("event:finish", blank or malformed ones)       *)
(* change nothing: they are stuttering steps.                              *)
(***************************************************************************)
EXTENDS Integers, Sequences, FiniteSets, SequencesExt

CONSTANTS
  Letter,     \* what texts are made of
  Heading,    \* what the id, type and name of a call may be
  Chunk,      \* the chunks the upstream may send
  MaxChunks,  \* bound: chunks in a stream
  NoHead,     \* an absent id, type and name
  NoReason,   \* an absent finish_reason
  Stop        \* the finish_reason "stop"

VARIABLES
  seen,       \* history: the chunks the upstream has sent
  out,        \* the deltas written to the client that streams
  doneLines,  \* how often it was sent [DONE], and after how many deltas
  streamEnd,  \* how StreamAsOpenAI stands
  agg,        \* the local variables of AggregateNested
  aggEnd      \* how AggregateNested stands

streamVars == <<seen, out, doneLines, streamEnd, agg, aggEnd>>

Key == {"content", "reasoning_content"}
Fragment == [index: Int, head: Heading \cup {NoHead}, args: Seq(Letter)]

ASSUME ChunkAssumption ==
  \A c \in Chunk :
    /\ c = [text |-> c.text, calls |-> c.calls, finish |-> c.finish]
    /\ DOMAIN c.text \subseteq Key /\ c.text \in [DOMAIN c.text -> Seq(Letter)]
    /\ c.calls \in Seq(Fragment)

-----------------------------------------------------------------------------
(* StreamAsOpenAI *)

(* Mutation of Normalized: the empty keys stay. *)
AsSent(c) == c

(* normalizeDeltaKeys(): empty text keys go. *)
Normalized(c) ==
  [c EXCEPT !.text = [k \in {k \in DOMAIN @ : @[k] # <<>>} |-> @[k]]]

-----------------------------------------------------------------------------
(* AggregateNested *)

Nothing ==
  [text |-> [k \in Key |-> <<>>], finish |-> Stop, order |-> <<>>, calls |-> <<>>]

(* Mutation of MergedCall: a later fragment without a head clears it. *)
HeadReplaced(call, f) ==
  [head |-> f.head, args |-> call.args \o f.args]

(* mergeToolCallDelta() *)
MergedCall(call, f) ==
  [head |-> IF f.head # NoHead THEN f.head ELSE call.head,
   args |-> call.args \o f.args]

NewCall == [head |-> NoHead, args |-> <<>>]

(* Mutation of WithFragment: only a fragment with a head opens a call. *)
WithFragmentByHead(a, f) ==
  IF f.index \in ToSet(a.order)
  THEN [a EXCEPT !.calls[f.index] = MergedCall(@, f)]
  ELSE [a EXCEPT !.order = IF f.head # NoHead THEN Append(@, f.index) ELSE @,
                 !.calls = [i \in DOMAIN @ \cup {f.index} |->
                              IF i = f.index THEN MergedCall(NewCall, f) ELSE @[i]]]

WithFragment(a, f) ==
  IF f.index \in ToSet(a.order)
  THEN [a EXCEPT !.calls[f.index] = MergedCall(@, f)]
  ELSE [a EXCEPT !.order = Append(@, f.index),
                 !.calls = [i \in DOMAIN @ \cup {f.index} |->
                              IF i = f.index THEN MergedCall(NewCall, f) ELSE @[i]]]

TextOf(c, k) == IF k \in DOMAIN c.text THEN c.text[k] ELSE <<>>

WithText(a, c) ==
  [a EXCEPT !.text = [k \in Key |-> @[k] \o TextOf(c, k)],
            !.finish = IF c.finish # NoReason THEN c.finish ELSE @]

Aggregated(a, c) == FoldLeft(WithFragment, WithText(a, c), c.calls)

Swapped(s, i, j) == [s EXCEPT ![i] = s[j], ![j] = s[i]]

Exchanged(s, i, j) == IF s[j] < s[i] THEN Swapped(s, i, j) ELSE s

(* Mutation of Pass: an element is not compared with the next one. *)
PassSkipping(s, i) ==
  FoldLeft(LAMBDA t, j : Exchanged(t, i, j), s, [k \in 1 .. Len(s) - i - 1 |-> i + 1 + k])

(* An element is exchanged with each smaller one after it. *)
Pass(s, i) ==
  FoldLeft(LAMBDA t, j : Exchanged(t, i, j), s, [k \in 1 .. Len(s) - i |-> i + k])

(* sortInts(): every element but the last has its pass. *)
SortInts(s) == FoldLeft(Pass, s, [i \in 1 .. Len(s) - 1 |-> i])

(* The message of the answer. *)
Message(a) ==
  LET order == SortInts(a.order)
  IN  [text |-> a.text, finish |-> a.finish,
       calls |-> [n \in 1 .. Len(order) |->
                    [index |-> order[n], call |-> a.calls[order[n]]]]]

-----------------------------------------------------------------------------
StreamInit ==
  /\ seen = <<>> /\ out = <<>> /\ doneLines = <<>>
  /\ streamEnd = "reading" /\ aggEnd = "reading"
  /\ agg = Nothing

(* ParseNestedSSE() hands on a chunk.  A write to a client that has gone   *)
(* fails, which ends StreamAsOpenAI and not AggregateNested.               *)
ReadChunk ==
  /\ aggEnd = "reading" /\ Len(seen) < MaxChunks
  /\ \E c \in Chunk :
       /\ seen' = Append(seen, c)
       /\ agg' = Aggregated(agg, c)
       /\ \/ /\ streamEnd = "reading"
             /\ out' = Append(out, Normalized(c))
             /\ UNCHANGED streamEnd
          \/ /\ streamEnd' = "failed"
             /\ UNCHANGED out
  /\ UNCHANGED <<doneLines, aggEnd>>

(* Mutation of ReadEnd: [DONE] is written after a failure, too. *)
ReadEndDeferred ==
  /\ aggEnd = "reading"
  /\ aggEnd' = "done"
  /\ streamEnd' = (IF streamEnd = "reading" THEN "done" ELSE streamEnd)
  /\ doneLines' = Append(doneLines, Len(out))
  /\ UNCHANGED <<seen, out, agg>>

(* "[DONE]" or the end of the body: no error, and StreamAsOpenAI adds its  *)
(* own [DONE].                                                             *)
ReadEnd ==
  /\ aggEnd = "reading"
  /\ aggEnd' = "done"
  /\ \/ /\ streamEnd = "reading" /\ streamEnd' = "done"
        /\ doneLines' = Append(doneLines, Len(out))
     \/ streamEnd' = "failed" /\ UNCHANGED doneLines
  /\ UNCHANGED <<seen, out, agg>>

(* The connection to the upstream breaks: an error to both. *)
ReadError ==
  /\ aggEnd = "reading"
  /\ streamEnd' = "failed" /\ aggEnd' = "failed"
  /\ UNCHANGED <<seen, out, doneLines, agg>>

StreamNext == ReadChunk \/ ReadEnd \/ ReadError

-----------------------------------------------------------------------------
(* What a client makes of the deltas it was sent: texts are appended, and  *)
(* the fragments of a call collected by its index.                         *)

LastGiven(values, none) ==
  LET given == {n \in DOMAIN values : values[n] # none}
  IN  IF given = {} THEN none ELSE values[Max(given)]

(* The call with an index, as the fragments of all calls make it. *)
CallOf(fs, i) ==
  [head |-> LastGiven([n \in DOMAIN fs |->
                         IF fs[n].index = i THEN fs[n].head ELSE NoHead], NoHead),
   args |-> FlattenSeq([n \in DOMAIN fs |->
                          IF fs[n].index = i THEN fs[n].args ELSE <<>>])]

FragmentsOf(deltas) == FlattenSeq([n \in DOMAIN deltas |-> deltas[n].calls])

TextGot(deltas, k) == FlattenSeq([n \in DOMAIN deltas |-> TextOf(deltas[n], k)])

(* The last reason the client was given, "stop" if it was given none.      *)
FinishGot(deltas) ==
  LET last == LastGiven([n \in DOMAIN deltas |-> deltas[n].finish], NoReason)
  IN  IF last = NoReason THEN Stop ELSE last

(* Both kinds of client get the same answer to the same stream: as long as *)
(* no write failed, what a client assembles from the deltas written so far *)
(* (text, reasoning, finish reason and every tool call, whose fragments    *)
(* arrive in any interleaving) is the message AggregateNested would return *)
(* if the stream ended here (sse.go:54 and 209).  One thing is not the     *)
(* same: where no chunk gives a finish reason, the client that waits is    *)
(* told "stop" (sse.go:61) and the one that streams is told nothing, so    *)
(* the answers agree only if that client, too, takes silence for "stop".   *)
SameAnswer ==
  streamEnd # "failed" =>
    LET m == Message(agg)
    IN  /\ \A k \in Key : m.text[k] = TextGot(out, k)
        /\ m.finish = FinishGot(out)
        /\ ToSet(m.calls) =
             {[index |-> f.index, call |-> CallOf(FragmentsOf(out), f.index)] :
                f \in ToSet(FragmentsOf(out))}

(* The calls of the message stand in the order of their indices, each      *)
(* once, in whatever order their first fragments came (sse.go:135, 192).   *)
CallsInOrder ==
  LET calls == Message(agg).calls
  IN  \A m, n \in 1 .. Len(calls) : m < n => calls[m].index < calls[n].index

(* A delta that reaches the client has at most one content key, which is   *)
(* what clients tell content blocks apart by (sse.go:205-208); the         *)
(* upstream gives each delta both keys and leaves one of them empty.       *)
OneContentKey == \A n \in 1 .. Len(out) : Cardinality(DOMAIN out[n].text) <= 1

(* A client that is sent [DONE] has been sent everything: it comes once,   *)
(* after the delta of every chunk, and never when the stream broke or a    *)
(* write failed (sse.go:223-234).                                          *)
DoneMeansAll ==
  /\ streamEnd = "done" => Len(out) = Len(seen)
  /\ doneLines = IF streamEnd = "done" THEN <<Len(seen)>> ELSE <<>>
==============================================================================
