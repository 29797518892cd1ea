------------------------------ MODULE MCExchange ------------------------------
(* Bodies of up to 12 letters of base64 text; streams over two letters and *)
(* three tool calls, with two calls in one chunk among them.               *)
EXTENDS Exchange

CONSTANTS s1, s2, t1, t2, padding, dollar, heading

MCStd == {s1, s2}
MCCustom == (s1 :> s2) @@ (s2 :> t1)  \* the alphabets overlap, as the code's do
MCBody ==
  LET Texts(n, p) ==
        {[i \in 1 .. n |-> IF i <= n - p THEN t[i] ELSE padding] :
           t \in [1 .. n - p -> MCStd]}
  IN  {<<>>} \cup UNION {Texts(n, p) : n \in {4, 8, 12}, p \in 0 .. 2}

Delta(content, reasoning, calls, finish) ==
  [text |-> [k \in Key |-> IF k = "content" THEN content ELSE reasoning],
   calls |-> calls, finish |-> finish]

Part(i, h, args) == [index |-> i, head |-> h, args |-> args]

MCLetter == {t1, t2}
MCHeading == {heading}

MCChunk ==
  {Delta(<<t1>>, <<>>, <<>>, NoReason), Delta(<<t2>>, <<>>, <<>>, NoReason),
   Delta(<<>>, <<t1>>, <<>>, NoReason), Delta(<<>>, <<t2>>, <<>>, NoReason)}
  \cup {Delta(<<>>, <<>>, <<>>, f) : f \in {Stop, "tool_calls"}}
  \cup {Delta(<<>>, <<>>, <<Part(i, f[1], f[2])>>, NoReason) :
          i \in 0 .. 2, f \in {<<heading, <<>>>>, <<NoHead, <<t1>>>>, <<NoHead, <<t2>>>>}}
  \cup {Delta(<<>>, <<>>, <<Part(2, heading, <<t1>>), Part(0, heading, <<t2>>)>>, NoReason)}
==============================================================================
