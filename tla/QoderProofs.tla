------------------------------ MODULE QoderProofs ------------------------------
(***************************************************************************)
(* An exchange with the upstream, for texts, streams and alphabets of any  *)
(* size.                                                                   *)
(*                                                                         *)
(* QoderDecode undoes QoderEncode: the exchange of the thirds is described *)
(* by where each position takes its letter from, and this map undoes       *)
(* itself.  SortInts sorts: its folds are followed pass by pass, and each  *)
(* pass exchange by exchange.  AggregateNested keeps, after every fragment *)
(* of every chunk, what a client makes of all the fragments so far, so     *)
(* that both kinds of client have the same answer (AnswerInv).             *)
(***************************************************************************)
EXTENDS Exchange, FoldProofs

Text == Seq(Std \cup {Pad})

(* The position that position i of a rearranged text of n letters comes from. *)
From(n, i) ==
  LET a == n \div 3
  IN  IF i <= a THEN n - a + i ELSE IF i <= n - a THEN i ELSE i - (n - a)

(* A third leaves room for itself twice. *)
LEMMA Third ==
  ASSUME NEW n \in Nat
  PROVE  n \div 3 \in Nat /\ 2 * (n \div 3) <= n
OBVIOUS

(* Positions come from positions, and going back twice leads home. *)
LEMMA FromInvolution ==
  ASSUME NEW n \in Nat, NEW i \in 1 .. n
  PROVE  From(n, i) \in 1 .. n /\ From(n, From(n, i)) = i
<1> DEFINE a == n \div 3
<1>1. a \in Nat /\ 2 * a <= n
  BY Third
<1>2. \A k : From(n, k) = IF k <= a THEN n - a + k ELSE IF k <= n - a THEN k ELSE k - (n - a)
  BY DEF From
<1> HIDE DEF a
<1>3. CASE i <= a
  BY <1>1, <1>2, <1>3
<1>4. CASE a < i /\ i <= n - a
  BY <1>1, <1>2, <1>4
<1>5. CASE n - a < i
  BY <1>1, <1>2, <1>5
<1> QED
  BY <1>1, <1>3, <1>4, <1>5

(* Rearranged keeps the length and permutes the letters by From. *)
LEMMA RearrangedProperties ==
  ASSUME NEW S, NEW s \in Seq(S)
  PROVE  /\ Rearranged(s) \in Seq(S)
         /\ Len(Rearranged(s)) = Len(s)
         /\ \A i \in 1 .. Len(s) : Rearranged(s)[i] = s[From(Len(s), i)]
<1> DEFINE n == Len(s)
           a == n \div 3
           x == SubSeq(s, n - a + 1, n)
           y == SubSeq(s, a + 1, n - a)
           z == SubSeq(s, 1, a)
<1>1. n \in Nat /\ \A i \in 1 .. n : s[i] \in S
  BY LenProperties
<1>2. a \in Nat /\ 2 * a <= n
  BY <1>1, Third
<1>3. Rearranged(s) = (x \o y) \o z
  BY DEF Rearranged
<1>f. \A i : From(n, i) = IF i <= a THEN n - a + i ELSE IF i <= n - a THEN i ELSE i - (n - a)
  BY DEF From
<1>4. /\ x \in Seq(S) /\ Len(x) = a
      /\ \A i \in 1 .. a : x[i] = s[n - a + i]
  <2> HIDE DEF n, a
  <2>1. \A i \in n - a + 1 .. n : s[i] \in S
    BY <1>1, <1>2
  <2>2. /\ x \in Seq(S)
        /\ Len(x) = IF n - a + 1 <= n THEN n - (n - a + 1) + 1 ELSE 0
        /\ \A i \in 1 .. n - (n - a + 1) + 1 : x[i] = s[n - a + 1 + i - 1]
    BY <1>1, <1>2, <2>1, SubSeqProperties
  <2> QED
    <3> HIDE DEF x
    <3> QED BY <1>1, <1>2, <2>2
<1>5. /\ y \in Seq(S) /\ Len(y) = n - 2 * a
      /\ \A i \in 1 .. n - 2 * a : y[i] = s[a + i]
  <2> HIDE DEF n, a
  <2>1. \A i \in a + 1 .. n - a : s[i] \in S
    BY <1>1, <1>2
  <2>2. /\ y \in Seq(S)
        /\ Len(y) = IF a + 1 <= n - a THEN n - a - (a + 1) + 1 ELSE 0
        /\ \A i \in 1 .. n - a - (a + 1) + 1 : y[i] = s[a + 1 + i - 1]
    BY <1>1, <1>2, <2>1, SubSeqProperties
  <2> QED
    <3> HIDE DEF y
    <3> QED BY <1>1, <1>2, <2>2
<1>6. /\ z \in Seq(S) /\ Len(z) = a
      /\ \A i \in 1 .. a : z[i] = s[i]
  <2> HIDE DEF n, a
  <2>1. \A i \in 1 .. a : s[i] \in S
    BY <1>1, <1>2
  <2>2. /\ z \in Seq(S)
        /\ Len(z) = IF 1 <= a THEN a - 1 + 1 ELSE 0
        /\ \A i \in 1 .. a - 1 + 1 : z[i] = s[1 + i - 1]
    BY <1>1, <1>2, <2>1, SubSeqProperties
  <2> QED
    <3> HIDE DEF z
    <3> QED BY <1>1, <1>2, <2>2
<1> HIDE DEF n, a, x, y, z
<1>7. /\ x \o y \in Seq(S) /\ Len(x \o y) = n - a
      /\ \A i \in 1 .. n - a : (x \o y)[i] = IF i <= a THEN x[i] ELSE y[i - a]
  <2>1. /\ x \o y \in Seq(S)
        /\ Len(x \o y) = Len(x) + Len(y)
        /\ \A i \in 1 .. Len(x) + Len(y) :
             (x \o y)[i] = IF i <= Len(x) THEN x[i] ELSE y[i - Len(x)]
    BY <1>4, <1>5, ConcatProperties
  <2>2. Len(x) = a /\ Len(x) + Len(y) = n - a
    BY <1>1, <1>2, <1>4, <1>5
  <2> QED
    BY <2>1, <2>2
<1> DEFINE xy == x \o y
<1>8. /\ xy \o z \in Seq(S) /\ Len(xy \o z) = n
      /\ \A i \in 1 .. n :
           (xy \o z)[i] = IF i <= n - a THEN xy[i] ELSE z[i - (n - a)]
  <2> HIDE DEF xy
  <2>0. xy \in Seq(S) /\ Len(xy) = n - a
    BY <1>7 DEF xy
  <2>1. /\ xy \o z \in Seq(S)
        /\ Len(xy \o z) = Len(xy) + Len(z)
        /\ \A i \in 1 .. Len(xy) + Len(z) :
             (xy \o z)[i] = IF i <= Len(xy) THEN xy[i] ELSE z[i - Len(xy)]
    BY <2>0, <1>6, ConcatProperties
  <2>2. Len(xy) + Len(z) = n
    BY <1>1, <1>2, <1>6, <2>0
  <2> QED
    BY <2>0, <2>1, <2>2
<1> HIDE DEF xy
<1>x. \A i \in 1 .. n - a : xy[i] = IF i <= a THEN x[i] ELSE y[i - a]
  BY <1>7 DEF xy
<1>9. ASSUME NEW i \in 1 .. n
      PROVE  (xy \o z)[i] = s[From(n, i)]
  <2>1. CASE i <= a
    <3>1. i \in 1 .. n - a /\ i \in 1 .. a
      BY <1>1, <1>2, <2>1
    <3>2. (xy \o z)[i] = x[i]
      BY <1>1, <1>2, <1>x, <1>8, <2>1, <3>1
    <3> QED
      BY <1>4, <1>f, <2>1, <3>1, <3>2
  <2>2. CASE a < i /\ i <= n - a
    <3>1. i \in 1 .. n - a /\ i - a \in 1 .. n - 2 * a
      BY <1>1, <1>2, <2>2
    <3>2. (xy \o z)[i] = y[i - a]
      BY <1>1, <1>2, <1>x, <1>8, <2>2, <3>1
    <3>3. y[i - a] = s[a + (i - a)] /\ a + (i - a) = i
      BY <1>1, <1>2, <1>5, <3>1
    <3>4. From(n, i) = i
      BY <1>1, <1>2, <1>f, <2>2
    <3> QED
      BY <3>2, <3>3, <3>4
  <2>3. CASE n - a < i
    <3>1. i - (n - a) \in 1 .. a /\ ~(i <= a) /\ ~(i <= n - a)
      BY <1>1, <1>2, <2>3
    <3>2. (xy \o z)[i] = z[i - (n - a)]
      BY <1>8, <3>1
    <3> QED
      BY <1>6, <1>f, <3>1, <3>2
  <2>4. i <= a \/ (a < i /\ i <= n - a) \/ n - a < i
    BY <1>1, <1>2
  <2> QED
    BY <2>1, <2>2, <2>3, <2>4
<1> QED
  BY <1>3, <1>8, <1>9 DEF n, xy

(* Exchanging the thirds twice gives the text back. *)
LEMMA RearrangedTwice ==
  ASSUME NEW S, NEW s \in Seq(S)
  PROVE  Rearranged(Rearranged(s)) = s
<1> DEFINE r == Rearranged(s)
           n == Len(s)
<1>1. r \in Seq(S) /\ Len(r) = n /\ \A i \in 1 .. n : r[i] = s[From(n, i)]
  BY RearrangedProperties
<1> HIDE DEF r
<1>2. /\ Rearranged(r) \in Seq(S) /\ Len(Rearranged(r)) = n
      /\ \A i \in 1 .. n : Rearranged(r)[i] = r[From(n, i)]
  BY <1>1, RearrangedProperties
<1>3. n \in Nat
  BY LenProperties
<1>4. ASSUME NEW i \in 1 .. n
      PROVE  Rearranged(r)[i] = s[i]
  <2>1. From(n, i) \in 1 .. n /\ From(n, From(n, i)) = i
    BY <1>3, FromInvolution
  <2> QED
    BY <1>1, <1>2, <2>1
<1> QED
  BY <1>1, <1>2, <1>4, SeqEqual DEF r

(* The alphabet can be read back. *)
LEMMA Letters ==
  ASSUME NEW c \in Std \cup {Pad}
  PROVE  Written[c] \in WireLetters /\ Read[Written[c]] = c
<1>1. Written[c] \in WireLetters
  BY DEF WireLetters
<1>2. \A d \in Std \cup {Pad} : Written[d] = Written[c] => d = c
  BY AlphabetAssumption DEF Written
<1>3. Read[Written[c]] = CHOOSE d \in Std \cup {Pad} : Written[d] = Written[c]
  BY <1>1 DEF Read
<1> QED
  BY <1>1, <1>2, <1>3

(* What the upstream decodes is what was encoded, for every text: the      *)
(* exchange of the thirds and the change of alphabet lose nothing,         *)
(* whatever the length (QoderEncode and QoderDecode, encoding.go:35, 57).  *)
THEOREM RoundTrip ==
  ASSUME NEW s \in Text
  PROVE  QoderDecode(QoderEncode(s)) = [ok |-> TRUE, text |-> s]
<1> DEFINE r == Rearranged(s)
           n == Len(s)
           e == QoderEncode(s)
           m == [i \in 1 .. Len(e) |-> Read[e[i]]]
<1>1. /\ n \in Nat
      /\ r \in Seq(Std \cup {Pad}) /\ Len(r) = n
  BY LenProperties, RearrangedProperties DEF Text
<1>2. \A i \in 1 .. n : r[i] \in Std \cup {Pad}
  BY <1>1, LenProperties
<1>3. e = [i \in 1 .. n |-> Written[r[i]]]
  BY DEF QoderEncode
<1> HIDE DEF e, r
<1>4. \A i \in 1 .. n : e[i] \in WireLetters /\ Read[e[i]] = r[i]
  BY <1>2, <1>3, Letters
<1>5. Len(e) = n
  BY <1>1, <1>3
<1>6. m = r
  <2>1. r = [i \in 1 .. n |-> r[i]]
    BY <1>1, LenProperties
  <2> QED
    BY <1>4, <1>5, <2>1
<1>7. QoderDecode(e) = [ok |-> TRUE, text |-> Rearranged(r)]
  <2> HIDE DEF m
  <2>1. ~ \E i \in 1 .. Len(e) : e[i] \notin WireLetters
    BY <1>4, <1>5
  <2> QED
    BY <1>6, <2>1 DEF QoderDecode, m
<1>8. Rearranged(r) = s
  BY RearrangedTwice DEF Text, r
<1> QED
  BY <1>7, <1>8 DEF e

-----------------------------------------------------------------------------
(* The request on its way is the encoding of the body. *)
Encoded ==
  phase \in {"encoded", "posted"} => body \in Body /\ wire = QoderEncode(body)

LEMMA EncodedInit == Init => Encoded
BY DEF Init, Encoded

LEMMA EncodedStep == Encoded /\ [Next]_vars => Encoded'
<1> SUFFICES ASSUME Encoded, [Next]_vars
             PROVE  Encoded'
  OBVIOUS
<1>1. CASE Encode
  BY <1>1 DEF Encode, Encoded
<1>6. CASE Post
  BY <1>6 DEF Post, request, Encoded
<1>2. CASE Refuse
  BY <1>2 DEF Refuse, Encoded
<1>3. CASE Accept
  BY <1>3 DEF Accept, Encoded
<1>4. CASE Answering
  BY <1>4 DEF Answering, request, Encoded
<1>5. CASE UNCHANGED vars
  BY <1>5 DEF vars, request, Encoded
<1> QED
  BY <1>1, <1>2, <1>3, <1>4, <1>5, <1>6 DEF Next

LEMMA EncodedReadBack == Encoded => ReadBack
BY RoundTrip, BodyAssumption DEF Encoded, ReadBack, Text

(* In every exchange, for any bodies and alphabet, the upstream reads the  *)
(* body that was posted (ChatForward, chat.go:63-79).                      *)
THEOREM UpstreamReadsBody == Spec => []ReadBack
<1>1. Spec => []Encoded
  BY EncodedInit, EncodedStep, PTL DEF Spec
<1> QED
  BY <1>1, EncodedReadBack, PTL

-----------------------------------------------------------------------------
(* What a client that streams is sent. *)

Delta == {Normalized(c) : c \in Chunk}

(* Where the two readers of the stream stand: the one that streams has      *)
(* written a delta of every chunk, or its write has failed.                 *)
StreamInv ==
  /\ seen \in Seq(Chunk) /\ out \in Seq(Delta)
  /\ streamEnd \in {"reading", "done", "failed"}
  /\ aggEnd \in {"reading", "done", "failed"}
  /\ streamEnd # "failed" => Len(out) = Len(seen)
  /\ streamEnd = "reading" => aggEnd = "reading"
  /\ streamEnd = "done" => aggEnd = "done"
  /\ doneLines = IF streamEnd = "done" THEN <<Len(seen)>> ELSE <<>>
  /\ Len(out) <= Len(seen)

LEMMA StreamInvInit == Init => StreamInv
<1> SUFFICES ASSUME Init PROVE StreamInv
  OBVIOUS
<1>1. /\ seen = <<>> /\ out = <<>> /\ doneLines = <<>>
      /\ streamEnd = "reading" /\ aggEnd = "reading"
  BY DEF Init, StreamInit
<1>2. <<>> \in Seq(Chunk) /\ <<>> \in Seq(Delta) /\ Len(<<>>) <= Len(<<>>)
  OBVIOUS
<1> QED
  BY <1>1, <1>2 DEF StreamInv

LEMMA ReadChunkKeeps == StreamInv /\ ReadChunk => StreamInv'
<1> SUFFICES ASSUME StreamInv, ReadChunk
             PROVE  StreamInv'
  OBVIOUS
<1>1. PICK c \in Chunk :
        /\ seen' = Append(seen, c)
        /\ \/ /\ streamEnd = "reading"
              /\ out' = Append(out, Normalized(c))
              /\ UNCHANGED streamEnd
           \/ /\ streamEnd' = "failed"
              /\ UNCHANGED out
  BY DEF ReadChunk
<1>2. aggEnd = "reading" /\ UNCHANGED <<doneLines, aggEnd>> /\ Normalized(c) \in Delta
  BY DEF ReadChunk, Delta
<1>3. seen' \in Seq(Chunk) /\ Len(seen') = Len(seen) + 1
  BY <1>1, AppendProperties DEF StreamInv
<1>4. Len(seen) \in Nat /\ Len(out) \in Nat
  BY LenProperties DEF StreamInv
<1>5. doneLines' = <<>>
  BY <1>2 DEF StreamInv
<1>6. CASE streamEnd = "reading" /\ out' = Append(out, Normalized(c)) /\ UNCHANGED streamEnd
  <2>1. out' \in Seq(Delta) /\ Len(out') = Len(out) + 1
    BY <1>2, <1>6, AppendProperties DEF StreamInv
  <2> QED
    BY <1>2, <1>3, <1>4, <1>5, <1>6, <2>1 DEF StreamInv
<1>7. CASE streamEnd' = "failed" /\ UNCHANGED out
  BY <1>2, <1>3, <1>4, <1>5, <1>7 DEF StreamInv
<1> QED
  BY <1>1, <1>6, <1>7

LEMMA StreamInvStep == StreamInv /\ [Next]_vars => StreamInv'
<1> SUFFICES ASSUME StreamInv, [Next]_vars
             PROVE  StreamInv'
  OBVIOUS
<1>1. CASE ReadChunk
  BY <1>1, ReadChunkKeeps
<1>2. CASE ReadEnd
  <2>1. /\ aggEnd = "reading" /\ aggEnd' = "done" /\ UNCHANGED <<seen, out>>
        /\ \/ /\ streamEnd = "reading" /\ streamEnd' = "done"
              /\ doneLines' = Append(doneLines, Len(out))
           \/ streamEnd' = "failed" /\ UNCHANGED doneLines
    BY <1>2 DEF ReadEnd
  <2>2. doneLines = <<>>
    BY <2>1 DEF StreamInv
  <2>3. CASE /\ streamEnd = "reading" /\ streamEnd' = "done"
             /\ doneLines' = Append(doneLines, Len(out))
    <3>1. doneLines' = <<Len(seen)>>
      BY <2>2, <2>3 DEF StreamInv
    <3> QED
      BY <2>1, <2>3, <3>1 DEF StreamInv
  <2>4. CASE streamEnd' = "failed" /\ UNCHANGED doneLines
    BY <2>1, <2>2, <2>4 DEF StreamInv
  <2> QED
    BY <2>1, <2>3, <2>4
<1>3. CASE ReadError
  BY <1>3 DEF ReadError, StreamInv
<1>4. CASE UNCHANGED streamVars
  BY <1>4 DEF streamVars, StreamInv
<1>5. CASE Encode \/ Post \/ Refuse \/ Accept
  BY <1>4, <1>5 DEF Encode, Post, Refuse, Accept
<1>6. CASE UNCHANGED vars
  BY <1>4, <1>6 DEF vars, streamVars
<1> QED
  BY <1>1, <1>2, <1>3, <1>5, <1>6 DEF Next, Answering, StreamNext

LEMMA StreamAlways == Spec => []StreamInv
BY StreamInvInit, StreamInvStep, PTL DEF Spec

(* A client that is sent [DONE] has been sent a delta of every chunk, and   *)
(* is sent it once (StreamAsOpenAI, sse.go:209-235), for streams of any     *)
(* length of any chunks.                                                    *)
THEOREM DoneComesLast == Spec => []DoneMeansAll
<1>1. StreamInv => DoneMeansAll
  BY DEF StreamInv, DoneMeansAll
<1> QED
  BY <1>1, StreamAlways, PTL

(* What sse.go:205-208 says of the upstream's chunks: of the texts of a     *)
(* delta all but one are empty.                                             *)
OneText ==
  \A c \in Chunk :
    /\ "text" \in DOMAIN c
    /\ \A j, k \in DOMAIN c.text : c.text[j] # <<>> /\ c.text[k] # <<>> => j = k

LEMMA NormalizedKeys ==
  ASSUME OneText, NEW d \in Delta
  PROVE  Cardinality(DOMAIN d.text) <= 1
<1>1. PICK c \in Chunk : d = Normalized(c)
  BY DEF Delta
<1> DEFINE kept == {k \in DOMAIN c.text : c.text[k] # <<>>}
<1>2. d.text = [k \in kept |-> c.text[k]]
  <2> DEFINE rest == [k \in kept |-> c.text[k]]
  <2>1. "text" \in DOMAIN c
    BY DEF OneText
  <2>2. Normalized(c) = [c EXCEPT !.text = rest]
    BY DEF Normalized
  <2> HIDE DEF rest
  <2>3. Normalized(c)["text"] = rest
    BY <2>1, <2>2
  <2> QED
    BY <1>1, <2>3 DEF rest
<1>3. DOMAIN d.text = kept
  BY <1>2
<1>4. \A j, k \in kept : j = k
  BY DEF OneText
<1> HIDE DEF kept
<1>5. CASE kept = {}
  BY <1>3, <1>5, FS_EmptySet
<1>6. CASE kept # {}
  <2>1. PICK k : kept = {k}
    BY <1>4, <1>6
  <2>2. Cardinality({k}) = 1
    BY FS_Singleton
  <2> QED
    BY <1>3, <2>1, <2>2
<1> QED
  BY <1>5, <1>6

(* No delta that reaches a client has two content keys, provided that the   *)
(* upstream fills one of them at most: the empty one is taken out, whatever *)
(* it is called (normalizeDeltaKeys, sse.go:239-258).                       *)
THEOREM ContentKeysAreSingle ==
  ASSUME OneText
  PROVE  Spec => []OneContentKey
<1>1. StreamInv => OneContentKey
  <2> SUFFICES ASSUME StreamInv, NEW n \in 1 .. Len(out)
               PROVE  Cardinality(DOMAIN out[n].text) <= 1
    BY DEF OneContentKey
  <2>1. out[n] \in Delta
    BY LenProperties DEF StreamInv
  <2> QED
    BY <2>1, NormalizedKeys
<1> QED
  BY <1>1, StreamAlways, PTL
-----------------------------------------------------------------------------
(* sortInts(): the folds of Pass and SortInts, then what they do. *)

(* The positions after i; exchanging with them stays in A. *)
After(s, i) == [k \in 1 .. Len(s) - i |-> i + k]

Exchanges(A, s, i, n) ==
  DOMAIN After(s, i) = 1 .. n /\ \A x \in A, k \in 1 .. n : Exchanged(x, i, After(s, i)[k]) \in A

(* A pass is a run of exchanges. *)
LEMMA PassFold ==
  ASSUME NEW A, NEW s, NEW i, NEW n \in Nat, s \in A, Exchanges(A, s, i, n)
  PROVE  \E F \in [0 .. n -> A] :
           /\ F[0] = s /\ F[n] = Pass(s, i)
           /\ \A k \in 1 .. n : F[k] = Exchanged(F[k - 1], i, After(s, i)[k])
<1> DEFINE Steps(f) == f = [S \in SUBSET DOMAIN After(s, i) |->
                              IF S = {} THEN s
                              ELSE Exchanged(f[S \ {Max(S)}], i, After(s, i)[Max(S)])]
           g == [x \in A |-> [k \in 1 .. n |-> Exchanged(x, i, After(s, i)[k])]]
<1>1. Pass(s, i) = (CHOOSE f : Steps(f))[DOMAIN After(s, i)]
  BY Zenon DEF Pass, After, FoldLeft, MapThenFoldSet
<1> USE DEF Exchanges
<1>2. /\ g \in [A -> [1 .. n -> A]]
      /\ \A x \in A, k \in 1 .. n : g[x][k] = Exchanged(x, i, After(s, i)[k])
  OBVIOUS
<1> HIDE DEF g
<1>3. PICK f \in [SUBSET (1 .. n) -> A] : Folds(f, n, s, g)
  BY <1>2, FoldExists
<1>4. Steps(f)
  <2>1. ASSUME NEW S \in SUBSET (1 .. n), S # {}
        PROVE  f[S] = Exchanged(f[S \ {Max(S)}], i, After(s, i)[Max(S)])
    <3>1. f[S \ {Max(S)}] \in A /\ Max(S) \in 1 .. n
      BY <2>1, GreatestPosition
    <3> QED
      BY <1>2, <1>3, <2>1, <3>1 DEF Folds
  <2>2. f[{}] = s /\ f = [S \in SUBSET (1 .. n) |-> f[S]]
    BY <1>3 DEF Folds
  <2> QED
    BY <2>1, <2>2
<1>5. PICK e : Steps(e) /\ Pass(s, i) = e[1 .. n]
  <2> HIDE DEF Steps
  <2> QED
    BY <1>1, <1>4
<1>6. Goes(e, n, s, A, g)
  <2> SUFFICES ASSUME NEW k \in 1 .. n, e[1 .. k - 1] \in A
               PROVE  e[1 .. k] = g[e[1 .. k - 1]][k]
    BY <1>5 DEF Goes
  <2>1. /\ 1 .. k \in SUBSET (1 .. n) /\ 1 .. k # {}
        /\ Max(1 .. k) = k /\ (1 .. k) \ {k} = 1 .. k - 1
    BY PrefixFacts
  <2>2. e[1 .. k] = Exchanged(e[(1 .. k) \ {Max(1 .. k)}], i, After(s, i)[Max(1 .. k)])
    BY <1>5, <2>1
  <2>3. e[1 .. k] = Exchanged(e[1 .. k - 1], i, After(s, i)[k])
    BY <2>1, <2>2
  <2> QED
    BY <1>2, <2>3
<1> HIDE DEF Steps
<1>7. PICK F \in [0 .. n -> A] : Unrolled(F, n, s, e, g)
  <2>1. g \in [A -> [1 .. n -> A]]
    BY <1>2
  <2> QED
    BY <1>6, <2>1, Unroll
<1>8. \A k \in 1 .. n : F[k] = Exchanged(F[k - 1], i, After(s, i)[k])
  <2>1. \A k \in 1 .. n : F[k - 1] \in A
    OBVIOUS
  <2> QED
    BY <1>2, <1>7, <2>1 DEF Unrolled
<1> QED
  BY <1>5, <1>7, <1>8 DEF Unrolled

(* The positions that have a pass; passes stay in A. *)
Firsts(s) == [i \in 1 .. Len(s) - 1 |-> i]

Passes(A, s, n) ==
  DOMAIN Firsts(s) = 1 .. n /\ \A x \in A, k \in 1 .. n : Pass(x, Firsts(s)[k]) \in A

(* Sorting is a run of passes. *)
LEMMA SortFold ==
  ASSUME NEW A, NEW s, NEW n \in Nat, s \in A, Passes(A, s, n)
  PROVE  \E F \in [0 .. n -> A] :
           /\ F[0] = s /\ F[n] = SortInts(s)
           /\ \A k \in 1 .. n : F[k] = Pass(F[k - 1], Firsts(s)[k])
<1> DEFINE Steps(f) == f = [S \in SUBSET DOMAIN Firsts(s) |->
                              IF S = {} THEN s
                              ELSE Pass(f[S \ {Max(S)}], Firsts(s)[Max(S)])]
           g == [x \in A |-> [k \in 1 .. n |-> Pass(x, Firsts(s)[k])]]
<1>1. SortInts(s) = (CHOOSE f : Steps(f))[DOMAIN Firsts(s)]
  BY Zenon DEF SortInts, Firsts, FoldLeft, MapThenFoldSet
<1> USE DEF Passes
<1>2. g \in [A -> [1 .. n -> A]] /\ \A x \in A, k \in 1 .. n : g[x][k] = Pass(x, Firsts(s)[k])
  OBVIOUS
<1> HIDE DEF g
<1>3. PICK f \in [SUBSET (1 .. n) -> A] : Folds(f, n, s, g)
  BY <1>2, FoldExists
<1>4. Steps(f)
  <2>1. ASSUME NEW S \in SUBSET (1 .. n), S # {}
        PROVE  f[S] = Pass(f[S \ {Max(S)}], Firsts(s)[Max(S)])
    <3>1. f[S \ {Max(S)}] \in A /\ Max(S) \in 1 .. n
      BY <2>1, GreatestPosition
    <3> QED
      BY <1>2, <1>3, <2>1, <3>1 DEF Folds
  <2>2. f[{}] = s /\ f = [S \in SUBSET (1 .. n) |-> f[S]]
    BY <1>3 DEF Folds
  <2> QED
    BY <2>1, <2>2
<1>5. PICK e : Steps(e) /\ SortInts(s) = e[1 .. n]
  <2> HIDE DEF Steps
  <2> QED
    BY <1>1, <1>4
<1>6. Goes(e, n, s, A, g)
  <2> SUFFICES ASSUME NEW k \in 1 .. n, e[1 .. k - 1] \in A
               PROVE  e[1 .. k] = g[e[1 .. k - 1]][k]
    BY <1>5 DEF Goes
  <2>1. /\ 1 .. k \in SUBSET (1 .. n) /\ 1 .. k # {}
        /\ Max(1 .. k) = k /\ (1 .. k) \ {k} = 1 .. k - 1
    BY PrefixFacts
  <2>2. e[1 .. k] = Pass(e[(1 .. k) \ {Max(1 .. k)}], Firsts(s)[Max(1 .. k)])
    BY <1>5, <2>1
  <2>3. e[1 .. k] = Pass(e[1 .. k - 1], Firsts(s)[k])
    BY <2>1, <2>2
  <2> QED
    BY <1>2, <2>3
<1> HIDE DEF Steps
<1>7. PICK F \in [0 .. n -> A] : Unrolled(F, n, s, e, g)
  <2>1. g \in [A -> [1 .. n -> A]]
    BY <1>2
  <2> QED
    BY <1>6, <2>1, Unroll
<1>8. \A k \in 1 .. n : F[k] = Pass(F[k - 1], Firsts(s)[k])
  <2>1. \A k \in 1 .. n : F[k - 1] \in A
    OBVIOUS
  <2> QED
    BY <1>2, <1>7, <2>1 DEF Unrolled
<1> QED
  BY <1>5, <1>7, <1>8 DEF Unrolled

(* The numbers of R in some order, each once. *)
Orders(R, n) ==
  {t \in [1 .. n -> Int] : /\ \A a, b \in 1 .. n : t[a] = t[b] => a = b
                           /\ Range(t) = R}

(* What stands before i is in its place; i has the least up to j. *)
Placed(t, i, n) == \A a, b \in 1 .. n : a < i /\ a < b => t[a] <= t[b]
LeastUpTo(t, i, j) == \A b \in i .. j : t[i] <= t[b]

(* An exchange loses and doubles nothing. *)
LEMMA ExchangedKeeps ==
  ASSUME NEW n \in Nat, NEW R, NEW t \in Orders(R, n), NEW i \in 1 .. n, NEW j \in i + 1 .. n
  PROVE  Exchanged(t, i, j) \in Orders(R, n)
<1> DEFINE u == Swapped(t, i, j)
           to == [k \in 1 .. n |-> IF k = i THEN j ELSE IF k = j THEN i ELSE k]
<1>1. j \in 1 .. n /\ i # j
  OBVIOUS
<1>2. t \in [1 .. n -> Int] /\ Range(t) = R /\ \A a, b \in 1 .. n : t[a] = t[b] => a = b
  BY DEF Orders
<1>3. to \in [1 .. n -> 1 .. n] /\ \A k \in 1 .. n : to[to[k]] = k
  BY <1>1
<1>4. u \in [1 .. n -> Int] /\ \A k \in 1 .. n : u[k] = t[to[k]]
  <2>1. u = [[t EXCEPT ![i] = t[j]] EXCEPT ![j] = t[i]]
    BY DEF Swapped
  <2> QED
    BY <1>1, <1>2, <2>1
<1> HIDE DEF u, to
<1>5. \A a, b \in 1 .. n : u[a] = u[b] => a = b
  <2> SUFFICES ASSUME NEW a \in 1 .. n, NEW b \in 1 .. n, u[a] = u[b]
               PROVE  a = b
    OBVIOUS
  <2>1. to[a] \in 1 .. n /\ to[b] \in 1 .. n /\ t[to[a]] = t[to[b]]
    BY <1>3, <1>4
  <2>2. to[a] = to[b]
    BY <1>2, <2>1
  <2> QED
    BY <1>3, <2>2
<1>6. Range(u) = Range(t)
  <2>1. \A k \in 1 .. n : to[k] \in 1 .. n /\ u[k] = t[to[k]] /\ t[k] = u[to[k]]
    BY <1>3, <1>4
  <2>2. DOMAIN u = 1 .. n /\ DOMAIN t = 1 .. n
    BY <1>2, <1>4
  <2> QED
    BY <2>1, <2>2 DEF Range
<1>7. u \in Orders(R, n)
  BY <1>2, <1>4, <1>5, <1>6 DEF Orders
<1> QED
  BY <1>7 DEF Exchanged, u

(* An exchange brings the least one so far forward. *)
LEMMA ExchangedSorts ==
  ASSUME NEW n \in Nat, NEW R, NEW t \in Orders(R, n), NEW i \in 1 .. n, NEW j \in i + 1 .. n,
         Placed(t, i, n), LeastUpTo(t, i, j - 1)
  PROVE  Placed(Exchanged(t, i, j), i, n) /\ LeastUpTo(Exchanged(t, i, j), i, j)
<1>1. t \in [1 .. n -> Int]
  BY DEF Orders
<1>2. CASE ~(t[j] < t[i])
  <2>1. Exchanged(t, i, j) = t
    BY <1>2 DEF Exchanged
  <2>2. \A b \in i .. j : t[i] <= t[b]
    <3> TAKE b \in i .. j
    <3>1. b \in i .. j - 1 \/ b = j
      OBVIOUS
    <3>2. t[i] \in Int /\ t[j] \in Int
      BY <1>1
    <3> QED
      BY <1>2, <3>1, <3>2 DEF LeastUpTo
  <2> QED
    BY <2>1, <2>2 DEF LeastUpTo
<1>3. CASE t[j] < t[i]
  <2> DEFINE u == Swapped(t, i, j)
  <2>1. j \in 1 .. n /\ i # j /\ i < j
    OBVIOUS
  <2>2. \A k \in 1 .. n : u[k] = IF k = i THEN t[j] ELSE IF k = j THEN t[i] ELSE t[k]
    <3>1. u = [[t EXCEPT ![i] = t[j]] EXCEPT ![j] = t[i]]
      BY DEF Swapped
    <3> QED
      BY <1>1, <2>1, <3>1
  <2>3. Exchanged(t, i, j) = u
    BY <1>3 DEF Exchanged
  <2> HIDE DEF u
  <2>4. \A k \in 1 .. n : t[k] \in Int
    BY <1>1
  <2>5. ASSUME NEW a \in 1 .. n, NEW b \in 1 .. n, a < i, a < b
        PROVE  u[a] <= u[b]
    <3>1. u[a] = t[a] /\ t[a] <= t[i] /\ t[a] <= t[j] /\ t[a] <= t[b]
      BY <2>1, <2>2, <2>5 DEF Placed
    <3> QED
      BY <2>2, <3>1
  <2>6. ASSUME NEW b \in i .. j
        PROVE  u[i] <= u[b]
    <3>1. CASE b = i \/ b = j
      BY <1>3, <2>1, <2>2, <2>4, <3>1
    <3>2. CASE b # i /\ b # j
      <4>1. b \in 1 .. n /\ b \in i .. j - 1
        BY <2>1, <3>2
      <4>2. t[i] <= t[b] /\ u[b] = t[b] /\ u[i] = t[j]
        BY <2>2, <3>2, <4>1 DEF LeastUpTo
      <4> QED
        BY <1>3, <2>1, <2>4, <4>1, <4>2
    <3> QED
      BY <3>1, <3>2
  <2> QED
    BY <2>3, <2>5, <2>6 DEF Placed, LeastUpTo
<1> QED
  BY <1>2, <1>3

(* A pass, exchange by exchange. *)
Swept(F, s, i, n) ==
  /\ F[0] = s /\ F[n - i] = Pass(s, i)
  /\ \A k \in 1 .. n - i : F[k] = Exchanged(F[k - 1], i, i + k)

LEMMA PassSteps ==
  ASSUME NEW n \in Nat, NEW R, NEW s \in Orders(R, n), NEW i \in 1 .. n
  PROVE  \E F \in [0 .. n - i -> Orders(R, n)] : Swept(F, s, i, n)
<1> DEFINE A == Orders(R, n)
           m == n - i
<1>1. m \in Nat /\ \A k \in 1 .. m : i + k \in i + 1 .. n
  OBVIOUS
<1>2. Len(s) = n
  BY DEF Orders
<1>3. DOMAIN After(s, i) = 1 .. m /\ \A k \in 1 .. m : After(s, i)[k] = i + k
  BY <1>2 DEF After
<1> HIDE DEF m
<1>4. Exchanges(A, s, i, m)
  BY <1>1, <1>3, ExchangedKeeps DEF Exchanges
<1>5. PICK F \in [0 .. m -> A] :
        /\ F[0] = s /\ F[m] = Pass(s, i)
        /\ \A k \in 1 .. m : F[k] = Exchanged(F[k - 1], i, After(s, i)[k])
  <2>1. m \in Nat
    BY <1>1
  <2>2. s \in A
    OBVIOUS
  <2> HIDE DEF A
  <2> QED
    BY <1>4, <2>1, <2>2, PassFold
<1> HIDE DEF A
<1>6. \A k \in 1 .. m : F[k] = Exchanged(F[k - 1], i, i + k)
  BY <1>3, <1>5
<1> QED
  BY <1>5, <1>6 DEF A, m, Swept

LEMMA PassKeeps ==
  ASSUME NEW n \in Nat, NEW R, NEW s \in Orders(R, n), NEW i \in 1 .. n
  PROVE  Pass(s, i) \in Orders(R, n)
<1>1. n - i \in 0 .. n - i
  OBVIOUS
<1>2. PICK F \in [0 .. n - i -> Orders(R, n)] : Swept(F, s, i, n)
  BY PassSteps
<1> QED
  BY <1>1, <1>2 DEF Swept

(* A pass brings the least of the rest to its place. *)
LEMMA PassSorts ==
  ASSUME NEW n \in Nat, NEW R, NEW s \in Orders(R, n), NEW i \in 1 .. n, Placed(s, i, n)
  PROVE  Placed(Pass(s, i), i + 1, n)
<1> DEFINE A == Orders(R, n)
           m == n - i
<1>1. m \in Nat /\ \A k \in 1 .. m : i + k \in i + 1 .. n
  OBVIOUS
<1>2. PICK F \in [0 .. n - i -> Orders(R, n)] : Swept(F, s, i, n)
  BY PassSteps
<1>5. /\ F \in [0 .. m -> A] /\ F[0] = s /\ F[m] = Pass(s, i)
      /\ \A k \in 1 .. m : F[k] = Exchanged(F[k - 1], i, i + k)
  BY <1>2 DEF Swept
<1> HIDE DEF m
<1> DEFINE Good == {k \in 0 .. m : Placed(F[k], i, n) /\ LeastUpTo(F[k], i, i + k)}
<1>6. 0 \in Good
  <2>1. s[i] <= s[i]
    BY DEF Orders
  <2>2. LeastUpTo(s, i, i + 0)
    BY <2>1 DEF LeastUpTo
  <2> QED
    BY <1>1, <1>5, <2>2
<1>7. ASSUME NEW k \in 0 .. m, k \in Good, k # m
      PROVE  k + 1 \in Good
  <2>1. k + 1 \in 1 .. m /\ k + 1 \in 0 .. m /\ (k + 1) - 1 = k /\ i + (k + 1) - 1 = i + k
    <3> HIDE DEF Good
    <3> QED
      BY <1>1, <1>7
  <2> DEFINE t == F[k]
             j == i + (k + 1)
  <2>2. t \in A /\ Placed(t, i, n) /\ LeastUpTo(t, i, j - 1) /\ j \in i + 1 .. n
    BY <1>1, <1>7, <2>1
  <2>3. F[k + 1] = Exchanged(t, i, j)
    BY <1>5, <2>1
  <2> HIDE DEF t, j
  <2>4. Placed(Exchanged(t, i, j), i, n) /\ LeastUpTo(Exchanged(t, i, j), i, j)
    BY <2>2, ExchangedSorts
  <2> QED
    BY <2>1, <2>3, <2>4 DEF j
<1>8. \A k \in 0 .. m : k \in Good
  <2> HIDE DEF Good
  <2> QED
    BY <1>1, <1>6, <1>7, Climb
<1> DEFINE p == Pass(s, i)
<1>9. p \in A /\ Placed(p, i, n) /\ LeastUpTo(p, i, n)
  <2>1. m \in 0 .. m /\ i + m = n
    BY <1>1 DEF m
  <2> QED
    BY <1>5, <1>8, <2>1
<1> HIDE DEF p
<1>10. ASSUME NEW a \in 1 .. n, NEW b \in 1 .. n, a < i + 1, a < b
       PROVE  p[a] <= p[b]
  <2>1. a < i \/ (a = i /\ b \in i .. n)
    BY <1>10
  <2> QED
    BY <1>9, <1>10, <2>1 DEF Placed, LeastUpTo
<1> QED
  BY <1>9, <1>10 DEF Placed, p

(* sortInts() sorts. *)
LEMMA SortIntsSorts ==
  ASSUME NEW n \in Nat, NEW R, NEW s \in Orders(R, n)
  PROVE  SortInts(s) \in Orders(R, n) /\ Placed(SortInts(s), n, n)
<1> DEFINE A == Orders(R, n)
           m == IF n = 0 THEN 0 ELSE n - 1
<1>1. m \in Nat /\ \A k \in 1 .. m : k \in 1 .. n
  OBVIOUS
<1>2. Len(s) = n
  BY DEF Orders
<1>3. DOMAIN Firsts(s) = 1 .. m /\ \A k \in 1 .. m : Firsts(s)[k] = k
  BY <1>2 DEF Firsts
<1> HIDE DEF m
<1>4. Passes(A, s, m)
  BY <1>1, <1>3, PassKeeps DEF Passes
<1>5. PICK F \in [0 .. m -> A] :
        /\ F[0] = s /\ F[m] = SortInts(s)
        /\ \A k \in 1 .. m : F[k] = Pass(F[k - 1], Firsts(s)[k])
  <2>1. m \in Nat
    BY <1>1
  <2>2. s \in A
    OBVIOUS
  <2> HIDE DEF A
  <2> QED
    BY <1>4, <2>1, <2>2, SortFold
<1> DEFINE Good == {k \in 0 .. m : Placed(F[k], k + 1, n)}
<1>6. 0 \in Good
  <2>1. Placed(s, 0 + 1, n)
    BY DEF Placed
  <2> QED
    BY <1>1, <1>5, <2>1
<1>7. ASSUME NEW k \in 0 .. m, k \in Good, k # m
      PROVE  k + 1 \in Good
  <2>1. k + 1 \in 1 .. m /\ k + 1 \in 0 .. m /\ (k + 1) - 1 = k
    <3> HIDE DEF Good
    <3> QED
      BY <1>1, <1>7
  <2> DEFINE t == F[k]
             i == k + 1
  <2>2. t \in A /\ Placed(t, i, n) /\ i \in 1 .. n
    BY <1>1, <1>7, <2>1
  <2>3. F[k + 1] = Pass(t, i)
    BY <1>3, <1>5, <2>1
  <2> HIDE DEF t, i
  <2>4. Placed(Pass(t, i), i + 1, n)
    BY <2>2, PassSorts
  <2> QED
    BY <2>1, <2>3, <2>4 DEF i
<1>8. \A k \in 0 .. m : k \in Good
  <2> HIDE DEF Good
  <2> QED
    BY <1>1, <1>6, <1>7, Climb
<1>9. SortInts(s) \in A /\ Placed(SortInts(s), m + 1, n)
  <2>1. m \in 0 .. m
    BY <1>1
  <2> QED
    BY <1>5, <1>8, <2>1
<1> HIDE DEF A
<1>10. n = 0 \/ m + 1 = n
  BY DEF m
<1>11. n = 0 => Placed(SortInts(s), n, n)
  BY DEF Placed
<1> QED
  BY <1>9, <1>10, <1>11 DEF A

-----------------------------------------------------------------------------
(* AggregateNested: the calls with an index, fragment by fragment. *)

(* The last value given, after one more. *)
LEMMA LastGivenAppend ==
  ASSUME NEW S, NEW vs \in Seq(S), NEW x \in S, NEW none
  PROVE  LastGiven(Append(vs, x), none) = IF x # none THEN x ELSE LastGiven(vs, none)
<1> DEFINE n == Len(vs)
           ws == Append(vs, x)
           old == {k \in DOMAIN vs : vs[k] # none}
           new == {k \in DOMAIN ws : ws[k] # none}
<1>1. /\ n \in Nat /\ DOMAIN vs = 1 .. n /\ DOMAIN ws = 1 .. n + 1
      /\ ws[n + 1] = x /\ \A k \in 1 .. n : ws[k] = vs[k]
  BY AppendProperties, LenProperties
<1>2. LastGiven(ws, none) = IF new = {} THEN none ELSE ws[Max(new)]
  BY Zenon DEF LastGiven
<1>3. LastGiven(vs, none) = IF old = {} THEN none ELSE vs[Max(old)]
  BY Zenon DEF LastGiven
<1> HIDE DEF ws, n
<1>4. CASE x # none
  <2>1. n + 1 \in new /\ new \in SUBSET (1 .. n + 1) /\ n + 1 \in Nat
    BY <1>1, <1>4
  <2> HIDE DEF new
  <2>2. Max(new) \in new /\ \A k \in new : k <= Max(new)
    BY <2>1, GreatestPosition
  <2>3. \A m \in new : n + 1 <= m => m = n + 1
    BY <1>1, <2>1
  <2>4. Max(new) = n + 1
    BY <2>1, <2>2, <2>3
  <2> QED
    BY <1>1, <1>2, <1>4, <2>1, <2>4 DEF ws
<1>5. CASE x = none
  <2>1. \A k \in 1 .. n + 1 : k \in 1 .. n \/ k = n + 1
    BY <1>1
  <2>2. \A k \in 1 .. n : k \in 1 .. n + 1
    BY <1>1
  <2>3. new = old
    BY <1>1, <1>5, <2>1, <2>2
  <2>4. old # {} => Max(old) \in 1 .. n
    <3>1. old \in SUBSET (1 .. n)
      BY <1>1
    <3> HIDE DEF old
    <3> QED
      BY <1>1, <3>1, GreatestPosition
  <2> HIDE DEF old, new
  <2> QED
    BY <1>1, <1>2, <1>3, <1>5, <2>3, <2>4 DEF ws
<1> QED
  BY <1>4, <1>5

LEMMA LastGivenNothing ==
  ASSUME NEW vs, NEW none, \A k \in DOMAIN vs : vs[k] = none
  PROVE  LastGiven(vs, none) = none
BY Zenon DEF LastGiven

(* What the fragments fs say of the call with index i. *)
HeadsFor(fs, i) == [n \in DOMAIN fs |-> IF fs[n].index = i THEN fs[n].head ELSE NoHead]
ArgsFor(fs, i) == [n \in DOMAIN fs |-> IF fs[n].index = i THEN fs[n].args ELSE <<>>]

HeadOrNone == Heading \cup {NoHead}
Call == [head: HeadOrNone, args: Seq(Letter)]

LEMMA FragmentFacts ==
  ASSUME NEW f \in Fragment, NEW i
  PROVE  /\ f.index \in Int /\ f.head \in HeadOrNone /\ f.args \in Seq(Letter)
         /\ (IF f.index = i THEN f.head ELSE NoHead) \in HeadOrNone
         /\ (IF f.index = i THEN f.args ELSE <<>>) \in Seq(Letter)
<1>1. f.index \in Int /\ f.head \in HeadOrNone /\ f.args \in Seq(Letter)
  BY DEF Fragment, HeadOrNone
<1>2. NoHead \in HeadOrNone /\ <<>> \in Seq(Letter)
  BY DEF HeadOrNone
<1> QED
  BY <1>1, <1>2

(* One fragment more says one thing more. *)
LEMMA ForAppend ==
  ASSUME NEW fs \in Seq(Fragment), NEW f \in Fragment, NEW i
  PROVE  /\ HeadsFor(fs, i) \in Seq(HeadOrNone) /\ ArgsFor(fs, i) \in Seq(Seq(Letter))
         /\ HeadsFor(Append(fs, f), i)
              = Append(HeadsFor(fs, i), IF f.index = i THEN f.head ELSE NoHead)
         /\ ArgsFor(Append(fs, f), i)
              = Append(ArgsFor(fs, i), IF f.index = i THEN f.args ELSE <<>>)
<1> DEFINE n == Len(fs)
           gs == Append(fs, f)
           h == IF f.index = i THEN f.head ELSE NoHead
           a == IF f.index = i THEN f.args ELSE <<>>
<1>1. /\ n \in Nat /\ DOMAIN fs = 1 .. n /\ DOMAIN gs = 1 .. n + 1
      /\ gs[n + 1] = f /\ \A k \in 1 .. n : gs[k] = fs[k] /\ fs[k] \in Fragment
  BY AppendProperties, LenProperties, ElementOfSeq
<1>2. h \in HeadOrNone /\ a \in Seq(Letter)
  BY FragmentFacts
<1>3. /\ HeadsFor(fs, i) \in [1 .. n -> HeadOrNone]
      /\ ArgsFor(fs, i) \in [1 .. n -> Seq(Letter)]
  <2>1. HeadsFor(fs, i) = [k \in 1 .. n |-> IF fs[k].index = i THEN fs[k].head ELSE NoHead]
    BY <1>1 DEF HeadsFor
  <2>2. ArgsFor(fs, i) = [k \in 1 .. n |-> IF fs[k].index = i THEN fs[k].args ELSE <<>>]
    BY <1>1 DEF ArgsFor
  <2>3. ASSUME NEW k \in 1 .. n
        PROVE  /\ (IF fs[k].index = i THEN fs[k].head ELSE NoHead) \in HeadOrNone
               /\ (IF fs[k].index = i THEN fs[k].args ELSE <<>>) \in Seq(Letter)
    <3>1. fs[k] \in Fragment
      BY <1>1
    <3> QED
      BY <3>1, FragmentFacts
  <2> QED
    BY <2>1, <2>2, <2>3
<1> HIDE DEF n
<1>4. /\ HeadsFor(fs, i) \in Seq(HeadOrNone) /\ Len(HeadsFor(fs, i)) = n
      /\ ArgsFor(fs, i) \in Seq(Seq(Letter)) /\ Len(ArgsFor(fs, i)) = n
  <2>1. n \in Nat
    BY <1>1
  <2>2. HeadsFor(fs, i) \in [1 .. n -> HeadOrNone]
    BY <1>3
  <2>3. ArgsFor(fs, i) \in [1 .. n -> Seq(Letter)]
    BY <1>3
  <2>4. HeadsFor(fs, i) \in Seq(HeadOrNone) /\ Len(HeadsFor(fs, i)) = n
    BY <2>1, <2>2
  <2>5. ArgsFor(fs, i) \in Seq(Seq(Letter)) /\ Len(ArgsFor(fs, i)) = n
    BY <2>1, <2>3
  <2> QED
    BY <2>4, <2>5
<1> HIDE DEF gs, h, a
<1>5. HeadsFor(gs, i) = Append(HeadsFor(fs, i), h)
  <2>1. /\ HeadsFor(gs, i) = [k \in 1 .. n + 1 |-> HeadsFor(gs, i)[k]]
        /\ HeadsFor(gs, i)[n + 1] = h
        /\ \A k \in 1 .. n : HeadsFor(gs, i)[k] = HeadsFor(fs, i)[k]
    BY <1>1 DEF HeadsFor, h
  <2>2. HeadsFor(fs, i) \in Seq(HeadOrNone) /\ n = Len(HeadsFor(fs, i))
    BY <1>4
  <2>3. Longer(HeadsFor(gs, i), HeadsFor(fs, i), h, n)
    BY <2>1, <2>2 DEF Longer
  <2> QED
    BY <1>2, <2>2, <2>3, IsAppend
<1>6. ArgsFor(gs, i) = Append(ArgsFor(fs, i), a)
  <2>1. /\ ArgsFor(gs, i) = [k \in 1 .. n + 1 |-> ArgsFor(gs, i)[k]]
        /\ ArgsFor(gs, i)[n + 1] = a
        /\ \A k \in 1 .. n : ArgsFor(gs, i)[k] = ArgsFor(fs, i)[k]
    BY <1>1 DEF ArgsFor, a
  <2>2. ArgsFor(fs, i) \in Seq(Seq(Letter)) /\ n = Len(ArgsFor(fs, i))
    BY <1>4
  <2>3. Longer(ArgsFor(gs, i), ArgsFor(fs, i), a, n)
    BY <2>1, <2>2 DEF Longer
  <2> QED
    BY <1>2, <2>2, <2>3, IsAppend
<1> QED
  BY <1>4, <1>5, <1>6 DEF gs, h, a

(* A fragment is merged into the call with its index and no other. *)
LEMMA CallOfAppend ==
  ASSUME NEW fs \in Seq(Fragment), NEW f \in Fragment, NEW i
  PROVE  /\ CallOf(fs, i) \in Call
         /\ CallOf(Append(fs, f), i) =
              IF f.index = i THEN MergedCall(CallOf(fs, i), f) ELSE CallOf(fs, i)
<1> DEFINE hs == HeadsFor(fs, i)
           as == ArgsFor(fs, i)
           h == IF f.index = i THEN f.head ELSE NoHead
           a == IF f.index = i THEN f.args ELSE <<>>
<1>1. \A gs : CallOf(gs, i) = [head |-> LastGiven(HeadsFor(gs, i), NoHead),
                               args |-> FlattenSeq(ArgsFor(gs, i))]
  BY DEF CallOf, HeadsFor, ArgsFor
<1>2. h \in HeadOrNone /\ a \in Seq(Letter)
  BY FragmentFacts
<1>3. /\ hs \in Seq(HeadOrNone) /\ as \in Seq(Seq(Letter))
      /\ HeadsFor(Append(fs, f), i) = Append(hs, h)
      /\ ArgsFor(Append(fs, f), i) = Append(as, a)
  BY ForAppend
<1> HIDE DEF hs, as, h, a
<1>4. LastGiven(Append(hs, h), NoHead) = IF h # NoHead THEN h ELSE LastGiven(hs, NoHead)
  BY <1>2, <1>3, LastGivenAppend
<1>5. FlattenSeq(as) \in Seq(Letter) /\ FlattenSeq(Append(as, a)) = FlattenSeq(as) \o a
  BY <1>2, <1>3, FlattenAppend
<1>6. LastGiven(hs, NoHead) \in HeadOrNone
  <2> DEFINE given == {n \in DOMAIN hs : hs[n] # NoHead}
  <2>1. LastGiven(hs, NoHead) = IF given = {} THEN NoHead ELSE hs[Max(given)]
    BY Zenon DEF LastGiven
  <2>2. Len(hs) \in Nat /\ given \in SUBSET (1 .. Len(hs))
    BY <1>3, LenProperties
  <2> HIDE DEF given
  <2>3. given # {} => Max(given) \in 1 .. Len(hs)
    BY <2>2, GreatestPosition
  <2>4. given # {} => hs[Max(given)] \in HeadOrNone
    BY <1>3, <2>3, ElementOfSeq
  <2>5. NoHead \in HeadOrNone
    BY DEF HeadOrNone
  <2> QED
    BY <2>1, <2>4, <2>5
<1>7. CallOf(fs, i) = [head |-> LastGiven(hs, NoHead), args |-> FlattenSeq(as)]
  BY <1>1 DEF hs, as
<1>8. CallOf(Append(fs, f), i) = [head |-> IF h # NoHead THEN h ELSE LastGiven(hs, NoHead),
                                  args |-> FlattenSeq(as) \o a]
  BY <1>1, <1>3, <1>4, <1>5
<1>9. CallOf(fs, i) \in Call
  <2>1. \A x \in HeadOrNone, y \in Seq(Letter) : [head |-> x, args |-> y] \in Call
    BY DEF Call
  <2> QED
    BY <1>5, <1>6, <1>7, <2>1
<1>10. CASE f.index = i
  BY <1>7, <1>8, <1>9, <1>10 DEF h, a, MergedCall
<1>11. CASE f.index # i
  <2>1. FlattenSeq(as) \o <<>> = FlattenSeq(as)
    BY <1>5, ConcatEmptySeq
  <2> QED
    BY <1>7, <1>8, <1>9, <1>11, <2>1 DEF h, a
<1> QED
  BY <1>9, <1>10, <1>11

(* Of an index that no fragment has there is no call yet. *)
LEMMA CallOfNothing ==
  ASSUME NEW fs \in Seq(Fragment), NEW i, \A n \in DOMAIN fs : fs[n].index # i
  PROVE  CallOf(fs, i) = NewCall
<1>1. CallOf(fs, i) = [head |-> LastGiven(HeadsFor(fs, i), NoHead),
                       args |-> FlattenSeq(ArgsFor(fs, i))]
  BY DEF CallOf, HeadsFor, ArgsFor
<1>2. LastGiven(HeadsFor(fs, i), NoHead) = NoHead
  <2>1. \A n \in DOMAIN HeadsFor(fs, i) : HeadsFor(fs, i)[n] = NoHead
    BY DEF HeadsFor
  <2> QED
    BY <2>1, LastGivenNothing
<1>3. FlattenSeq(ArgsFor(fs, i)) = <<>>
  <2>1. DOMAIN fs = 1 .. Len(fs) /\ Len(fs) \in Nat
    BY LenProperties
  <2>2. ArgsFor(fs, i) = [n \in 1 .. Len(fs) |-> <<>>]
    BY <2>1 DEF ArgsFor
  <2>3. <<>> \in Seq({})
    OBVIOUS
  <2>4. ArgsFor(fs, i) \in Seq(Seq({}))
    BY <2>1, <2>2, <2>3
  <2> QED
    BY <2>4, FlattenNothing
<1> QED
  BY <1>1, <1>2, <1>3 DEF NewCall

Indices(fs) == {fs[n].index : n \in DOMAIN fs}

(* What AggregateNested holds after the fragments fs: the calls that they    *)
(* make, and the indices in the order of their first fragments, each once.   *)
Collected(a, fs) ==
  /\ a = [text |-> a.text, finish |-> a.finish, order |-> a.order, calls |-> a.calls]
  /\ a.order \in Seq(Int) /\ a.order \in Orders(Indices(fs), Len(a.order))
  /\ a.calls = [i \in Indices(fs) |-> CallOf(fs, i)]

(* A new index makes the order longer by one. *)
LEMMA OrdersAppend ==
  ASSUME NEW R, NEW s \in Seq(Int), s \in Orders(R, Len(s)), NEW i \in Int, i \notin R
  PROVE  /\ Append(s, i) \in Seq(Int)
         /\ Append(s, i) \in Orders(R \cup {i}, Len(Append(s, i)))
<1> DEFINE n == Len(s)
           t == Append(s, i)
<1>1. /\ n \in Nat /\ t \in Seq(Int) /\ Len(t) = n + 1 /\ t[n + 1] = i
      /\ \A k \in 1 .. n : t[k] = s[k]
  BY AppendProperties, LenProperties
<1>2. t \in [1 .. n + 1 -> Int]
  <2> HIDE DEF t
  <2> QED
    BY <1>1, LenProperties
<1>3. /\ s \in [1 .. n -> Int] /\ Range(s) = R
      /\ \A a, b \in 1 .. n : s[a] = s[b] => a = b
  BY DEF Orders
<1> HIDE DEF t, n
<1>4. \A k \in 1 .. n + 1 : k \in 1 .. n \/ k = n + 1
  BY <1>1
<1>5. n + 1 \in 1 .. n + 1 /\ \A k \in 1 .. n : k \in 1 .. n + 1
  BY <1>1
<1>6. \A k \in 1 .. n : s[k] \in R
  BY <1>3 DEF Range
<1>7. ASSUME NEW a \in 1 .. n + 1, NEW b \in 1 .. n + 1, t[a] = t[b]
      PROVE  a = b
  BY <1>1, <1>3, <1>4, <1>6, <1>7
<1>8. Range(t) = R \cup {i}
  <2>1. \A x \in Range(t) : x \in R \cup {i}
    BY <1>1, <1>2, <1>4, <1>6 DEF Range
  <2>2. \A x \in R : x \in Range(t)
    <3> SUFFICES ASSUME NEW x \in R PROVE x \in Range(t)
      OBVIOUS
    <3>1. PICK k \in 1 .. n : s[k] = x
      BY <1>3 DEF Range
    <3> QED
      BY <1>1, <1>2, <1>5, <3>1 DEF Range
  <2>3. i \in Range(t)
    BY <1>1, <1>2, <1>5 DEF Range
  <2> QED
    BY <2>1, <2>2, <2>3
<1> QED
  BY <1>1, <1>2, <1>7, <1>8 DEF Orders, t

(* A fragment more is collected. *)
LEMMA WithFragmentCollects ==
  ASSUME NEW fs \in Seq(Fragment), NEW f \in Fragment, NEW a, Collected(a, fs)
  PROVE  /\ Collected(WithFragment(a, f), Append(fs, f))
         /\ WithFragment(a, f).text = a.text /\ WithFragment(a, f).finish = a.finish
<1> DEFINE gs == Append(fs, f)
           b == WithFragment(a, f)
           x == f.index
<1>1. /\ a = [text |-> a.text, finish |-> a.finish, order |-> a.order, calls |-> a.calls]
      /\ a.order \in Seq(Int) /\ a.order \in Orders(Indices(fs), Len(a.order))
      /\ a.calls = [i \in Indices(fs) |-> CallOf(fs, i)]
  BY DEF Collected
<1>2. x \in Int
  BY DEF Fragment
<1>3. Indices(gs) = Indices(fs) \cup {x}
  <2>1. /\ Len(fs) \in Nat /\ DOMAIN fs = 1 .. Len(fs) /\ DOMAIN gs = 1 .. Len(fs) + 1
        /\ gs[Len(fs) + 1] = f /\ \A k \in 1 .. Len(fs) : gs[k] = fs[k]
    BY AppendProperties, LenProperties
  <2> HIDE DEF gs
  <2>2. \A k \in DOMAIN gs : k \in DOMAIN fs \/ k = Len(fs) + 1
    BY <2>1
  <2>3. Len(fs) + 1 \in DOMAIN gs /\ \A k \in DOMAIN fs : k \in DOMAIN gs
    BY <2>1
  <2> QED
    BY <2>1, <2>2, <2>3 DEF Indices
<1>4. ToSet(a.order) = Indices(fs)
  BY <1>1 DEF ToSet, Range, Orders
<1>5. \A i : CallOf(gs, i) = IF x = i THEN MergedCall(CallOf(fs, i), f) ELSE CallOf(fs, i)
  BY CallOfAppend
<1>6. CASE x \in Indices(fs)
  <2> DEFINE calls == [a.calls EXCEPT ![x] = MergedCall(a.calls[x], f)]
  <2>1. b = [text |-> a.text, finish |-> a.finish, order |-> a.order, calls |-> calls]
    BY <1>1, <1>4, <1>6 DEF WithFragment
  <2>2. calls = [i \in Indices(fs) |-> CallOf(gs, i)]
    <3>1. a.calls[x] = CallOf(fs, x)
      BY <1>1, <1>6
    <3>2. calls = [i \in Indices(fs) |-> IF i = x THEN MergedCall(a.calls[x], f) ELSE a.calls[i]]
      BY <1>1
    <3>3. \A i \in Indices(fs) : a.calls[i] = CallOf(fs, i)
      BY <1>1
    <3> HIDE DEF calls, gs
    <3> QED
      BY <1>5, <3>1, <3>2, <3>3
  <2>3. Indices(gs) = Indices(fs)
    BY <1>3, <1>6
  <2> HIDE DEF b, calls, gs
  <2>4. b.text = a.text /\ b.finish = a.finish /\ b.order = a.order /\ b.calls = calls
    BY <2>1
  <2>5. Collected(b, gs)
    BY <1>1, <2>1, <2>2, <2>3, <2>4 DEF Collected
  <2> QED
    BY <2>4, <2>5 DEF b, gs
<1>7. CASE x \notin Indices(fs)
  <2> DEFINE calls == [i \in DOMAIN a.calls \cup {x} |->
                         IF i = x THEN MergedCall(NewCall, f) ELSE a.calls[i]]
             order == Append(a.order, x)
  <2>1. b = [text |-> a.text, finish |-> a.finish, order |-> order, calls |-> calls]
    <3>1. b = [a EXCEPT !.order = order, !.calls = calls]
      BY <1>4, <1>7 DEF WithFragment
    <3> HIDE DEF order, calls, b
    <3> QED
      BY <1>1, <3>1
  <2>2. CallOf(fs, x) = NewCall
    <3>1. \A n \in DOMAIN fs : fs[n].index # x
      BY <1>7 DEF Indices
    <3> QED
      BY <3>1, CallOfNothing
  <2>3. calls = [i \in Indices(gs) |-> CallOf(gs, i)]
    <3>1. DOMAIN a.calls = Indices(fs) /\ \A i \in Indices(fs) : a.calls[i] = CallOf(fs, i)
      BY <1>1
    <3>2. \A i \in Indices(gs) : i = x \/ (i # x /\ i \in Indices(fs))
      BY <1>3
    <3>3. \A i \in Indices(gs) :
            (IF i = x THEN MergedCall(NewCall, f) ELSE a.calls[i]) = CallOf(gs, i)
      BY <1>5, <2>2, <3>1, <3>2
    <3> HIDE DEF gs
    <3> QED
      BY <1>3, <3>1, <3>3
  <2>4. order \in Seq(Int) /\ order \in Orders(Indices(gs), Len(order))
    BY <1>1, <1>2, <1>3, <1>7, OrdersAppend
  <2> HIDE DEF b, calls, order, gs
  <2>5. b.text = a.text /\ b.finish = a.finish /\ b.order = order /\ b.calls = calls
    BY <2>1
  <2>6. Collected(b, gs)
    BY <2>1, <2>3, <2>4, <2>5 DEF Collected
  <2> QED
    BY <2>5, <2>6 DEF b, gs
<1> QED
  BY <1>6, <1>7

(* Merging the fragments of a chunk stays in A. *)
Merges(A, c, n) ==
  DOMAIN c.calls = 1 .. n /\ \A x \in A, k \in 1 .. n : WithFragment(x, c.calls[k]) \in A

(* Aggregating a chunk is a run of merges. *)
LEMMA AggregatedFold ==
  ASSUME NEW A, NEW a, NEW c, NEW n \in Nat, WithText(a, c) \in A, Merges(A, c, n)
  PROVE  \E F \in [0 .. n -> A] :
           /\ F[0] = WithText(a, c) /\ F[n] = Aggregated(a, c)
           /\ \A k \in 1 .. n : F[k] = WithFragment(F[k - 1], c.calls[k])
<1> DEFINE Steps(f) == f = [S \in SUBSET DOMAIN c.calls |->
                              IF S = {} THEN WithText(a, c)
                              ELSE WithFragment(f[S \ {Max(S)}], c.calls[Max(S)])]
           g == [x \in A |-> [k \in 1 .. n |-> WithFragment(x, c.calls[k])]]
<1>1. Aggregated(a, c) = (CHOOSE f : Steps(f))[DOMAIN c.calls]
  BY Zenon DEF Aggregated, FoldLeft, MapThenFoldSet
<1> USE DEF Merges
<1>2. g \in [A -> [1 .. n -> A]] /\ \A x \in A, k \in 1 .. n : g[x][k] = WithFragment(x, c.calls[k])
  OBVIOUS
<1> HIDE DEF g
<1>3. PICK f \in [SUBSET (1 .. n) -> A] : Folds(f, n, WithText(a, c), g)
  BY <1>2, FoldExists
<1>4. Steps(f)
  <2>1. ASSUME NEW S \in SUBSET (1 .. n), S # {}
        PROVE  f[S] = WithFragment(f[S \ {Max(S)}], c.calls[Max(S)])
    <3>1. f[S \ {Max(S)}] \in A /\ Max(S) \in 1 .. n
      BY <2>1, GreatestPosition
    <3> QED
      BY <1>2, <1>3, <2>1, <3>1 DEF Folds
  <2>2. f[{}] = WithText(a, c) /\ f = [S \in SUBSET (1 .. n) |-> f[S]]
    BY <1>3 DEF Folds
  <2> QED
    BY <2>1, <2>2
<1>5. PICK e : Steps(e) /\ Aggregated(a, c) = e[1 .. n]
  <2> HIDE DEF Steps
  <2> QED
    BY <1>1, <1>4
<1>6. Goes(e, n, WithText(a, c), A, g)
  <2> SUFFICES ASSUME NEW k \in 1 .. n, e[1 .. k - 1] \in A
               PROVE  e[1 .. k] = g[e[1 .. k - 1]][k]
    BY <1>5 DEF Goes
  <2>1. /\ 1 .. k \in SUBSET (1 .. n) /\ 1 .. k # {}
        /\ Max(1 .. k) = k /\ (1 .. k) \ {k} = 1 .. k - 1
    BY PrefixFacts
  <2>2. e[1 .. k] = WithFragment(e[(1 .. k) \ {Max(1 .. k)}], c.calls[Max(1 .. k)])
    BY <1>5, <2>1
  <2>3. e[1 .. k] = WithFragment(e[1 .. k - 1], c.calls[k])
    BY <2>1, <2>2
  <2> QED
    BY <1>2, <2>3
<1> HIDE DEF Steps
<1>7. PICK F \in [0 .. n -> A] : Unrolled(F, n, WithText(a, c), e, g)
  <2>1. g \in [A -> [1 .. n -> A]]
    BY <1>2
  <2> QED
    BY <1>6, <2>1, Unroll
<1>8. \A k \in 1 .. n : F[k] = WithFragment(F[k - 1], c.calls[k])
  <2>1. \A k \in 1 .. n : F[k - 1] \in A
    OBVIOUS
  <2> QED
    BY <1>2, <1>7, <2>1 DEF Unrolled
<1> QED
  BY <1>5, <1>7, <1>8 DEF Unrolled

(* What AggregateNested can hold with some text and reason to finish. *)
Aggs(text, finish) ==
  [text: {text}, finish: {finish}, order: Seq(Int),
   calls: UNION {[D -> Call] : D \in SUBSET Int}]

LEMMA CollectedIsAgg ==
  ASSUME NEW fs \in Seq(Fragment), NEW a, Collected(a, fs)
  PROVE  a \in Aggs(a.text, a.finish)
<1>1. Indices(fs) \in SUBSET Int
  <2>1. \A n \in DOMAIN fs : fs[n] \in Fragment
    BY LenProperties, ElementOfSeq
  <2> QED
    BY <2>1 DEF Indices, Fragment
<1>2. \A i : CallOf(fs, i) \in Call
  <2> TAKE i
  <2>1. CASE Fragment = {}
    <3>1. fs = <<>>
      BY <2>1
    <3>2. \A n \in DOMAIN fs : fs[n].index # i
      BY <3>1
    <3>3. CallOf(fs, i) = NewCall
      BY <3>2, CallOfNothing
    <3>4. NoHead \in HeadOrNone /\ <<>> \in Seq(Letter)
      BY DEF HeadOrNone
    <3> QED
      BY <3>3, <3>4 DEF NewCall, Call
  <2>2. CASE Fragment # {}
    BY <2>2, CallOfAppend
  <2> QED
    BY <2>1, <2>2
<1>3. a.calls \in [Indices(fs) -> Call]
  BY <1>2 DEF Collected
<1> QED
  BY <1>1, <1>3 DEF Collected, Aggs

(* A chunk more is collected, fragment by fragment. *)
LEMMA AggregatedCollects ==
  ASSUME NEW fs \in Seq(Fragment), NEW c \in Chunk, NEW a, Collected(a, fs)
  PROVE  /\ Collected(Aggregated(a, c), fs \o c.calls)
         /\ Aggregated(a, c).text = [k \in Key |-> a.text[k] \o TextOf(c, k)]
         /\ Aggregated(a, c).finish = IF c.finish # NoReason THEN c.finish ELSE a.finish
<1> DEFINE b == WithText(a, c)
           cs == c.calls
           n == Len(cs)
           A == {x \in Aggs(b.text, b.finish) : \E gs \in Seq(Fragment) : Collected(x, gs)}
<1>1. cs \in Seq(Fragment)
  BY ChunkAssumption
<1>2. n \in Nat /\ DOMAIN cs = 1 .. n /\ \A k \in 1 .. n : cs[k] \in Fragment
  BY <1>1, LenProperties, ElementOfSeq
<1>3. /\ b = [text |-> [k \in Key |-> a.text[k] \o TextOf(c, k)],
              finish |-> IF c.finish # NoReason THEN c.finish ELSE a.finish,
              order |-> a.order, calls |-> a.calls]
  <2> DEFINE tx == [k \in Key |-> a.text[k] \o TextOf(c, k)]
             fi == IF c.finish # NoReason THEN c.finish ELSE a.finish
  <2>1. b = [a EXCEPT !.text = tx, !.finish = fi]
    BY DEF WithText
  <2>2. a = [text |-> a.text, finish |-> a.finish, order |-> a.order, calls |-> a.calls]
    BY DEF Collected
  <2> HIDE DEF tx, fi, b
  <2>3. b = [text |-> tx, finish |-> fi, order |-> a.order, calls |-> a.calls]
    BY <2>1, <2>2
  <2> QED
    BY <2>3 DEF tx, fi
<1> HIDE DEF b
<1>4. Collected(b, fs)
  BY <1>3 DEF Collected
<1> HIDE DEF cs, n
<1>5. b \in A
  BY <1>4, CollectedIsAgg
<1>6. ASSUME NEW x \in A, NEW k \in 1 .. n
      PROVE  WithFragment(x, cs[k]) \in A
  <2>1. PICK gs \in Seq(Fragment) : Collected(x, gs)
    OBVIOUS
  <2>2. x.text = b.text /\ x.finish = b.finish
    BY DEF Aggs
  <2>3. cs[k] \in Fragment
    BY <1>2
  <2> DEFINE y == WithFragment(x, cs[k])
             hs == Append(gs, cs[k])
  <2>4. Collected(y, hs) /\ y.text = x.text /\ y.finish = x.finish
    BY <2>1, <2>3, WithFragmentCollects
  <2>5. hs \in Seq(Fragment)
    BY <2>3, AppendProperties
  <2> HIDE DEF y, hs
  <2>6. y \in Aggs(y.text, y.finish)
    BY <2>4, <2>5, CollectedIsAgg
  <2> QED
    BY <2>2, <2>4, <2>5, <2>6 DEF y
<1> HIDE DEF A
<1>7. Merges(A, c, n)
  BY <1>2, <1>6 DEF Merges, cs
<1>8. PICK F \in [0 .. n -> A] :
        /\ F[0] = b /\ F[n] = Aggregated(a, c)
        /\ \A k \in 1 .. n : F[k] = WithFragment(F[k - 1], cs[k])
  <2>1. n \in Nat
    BY <1>2
  <2> QED
    BY <1>5, <1>7, <2>1, AggregatedFold DEF b, cs
<1> DEFINE Good == {k \in 0 .. n : Collected(F[k], Joined(fs, cs, k))}
<1>9. /\ Joined(fs, cs, 0) = fs /\ Joined(fs, cs, n) = fs \o cs
      /\ \A k \in 0 .. n : Joined(fs, cs, k) \in Seq(Fragment)
      /\ \A k \in 0 .. n : k # n => Joined(fs, cs, k + 1) = Append(Joined(fs, cs, k), cs[k + 1])
  BY <1>1, JoinedFacts DEF n
<1>10. 0 \in Good
  BY <1>2, <1>4, <1>8, <1>9
<1>11. ASSUME NEW k \in 0 .. n, k \in Good, k # n
       PROVE  k + 1 \in Good
  <2>1. k + 1 \in 1 .. n /\ k + 1 \in 0 .. n /\ (k + 1) - 1 = k
    <3> HIDE DEF Good
    <3> QED
      BY <1>2, <1>11
  <2>2. F[k + 1] = WithFragment(F[k], cs[k + 1]) /\ cs[k + 1] \in Fragment
    BY <1>2, <1>8, <2>1
  <2>3. Joined(fs, cs, k) \in Seq(Fragment) /\ Collected(F[k], Joined(fs, cs, k))
    BY <1>9, <1>11
  <2>4. Collected(WithFragment(F[k], cs[k + 1]), Append(Joined(fs, cs, k), cs[k + 1]))
    BY <2>2, <2>3, WithFragmentCollects
  <2> QED
    BY <1>9, <1>11, <2>1, <2>2, <2>4
<1>12. \A k \in 0 .. n : k \in Good
  <2> HIDE DEF Good
  <2> QED
    BY <1>2, <1>10, <1>11, Climb
<1>13. n \in 0 .. n
  BY <1>2
<1>14. Collected(Aggregated(a, c), fs \o cs)
  BY <1>8, <1>9, <1>12, <1>13
<1>15. Aggregated(a, c).text = b.text /\ Aggregated(a, c).finish = b.finish
  <2>1. Aggregated(a, c) \in A
    BY <1>8, <1>13
  <2> QED
    BY <2>1 DEF A, Aggs
<1> QED
  BY <1>3, <1>14, <1>15 DEF cs

-----------------------------------------------------------------------------
(* What both clients have, chunk by chunk. *)

(* A delta says what its chunk says. *)
LEMMA DeltaFacts ==
  ASSUME NEW c \in Chunk
  PROVE  /\ c.calls \in Seq(Fragment)
         /\ Normalized(c).calls = c.calls /\ Normalized(c).finish = c.finish
         /\ \A k : TextOf(Normalized(c), k) = TextOf(c, k) /\ TextOf(c, k) \in Seq(Letter)
<1> DEFINE rest == [k \in {k \in DOMAIN c.text : c.text[k] # <<>>} |-> c.text[k]]
<1>1. /\ c = [text |-> c.text, calls |-> c.calls, finish |-> c.finish]
      /\ c.text \in [DOMAIN c.text -> Seq(Letter)] /\ c.calls \in Seq(Fragment)
  BY ChunkAssumption
<1>2. Normalized(c) = [c EXCEPT !.text = rest]
  BY DEF Normalized
<1>3. /\ DOMAIN rest = {k \in DOMAIN c.text : c.text[k] # <<>>}
      /\ \A k \in DOMAIN rest : rest[k] = c.text[k]
  OBVIOUS
<1> HIDE DEF rest
<1>4. Normalized(c) = [text |-> rest, calls |-> c.calls, finish |-> c.finish]
  BY <1>1, <1>2
<1>5. Normalized(c).text = rest /\ Normalized(c).calls = c.calls /\ Normalized(c).finish = c.finish
  BY <1>4
<1>6. \A k : TextOf(Normalized(c), k) = TextOf(c, k)
  <2> TAKE k
  <2>1. TextOf(Normalized(c), k) = IF k \in DOMAIN rest THEN rest[k] ELSE <<>>
    BY <1>5 DEF TextOf
  <2> QED
    BY <1>3, <2>1 DEF TextOf
<1>7. \A k : TextOf(c, k) \in Seq(Letter)
  <2> TAKE k
  <2>1. <<>> \in Seq(Letter)
    OBVIOUS
  <2> QED
    BY <1>1, <2>1 DEF TextOf
<1> QED
  BY <1>1, <1>5, <1>6, <1>7

(* The deltas ds, seen by kind of content. *)
CallsIn(ds) == [n \in DOMAIN ds |-> ds[n].calls]
TextsIn(ds, k) == [n \in DOMAIN ds |-> TextOf(ds[n], k)]
FinishIn(ds) == [n \in DOMAIN ds |-> ds[n].finish]
Finish == {c.finish : c \in Chunk}

LEMMA InAppend ==
  ASSUME NEW ds \in Seq(Delta), NEW c \in Chunk, NEW d, d = Normalized(c), NEW k
  PROVE  /\ CallsIn(ds) \in Seq(Seq(Fragment))
         /\ CallsIn(Append(ds, d)) = Append(CallsIn(ds), c.calls)
         /\ TextsIn(ds, k) \in Seq(Seq(Letter))
         /\ TextsIn(Append(ds, d), k) = Append(TextsIn(ds, k), TextOf(c, k))
         /\ FinishIn(ds) \in Seq(Finish)
         /\ FinishIn(Append(ds, d)) = Append(FinishIn(ds), c.finish)
<1> DEFINE n == Len(ds)
           es == Append(ds, d)
<1>1. d \in Delta /\ d.calls = c.calls /\ d.finish = c.finish /\ TextOf(d, k) = TextOf(c, k)
  BY DeltaFacts DEF Delta
<1>2. /\ n \in Nat /\ DOMAIN ds = 1 .. n /\ DOMAIN es = 1 .. n + 1
      /\ es[n + 1] = d /\ \A i \in 1 .. n : es[i] = ds[i] /\ ds[i] \in Delta
  BY <1>1, AppendProperties, LenProperties, ElementOfSeq
<1>3. \A e \in Delta :
        e.calls \in Seq(Fragment) /\ e.finish \in Finish /\ TextOf(e, k) \in Seq(Letter)
  BY DeltaFacts DEF Delta, Finish
<1>4. c.calls \in Seq(Fragment) /\ c.finish \in Finish /\ TextOf(c, k) \in Seq(Letter)
  BY DeltaFacts DEF Finish
<1> HIDE DEF n, es
<1>5. n + 1 \in 1 .. n + 1 /\ \A i \in 1 .. n : i \in 1 .. n + 1
  BY <1>2
<1>6. CallsIn(ds) \in Seq(Seq(Fragment)) /\ CallsIn(es) = Append(CallsIn(ds), c.calls)
  <2>1. CallsIn(ds) \in [1 .. n -> Seq(Fragment)]
    BY <1>2, <1>3 DEF CallsIn
  <2>2. CallsIn(ds) \in Seq(Seq(Fragment)) /\ Len(CallsIn(ds)) = n
    BY <1>2, <2>1
  <2>3. Longer(CallsIn(es), CallsIn(ds), c.calls, n)
    BY <1>1, <1>2, <1>5, <2>2 DEF Longer, CallsIn
  <2> QED
    BY <1>4, <2>2, <2>3, IsAppend
<1>7. TextsIn(ds, k) \in Seq(Seq(Letter)) /\ TextsIn(es, k) = Append(TextsIn(ds, k), TextOf(c, k))
  <2>1. TextsIn(ds, k) \in [1 .. n -> Seq(Letter)]
    BY <1>2, <1>3 DEF TextsIn
  <2>2. TextsIn(ds, k) \in Seq(Seq(Letter)) /\ Len(TextsIn(ds, k)) = n
    BY <1>2, <2>1
  <2>3. Longer(TextsIn(es, k), TextsIn(ds, k), TextOf(c, k), n)
    BY <1>1, <1>2, <1>5, <2>2 DEF Longer, TextsIn
  <2> QED
    BY <1>4, <2>2, <2>3, IsAppend
<1>8. FinishIn(ds) \in Seq(Finish) /\ FinishIn(es) = Append(FinishIn(ds), c.finish)
  <2>1. FinishIn(ds) \in [1 .. n -> Finish]
    BY <1>2, <1>3 DEF FinishIn
  <2>2. FinishIn(ds) \in Seq(Finish) /\ Len(FinishIn(ds)) = n
    BY <1>2, <2>1
  <2>3. Longer(FinishIn(es), FinishIn(ds), c.finish, n)
    BY <1>1, <1>2, <1>5, <2>2 DEF Longer, FinishIn
  <2> QED
    BY <1>4, <2>2, <2>3, IsAppend
<1> QED
  BY <1>6, <1>7, <1>8 DEF es

(* AggregateNested holds what a client makes of the deltas ds. *)
Assembled(a, ds) ==
  /\ FragmentsOf(ds) \in Seq(Fragment)
  /\ Collected(a, FragmentsOf(ds))
  /\ a.text = [k \in Key |-> TextGot(ds, k)]
  /\ a.finish = FinishGot(ds)

LEMMA AssembledNothing == Assembled(Nothing, <<>>)
<1>1. CallsIn(<<>>) = <<>> /\ \A k : TextsIn(<<>>, k) = <<>>
  BY DEF CallsIn, TextsIn
<1>2. FlattenSeq(<<>>) = <<>>
  <2>1. <<>> \in Seq(Seq({}))
    OBVIOUS
  <2> QED
    BY <2>1, FlattenNothing
<1>3. FragmentsOf(<<>>) = <<>> /\ \A k : TextGot(<<>>, k) = <<>>
  BY <1>1, <1>2 DEF FragmentsOf, TextGot, CallsIn, TextsIn
<1>4. FinishGot(<<>>) = Stop
  <2>1. LastGiven(FinishIn(<<>>), NoReason) = NoReason
    BY LastGivenNothing DEF FinishIn
  <2> QED
    BY <2>1 DEF FinishGot, FinishIn
<1>5. Collected(Nothing, <<>>)
  <2>1. Indices(<<>>) = {} /\ Len(<<>>) = 0 /\ 1 .. 0 = {}
    BY DEF Indices
  <2>2. <<>> \in Seq(Int) /\ <<>> \in [1 .. 0 -> Int] /\ Range(<<>>) = {}
    BY DEF Range
  <2>3. <<>> \in Orders({}, 0)
    BY <2>1, <2>2 DEF Orders
  <2>4. <<>> = [i \in {} |-> CallOf(<<>>, i)]
    OBVIOUS
  <2> QED
    BY <2>1, <2>2, <2>3, <2>4 DEF Collected, Nothing
<1>6. <<>> \in Seq(Fragment)
  OBVIOUS
<1> QED
  BY <1>3, <1>4, <1>5, <1>6 DEF Assembled, Nothing

(* A chunk more keeps the two in step. *)
LEMMA AssembledMore ==
  ASSUME NEW a, NEW ds \in Seq(Delta), Assembled(a, ds), NEW c \in Chunk
  PROVE  Assembled(Aggregated(a, c), Append(ds, Normalized(c)))
<1> DEFINE d == Normalized(c)
           es == Append(ds, d)
           b == Aggregated(a, c)
           fs == FragmentsOf(ds)
<1>1. c.calls \in Seq(Fragment) /\ \A k : TextOf(c, k) \in Seq(Letter)
  BY DeltaFacts
<1>2. FragmentsOf(es) = fs \o c.calls /\ fs \in Seq(Fragment)
  <2>1. CallsIn(ds) \in Seq(Seq(Fragment)) /\ CallsIn(es) = Append(CallsIn(ds), c.calls)
    BY InAppend
  <2>2. \A xs : FragmentsOf(xs) = FlattenSeq(CallsIn(xs))
    BY DEF FragmentsOf, CallsIn
  <2> HIDE DEF es
  <2> QED
    BY <1>1, <2>1, <2>2, FlattenAppend
<1>3. \A k : TextGot(es, k) = TextGot(ds, k) \o TextOf(c, k)
  <2> TAKE k
  <2>1. TextsIn(ds, k) \in Seq(Seq(Letter)) /\ TextsIn(es, k) = Append(TextsIn(ds, k), TextOf(c, k))
    BY InAppend
  <2>2. \A xs : TextGot(xs, k) = FlattenSeq(TextsIn(xs, k))
    BY DEF TextGot, TextsIn
  <2> HIDE DEF es
  <2>3. TextsIn(ds, k) \in Seq(Seq(Letter)) /\ TextOf(c, k) \in Seq(Letter)
    BY <1>1, <2>1
  <2>4. FlattenSeq(Append(TextsIn(ds, k), TextOf(c, k)))
          = FlattenSeq(TextsIn(ds, k)) \o TextOf(c, k)
    BY <2>3, FlattenAppend
  <2> QED
    BY <2>1, <2>2, <2>4
<1>4. FinishGot(es) = IF c.finish # NoReason THEN c.finish ELSE FinishGot(ds)
  <2>1. FinishIn(ds) \in Seq(Finish) /\ FinishIn(es) = Append(FinishIn(ds), c.finish)
    BY InAppend
  <2>2. c.finish \in Finish
    BY DEF Finish
  <2>3. \A xs : FinishGot(xs) = IF LastGiven(FinishIn(xs), NoReason) = NoReason
                                THEN Stop ELSE LastGiven(FinishIn(xs), NoReason)
    BY DEF FinishGot, FinishIn
  <2> HIDE DEF es
  <2>4. LastGiven(FinishIn(es), NoReason) =
          IF c.finish # NoReason THEN c.finish ELSE LastGiven(FinishIn(ds), NoReason)
    BY <2>1, <2>2, LastGivenAppend
  <2> QED
    BY <2>3, <2>4
<1>5. Collected(a, fs) /\ a.text = [k \in Key |-> TextGot(ds, k)]
      /\ a.finish = FinishGot(ds)
  BY DEF Assembled
<1> HIDE DEF es, fs
<1>6. /\ Collected(b, fs \o c.calls)
      /\ b.text = [k \in Key |-> a.text[k] \o TextOf(c, k)]
      /\ b.finish = IF c.finish # NoReason THEN c.finish ELSE a.finish
  <2>1. fs \in Seq(Fragment)
    BY <1>2
  <2>2. Collected(a, fs)
    BY <1>5
  <2>3. /\ Collected(Aggregated(a, c), fs \o c.calls)
        /\ Aggregated(a, c).text = [k \in Key |-> a.text[k] \o TextOf(c, k)]
        /\ Aggregated(a, c).finish = IF c.finish # NoReason THEN c.finish ELSE a.finish
    BY <2>1, <2>2, AggregatedCollects
  <2> QED
    BY <2>3
<1> HIDE DEF b
<1>7. b.text = [k \in Key |-> TextGot(es, k)]
  BY <1>3, <1>5, <1>6
<1>8. fs \o c.calls \in Seq(Fragment)
  BY <1>1, <1>2, ConcatProperties
<1> QED
  BY <1>2, <1>4, <1>5, <1>6, <1>7, <1>8 DEF Assembled, b, es

-----------------------------------------------------------------------------
(* The deltas of all that the upstream has sent. *)
Sent == [n \in DOMAIN seen |-> Normalized(seen[n])]

(* The two readers have the same in hand as long as both can write. *)
AnswerInv ==
  /\ StreamInv
  /\ Sent \in Seq(Delta) /\ Assembled(agg, Sent)
  /\ streamEnd # "failed" => out = Sent

LEMMA AnswerInvInit == Init => AnswerInv
<1> SUFFICES ASSUME Init
             PROVE  AnswerInv
  OBVIOUS
<1>1. seen = <<>> /\ out = <<>> /\ agg = Nothing
  BY DEF Init, StreamInit
<1>2. Sent = <<>> /\ <<>> \in Seq(Delta)
  BY <1>1 DEF Sent
<1> QED
  BY <1>1, <1>2, StreamInvInit, AssembledNothing DEF AnswerInv

LEMMA SentGrows ==
  ASSUME seen \in Seq(Chunk), Sent \in Seq(Delta), NEW c \in Chunk, seen' = Append(seen, c)
  PROVE  Sent' = Append(Sent, Normalized(c))
<1> DEFINE n == Len(seen)
           new == Append(seen, c)
           more == [i \in DOMAIN new |-> Normalized(new[i])]
<1>1. /\ n \in Nat /\ DOMAIN seen = 1 .. n /\ DOMAIN new = 1 .. n + 1
      /\ new[n + 1] = c /\ \A i \in 1 .. n : new[i] = seen[i]
  BY AppendProperties, LenProperties
<1>2. n + 1 \in 1 .. n + 1 /\ \A i \in 1 .. n : i \in 1 .. n + 1
  BY <1>1
<1>3. Len(Sent) = n
  <2> HIDE DEF n
  <2>1. Sent = [i \in 1 .. n |-> Normalized(seen[i])]
    BY <1>1 DEF Sent
  <2> QED
    BY <1>1, <2>1
<1> HIDE DEF n, new
<1>4. Longer(more, Sent, Normalized(c), n)
  BY <1>1, <1>2, <1>3 DEF Longer, Sent
<1>5. Normalized(c) \in Delta
  BY DEF Delta
<1> HIDE DEF more
<1>6. more = Append(Sent, Normalized(c))
  BY <1>4, <1>5, IsAppend
<1>7. Sent' = more
  BY DEF Sent, more, new
<1> QED
  BY <1>6, <1>7

LEMMA AnswerInvStep == AnswerInv /\ [Next]_vars => AnswerInv'
<1> SUFFICES ASSUME AnswerInv, [Next]_vars
             PROVE  AnswerInv'
  OBVIOUS
<1>1. StreamInv'
  BY StreamInvStep DEF AnswerInv
<1>2. CASE ReadChunk
  <2>1. PICK c \in Chunk :
          /\ seen' = Append(seen, c) /\ agg' = Aggregated(agg, c)
          /\ \/ /\ streamEnd = "reading"
                /\ out' = Append(out, Normalized(c))
                /\ UNCHANGED streamEnd
             \/ /\ streamEnd' = "failed"
                /\ UNCHANGED out
    BY <1>2 DEF ReadChunk
  <2>2. seen \in Seq(Chunk) /\ Sent \in Seq(Delta) /\ Normalized(c) \in Delta
    BY DEF AnswerInv, StreamInv, Delta
  <2>3. Sent' = Append(Sent, Normalized(c))
    BY <2>1, <2>2, SentGrows
  <2>4. Append(Sent, Normalized(c)) \in Seq(Delta)
    BY <2>2, AppendProperties
  <2>5. Assembled(Aggregated(agg, c), Append(Sent, Normalized(c)))
    BY <2>2, AssembledMore DEF AnswerInv
  <2>6. Assembled(agg, Sent)'
    BY <2>1, <2>3, <2>5 DEF Assembled, Collected
  <2>7. streamEnd' # "failed" => out' = Sent'
    BY <2>1, <2>3 DEF AnswerInv
  <2> QED
    BY <1>1, <2>3, <2>4, <2>6, <2>7 DEF AnswerInv
<1>3. CASE ReadEnd \/ ReadError
  BY <1>1, <1>3 DEF ReadEnd, ReadError, AnswerInv, StreamInv, Sent, Assembled, Collected
<1>4. CASE UNCHANGED streamVars
  BY <1>1, <1>4 DEF streamVars, AnswerInv, Sent, Assembled, Collected
<1>5. CASE Encode \/ Post \/ Refuse \/ Accept
  BY <1>4, <1>5 DEF Encode, Post, Refuse, Accept
<1>6. CASE UNCHANGED vars
  BY <1>4, <1>6 DEF vars, streamVars
<1> QED
  BY <1>2, <1>3, <1>5, <1>6 DEF Next, Answering, StreamNext

LEMMA AnswerAlways == Spec => []AnswerInv
BY AnswerInvInit, AnswerInvStep, PTL DEF Spec

(* The message lists the calls that were collected, in order. *)
LEMMA MessageFacts ==
  ASSUME NEW a, NEW fs \in Seq(Fragment), Collected(a, fs)
  PROVE  LET m == Message(a) IN
         /\ m.text = a.text /\ m.finish = a.finish
         /\ ToSet(m.calls) = {[index |-> i, call |-> CallOf(fs, i)] : i \in Indices(fs)}
         /\ \A j, k \in 1 .. Len(m.calls) : j < k => m.calls[j].index < m.calls[k].index
<1> DEFINE m == Message(a)
           order == SortInts(a.order)
           n == Len(a.order)
           R == Indices(fs)
<1>1. n \in Nat /\ a.order \in Orders(R, n) /\ a.calls = [i \in R |-> CallOf(fs, i)]
  BY LenProperties DEF Collected
<1>2. order \in Orders(R, n) /\ Placed(order, n, n)
  BY <1>1, SortIntsSorts
<1> HIDE DEF order, n, R
<1>3. /\ order \in [1 .. n -> Int] /\ Range(order) = R
      /\ \A i, j \in 1 .. n : order[i] = order[j] => i = j
  BY <1>2 DEF Orders
<1>4. Len(order) = n /\ DOMAIN order = 1 .. n
  BY <1>1, <1>3
<1> DEFINE calls == [i \in 1 .. n |-> [index |-> order[i], call |-> a.calls[order[i]]]]
<1>5. m = [text |-> a.text, finish |-> a.finish, calls |-> calls]
  BY <1>4 DEF Message, order
<1>6. DOMAIN calls = 1 .. n /\ Len(calls) = n
  BY <1>1
<1>7. \A i \in 1 .. n :
        order[i] \in R /\ calls[i] = [index |-> order[i], call |-> CallOf(fs, order[i])]
  <2> TAKE i \in 1 .. n
  <2>1. order[i] \in R
    BY <1>3, <1>4 DEF Range
  <2>2. a.calls[order[i]] = CallOf(fs, order[i])
    BY <1>1, <2>1
  <2> QED
    BY <2>1, <2>2
<1>k. \A i \in 1 .. n : calls[i].index = order[i]
  BY DEF calls
<1> HIDE DEF calls
<1>8. ToSet(calls) = {[index |-> i, call |-> CallOf(fs, i)] : i \in R}
  <2>1. \A i \in R : \E j \in 1 .. n : order[j] = i
    BY <1>3, <1>4 DEF Range
  <2> QED
    BY <1>6, <1>7, <2>1 DEF ToSet
<1>9. \A j, k \in 1 .. n : j < k => calls[j].index < calls[k].index
  <2> SUFFICES ASSUME NEW j \in 1 .. n, NEW k \in 1 .. n, j < k
               PROVE  calls[j].index < calls[k].index
    OBVIOUS
  <2>0. calls[j].index = order[j] /\ calls[k].index = order[k]
    BY <1>k
  <2>1. order[j] <= order[k] /\ order[j] # order[k] /\ order[j] \in Int /\ order[k] \in Int
    BY <1>1, <1>2, <1>3 DEF Placed
  <2> QED
    BY <2>0, <2>1
<1>10. m.text = a.text /\ m.finish = a.finish /\ m.calls = calls
  BY <1>5
<1> HIDE DEF m
<1> QED
  BY <1>6, <1>8, <1>9, <1>10 DEF m, R

(* The calls of a message stand in the order of their indices, each once,   *)
(* for streams of any length (sortInts, sse.go:192-201, and                 *)
(* AggregateNested, sse.go:135).                                            *)
THEOREM CallsAreSorted == Spec => []CallsInOrder
<1>1. AnswerInv => CallsInOrder
  <2> SUFFICES ASSUME AnswerInv
               PROVE  CallsInOrder
    OBVIOUS
  <2>1. FragmentsOf(Sent) \in Seq(Fragment) /\ Collected(agg, FragmentsOf(Sent))
    BY DEF AnswerInv, Assembled
  <2> QED
    BY <2>1, MessageFacts DEF CallsInOrder
<1> QED
  BY <1>1, AnswerAlways, PTL

(* A client that streams can make of its deltas the very message that a     *)
(* client gets that does not stream, at every point of a stream of any      *)
(* length, whatever the texts and however the fragments of its calls are    *)
(* mixed (StreamAsOpenAI and AggregateNested, sse.go:54-235), if it takes a *)
(* stream without a finish reason to have ended with "stop" (sse.go:61).    *)
THEOREM AnswersAreSame == Spec => []SameAnswer
<1>1. AnswerInv => SameAnswer
  <2> SUFFICES ASSUME AnswerInv, streamEnd # "failed"
               PROVE  LET m == Message(agg)
                      IN  /\ \A k \in Key : m.text[k] = TextGot(out, k)
                          /\ m.finish = FinishGot(out)
                          /\ ToSet(m.calls) =
                               {[index |-> f.index, call |-> CallOf(FragmentsOf(out), f.index)] :
                                  f \in ToSet(FragmentsOf(out))}
    BY DEF SameAnswer
  <2> DEFINE fs == FragmentsOf(out)
             m == Message(agg)
  <2>1. Assembled(agg, out)
    BY DEF AnswerInv
  <2>2. fs \in Seq(Fragment) /\ Collected(agg, fs)
    BY <2>1 DEF Assembled
  <2>3. /\ agg.text = [k \in Key |-> TextGot(out, k)]
        /\ agg.finish = FinishGot(out)
    BY <2>1 DEF Assembled
  <2>4. /\ m.text = agg.text /\ m.finish = agg.finish
        /\ ToSet(m.calls) = {[index |-> i, call |-> CallOf(fs, i)] : i \in Indices(fs)}
    BY <2>2, MessageFacts
  <2> HIDE DEF fs, m
  <2>5. {[index |-> i, call |-> CallOf(fs, i)] : i \in Indices(fs)}
          = {[index |-> f.index, call |-> CallOf(fs, f.index)] : f \in ToSet(fs)}
    BY DEF Indices, ToSet
  <2> QED
    BY <2>3, <2>4, <2>5 DEF fs, m
<1> QED
  BY <1>1, AnswerAlways, PTL

-----------------------------------------------------------------------------
(* The types of the request; those of the answer follow from AnswerInv.     *)
RequestInv ==
  /\ phase \in {"idle", "encoded", "posted", "answering"}
  /\ body \in Text /\ wire \in Seq(WireLetters)

(* What is encoded can be written on the wire. *)
LEMMA EncodeLetters ==
  ASSUME NEW s \in Text
  PROVE  QoderEncode(s) \in Seq(WireLetters)
<1> DEFINE r == Rearranged(s)
           n == Len(s)
<1>1. n \in Nat /\ r \in Seq(Std \cup {Pad}) /\ Len(r) = n
  BY LenProperties, RearrangedProperties DEF Text
<1>2. \A i \in 1 .. n : r[i] \in Std \cup {Pad}
  BY <1>1, LenProperties
<1>3. QoderEncode(s) = [i \in 1 .. n |-> Written[r[i]]]
  BY DEF QoderEncode
<1> HIDE DEF r, n
<1>4. \A i \in 1 .. n : Written[r[i]] \in WireLetters
  BY <1>2, Letters
<1> QED
  BY <1>1, <1>3, <1>4

LEMMA RequestInvInit == Init => RequestInv
<1> SUFFICES ASSUME Init
             PROVE  RequestInv
  OBVIOUS
<1>1. phase = "idle" /\ body = <<>> /\ wire = <<>>
  BY DEF Init
<1>2. <<>> \in Text /\ <<>> \in Seq(WireLetters)
  BY DEF Text
<1> QED
  BY <1>1, <1>2 DEF RequestInv

LEMMA RequestInvStep == RequestInv /\ [Next]_vars => RequestInv'
<1> SUFFICES ASSUME RequestInv, [Next]_vars
             PROVE  RequestInv'
  OBVIOUS
<1> USE DEF RequestInv
<1>1. CASE Encode
  <2>1. body' \in Text /\ wire' \in Seq(WireLetters)
    BY <1>1, BodyAssumption, EncodeLetters DEF Encode, Text
  <2> QED
    BY <1>1, <2>1 DEF Encode
<1>2. CASE Post
  BY <1>2 DEF Post, request
<1>3. CASE Refuse \/ Accept
  <2>1. body' = <<>> /\ wire' = <<>> /\ phase' \in {"idle", "answering"}
    BY <1>3 DEF Refuse, Accept, Forget
  <2>2. <<>> \in Text /\ <<>> \in Seq(WireLetters)
    BY DEF Text
  <2> QED
    BY <2>1, <2>2
<1>4. CASE Answering
  BY <1>4 DEF Answering, request
<1>5. CASE UNCHANGED vars
  BY <1>5 DEF vars, request
<1> QED
  BY <1>1, <1>2, <1>3, <1>4, <1>5 DEF Next

(* Every value stays of its type through the whole exchange, for any        *)
(* alphabet, bodies and chunks: what is on the wire is made of wire         *)
(* letters, and AggregateNested keeps a call for each index in its order    *)
(* and for no other (sse.go:95-113).                                        *)
THEOREM ExchangeTypeCorrect == Spec => []TypeOK
<1>1. Spec => []RequestInv
  BY RequestInvInit, RequestInvStep, PTL DEF Spec
<1>2. RequestInv /\ AnswerInv => TypeOK
  <2> SUFFICES ASSUME RequestInv, AnswerInv
               PROVE  TypeOK
    OBVIOUS
  <2>1. seen \in Seq(Chunk) /\ Len(out) <= Len(seen)
        /\ streamEnd \in {"reading", "done", "failed"} /\ aggEnd \in {"reading", "done", "failed"}
    BY DEF AnswerInv, StreamInv
  <2>2. Len(doneLines) <= 1
    <3>1. Len(<<Len(seen)>>) <= 1 /\ Len(<<>>) <= 1
      OBVIOUS
    <3> QED
      BY <3>1 DEF AnswerInv, StreamInv
  <2>3. DOMAIN agg.calls = ToSet(agg.order)
    <3>1. /\ agg.order \in Orders(Indices(FragmentsOf(Sent)), Len(agg.order))
          /\ agg.calls = [i \in Indices(FragmentsOf(Sent)) |-> CallOf(FragmentsOf(Sent), i)]
      BY DEF AnswerInv, Assembled, Collected
    <3> QED
      BY <3>1 DEF Orders, Range, ToSet
  <2> QED
    BY <2>1, <2>2, <2>3 DEF TypeOK, RequestInv, Text
<1> QED
  BY <1>1, <1>2, AnswerAlways, PTL
==============================================================================
