----------------------------- MODULE StoreProofs ----------------------------
(***************************************************************************)
(* The stores, for any followers, files of any number of chunks and any    *)
(* number of disturbances: a receiving store makes a .gz only of a whole   *)
(* file, as long as its connections are read in turn.                      *)
(***************************************************************************)
EXTENDS SnapshotTransfer, SequenceTheorems, FiniteSetTheorems, TLAPS

-----------------------------------------------------------------------------
(* Streams of chunks.                                                      *)
(*                                                                         *)
(* The chunks of a connection follow each other.  A stream of which some   *)
(* chunks are read is the oldest of its file, and the .tmp holds a run of  *)
(* chunks that ends where the stream goes on; it may have lost its         *)
(* beginning to the collection of old files.  So the last chunk completes  *)
(* a run, and a run of the size of the file is the file.                   *)

Heads == [index : Indexes, ver : Nat]
ChunkMsgs == [kind : {"chunk"}, head : Heads, chunk : 1..Chunks]
Msgs == [kind : {"ask", "raft", "snap"}, head : Heads] \cup ChunkMsgs

\* A chunk comes after the chunk before it, or first.
StreamOK(s) ==
  /\ s \in Seq(Msgs) /\ s # <<>>
  /\ \A q \in 2..Len(s) : s[q].kind = "chunk" =>
       s[q - 1].kind = "chunk" /\ s[q - 1].head = s[q].head /\ s[q - 1].chunk = s[q].chunk - 1

\* Connection k goes on with a chunk of the file of index i.
Holds(ss, k, i) == ss[k][1].kind = "chunk" /\ ss[k][1].head.index = i

\* The run of chunks that ends with chunk e, or a part of its end.
RunTo(f, e) == Len(f) <= e /\ \A q \in 1..Len(f) : f[q] = e - Len(f) + q

\* A stream of which chunks are read is the oldest of its file and goes on from the .tmp.
Begun(ss, k, tmp) ==
  LET m == ss[k][1] IN
  m.kind = "chunk" /\ m.chunk # 1 =>
    /\ \A j \in 1..(k - 1) : ~Holds(ss, j, m.head.index)
    /\ RunTo(tmp[m.head.index], m.chunk - 1)

InTurn(ss, tmp) == \A k \in 1..Len(ss) : StreamOK(ss[k]) /\ Begun(ss, k, tmp)

TmpFiles == [Indexes -> Seq(1..Chunks)]

\* What WithoutAt leaves.
LEMMA WithoutAtProperties ==
  ASSUME NEW S, NEW s \in Seq(S), NEW k \in 1..Len(s)
  PROVE  /\ WithoutAt(s, k) \in Seq(S)
         /\ Len(WithoutAt(s, k)) = Len(s) - 1
         /\ \A i \in 1..(Len(s) - 1) : WithoutAt(s, k)[i] = IF i < k THEN s[i] ELSE s[i + 1]
<1>1. Len(s) \in Nat /\ \A i \in 1..Len(s) : s[i] \in S
  BY LenProperties, ElementOfSeq
<1> DEFINE a == SubSeq(s, 1, k - 1)
           b == SubSeq(s, k + 1, Len(s))
<1>2. /\ a \in Seq(S) /\ Len(a) = k - 1
      /\ \A i \in 1..(k - 1) : a[i] = s[i]
  <2>1. \A i \in 1..(k - 1) : s[i] \in S
    BY <1>1
  <2>2. /\ a \in Seq(S) /\ Len(a) = IF 1 <= k - 1 THEN (k - 1) - 1 + 1 ELSE 0
        /\ \A i \in 1..((k - 1) - 1 + 1) : a[i] = s[1 + i - 1]
    BY <1>1, <2>1, SubSeqProperties
  <2> HIDE DEF a
  <2> QED
    BY <1>1, <2>2
<1>3. /\ b \in Seq(S) /\ Len(b) = Len(s) - k
      /\ \A i \in 1..(Len(s) - k) : b[i] = s[k + i]
  <2>1. \A i \in (k + 1)..Len(s) : s[i] \in S
    BY <1>1
  <2>2. /\ b \in Seq(S) /\ Len(b) = IF k + 1 <= Len(s) THEN Len(s) - (k + 1) + 1 ELSE 0
        /\ \A i \in 1..(Len(s) - (k + 1) + 1) : b[i] = s[(k + 1) + i - 1]
    BY <1>1, <2>1, SubSeqProperties
  <2> HIDE DEF b
  <2> QED
    BY <1>1, <2>2
<1>4. WithoutAt(s, k) = a \o b
  BY DEF WithoutAt
<1> HIDE DEF a, b
<1>5. /\ a \o b \in Seq(S) /\ Len(a \o b) = Len(a) + Len(b)
      /\ \A i \in 1..(Len(a) + Len(b)) : (a \o b)[i] = IF i <= Len(a) THEN a[i] ELSE b[i - Len(a)]
  BY <1>2, <1>3, ConcatProperties
<1>6. \A i \in 1..(Len(s) - 1) : (a \o b)[i] = IF i < k THEN s[i] ELSE s[i + 1]
  <2> SUFFICES ASSUME NEW i \in 1..(Len(s) - 1)
               PROVE  (a \o b)[i] = IF i < k THEN s[i] ELSE s[i + 1]
    BY Zenon
  <2>1. (a \o b)[i] = IF i <= k - 1 THEN a[i] ELSE b[i - (k - 1)]
    BY <1>1, <1>2, <1>3, <1>5
  <2>2. i < k => a[i] = s[i]
    BY <1>1, <1>2
  <2>3. ~(i < k) => b[i - (k - 1)] = s[i + 1]
    BY <1>1, <1>3
  <2> QED
    BY <1>1, <2>1, <2>2, <2>3
<1> QED
  BY <1>1, <1>2, <1>3, <1>4, <1>5, <1>6

\* A new connection begins with the first chunk or with none.
LEMMA StreamAdded ==
  ASSUME NEW ss \in Seq(Seq(Msgs)), NEW tmp \in TmpFiles, InTurn(ss, tmp),
         NEW s, StreamOK(s), s[1].kind = "chunk" => s[1].chunk = 1
  PROVE  Append(ss, s) \in Seq(Seq(Msgs)) /\ InTurn(Append(ss, s), tmp)
<1> DEFINE t == Append(ss, s)
<1>1. /\ t \in Seq(Seq(Msgs)) /\ Len(t) = Len(ss) + 1 /\ Len(ss) \in Nat
      /\ \A i \in 1..Len(ss) : t[i] = ss[i]
      /\ t[Len(ss) + 1] = s
  BY AppendProperties, LenProperties DEF StreamOK
<1> HIDE DEF t
<1>2. ASSUME NEW k \in 1..Len(ss) PROVE StreamOK(t[k]) /\ Begun(t, k, tmp)
  <2>1. StreamOK(ss[k]) /\ Begun(ss, k, tmp) /\ t[k] = ss[k]
    BY <1>1 DEF InTurn
  <2>2. \A j \in 1..(k - 1) : t[j] = ss[j]
    BY <1>1
  <2> QED
    BY <2>1, <2>2, Zenon DEF Begun, Holds
<1>3. StreamOK(t[Len(ss) + 1]) /\ Begun(t, Len(ss) + 1, tmp)
  BY <1>1 DEF Begun
<1>4. \A k \in 1..Len(t) : k \in 1..Len(ss) \/ k = Len(ss) + 1
  BY <1>1
<1>5. InTurn(t, tmp)
  BY <1>2, <1>3, <1>4 DEF InTurn
<1> QED
  BY <1>1, <1>5 DEF t

\* The .tmp files after a message of connection k: a chunk that no older connection holds
\* back changes the file of its index only.
Changed(ss, k, tmp, new) ==
  \/ new = tmp
  \/ LET m == ss[k][1] IN
     /\ m.kind = "chunk" /\ \A j \in 1..(k - 1) : ~Holds(ss, j, m.head.index)
     /\ \A i \in Indexes : i # m.head.index => new[i] = tmp[i]

\* The file that another connection goes on with is not changed.
LEMMA OtherFile ==
  ASSUME NEW ss \in Seq(Seq(Msgs)), NEW tmp \in TmpFiles, InTurn(ss, tmp),
         NEW k \in 1..Len(ss), NEW new \in TmpFiles, Changed(ss, k, tmp, new),
         NEW j \in 1..Len(ss), j # k, ss[j][1].kind = "chunk", ss[j][1].chunk # 1
  PROVE  ss[j][1].head.index \in Indexes /\ new[ss[j][1].head.index] = tmp[ss[j][1].head.index]
<1>1. StreamOK(ss[j]) /\ Begun(ss, j, tmp) /\ Len(ss) \in Nat
  BY LenProperties DEF InTurn
<1>2. \A l \in 1..(j - 1) : ~Holds(ss, l, ss[j][1].head.index)
  BY <1>1 DEF Begun
<1>3. ss[j][1].head.index \in Indexes
  <2>1. ss[j] \in Seq(Msgs) /\ ss[j] # <<>>
    BY <1>1 DEF StreamOK
  <2>2. Len(ss[j]) \in Nat \ {0}
    BY <2>1, EmptySeq
  <2>3. ss[j][1] \in Msgs
    BY <2>1, <2>2, ElementOfSeq
  <2> QED
    BY <2>3 DEF Msgs, ChunkMsgs, Heads
<1> DEFINE m == ss[k][1]
<1>4. CASE new = tmp
  BY <1>3, <1>4
<1>5. CASE new # tmp
  <2>1. /\ m.kind = "chunk" /\ \A l \in 1..(k - 1) : ~Holds(ss, l, m.head.index)
        /\ \A i \in Indexes : i # m.head.index => new[i] = tmp[i]
    BY <1>5 DEF Changed
  <2>2. ASSUME m.head.index = ss[j][1].head.index PROVE FALSE
    <3>1. Holds(ss, k, ss[j][1].head.index) /\ Holds(ss, j, m.head.index)
      BY <2>1, <2>2 DEF Holds
    <3>2. k \in 1..(j - 1) \/ j \in 1..(k - 1)
      BY <1>1
    <3> QED
      BY <1>2, <2>1, <3>1, <3>2
  <2> QED
    BY <1>3, <2>1, <2>2
<1> QED
  BY <1>3, <1>4, <1>5

\* A connection is lost, or its last message is read: the others keep their order.
LEMMA StreamRemoved ==
  ASSUME NEW ss \in Seq(Seq(Msgs)), NEW tmp \in TmpFiles, InTurn(ss, tmp),
         NEW k \in 1..Len(ss), NEW new \in TmpFiles, Changed(ss, k, tmp, new)
  PROVE  WithoutAt(ss, k) \in Seq(Seq(Msgs)) /\ InTurn(WithoutAt(ss, k), new)
<1> DEFINE t == WithoutAt(ss, k)
           At(i) == IF i < k THEN i ELSE i + 1
<1>1. /\ t \in Seq(Seq(Msgs)) /\ Len(t) = Len(ss) - 1 /\ Len(ss) \in Nat
      /\ \A i \in 1..(Len(ss) - 1) : t[i] = IF i < k THEN ss[i] ELSE ss[i + 1]
  BY WithoutAtProperties, LenProperties
<1> HIDE DEF t
<1>2. /\ \A i \in 1..Len(t) : At(i) \in 1..Len(ss) /\ At(i) # k /\ t[i] = ss[At(i)]
      /\ \A i \in 1..Len(t) : \A j \in 1..(i - 1) : j \in 1..Len(t) /\ At(j) \in 1..(At(i) - 1)
  <2>0. Len(t) = Len(ss) - 1 /\ Len(ss) \in Nat
    BY <1>1
  <2>1. ASSUME NEW i \in 1..Len(t) PROVE At(i) \in 1..Len(ss) /\ At(i) # k /\ t[i] = ss[At(i)]
    <3>1. CASE i < k
      <4>1. At(i) = i /\ i \in 1..Len(ss) /\ i # k /\ i \in 1..(Len(ss) - 1)
        BY <2>0, <3>1
      <4> QED
        BY <1>1, <3>1, <4>1, Zenon
    <3>2. CASE ~(i < k)
      <4>1. At(i) = i + 1
        BY <3>2
      <4>2. i + 1 \in 1..Len(ss) /\ i + 1 # k /\ i \in 1..(Len(ss) - 1)
        BY <2>0, <3>2
      <4> QED
        BY <1>1, <3>2, <4>1, <4>2, Zenon
    <3> QED
      BY <3>1, <3>2
  <2>2. ASSUME NEW i \in 1..Len(t), NEW j \in 1..(i - 1)
        PROVE  j \in 1..Len(t) /\ At(j) \in 1..(At(i) - 1)
    BY <2>0
  <2> HIDE DEF At
  <2> QED
    BY <2>1, <2>2
<1> HIDE DEF At
<1>3. ASSUME NEW i \in 1..Len(t) PROVE StreamOK(t[i]) /\ Begun(t, i, new)
  <2>1. StreamOK(ss[At(i)]) /\ Begun(ss, At(i), tmp) /\ t[i] = ss[At(i)]
    BY <1>2 DEF InTurn
  <2>2. \A j \in 1..(i - 1) : t[j] = ss[At(j)] /\ At(j) \in 1..(At(i) - 1)
    BY <1>2
  <2>3. ss[At(i)][1].kind = "chunk" /\ ss[At(i)][1].chunk # 1 =>
          new[ss[At(i)][1].head.index] = tmp[ss[At(i)][1].head.index]
    BY <1>2, OtherFile, SMTT(30)
  <2> QED
    BY <2>1, <2>2, <2>3, Zenon DEF Begun, Holds
<1> QED
  BY <1>1, <1>3 DEF InTurn, t

\* Small numbers as positions.
LEMMA Positions ==
  ASSUME NEW n \in Nat, n # 0, n # 1
  PROVE  1 \in 1..n /\ 2 \in 1..n /\ 2 \in 2..n /\ 1 \in 1..(n - 1) /\ 1 + 1 = 2 /\ 2 - 1 = 1
OBVIOUS

\* Two files of as many chunks.
LEMMA SameCount == ASSUME NEW a \in Nat, NEW b \in Nat, 2 * a - 1 = 2 * b - 1 PROVE a = b
OBVIOUS

\* The first two messages of a connection, and what is left of it when one is read.
LEMMA StreamTail ==
  ASSUME NEW s, StreamOK(s), Len(s) # 1
  PROVE  /\ StreamOK(Tail(s)) /\ Tail(s) \in Seq(Msgs) /\ Tail(s)[1] = s[2]
         /\ s[1] \in Msgs /\ s[2] \in Msgs
         /\ s[2].kind = "chunk" =>
              s[1].kind = "chunk" /\ s[1].head = s[2].head /\ s[1].chunk = s[2].chunk - 1
<1>1. s \in Seq(Msgs) /\ s # <<>>
  BY DEF StreamOK
<1>2. Len(s) \in Nat /\ Len(s) # 0
  BY <1>1, EmptySeq
<1>3. 1 \in 1..Len(s) /\ 2 \in 1..Len(s) /\ 2 \in 2..Len(s) /\ 1 \in 1..(Len(s) - 1)
      /\ 1 + 1 = 2 /\ 2 - 1 = 1
  BY <1>2, Positions, Zenon
<1>4. /\ Tail(s) \in Seq(Msgs) /\ Len(Tail(s)) = Len(s) - 1
      /\ \A i \in 1..Len(Tail(s)) : Tail(s)[i] = s[i + 1]
  BY <1>1, HeadTailProperties
<1>5. Tail(s)[1] = s[2] /\ Tail(s) # <<>>
  <2>1. 1 \in 1..Len(Tail(s))
    BY <1>3, <1>4
  <2> QED
    BY <1>3, <1>4, <2>1, EmptySeq
<1>6. ASSUME NEW q \in 2..Len(Tail(s)), Tail(s)[q].kind = "chunk"
      PROVE  /\ Tail(s)[q - 1].kind = "chunk" /\ Tail(s)[q - 1].head = Tail(s)[q].head
             /\ Tail(s)[q - 1].chunk = Tail(s)[q].chunk - 1
  <2>1. q + 1 \in 2..Len(s) /\ (q + 1) - 1 = q /\ (q - 1) + 1 = q
    BY <1>2, <1>4
  <2>2. Tail(s)[q] = s[q + 1] /\ Tail(s)[q - 1] = s[q]
    BY <1>2, <1>4
  <2> QED
    BY <1>6, <2>1, <2>2 DEF StreamOK
<1>7. StreamOK(Tail(s))
  BY <1>4, <1>5, <1>6 DEF StreamOK
<1>8. s[1] \in Msgs /\ s[2] \in Msgs
  BY <1>1, <1>3, ElementOfSeq
<1>9. s[2].kind = "chunk" =>
        s[2 - 1].kind = "chunk" /\ s[2 - 1].head = s[2].head /\ s[2 - 1].chunk = s[2].chunk - 1
  BY <1>3 DEF StreamOK
<1> QED
  BY <1>3, <1>4, <1>5, <1>7, <1>8, <1>9

\* A message of a connection with more is read: what follows a chunk is the next chunk of
\* the file, and what follows another message is no chunk.
LEMMA StreamRead ==
  ASSUME NEW ss \in Seq(Seq(Msgs)), NEW tmp \in TmpFiles, InTurn(ss, tmp),
         NEW k \in 1..Len(ss), Len(ss[k]) # 1,
         NEW new \in TmpFiles, Changed(ss, k, tmp, new),
         LET m == ss[k][1] IN
         m.kind = "chunk" =>
           /\ \A j \in 1..(k - 1) : ~Holds(ss, j, m.head.index)
           /\ RunTo(new[m.head.index], m.chunk) \/ m.chunk = Chunks
  PROVE  /\ [ss EXCEPT ![k] = Tail(@)] \in Seq(Seq(Msgs))
         /\ InTurn([ss EXCEPT ![k] = Tail(@)], new)
<1> DEFINE t == [ss EXCEPT ![k] = Tail(@)]
           m == ss[k][1]
           n == ss[k][2]
<1>1. StreamOK(ss[k])
  BY DEF InTurn
<1>2. ss[k] \in Seq(Msgs) /\ Tail(ss[k]) \in Seq(Msgs)
  BY <1>1, StreamTail DEF StreamOK
<1>3. StreamOK(Tail(ss[k])) /\ Tail(ss[k])[1] = n
  BY <1>1, StreamTail, Zenon
<1>4. /\ t \in Seq(Seq(Msgs)) /\ Len(t) = Len(ss) /\ Len(ss) \in Nat
      /\ \A j \in 1..Len(ss) : t[j] = IF j = k THEN Tail(ss[k]) ELSE ss[j]
  BY <1>2, ExceptSeq, LenProperties
<1>5. m \in Msgs /\ n \in Msgs
  BY <1>1, StreamTail
<1>6. n.kind = "chunk" => m.kind = "chunk" /\ m.head = n.head /\ m.chunk = n.chunk - 1
  BY <1>1, StreamTail
<1> HIDE DEF t, m, n
<1>7. \A j \in 1..Len(ss), i \in Indexes : Holds(t, j, i) => Holds(ss, j, i)
  BY <1>3, <1>4, <1>6, Zenon DEF Holds, m
<1>8. ASSUME NEW j \in 1..Len(ss) PROVE StreamOK(t[j]) /\ Begun(t, j, new)
  <2>1. CASE j = k
    <3>1. t[j] = Tail(ss[k]) /\ t[j][1] = n
      BY <1>3, <1>4, <2>1, Zenon
    <3>2. ASSUME n.kind = "chunk"
          PROVE  /\ \A l \in 1..(k - 1) : ~Holds(t, l, n.head.index)
                 /\ RunTo(new[n.head.index], n.chunk - 1)
      <4>1. m.kind = "chunk" /\ m.head = n.head /\ m.chunk = n.chunk - 1
        BY <1>6, <3>2
      <4>2. n.head.index \in Indexes /\ n.chunk \in 1..Chunks /\ m.chunk \in 1..Chunks
        BY <1>5, <3>2, <4>1 DEF Msgs, ChunkMsgs, Heads
      <4>3. m.chunk # Chunks
        BY <4>1, <4>2, SnapAssumption
      <4>4. /\ \A l \in 1..(k - 1) : ~Holds(ss, l, m.head.index)
            /\ RunTo(new[m.head.index], m.chunk)
        BY <4>1, <4>3 DEF m
      <4>5. \A l \in 1..(k - 1) : l \in 1..Len(ss)
        BY <1>4
      <4> QED
        BY <1>7, <4>1, <4>2, <4>4, <4>5
    <3> QED
      BY <1>3, <2>1, <3>1, <3>2, Zenon DEF Begun
  <2>2. CASE j # k
    <3>1. t[j] = ss[j] /\ StreamOK(ss[j]) /\ Begun(ss, j, tmp)
      BY <1>4, <2>2 DEF InTurn
    <3>2. ASSUME ss[j][1].kind = "chunk", ss[j][1].chunk # 1
          PROVE  /\ \A l \in 1..(j - 1) : ~Holds(t, l, ss[j][1].head.index)
                 /\ RunTo(new[ss[j][1].head.index], ss[j][1].chunk - 1)
      <4>1. /\ \A l \in 1..(j - 1) : ~Holds(ss, l, ss[j][1].head.index)
            /\ RunTo(tmp[ss[j][1].head.index], ss[j][1].chunk - 1)
        BY <3>1, <3>2 DEF Begun
      <4>2. ss[j][1].head.index \in Indexes
        BY <2>2, <3>2, OtherFile
      <4>3. new[ss[j][1].head.index] = tmp[ss[j][1].head.index]
        BY <2>2, <3>2, OtherFile
      <4>4. \A l \in 1..(j - 1) : l \in 1..Len(ss)
        BY <1>4
      <4> QED
        BY <1>7, <4>1, <4>2, <4>3, <4>4
    <3> QED
      BY <3>1, <3>2 DEF Begun
  <2> QED
    BY <2>1, <2>2
<1> QED
  BY <1>4, <1>8, Zenon DEF InTurn, t

\* Files that are removed leave the empty run.
LEMMA FilesDropped ==
  ASSUME NEW ss \in Seq(Seq(Msgs)), NEW tmp \in TmpFiles, InTurn(ss, tmp),
         NEW new \in TmpFiles, \A i \in Indexes : new[i] \in {tmp[i], <<>>}
  PROVE  InTurn(ss, new)
<1> SUFFICES ASSUME NEW k \in 1..Len(ss) PROVE StreamOK(ss[k]) /\ Begun(ss, k, new)
  BY DEF InTurn
<1>1. StreamOK(ss[k]) /\ Begun(ss, k, tmp)
  BY DEF InTurn
<1>2. ss[k][1] \in Msgs
  <2>1. ss[k] \in Seq(Msgs) /\ ss[k] # <<>>
    BY <1>1 DEF StreamOK
  <2>2. Len(ss[k]) \in Nat \ {0}
    BY <2>1, EmptySeq
  <2> QED
    BY <2>1, <2>2, ElementOfSeq
<1>3. ASSUME ss[k][1].kind = "chunk", ss[k][1].chunk # 1
      PROVE  RunTo(new[ss[k][1].head.index], ss[k][1].chunk - 1)
  <2>1. ss[k][1].head.index \in Indexes /\ ss[k][1].chunk \in 1..Chunks
    BY <1>2, <1>3 DEF Msgs, ChunkMsgs, Heads
  <2>2. RunTo(tmp[ss[k][1].head.index], ss[k][1].chunk - 1)
    BY <1>1, <1>3 DEF Begun
  <2>3. RunTo(<<>>, ss[k][1].chunk - 1)
    BY <2>1 DEF RunTo
  <2> QED
    BY <2>1, <2>2, <2>3, Zenon
<1> QED
  BY <1>1, <1>3 DEF Begun

\* check: a run to the last chunk that has the size of the file is the file.
LEMMA SizeOfRun ==
  ASSUME NEW f \in Seq(1..Chunks), f # <<>>, RunTo(f, Chunks), SizeMatches(f)
  PROVE  f = Whole
<1>1. Len(f) \in Nat \ {0} /\ Chunks \in Nat \ {0} /\ DOMAIN f = 1..Len(f)
  BY EmptySeq, LenProperties, SnapAssumption
<1>2. {k \in DOMAIN f : f[k] = Chunks} = {Len(f)}
  BY <1>1 DEF RunTo
<1>3. DOMAIN Whole = 1..Chunks /\ Whole \in Seq(1..Chunks) /\ Len(Whole) = Chunks
  BY <1>1 DEF Whole
<1>4. {k \in DOMAIN Whole : Whole[k] = Chunks} = {Chunks}
  BY <1>1 DEF Whole
<1>5. Cardinality({Len(f)}) = 1 /\ Cardinality({Chunks}) = 1
  BY FS_Singleton, Zenon
<1>6. Size(f) = 2 * Len(f) - 1 /\ Size(Whole) = 2 * Chunks - 1
  BY <1>2, <1>3, <1>4, <1>5, Zenon DEF Size
<1>7. Len(f) = Chunks
  <2>1. 2 * Len(f) - 1 = 2 * Chunks - 1
    BY <1>6, Zenon DEF SizeMatches
  <2>2. Len(f) \in Nat /\ Chunks \in Nat
    BY <1>1
  <2> QED
    BY <2>1, <2>2, SameCount
<1>8. \A q \in 1..Len(f) : f[q] = Whole[q]
  BY <1>1, <1>7 DEF RunTo, Whole
<1> QED
  BY <1>3, <1>7, <1>8, SeqEqual

-----------------------------------------------------------------------------
(* The inductive invariant.                                                *)
(*                                                                         *)
(* Queued messages, acks and headers are of snapshots the leader could     *)
(* generate, a goroutine that has checked a message has it at the head of  *)
(* its queue; the connections are in turn with the .tmp files, and every   *)
(* .gz is whole.  All of it until chunks of one file are read out of turn. *)

QueueMsgs == [kind : {"ask", "header"}, head : Heads]
Acks == [kind : {"accept", "reject", "received"}, head : Heads]

LeaderInv ==
  /\ snapEvents \in 0..MaxSnapEvents /\ index \in 1..(1 + snapEvents) /\ cellVer \in Nat
  /\ generated \in Seq(Heads)
  /\ answers \in [Followers -> SUBSET Acks]

QueueInv ==
  /\ outq \in [Followers -> Seq(QueueMsgs)]
  /\ sender \in [Followers -> {"idle", "checked", "writing"}]
  /\ \A p \in Followers : sender[p] # "idle" => outq[p] # <<>>

FilesInv ==
  /\ streams \in [Followers -> Seq(Seq(Msgs))]
  /\ tmpFile \in [Followers -> TmpFiles] /\ gzFile \in [Followers -> TmpFiles]
  /\ \A p \in Followers :
       InTurn(streams[p], tmpFile[p]) /\ \A i \in Indexes : gzFile[p][i] \in {<<>>, Whole}

SnapInd == LeaderInv /\ QueueInv /\ FilesInv
SnapInv == mixed \/ SnapInd

\* Nothing is generated, queued, written or received at the start.
LEMMA SnapInitInv == SnapInit => SnapInv
<1> SUFFICES ASSUME SnapInit PROVE SnapInd
  BY DEF SnapInv
<1>1. MaxSnapEvents \in Nat /\ snapEvents \in 0..MaxSnapEvents
  BY SnapAssumption DEF SnapInit
<1>2. LeaderInv
  BY <1>1 DEF SnapInit, LeaderInv
<1>3. QueueInv
  BY DEF SnapInit, QueueInv
<1>4. NoFiles \in TmpFiles
  BY DEF NoFiles, TmpFiles
<1>5. FilesInv
  BY <1>4 DEF SnapInit, FilesInv, InTurn, NoFiles
<1> QED
  BY <1>2, <1>3, <1>5 DEF SnapInd

-----------------------------------------------------------------------------
(* The leader and the queues *)

\* The message a goroutine has taken, what is left of its queue, and its queue after the
\* message came back.
LEMMA QueueHead ==
  ASSUME QueueInv, NEW p \in Followers, outq[p] # <<>>
  PROVE  /\ Taken(p) \in QueueMsgs /\ Rest(p) \in [Followers -> Seq(QueueMsgs)]
         /\ Again(p) \in [Followers -> Seq(QueueMsgs)]
         /\ \A q \in Followers : q # p => Rest(p)[q] = outq[q]
         /\ \A q \in Followers : q # p => Again(p)[q] = outq[q]
<1>1. outq[p] \in Seq(QueueMsgs) /\ outq \in [Followers -> Seq(QueueMsgs)]
  BY DEF QueueInv
<1>2. Head(outq[p]) \in QueueMsgs /\ Tail(outq[p]) \in Seq(QueueMsgs)
  BY <1>1, HeadTailProperties
<1>3. Append(Tail(outq[p]), Head(outq[p])) \in Seq(QueueMsgs)
  BY <1>2, AppendProperties
<1> QED
  BY <1>1, <1>2, <1>3 DEF Taken, Rest, Again

\* The goroutine is idle after it has dealt with its message.
LEMMA QueueDone ==
  ASSUME QueueInv, NEW p \in Followers, outq[p] # <<>>,
         sender' = [sender EXCEPT ![p] = "idle"], outq' = Rest(p) \/ outq' = Again(p)
  PROVE  QueueInv'
<1>1. outq' \in [Followers -> Seq(QueueMsgs)] /\ \A q \in Followers : q # p => outq'[q] = outq[q]
  BY QueueHead
<1>2. \A q \in Followers : sender'[q] = IF q = p THEN "idle" ELSE sender[q]
  BY DEF QueueInv
<1>3. sender' \in [Followers -> {"idle", "checked", "writing"}]
  BY DEF QueueInv
<1> QED
  BY <1>1, <1>2, <1>3 DEF QueueInv

\* A message is put in a queue.
LEMMA QueueLonger ==
  ASSUME QueueInv, NEW p \in Followers, NEW m \in QueueMsgs,
         outq' = [outq EXCEPT ![p] = Append(@, m)], UNCHANGED sender
  PROVE  QueueInv'
<1>1. outq[p] \in Seq(QueueMsgs) /\ outq \in [Followers -> Seq(QueueMsgs)]
  BY DEF QueueInv
<1>2. Append(outq[p], m) \in Seq(QueueMsgs) /\ Append(outq[p], m) # <<>>
  BY <1>1, AppendProperties
<1>3. /\ outq' \in [Followers -> Seq(QueueMsgs)]
      /\ \A q \in Followers : outq'[q] = IF q = p THEN Append(outq[p], m) ELSE outq[q]
  BY <1>1, <1>2
<1> QED
  BY <1>2, <1>3 DEF QueueInv

\* A step that leaves the connections and the files alone.
LEMMA FilesKeep ==
  ASSUME FilesInv, UNCHANGED <<streams, tmpFile, gzFile>>
  PROVE  FilesInv'
BY DEF FilesInv

\* The snap worker generates the header of what is applied.
LEMMA RunSnapJobInv == SnapInd /\ RunSnapJob => SnapInd'
<1> SUFFICES ASSUME SnapInd, RunSnapJob PROVE SnapInd'
  OBVIOUS
<1>1. MaxSnapEvents \in Nat
  BY SnapAssumption
<1>2. Header(index, cellVer) \in Heads
  BY <1>1 DEF SnapInd, LeaderInv, Header, Heads, Indexes
<1>3. <<Header(index, cellVer)>> \in Seq(Heads)
  BY <1>2
<1>4. generated' \in Seq(Heads)
  BY <1>3, Zenon DEF RunSnapJob, SnapInd, LeaderInv
<1>5. LeaderInv'
  BY <1>4 DEF RunSnapJob, SnapInd, LeaderInv
<1>6. QueueInv'
  BY DEF RunSnapJob, SnapInd, QueueInv, queueVars
<1>7. FilesInv'
  BY FilesKeep DEF RunSnapJob, SnapInd, followerVars
<1> QED
  BY <1>5, <1>6, <1>7 DEF SnapInd

\* An ack puts the header of an accepted snapshot in the queue.
LEMMA OnSnapshotAckInv ==
  ASSUME NEW p \in Followers, NEW a \in answers[p], SnapInd, OnSnapshotAck(p, a)
  PROVE  SnapInd'
<1>1. a \in Acks
  BY DEF SnapInd, LeaderInv
<1>2. answers' \in [Followers -> SUBSET Acks]
  BY DEF OnSnapshotAck, SnapInd, LeaderInv
<1>3. LeaderInv'
  BY <1>2 DEF OnSnapshotAck, SnapInd, LeaderInv
<1>4. [kind |-> "header", head |-> a.head] \in QueueMsgs
  BY <1>1 DEF Acks, QueueMsgs
<1>5. QueueInv'
  <2>1. CASE outq' = [outq EXCEPT ![p] = Append(@, [kind |-> "header", head |-> a.head])]
    BY <1>4, <2>1, QueueLonger, Zenon DEF OnSnapshotAck, SnapInd
  <2>2. CASE outq' = outq
    BY <2>2 DEF OnSnapshotAck, SnapInd, QueueInv
  <2> QED
    BY <2>1, <2>2 DEF OnSnapshotAck
<1>6. FilesInv'
  BY FilesKeep DEF OnSnapshotAck, SnapInd, followerVars
<1> QED
  BY <1>3, <1>5, <1>6 DEF SnapInd

\* What a goroutine does without writing.
LEMMA NotWritingInv ==
  ASSUME NEW p \in Followers, SnapInd,
         TakeSnapshotMessage(p) \/ CannotWrite(p) \/ SendingIsNil(p) \/ FinishSending(p)
  PROVE  SnapInd'
<1>1. LeaderInv' /\ FilesInv'
  <2>1. UNCHANGED <<answers, snapEvents, leaderVars, followerVars, streams>>
    BY Zenon DEF TakeSnapshotMessage, CannotWrite, SendingIsNil, FinishSending
  <2> QED
    BY <2>1, FilesKeep DEF SnapInd, LeaderInv, leaderVars, followerVars
<1>2. QueueInv'
  <2>1. CASE TakeSnapshotMessage(p)
    <3>1. CASE outq' = Rest(p) /\ UNCHANGED sender
      <4>1. outq' \in [Followers -> Seq(QueueMsgs)] /\ \A q \in Followers : q # p => outq'[q] = outq[q]
        BY <2>1, <3>1, QueueHead DEF TakeSnapshotMessage, SnapInd
      <4> QED
        BY <2>1, <3>1, <4>1 DEF TakeSnapshotMessage, SnapInd, QueueInv
    <3>2. CASE sender' = [sender EXCEPT ![p] = "checked"] /\ UNCHANGED outq
      BY <2>1, <3>2 DEF TakeSnapshotMessage, SnapInd, QueueInv
    <3> QED
      BY <2>1, <3>1, <3>2 DEF TakeSnapshotMessage
  <2>2. CASE CannotWrite(p)
    <3>1. outq[p] # <<>>
      BY <2>2 DEF CannotWrite, SnapInd, QueueInv
    <3> QED
      BY <2>2, <3>1, QueueDone, Zenon DEF CannotWrite, SnapInd
  <2>3. CASE SendingIsNil(p)
    BY <2>3, Zenon DEF SendingIsNil, SnapInd, QueueInv, queueVars
  <2>4. CASE FinishSending(p)
    <3>1. outq[p] # <<>>
      BY <2>4 DEF FinishSending, SnapInd, QueueInv
    <3> QED
      BY <2>4, <3>1, QueueDone, Zenon DEF FinishSending, SnapInd
  <2> QED
    BY <2>1, <2>2, <2>3, <2>4
<1> QED
  BY <1>1, <1>2 DEF SnapInd

-----------------------------------------------------------------------------
(* What is written to a connection *)

\* One message that is no chunk is a stream.
LEMMA OneMessage ==
  ASSUME NEW m \in Msgs PROVE StreamOK(<<m>>) /\ <<m>>[1] = m
<1>1. <<m>> \in Seq(Msgs) /\ <<m>> # <<>> /\ Len(<<m>>) = 1
  OBVIOUS
<1> QED
  BY <1>1 DEF StreamOK

\* A file and the raft message after it.
LEMMA FileStream ==
  ASSUME NEW h \in Heads
  PROVE  LET s == [i \in 1..Chunks |-> [kind |-> "chunk", head |-> h, chunk |-> i]]
                  \o <<[kind |-> "snap", head |-> h]>>
         IN StreamOK(s) /\ s[1].kind = "chunk" /\ s[1].chunk = 1 /\ Len(s) = Chunks + 1
<1> DEFINE c == [i \in 1..Chunks |-> [kind |-> "chunk", head |-> h, chunk |-> i]]
           e == [kind |-> "snap", head |-> h]
           s == c \o <<e>>
<1>1. Chunks \in Nat /\ Chunks # 0
  BY SnapAssumption
<1>2. \A i \in 1..Chunks : c[i] = [kind |-> "chunk", head |-> h, chunk |-> i] /\ c[i] \in Msgs
  BY DEF Msgs, ChunkMsgs
<1>3. c \in Seq(Msgs) /\ Len(c) = Chunks
  BY <1>1, <1>2
<1>4. e \in Msgs /\ <<e>> \in Seq(Msgs) /\ Len(<<e>>) = 1 /\ <<e>>[1] = e
  <2>1. e \in Msgs
    BY DEF Msgs
  <2> HIDE DEF e
  <2> QED
    BY <2>1
<1> HIDE DEF c, e
<1>5. /\ s \in Seq(Msgs) /\ Len(s) = Chunks + 1
      /\ \A i \in 1..(Chunks + 1) : s[i] = IF i <= Chunks THEN c[i] ELSE <<e>>[i - Chunks]
  BY <1>3, <1>4, ConcatProperties
<1> HIDE DEF s
<1>6. \A i \in 1..Chunks : s[i].kind = "chunk" /\ s[i].head = h /\ s[i].chunk = i
  <2>1. ASSUME NEW i \in 1..Chunks PROVE s[i].kind = "chunk" /\ s[i].head = h /\ s[i].chunk = i
    <3>1. s[i] = c[i] /\ c[i] = [kind |-> "chunk", head |-> h, chunk |-> i]
      BY <1>1, <1>2, <1>5
    <3> QED
      BY <3>1
  <2> QED
    BY <2>1
<1>7. s[Chunks + 1].kind = "snap"
  BY <1>1, <1>4, <1>5 DEF e
<1>8. ASSUME NEW q \in 2..(Chunks + 1), s[q].kind = "chunk"
      PROVE  s[q - 1].kind = "chunk" /\ s[q - 1].head = s[q].head /\ s[q - 1].chunk = s[q].chunk - 1
  <2>1. q \in 1..Chunks /\ q - 1 \in 1..Chunks
    BY <1>1, <1>7, <1>8
  <2> QED
    BY <1>6, <2>1
<1>9. s # <<>> /\ 1 \in 1..Chunks
  BY <1>1, <1>5
<1>10. StreamOK(s)
  BY <1>5, <1>8, <1>9 DEF StreamOK
<1>11. s[1].kind = "chunk" /\ s[1].chunk = 1
  BY <1>6, <1>9
<1> QED
  BY <1>5, <1>10, <1>11, Zenon DEF s, c, e

\* What is written before a connection breaks.
LEMMA StreamCut ==
  ASSUME NEW s, StreamOK(s), NEW n \in 1..Len(s)
  PROVE  StreamOK(SubSeq(s, 1, n)) /\ SubSeq(s, 1, n)[1] = s[1]
<1>1. s \in Seq(Msgs) /\ Len(s) \in Nat
  BY LenProperties DEF StreamOK
<1>2. \A i \in 1..n : s[i] \in Msgs
  <2>1. \A i \in 1..n : i \in 1..Len(s)
    BY <1>1
  <2> QED
    BY <1>1, <2>1, ElementOfSeq
<1> DEFINE t == SubSeq(s, 1, n)
<1>3. t \in Seq(Msgs) /\ Len(t) = n /\ \A i \in 1..n : t[i] = s[i]
  <2>1. /\ t \in Seq(Msgs) /\ Len(t) = IF 1 <= n THEN n - 1 + 1 ELSE 0
        /\ \A i \in 1..(n - 1 + 1) : t[i] = s[1 + i - 1]
    BY <1>1, <1>2, SubSeqProperties
  <2> HIDE DEF t
  <2> QED
    BY <1>1, <2>1
<1> HIDE DEF t
<1>4. t # <<>> /\ t[1] = s[1]
  BY <1>1, <1>3
<1>5. ASSUME NEW q \in 2..Len(t), t[q].kind = "chunk"
      PROVE  t[q - 1].kind = "chunk" /\ t[q - 1].head = t[q].head /\ t[q - 1].chunk = t[q].chunk - 1
  <2>1. q \in 2..Len(s) /\ t[q] = s[q] /\ t[q - 1] = s[q - 1]
    BY <1>1, <1>3
  <2> QED
    BY <1>5, <2>1 DEF StreamOK
<1>6. StreamOK(t)
  BY <1>3, <1>4, <1>5 DEF StreamOK
<1> QED
  BY <1>4, <1>6 DEF t

\* doSendSnapshotMessage writes the Ask, or the file from its first chunk.
LEMMA ContentOK ==
  ASSUME NEW p \in Followers, Taken(p) \in QueueMsgs
  PROVE  StreamOK(Content(p)) /\ (Content(p)[1].kind = "chunk" => Content(p)[1].chunk = 1)
<1>1. Taken(p).head \in Heads /\ Taken(p).kind \in {"ask", "header"}
  BY DEF QueueMsgs
<1> DEFINE h == Taken(p).head
           a == [kind |-> "ask", head |-> h]
           s == [i \in 1..Chunks |-> [kind |-> "chunk", head |-> h, chunk |-> i]]
                  \o <<[kind |-> "snap", head |-> h]>>
<1>2. Content(p) = IF Taken(p).kind = "ask" THEN <<a>> ELSE s
  BY DEF Content
<1>3. a \in Msgs /\ a.kind = "ask"
  BY <1>1 DEF Msgs
<1>4. StreamOK(s) /\ s[1].chunk = 1
  BY <1>1, FileStream, Zenon
<1> HIDE DEF a, s
<1>5. StreamOK(<<a>>) /\ <<a>>[1] = a
  BY <1>3, OneMessage
<1> QED
  BY <1>2, <1>3, <1>4, <1>5

\* A stream that begins a file, or has no chunk first, is added to the connections.
LEMMA WrittenInv ==
  ASSUME FilesInv, NEW p \in Followers, NEW s, StreamOK(s),
         s[1].kind = "chunk" => s[1].chunk = 1,
         streams' = [streams EXCEPT ![p] = Append(@, s)], UNCHANGED <<tmpFile, gzFile>>
  PROVE  FilesInv'
<1>1. streams[p] \in Seq(Seq(Msgs)) /\ tmpFile[p] \in TmpFiles /\ InTurn(streams[p], tmpFile[p])
  BY DEF FilesInv
<1>2. Append(streams[p], s) \in Seq(Seq(Msgs)) /\ InTurn(Append(streams[p], s), tmpFile[p])
  BY <1>1, StreamAdded
<1>3. /\ streams' \in [Followers -> Seq(Seq(Msgs))]
      /\ \A q \in Followers : streams'[q] = IF q = p THEN Append(streams[p], s) ELSE streams[q]
  BY <1>2 DEF FilesInv
<1> QED
  BY <1>2, <1>3 DEF FilesInv

\* SendSnap: the raft message and the Ask.
LEMMA SendSnapInv ==
  ASSUME NEW p \in Followers, SnapInd, SendSnap(p)
  PROVE  SnapInd'
<1>1. LeaderInv'
  BY DEF SendSnap, SnapInd, LeaderInv
<1>2. CASE Refused(p)
  <2>1. QueueInv'
    BY <1>2 DEF SendSnap, SnapInd, QueueInv
  <2>2. FilesInv'
    BY <1>2, FilesKeep DEF SendSnap, SnapInd, followerVars
  <2> QED
    BY <1>1, <2>1, <2>2 DEF SnapInd
<1>3. CASE ~Refused(p)
  <2> DEFINE h == generated[1]
             m == [kind |-> "raft", head |-> h]
             a == [kind |-> "ask", head |-> h]
  <2>1. h \in Heads
    <3>1. generated \in Seq(Heads) /\ generated # <<>>
      BY DEF SendSnap, SnapInd, LeaderInv
    <3> QED
      BY <3>1, EmptySeq, ElementOfSeq
  <2>2. outq' = [outq EXCEPT ![p] = Append(@, a)] /\ UNCHANGED sender
    BY <1>3 DEF SendSnap
  <2>3. streams' = [streams EXCEPT ![p] = Append(@, <<m>>)] /\ UNCHANGED <<tmpFile, gzFile>>
    BY <1>3 DEF SendSnap, followerVars
  <2>4. m \in Msgs /\ m.kind = "raft" /\ a \in QueueMsgs
    BY <2>1 DEF Msgs, QueueMsgs
  <2> HIDE DEF a, m
  <2>5. QueueInv'
    BY <2>2, <2>4, QueueLonger, Zenon DEF SnapInd
  <2>6. StreamOK(<<m>>) /\ <<m>>[1] = m
    BY <2>4, OneMessage
  <2>7. FilesInv'
    BY <2>3, <2>4, <2>6, WrittenInv, Zenon DEF SnapInd
  <2> QED
    BY <1>1, <2>5, <2>7 DEF SnapInd
<1> QED
  BY <1>2, <1>3

\* A goroutine writes all of its message, or as much of it as a connection takes.
LEMMA WritingInv ==
  ASSUME NEW p \in Followers, SnapInd,
         \/ WriteSnapshotMessage(p) \/ ResendAsk(p)
         \/ \E n \in 0..Chunks : BreakConnection(p, n)
  PROVE  SnapInd'
<1>1. sender[p] = "checked" /\ outq[p] # <<>>
  BY DEF WriteSnapshotMessage, ResendAsk, BreakConnection, Writable, SnapInd, QueueInv
<1>2. Taken(p) \in QueueMsgs
  BY <1>1, QueueHead DEF SnapInd
<1>3. LeaderInv'
  <2>1. MaxSnapEvents \in Nat
    BY SnapAssumption
  <2>2. UNCHANGED <<answers, leaderVars>> /\ (UNCHANGED snapEvents \/ Disturbed)
    BY DEF WriteSnapshotMessage, ResendAsk, BreakConnection
  <2> QED
    BY <2>1, <2>2 DEF SnapInd, LeaderInv, leaderVars, Disturbed
<1>4. QueueInv'
  <2>1. CASE sender' = [sender EXCEPT ![p] = "writing"] /\ UNCHANGED outq
    BY <1>1, <2>1 DEF SnapInd, QueueInv
  <2>2. CASE sender' = [sender EXCEPT ![p] = "idle"] /\ (outq' = Rest(p) \/ outq' = Again(p))
    BY <1>1, <2>2, QueueDone, Zenon DEF SnapInd
  <2> QED
    BY <2>1, <2>2 DEF WriteSnapshotMessage, ResendAsk, BreakConnection
<1>5. FilesInv'
  <2>1. UNCHANGED <<tmpFile, gzFile>>
    BY DEF WriteSnapshotMessage, ResendAsk, BreakConnection, followerVars
  <2>2. StreamOK(Content(p)) /\ (Content(p)[1].kind = "chunk" => Content(p)[1].chunk = 1)
    BY <1>2, ContentOK
  <2>3. CASE streams' = Writes(p, Content(p))
    <3>1. Content(p) # <<>>
      BY <2>2 DEF StreamOK
    <3>2. streams' = [streams EXCEPT ![p] = Append(@, Content(p))]
      BY <2>3, <3>1 DEF Writes
    <3> QED
      BY <2>1, <2>2, <3>2, WrittenInv, Zenon DEF SnapInd
  <2>4. CASE \E n \in 0..Chunks : BreakConnection(p, n)
    <3>1. PICK n \in 0..Chunks : BreakConnection(p, n)
      BY <2>4
    <3>2. Len(Content(p)) \in Nat /\ Chunks \in Nat /\ n < Len(Content(p))
      BY <2>2, <3>1, LenProperties, SnapAssumption DEF StreamOK, BreakConnection
    <3>3. CASE n = 0
      <4>1. SubSeq(Content(p), 1, n) = <<>>
        BY <2>2, <3>3, SubSeqProperties DEF StreamOK
      <4>2. UNCHANGED streams
        BY <3>1, <4>1 DEF BreakConnection, Writes, SnapInd, FilesInv
      <4> QED
        BY <2>1, <4>2, FilesKeep DEF SnapInd
    <3>4. CASE n # 0
      <4> DEFINE s == SubSeq(Content(p), 1, n)
      <4>1. n \in 1..Len(Content(p))
        BY <3>2, <3>4
      <4>2. StreamOK(s) /\ s[1] = Content(p)[1]
        BY <2>2, <4>1, StreamCut
      <4>3. streams' = Writes(p, s)
        BY <3>1 DEF BreakConnection
      <4> HIDE DEF s
      <4>4. s # <<>> /\ (s[1].kind = "chunk" => s[1].chunk = 1)
        BY <2>2, <4>2 DEF StreamOK
      <4>5. streams' = [streams EXCEPT ![p] = Append(@, s)]
        BY <4>3, <4>4 DEF Writes
      <4> QED
        BY <2>1, <4>2, <4>4, <4>5, WrittenInv, Zenon DEF SnapInd
    <3> QED
      BY <3>3, <3>4
  <2> QED
    BY <2>3, <2>4 DEF WriteSnapshotMessage, ResendAsk
<1> QED
  BY <1>3, <1>4, <1>5 DEF SnapInd

-----------------------------------------------------------------------------
(* What is read, lost, applied and collected *)

\* The messages of a connection, and the .tmp and .gz of an index, have their types.
LEMMA ReadTypes ==
  ASSUME FilesInv, NEW p \in Followers, NEW k \in 1..Len(streams[p])
  PROVE  /\ streams[p] \in Seq(Seq(Msgs)) /\ tmpFile[p] \in TmpFiles /\ gzFile[p] \in TmpFiles
         /\ InTurn(streams[p], tmpFile[p])
         /\ StreamOK(streams[p][k]) /\ Begun(streams[p], k, tmpFile[p])
         /\ Head(streams[p][k]) = streams[p][k][1] /\ streams[p][k][1] \in Msgs
<1>1. /\ streams[p] \in Seq(Seq(Msgs)) /\ tmpFile[p] \in TmpFiles /\ gzFile[p] \in TmpFiles
      /\ InTurn(streams[p], tmpFile[p])
  BY DEF FilesInv
<1>2. StreamOK(streams[p][k]) /\ Begun(streams[p], k, tmpFile[p])
  BY <1>1 DEF InTurn
<1>3. streams[p][k] \in Seq(Msgs) /\ streams[p][k] # <<>>
  BY <1>2 DEF StreamOK
<1>4. Len(streams[p][k]) \in Nat \ {0}
  BY <1>3, EmptySeq
<1>5. streams[p][k][1] \in Msgs
  BY <1>3, <1>4, ElementOfSeq
<1> QED
  BY <1>1, <1>2, <1>3, <1>5, HeadTailProperties

\* Files p has other than before leave the other followers alone.
LEMMA OneFollower ==
  ASSUME FilesInv, NEW p \in Followers,
         NEW ss \in Seq(Seq(Msgs)), NEW tmp \in TmpFiles, NEW gz \in TmpFiles,
         streams' = [streams EXCEPT ![p] = ss], tmpFile' = [tmpFile EXCEPT ![p] = tmp],
         gzFile' = [gzFile EXCEPT ![p] = gz],
         InTurn(ss, tmp), \A i \in Indexes : gz[i] \in {<<>>, Whole}
  PROVE  FilesInv'
<1>1. /\ streams' \in [Followers -> Seq(Seq(Msgs))] /\ tmpFile' \in [Followers -> TmpFiles]
      /\ gzFile' \in [Followers -> TmpFiles]
  BY DEF FilesInv
<1>2. \A q \in Followers : /\ streams'[q] = IF q = p THEN ss ELSE streams[q]
                           /\ tmpFile'[q] = IF q = p THEN tmp ELSE tmpFile[q]
                           /\ gzFile'[q] = IF q = p THEN gz ELSE gzFile[q]
  BY DEF FilesInv
<1> QED
  BY <1>1, <1>2 DEF FilesInv

\* A connection is lost.
LEMMA LoseStreamInv ==
  ASSUME NEW p \in Followers, NEW k \in 1..Len(streams[p]), SnapInd, LoseStream(p, k)
  PROVE  SnapInd'
<1>1. LeaderInv' /\ QueueInv'
  BY SnapAssumption
     DEF LoseStream, Disturbed, SnapInd, LeaderInv, QueueInv, leaderVars, queueVars
<1> DEFINE ss == WithoutAt(streams[p], k)
<1>2. ss \in Seq(Seq(Msgs)) /\ InTurn(ss, tmpFile[p])
  <2>1. Changed(streams[p], k, tmpFile[p], tmpFile[p])
    BY DEF Changed
  <2> QED
    BY <2>1, ReadTypes, StreamRemoved DEF SnapInd
<1>3. /\ streams' = [streams EXCEPT ![p] = ss]
      /\ tmpFile' = tmpFile /\ gzFile' = gzFile
  BY DEF LoseStream, followerVars
<1> HIDE DEF ss
<1>4. /\ tmpFile' = [tmpFile EXCEPT ![p] = tmpFile[p]]
      /\ gzFile' = [gzFile EXCEPT ![p] = gzFile[p]]
      /\ tmpFile[p] \in TmpFiles /\ gzFile[p] \in TmpFiles
      /\ \A i \in Indexes : gzFile[p][i] \in {<<>>, Whole}
  BY <1>3 DEF SnapInd, FilesInv
<1>5. FilesInv'
  BY <1>2, <1>3, <1>4, OneFollower, Zenon DEF SnapInd
<1> QED
  BY <1>1, <1>5 DEF SnapInd

\* What is left of the connections when a message is read.
LEMMA UnreadInTurn ==
  ASSUME FilesInv, NEW p \in Followers, NEW k \in 1..Len(streams[p]),
         NEW new \in TmpFiles, Changed(streams[p], k, tmpFile[p], new),
         LET m == streams[p][k][1] IN
         m.kind = "chunk" =>
           /\ \A j \in 1..(k - 1) : ~Holds(streams[p], j, m.head.index)
           /\ RunTo(new[m.head.index], m.chunk) \/ m.chunk = Chunks
  PROVE  \E ss \in Seq(Seq(Msgs)) : InTurn(ss, new) /\ Unread(p, k) = [streams EXCEPT ![p] = ss]
<1>1. /\ streams[p] \in Seq(Seq(Msgs)) /\ tmpFile[p] \in TmpFiles
      /\ InTurn(streams[p], tmpFile[p])
  BY ReadTypes
<1>2. CASE Len(streams[p][k]) = 1
  <2> DEFINE ss == WithoutAt(streams[p], k)
  <2>1. ss \in Seq(Seq(Msgs)) /\ InTurn(ss, new)
    BY <1>1, StreamRemoved
  <2>2. Unread(p, k) = [streams EXCEPT ![p] = ss]
    BY <1>2 DEF Unread
  <2> QED
    BY <2>1, <2>2, Zenon
<1>3. CASE Len(streams[p][k]) # 1
  <2> DEFINE ss == [streams[p] EXCEPT ![k] = Tail(@)]
  <2>1. ss \in Seq(Seq(Msgs)) /\ InTurn(ss, new)
    BY <1>1, <1>3, StreamRead, Zenon
  <2>2. Unread(p, k) = [streams EXCEPT ![p] = ss]
    BY <1>3 DEF Unread
  <2> QED
    BY <2>1, <2>2, Zenon
<1> QED
  BY <1>2, <1>3

\* ReceiveSnapData: the .tmp goes on with the next chunk, or starts over with the first.
LEMMA NextChunk ==
  ASSUME NEW f \in Seq(1..Chunks), NEW c \in 1..Chunks, c # 1 => RunTo(f, c - 1)
  PROVE  LET g == Append(IF c = 1 THEN <<>> ELSE f, c) IN
         g \in Seq(1..Chunks) /\ g # <<>> /\ RunTo(g, c)
<1> DEFINE e == IF c = 1 THEN <<>> ELSE f
           g == Append(e, c)
<1>1. e \in Seq(1..Chunks) /\ RunTo(e, c - 1) /\ Chunks \in Nat
  <2>1. RunTo(<<>>, 1 - 1) /\ <<>> \in Seq(1..Chunks) /\ Chunks \in Nat
    BY SnapAssumption DEF RunTo
  <2>2. CASE c = 1
    BY <2>1, <2>2
  <2>3. CASE c # 1
    BY <2>1, <2>3
  <2> QED
    BY <2>2, <2>3
<1> HIDE DEF e
<1>2. /\ g \in Seq(1..Chunks) /\ Len(g) = Len(e) + 1 /\ Len(e) \in Nat
      /\ \A i \in 1..Len(e) : g[i] = e[i]
      /\ g[Len(e) + 1] = c
  BY <1>1, AppendProperties, LenProperties
<1>3. g # <<>>
  BY <1>2, EmptySeq
<1> HIDE DEF g
<1>4. ASSUME NEW q \in 1..Len(g) PROVE g[q] = c - Len(g) + q
  <2>1. CASE q = Len(e) + 1
    BY <1>2, <2>1
  <2>2. CASE q # Len(e) + 1
    <3>1. q \in 1..Len(e)
      BY <1>2, <2>2
    <3>2. g[q] = (c - 1) - Len(e) + q
      BY <1>1, <1>2, <3>1 DEF RunTo
    <3> QED
      BY <1>2, <3>1, <3>2
  <2> QED
    BY <2>1, <2>2
<1>5. Len(g) <= c
  BY <1>1, <1>2 DEF RunTo
<1> QED
  BY <1>2, <1>3, <1>4, <1>5, Zenon DEF RunTo, g, e

\* A message is read that leaves the files alone.
LEMMA ReadOther ==
  ASSUME FilesInv, NEW p \in Followers, NEW k \in 1..Len(streams[p]),
         streams[p][k][1].kind # "chunk", streams' = Unread(p, k), UNCHANGED <<tmpFile, gzFile>>
  PROVE  FilesInv'
<1>1. tmpFile[p] \in TmpFiles /\ gzFile[p] \in TmpFiles
  BY DEF FilesInv
<1>2. Changed(streams[p], k, tmpFile[p], tmpFile[p])
  BY DEF Changed
<1>3. PICK ss \in Seq(Seq(Msgs)) :
        InTurn(ss, tmpFile[p]) /\ Unread(p, k) = [streams EXCEPT ![p] = ss]
  BY <1>1, <1>2, UnreadInTurn
<1>4. /\ tmpFile' = [tmpFile EXCEPT ![p] = tmpFile[p]]
      /\ gzFile' = [gzFile EXCEPT ![p] = gzFile[p]]
      /\ \A i \in Indexes : gzFile[p][i] \in {<<>>, Whole}
  BY DEF FilesInv
<1> QED
  BY <1>1, <1>3, <1>4, OneFollower, Zenon

\* A chunk is read in turn: the .tmp goes on with it, and the .gz it completes is whole.
LEMMA ReadChunk ==
  ASSUME FilesInv, NEW p \in Followers, NEW k \in 1..Len(streams[p]),
         streams[p][k][1].kind = "chunk",
         OnSnapshotChunk(p, streams[p][k][1].head, streams[p][k][1].chunk),
         ~OutOfTurn(p, k), streams' = Unread(p, k)
  PROVE  FilesInv'
<1> DEFINE m == streams[p][k][1]
           i == m.head.index
           c == m.chunk
           f == Append(IF c = 1 THEN <<>> ELSE tmpFile[p][i], c)
           renamed == c = Chunks /\ SizeMatches(f)
           tmp == [tmpFile[p] EXCEPT ![i] = IF renamed THEN <<>> ELSE f]
           gz == IF renamed THEN [gzFile[p] EXCEPT ![i] = f] ELSE gzFile[p]
<1>1. /\ streams[p] \in Seq(Seq(Msgs)) /\ tmpFile[p] \in TmpFiles /\ gzFile[p] \in TmpFiles
      /\ Begun(streams[p], k, tmpFile[p]) /\ Head(streams[p][k]) = m /\ m \in Msgs
  BY ReadTypes
<1>2. i \in Indexes /\ c \in 1..Chunks
  BY <1>1 DEF Msgs, ChunkMsgs, Heads
<1>3. tmpFile[p][i] \in Seq(1..Chunks)
  BY <1>1, <1>2 DEF TmpFiles
<1>4. c # 1 => RunTo(tmpFile[p][i], c - 1)
  BY <1>1, Zenon DEF Begun
<1>5. f \in Seq(1..Chunks) /\ f # <<>> /\ RunTo(f, c)
  BY <1>2, <1>3, <1>4, NextChunk, Zenon
<1>6. \A j \in 1..(k - 1) : ~Holds(streams[p], j, i)
  <2> SUFFICES ASSUME NEW j \in 1..(k - 1) PROVE ~Holds(streams[p], j, i)
    OBVIOUS
  <2>1. j \in 1..Len(streams[p])
    BY <1>1, LenProperties
  <2>2. Head(streams[p][j]) = streams[p][j][1]
    BY <2>1, ReadTypes
  <2>3. ~(Head(streams[p][j]).kind = "chunk"
          /\ Head(streams[p][j]).head.index = Head(streams[p][k]).head.index)
    BY DEF OutOfTurn
  <2> QED
    BY <1>1, <2>2, <2>3, Zenon DEF Holds
<1>7. tmpFile' = [tmpFile EXCEPT ![p] = tmp] /\ gzFile' = [gzFile EXCEPT ![p] = gz]
  <2>1. tmpFile' = [tmpFile EXCEPT ![p][i] = IF renamed THEN <<>> ELSE f]
    BY Zenon DEF OnSnapshotChunk
  <2>2. gzFile' = IF renamed THEN [gzFile EXCEPT ![p][i] = f] ELSE gzFile
    BY Zenon DEF OnSnapshotChunk
  <2> HIDE DEF f, renamed
  <2> QED
    BY <2>1, <2>2, Zenon DEF FilesInv
<1>8. renamed => f = Whole
  BY <1>5, SizeOfRun, Zenon
<1> DEFINE g == IF renamed THEN <<>> ELSE f
<1> HIDE DEF f
<1>9. g \in Seq(1..Chunks) /\ (RunTo(g, c) \/ c = Chunks) /\ tmp = [tmpFile[p] EXCEPT ![i] = g]
  <2>1. <<>> \in Seq(1..Chunks)
    OBVIOUS
  <2>2. CASE renamed
    <3>1. c = Chunks
      BY <2>2
    <3> HIDE DEF renamed
    <3> QED
      BY <2>1, <2>2, <3>1
  <2>3. CASE ~renamed
    <3> HIDE DEF renamed
    <3> QED
      BY <1>5, <2>3
  <2> QED
    BY <2>2, <2>3, Zenon
<1> HIDE DEF g, tmp
<1>10. tmp \in TmpFiles /\ \A l \in Indexes : l # i => tmp[l] = tmpFile[p][l]
  BY <1>1, <1>2, <1>9, Zenon DEF TmpFiles
<1>11. RunTo(tmp[i], c) \/ c = Chunks
  BY <1>1, <1>2, <1>9, Zenon DEF TmpFiles
<1>12. gz \in TmpFiles /\ \A l \in Indexes : gz[l] \in {<<>>, Whole}
  <2>1. \A l \in Indexes : gzFile[p][l] \in {<<>>, Whole}
    BY DEF FilesInv
  <2> QED
    BY <1>1, <1>2, <1>5, <1>8, <2>1, Zenon DEF TmpFiles
<1> HIDE DEF gz, renamed, i, c
<1>13. Changed(streams[p], k, tmpFile[p], tmp)
  BY <1>6, <1>10 DEF Changed, i
<1>14. PICK ss \in Seq(Seq(Msgs)) : InTurn(ss, tmp) /\ Unread(p, k) = [streams EXCEPT ![p] = ss]
  BY <1>6, <1>10, <1>11, <1>13, UnreadInTurn, Zenon DEF i, c
<1> QED
  BY <1>7, <1>10, <1>12, <1>14, OneFollower, Zenon

\* doConnection reads a message, in turn.
LEMMA ReadMessageInv ==
  ASSUME NEW p \in Followers, NEW k \in 1..Len(streams[p]), SnapInd, ReadMessage(p, k), ~mixed'
  PROVE  SnapInd'
<1> DEFINE m == streams[p][k][1]
<1>1. Head(streams[p][k]) = m /\ m \in Msgs
  BY ReadTypes DEF SnapInd
<1>2. m.head \in Heads
  BY <1>1 DEF Msgs, ChunkMsgs
<1>3. QueueInv'
  BY DEF ReadMessage, SnapInd, QueueInv, queueVars
<1>4. streams' = Unread(p, k) /\ UNCHANGED <<snapEvents, leaderVars>>
  BY Zenon DEF ReadMessage
<1> HIDE DEF m
<1>5. CASE m.kind = "ask" /\ OnSnapshotAsk(p, m.head)
  <2>1. answers' \in [Followers -> SUBSET Acks]
    BY <1>2, <1>5 DEF OnSnapshotAsk, SnapInd, LeaderInv, Acks
  <2>2. FilesInv'
    BY <1>4, <1>5, ReadOther DEF OnSnapshotAsk, SnapInd, followerVars, m
  <2> QED
    BY <1>3, <1>4, <2>1, <2>2 DEF SnapInd, LeaderInv, leaderVars
<1>6. CASE m.kind \in {"raft", "snap"} /\ OnSnap(p, m.head)
  <2>1. FilesInv'
    BY <1>4, <1>6, ReadOther DEF OnSnap, SnapInd, m
  <2> QED
    BY <1>3, <1>4, <1>6, <2>1 DEF OnSnap, SnapInd, LeaderInv, leaderVars
<1>7. CASE m.kind = "chunk" /\ OnSnapshotChunk(p, m.head, m.chunk) /\ ~OutOfTurn(p, k)
  <2>1. FilesInv'
    BY <1>4, <1>7, ReadChunk DEF SnapInd, m
  <2>2. \/ UNCHANGED answers
        \/ answers' = [answers EXCEPT ![p] = @ \cup {[kind |-> "received", head |-> m.head]}]
    BY <1>7, Zenon DEF OnSnapshotChunk
  <2>3. answers' \in [Followers -> SUBSET Acks]
    BY <1>2, <2>2 DEF SnapInd, LeaderInv, Acks
  <2> QED
    BY <1>3, <1>4, <2>1, <2>3 DEF SnapInd, LeaderInv, leaderVars
<1> QED
  BY <1>1, <1>5, <1>6, <1>7, Zenon DEF ReadMessage

\* Files of one index are removed from a store: its .gz is applied, or it is collected.
LEMMA FilesRemoved ==
  ASSUME FilesInv, NEW p \in Followers, NEW i \in Indexes, UNCHANGED streams,
         tmpFile' = [tmpFile EXCEPT ![p][i] = <<>>], gzFile' = [gzFile EXCEPT ![p][i] = <<>>]
  PROVE  FilesInv'
<1> DEFINE tmp == [tmpFile[p] EXCEPT ![i] = <<>>]
           gz == [gzFile[p] EXCEPT ![i] = <<>>]
<1>1. /\ streams[p] \in Seq(Seq(Msgs)) /\ tmpFile[p] \in TmpFiles /\ gzFile[p] \in TmpFiles
      /\ InTurn(streams[p], tmpFile[p])
      /\ \A l \in Indexes : gzFile[p][l] \in {<<>>, Whole}
  BY DEF FilesInv
<1>2. <<>> \in Seq(1..Chunks)
  OBVIOUS
<1>3. tmp \in TmpFiles /\ \A l \in Indexes : tmp[l] \in {tmpFile[p][l], <<>>}
  BY <1>1, <1>2 DEF TmpFiles
<1>4. gz \in TmpFiles /\ \A l \in Indexes : gz[l] \in {<<>>, Whole}
  BY <1>1, <1>2 DEF TmpFiles
<1>5. /\ streams' = [streams EXCEPT ![p] = streams[p]]
      /\ tmpFile' = [tmpFile EXCEPT ![p] = tmp] /\ gzFile' = [gzFile EXCEPT ![p] = gz]
  BY DEF FilesInv
<1> HIDE DEF tmp, gz
<1>6. InTurn(streams[p], tmp)
  BY <1>1, <1>3, FilesDropped
<1> QED
  BY <1>1, <1>3, <1>4, <1>5, <1>6, OneFollower, Zenon

\* The snapshot is applied.
LEMMA RestoreSnapshotInv ==
  ASSUME NEW p \in Followers, SnapInd, RestoreSnapshot(p)
  PROVE  SnapInd'
<1>1. LeaderInv' /\ QueueInv'
  BY DEF RestoreSnapshot, SnapInd, LeaderInv, QueueInv, leaderVars, queueVars
<1> DEFINE i == awaited[p][1].index
<1>2. /\ tmpFile' = [tmpFile EXCEPT ![p][i] = <<>>] /\ gzFile' = [gzFile EXCEPT ![p][i] = <<>>]
      /\ UNCHANGED streams
  BY DEF RestoreSnapshot
<1> HIDE DEF i
<1>3. CASE i \in Indexes
  BY <1>1, <1>2, <1>3, FilesRemoved, Zenon DEF SnapInd
<1>4. CASE i \notin Indexes
  <2>1. tmpFile[p] \in TmpFiles /\ gzFile[p] \in TmpFiles
    BY DEF SnapInd, FilesInv
  <2>2. [tmpFile[p] EXCEPT ![i] = <<>>] = tmpFile[p] /\ [gzFile[p] EXCEPT ![i] = <<>>] = gzFile[p]
    BY <1>4, <2>1, Zenon DEF TmpFiles
  <2>3. UNCHANGED <<tmpFile, gzFile>>
    BY <1>2, <2>2 DEF SnapInd, FilesInv
  <2> QED
    BY <1>1, <1>2, <2>3, FilesKeep DEF SnapInd
<1> QED
  BY <1>3, <1>4

\* Old files are collected.
LEMMA CollectFilesInv ==
  ASSUME NEW i \in Indexes, SnapInd, CollectFiles(i)
  PROVE  SnapInd'
<1>1. LeaderInv' /\ QueueInv'
  BY SnapAssumption DEF CollectFiles, Disturbed, SnapInd, LeaderInv, QueueInv, queueVars
<1>2. CASE UNCHANGED <<tmpFile, gzFile>>
  BY <1>1, <1>2, FilesKeep DEF CollectFiles, SnapInd
<1>3. CASE \E p \in Followers : /\ tmpFile' = [tmpFile EXCEPT ![p][i] = <<>>]
                                /\ gzFile' = [gzFile EXCEPT ![p][i] = <<>>]
  BY <1>1, <1>3, FilesRemoved, Zenon DEF CollectFiles, SnapInd
<1> QED
  BY <1>2, <1>3 DEF CollectFiles

\* A replica is created, a job given, an entry applied, or a replica removed.
LEMMA NoFilesInv ==
  ASSUME SnapInd,
         \/ \E p \in Followers : CreateFollower(p) \/ StartGenerate(p) \/ RemoveFollower(p)
         \/ \E v \in {0, 1} : Advance(v)
  PROVE  SnapInd'
<1>1. LeaderInv'
  <2>1. MaxSnapEvents \in Nat /\ snapEvents \in 0..MaxSnapEvents /\ index \in 1..(1 + snapEvents)
        /\ cellVer \in Nat
    BY SnapAssumption DEF SnapInd, LeaderInv
  <2>2. CASE \E p \in Followers : CreateFollower(p) \/ StartGenerate(p)
    BY <2>2 DEF CreateFollower, StartGenerate, SnapInd, LeaderInv, leaderVars
  <2>3. CASE \E p \in Followers : RemoveFollower(p)
    BY <2>1, <2>3 DEF RemoveFollower, Disturbed, SnapInd, LeaderInv, leaderVars
  <2>4. ASSUME NEW v \in {0, 1}, Advance(v) PROVE LeaderInv'
    <3>1. snapEvents' \in 0..MaxSnapEvents /\ index' \in 1..(1 + snapEvents') /\ cellVer' \in Nat
      BY <2>1, <2>4 DEF Advance, Disturbed
    <3> QED
      BY <2>4, <3>1, Zenon DEF Advance, SnapInd, LeaderInv
  <2> QED
    BY <2>2, <2>3, <2>4
<1>2. QueueInv' /\ FilesInv'
  <2>1. UNCHANGED <<outq, sender, streams, tmpFile, gzFile>>
    BY DEF CreateFollower, StartGenerate, RemoveFollower, Advance, queueVars, followerVars
  <2> QED
    BY <2>1, FilesKeep DEF SnapInd, QueueInv
<1> QED
  BY <1>1, <1>2 DEF SnapInd

-----------------------------------------------------------------------------
\* Only a chunk that is read touches the sign that files were mixed, and it stays.
LEMMA MixedStays == SnapNext /\ ~mixed' => ~mixed
<1>1. SnapNext /\ ~(\E p \in Followers : Read(p)) => mixed' = mixed
  <2>1. RunSnapJob => mixed' = mixed
    BY DEF RunSnapJob, followerVars
  <2>2. ASSUME NEW p \in Followers PROVE Raft(p) => mixed' = mixed
    BY Zenon DEF Raft, CreateFollower, StartGenerate, SendSnap, followerVars
  <2>3. ASSUME NEW p \in Followers PROVE Sender(p) => mixed' = mixed
    BY Zenon DEF Sender, TakeSnapshotMessage, WriteSnapshotMessage, CannotWrite, SendingIsNil,
           FinishSending, followerVars
  <2>4. ASSUME NEW p \in Followers PROVE Ack(p) \/ RestoreSnapshot(p) => mixed' = mixed
    BY Zenon DEF Ack, OnSnapshotAck, RestoreSnapshot, followerVars
  <2>5. Disturbance => mixed' = mixed
    BY Zenon DEF Disturbance, Advance, CollectFiles, ResendAsk, RemoveFollower, BreakConnection,
           LoseStream, followerVars
  <2> QED
    BY <2>1, <2>2, <2>3, <2>4, <2>5, Zenon DEF SnapNext
<1>2. ASSUME NEW p \in Followers, Read(p), ~mixed' PROVE ~mixed
  BY <1>2, Zenon DEF Read, ReadMessage, OnSnapshotAsk, OnSnap, followerVars
<1> QED
  BY <1>1, <1>2, Zenon

\* Every step keeps the invariant.
LEMMA SnapNextInv == SnapInv /\ [SnapNext]_snapVars => SnapInv'
<1> SUFFICES ASSUME SnapInv, [SnapNext]_snapVars, ~mixed' PROVE SnapInd'
  BY DEF SnapInv
<1>1. CASE UNCHANGED snapVars
  <2>1. SnapInd
    BY <1>1 DEF SnapInv, snapVars
  <2> QED
    BY <1>1, <2>1, Zenon DEF SnapInd, LeaderInv, QueueInv, FilesInv, snapVars
<1>2. CASE SnapNext
  <2>1. SnapInd
    BY <1>2, MixedStays DEF SnapInv
  <2>2. CASE RunSnapJob
    BY <2>1, <2>2, RunSnapJobInv
  <2>3. ASSUME NEW p \in Followers, Raft(p) PROVE SnapInd'
    BY <2>1, <2>3, NoFilesInv, SendSnapInv DEF Raft
  <2>4. ASSUME NEW p \in Followers, Sender(p) PROVE SnapInd'
    BY <2>1, <2>4, NotWritingInv, WritingInv DEF Sender
  <2>5. ASSUME NEW p \in Followers, Read(p) PROVE SnapInd'
    BY <2>1, <2>5, ReadMessageInv DEF Read
  <2>6. ASSUME NEW p \in Followers, Ack(p) PROVE SnapInd'
    BY <2>1, <2>6, OnSnapshotAckInv DEF Ack
  <2>7. ASSUME NEW p \in Followers, RestoreSnapshot(p) PROVE SnapInd'
    BY <2>1, <2>7, RestoreSnapshotInv
  <2>8. CASE Disturbance
    <3>1. CASE \E v \in {0, 1} : Advance(v)
      BY <2>1, <3>1, NoFilesInv
    <3>2. CASE \E i \in Indexes : CollectFiles(i)
      BY <2>1, <3>2, CollectFilesInv
    <3>3. ASSUME NEW p \in Followers, ResendAsk(p) \/ \E n \in 0..Chunks : BreakConnection(p, n)
          PROVE  SnapInd'
      BY <2>1, <3>3, WritingInv
    <3>4. ASSUME NEW p \in Followers, RemoveFollower(p) PROVE SnapInd'
      BY <2>1, <3>4, NoFilesInv
    <3>5. ASSUME NEW p \in Followers, \E k \in 1..Len(streams[p]) : LoseStream(p, k)
          PROVE  SnapInd'
      BY <2>1, <3>5, LoseStreamInv
    <3> QED
      BY <2>8, <3>1, <3>2, <3>3, <3>4, <3>5 DEF Disturbance
  <2> QED
    BY <1>2, <2>2, <2>3, <2>4, <2>5, <2>6, <2>7, <2>8 DEF SnapNext
<1> QED
  BY <1>1, <1>2

\* A receiving store renames a .tmp to .gz only when it holds the leader's whole file, in
\* order and each chunk once, for any number of chunks, followers and disturbances, as long
\* as no connection was read ahead of an older one of the same file (ReceiveSnapData, check).
THEOREM ReceivedFilesWhole == SnapSpec => []FilesWhole
<1>1. SnapInit => SnapInv
  BY SnapInitInv
<1>2. SnapInv /\ [SnapNext]_snapVars => SnapInv'
  BY SnapNextInv
<1>3. SnapInv => FilesWhole
  BY DEF SnapInv, SnapInd, FilesInv, FilesWhole
<1> QED
  BY <1>1, <1>2, <1>3, PTL DEF SnapSpec
=============================================================================
