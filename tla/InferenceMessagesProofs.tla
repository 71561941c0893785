------------------------ MODULE InferenceMessagesProofs ------------------------
(***************************************************************************)
(* Proofs about InferenceMessages, for any values, any encodings of other  *)
(* implementations and any number of objects: the types and has-bits, the  *)
(* sizes, that merging is parsing, and that what is sent arrives.          *)
(*                                                                         *)
(* Serialization and parsing are folds over sequences; FoldFacts gives the *)
(* induction over their length.                                            *)
(***************************************************************************)
EXTENDS InferenceMessages, FiniteSetTheorems, SequenceTheorems, TLAPS

LEMMA Tables ==
  /\ DOMAIN RequestTable = {8, 16, 24, 32, 42, 50, 58}
  /\ RequestTable[8] = "width" /\ RequestTable[16] = "height"
  /\ RequestTable[24] = "channels" /\ RequestTable[32] = "timestamp"
  /\ RequestTable[42] = "frame_id" /\ RequestTable[50] = "codec"
  /\ RequestTable[58] = "encoded_frame"
  /\ DOMAIN BoxTable = {8, 16, 24, 32, 45}
  /\ BoxTable[8] = "x" /\ BoxTable[16] = "y" /\ BoxTable[24] = "width"
  /\ BoxTable[32] = "height" /\ BoxTable[45] = "confidence"
  /\ DOMAIN ResponseTable = {16, 26, 32}
  /\ ResponseTable[16] = "timestamp" /\ ResponseTable[26] = "frame_id"
  /\ ResponseTable[32] = "processing_time_ms"
<1>1. /\ ToSet(RequestTags) = {8, 16, 24, 32, 42, 50, 58}
      /\ ToSet(BoxTags) = {8, 16, 24, 32, 45}
      /\ ToSet(ResponseTags) = {16, 26, 32}
  BY DEF ToSet, RequestTags, BoxTags, ResponseTags
<1>2. QED
  BY <1>1 DEF RequestTable, BoxTable, ResponseTable

Sums == INSTANCE FoldFacts WITH Op <- Plus
Joins == INSTANCE FoldFacts WITH Op <- Concat
Reads == INSTANCE FoldFacts WITH Op <- RequestRead

LEMMA TotalEmpty == Total(<<>>) = 0
<1>1. Sums!FoldLeft(Plus, 0, <<>>) = 0
  BY Sums!FoldEmpty
<1> QED
  BY <1>1 DEF Total, FoldLeft, MapThenFoldSet, Sums!FoldLeft, Sums!MapThenFoldSet,
              Max, Sums!Max

LEMMA TotalAppend ==
  ASSUME NEW T, NEW s \in Seq(T), NEW n \in T
  PROVE  Total(Append(s, n)) = Total(s) + n
<1>1. Sums!FoldLeft(Plus, 0, Append(s, n)) = Plus(Sums!FoldLeft(Plus, 0, s), n)
  BY Sums!FoldAppend
<1> QED
  BY <1>1 DEF Total, Plus, FoldLeft, MapThenFoldSet, Sums!FoldLeft,
              Sums!MapThenFoldSet, Max, Sums!Max

LEMMA JoinedEmpty == Joined(<<>>) = <<>>
<1>1. Joins!FoldLeft(Concat, <<>>, <<>>) = <<>>
  BY Joins!FoldEmpty
<1> QED
  BY <1>1 DEF Joined, FoldLeft, MapThenFoldSet, Joins!FoldLeft, Joins!MapThenFoldSet,
              Max, Joins!Max

LEMMA JoinedAppend ==
  ASSUME NEW T, NEW ss \in Seq(T), NEW s \in T
  PROVE  Joined(Append(ss, s)) = Joined(ss) \o s
<1>1. Joins!FoldLeft(Concat, <<>>, Append(ss, s))
        = Concat(Joins!FoldLeft(Concat, <<>>, ss), s)
  BY Joins!FoldAppend
<1> QED
  BY <1>1 DEF Joined, Concat, FoldLeft, MapThenFoldSet, Joins!FoldLeft,
              Joins!MapThenFoldSet, Max, Joins!Max

LEMMA ParsedEmpty ==
  ASSUME NEW m
  PROVE  FoldLeft(RequestRead, m, <<>>) = m
<1>1. Reads!FoldLeft(RequestRead, m, <<>>) = m
  BY Reads!FoldEmpty
<1> QED
  BY <1>1 DEF FoldLeft, MapThenFoldSet, Reads!FoldLeft, Reads!MapThenFoldSet,
              Max, Reads!Max

LEMMA ParsedAppend ==
  ASSUME NEW m, NEW T, NEW s \in Seq(T), NEW e \in T
  PROVE  FoldLeft(RequestRead, m, Append(s, e))
           = RequestRead(FoldLeft(RequestRead, m, s), e)
<1>1. Reads!FoldLeft(RequestRead, m, Append(s, e))
        = RequestRead(Reads!FoldLeft(RequestRead, m, s), e)
  BY Reads!FoldAppend
<1> QED
  BY <1>1 DEF FoldLeft, MapThenFoldSet, Reads!FoldLeft,
              Reads!MapThenFoldSet, Max, Reads!Max

LEMMA TotalConcat ==
  ASSUME NEW s \in Seq(Nat), NEW t \in Seq(Nat)
  PROVE  Total(s) \in Nat /\ Total(t) \in Nat /\ Total(s \o t) = Total(s) + Total(t)
<1> DEFINE G == {u \in Seq(Nat) : Total(u) \in Nat}
<1>1. G = Seq(Nat)
  <2>1. <<>> \in G
    BY TotalEmpty
  <2>2. ASSUME NEW u \in G, NEW n \in Nat PROVE Append(u, n) \in G
    <3>1. Total(Append(u, n)) = Total(u) + n
      BY TotalAppend
    <3> QED
      BY <3>1
  <2> HIDE DEF G
  <2>3. G \in SUBSET Seq(Nat)
    BY DEF G
  <2> QED
    BY <2>1, <2>2, <2>3, Sums!SeqInduction
<1> DEFINE H == {u \in Seq(Nat) : Total(s \o u) = Total(s) + Total(u)}
<1>2. H = Seq(Nat)
  <2>1. <<>> \in H
    <3>1. s \o <<>> = s /\ Total(s) \in Nat
      BY <1>1
    <3> QED
      BY <3>1, TotalEmpty
  <2>2. ASSUME NEW u \in H, NEW n \in Nat PROVE Append(u, n) \in H
    <3>1. s \o Append(u, n) = Append(s \o u, n) /\ s \o u \in Seq(Nat)
      OBVIOUS
    <3>2. Total(Append(s \o u, n)) = Total(s \o u) + n
      BY <3>1, TotalAppend
    <3>3. Total(Append(u, n)) = Total(u) + n
      BY TotalAppend
    <3>4. Total(u) \in Nat /\ Total(s) \in Nat
      BY <1>1
    <3>5. u \in Seq(Nat) /\ Total(s \o u) = Total(s) + Total(u)
      OBVIOUS
    <3>6. Append(u, n) \in Seq(Nat)
      BY <3>5
    <3>7. Total(s \o Append(u, n)) = Total(s) + Total(Append(u, n))
      BY <3>1, <3>2, <3>3, <3>4, <3>5
    <3> QED
      BY <3>6, <3>7
  <2> HIDE DEF H
  <2>3. H \in SUBSET Seq(Nat)
    BY DEF H
  <2> QED
    BY <2>1, <2>2, <2>3, Sums!SeqInduction
<1> QED
  BY <1>1, <1>2

(***************************************************************************)
(* The tags: field number and wire type, one byte, one tag per field.      *)
(***************************************************************************)
Wire(tags, table, numbers, texts, fixed) ==
  /\ tags \in Seq(1 .. 127)
  /\ DOMAIN table = ToSet(tags)
  /\ {table[tag] : tag \in DOMAIN table} = numbers \cup texts
  /\ numbers \cap texts = {}
  /\ \A tag \in DOMAIN table :
       /\ table[tag] \in texts => tag % 8 = 2
       /\ table[tag] \in numbers \ fixed => tag % 8 = 0
       /\ table[tag] \in numbers \cap fixed => tag % 8 = 5
       /\ \A other \in DOMAIN table : table[tag] = table[other] => tag = other

LEMMA Fields ==
  /\ RequestBlock = {"width", "height", "timestamp", "channels"}
  /\ RequestTexts = {"frame_id", "codec", "encoded_frame"}
  /\ BoxBlock = {"x", "y", "width", "height", "confidence"}
  /\ ResponseBlock = {"timestamp", "processing_time_ms"}
BY DEF RequestBlock, RequestTexts, Between, RequestLayout,
       BoxBlock, BoxLayout, ResponseBlock, ResponseLayout

LEMMA Wires ==
  /\ Wire(RequestTags, RequestTable, RequestBlock, RequestTexts, {})
  /\ Wire(BoxTags, BoxTable, BoxBlock, {}, {"confidence"})
  /\ Wire(ResponseTags, ResponseTable, ResponseBlock, {"frame_id"}, {})
<1>1. /\ RequestTags \in Seq(1 .. 127) /\ BoxTags \in Seq(1 .. 127)
      /\ ResponseTags \in Seq(1 .. 127)
  BY DEF RequestTags, BoxTags, ResponseTags
<1>2. /\ DOMAIN RequestTable = ToSet(RequestTags)
      /\ DOMAIN BoxTable = ToSet(BoxTags)
      /\ DOMAIN ResponseTable = ToSet(ResponseTags)
  BY DEF RequestTable, BoxTable, ResponseTable
<1>3. Wire(RequestTags, RequestTable, RequestBlock, RequestTexts, {})
  BY <1>1, <1>2, Tables, Fields DEF Wire
<1>4. Wire(BoxTags, BoxTable, BoxBlock, {}, {"confidence"})
  BY <1>1, <1>2, Tables, Fields DEF Wire
<1>5. Wire(ResponseTags, ResponseTable, ResponseBlock, {"frame_id"}, {})
  BY <1>1, <1>2, Tables, Fields DEF Wire
<1> QED
  BY <1>3, <1>4, <1>5

(***************************************************************************)
(* Sequences of sequences.                                                 *)
(***************************************************************************)
LEMMA ToSetConcat ==
  ASSUME NEW E, NEW s \in Seq(E), NEW t \in Seq(E)
  PROVE  ToSet(s \o t) = ToSet(s) \cup ToSet(t)
<1>1. DOMAIN s = 1 .. Len(s) /\ DOMAIN t = 1 .. Len(t) /\ Len(s) \in Nat /\ Len(t) \in Nat
  OBVIOUS
<1>2. /\ DOMAIN (s \o t) = 1 .. Len(s) + Len(t)
      /\ \A i \in DOMAIN (s \o t) :
           (s \o t)[i] = IF i <= Len(s) THEN s[i] ELSE t[i - Len(s)]
  BY ConcatProperties
<1>3. ASSUME NEW i \in DOMAIN s PROVE s[i] \in ToSet(s \o t)
  BY <1>1, <1>2 DEF ToSet
<1>4. ASSUME NEW i \in DOMAIN t PROVE t[i] \in ToSet(s \o t)
  <2>1. Len(s) + i \in DOMAIN (s \o t) /\ (s \o t)[Len(s) + i] = t[i]
    BY <1>1, <1>2
  <2> QED
    BY <2>1 DEF ToSet
<1>5. ASSUME NEW i \in DOMAIN (s \o t) PROVE (s \o t)[i] \in ToSet(s) \cup ToSet(t)
  BY <1>1, <1>2 DEF ToSet
<1> QED
  BY <1>3, <1>4, <1>5 DEF ToSet

LEMMA JoinedElements ==
  ASSUME NEW E, NEW ss \in Seq(Seq(E))
  PROVE  /\ Joined(ss) \in Seq(E)
         /\ ToSet(Joined(ss)) = UNION {ToSet(ss[i]) : i \in DOMAIN ss}
<1> DEFINE Elements(rr) == UNION {ToSet(rr[i]) : i \in DOMAIN rr}
           G == {rr \in Seq(Seq(E)) :
                   Joined(rr) \in Seq(E) /\ ToSet(Joined(rr)) = Elements(rr)}
<1>1. <<>> \in G
  <2>1. <<>> \in Seq(Seq(E)) /\ <<>> \in Seq(E) /\ DOMAIN <<>> = {}
    OBVIOUS
  <2> QED
    BY <2>1, JoinedEmpty DEF ToSet
<1>2. ASSUME NEW rr \in G, NEW s \in Seq(E) PROVE Append(rr, s) \in G
  <2>1. rr \in Seq(Seq(E)) /\ Joined(rr) \in Seq(E)
    OBVIOUS
  <2>2. ToSet(Joined(rr)) = Elements(rr)
    OBVIOUS
  <2>3. /\ Append(rr, s) \in Seq(Seq(E))
        /\ DOMAIN Append(rr, s) = DOMAIN rr \cup {Len(rr) + 1}
        /\ Append(rr, s)[Len(rr) + 1] = s
        /\ \A i \in DOMAIN rr : Append(rr, s)[i] = rr[i]
    BY <2>1
  <2>4. Elements(Append(rr, s)) = Elements(rr) \cup ToSet(s)
    BY <2>3
  <2>5. Joined(Append(rr, s)) = Joined(rr) \o s
    BY <2>1, JoinedAppend
  <2>6. Joined(Append(rr, s)) \in Seq(E)
    BY <2>1, <2>5
  <2>7. ToSet(Joined(Append(rr, s))) = ToSet(Joined(rr)) \cup ToSet(s)
    BY <2>1, <2>5, ToSetConcat
  <2> QED
    BY <2>2, <2>3, <2>4, <2>6, <2>7
<1> HIDE DEF G
<1>3. G \in SUBSET Seq(Seq(E))
  BY DEF G
<1>4. G = Seq(Seq(E))
  BY <1>1, <1>2, <1>3, Sums!SeqInduction
<1> QED
  BY <1>4 DEF G

(***************************************************************************)
(* Lengths.                                                                *)
(***************************************************************************)
LEMMA ShiftsNat ==
  ASSUME NEW n \in Int
  PROVE  Shifts(n) \in Nat /\ (n <= 127 => Shifts(n) = 0)
<1> DEFINE K == {k \in {128, 16384, 2097152, 268435456} : k <= n}
<1>1. K \subseteq 0 .. n
  BY SMT
<1>2. IsFiniteSet(K)
  <2>1. IsFiniteSet(0 .. n)
    BY FS_Interval
  <2> HIDE DEF K
  <2> QED
    BY <1>1, <2>1, FS_Subset
<1> HIDE DEF K
<1>3. Cardinality(K) \in Nat
  BY <1>2, FS_CardinalityType
<1>4. n <= 127 => K = {}
  BY SMT DEF K
<1>5. Cardinality({}) = 0
  BY FS_EmptySet
<1>6. Shifts(n) = Cardinality(K)
  BY SMT DEF Shifts, K
<1> QED
  BY <1>3, <1>4, <1>5, <1>6

LEMMA VarintSizeNat ==
  ASSUME NEW n \in Int
  PROVE  VarintSize(n) \in Nat /\ (n \in 0 .. 127 => VarintSize(n) = 1)
<1> DEFINE d == n \div 268435456
<1>1. d \in Int /\ (n \in 0 .. 127 => d = 0)
  BY SMT
<1>2. VarintSize(n) = IF n < 0 THEN 10 ELSE 1 + Shifts(n) + Shifts(d)
  BY SMT DEF VarintSize
<1> HIDE DEF d
<1>3. /\ Shifts(n) \in Nat /\ Shifts(d) \in Nat
      /\ n \in 0 .. 127 => Shifts(n) = 0 /\ Shifts(d) = 0
  BY <1>1, ShiftsNat
<1> QED
  BY <1>2, <1>3

LEMMA BytesNat ==
  ASSUME NEW e \in Entry
  PROVE  Bytes(e) \in Nat
<1>1. e.tag \in Nat /\ VarintSize(e.tag) \in Nat
  BY VarintSizeNat DEF Entry
<1>2. CASE e.tag % 8 = 0
  <2>1. e.num \in Int
    BY <1>2 DEF Entry
  <2> QED
    BY <1>1, <1>2, <2>1, VarintSizeNat DEF Bytes
<1>3. CASE e.tag % 8 = 5
  BY <1>1, <1>3 DEF Bytes
<1>4. CASE e.tag % 8 \notin {0, 5}
  <2>1. e.text \in Seq(Byte)
    BY <1>4 DEF Entry
  <2>2. Len(e.text) \in Nat
    BY <2>1
  <2>3. Bytes(e) = VarintSize(e.tag) + VarintSize(Len(e.text)) + Len(e.text)
    BY <1>4 DEF Bytes
  <2>4. VarintSize(Len(e.text)) \in Nat
    BY <2>2, VarintSizeNat
  <2> QED
    BY <1>1, <2>2, <2>3, <2>4
<1> QED
  BY <1>2, <1>3, <1>4

LEMMA TotalBytesConcat ==
  ASSUME NEW s \in Seq(Entry), NEW t \in Seq(Entry)
  PROVE  TotalBytes(s) \in Nat /\ TotalBytes(s \o t) = TotalBytes(s) + TotalBytes(t)
<1> DEFINE B(u) == [i \in DOMAIN u |-> Bytes(u[i])]
<1>1. ASSUME NEW u \in Seq(Entry)
      PROVE  B(u) \in Seq(Nat) /\ Len(B(u)) = Len(u)
  <2>1. DOMAIN u = 1 .. Len(u) /\ Len(u) \in Nat /\ \A i \in DOMAIN u : u[i] \in Entry
    BY <1>1
  <2>2. \A i \in DOMAIN u : Bytes(u[i]) \in Nat
    BY <2>1, BytesNat
  <2> QED
    BY <2>1, <2>2
<1>2. B(s \o t) = B(s) \o B(t)
  <2>1. s \o t \in Seq(Entry)
    OBVIOUS
  <2>2. /\ B(s \o t) \in Seq(Nat) /\ Len(B(s \o t)) = Len(s) + Len(t)
        /\ B(s) \o B(t) \in Seq(Nat) /\ Len(B(s) \o B(t)) = Len(s) + Len(t)
    <3>1. /\ B(s) \in Seq(Nat) /\ Len(B(s)) = Len(s)
          /\ B(t) \in Seq(Nat) /\ Len(B(t)) = Len(t)
          /\ B(s \o t) \in Seq(Nat) /\ Len(B(s \o t)) = Len(s \o t)
      BY <1>1, <2>1
    <3>2. Len(s \o t) = Len(s) + Len(t)
      OBVIOUS
    <3> HIDE DEF B
    <3>3. /\ B(s) \o B(t) \in Seq(Nat)
          /\ Len(B(s) \o B(t)) = Len(B(s)) + Len(B(t))
      BY <3>1, ConcatProperties
    <3> QED
      BY <3>1, <3>2, <3>3
  <2>3. ASSUME NEW i \in 1 .. Len(s) + Len(t)
        PROVE  B(s \o t)[i] = (B(s) \o B(t))[i]
    <3>1. CASE i <= Len(s)
      BY <1>1, <3>1
    <3>2. CASE ~ (i <= Len(s))
      <4>1. i - Len(s) \in 1 .. Len(t)
        BY <3>2
      <4>2. (s \o t)[i] = t[i - Len(s)] /\ i \in DOMAIN (s \o t)
        BY <3>2
      <4>3. (B(s) \o B(t))[i] = B(t)[i - Len(s)]
        BY <1>1, <3>2
      <4> QED
        BY <4>1, <4>2, <4>3
    <3> QED
      BY <3>1, <3>2
  <2> QED
    BY <2>2, <2>3, SeqEqual
<1>3. /\ TotalBytes(s) = Total(B(s)) /\ TotalBytes(t) = Total(B(t))
      /\ TotalBytes(s \o t) = Total(B(s \o t))
  BY DEF TotalBytes
<1> HIDE DEF B
<1> QED
  BY <1>1, <1>2, <1>3, TotalConcat

LEMMA TotalBytesShort ==
  /\ TotalBytes(<<>>) = 0
  /\ \A e \in Entry : TotalBytes(<<e>>) = Bytes(e)
<1>1. TotalBytes(<<>>) = 0
  <2>1. [i \in DOMAIN <<>> |-> Bytes(<<>>[i])] = <<>>
    OBVIOUS
  <2> QED
    BY <2>1, TotalEmpty DEF TotalBytes
<1>2. ASSUME NEW e \in Entry PROVE TotalBytes(<<e>>) = Bytes(e)
  <2>1. [i \in DOMAIN <<e>> |-> Bytes(<<e>>[i])] = Append(<<>>, Bytes(e))
    OBVIOUS
  <2>2. Bytes(e) \in Nat /\ <<>> \in Seq(Nat)
    BY BytesNat
  <2>3. Total(Append(<<>>, Bytes(e))) = Total(<<>>) + Bytes(e)
    BY <2>2, TotalAppend
  <2> QED
    BY <2>1, <2>2, <2>3, TotalEmpty DEF TotalBytes
<1> QED
  BY <1>1, <1>2

LEMMA TotalBytesJoined ==
  ASSUME NEW ss \in Seq(Seq(Entry))
  PROVE  TotalBytes(Joined(ss)) = Total([i \in DOMAIN ss |-> TotalBytes(ss[i])])
<1> DEFINE B(rr) == [i \in DOMAIN rr |-> TotalBytes(rr[i])]
           G == {rr \in Seq(Seq(Entry)) : TotalBytes(Joined(rr)) = Total(B(rr))}
<1>1. <<>> \in G
  <2>1. B(<<>>) = <<>> /\ <<>> \in Seq(Seq(Entry))
    OBVIOUS
  <2> QED
    BY <2>1, TotalEmpty, JoinedEmpty, TotalBytesShort
<1>2. ASSUME NEW rr \in G, NEW s \in Seq(Entry) PROVE Append(rr, s) \in G
  <2>1. rr \in Seq(Seq(Entry)) /\ TotalBytes(Joined(rr)) = Total(B(rr))
    OBVIOUS
  <2>2. Append(rr, s) \in Seq(Seq(Entry))
    BY <2>1
  <2>3. B(Append(rr, s)) = Append(B(rr), TotalBytes(s)) /\ B(rr) \in Seq(Nat)
    <3>1. \A i \in DOMAIN rr : TotalBytes(rr[i]) \in Nat
      <4>1. \A i \in DOMAIN rr : rr[i] \in Seq(Entry)
        BY <2>1
      <4> QED
        BY <4>1, TotalBytesConcat
    <3>2. B(rr) \in Seq(Nat) /\ Len(B(rr)) = Len(rr)
      <4>1. DOMAIN rr = 1 .. Len(rr) /\ Len(rr) \in Nat
        BY <2>1
      <4> QED
        BY <3>1, <4>1
    <3>3. TotalBytes(s) \in Nat
      BY TotalBytesConcat
    <3>4. /\ Len(Append(rr, s)) = Len(rr) + 1 /\ DOMAIN Append(rr, s) = 1 .. Len(rr) + 1
          /\ Append(rr, s)[Len(rr) + 1] = s
          /\ \A i \in 1 .. Len(rr) : Append(rr, s)[i] = rr[i] /\ i \in DOMAIN rr
          /\ Len(rr) \in Nat
      BY <2>1
    <3>5. \A i \in DOMAIN Append(rr, s) : TotalBytes(Append(rr, s)[i]) \in Nat
      BY <3>1, <3>3, <3>4
    <3>6. B(Append(rr, s)) \in Seq(Nat) /\ Len(B(Append(rr, s))) = Len(rr) + 1
      BY <3>4, <3>5
    <3>7. /\ Append(B(rr), TotalBytes(s)) \in Seq(Nat)
          /\ Len(Append(B(rr), TotalBytes(s))) = Len(rr) + 1
      BY <3>2, <3>3
    <3>8. ASSUME NEW i \in 1 .. Len(rr) + 1
          PROVE  B(Append(rr, s))[i] = Append(B(rr), TotalBytes(s))[i]
      <4>1. CASE i = Len(rr) + 1
        BY <3>2, <3>3, <3>4, <4>1
      <4>2. CASE i \in 1 .. Len(rr)
        BY <3>2, <3>3, <3>4, <4>2
      <4> QED
        BY <3>4, <4>1, <4>2
    <3> HIDE DEF B
    <3> QED
      BY <3>2, <3>6, <3>7, <3>8, SeqEqual
  <2>4. Joined(Append(rr, s)) = Joined(rr) \o s /\ Joined(rr) \in Seq(Entry)
    BY <2>1, JoinedAppend, JoinedElements
  <2>5. TotalBytes(Joined(rr) \o s) = TotalBytes(Joined(rr)) + TotalBytes(s)
    BY <2>4, TotalBytesConcat
  <2>6. TotalBytes(s) \in Nat
    BY TotalBytesConcat
  <2>7. Total(Append(B(rr), TotalBytes(s))) = Total(B(rr)) + TotalBytes(s)
    <3> HIDE DEF B
    <3> QED
      BY <2>3, <2>6, TotalAppend
  <2> QED
    BY <2>1, <2>2, <2>3, <2>4, <2>5, <2>7
<1> HIDE DEF G
<1>3. G \in SUBSET Seq(Seq(Entry))
  BY DEF G
<1>4. G = Seq(Seq(Entry))
  BY <1>1, <1>2, <1>3, Sums!SeqInduction
<1> QED
  BY <1>4 DEF G

(***************************************************************************)
(* Messages: m is a consistent record with members D, numbers N and texts  *)
(* T, and no unknown field of it has a tag in X.                           *)
(***************************************************************************)
RequestMembers == {"has", "num", "text", "owned", "unknown"}

Good(m, D, N, T, X) ==
  /\ DOMAIN m = D
  /\ RequestMembers \subseteq D
  /\ N \cap T = {}
  /\ Typed(m, N, T, X)
  /\ Consistent(m)

\* the members the operations of ProtoFields leave alone
Kept(m, r) ==
  /\ DOMAIN m = DOMAIN r
  /\ \A x \in DOMAIN r \ RequestMembers : m[x] = r[x]

LEMMA EmptyText == <<>> \in Seq(Byte)
OBVIOUS

LEMMA NumberSetGood ==
  ASSUME NEW m, NEW D, NEW N, NEW T, NEW X, Good(m, D, N, T, X),
         NEW f \in N, NEW n \in Int
  PROVE  Good(NumberSet(m, f, n), D, N, T, X) /\ Kept(NumberSet(m, f, n), m)
<1> DEFINE r == NumberSet(m, f, n)
<1>1. DOMAIN r = D /\ Consistent(r) /\ Kept(r, m)
  BY DEF Good, Typed, Consistent, NumberSet, RequestMembers, Kept
<1>2. Typed(r, N, T, X)
  BY DEF Good, Typed, NumberSet, RequestMembers
<1> QED
  BY <1>1, <1>2 DEF Good

LEMMA NumberClearedGood ==
  ASSUME NEW m, NEW D, NEW N, NEW T, NEW X, Good(m, D, N, T, X), NEW f \in N
  PROVE  Good(NumberCleared(m, f), D, N, T, X) /\ Kept(NumberCleared(m, f), m)
<1> DEFINE r == NumberCleared(m, f)
<1>1. DOMAIN r = D /\ Consistent(r) /\ Kept(r, m)
  BY DEF Good, Typed, Consistent, NumberCleared, RequestMembers, Kept
<1>2. Typed(r, N, T, X)
  BY DEF Good, Typed, NumberCleared, RequestMembers
<1> QED
  BY <1>1, <1>2 DEF Good

LEMMA TextSetGood ==
  ASSUME NEW m, NEW D, NEW N, NEW T, NEW X, Good(m, D, N, T, X),
         NEW f \in T, NEW t \in Seq(Byte)
  PROVE  Good(TextSet(m, f, t), D, N, T, X) /\ Kept(TextSet(m, f, t), m)
<1> DEFINE r == TextSet(m, f, t)
<1>1. DOMAIN r = D /\ Consistent(r) /\ Kept(r, m)
  BY DEF Good, Typed, Consistent, TextSet, RequestMembers, Kept
<1>2. Typed(r, N, T, X)
  BY DEF Good, Typed, TextSet, RequestMembers
<1> QED
  BY <1>1, <1>2 DEF Good

LEMMA TextEmptiedGood ==
  ASSUME NEW m, NEW D, NEW N, NEW T, NEW X, Good(m, D, N, T, X), NEW f \in T
  PROVE  Good(TextEmptied(m, f), D, N, T, X) /\ Kept(TextEmptied(m, f), m)
<1> DEFINE r == TextEmptied(m, f)
<1>1. DOMAIN r = D /\ Consistent(r) /\ Kept(r, m)
  BY DEF Good, Typed, Consistent, TextEmptied, RequestMembers, Kept
<1>2. Typed(r, N, T, X)
  BY EmptyText DEF Good, Typed, TextEmptied, RequestMembers
<1> QED
  BY <1>1, <1>2 DEF Good

LEMMA TextDroppedGood ==
  ASSUME NEW m, NEW D, NEW N, NEW T, NEW X, Good(m, D, N, T, X), NEW f \in T
  PROVE  Good(TextDropped(m, f), D, N, T, X) /\ Kept(TextDropped(m, f), m)
<1> DEFINE r == TextDropped(m, f)
<1>1. DOMAIN r = D /\ Consistent(r) /\ Kept(r, m)
  BY DEF Good, Typed, Consistent, TextDropped, RequestMembers, Kept
<1>2. Typed(r, N, T, X)
  BY EmptyText DEF Good, Typed, TextDropped, RequestMembers
<1> QED
  BY <1>1, <1>2 DEF Good

LEMMA TextReleasedGood ==
  ASSUME NEW m, NEW D, NEW N, NEW T, NEW X, Good(m, D, N, T, X), NEW f \in T
  PROVE  Good(TextReleased(m, f), D, N, T, X) /\ Kept(TextReleased(m, f), m)
<1>1. Kept(m, m)
  BY DEF Kept
<1> QED
  BY <1>1, TextDroppedGood DEF TextReleased

(***************************************************************************)
(* Whole messages.                                                         *)
(***************************************************************************)
LEMMA ClearedGood ==
  ASSUME NEW m, NEW D, NEW N, NEW T, NEW X, Good(m, D, N, T, X)
  PROVE  /\ Good(Cleared(m, N), D, N, T, X) /\ Kept(Cleared(m, N), m)
         /\ Cleared(m, N).has = {} /\ Cleared(m, N).unknown = <<>>
<1> DEFINE r == Cleared(m, N)
<1>1. DOMAIN r = D /\ Consistent(r) /\ Kept(r, m) /\ r.has = {} /\ r.unknown = <<>>
  BY DEF Good, Typed, Consistent, Cleared, RequestMembers, Kept
<1>2. Typed(r, N, T, X)
  BY EmptyText DEF Good, Typed, Cleared, RequestMembers
<1> QED
  BY <1>1, <1>2 DEF Good

LEMMA MergedGood ==
  ASSUME NEW to, NEW from, NEW D, NEW N, NEW T, NEW X,
         Good(to, D, N, T, X), Good(from, D, N, T, X)
  PROVE  Good(Merged(to, from), D, N, T, X) /\ Kept(Merged(to, from), to)
<1> DEFINE r == Merged(to, from)
<1>1. DOMAIN r = D /\ Consistent(r) /\ Kept(r, to)
  BY DEF Good, Typed, Consistent, Merged, RequestMembers, Kept
<1>2. Typed(r, N, T, X)
  BY DEF Good, Typed, Merged, RequestMembers
<1> QED
  BY <1>1, <1>2 DEF Good

LEMMA TakenGood ==
  ASSUME NEW m, NEW other, NEW D, NEW N, NEW T, NEW X,
         Good(m, D, N, T, X), Good(other, D, N, T, X)
  PROVE  Good(TakenFrom(m, other, N), D, N, T, X) /\ Kept(TakenFrom(m, other, N), m)
<1> DEFINE r == TakenFrom(m, other, N)
<1>1. DOMAIN r = D /\ Consistent(r) /\ Kept(r, m)
  BY DEF Good, Typed, Consistent, TakenFrom, RequestMembers, Kept
<1>2. Typed(r, N, T, X)
  BY DEF Good, Typed, TakenFrom, RequestMembers
<1> QED
  BY <1>1, <1>2 DEF Good

LEMMA BlankGood ==
  ASSUME NEW N, NEW T, NEW X, N \cap T = {}
  PROVE  Good(Blank(N, T), RequestMembers, N, T, X)
<1>1. Typed(Blank(N, T), N, T, X)
  BY EmptyText DEF Typed, Blank
<1>2. DOMAIN Blank(N, T) = RequestMembers /\ Consistent(Blank(N, T))
  BY DEF Consistent, Blank, RequestMembers
<1> QED
  BY <1>1, <1>2 DEF Good

LEMMA EntryValue ==
  ASSUME NEW e \in Entry
  PROVE  /\ e.tag \in Nat
         /\ e.tag % 8 \in {0, 5} => e.num \in Int
         /\ e.tag % 8 = 2 => e.text \in Seq(Byte)
BY DEF Entry

LEMMA ReadGood ==
  ASSUME NEW m, NEW e \in Entry, NEW tags, NEW table, NEW fixed,
         NEW D, NEW N, NEW T, NEW X, Good(m, D, N, T, X),
         Wire(tags, table, N, T, fixed), e.tag \in X => e.tag \in DOMAIN table
  PROVE  Good(FieldRead(m, e, table), D, N, T, X) /\ Kept(FieldRead(m, e, table), m)
<1>1. CASE e.tag \notin DOMAIN table
  <2> DEFINE r == [m EXCEPT !.unknown = Append(@, e)]
  <2>1. FieldRead(m, e, table) = r
    BY <1>1 DEF FieldRead
  <2>2. DOMAIN r = D /\ Consistent(r) /\ Kept(r, m)
    BY DEF Good, Typed, Consistent, RequestMembers, Kept
  <2>3. /\ r.num = m.num /\ r.text = m.text /\ r.has = m.has /\ r.owned = m.owned
        /\ r.unknown = Append(m.unknown, e)
    BY DEF Good, RequestMembers
  <2>4. /\ m.unknown \in Seq(Entry)
        /\ \A i \in DOMAIN m.unknown : m.unknown[i].tag \notin X
    BY DEF Good, Typed
  <2> HIDE DEF r
  <2>5. /\ r.unknown \in Seq(Entry)
        /\ \A i \in DOMAIN r.unknown : r.unknown[i].tag \notin X
    BY <1>1, <2>3, <2>4
  <2>6. Typed(r, N, T, X)
    BY <2>3, <2>5 DEF Good, Typed
  <2> QED
    BY <2>1, <2>2, <2>6 DEF Good
<1>2. CASE e.tag \in DOMAIN table /\ table[e.tag] \in N
  <2>1. FieldRead(m, e, table) = NumberSet(m, table[e.tag], e.num)
    BY <1>2 DEF FieldRead, Good, Typed
  <2>2. e.num \in Int
    BY <1>2, EntryValue DEF Wire
  <2> QED
    BY <1>2, <2>1, <2>2, NumberSetGood
<1>3. CASE e.tag \in DOMAIN table /\ table[e.tag] \notin N
  <2>1. FieldRead(m, e, table) = TextSet(m, table[e.tag], e.text)
    BY <1>3 DEF FieldRead, Good, Typed
  <2>2. table[e.tag] \in T
    BY <1>3 DEF Wire
  <2>3. e.text \in Seq(Byte)
    BY <1>3, <2>2, EntryValue DEF Wire
  <2> QED
    BY <2>1, <2>2, <2>3, TextSetGood
<1> QED
  BY <1>1, <1>2, <1>3

(***************************************************************************)
(* What a message is written as.                                           *)
(***************************************************************************)

\* e is the entry of a field of m that has a value
Carries(e, m, table) ==
  /\ e.tag \in DOMAIN table
  /\ \/ /\ table[e.tag] \in DOMAIN m.num
        /\ e.num = m.num[table[e.tag]] /\ e.num # 0
     \/ /\ table[e.tag] \in DOMAIN m.text \ DOMAIN m.num
        /\ e.text = m.text[table[e.tag]] /\ e.text # <<>>

\* s has the fields of m that have a value, then its unknown ones
Encodes(s, m, table) ==
  \E known \in Seq(Entry) :
    /\ s = known \o m.unknown
    /\ \A i \in 1 .. Len(known) : Carries(known[i], m, table)
    /\ \A f \in DOMAIN m.num :
         m.num[f] # 0 => \E i \in 1 .. Len(known) : table[known[i].tag] = f
    /\ \A f \in DOMAIN m.text :
         m.text[f] # <<>> => \E i \in 1 .. Len(known) : table[known[i].tag] = f

LEMMA EntryMade ==
  /\ \A t \in Nat, n \in Int : t % 8 \in {0, 5} => [tag |-> t, num |-> n] \in Entry
  /\ \A t \in Nat, u \in Seq(Byte) : t % 8 = 2 => [tag |-> t, text |-> u] \in Entry
<1> DEFINE A == {t \in Nat : t % 8 \in {0, 5}}
           B == {t \in Nat : t % 8 = 2}
<1>1. /\ \A t \in A, n \in Int : [tag |-> t, num |-> n] \in [tag : A, num : Int]
      /\ \A t \in B, u \in Seq(Byte) :
           [tag |-> t, text |-> u] \in [tag : B, text : Seq(Byte)]
  OBVIOUS
<1> QED
  BY <1>1 DEF Entry

LEMMA FieldEntryGood ==
  ASSUME NEW m, NEW tags, NEW table, NEW fixed, NEW D, NEW N, NEW T, NEW X,
         Good(m, D, N, T, X), Wire(tags, table, N, T, fixed),
         NEW tag \in DOMAIN table
  PROVE  LET f == table[tag]
             entry == FieldEntry(m, tag, f)
         IN  /\ entry \in Seq(Entry)
             /\ TotalBytes(entry) = FieldSize(m, f, fixed)
             /\ \A e \in ToSet(entry) : Carries(e, m, table)
             /\ f \in N /\ m.num[f] # 0 => \E e \in ToSet(entry) : e.tag = tag
             /\ f \in T /\ m.text[f] # <<>> => \E e \in ToSet(entry) : e.tag = tag
<1> DEFINE f == table[tag]
           entry == FieldEntry(m, tag, f)
<1>1. /\ f \in N \cup T /\ tag \in Nat /\ N \cap T = {}
      /\ VarintSize(tag) = 1
  <2>1. tag \in 1 .. 127
    <3>1. tags \in Seq(1 .. 127) /\ tag \in ToSet(tags)
      BY DEF Wire
    <3>2. PICK i \in DOMAIN tags : tags[i] = tag
      BY <3>1 DEF ToSet
    <3>3. i \in 1 .. Len(tags)
      BY <3>1
    <3>4. tags[i] \in 1 .. 127
      BY <3>1, <3>3, ElementOfSeq
    <3> QED
      BY <3>2, <3>4
  <2>2. tag \in Nat /\ tag \in Int /\ tag \in 0 .. 127
    BY <2>1
  <2> QED
    BY <2>2, VarintSizeNat DEF Wire
<1>2. /\ DOMAIN m.num = N /\ DOMAIN m.text = T
      /\ f \in N => m.num[f] \in Int /\ (f \notin m.has => m.num[f] = 0)
      /\ f \in T => m.text[f] \in Seq(Byte) /\ (f \notin m.has => m.text[f] = <<>>)
  BY DEF Good, Typed, Consistent
<1>3. CASE f \notin m.has
  <2>1. entry = <<>> /\ FieldSize(m, f, fixed) = 0
    BY <1>3 DEF FieldEntry, FieldSize
  <2>2. <<>> \in Seq(Entry) /\ ToSet(<<>>) = {}
    BY DEF ToSet
  <2> QED
    BY <1>2, <1>3, <2>1, <2>2, TotalBytesShort
<1>4. CASE f \in m.has /\ f \in N
  <2>1. CASE m.num[f] = 0
    <3>1. entry = <<>> /\ FieldSize(m, f, fixed) = 0
      BY <1>2, <1>4, <2>1 DEF FieldEntry, FieldSize
    <3>2. <<>> \in Seq(Entry) /\ ToSet(<<>>) = {}
      BY DEF ToSet
    <3> QED
      BY <1>1, <1>4, <2>1, <3>1, <3>2, TotalBytesShort
  <2>2. CASE m.num[f] # 0
    <3> DEFINE e == [tag |-> tag, num |-> m.num[f]]
    <3>1. entry = <<e>>
      BY <1>2, <1>4, <2>2 DEF FieldEntry
    <3>2. /\ f \in fixed => tag % 8 = 5
          /\ f \notin fixed => tag % 8 = 0
      BY <1>4 DEF Wire
    <3>3. e \in Entry
      <4>1. tag \in Nat /\ tag % 8 \in {0, 5} /\ m.num[f] \in Int
        BY <1>1, <1>2, <1>4, <3>2
      <4> HIDE DEF f
      <4> QED
        BY <4>1, EntryMade
    <3>4. Bytes(e) = FieldSize(m, f, fixed)
      BY <1>1, <1>2, <1>4, <2>2, <3>2, VarintSizeNat DEF Bytes, FieldSize
    <3>5. ToSet(<<e>>) = {e} /\ <<e>> \in Seq(Entry)
      BY <3>3 DEF ToSet
    <3>6. Carries(e, m, table)
      BY <1>2, <1>4, <2>2 DEF Carries
    <3>7. e.tag = tag
      OBVIOUS
    <3> HIDE DEF e, entry
    <3> QED
      BY <1>1, <1>4, <3>1, <3>3, <3>4, <3>5, <3>6, <3>7, TotalBytesShort DEF entry
  <2> QED
    BY <2>1, <2>2
<1>5. CASE f \in m.has /\ f \in T
  <2>1. CASE m.text[f] = <<>>
    <3>1. entry = <<>> /\ FieldSize(m, f, fixed) = 0
      BY <1>1, <1>2, <1>5, <2>1 DEF FieldEntry, FieldSize
    <3>2. <<>> \in Seq(Entry) /\ ToSet(<<>>) = {}
      BY DEF ToSet
    <3> QED
      BY <1>1, <1>5, <2>1, <3>1, <3>2, TotalBytesShort
  <2>2. CASE m.text[f] # <<>>
    <3> DEFINE e == [tag |-> tag, text |-> m.text[f]]
    <3>1. entry = <<e>>
      BY <1>1, <1>2, <1>5, <2>2 DEF FieldEntry
    <3>2. tag % 8 = 2
      BY <1>5 DEF Wire
    <3>3. e \in Entry
      <4>1. tag \in Nat /\ tag % 8 = 2 /\ m.text[f] \in Seq(Byte)
        BY <1>1, <1>2, <1>5, <3>2
      <4> HIDE DEF f
      <4> QED
        BY <4>1, EntryMade
    <3>4. Bytes(e) = FieldSize(m, f, fixed)
      BY <1>1, <1>2, <1>5, <2>2, <3>2 DEF Bytes, FieldSize
    <3>5. ToSet(<<e>>) = {e} /\ <<e>> \in Seq(Entry)
      BY <3>3 DEF ToSet
    <3>6. Carries(e, m, table)
      BY <1>1, <1>2, <1>5, <2>2 DEF Carries
    <3>7. e.tag = tag
      OBVIOUS
    <3> HIDE DEF e, entry
    <3> QED
      BY <1>1, <1>5, <3>1, <3>3, <3>4, <3>5, <3>6, <3>7, TotalBytesShort DEF entry
  <2> QED
    BY <2>1, <2>2
<1> QED
  BY <1>1, <1>3, <1>4, <1>5

\* The fields with a value, each with its own, before the unknown ones; the size
\* the message says is the one of what is written.
LEMMA WrittenGood ==
  ASSUME NEW m, NEW tags, NEW table, NEW fixed, NEW D, NEW N, NEW T, NEW X,
         Good(m, D, N, T, X), Wire(tags, table, N, T, fixed)
  PROVE  /\ TotalBytes(Written(m, tags, table)) = FieldsSize(m, tags, table, fixed)
         /\ FieldsSize(m, tags, table, fixed) \in Nat
         /\ Encodes(Written(m, tags, table), m, table)
<1> DEFINE ss == [i \in DOMAIN tags |-> FieldEntry(m, tags[i], table[tags[i]])]
           known == Joined(ss)
<1>1. /\ DOMAIN tags = 1 .. Len(tags) /\ Len(tags) \in Nat
      /\ \A i \in DOMAIN tags : tags[i] \in DOMAIN table
      /\ \A tag \in DOMAIN table : \E i \in DOMAIN tags : tags[i] = tag
  BY DEF Wire, ToSet
<1>2. \A i \in DOMAIN tags :
        /\ ss[i] \in Seq(Entry)
        /\ TotalBytes(ss[i]) = FieldSize(m, table[tags[i]], fixed)
        /\ \A e \in ToSet(ss[i]) : Carries(e, m, table)
        /\ table[tags[i]] \in N /\ m.num[table[tags[i]]] # 0
             => \E e \in ToSet(ss[i]) : e.tag = tags[i]
        /\ table[tags[i]] \in T /\ m.text[table[tags[i]]] # <<>>
             => \E e \in ToSet(ss[i]) : e.tag = tags[i]
  BY <1>1, FieldEntryGood
<1>3. DOMAIN ss = DOMAIN tags /\ ss \in Seq(Seq(Entry))
  <2>1. \A i \in 1 .. Len(tags) : ss[i] \in Seq(Entry)
    BY <1>1, <1>2
  <2>2. ss = [i \in 1 .. Len(tags) |-> ss[i]]
    BY <1>1
  <2> HIDE DEF ss
  <2>3. ss \in Seq(Seq(Entry))
    BY <1>1, <2>1, <2>2
  <2> QED
    BY <2>3 DEF ss
<1>4. Written(m, tags, table) = known \o m.unknown /\ m.unknown \in Seq(Entry)
  BY DEF Written, Good, Typed
<1>5. [i \in DOMAIN ss |-> TotalBytes(ss[i])]
        = [i \in DOMAIN tags |-> FieldSize(m, table[tags[i]], fixed)]
  BY <1>2, <1>3
<1>6. FieldsSize(m, tags, table, fixed)
        = Total([i \in DOMAIN ss |-> TotalBytes(ss[i])]) + TotalBytes(m.unknown)
  BY <1>5 DEF FieldsSize
<1> HIDE DEF ss
<1>7. known \in Seq(Entry) /\ ToSet(known) = UNION {ToSet(ss[i]) : i \in DOMAIN ss}
  BY <1>3, JoinedElements
<1>8. TotalBytes(known) = Total([i \in DOMAIN ss |-> TotalBytes(ss[i])])
  BY <1>3, TotalBytesJoined
<1> HIDE DEF known
<1>9. \A e \in ToSet(known) : Carries(e, m, table)
  BY <1>2, <1>3, <1>7
<1>10. ASSUME NEW f \in N \cup T, f \in N => m.num[f] # 0,
              f \in T => m.text[f] # <<>>
       PROVE  \E e \in ToSet(known) : table[e.tag] = f
  <2>1. PICK tag \in DOMAIN table : table[tag] = f
    BY DEF Wire
  <2>2. PICK i \in DOMAIN tags : tags[i] = tag
    BY <1>1
  <2>3. \E e \in ToSet(ss[i]) : e.tag = tag
    BY <1>2, <1>10, <2>1, <2>2
  <2> QED
    BY <1>3, <1>7, <2>1, <2>2, <2>3
<1>11. N \cap T = {}
  BY DEF Good
<1>12. /\ TotalBytes(known \o m.unknown) = TotalBytes(known) + TotalBytes(m.unknown)
       /\ TotalBytes(known) \in Nat /\ TotalBytes(m.unknown) \in Nat
  BY <1>4, <1>7, TotalBytesConcat
<1>13. /\ TotalBytes(Written(m, tags, table)) = FieldsSize(m, tags, table, fixed)
       /\ FieldsSize(m, tags, table, fixed) \in Nat
  BY <1>4, <1>6, <1>8, <1>12
<1>14. /\ DOMAIN known = 1 .. Len(known)
       /\ \A i \in DOMAIN known : known[i] \in ToSet(known)
       /\ \A e \in ToSet(known) : \E i \in DOMAIN known : known[i] = e
  BY <1>7 DEF ToSet
<1>15. \A i \in 1 .. Len(known) : Carries(known[i], m, table)
  BY <1>9, <1>14
<1>16. DOMAIN m.num = N /\ DOMAIN m.text = T
  BY DEF Good, Typed
<1>17. ASSUME NEW f \in N \cup T, f \in N => m.num[f] # 0,
              f \in T => m.text[f] # <<>>
       PROVE  \E i \in 1 .. Len(known) : table[known[i].tag] = f
  BY <1>10, <1>14, <1>17
<1>18. Encodes(Written(m, tags, table), m, table)
  BY <1>4, <1>7, <1>11, <1>15, <1>16, <1>17 DEF Encodes
<1> QED
  BY <1>13, <1>18

(***************************************************************************)
(* Completes: what is written of a message completes any other one to what *)
(* merging gives; reading the first entry of what completes a message      *)
(* leaves what completes it; nothing is left to read of a complete one.    *)
(***************************************************************************)
LEMMA SuffixOf ==
  ASSUME NEW S, NEW s \in Seq(S), NEW k \in 0 .. Len(s)
  PROVE  /\ SubSeq(s, k + 1, Len(s)) \in Seq(S)
         /\ Len(SubSeq(s, k + 1, Len(s))) = Len(s) - k
         /\ \A i \in 1 .. Len(s) - k : SubSeq(s, k + 1, Len(s))[i] = s[k + i]
<1> DEFINE u == SubSeq(s, k + 1, Len(s))
<1>1. /\ \A i \in (k + 1) .. Len(s) : s[i] \in S
      /\ k + 1 \in Int /\ Len(s) \in Int /\ k \in Int
  OBVIOUS
<1>2. /\ u \in Seq(S)
      /\ Len(u) = IF k + 1 <= Len(s) THEN Len(s) - (k + 1) + 1 ELSE 0
      /\ \A i \in 1 .. Len(s) - (k + 1) + 1 : u[i] = s[(k + 1) + i - 1]
  BY <1>1, SubSeqProperties
<1> HIDE DEF u
<1>3. Len(u) = Len(s) - k
  BY <1>1, <1>2
<1>4. ASSUME NEW i \in 1 .. Len(s) - k PROVE u[i] = s[k + i]
  <2>1. (k + 1) + i - 1 = k + i /\ i \in 1 .. Len(s) - (k + 1) + 1
    BY <1>1
  <2> QED
    BY <1>2, <2>1
<1> QED
  BY <1>2, <1>3, <1>4 DEF u

LEMMA WrittenCompletes ==
  ASSUME NEW to, NEW from, NEW tags, NEW table, NEW fixed,
         NEW D, NEW N, NEW T, NEW X,
         Good(to, D, N, T, X), Good(from, D, N, T, X),
         Wire(tags, table, N, T, fixed), DOMAIN table \subseteq X
  PROVE  /\ Written(from, tags, table) \in Seq(Entry)
         /\ Completes(to, Written(from, tags, table), Values(Merged(to, from)), table)
<1> DEFINE s == Written(from, tags, table)
           v == Values(Merged(to, from))
<1>0. Encodes(s, from, table) /\ DOMAIN from.num = N /\ DOMAIN from.text = T
  BY WrittenGood DEF Good, Typed
<1>1. PICK known \in Seq(Entry) :
        /\ s = known \o from.unknown
        /\ \A i \in 1 .. Len(known) : Carries(known[i], from, table)
        /\ \A f \in N :
             from.num[f] # 0 => \E i \in 1 .. Len(known) : table[known[i].tag] = f
        /\ \A f \in T :
             from.text[f] # <<>> => \E i \in 1 .. Len(known) : table[known[i].tag] = f
  <2> HIDE DEF s
  <2> QED
    BY <1>0 DEF Encodes
<1>2. /\ from.unknown \in Seq(Entry) /\ to.unknown \in Seq(Entry)
      /\ \A i \in DOMAIN from.unknown : from.unknown[i].tag \notin DOMAIN table
      /\ DOMAIN from.num = N /\ DOMAIN from.text = T
      /\ DOMAIN to.num = N /\ DOMAIN to.text = T /\ N \cap T = {}
  BY DEF Good, Typed
<1>3. /\ DOMAIN v.num = N /\ DOMAIN v.text = T
      /\ \A f \in N : v.num[f] = IF from.num[f] # 0 THEN from.num[f] ELSE to.num[f]
      /\ \A f \in T : v.text[f] = IF from.text[f] # <<>> THEN from.text[f] ELSE to.text[f]
      /\ v.unknown = to.unknown \o from.unknown
  BY DEF Good, Typed, Consistent, Values, Merged, RequestMembers
<1> DEFINE k == Len(known)
<1>4. /\ k \in Nat /\ s \in Seq(Entry) /\ Len(s) = k + Len(from.unknown)
      /\ Len(from.unknown) \in Nat
      /\ DOMAIN known = 1 .. k /\ DOMAIN from.unknown = 1 .. Len(from.unknown)
      /\ \A i \in 1 .. k : s[i] = known[i]
      /\ \A i \in (k + 1) .. Len(s) : s[i] = from.unknown[i - k]
  BY <1>1, <1>2
<1>5. /\ \A i \in 1 .. k : Carries(s[i], from, table)
      /\ \A f \in N : from.num[f] # 0 => \E i \in 1 .. k : table[s[i].tag] = f
      /\ \A f \in T : from.text[f] # <<>> => \E i \in 1 .. k : table[s[i].tag] = f
  BY <1>1, <1>4
<1>6. \A i \in (k + 1) .. Len(s) : s[i].tag \notin DOMAIN table
  <2>1. ASSUME NEW i \in (k + 1) .. Len(s) PROVE i - k \in 1 .. Len(from.unknown)
    BY <1>4
  <2> QED
    BY <1>2, <1>4, <2>1
<1>7. SubSeq(s, k + 1, Len(s)) = from.unknown
  <2> DEFINE u == SubSeq(s, k + 1, Len(s))
  <2>1. k \in 0 .. Len(s)
    BY <1>4
  <2>2. /\ u \in Seq(Entry) /\ Len(u) = Len(s) - k
        /\ \A i \in 1 .. Len(s) - k : u[i] = s[k + i]
    BY <1>4, <2>1, SuffixOf
  <2> HIDE DEF u, s, k
  <2>3. Len(u) = Len(from.unknown)
    BY <1>4, <2>2
  <2>4. ASSUME NEW i \in 1 .. Len(u) PROVE u[i] = from.unknown[i]
    <3>1. i \in 1 .. Len(s) - k /\ k + i \in (k + 1) .. Len(s) /\ (k + i) - k = i
      BY <1>4, <2>3
    <3> QED
      BY <1>4, <2>2, <3>1
  <2>5. u = from.unknown
    BY <1>2, <2>2, <2>3, <2>4, SeqEqual
  <2> QED
    BY <2>5 DEF u
<1>8. \A i \in 1 .. k :
        /\ s[i].tag \in DOMAIN table
        /\ LET f == table[s[i].tag] IN
           IF f \in DOMAIN v.num THEN s[i].num = v.num[f]
           ELSE f \in DOMAIN v.text /\ s[i].text = v.text[f]
  BY <1>2, <1>3, <1>5 DEF Carries
<1>9. /\ \A f \in DOMAIN v.num :
           to.num[f] = v.num[f] \/ \E i \in 1 .. k : table[s[i].tag] = f
      /\ \A f \in DOMAIN v.text :
           to.text[f] = v.text[f] \/ \E i \in 1 .. k : table[s[i].tag] = f
  BY <1>3, <1>5
<1>10. k \in 0 .. Len(s)
  BY <1>4
<1> HIDE DEF s, v, k
<1>11. v.unknown = to.unknown \o SubSeq(s, k + 1, Len(s))
  BY <1>3, <1>7
<1>12. Completes(to, s, v, table)
  BY <1>6, <1>8, <1>9, <1>10, <1>11 DEF Completes
<1> QED
  BY <1>4, <1>12 DEF s, v

LEMMA ReadCompletes ==
  ASSUME NEW m, NEW s \in Seq(Entry), s # <<>>, NEW v, NEW tags, NEW table, NEW fixed,
         NEW D, NEW N, NEW T, NEW X,
         Good(m, D, N, T, X), Wire(tags, table, N, T, fixed),
         DOMAIN v.num = N, DOMAIN v.text = T, Completes(m, s, v, table)
  PROVE  Completes(FieldRead(m, Head(s), table), Tail(s), v, table)
<1> DEFINE e == Head(s)
           t == Tail(s)
           r == FieldRead(m, e, table)
<1>1. /\ Len(s) \in Nat /\ Len(s) > 0 /\ e = s[1] /\ e \in Entry
      /\ t \in Seq(Entry) /\ Len(t) = Len(s) - 1
      /\ \A i \in 1 .. Len(t) : t[i] = s[i + 1]
  BY HeadTailProperties
<1>2. /\ DOMAIN m.num = N /\ DOMAIN m.text = T /\ N \cap T = {}
      /\ m.unknown \in Seq(Entry)
      /\ \A tag \in DOMAIN table : table[tag] \in N \cup T
      /\ RequestMembers \subseteq DOMAIN m
  BY DEF Good, Typed, Wire
<1>3. PICK k \in 0 .. Len(s) :
        /\ \A i \in 1 .. k :
             /\ s[i].tag \in DOMAIN table
             /\ LET f == table[s[i].tag] IN
                IF f \in DOMAIN v.num THEN s[i].num = v.num[f]
                ELSE f \in DOMAIN v.text /\ s[i].text = v.text[f]
        /\ \A f \in DOMAIN v.num :
             m.num[f] = v.num[f] \/ \E i \in 1 .. k : table[s[i].tag] = f
        /\ \A f \in DOMAIN v.text :
             m.text[f] = v.text[f] \/ \E i \in 1 .. k : table[s[i].tag] = f
        /\ \A i \in (k + 1) .. Len(s) : s[i].tag \notin DOMAIN table
        /\ v.unknown = m.unknown \o SubSeq(s, k + 1, Len(s))
  BY DEF Completes
<1>4. CASE k = 0
  <2>1. e.tag \notin DOMAIN table
    BY <1>1, <1>3, <1>4
  <2>2. /\ r.num = m.num /\ r.text = m.text /\ r.unknown = Append(m.unknown, e)
    BY <1>2, <2>1 DEF FieldRead, RequestMembers
  <2>3. SubSeq(s, k + 1, Len(s)) = s
    BY <1>4, SubSeqFull
  <2>4. SubSeq(t, 0 + 1, Len(t)) = t
    BY <1>1, SubSeqFull
  <2>5. m.unknown \o s = Append(m.unknown, e) \o t
    <3>1. /\ m.unknown \o s \in Seq(Entry)
          /\ Append(m.unknown, e) \in Seq(Entry)
          /\ Len(Append(m.unknown, e)) = Len(m.unknown) + 1
          /\ Len(m.unknown) \in Nat
      BY <1>1, <1>2
    <3>2. /\ Append(m.unknown, e) \o t \in Seq(Entry)
          /\ Len(Append(m.unknown, e) \o t) = Len(m.unknown) + Len(s)
          /\ Len(m.unknown \o s) = Len(m.unknown) + Len(s)
      BY <1>1, <1>2, <3>1
    <3>3. ASSUME NEW i \in 1 .. Len(m.unknown) + Len(s)
          PROVE  (m.unknown \o s)[i] = (Append(m.unknown, e) \o t)[i]
      <4> HIDE DEF e, t
      <4>1. /\ i <= Len(m.unknown) => (m.unknown \o s)[i] = m.unknown[i]
            /\ ~ (i <= Len(m.unknown)) => (m.unknown \o s)[i] = s[i - Len(m.unknown)]
        BY <1>2
      <4>2. /\ i <= Len(m.unknown) => Append(m.unknown, e)[i] = m.unknown[i]
            /\ i = Len(m.unknown) + 1 => Append(m.unknown, e)[i] = e
        BY <1>1, <1>2
      <4>3. /\ i <= Len(m.unknown) + 1
                => (Append(m.unknown, e) \o t)[i] = Append(m.unknown, e)[i]
            /\ i > Len(m.unknown) + 1
                => (Append(m.unknown, e) \o t)[i] = t[i - (Len(m.unknown) + 1)]
        BY <1>1, <3>1, <3>2
      <4>4. i > Len(m.unknown) + 1
              => i - (Len(m.unknown) + 1) \in 1 .. Len(t)
                 /\ (i - (Len(m.unknown) + 1)) + 1 = i - Len(m.unknown)
        BY <1>1, <3>1
      <4>5. CASE i <= Len(m.unknown)
        BY <3>1, <4>1, <4>2, <4>3, <4>5
      <4>6. CASE i = Len(m.unknown) + 1
        <5>1. ~ (i <= Len(m.unknown)) /\ i <= Len(m.unknown) + 1 /\ i - Len(m.unknown) = 1
          BY <3>1, <4>6
        <5> QED
          BY <1>1, <4>1, <4>2, <4>3, <4>6, <5>1
      <4>7. CASE i > Len(m.unknown) + 1
        <5>1. ~ (i <= Len(m.unknown))
          BY <3>1, <4>7
        <5> QED
          BY <1>1, <4>1, <4>3, <4>4, <4>7, <5>1
      <4>8. \/ i <= Len(m.unknown) \/ i = Len(m.unknown) + 1
            \/ i > Len(m.unknown) + 1
        BY <3>1
      <4> QED
        BY <4>5, <4>6, <4>7, <4>8
    <3> HIDE DEF e, t
    <3> QED
      BY <3>1, <3>2, <3>3, SeqEqual
  <2>6. v.unknown = r.unknown \o SubSeq(t, 0 + 1, Len(t))
    BY <1>3, <2>2, <2>3, <2>4, <2>5
  <2>7. \A i \in 0 + 1 .. Len(t) : t[i].tag \notin DOMAIN table
    BY <1>1, <1>3, <1>4
  <2>8. /\ \A f \in DOMAIN v.num : r.num[f] = v.num[f]
        /\ \A f \in DOMAIN v.text : r.text[f] = v.text[f]
    BY <1>3, <1>4, <2>2
  <2>9. 0 \in 0 .. Len(t) /\ 1 .. 0 = {}
    BY <1>1
  <2> HIDE DEF r, t, e
  <2>10. Completes(r, t, v, table)
    BY <2>6, <2>7, <2>8, <2>9 DEF Completes
  <2> QED
    BY <2>10 DEF r, t, e
<1>5. CASE k # 0
  <2> DEFINE j == k - 1
             g == table[e.tag]
  <2>1. /\ j \in 0 .. Len(t) /\ 1 \in 1 .. k /\ k \in 1 .. Len(s) /\ j + 1 = k
        /\ \A i \in 1 .. j : i + 1 \in 1 .. k /\ t[i] = s[i + 1]
        /\ \A i \in (j + 1) .. Len(t) : i + 1 \in (k + 1) .. Len(s) /\ t[i] = s[i + 1]
        /\ \A i \in 1 .. k : i # 1 => i - 1 \in 1 .. j /\ t[i - 1] = s[i]
    BY <1>1, <1>5
  <2>2. /\ e.tag \in DOMAIN table /\ g \in N \cup T
        /\ IF g \in N THEN e.num = v.num[g] ELSE e.text = v.text[g]
    BY <1>1, <1>2, <1>3, <2>1
  <2>3. /\ r.unknown = m.unknown
        /\ \A f \in N : r.num[f] = IF f = g THEN v.num[f] ELSE m.num[f]
        /\ \A f \in T : r.text[f] = IF f = g THEN v.text[f] ELSE m.text[f]
    <3>1. CASE g \in N
      <4>1. r = NumberSet(m, g, e.num)
        BY <1>2, <2>2, <3>1 DEF FieldRead
      <4>2. /\ r.unknown = m.unknown /\ r.text = m.text
            /\ r.num = [m.num EXCEPT ![g] = e.num]
        BY <1>2, <4>1 DEF NumberSet, RequestMembers
      <4>3. g \notin T
        BY <1>2, <3>1
      <4> HIDE DEF r, g, e
      <4> QED
        BY <1>2, <2>2, <3>1, <4>2, <4>3
    <3>2. CASE g \notin N
      <4>1. r = TextSet(m, g, e.text)
        BY <1>2, <2>2, <3>2 DEF FieldRead
      <4>2. /\ r.unknown = m.unknown /\ r.num = m.num
            /\ r.text = [m.text EXCEPT ![g] = e.text]
        BY <1>2, <4>1 DEF TextSet, RequestMembers
      <4> HIDE DEF r, g, e
      <4> QED
        BY <1>2, <2>2, <3>2, <4>2
    <3> QED
      BY <3>1, <3>2
  <2>4. SubSeq(t, j + 1, Len(t)) = SubSeq(s, k + 1, Len(s))
    <3> DEFINE u == SubSeq(t, j + 1, Len(t))
               w == SubSeq(s, k + 1, Len(s))
               n == Len(s) - k
    <3>1. n \in Nat /\ Len(t) - j = n /\ j \in 0 .. Len(t) /\ k \in 0 .. Len(s)
      BY <1>1, <2>1
    <3>2. /\ u \in Seq(Entry) /\ Len(u) = n
          /\ \A i \in 1 .. n : u[i] = t[j + i]
      <4>1. /\ u \in Seq(Entry) /\ Len(u) = Len(t) - j
            /\ \A i \in 1 .. Len(t) - j : u[i] = t[j + i]
        <5> HIDE DEF t, j, n
        <5> QED
          BY <1>1, <3>1, SuffixOf
      <4> HIDE DEF u, t, j, n
      <4> QED
        BY <3>1, <4>1
    <3>3. /\ w \in Seq(Entry) /\ Len(w) = n
          /\ \A i \in 1 .. n : w[i] = s[k + i]
      BY <3>1, SuffixOf
    <3>5. ASSUME NEW i \in 1 .. n PROVE u[i] = w[i]
      <4>1. u[i] = t[j + i] /\ w[i] = s[k + i]
        BY <3>2, <3>3
      <4>2. j + i \in (j + 1) .. Len(t) /\ (j + i) + 1 = k + i
        BY <1>1, <2>1, <3>1
      <4> HIDE DEF u, w, n
      <4> QED
        BY <2>1, <4>1, <4>2
    <3> HIDE DEF u, w, n
    <3>6. u = w
      BY <3>2, <3>3, <3>5, SeqEqual
    <3> QED
      BY <3>6 DEF u, w
  <2>5. v.unknown = r.unknown \o SubSeq(t, j + 1, Len(t))
    BY <1>3, <2>3, <2>4
  <2> HIDE DEF r, t, e, j
  <2>6. \A i \in (j + 1) .. Len(t) : t[i].tag \notin DOMAIN table
    BY <1>3, <2>1
  <2>7. \A i \in 1 .. j :
          /\ t[i].tag \in DOMAIN table
          /\ LET f == table[t[i].tag] IN
             IF f \in DOMAIN v.num THEN t[i].num = v.num[f]
             ELSE f \in DOMAIN v.text /\ t[i].text = v.text[f]
    <3> SUFFICES ASSUME NEW i \in 1 .. j
                 PROVE  /\ t[i].tag \in DOMAIN table
                        /\ LET f == table[t[i].tag] IN
                           IF f \in DOMAIN v.num THEN t[i].num = v.num[f]
                           ELSE f \in DOMAIN v.text /\ t[i].text = v.text[f]
      OBVIOUS
    <3>1. i + 1 \in 1 .. k /\ t[i] = s[i + 1]
      BY <2>1
    <3> QED
      BY <1>3, <3>1
  <2>8. ASSUME NEW f, \E i \in 1 .. k : table[s[i].tag] = f
        PROVE  f = g \/ \E i \in 1 .. j : table[t[i].tag] = f
    <3>1. PICK i \in 1 .. k : table[s[i].tag] = f
      BY <2>8
    <3>2. CASE i = 1
      BY <1>1, <3>1, <3>2
    <3>3. CASE i # 1
      BY <2>1, <3>1, <3>3
    <3> QED
      BY <3>2, <3>3
  <2> HIDE DEF g
  <2>9. ASSUME NEW f \in DOMAIN v.num
        PROVE  r.num[f] = v.num[f] \/ \E i \in 1 .. j : table[t[i].tag] = f
    BY <1>3, <2>3, <2>8
  <2>10. ASSUME NEW f \in DOMAIN v.text
         PROVE  r.text[f] = v.text[f] \/ \E i \in 1 .. j : table[t[i].tag] = f
    BY <1>3, <2>3, <2>8
  <2>11. j \in 0 .. Len(t)
    BY <2>1
  <2>12. Completes(r, t, v, table)
    BY <2>5, <2>6, <2>7, <2>9, <2>10, <2>11 DEF Completes
  <2> QED
    BY <2>12 DEF r, t, e
<1> QED
  BY <1>4, <1>5

LEMMA CompletesDone ==
  ASSUME NEW m, NEW v, NEW table, NEW D, NEW N, NEW T, NEW X, Good(m, D, N, T, X),
         v \in Readable(N, T), Completes(m, <<>>, v, table)
  PROVE  Values(m) = v
<1>1. /\ m.num \in [N -> Int] /\ m.text \in [T -> Seq(Byte)] /\ m.unknown \in Seq(Entry)
  BY DEF Good, Typed
<1>2. /\ v.num \in [N -> Int] /\ v.text \in [T -> Seq(Byte)]
      /\ v = [num |-> v.num, text |-> v.text, unknown |-> v.unknown]
  BY DEF Readable
<1>3. Len(<<>>) = 0 /\ 0 .. 0 = {0} /\ 1 .. 0 = {} /\ SubSeq(<<>>, 0 + 1, 0) = <<>>
  OBVIOUS
<1>4. /\ \A f \in N : m.num[f] = v.num[f]
      /\ \A f \in T : m.text[f] = v.text[f]
      /\ v.unknown = m.unknown \o <<>>
  BY <1>2, <1>3 DEF Completes
<1>5. m.num = v.num /\ m.text = v.text
  BY <1>1, <1>2, <1>4
<1>6. m.unknown = v.unknown
  BY <1>1, <1>4
<1> QED
  BY <1>2, <1>5, <1>6 DEF Values

(***************************************************************************)
(* FrameRequest.                                                           *)
(***************************************************************************)
GoodRequest(m) ==
  Good(m, RequestMembers, RequestBlock, RequestTexts, DOMAIN RequestTable)

RequestInv ==
  /\ DOMAIN request = Objects
  /\ \A o \in Objects : GoodRequest(request[o])

LEMMA NewRequestGood == GoodRequest(NewRequest)
BY BlankGood, Fields DEF NewRequest, GoodRequest

LEMMA RequestCallKeeps ==
  ASSUME RequestInv, NEW o \in Objects, NEW m, GoodRequest(m), RequestCall(o, m)
  PROVE  RequestInv'
BY DEF RequestInv, RequestCall

LEMMA RequestStepKeeps ==
  ASSUME RequestInv, NEW o \in Objects, RequestStep(o)
  PROVE  RequestInv'
<1>1. GoodRequest(request[o]) /\ \A p \in Objects : GoodRequest(request[p])
  BY DEF RequestInv
<1>2. ASSUME NEW f \in RequestTexts
      PROVE  \A m \in TextCalls(request[o], f) : GoodRequest(m)
  BY <1>1, <1>2, ValuesAssumption,
     TextSetGood, TextEmptiedGood, TextDroppedGood, TextReleasedGood
  DEF TextCalls, GoodRequest
<1>3. CASE UseRequestNumber(o)
  <2>1. PICK f \in RequestBlock :
          \E m \in NumberCalls(request[o], f) : RequestCall(o, m)
    BY <1>3 DEF UseRequestNumber
  <2>2. \A m \in NumberCalls(request[o], f) : GoodRequest(m)
    BY <1>1, ValuesAssumption, NumberSetGood, NumberClearedGood
    DEF NumberCalls, GoodRequest
  <2>3. QED
    BY <2>1, <2>2, RequestCallKeeps
<1>4. CASE UseFrameId(o) \/ UseCodec(o) \/ UseEncodedFrame(o)
  BY <1>2, <1>4, Fields, RequestCallKeeps
  DEF UseFrameId, UseCodec, UseEncodedFrame
<1>5. GoodRequest(RequestCleared(request[o]))
  BY <1>1, ClearedGood DEF RequestCleared, GoodRequest
<1>6. CASE RenewRequest(o)
  BY <1>5, <1>6, NewRequestGood, RequestCallKeeps DEF RenewRequest
<1>7. CASE ReceiveRequest(o)
  BY <1>5, <1>7 DEF ReceiveRequest, ParseRequest, RequestInv
<1>8. ASSUME NEW p \in Objects, CombineRequests(o, p)
      PROVE  RequestInv'
  <2>1. GoodRequest(RequestMerged(request[o], request[p]))
    BY <1>1, MergedGood DEF RequestMerged, GoodRequest
  <2>2. GoodRequest(RequestAssigned(request[o], request[p]))
    BY <1>1, <1>5, MergedGood DEF RequestAssigned, RequestMerged, GoodRequest
  <2>3. GoodRequest(RequestCopied(request[p]))
    BY <1>1, NewRequestGood, TakenGood DEF RequestCopied, GoodRequest
  <2>4. QED
    BY <1>8, <2>1, <2>2, <2>3, RequestCallKeeps DEF CombineRequests
<1>9. ASSUME NEW p \in Objects, SwapRequests(o, p)
      PROVE  RequestInv'
  <2>1. /\ GoodRequest(RequestTaken(request[o], request[p]))
        /\ GoodRequest(RequestTaken(request[p], request[o]))
    BY <1>1, TakenGood DEF RequestTaken, GoodRequest
  <2>2. QED
    BY <1>9, <2>1 DEF SwapRequests, RequestInv
<1>10. ASSUME NEW p \in Objects, SendRequest(o, p)
       PROVE  RequestInv'
  <2>1. GoodRequest(RequestCleared(request[p]))
    BY <1>1, ClearedGood DEF RequestCleared, GoodRequest
  <2>2. QED
    BY <1>10, <2>1 DEF SendRequest, ParseRequest, RequestInv
<1>11. QED
  BY <1>3, <1>4, <1>6, <1>7, <1>8, <1>9, <1>10 DEF RequestStep

(***************************************************************************)
(* BoundingBox and DetectionResponse.                                      *)
(***************************************************************************)
BoxMembers == RequestMembers \cup {"cached"}
ResponseMembers == RequestMembers \cup {"faces", "size"}

\* the tags of the fields of a response
ResponseKnown == DOMAIN ResponseTable \cup {FacesTag}

GoodFields(m) ==
  Good(m, ResponseMembers, ResponseBlock, {"frame_id"}, ResponseKnown)

GoodBox(m) ==
  Good(m, BoxMembers, BoxBlock, {}, DOMAIN BoxTable) /\ m.cached \in Nat

Emptied(m) == m.has = {} /\ m.unknown = <<>>

GoodResponse(m) ==
  /\ GoodFields(m)
  /\ \E S : m.faces \in Seq(S)
  /\ m.size \in 0 .. Len(m.faces)
  /\ \A i \in 1 .. Len(m.faces) :
       /\ GoodBox(m.faces[i])
       /\ i > m.size => Emptied(m.faces[i])

ResponseInv ==
  /\ DOMAIN response = Objects
  /\ \A o \in Objects : GoodResponse(response[o])

\* a function on 1 .. n is a sequence
LEMMA FunctionIsSeq ==
  ASSUME NEW n \in Nat, NEW s, s = [i \in 1 .. n |-> s[i]]
  PROVE  /\ \E S : s \in Seq(S)
         /\ Len(s) = n
<1>1. s \in [1 .. n -> {s[i] : i \in 1 .. n}]
  OBVIOUS
<1>2. s \in Seq({s[i] : i \in 1 .. n})
  BY <1>1
<1>3. DOMAIN s = 1 .. n /\ DOMAIN s = 1 .. Len(s) /\ Len(s) \in Nat
  BY <1>1, <1>2
<1>4. Len(s) = n
  BY <1>3
<1>5. QED
  BY <1>2, <1>4

LEMMA NewBoxGood == GoodBox(NewBox) /\ Emptied(NewBox)
<1>1. Typed(NewBox, BoxBlock, {}, DOMAIN BoxTable)
  BY DEF NewBox, Typed
<1>2. QED
  BY <1>1 DEF NewBox, GoodBox, Emptied, Good, Consistent, RequestMembers, BoxMembers

\* Operations on the fields of a face leave it good.
LEMMA BoxKept ==
  ASSUME NEW b, GoodBox(b), NEW m, Kept(m, b),
         Good(m, BoxMembers, BoxBlock, {}, DOMAIN BoxTable)
  PROVE  GoodBox(m)
BY DEF GoodBox, Kept, Good, BoxMembers, RequestMembers

LEMMA BoxCalls ==
  ASSUME NEW b, GoodBox(b)
  PROVE  /\ GoodBox(BoxCleared(b)) /\ Emptied(BoxCleared(b))
         /\ GoodBox(BoxSized(b)) /\ BoxSize(b) \in Nat
         /\ \A f \in BoxBlock : \A m \in NumberCalls(b, f) : GoodBox(m)
         /\ \A c : GoodBox(c) =>
              /\ GoodBox(BoxMerged(b, c)) /\ GoodBox(BoxAssigned(b, c))
              /\ GoodBox(BoxTaken(b, c))
<1>1. Good(b, BoxMembers, BoxBlock, {}, DOMAIN BoxTable)
  BY DEF GoodBox
<1>2. GoodBox(BoxCleared(b)) /\ Emptied(BoxCleared(b))
  BY <1>1, ClearedGood, BoxKept DEF BoxCleared, Emptied
<1>3. BoxSize(b) \in Nat
  BY <1>1, Wires, WrittenGood DEF BoxSize
<1>4. GoodBox(BoxSized(b))
  <2> DEFINE n == BoxSize(b)
             m == [b EXCEPT !.cached = n]
  <2>1. BoxSized(b) = m
    BY DEF BoxSized
  <2> HIDE DEF n
  <2>2. /\ DOMAIN m = DOMAIN b /\ m.num = b.num /\ m.text = b.text /\ m.has = b.has
        /\ m.owned = b.owned /\ m.unknown = b.unknown /\ m.cached = n
    BY <1>1 DEF Good, BoxMembers, RequestMembers
  <2> HIDE DEF m
  <2>3. Good(m, BoxMembers, BoxBlock, {}, DOMAIN BoxTable)
    BY <1>1, <2>2 DEF Good, Typed, Consistent
  <2>4. GoodBox(m)
    BY <1>3, <2>2, <2>3 DEF GoodBox, n
  <2>5. QED
    BY <2>1, <2>4
<1>5. ASSUME NEW f \in BoxBlock, NEW m \in NumberCalls(b, f) PROVE GoodBox(m)
  <2>1. \/ \E n \in Numbers : m = NumberSet(b, f, n)
        \/ m = NumberCleared(b, f)
    BY DEF NumberCalls
  <2>2. QED
    BY <1>1, <2>1, ValuesAssumption, NumberSetGood, NumberClearedGood, BoxKept
<1>6. ASSUME NEW c, GoodBox(c)
      PROVE  /\ GoodBox(BoxMerged(b, c)) /\ GoodBox(BoxAssigned(b, c))
             /\ GoodBox(BoxTaken(b, c))
  <2>1. Good(c, BoxMembers, BoxBlock, {}, DOMAIN BoxTable)
    BY <1>6 DEF GoodBox
  <2>2. GoodBox(BoxMerged(b, c))
    BY <1>1, <2>1, MergedGood, BoxKept DEF BoxMerged
  <2>3. Good(BoxCleared(b), BoxMembers, BoxBlock, {}, DOMAIN BoxTable)
    BY <1>2 DEF GoodBox
  <2>4. GoodBox(BoxAssigned(b, c))
    BY <1>2, <2>1, <2>3, MergedGood, BoxKept DEF BoxMerged, BoxAssigned
  <2>5. GoodBox(BoxTaken(b, c))
    BY <1>1, <2>1, TakenGood, BoxKept DEF BoxTaken
  <2>6. QED
    BY <2>2, <2>4, <2>5
<1>7. QED
  BY <1>2, <1>3, <1>4, <1>5, <1>6

LEMMA NewResponseGood == GoodResponse(NewResponse)
<1>1. Typed(NewResponse, ResponseBlock, {"frame_id"}, ResponseKnown)
  BY EmptyText DEF NewResponse, Typed
<1>2. GoodFields(NewResponse)
  BY <1>1, Fields
  DEF NewResponse, GoodFields, Good, Consistent, RequestMembers, ResponseMembers
<1>3. <<>> \in Seq({}) /\ Len(<<>>) = 0
  OBVIOUS
<1>4. NewResponse.faces = <<>> /\ NewResponse.size = 0
  BY DEF NewResponse
<1>5. QED
  BY <1>2, <1>3, <1>4 DEF GoodResponse

\* Operations on the fields other than faces leave the faces good.
LEMMA FieldsOnly ==
  ASSUME NEW r, NEW m, GoodResponse(r), Kept(m, r), GoodFields(m)
  PROVE  GoodResponse(m) /\ m.faces = r.faces /\ m.size = r.size
<1>1. m.faces = r.faces /\ m.size = r.size
  BY DEF GoodResponse, GoodFields, Good, Kept, ResponseMembers, RequestMembers
<1>2. QED
  BY <1>1 DEF GoodResponse

\* Operations on the faces leave the other fields good.
LEMMA FacesOnly ==
  ASSUME NEW r, GoodResponse(r),
         NEW n \in Nat, NEW s, s = [i \in 1 .. n |-> s[i]], NEW k \in 0 .. n,
         \A i \in 1 .. n : GoodBox(s[i]) /\ (i > k => Emptied(s[i]))
  PROVE  GoodResponse([r EXCEPT !.size = k, !.faces = s])
<1> DEFINE m == [r EXCEPT !.size = k, !.faces = s]
<1>1. /\ \E S : s \in Seq(S)
      /\ Len(s) = n
  BY FunctionIsSeq
<1>2. /\ m.size = k /\ m.faces = s
      /\ DOMAIN m = DOMAIN r /\ m.num = r.num /\ m.text = r.text /\ m.has = r.has
      /\ m.owned = r.owned /\ m.unknown = r.unknown
  BY DEF GoodResponse, GoodFields, Good, ResponseMembers, RequestMembers
<1> HIDE DEF m
<1>3. GoodFields(m)
  BY <1>2 DEF GoodResponse, GoodFields, Good, Typed, Consistent
<1>4. GoodResponse(m)
  BY <1>1, <1>2, <1>3 DEF GoodResponse
<1>5. QED
  BY <1>4 DEF m

LEMMA FacesAreFunction ==
  ASSUME NEW r, GoodResponse(r)
  PROVE  /\ Len(r.faces) \in Nat /\ r.size \in 0 .. Len(r.faces)
         /\ DOMAIN r.faces = 1 .. Len(r.faces)
         /\ r.faces = [i \in 1 .. Len(r.faces) |-> r.faces[i]]
<1>1. PICK S : r.faces \in Seq(S)
  BY DEF GoodResponse
<1>2. QED
  BY <1>1 DEF GoodResponse

LEMMA FaceAddedGood ==
  ASSUME NEW r, GoodResponse(r)
  PROVE  GoodResponse(FaceAdded(r))
<1> DEFINE n == Len(r.faces)
<1>1. /\ n \in Nat /\ r.size \in 0 .. n
      /\ r.faces = [i \in 1 .. n |-> r.faces[i]]
      /\ \A i \in 1 .. n :
           GoodBox(r.faces[i]) /\ (i > r.size => Emptied(r.faces[i]))
  BY FacesAreFunction DEF GoodResponse
<1>2. CASE r.size < n
  <2>1. r.size + 1 \in 0 .. n
    BY <1>1, <1>2
  <2>2. \A i \in 1 .. n :
          GoodBox(r.faces[i]) /\ (i > r.size + 1 => Emptied(r.faces[i]))
    BY <1>1, <1>2
  <2>3. FaceAdded(r) = [r EXCEPT !.size = r.size + 1, !.faces = r.faces]
    BY <1>2 DEF FaceAdded, GoodResponse, GoodFields, Good, ResponseMembers, RequestMembers
  <2> HIDE DEF n
  <2>4. GoodResponse([r EXCEPT !.size = r.size + 1, !.faces = r.faces])
    BY <1>1, <2>1, <2>2, FacesOnly
  <2>5. QED
    BY <2>3, <2>4
<1>3. CASE ~ (r.size < n)
  <2> DEFINE s == [i \in 1 .. n + 1 |-> IF i = n + 1 THEN NewBox ELSE r.faces[i]]
  <2>1. PICK S : r.faces \in Seq(S)
    BY DEF GoodResponse
  <2>2. r.faces \in Seq(S \cup {NewBox})
    BY <2>1
  <2>3. Append(r.faces, NewBox) = s
    BY <1>1, <2>2
  <2>4. r.size = n /\ n + 1 \in Nat /\ n + 1 \in 0 .. n + 1
    BY <1>1, <1>3
  <2>5. \A i \in 1 .. n + 1 : GoodBox(s[i]) /\ (i > n + 1 => Emptied(s[i]))
    BY <1>1, NewBoxGood
  <2>6. FaceAdded(r) = [r EXCEPT !.size = n + 1, !.faces = s]
    BY <1>3, <2>3, <2>4
    DEF FaceAdded, GoodResponse, GoodFields, Good, ResponseMembers, RequestMembers
  <2>7. s = [i \in 1 .. n + 1 |-> s[i]]
    BY <2>4
  <2> HIDE DEF s, n
  <2>8. GoodResponse([r EXCEPT !.size = n + 1, !.faces = s])
    BY <2>4, <2>5, <2>7, FacesOnly
  <2>9. QED
    BY <2>6, <2>8
<1>4. QED
  BY <1>2, <1>3

LEMMA FacesClearedGood ==
  ASSUME NEW r, GoodResponse(r)
  PROVE  GoodResponse(FacesCleared(r)) /\ FacesCleared(r).size = 0
<1> DEFINE n == Len(r.faces)
           s == [i \in 1 .. n |->
                   IF i <= r.size THEN BoxCleared(r.faces[i]) ELSE r.faces[i]]
<1>0. n \in Nat /\ r.size \in 0 .. n /\ DOMAIN r.faces = 1 .. n
  BY FacesAreFunction
<1>1. n \in Nat /\ r.size \in 0 .. n /\ 0 \in 0 .. n /\ DOMAIN r.faces = 1 .. n
  BY <1>0
<1>2. ASSUME NEW i \in 1 .. n
      PROVE  GoodBox(s[i]) /\ Emptied(s[i])
  <2>1. GoodBox(r.faces[i]) /\ (i > r.size => Emptied(r.faces[i]))
    BY DEF GoodResponse
  <2>2. GoodBox(BoxCleared(r.faces[i]))
    BY <2>1, BoxCalls
  <2>3. Emptied(BoxCleared(r.faces[i]))
    BY <2>1, BoxCalls
  <2>4. i <= r.size \/ i > r.size
    BY <1>1
  <2>5. QED
    BY <2>1, <2>2, <2>3, <2>4
<1>3. FacesCleared(r) = [r EXCEPT !.size = 0, !.faces = s]
  BY <1>1 DEF FacesCleared, GoodResponse, GoodFields, Good, ResponseMembers, RequestMembers
<1>4. s = [i \in 1 .. n |-> s[i]]
  OBVIOUS
<1> HIDE DEF s, n
<1>5. GoodResponse([r EXCEPT !.size = 0, !.faces = s])
  BY <1>1, <1>2, <1>4, FacesOnly
<1>6. FacesCleared(r).size = 0
  BY <1>3 DEF GoodResponse, GoodFields, Good, ResponseMembers
<1>7. QED
  BY <1>3, <1>5, <1>6

LEMMA FacesMergedGood ==
  ASSUME NEW r, NEW from, GoodResponse(r), GoodResponse(from)
  PROVE  GoodResponse(FacesMerged(r, from))
<1> DEFINE Element(i) == IF i <= Len(r.faces) THEN r.faces[i] ELSE NewBox
           total == r.size + from.size
           n == IF total < Len(r.faces) THEN Len(r.faces) ELSE total
           s == [i \in 1 .. n |->
                   IF i \in (r.size + 1) .. total
                   THEN BoxMerged(Element(i), from.faces[i - r.size])
                   ELSE Element(i)]
<1>1. /\ Len(r.faces) \in Nat /\ r.size \in 0 .. Len(r.faces)
      /\ Len(from.faces) \in Nat /\ from.size \in 0 .. Len(from.faces)
  BY FacesAreFunction
<1>2. n \in Nat /\ total \in 0 .. n
  BY <1>1
<1>3. ASSUME NEW i \in 1 .. n
      PROVE  GoodBox(s[i]) /\ (i > total => Emptied(s[i]))
  <2>1. GoodBox(Element(i)) /\ (i > r.size => Emptied(Element(i)))
    BY <1>1, NewBoxGood DEF GoodResponse
  <2>2. CASE i \in (r.size + 1) .. total
    <3>1. i - r.size \in 1 .. Len(from.faces) /\ ~ (i > total)
      BY <1>1, <2>2
    <3>2. GoodBox(from.faces[i - r.size])
      BY <3>1 DEF GoodResponse
    <3>3. GoodBox(BoxMerged(Element(i), from.faces[i - r.size]))
      BY <2>1, <3>2, BoxCalls
    <3>4. QED
      BY <2>2, <3>1, <3>3
  <2>3. CASE i \notin (r.size + 1) .. total
    BY <1>1, <2>1, <2>3
  <2>4. QED
    BY <2>2, <2>3
<1>4. FacesMerged(r, from) = [r EXCEPT !.size = total, !.faces = s]
  BY <1>1 DEF FacesMerged, GoodResponse, GoodFields, Good, ResponseMembers, RequestMembers
<1>5. s = [i \in 1 .. n |-> s[i]]
  OBVIOUS
<1> HIDE DEF s, n, total
<1>6. GoodResponse([r EXCEPT !.size = total, !.faces = s])
  BY <1>2, <1>3, <1>5, FacesOnly
<1>7. QED
  BY <1>4, <1>6

LEMMA ResponseSizedGood ==
  ASSUME NEW r, GoodResponse(r)
  PROVE  GoodResponse(ResponseSized(r))
<1> DEFINE n == Len(r.faces)
           s == [i \in 1 .. n |->
                   IF i <= r.size THEN BoxSized(r.faces[i]) ELSE r.faces[i]]
<1>0. n \in Nat /\ r.size \in 0 .. n /\ DOMAIN r.faces = 1 .. n
  BY FacesAreFunction
<1>1. ASSUME NEW i \in 1 .. n
      PROVE  GoodBox(s[i]) /\ (i > r.size => Emptied(s[i]))
  <2>1. GoodBox(r.faces[i]) /\ (i > r.size => Emptied(r.faces[i]))
    BY DEF GoodResponse
  <2>2. GoodBox(BoxSized(r.faces[i]))
    BY <2>1, BoxCalls
  <2>3. i <= r.size => ~ (i > r.size)
    BY <1>0
  <2>4. QED
    BY <2>1, <2>2, <2>3
<1>2. ResponseSized(r) = [r EXCEPT !.size = r.size, !.faces = s]
  BY <1>0
  DEF ResponseSized, GoodResponse, GoodFields, Good, ResponseMembers, RequestMembers
<1>3. s = [i \in 1 .. n |-> s[i]]
  OBVIOUS
<1> HIDE DEF s, n
<1>4. GoodResponse([r EXCEPT !.size = r.size, !.faces = s])
  BY <1>0, <1>1, <1>3, FacesOnly
<1>5. QED
  BY <1>2, <1>4

\* Any number of faces may be replaced by good ones.
LEMMA FacesReplaced ==
  ASSUME NEW r, GoodResponse(r), NEW s, DOMAIN s = DOMAIN r.faces,
         s = [i \in DOMAIN s |-> s[i]],
         \A i \in 1 .. r.size : GoodBox(s[i]),
         \A i \in DOMAIN s : i \notin 1 .. r.size => s[i] = r.faces[i]
  PROVE  GoodResponse([r EXCEPT !.faces = s])
<1> DEFINE n == Len(r.faces)
<1>0. n \in Nat /\ r.size \in 0 .. n /\ DOMAIN r.faces = 1 .. n
  BY FacesAreFunction
<1>1. ASSUME NEW i \in 1 .. n
      PROVE  GoodBox(s[i]) /\ (i > r.size => Emptied(s[i]))
  <2>1. GoodBox(r.faces[i]) /\ (i > r.size => Emptied(r.faces[i]))
    BY DEF GoodResponse
  <2>2. i \in 1 .. r.size => ~ (i > r.size)
    BY <1>0
  <2>3. QED
    BY <1>0, <2>1, <2>2
<1>2. [r EXCEPT !.faces = s] = [r EXCEPT !.size = r.size, !.faces = s]
  BY DEF GoodResponse, GoodFields, Good, ResponseMembers, RequestMembers
<1> HIDE DEF n
<1>4. GoodResponse([r EXCEPT !.size = r.size, !.faces = s])
  BY <1>0, <1>1, FacesOnly
<1>5. QED
  BY <1>2, <1>4

LEMMA FaceReplaced ==
  ASSUME NEW r, GoodResponse(r), NEW i \in 1 .. r.size, NEW b, GoodBox(b)
  PROVE  GoodResponse([r EXCEPT !.faces[i] = b])
<1> DEFINE s == [r.faces EXCEPT ![i] = b]
<1>0. /\ r.size \in 0 .. Len(r.faces) /\ Len(r.faces) \in Nat
      /\ DOMAIN r.faces = 1 .. Len(r.faces)
  BY FacesAreFunction
<1>1. DOMAIN s = DOMAIN r.faces /\ s = [j \in DOMAIN s |-> s[j]]
  OBVIOUS
<1>2. \A j \in 1 .. r.size : GoodBox(s[j])
  BY <1>0 DEF GoodResponse
<1>3. \A j \in DOMAIN s : j \notin 1 .. r.size => s[j] = r.faces[j]
  OBVIOUS
<1> HIDE DEF s
<1>4. GoodResponse([r EXCEPT !.faces = s])
  BY <1>1, <1>2, <1>3, FacesReplaced
<1>5. QED
  BY <1>4 DEF s

LEMMA TwoFacesReplaced ==
  ASSUME NEW r, GoodResponse(r), NEW i \in 1 .. r.size, NEW j \in 1 .. r.size,
         NEW b, NEW c, GoodBox(b), GoodBox(c)
  PROVE  GoodResponse([r EXCEPT !.faces[i] = b, !.faces[j] = c])
<1>1. DOMAIN r = ResponseMembers
  BY DEF GoodResponse, GoodFields, Good
<1> DEFINE m == [r EXCEPT !.faces[i] = b]
<1>2. GoodResponse(m) /\ m.size = r.size
  BY <1>1, FaceReplaced DEF ResponseMembers
<1> HIDE DEF m
<1>3. GoodResponse([m EXCEPT !.faces[j] = c])
  BY <1>2, FaceReplaced
<1>4. QED
  BY <1>3 DEF m

LEMMA ResponseCallKeeps ==
  ASSUME ResponseInv, NEW o \in Objects, NEW m, GoodResponse(m),
         ResponseCall(o, m)
  PROVE  ResponseInv'
BY DEF ResponseInv, ResponseCall

LEMMA ResponseClearedGood ==
  ASSUME NEW r, GoodResponse(r)
  PROVE  /\ GoodResponse(ResponseCleared(r)) /\ ResponseCleared(r).size = 0
         /\ ResponseCleared(r).has = {} /\ ResponseCleared(r).unknown = <<>>
<1> DEFINE m == FacesCleared(r)
<1>1. GoodResponse(m) /\ m.size = 0
  BY FacesClearedGood
<1> HIDE DEF m
<1>2. GoodFields(m)
  BY <1>1 DEF GoodResponse
<1> DEFINE c == Cleared(m, ResponseBlock)
<1>3. GoodFields(c) /\ Kept(c, m) /\ c.has = {} /\ c.unknown = <<>>
  BY <1>2, ClearedGood DEF GoodFields
<1>4. ResponseCleared(r) = c
  BY DEF ResponseCleared, m
<1> HIDE DEF c
<1>5. QED
  BY <1>1, <1>3, <1>4, FieldsOnly

LEMMA ResponseMergedGood ==
  ASSUME NEW r, NEW from, GoodResponse(r), GoodResponse(from)
  PROVE  GoodResponse(ResponseMerged(r, from))
<1> DEFINE m == FacesMerged(r, from)
<1>1. GoodResponse(m)
  BY FacesMergedGood
<1> HIDE DEF m
<1>2. GoodFields(m) /\ GoodFields(from)
  BY <1>1 DEF GoodResponse
<1>3. GoodFields(Merged(m, from)) /\ Kept(Merged(m, from), m)
  BY <1>2, MergedGood DEF GoodFields
<1>4. QED
  BY <1>1, <1>3, FieldsOnly DEF ResponseMerged, m

LEMMA ResponseFieldsTaken ==
  ASSUME NEW r, NEW other, GoodResponse(r), GoodResponse(other)
  PROVE  GoodResponse(TakenFrom(r, other, ResponseBlock))
<1>1. GoodFields(r) /\ GoodFields(other)
  BY DEF GoodResponse
<1>2. /\ GoodFields(TakenFrom(r, other, ResponseBlock))
      /\ Kept(TakenFrom(r, other, ResponseBlock), r)
  BY <1>1, TakenGood DEF GoodFields
<1>3. QED
  BY <1>2, FieldsOnly

LEMMA ResponseTakenGood ==
  ASSUME NEW r, NEW other, GoodResponse(r), GoodResponse(other)
  PROVE  /\ GoodResponse(ResponseTaken(r, other))
         /\ GoodResponse(ResponseCopied(other))
<1> DEFINE m == [r EXCEPT !.faces = other.faces, !.size = other.size]
<1>1. /\ m.faces = other.faces /\ m.size = other.size
      /\ DOMAIN m = DOMAIN r /\ m.num = r.num /\ m.text = r.text /\ m.has = r.has
      /\ m.owned = r.owned /\ m.unknown = r.unknown
  BY DEF GoodResponse, GoodFields, Good, ResponseMembers, RequestMembers
<1> HIDE DEF m
<1>2. GoodFields(m)
  BY <1>1 DEF GoodResponse, GoodFields, Good, Typed, Consistent
<1>3. GoodResponse(m)
  BY <1>1, <1>2 DEF GoodResponse
<1>4. GoodResponse(ResponseTaken(r, other))
  BY <1>3, ResponseFieldsTaken DEF ResponseTaken, m
<1>5. GoodResponse(ResponseCopied(other))
  BY NewResponseGood, FacesMergedGood, ResponseFieldsTaken DEF ResponseCopied
<1>6. QED
  BY <1>4, <1>5

LEMMA FieldCalls ==
  ASSUME NEW r, GoodResponse(r)
  PROVE  /\ \A f \in ResponseBlock : \A m \in NumberCalls(r, f) : GoodResponse(m)
         /\ \A m \in TextCalls(r, "frame_id") : GoodResponse(m)
<1>1. GoodFields(r)
  BY DEF GoodResponse
<1>2. ASSUME NEW f \in ResponseBlock, NEW m \in NumberCalls(r, f)
      PROVE  GoodResponse(m)
  <2>1. GoodFields(m) /\ Kept(m, r)
    BY <1>1, ValuesAssumption, NumberSetGood, NumberClearedGood
    DEF NumberCalls, GoodFields
  <2>2. QED
    BY <2>1, FieldsOnly
<1>3. ASSUME NEW m \in TextCalls(r, "frame_id")
      PROVE  GoodResponse(m)
  <2>1. \/ \E t \in Texts : m = TextSet(r, "frame_id", t)
        \/ m \in {TextEmptied(r, "frame_id"), TextDropped(r, "frame_id"),
                TextReleased(r, "frame_id")}
    BY DEF TextCalls
  <2>2. CASE \E t \in Texts : m = TextSet(r, "frame_id", t)
    BY <1>1, <2>2, ValuesAssumption, TextSetGood, FieldsOnly DEF GoodFields
  <2>3. CASE m \in {TextEmptied(r, "frame_id"), TextDropped(r, "frame_id"),
                  TextReleased(r, "frame_id")}
    BY <1>1, <2>3, TextEmptiedGood, TextDroppedGood, TextReleasedGood, FieldsOnly
    DEF GoodFields
  <2>4. QED
    BY <2>1, <2>2, <2>3
<1>4. QED
  BY <1>2, <1>3

LEMMA CombineFacesKeeps ==
  ASSUME ResponseInv, NEW o \in Objects, CombineFaces(o)
  PROVE  ResponseInv'
<1> DEFINE r == response[o]
<1>1. /\ GoodResponse(r)
      /\ \A i \in 1 .. r.size : GoodBox(r.faces[i])
  BY FacesAreFunction DEF ResponseInv, GoodResponse
<1> HIDE DEF r
<1>2. PICK i \in 1 .. r.size, j \in 1 .. r.size :
        \/ ResponseCall(o, [r EXCEPT !.faces[i] = BoxCleared(r.faces[i])])
        \/ \E m \in {BoxMerged(r.faces[i], r.faces[j]),
                     BoxAssigned(r.faces[i], r.faces[j])} :
             ResponseCall(o, [r EXCEPT !.faces[i] = m])
        \/ ResponseCall(o, [r EXCEPT !.faces[i] = BoxTaken(r.faces[i], r.faces[j]),
                                     !.faces[j] = BoxTaken(r.faces[j], r.faces[i])])
  BY DEF CombineFaces, r
<1>3. GoodBox(r.faces[i]) /\ GoodBox(r.faces[j])
  BY <1>1
<1>4. GoodBox(BoxCleared(r.faces[i]))
  BY <1>3, BoxCalls
<1>5. /\ GoodBox(BoxMerged(r.faces[i], r.faces[j]))
      /\ GoodBox(BoxAssigned(r.faces[i], r.faces[j]))
  BY <1>3, BoxCalls
<1>6. /\ GoodBox(BoxTaken(r.faces[i], r.faces[j]))
      /\ GoodBox(BoxTaken(r.faces[j], r.faces[i]))
  BY <1>3, BoxCalls
<1>7. CASE ResponseCall(o, [r EXCEPT !.faces[i] = BoxCleared(r.faces[i])])
  BY <1>1, <1>4, <1>7, FaceReplaced, ResponseCallKeeps
<1>8. ASSUME NEW m \in {BoxMerged(r.faces[i], r.faces[j]),
                       BoxAssigned(r.faces[i], r.faces[j])},
             ResponseCall(o, [r EXCEPT !.faces[i] = m])
      PROVE  ResponseInv'
  BY <1>1, <1>5, <1>8, FaceReplaced, ResponseCallKeeps
<1>9. CASE ResponseCall(o, [r EXCEPT !.faces[i] = BoxTaken(r.faces[i], r.faces[j]),
                                    !.faces[j] = BoxTaken(r.faces[j], r.faces[i])])
  BY <1>1, <1>6, <1>9, TwoFacesReplaced, ResponseCallKeeps
<1>10. QED
  BY <1>2, <1>7, <1>8, <1>9

LEMMA ResponseStepKeeps ==
  ASSUME ResponseInv, NEW o \in Objects, ResponseStep(o)
  PROVE  ResponseInv'
<1>1. \A p \in Objects : GoodResponse(response[p])
  BY DEF ResponseInv
<1>2. CASE UseFace(o)
  <2>1. PICK i \in 1 .. response[o].size, f \in BoxBlock :
          \E m \in NumberCalls(response[o].faces[i], f) :
            ResponseCall(o, [response[o] EXCEPT !.faces[i] = m])
    BY <1>2 DEF UseFace
  <2>2. GoodBox(response[o].faces[i])
    BY <1>1, FacesAreFunction DEF GoodResponse
  <2>3. \A m \in NumberCalls(response[o].faces[i], f) : GoodBox(m)
    BY <2>2, BoxCalls
  <2>4. PICK m : GoodBox(m) /\ ResponseCall(o, [response[o] EXCEPT !.faces[i] = m])
    BY <2>1, <2>3
  <2>5. GoodResponse([response[o] EXCEPT !.faces[i] = m])
    BY <1>1, <2>4, FaceReplaced
  <2>6. QED
    BY <2>4, <2>5, ResponseCallKeeps
<1>3. CASE CombineFaces(o)
  BY <1>3, CombineFacesKeeps
<1>4. CASE UseFaces(o)
  BY <1>1, <1>4, FaceAddedGood, FacesClearedGood, ResponseCallKeeps DEF UseFaces
<1>5. CASE UseResponseField(o)
  BY <1>1, <1>5, FieldCalls, ResponseCallKeeps DEF UseResponseField
<1>6. CASE RenewResponse(o)
  BY <1>1, <1>6, ResponseClearedGood, NewResponseGood, ResponseCallKeeps
  DEF RenewResponse
<1>7. CASE ReceiveResponse(o)
  BY <1>1, <1>7, ResponseClearedGood DEF ReceiveResponse, ParseResponse, ResponseInv
<1>8. ASSUME NEW p \in Objects, CombineResponses(o, p)
      PROVE  ResponseInv'
  <2>1. /\ GoodResponse(ResponseMerged(response[o], response[p]))
        /\ GoodResponse(ResponseAssigned(response[o], response[p]))
    BY <1>1, ResponseMergedGood, ResponseClearedGood DEF ResponseAssigned
  <2>2. GoodResponse(ResponseCopied(response[p]))
    BY <1>1, ResponseTakenGood
  <2>3. QED
    BY <1>8, <2>1, <2>2, ResponseCallKeeps DEF CombineResponses
<1>9. ASSUME NEW p \in Objects, SwapResponses(o, p)
      PROVE  ResponseInv'
  <2>1. /\ GoodResponse(ResponseTaken(response[o], response[p]))
        /\ GoodResponse(ResponseTaken(response[p], response[o]))
    BY <1>1, ResponseTakenGood
  <2>2. QED
    BY <1>9, <2>1 DEF SwapResponses, ResponseInv
<1>10. ASSUME NEW p \in Objects, SendResponse(o, p)
       PROVE  ResponseInv'
  <2> DEFINE from == [response EXCEPT ![o] = ResponseSized(response[o])]
  <2>1. DOMAIN from = Objects /\ \A q \in Objects : GoodResponse(from[q])
    BY <1>1, ResponseSizedGood DEF ResponseInv
  <2>2. response' = [from EXCEPT ![p] = ResponseCleared(from[p])]
    BY <1>10 DEF SendResponse, ParseResponse
  <2> HIDE DEF from
  <2>3. GoodResponse(ResponseCleared(from[p]))
    BY <2>1, ResponseClearedGood
  <2>4. QED
    BY <2>1, <2>2, <2>3 DEF ResponseInv
<1>11. QED
  BY <1>2, <1>3, <1>4, <1>5, <1>6, <1>7, <1>8, <1>9, <1>10 DEF ResponseStep

LEMMA RequestStepLeavesResponses ==
  ASSUME NEW o, RequestStep(o)
  PROVE  UNCHANGED response
BY DEF RequestStep, UseRequestNumber, UseFrameId, UseCodec, UseEncodedFrame,
       RenewRequest, ReceiveRequest, CombineRequests, SwapRequests,
       SendRequest, ParseRequest, RequestCall

LEMMA ResponseStepLeavesRequests ==
  ASSUME NEW o, ResponseStep(o)
  PROVE  UNCHANGED request
BY DEF ResponseStep, UseFace, CombineFaces, UseFaces, UseResponseField,
       RenewResponse, ReceiveResponse, CombineResponses, SwapResponses,
       SendResponse, ParseResponse, ResponseCall

(***************************************************************************)
(* The parser, and the inductive invariant of the types.                   *)
(***************************************************************************)
ParserInv ==
  /\ program \in Programs
  /\ reader \in Objects /\ refused \in BOOLEAN
  /\ input \in Seq(Entries(type)) /\ part \in Seq(Entry)
  /\ type = "FrameRequest" => part = <<>>
  /\ sent # <<>> => sent[1] \in Sendable(type)

MessagesInv == RequestInv /\ ResponseInv /\ ParserInv

LEMMA EntryKinds ==
  /\ Entries("FrameRequest") = Entry
  /\ \A e \in Entries("DetectionResponse") :
       IF e.tag = FacesTag THEN e.box \in Seq(Entry) /\ e.length \in Nat
       ELSE e \in Entry
  /\ {e \in Entry : e.tag # FacesTag} \subseteq Entries("DetectionResponse")
  /\ FaceEntry \subseteq Entries("DetectionResponse")
BY DEF Entries, FaceEntry

LEMMA RequestNext ==
  ASSUME RequestInv, ParserInv, [Next]_vars
  PROVE  RequestInv'
<1>1. ASSUME NEW o \in Objects, RequestStep(o)
      PROVE  RequestInv'
  BY <1>1, RequestStepKeeps
<1>2. CASE UNCHANGED request
  BY <1>2 DEF RequestInv
<1>3. CASE ReadRequestField
  <2>1. Head(input) \in Entry
    BY <1>3, EntryKinds, HeadTailProperties DEF ReadRequestField, ParserInv
  <2>2. ASSUME NEW o \in Objects
        PROVE  GoodRequest(RequestRead(request[o], Head(input)))
    <3>1. GoodRequest(request[o])
      BY DEF RequestInv
    <3>2. QED
      BY <2>1, <3>1, Wires, ReadGood DEF RequestRead, GoodRequest
  <2>3. QED
    BY <1>3, <2>2 DEF ReadRequestField, RequestInv
<1>4. QED
  BY <1>1, <1>2, <1>3, ResponseStepLeavesRequests
  DEF Next, vars, ReadResponseField, EnterFace, ReadFaceField

LEMMA ReadFaceFieldKeeps ==
  ASSUME ResponseInv, ParserInv, ReadFaceField
  PROVE  ResponseInv'
<1> DEFINE r == response[reader]
           e == Head(part)
           b == BoxRead(r.faces[r.size], e)
           s == [r.faces EXCEPT ![r.size] = b]
<1>1. reader \in Objects /\ e \in Entry
  BY HeadTailProperties DEF ParserInv, ReadFaceField
<1>2. GoodResponse(r)
  BY <1>1 DEF ResponseInv
<1>3. /\ Len(r.faces) \in Nat /\ r.size \in 0 .. Len(r.faces)
      /\ DOMAIN r.faces = 1 .. Len(r.faces)
  BY <1>2, FacesAreFunction
<1>4. \A i \in 1 .. r.size : GoodBox(r.faces[i])
  BY <1>2, <1>3 DEF GoodResponse
<1>5. r.size \in 1 .. r.size => GoodBox(b)
  <2> HIDE DEF e
  <2>1. SUFFICES ASSUME GoodBox(r.faces[r.size]) PROVE GoodBox(b)
    BY <1>4
  <2>2. Good(r.faces[r.size], BoxMembers, BoxBlock, {}, DOMAIN BoxTable)
    BY <2>1 DEF GoodBox
  <2>3. QED
    BY <1>1, <2>1, <2>2, Wires, ReadGood, BoxKept DEF BoxRead
<1>6. DOMAIN s = DOMAIN r.faces /\ s = [i \in DOMAIN s |-> s[i]]
  OBVIOUS
<1>7. \A i \in 1 .. r.size : GoodBox(s[i])
  <2> HIDE DEF b
  <2>1. QED
    BY <1>3, <1>4, <1>5
<1>8. \A i \in DOMAIN s : i \notin 1 .. r.size => s[i] = r.faces[i]
  <2> HIDE DEF b
  <2>1. QED
    BY <1>3
<1>9. response' = [response EXCEPT ![reader] = [r EXCEPT !.faces = s]]
  BY DEF ReadFaceField
<1> HIDE DEF s, r
<1>10. GoodResponse([r EXCEPT !.faces = s])
  BY <1>2, <1>6, <1>7, <1>8, FacesReplaced
<1>11. QED
  BY <1>1, <1>9, <1>10 DEF ResponseInv

LEMMA ResponseReadGood ==
  ASSUME NEW r, GoodResponse(r), NEW e \in Entry, e.tag # FacesTag
  PROVE  /\ GoodResponse(ResponseRead(r, e))
         /\ ResponseRead(r, e).faces = r.faces /\ ResponseRead(r, e).size = r.size
<1>1. Good(r, ResponseMembers, ResponseBlock, {"frame_id"}, ResponseKnown)
  BY DEF GoodResponse, GoodFields
<1>2. e.tag \in ResponseKnown => e.tag \in DOMAIN ResponseTable
  BY DEF ResponseKnown
<1>3. GoodFields(ResponseRead(r, e)) /\ Kept(ResponseRead(r, e), r)
  BY <1>1, <1>2, Wires, ReadGood DEF ResponseRead, GoodFields
<1>4. QED
  BY <1>3, FieldsOnly

LEMMA ResponseNext ==
  ASSUME ResponseInv, ParserInv, [Next]_vars
  PROVE  ResponseInv'
<1>1. ASSUME NEW o \in Objects, ResponseStep(o)
      PROVE  ResponseInv'
  BY <1>1, ResponseStepKeeps
<1>2. CASE UNCHANGED response
  BY <1>2 DEF ResponseInv
<1>3. CASE ReadResponseField
  <2>1. Head(input) \in Entry /\ Head(input).tag # FacesTag
    BY <1>3, EntryKinds, HeadTailProperties DEF ReadResponseField, ParserInv
  <2>2. QED
    BY <1>3, <2>1, ResponseReadGood DEF ReadResponseField, ResponseInv
<1>4. CASE EnterFace
  BY <1>4, FaceAddedGood DEF EnterFace, ResponseInv
<1>5. CASE ReadFaceField
  BY <1>5, ReadFaceFieldKeeps
<1>6. QED
  BY <1>1, <1>2, <1>3, <1>4, <1>5, RequestStepLeavesResponses
  DEF Next, vars, ReadRequestField

(***************************************************************************)
(* What is sent.                                                           *)
(***************************************************************************)
LEMMA WrittenEntries ==
  ASSUME NEW m, NEW tags, NEW table, NEW fixed, NEW D, NEW N, NEW T, NEW X,
         Good(m, D, N, T, X), Wire(tags, table, N, T, fixed)
  PROVE  /\ Written(m, tags, table) \in Seq(Entry)
         /\ \A i \in 1 .. Len(Written(m, tags, table)) :
              LET tag == Written(m, tags, table)[i].tag IN
              tag \in DOMAIN table \/ tag \notin X
<1> DEFINE s == Written(m, tags, table)
<1>1. Encodes(s, m, table)
  BY WrittenGood
<1>2. PICK known \in Seq(Entry) :
        /\ s = known \o m.unknown
        /\ \A i \in 1 .. Len(known) : Carries(known[i], m, table)
  <2> HIDE DEF s
  <2>1. QED
    BY <1>1 DEF Encodes
<1>3. /\ m.unknown \in Seq(Entry) /\ DOMAIN m.unknown = 1 .. Len(m.unknown)
      /\ \A i \in DOMAIN m.unknown : m.unknown[i].tag \notin X
  BY DEF Good, Typed
<1> HIDE DEF s
<1>4. /\ s \in Seq(Entry) /\ Len(s) = Len(known) + Len(m.unknown)
      /\ Len(known) \in Nat /\ Len(m.unknown) \in Nat
      /\ \A i \in 1 .. Len(s) :
           s[i] = IF i <= Len(known) THEN known[i] ELSE m.unknown[i - Len(known)]
  BY <1>2, <1>3, ConcatProperties
<1>5. \A i \in 1 .. Len(known) : known[i].tag \in DOMAIN table
  BY <1>2 DEF Carries
<1>6. ASSUME NEW i \in 1 .. Len(s) PROVE s[i].tag \in DOMAIN table \/ s[i].tag \notin X
  <2>1. CASE i <= Len(known)
    BY <1>4, <1>5, <2>1
  <2>2. CASE ~ (i <= Len(known))
    <3>1. i - Len(known) \in 1 .. Len(m.unknown)
      BY <1>4, <2>2
    <3>2. QED
      BY <1>3, <1>4, <2>2, <3>1
  <2>3. QED
    BY <2>1, <2>2
<1>7. QED
  BY <1>4, <1>6 DEF s

LEMMA RequestSent ==
  ASSUME NEW m, GoodRequest(m)
  PROVE  /\ RequestEntries(m) \in Seq(Entries("FrameRequest"))
         /\ RequestValues(m) \in Sendable("FrameRequest")
<1>1. RequestEntries(m) \in Seq(Entry)
  BY Wires, WrittenEntries DEF RequestEntries, GoodRequest
<1>2. Values(m) \in Readable(RequestBlock, RequestTexts)
  BY DEF GoodRequest, Good, Typed, Values, Readable
<1>3. QED
  BY <1>1, <1>2, EntryKinds DEF RequestValues, Sendable

\* the entries of the faces, and those after them
FaceEntries(m) ==
  [i \in 1 .. m.size |-> [tag |-> FacesTag, box |-> BoxEntries(m.faces[i]),
                          length |-> m.faces[i].cached]]
OtherEntries(m) == Written(m, ResponseTags, ResponseTable)

LEMMA ResponseSent ==
  ASSUME NEW m, GoodResponse(m)
  PROVE  /\ FaceEntries(m) \in Seq(FaceEntry) /\ Len(FaceEntries(m)) = m.size
         /\ OtherEntries(m) \in Seq({e \in Entry : e.tag # FacesTag})
         /\ ResponseEntries(m) = FaceEntries(m) \o OtherEntries(m)
         /\ ResponseEntries(m) \in Seq(Entries("DetectionResponse"))
         /\ ResponseValues(m) \in Sendable("DetectionResponse")
<1>1. /\ m.size \in Nat /\ m.size <= Len(m.faces) /\ Len(m.faces) \in Nat
      /\ \A i \in 1 .. m.size : i \in 1 .. Len(m.faces) /\ GoodBox(m.faces[i])
  BY FacesAreFunction DEF GoodResponse
<1>2. ASSUME NEW i \in 1 .. m.size
      PROVE  /\ FaceEntries(m)[i] \in FaceEntry
             /\ Values(m.faces[i]) \in Readable(BoxBlock, {})
  <2>1. GoodBox(m.faces[i])
    BY <1>1
  <2>2. BoxEntries(m.faces[i]) \in Seq(Entry) /\ m.faces[i].cached \in Nat
    BY <2>1, Wires, WrittenEntries DEF BoxEntries, GoodBox
  <2>3. Values(m.faces[i]) \in Readable(BoxBlock, {})
    BY <2>1 DEF GoodBox, Good, Typed, Values, Readable
  <2>4. QED
    BY <2>2, <2>3 DEF FaceEntries, FaceEntry
<1>3. FaceEntries(m) \in Seq(FaceEntry) /\ Len(FaceEntries(m)) = m.size
  <2> DEFINE F == FaceEntries(m)
             n == m.size
  <2>1. F = [i \in 1 .. n |-> F[i]]
    BY DEF FaceEntries
  <2>2. n \in Nat /\ \A i \in 1 .. n : F[i] \in FaceEntry
    BY <1>1, <1>2
  <2> HIDE DEF F, n
  <2>3. F \in [1 .. n -> FaceEntry]
    BY <2>1, <2>2
  <2>4. F \in Seq(FaceEntry)
    BY <2>2, <2>3
  <2>5. Len(F) = n
    BY <2>1, <2>2, FunctionIsSeq
  <2>6. QED
    BY <2>4, <2>5 DEF F, n
<1>4. OtherEntries(m) \in Seq({e \in Entry : e.tag # FacesTag})
  <2>1. Good(m, ResponseMembers, ResponseBlock, {"frame_id"}, ResponseKnown)
    BY DEF GoodResponse, GoodFields
  <2>2. /\ OtherEntries(m) \in Seq(Entry)
        /\ \A i \in 1 .. Len(OtherEntries(m)) :
             \/ OtherEntries(m)[i].tag \in DOMAIN ResponseTable
             \/ OtherEntries(m)[i].tag \notin ResponseKnown
    BY <2>1, Wires, WrittenEntries DEF OtherEntries
  <2>3. FacesTag \in ResponseKnown /\ FacesTag \notin DOMAIN ResponseTable
    BY Tables DEF ResponseKnown, FacesTag
  <2>4. /\ DOMAIN OtherEntries(m) = 1 .. Len(OtherEntries(m))
        /\ Len(OtherEntries(m)) \in Nat
        /\ OtherEntries(m) = [i \in 1 .. Len(OtherEntries(m)) |-> OtherEntries(m)[i]]
        /\ \A i \in 1 .. Len(OtherEntries(m)) :
             OtherEntries(m)[i] \in {e \in Entry : e.tag # FacesTag}
    BY <2>2, <2>3
  <2>5. QED
    BY <2>4
<1>5. ResponseEntries(m) = FaceEntries(m) \o OtherEntries(m)
  BY DEF ResponseEntries, FaceEntries, OtherEntries
<1>6. ResponseEntries(m) \in Seq(Entries("DetectionResponse"))
  <2>1. /\ FaceEntries(m) \in Seq(Entries("DetectionResponse"))
        /\ OtherEntries(m) \in Seq(Entries("DetectionResponse"))
    BY <1>3, <1>4, EntryKinds, SeqMonotonic
  <2>2. QED
    BY <1>5, <2>1, ConcatProperties
<1>7. ResponseValues(m) \in Sendable("DetectionResponse")
  <2> DEFINE faces == [i \in 1 .. m.size |-> Values(m.faces[i])]
  <2>1. faces \in Seq(Readable(BoxBlock, {}))
    BY <1>1, <1>2
  <2>2. /\ m.num \in [ResponseBlock -> Int] /\ m.text \in [{"frame_id"} -> Seq(Byte)]
        /\ m.unknown \in Seq(Entry)
    BY DEF GoodResponse, GoodFields, Good, Typed
  <2> HIDE DEF faces
  <2>3. [num |-> m.num, text |-> m.text, unknown |-> m.unknown, faces |-> faces]
          \in [num : [ResponseBlock -> Int], text : [{"frame_id"} -> Seq(Byte)],
               unknown : Seq(Entry), faces : Seq(Readable(BoxBlock, {}))]
    BY <2>1, <2>2
  <2>4. QED
    BY <2>3 DEF ResponseValues, Sendable, faces
<1>8. QED
  BY <1>3, <1>4, <1>5, <1>6, <1>7

LEMMA SendRequestKeeps ==
  ASSUME MessagesInv, NEW o \in Objects, NEW p \in Objects, SendRequest(o, p)
  PROVE  ParserInv'
<1>1. GoodRequest(request[o])
  BY DEF MessagesInv, RequestInv
<1>2. /\ type = "FrameRequest" /\ program' = program /\ part' = part
      /\ input' = RequestEntries(request[o]) /\ reader' = p /\ refused' = FALSE
      /\ sent' = <<RequestValues(request[o])>>
  BY DEF SendRequest, ParseRequest
<1>3. sent'[1] \in Sendable("FrameRequest") /\ input' \in Seq(Entries("FrameRequest"))
  BY <1>1, <1>2, RequestSent
<1>4. QED
  BY <1>2, <1>3 DEF MessagesInv, ParserInv, type

LEMMA SendResponseKeeps ==
  ASSUME MessagesInv, NEW o \in Objects, NEW p \in Objects, SendResponse(o, p)
  PROVE  ParserInv'
<1> DEFINE m == ResponseSized(response[o])
<1>1. GoodResponse(m)
  BY ResponseSizedGood DEF MessagesInv, ResponseInv
<1>2. /\ type = "DetectionResponse" /\ program' = program /\ part' = part
      /\ input' = ResponseEntries(m) /\ reader' = p /\ refused' = FALSE
      /\ sent' = <<ResponseValues(m)>>
  BY DEF SendResponse, ParseResponse
<1> HIDE DEF m
<1>3. /\ sent'[1] \in Sendable("DetectionResponse")
      /\ input' \in Seq(Entries("DetectionResponse"))
  BY <1>1, <1>2, ResponseSent
<1>4. QED
  BY <1>2, <1>3 DEF MessagesInv, ParserInv, type

LEMMA ReceiveKeeps ==
  ASSUME MessagesInv, NEW p \in Objects, ReceiveRequest(p) \/ ReceiveResponse(p)
  PROVE  ParserInv'
<1>1. PICK entries \in program.foreign :
        /\ type \in {"FrameRequest", "DetectionResponse"}
        /\ program' = program /\ part' = part
        /\ input' = entries /\ reader' = p /\ refused' = FALSE /\ sent' = <<>>
  BY DEF ReceiveRequest, ReceiveResponse, ParseRequest, ParseResponse
<1>2. entries \in Seq(Entries(type))
  BY ProgramsAssumption DEF MessagesInv, ParserInv, type
<1>3. QED
  BY <1>1, <1>2 DEF MessagesInv, ParserInv, type

LEMMA CallKeeps ==
  ASSUME ParserInv, Called
  PROVE  ParserInv'
BY DEF ParserInv, Called, type

LEMMA ParserStep ==
  ASSUME MessagesInv, NEW o \in Objects, RequestStep(o) \/ ResponseStep(o)
  PROVE  ParserInv'
<1>1. CASE \/ UseRequestNumber(o) \/ UseFrameId(o) \/ UseCodec(o)
           \/ UseEncodedFrame(o) \/ RenewRequest(o)
           \/ \E p \in Objects : CombineRequests(o, p) \/ SwapRequests(o, p)
  <2>1. Called
    BY <1>1 DEF UseRequestNumber, UseFrameId, UseCodec, UseEncodedFrame,
         RenewRequest, CombineRequests, SwapRequests, RequestCall
  <2>2. QED
    BY <2>1, CallKeeps DEF MessagesInv
<1>2. CASE \/ UseFace(o) \/ CombineFaces(o) \/ UseFaces(o) \/ UseResponseField(o)
           \/ RenewResponse(o)
           \/ \E p \in Objects : CombineResponses(o, p) \/ SwapResponses(o, p)
  <2>1. Called
    BY <1>2 DEF UseFace, CombineFaces, UseFaces, UseResponseField,
         RenewResponse, CombineResponses, SwapResponses, ResponseCall
  <2>2. QED
    BY <2>1, CallKeeps DEF MessagesInv
<1>3. QED
  BY <1>1, <1>2, ReceiveKeeps, SendRequestKeeps, SendResponseKeeps
  DEF RequestStep, ResponseStep

LEMMA ParserReads ==
  ASSUME MessagesInv,
         ReadRequestField \/ ReadResponseField \/ EnterFace \/ ReadFaceField
  PROVE  ParserInv'
<1>1. /\ input \in Seq(Entries(type)) /\ part \in Seq(Entry)
      /\ <<>> \in Seq(Entries(type)) /\ <<>> \in Seq(Entry)
  BY DEF MessagesInv, ParserInv
<1>2. CASE ReadRequestField
  <2>1. input # <<>> /\ input' \in {<<>>, Tail(input)} /\ refused' \in BOOLEAN
        /\ UNCHANGED <<program, part, reader, sent>>
    BY <1>2 DEF ReadRequestField, Unreadable
  <2>2. input' \in Seq(Entries(type))
    BY <1>1, <2>1, HeadTailProperties
  <2>3. QED
    BY <2>1, <2>2 DEF MessagesInv, ParserInv, type
<1>3. CASE ReadResponseField
  <2>1. input # <<>> /\ input' \in {<<>>, Tail(input)} /\ refused' \in BOOLEAN
        /\ UNCHANGED <<program, part, reader, sent>>
    BY <1>3 DEF ReadResponseField, Unreadable
  <2>2. input' \in Seq(Entries(type))
    BY <1>1, <2>1, HeadTailProperties
  <2>3. QED
    BY <2>1, <2>2 DEF MessagesInv, ParserInv, type
<1>4. CASE EnterFace
  <2>1. /\ type = "DetectionResponse" /\ input # <<>> /\ Head(input).tag = FacesTag
        /\ input' \in {<<>>, Tail(input)} /\ refused' \in BOOLEAN
        /\ part' \in {<<>>, Head(input).box}
        /\ UNCHANGED <<program, reader, sent>>
    BY <1>4 DEF EnterFace
  <2>2. input' \in Seq(Entries(type)) /\ Head(input) \in Entries(type)
    BY <1>1, <2>1, HeadTailProperties
  <2>3. part' \in Seq(Entry)
    BY <1>1, <2>1, <2>2, EntryKinds
  <2>4. QED
    BY <2>1, <2>2, <2>3 DEF MessagesInv, ParserInv, type
<1>5. CASE ReadFaceField
  <2>1. part # <<>> /\ part' = Tail(part)
        /\ UNCHANGED <<program, input, reader, refused, sent>>
    BY <1>5 DEF ReadFaceField
  <2>2. part' \in Seq(Entry)
    BY <1>1, <2>1, HeadTailProperties
  <2>3. QED
    BY <2>1, <2>2 DEF MessagesInv, ParserInv, type
<1>6. QED
  BY <1>2, <1>3, <1>4, <1>5

LEMMA MessagesNext ==
  ASSUME MessagesInv, [Next]_vars
  PROVE  MessagesInv'
<1>1. ParserInv'
  <2>1. CASE Next
    BY <2>1, ParserStep, ParserReads DEF Next
  <2>2. CASE UNCHANGED vars
    BY <2>2 DEF MessagesInv, ParserInv, vars, type
  <2>3. QED
    BY <2>1, <2>2
<1>2. QED
  BY <1>1, RequestNext, ResponseNext DEF MessagesInv

LEMMA MessagesInit ==
  ASSUME Init
  PROVE  MessagesInv
<1>1. RequestInv
  BY NewRequestGood DEF Init, RequestInv
<1>2. ResponseInv
  BY NewResponseGood DEF Init, ResponseInv
<1>3. ParserInv
  <2>1. <<>> \in Seq(Entries(type)) /\ <<>> \in Seq(Entry)
    OBVIOUS
  <2>2. QED
    BY <2>1 DEF Init, ParserInv
<1>4. QED
  BY <1>1, <1>2, <1>3 DEF MessagesInv

(***************************************************************************)
(* MessagesInv holds in every state, in the middle of a parse too:         *)
(* messages are well typed, their has-bits tell the truth, the faces kept  *)
(* for reuse are empty, and the parser has entries of its message's type.  *)
(***************************************************************************)
THEOREM MessagesInvariance == Spec => []MessagesInv
BY MessagesInit, MessagesNext, PTL DEF Spec

(***************************************************************************)
(* TypeOK holds: messages have their fields and values, no field of their  *)
(* own among the unknown ones, and at least as many elements as faces.     *)
(***************************************************************************)
THEOREM TypeCorrect == Spec => []TypeOK
<1>1. ASSUME MessagesInv PROVE TypeOK
  <2>1. ASSUME NEW o \in Objects
        PROVE  Typed(request[o], RequestBlock, RequestTexts, DOMAIN RequestTable)
    BY <1>1 DEF MessagesInv, RequestInv, GoodRequest, Good
  <2>2. ASSUME NEW o \in Objects
        PROVE  /\ Typed(response[o], ResponseBlock, {"frame_id"},
                        DOMAIN ResponseTable \cup {FacesTag})
               /\ response[o].size \in 0 .. Len(response[o].faces)
               /\ \A i \in DOMAIN response[o].faces :
                    /\ Typed(response[o].faces[i], BoxBlock, {}, DOMAIN BoxTable)
                    /\ response[o].faces[i].cached \in Nat
    <3>1. GoodResponse(response[o])
      BY <1>1 DEF MessagesInv, ResponseInv
    <3>2. DOMAIN response[o].faces = 1 .. Len(response[o].faces)
      BY <3>1, FacesAreFunction
    <3>3. QED
      BY <3>1, <3>2 DEF GoodResponse, GoodFields, GoodBox, Good, ResponseKnown
  <2>3. QED
    BY <1>1, <2>1, <2>2 DEF TypeOK, MessagesInv, ParserInv
<1>2. QED
  BY <1>1, MessagesInvariance, PTL

(***************************************************************************)
(* RequestConsistent holds: whatever is called, merged, swapped or parsed, *)
(* a field of a request without its has-bit has its default value and a    *)
(* string with its bit is the message's own.                               *)
(***************************************************************************)
THEOREM RequestBits == Spec => []RequestConsistent
<1>1. MessagesInv => RequestConsistent
  BY DEF MessagesInv, RequestInv, RequestConsistent, GoodRequest, Good
<1>2. QED
  BY <1>1, MessagesInvariance, PTL

(***************************************************************************)
(* ResponseConsistent holds: a response and all faces it has allocated,    *)
(* the ones in use and the ones Clear has kept, have truthful has-bits,    *)
(* and the kept ones are empty.                                            *)
(***************************************************************************)
THEOREM ResponseBits == Spec => []ResponseConsistent
<1>1. MessagesInv => ResponseConsistent
  <2>1. ASSUME MessagesInv, NEW o \in Objects
        PROVE  /\ Consistent(response[o])
               /\ \A i \in DOMAIN response[o].faces :
                    /\ Consistent(response[o].faces[i])
                    /\ i > response[o].size => Emptied(response[o].faces[i])
    <3>1. GoodResponse(response[o])
      BY <2>1 DEF MessagesInv, ResponseInv
    <3>2. DOMAIN response[o].faces = 1 .. Len(response[o].faces)
      BY <3>1, FacesAreFunction
    <3>3. QED
      BY <3>1, <3>2 DEF GoodResponse, GoodFields, GoodBox, Good
  <2>2. QED
    BY <2>1 DEF ResponseConsistent, Emptied
<1>2. QED
  BY <1>1, MessagesInvariance, PTL

(***************************************************************************)
(* Merging and parsing.                                                    *)
(***************************************************************************)
Parsed(m, s) == FoldLeft(RequestRead, m, s)

\* Parsing entries that complete a request to v gives v.
LEMMA ParsingCompletes ==
  ASSUME NEW m, GoodRequest(m), NEW s \in Seq(Entry),
         NEW v \in Readable(RequestBlock, RequestTexts),
         Completes(m, s, v, RequestTable)
  PROVE  Values(Parsed(m, s)) = v
<1> DEFINE Read(n) == Parsed(m, SubSeq(s, 1, n))
           Left(n) == SubSeq(s, n + 1, Len(s))
           G == {n \in Nat : n <= Len(s) =>
                   GoodRequest(Read(n)) /\ Completes(Read(n), Left(n), v, RequestTable)}
<1>1. 0 \in G
  <2>1. SubSeq(s, 1, 0) = <<>> /\ Left(0) = s
    BY SubSeqFull
  <2>2. Read(0) = m
    BY <2>1, ParsedEmpty DEF Parsed
  <2>3. QED
    BY <2>1, <2>2
<1>2. ASSUME NEW n \in Nat, n \in G PROVE n + 1 \in G
  <2>1. SUFFICES ASSUME n + 1 <= Len(s)
                 PROVE  /\ GoodRequest(Read(n + 1))
                        /\ Completes(Read(n + 1), Left(n + 1), v, RequestTable)
    OBVIOUS
  <2>2. /\ n \in 0 .. Len(s) /\ n + 1 \in 1 .. Len(s) /\ n <= Len(s)
        /\ Len(s) \in Nat /\ n + 1 \in 0 .. Len(s)
    BY <2>1
  <2>3. GoodRequest(Read(n)) /\ Completes(Read(n), Left(n), v, RequestTable)
    BY <1>2, <2>2
  <2>4. /\ Left(n) \in Seq(Entry) /\ Left(n) # <<>> /\ Head(Left(n)) = s[n + 1]
        /\ Tail(Left(n)) = Left(n + 1)
    <3>1. /\ Left(n) \in Seq(Entry) /\ Len(Left(n)) = Len(s) - n
      BY <2>2, SuffixOf
    <3>2. Left(n) # <<>>
      <4> HIDE DEF Left
      <4>1. QED
        BY <2>1, <3>1
    <3>3. n + 1 \in 1 .. Len(s) /\ Len(s) \in (n + 1) .. Len(s)
      BY <2>2
    <3>4. Head(Left(n)) = s[n + 1] /\ Tail(Left(n)) = SubSeq(s, (n + 1) + 1, Len(s))
      BY <3>3, HeadTailOfSubSeq
    <3>5. QED
      BY <3>1, <3>2, <3>4
  <2>5. Read(n + 1) = RequestRead(Read(n), s[n + 1])
    <3>1. SubSeq(s, 1, n) \in Seq(Entry) /\ s[n + 1] \in Entry
      BY <2>2
    <3>2. SubSeq(s, 1, n + 1) = Append(SubSeq(s, 1, n), s[n + 1])
      <4>1. SubSeq(s, 1, n + 1) = SubSeq(s, 1, (n + 1) - 1) \o << s[n + 1] >>
        BY <2>2, SubSeqRecursiveSecond
      <4>2. Append(SubSeq(s, 1, n), s[n + 1]) = SubSeq(s, 1, n) \o <<s[n + 1]>>
        BY <3>1, AppendIsConcat
      <4>3. (n + 1) - 1 = n
        OBVIOUS
      <4>4. QED
        BY <4>1, <4>2, <4>3
    <3>3. Parsed(m, Append(SubSeq(s, 1, n), s[n + 1]))
            = RequestRead(Parsed(m, SubSeq(s, 1, n)), s[n + 1])
      BY <3>1, ParsedAppend DEF Parsed
    <3>4. QED
      BY <3>2, <3>3
  <2>6. DOMAIN v.num = RequestBlock /\ DOMAIN v.text = RequestTexts
    BY DEF Readable
  <2> HIDE DEF Read, Left
  <2>7. s[n + 1] \in Entry
    BY <2>2
  <2>8. GoodRequest(RequestRead(Read(n), s[n + 1]))
    BY <2>3, <2>7, Wires, ReadGood DEF GoodRequest, RequestRead
  <2>9. Completes(FieldRead(Read(n), Head(Left(n)), RequestTable), Tail(Left(n)), v,
                  RequestTable)
    BY <2>3, <2>4, <2>6, Wires, ReadCompletes DEF GoodRequest
  <2>10. QED
    BY <2>4, <2>5, <2>8, <2>9 DEF RequestRead
<1> HIDE DEF G
<1>3. Len(s) \in G
  BY <1>1, <1>2, Sums!Induction
<1>4. /\ GoodRequest(Read(Len(s)))
      /\ Completes(Read(Len(s)), Left(Len(s)), v, RequestTable)
  BY <1>3 DEF G
<1>5. Left(Len(s)) = <<>> /\ SubSeq(s, 1, Len(s)) = s
  BY SubSeqFull, SubSeqEmpty
<1>6. GoodRequest(Parsed(m, s)) /\ Completes(Parsed(m, s), <<>>, v, RequestTable)
  BY <1>4, <1>5
<1>7. QED
  BY <1>6, CompletesDone DEF GoodRequest

(***************************************************************************)
(* MergeIsParse holds: MergeFrom gives the values that parsing the         *)
(* encoding of the one request into the other gives, also for zeros and    *)
(* empty strings with their bits set and for unknown fields.               *)
(***************************************************************************)
THEOREM MergingIsParsing == Spec => []MergeIsParse
<1>1. ASSUME MessagesInv, NEW o \in Objects, NEW p \in Objects
      PROVE  Values(RequestMerged(request[p], request[o]))
               = Values(FoldLeft(RequestRead, request[p],
                                 RequestEntries(request[o])))
  <2> DEFINE to == request[p]
             from == request[o]
             v == Values(RequestMerged(to, from))
             s == RequestEntries(from)
  <2>1. GoodRequest(to) /\ GoodRequest(from)
    BY <1>1 DEF MessagesInv, RequestInv
  <2> HIDE DEF to, from
  <2>2. GoodRequest(RequestMerged(to, from))
    BY <2>1, MergedGood DEF RequestMerged, GoodRequest
  <2>3. v \in Readable(RequestBlock, RequestTexts)
    BY <2>2 DEF GoodRequest, Good, Typed, Values, Readable
  <2>4. s \in Seq(Entry) /\ Completes(to, s, v, RequestTable)
    BY <2>1, Wires, WrittenCompletes DEF GoodRequest, RequestMerged, RequestEntries
  <2> HIDE DEF s, v
  <2>5. Values(Parsed(to, s)) = v
    BY <2>1, <2>3, <2>4, ParsingCompletes
  <2>6. QED
    BY <2>5 DEF Parsed, s, v, to, from
<1>2. MessagesInv => MergeIsParse
  BY <1>1 DEF MergeIsParse
<1>3. QED
  BY <1>2, MessagesInvariance, PTL

(***************************************************************************)
(* The size of a response.                                                 *)
(***************************************************************************)
LEMMA BoxSizedSame ==
  ASSUME NEW b, GoodBox(b)
  PROVE  /\ BoxSize(BoxSized(b)) = BoxSize(b) /\ BoxSized(b).cached = BoxSize(b)
         /\ Values(BoxSized(b)) = Values(b)
<1> DEFINE n == BoxSize(b)
           m == [b EXCEPT !.cached = n]
<1>1. BoxSized(b) = m
  BY DEF BoxSized
<1> HIDE DEF n
<1>2. /\ m.num = b.num /\ m.text = b.text /\ m.has = b.has /\ m.unknown = b.unknown
      /\ m.cached = n
  BY DEF GoodBox, Good, BoxMembers, RequestMembers
<1> HIDE DEF m
<1>3. \A f : FieldSize(m, f, {"confidence"}) = FieldSize(b, f, {"confidence"})
  BY <1>2 DEF FieldSize
<1>4. BoxSize(m) = BoxSize(b)
  BY <1>2, <1>3 DEF BoxSize, FieldsSize
<1>5. Values(m) = Values(b)
  BY <1>2 DEF Values
<1>6. QED
  BY <1>1, <1>2, <1>4, <1>5 DEF n

LEMMA ResponseSizedFaces ==
  ASSUME NEW r, GoodResponse(r)
  PROVE  LET m == ResponseSized(r) IN
         /\ m.size = r.size
         /\ \A i \in 1 .. m.size :
              /\ m.faces[i].cached = BoxSize(m.faces[i])
              /\ GoodBox(m.faces[i])
<1> DEFINE m == ResponseSized(r)
<1>1. /\ r.size \in 0 .. Len(r.faces) /\ Len(r.faces) \in Nat
      /\ DOMAIN r.faces = 1 .. Len(r.faces)
  BY FacesAreFunction
<1>2. /\ m.size = r.size
      /\ \A i \in 1 .. r.size : m.faces[i] = BoxSized(r.faces[i])
  BY <1>1 DEF ResponseSized, GoodResponse, GoodFields, Good, ResponseMembers,
              RequestMembers
<1>3. \A i \in 1 .. r.size : GoodBox(r.faces[i])
  BY <1>1 DEF GoodResponse
<1> HIDE DEF m
<1>4. \A i \in 1 .. m.size :
        m.faces[i].cached = BoxSize(m.faces[i]) /\ GoodBox(m.faces[i])
  BY <1>2, <1>3, BoxSizedSame, BoxCalls
<1>5. QED
  BY <1>2, <1>4 DEF m

\* the bytes of each entry
Sizes(entries) == [i \in DOMAIN entries |-> BytesWritten(entries[i])]

LEMMA SizesConcat ==
  ASSUME NEW s \in Seq(Entries("DetectionResponse")),
         NEW t \in Seq(Entries("DetectionResponse"))
  PROVE  Total(Sizes(s \o t)) = Total(Sizes(s)) + Total(Sizes(t))
<1>1. ASSUME NEW e \in Entries("DetectionResponse")
      PROVE  BytesWritten(e) \in Nat
  <2>1. CASE e.tag = FacesTag
    <3>1. e.box \in Seq(Entry) /\ e.length \in Int
      BY <2>1, EntryKinds
    <3>2. VarintSize(e.length) \in Nat
      BY <3>1, VarintSizeNat
    <3>3. TotalBytes(e.box) \in Nat
      BY <3>1, TotalBytesConcat
    <3>4. QED
      BY <2>1, <3>2, <3>3 DEF BytesWritten
  <2>2. CASE e.tag # FacesTag
    BY <2>2, EntryKinds, BytesNat DEF BytesWritten
  <2>3. QED
    BY <2>1, <2>2
<1>2. ASSUME NEW u \in Seq(Entries("DetectionResponse"))
      PROVE  Sizes(u) \in Seq(Nat) /\ Len(Sizes(u)) = Len(u) /\ DOMAIN u = 1 .. Len(u)
  <2>1. DOMAIN u = 1 .. Len(u) /\ Len(u) \in Nat
    BY <1>2
  <2>2. \A i \in DOMAIN u : BytesWritten(u[i]) \in Nat
    <3>1. \A i \in DOMAIN u : u[i] \in Entries("DetectionResponse")
      BY <1>2
    <3>2. QED
      BY <1>1, <3>1
  <2>3. QED
    BY <2>1, <2>2 DEF Sizes
<1>3. /\ s \o t \in Seq(Entries("DetectionResponse"))
      /\ Len(s \o t) = Len(s) + Len(t) /\ Len(s) \in Nat /\ Len(t) \in Nat
      /\ \A i \in 1 .. Len(s) + Len(t) :
           (s \o t)[i] = IF i <= Len(s) THEN s[i] ELSE t[i - Len(s)]
  BY ConcatProperties
<1>4. /\ Sizes(s) \in Seq(Nat) /\ Len(Sizes(s)) = Len(s) /\ DOMAIN s = 1 .. Len(s)
      /\ Sizes(t) \in Seq(Nat) /\ Len(Sizes(t)) = Len(t) /\ DOMAIN t = 1 .. Len(t)
      /\ Sizes(s \o t) \in Seq(Nat) /\ Len(Sizes(s \o t)) = Len(s) + Len(t)
      /\ DOMAIN (s \o t) = 1 .. Len(s) + Len(t)
  BY <1>2, <1>3
<1>5. /\ Sizes(s) \o Sizes(t) \in Seq(Nat)
      /\ Len(Sizes(s) \o Sizes(t)) = Len(s) + Len(t)
      /\ \A i \in 1 .. Len(s) + Len(t) : (Sizes(s) \o Sizes(t))[i] =
           IF i <= Len(s) THEN Sizes(s)[i] ELSE Sizes(t)[i - Len(s)]
  <2>1. /\ Sizes(s) \o Sizes(t) \in Seq(Nat)
        /\ Len(Sizes(s) \o Sizes(t)) = Len(Sizes(s)) + Len(Sizes(t))
        /\ \A i \in 1 .. Len(Sizes(s)) + Len(Sizes(t)) : (Sizes(s) \o Sizes(t))[i] =
             IF i <= Len(Sizes(s)) THEN Sizes(s)[i] ELSE Sizes(t)[i - Len(Sizes(s))]
    <3>1. \A u, w \in Seq(Nat) :
            /\ u \o w \in Seq(Nat)
            /\ Len(u \o w) = Len(u) + Len(w)
            /\ \A i \in 1 .. Len(u) + Len(w) :
                 (u \o w)[i] = IF i <= Len(u) THEN u[i] ELSE w[i - Len(u)]
      BY ConcatProperties
    <3>2. Sizes(s) \in Seq(Nat) /\ Sizes(t) \in Seq(Nat)
      BY <1>4
    <3>3. QED
      BY <3>1, <3>2, Zenon
  <2>2. QED
    BY <1>4, <2>1
<1>6. ASSUME NEW i \in 1 .. Len(s) + Len(t)
      PROVE  Sizes(s \o t)[i] = (Sizes(s) \o Sizes(t))[i]
  <2>1. Sizes(s \o t)[i] = BytesWritten((s \o t)[i])
    BY <1>4 DEF Sizes
  <2>2. CASE i <= Len(s)
    <3>1. Sizes(s)[i] = BytesWritten(s[i])
      BY <1>3, <1>4, <2>2 DEF Sizes
    <3>2. QED
      BY <1>3, <1>5, <2>1, <2>2, <3>1
  <2>3. CASE ~ (i <= Len(s))
    <3>1. i - Len(s) \in DOMAIN t
      BY <1>3, <1>4, <2>3
    <3>2. Sizes(t)[i - Len(s)] = BytesWritten(t[i - Len(s)])
      BY <3>1 DEF Sizes
    <3>3. QED
      BY <1>3, <1>5, <2>1, <2>3, <3>2
  <2>4. QED
    BY <2>2, <2>3
<1>7. Sizes(s \o t) = Sizes(s) \o Sizes(t)
  BY <1>4, <1>5, <1>6, SeqEqual
<1>8. QED
  BY <1>4, <1>7, TotalConcat

LEMMA ResponseSizeExact ==
  ASSUME NEW r, GoodResponse(r)
  PROVE  LET m == ResponseSized(r) IN
         /\ ResponseSize(m) = Total(Sizes(ResponseEntries(m)))
         /\ \A i \in 1 .. m.size :
              m.faces[i].cached = TotalBytes(BoxEntries(m.faces[i]))
<1> DEFINE m == ResponseSized(r)
<1>1. /\ GoodResponse(m) /\ m.size \in Nat
      /\ \A i \in 1 .. m.size :
           m.faces[i].cached = BoxSize(m.faces[i]) /\ GoodBox(m.faces[i])
  <2>1. GoodResponse(m)
    BY ResponseSizedGood
  <2>2. \A i \in 1 .. m.size :
          m.faces[i].cached = BoxSize(m.faces[i]) /\ GoodBox(m.faces[i])
    BY ResponseSizedFaces
  <2> HIDE DEF m
  <2>3. m.size \in Nat
    <3>1. m.size \in 0 .. Len(m.faces) /\ Len(m.faces) \in Nat
      BY <2>1, FacesAreFunction
    <3>2. QED
      BY <3>1
  <2>4. QED
    BY <2>1, <2>2, <2>3
<1> HIDE DEF m
<1>2. ASSUME NEW i \in 1 .. m.size
      PROVE  /\ TotalBytes(BoxEntries(m.faces[i])) = BoxSize(m.faces[i])
             /\ BoxSize(m.faces[i]) \in Nat
  <2>1. GoodBox(m.faces[i])
    BY <1>1
  <2>2. QED
    BY <2>1, Wires, WrittenGood DEF GoodBox, BoxSize, BoxEntries
<1> DEFINE F == FaceEntries(m)
           W == OtherEntries(m)
<1>3. /\ F \in Seq(FaceEntry) /\ Len(F) = m.size
      /\ W \in Seq({e \in Entry : e.tag # FacesTag})
      /\ ResponseEntries(m) = F \o W
  BY <1>1, ResponseSent
<1>4. /\ F \in Seq(Entries("DetectionResponse")) /\ W \in Seq(Entries("DetectionResponse"))
  BY <1>3, EntryKinds, SeqMonotonic
<1>5. Total(Sizes(ResponseEntries(m))) = Total(Sizes(F)) + Total(Sizes(W))
  BY <1>3, <1>4, SizesConcat
<1>6. Sizes(F) = [i \in 1 .. m.size |->
                    1 + VarintSize(BoxSize(m.faces[i])) + BoxSize(m.faces[i])]
  <2>1. DOMAIN F = 1 .. m.size
    BY DEF FaceEntries
  <2>2. ASSUME NEW i \in 1 .. m.size
        PROVE  BytesWritten(F[i])
                 = 1 + VarintSize(BoxSize(m.faces[i])) + BoxSize(m.faces[i])
    <3>1. F[i].tag = FacesTag /\ F[i].box = BoxEntries(m.faces[i])
          /\ F[i].length = m.faces[i].cached
      BY DEF FaceEntries
    <3>2. QED
      BY <1>1, <1>2, <3>1 DEF BytesWritten
  <2>3. QED
    BY <2>1, <2>2 DEF Sizes
<1>7. Sizes(W) = [i \in DOMAIN W |-> Bytes(W[i])]
  <2>1. \A i \in DOMAIN W : W[i].tag # FacesTag
    BY <1>3
  <2>2. QED
    BY <2>1 DEF Sizes, BytesWritten
<1>8. Total(Sizes(W)) = FieldsSize(m, ResponseTags, ResponseTable, {})
  <2>1. TotalBytes(W) = FieldsSize(m, ResponseTags, ResponseTable, {})
    BY <1>1, Wires, WrittenGood DEF GoodResponse, GoodFields, OtherEntries
  <2>2. QED
    BY <1>7, <2>1 DEF TotalBytes
<1>9. ResponseSize(m) = Total(Sizes(F)) + Total(Sizes(W))
  BY <1>6, <1>8 DEF ResponseSize
<1>10. QED
  BY <1>1, <1>2, <1>5, <1>9 DEF m

(***************************************************************************)
(* BufferExact holds: ByteSizeLong is the number of bytes that             *)
(* _InternalSerialize writes, and the cached length of a face that of the  *)
(* face.                                                                   *)
(***************************************************************************)
THEOREM BuffersFit == Spec => []BufferExact
<1>1. ASSUME MessagesInv PROVE BufferExact
  <2>1. ASSUME NEW o \in Objects
        PROVE  RequestSize(request[o]) = TotalBytes(RequestEntries(request[o]))
    <3>1. GoodRequest(request[o])
      BY <1>1 DEF MessagesInv, RequestInv
    <3>2. QED
      BY <3>1, Wires, WrittenGood DEF GoodRequest, RequestSize, RequestEntries
  <2>2. ASSUME NEW o \in Objects
        PROVE  LET m == ResponseSized(response[o])
                   entries == ResponseEntries(m)
               IN /\ ResponseSize(m) = Total(Sizes(entries))
                  /\ \A i \in 1 .. m.size :
                       m.faces[i].cached = TotalBytes(BoxEntries(m.faces[i]))
    <3>1. GoodResponse(response[o])
      BY <1>1 DEF MessagesInv, ResponseInv
    <3>2. QED
      BY <3>1, ResponseSizeExact
  <2>3. QED
    BY <2>1, <2>2 DEF BufferExact, Sizes
<1>2. QED
  BY <1>1, MessagesInvariance, PTL

(***************************************************************************)
(* What is sent arrives.                                                   *)
(***************************************************************************)
LEMMA CompletesSame ==
  ASSUME NEW m, NEW r, NEW s, NEW v, NEW w, NEW table,
         m.num = r.num, m.text = r.text, m.unknown = r.unknown,
         v.num = w.num, v.text = w.text, v.unknown = w.unknown,
         Completes(m, s, v, table)
  PROVE  Completes(r, s, w, table)
<1>1. PICK k \in 0 .. Len(s) :
        /\ \A i \in 1 .. k :
             /\ s[i].tag \in DOMAIN table
             /\ LET f == table[s[i].tag] IN
                IF f \in DOMAIN v.num THEN s[i].num = v.num[f]
                ELSE f \in DOMAIN v.text /\ s[i].text = v.text[f]
        /\ \A f \in DOMAIN v.num :
             m.num[f] = v.num[f] \/ \E i \in 1 .. k : table[s[i].tag] = f
        /\ \A f \in DOMAIN v.text :
             m.text[f] = v.text[f] \/ \E i \in 1 .. k : table[s[i].tag] = f
        /\ \A i \in (k + 1) .. Len(s) : s[i].tag \notin DOMAIN table
        /\ v.unknown = m.unknown \o SubSeq(s, k + 1, Len(s))
  BY DEF Completes
<1>2. \A i \in 1 .. k :
        /\ s[i].tag \in DOMAIN table
        /\ LET f == table[s[i].tag] IN
           IF f \in DOMAIN w.num THEN s[i].num = w.num[f]
           ELSE f \in DOMAIN w.text /\ s[i].text = w.text[f]
  BY <1>1
<1>3. \A f \in DOMAIN w.num :
        r.num[f] = w.num[f] \/ \E i \in 1 .. k : table[s[i].tag] = f
  BY <1>1, Zenon
<1>4. \A f \in DOMAIN w.text :
        r.text[f] = w.text[f] \/ \E i \in 1 .. k : table[s[i].tag] = f
  BY <1>1, Zenon
<1>5. w.unknown = r.unknown \o SubSeq(s, k + 1, Len(s))
  BY <1>1, Zenon
<1>6. QED
  BY <1>1, <1>2, <1>3, <1>4, <1>5, Zenon DEF Completes

\* An empty message is completed to the one that is written.
LEMMA EmptyCompletes ==
  ASSUME NEW c, NEW from, NEW tags, NEW table, NEW fixed,
         NEW D, NEW N, NEW T, NEW X,
         Good(c, D, N, T, X), Good(from, D, N, T, X),
         Wire(tags, table, N, T, fixed), DOMAIN table \subseteq X,
         c.has = {}, c.unknown = <<>>,
         NEW w, w.num = from.num, w.text = from.text, w.unknown = from.unknown
  PROVE  /\ Completes(c, Written(from, tags, table), w, table)
         /\ \A f \in T : c.text[f] = <<>>
<1> DEFINE v == Values(Merged(c, from))
<1>1. /\ c.num \in [N -> Int] /\ c.text \in [T -> Seq(Byte)]
      /\ \A f \in N : c.num[f] = 0
      /\ \A f \in T : c.text[f] = <<>>
      /\ from.num \in [N -> Int] /\ from.text \in [T -> Seq(Byte)]
      /\ from.unknown \in Seq(Entry)
      /\ \A f \in N \ from.has : from.num[f] = 0
      /\ \A f \in T \ from.has : from.text[f] = <<>>
      /\ RequestMembers \subseteq DOMAIN c
  BY DEF Good, Typed, Consistent
<1>2. /\ v.num = [f \in N |-> IF f \in from.has /\ from.num[f] # 0
                             THEN from.num[f] ELSE c.num[f]]
      /\ v.text = [f \in T |-> IF f \in from.has /\ from.text[f] # <<>>
                              THEN from.text[f] ELSE c.text[f]]
      /\ v.unknown = <<>> \o from.unknown
  BY <1>1 DEF Values, Merged, RequestMembers
<1>3. v.num = w.num /\ v.text = w.text /\ v.unknown = w.unknown
  <2> HIDE DEF v
  <2>1. \A f \in N : v.num[f] = from.num[f]
    BY <1>1, <1>2
  <2>2. \A f \in T : v.text[f] = from.text[f]
    BY <1>1, <1>2
  <2>3. v.num = from.num
    BY <1>1, <1>2, <2>1
  <2>4. v.text = from.text
    BY <1>1, <1>2, <2>2
  <2>5. v.unknown = from.unknown
    BY <1>1, <1>2
  <2>6. QED
    BY <2>3, <2>4, <2>5
<1>4. Completes(c, Written(from, tags, table), v, table)
  BY WrittenCompletes
<1> HIDE DEF v
<1>5. Completes(c, Written(from, tags, table), w, table)
  BY <1>3, <1>4, CompletesSame
<1>6. QED
  BY <1>1, <1>5

\* the checked texts of a message, or of its values, are UTF-8
Clean(m, checked) == \A f \in checked : m.text[f] \notin Malformed

\* Reading one field: a text that must be UTF-8 is refused when it is not, and is
\* then the one that was sent.
LEMMA ReadArrives ==
  ASSUME NEW m, NEW s \in Seq(Entry), s # <<>>, NEW v, NEW tags, NEW table, NEW fixed,
         NEW D, NEW N, NEW T, NEW X,
         Good(m, D, N, T, X), Wire(tags, table, N, T, fixed),
         DOMAIN v.num = N, DOMAIN v.text = T, Completes(m, s, v, table),
         NEW checked \in SUBSET T, Clean(m, checked)
  PROVE  /\ Completes(FieldRead(m, Head(s), table), Tail(s), v, table)
         /\ IF Unreadable(Head(s), table, checked)
            THEN ~ Clean(v, checked)
            ELSE Clean(FieldRead(m, Head(s), table), checked)
<1> DEFINE e == Head(s)
           r == FieldRead(m, e, table)
<1>1. Completes(r, Tail(s), v, table)
  BY ReadCompletes
<1>2. e = s[1] /\ Len(s) \in Nat /\ Len(s) > 0
  BY HeadTailProperties
<1>3. N \cap T = {} /\ DOMAIN m.num = N /\ DOMAIN m.text = T /\ RequestMembers \subseteq DOMAIN m
  BY DEF Good, Typed
<1>4. CASE Unreadable(e, table, checked)
  <2>1. /\ e.tag \in DOMAIN table /\ table[e.tag] \in checked /\ e.text \in Malformed
        /\ table[e.tag] \notin N
    BY <1>3, <1>4 DEF Unreadable
  <2>2. PICK k \in 0 .. Len(s) :
          /\ \A i \in 1 .. k :
               /\ s[i].tag \in DOMAIN table
               /\ LET f == table[s[i].tag] IN
                  IF f \in DOMAIN v.num THEN s[i].num = v.num[f]
                  ELSE f \in DOMAIN v.text /\ s[i].text = v.text[f]
          /\ \A i \in (k + 1) .. Len(s) : s[i].tag \notin DOMAIN table
    BY DEF Completes
  <2>3. k # 0
    BY <1>2, <2>1, <2>2
  <2>4. 1 \in 1 .. k
    BY <1>2, <2>3
  <2>5. e.text = v.text[table[e.tag]]
    BY <1>2, <2>1, <2>2, <2>4
  <2> HIDE DEF e, r
  <2>6. ~ Clean(v, checked)
    BY <2>1, <2>5 DEF Clean
  <2>7. QED
    BY <1>1, <1>4, <2>6 DEF e, r
<1>5. CASE ~ Unreadable(e, table, checked)
  <2>1. ASSUME NEW f \in checked PROVE r.text[f] \notin Malformed
    <3>0. m.text[f] \notin Malformed
      BY DEF Clean
    <3>1. CASE e.tag \notin DOMAIN table
      <4>1. r.text = m.text
        BY <1>3, <3>1 DEF FieldRead, RequestMembers
      <4>2. QED
        BY <3>0, <4>1
    <3>2. CASE e.tag \in DOMAIN table /\ table[e.tag] \in N
      <4>1. r.text = m.text
        BY <1>3, <3>2 DEF FieldRead, NumberSet, RequestMembers
      <4>2. QED
        BY <3>0, <4>1
    <3>3. CASE e.tag \in DOMAIN table /\ table[e.tag] \notin N
      <4>1. r.text = [m.text EXCEPT ![table[e.tag]] = e.text]
        BY <1>3, <3>3 DEF FieldRead, TextSet, RequestMembers
      <4>2. f \in DOMAIN m.text
        BY <1>3
      <4>3. table[e.tag] = f => e.text \notin Malformed
        BY <1>5, <3>3 DEF Unreadable
      <4> HIDE DEF r, e
      <4>4. QED
        BY <3>0, <4>1, <4>2, <4>3
    <3>4. QED
      BY <3>1, <3>2, <3>3
  <2>2. Clean(r, checked)
    BY <2>1 DEF Clean
  <2>3. QED
    BY <1>1, <1>5, <2>2
<1>6. QED
  BY <1>4, <1>5

(***************************************************************************)
(* Requests.                                                               *)
(***************************************************************************)
LEMMA RequestSends ==
  ASSUME MessagesInv, NEW o \in Objects, NEW p \in Objects, SendRequest(o, p)
  PROVE  SentArrives'
<1> DEFINE c == RequestCleared(request[p])
           v == Values(request[o])
<1>1. GoodRequest(request[o]) /\ GoodRequest(request[p])
  BY DEF MessagesInv, RequestInv
<1>2. GoodRequest(c) /\ c.has = {} /\ c.unknown = <<>>
  BY <1>1, ClearedGood DEF GoodRequest, RequestCleared
<1>3. /\ type = "FrameRequest" /\ type' = type
      /\ request' = [request EXCEPT ![p] = c]
      /\ input' = RequestEntries(request[o]) /\ reader' = p /\ refused' = FALSE
      /\ sent' = <<v>>
  BY DEF SendRequest, ParseRequest, RequestValues, type
<1>4. v.num = request[o].num /\ v.text = request[o].text /\ v.unknown = request[o].unknown
  BY DEF Values
<1> HIDE DEF c, v
<1>5. /\ Completes(c, RequestEntries(request[o]), v, RequestTable)
      /\ \A f \in RequestTexts : c.text[f] = <<>>
  BY <1>1, <1>2, <1>4, Wires, EmptyCompletes DEF GoodRequest, RequestEntries
<1>6. RequestChecked \subseteq RequestTexts
  BY Fields DEF RequestChecked
<1>7. request'[reader'] = c /\ sent'[1] = v
  BY <1>3 DEF MessagesInv, RequestInv
<1>8. Clean(c, RequestChecked)
  BY <1>5, <1>6, MalformedAssumption DEF Clean
<1>9. RequestArrives'
  BY <1>3, <1>5, <1>7, <1>8 DEF RequestArrives, Clean
<1>10. QED
  BY <1>3, <1>9 DEF SentArrives

LEMMA RequestReads ==
  ASSUME MessagesInv, SentArrives, ReadRequestField, sent # <<>>
  PROVE  SentArrives'
<1> DEFINE m == request[reader]
           v == sent[1]
           e == Head(input)
<1>1. /\ type = "FrameRequest" /\ type' = type /\ sent' = sent /\ reader' = reader
      /\ request' = [request EXCEPT ![reader] = RequestRead(m, e)]
      /\ refused' = Unreadable(e, RequestTable, RequestChecked)
      /\ input' = IF refused' THEN <<>> ELSE Tail(input)
      /\ input # <<>> /\ part' = part
  BY DEF ReadRequestField, type
<1>2. /\ reader \in Objects /\ GoodRequest(m) /\ input \in Seq(Entry) /\ part = <<>>
      /\ v \in Readable(RequestBlock, RequestTexts) /\ DOMAIN request = Objects
  BY <1>1, EntryKinds DEF MessagesInv, ParserInv, RequestInv, Sendable
<1>3. RequestArrives /\ ~ refused
  BY <1>1 DEF SentArrives, RequestArrives, Idle
<1>4. /\ Completes(m, input, v, RequestTable)
      /\ Clean(m, RequestChecked)
  BY <1>3 DEF RequestArrives, Clean
<1>5. RequestChecked \in SUBSET RequestTexts
  BY Fields DEF RequestChecked
<1>6. DOMAIN v.num = RequestBlock /\ DOMAIN v.text = RequestTexts
  BY <1>2 DEF Readable
<1> HIDE DEF m, v, e
<1>7. /\ Completes(RequestRead(m, e), Tail(input), v, RequestTable)
      /\ IF Unreadable(e, RequestTable, RequestChecked)
         THEN ~ Clean(v, RequestChecked)
         ELSE Clean(RequestRead(m, e), RequestChecked)
  <2>1. Wire(RequestTags, RequestTable, RequestBlock, RequestTexts, {})
    BY Wires
  <2>2. Good(m, RequestMembers, RequestBlock, RequestTexts, DOMAIN RequestTable)
    BY <1>2 DEF GoodRequest
  <2>3. input \in Seq(Entry) /\ input # <<>>
    BY <1>1, <1>2
  <2>4. /\ Completes(FieldRead(m, Head(input), RequestTable), Tail(input), v, RequestTable)
        /\ IF Unreadable(Head(input), RequestTable, RequestChecked)
           THEN ~ Clean(v, RequestChecked)
           ELSE Clean(FieldRead(m, Head(input), RequestTable), RequestChecked)
    BY <1>4, <1>5, <1>6, <2>1, <2>2, <2>3, ReadArrives
  <2>5. QED
    BY <2>4 DEF RequestRead, e
<1>8. request'[reader'] = RequestRead(m, e) /\ sent'[1] = v
  BY <1>1, <1>2 DEF v
<1>9. RequestArrives'
  BY <1>1, <1>2, <1>7, <1>8 DEF RequestArrives, Idle, Clean
<1>10. QED
  BY <1>1, <1>9 DEF SentArrives

(***************************************************************************)
(* Responses.                                                              *)
(***************************************************************************)

\* the elements of a response that is sent
LEMMA SentElements ==
  ASSUME NEW m, GoodResponse(m)
  PROVE  LET s == ResponseEntries(m)
             v == ResponseValues(m)
         IN  /\ m.size \in Nat /\ Len(v.faces) = m.size
             /\ m.size \in 0 .. Len(s)
             /\ \A i \in 1 .. m.size :
                  /\ s[i].tag = FacesTag /\ s[i].box = BoxEntries(m.faces[i])
                  /\ s[i].length = m.faces[i].cached
                  /\ v.faces[i] = Values(m.faces[i])
                  /\ GoodBox(m.faces[i])
             /\ \A i \in (m.size + 1) .. Len(s) : s[i].tag # FacesTag
             /\ SubSeq(s, m.size + 1, Len(s)) = OtherEntries(m)
<1> DEFINE s == ResponseEntries(m)
           v == ResponseValues(m)
           F == FaceEntries(m)
           W == OtherEntries(m)
           n == m.size
           E == Entries("DetectionResponse")
<1>1. /\ n \in Nat
      /\ \A i \in 1 .. n : GoodBox(m.faces[i])
  <2>1. n \in 0 .. Len(m.faces) /\ Len(m.faces) \in Nat
    BY FacesAreFunction
  <2>2. QED
    BY <2>1 DEF GoodResponse
<1>2. /\ F \in Seq(FaceEntry) /\ Len(F) = n
      /\ W \in Seq({e \in Entry : e.tag # FacesTag})
      /\ s = F \o W
  BY ResponseSent
<1>3. \A i \in 1 .. n :
        /\ F[i].tag = FacesTag /\ F[i].box = BoxEntries(m.faces[i])
        /\ F[i].length = m.faces[i].cached
  BY DEF FaceEntries
<1>4. F \in Seq(E) /\ W \in Seq(E) /\ s \in Seq(E)
  BY <1>2, EntryKinds, SeqMonotonic, ConcatProperties
<1>5. Len(v.faces) = n /\ \A i \in 1 .. n : v.faces[i] = Values(m.faces[i])
  <2> DEFINE f == [i \in 1 .. n |-> Values(m.faces[i])]
  <2>1. v.faces = f
    BY DEF ResponseValues
  <2>2. Len(f) = n
    BY <1>1
  <2>3. QED
    BY <2>1, <2>2
<1> HIDE DEF s, v, F, W, n, E
<1>6. /\ Len(s) = n + Len(W) /\ Len(W) \in Nat
      /\ \A i \in 1 .. n : s[i] = F[i]
      /\ \A i \in (n + 1) .. Len(s) : s[i] = W[i - n]
  <2>1. /\ Len(F \o W) = Len(F) + Len(W)
        /\ \A i \in 1 .. Len(F) + Len(W) :
             (F \o W)[i] = IF i <= Len(F) THEN F[i] ELSE W[i - Len(F)]
    BY <1>4, ConcatProperties
  <2>2. Len(W) \in Nat
    BY <1>4
  <2>3. QED
    BY <1>1, <1>2, <2>1, <2>2
<1>7. \A i \in (n + 1) .. Len(s) : s[i].tag # FacesTag
  <2>1. SUFFICES ASSUME NEW i \in (n + 1) .. Len(s) PROVE W[i - n].tag # FacesTag
    BY <1>6
  <2>2. i - n \in 1 .. Len(W)
    BY <1>1, <1>6
  <2>3. QED
    BY <1>2, <2>2
<1>8. SubSeq(s, n + 1, Len(s)) = W
  <2> DEFINE u == SubSeq(s, n + 1, Len(s))
  <2>1. n \in 0 .. Len(s)
    BY <1>1, <1>6
  <2>2. /\ u \in Seq(E) /\ Len(u) = Len(s) - n
        /\ \A i \in 1 .. Len(s) - n : u[i] = s[n + i]
    BY <1>4, <2>1, SuffixOf
  <2> HIDE DEF u
  <2>3. Len(u) = Len(W)
    BY <1>1, <1>6, <2>2
  <2>4. ASSUME NEW i \in 1 .. Len(W) PROVE u[i] = W[i]
    <3>1. n + i \in (n + 1) .. Len(s) /\ i \in 1 .. Len(s) - n /\ (n + i) - n = i
      BY <1>1, <1>6
    <3>2. QED
      BY <1>6, <2>2, <3>1
  <2>5. u = W
    BY <1>4, <2>2, <2>3, <2>4, SeqEqual
  <2>6. QED
    BY <2>5 DEF u
<1>9. n \in 0 .. Len(s)
  BY <1>1, <1>6
<1>10. QED
  BY <1>1, <1>3, <1>5, <1>6, <1>7, <1>8, <1>9 DEF s, v, W, n

\* A response that has no fields and no faces is completed to the one sent.
LEMMA SentCompletes ==
  ASSUME NEW m, GoodResponse(m),
         \A i \in 1 .. m.size :
           m.faces[i].cached = TotalBytes(BoxEntries(m.faces[i])),
         NEW c, GoodResponse(c), c.size = 0, c.has = {}, c.unknown = <<>>
  PROVE  /\ ResponseCompletes(c, ResponseEntries(m), <<>>, ResponseValues(m))
         /\ c.text["frame_id"] = <<>>
<1> DEFINE s == ResponseEntries(m)
           v == ResponseValues(m)
           n == m.size
<1>1. /\ n \in Nat /\ Len(v.faces) = n
      /\ n \in 0 .. Len(s)
      /\ \A i \in 1 .. n :
           /\ s[i].tag = FacesTag /\ s[i].box = BoxEntries(m.faces[i])
           /\ s[i].length = m.faces[i].cached
           /\ v.faces[i] = Values(m.faces[i])
           /\ GoodBox(m.faces[i])
      /\ \A i \in (n + 1) .. Len(s) : s[i].tag # FacesTag
      /\ SubSeq(s, n + 1, Len(s)) = OtherEntries(m)
  BY SentElements
<1>2. v.num = m.num /\ v.text = m.text /\ v.unknown = m.unknown
  BY DEF ResponseValues
<1> HIDE DEF s, v
<1>3. /\ Completes(c, OtherEntries(m), v, ResponseTable)
      /\ \A f \in {"frame_id"} : c.text[f] = <<>>
  <2>1. /\ Good(c, ResponseMembers, ResponseBlock, {"frame_id"}, ResponseKnown)
        /\ Good(m, ResponseMembers, ResponseBlock, {"frame_id"}, ResponseKnown)
    BY DEF GoodResponse, GoodFields
  <2>2. DOMAIN ResponseTable \subseteq ResponseKnown
    BY DEF ResponseKnown
  <2>3. Wire(ResponseTags, ResponseTable, ResponseBlock, {"frame_id"}, {})
    BY Wires
  <2>4. QED
    BY <1>2, <2>1, <2>2, <2>3, EmptyCompletes DEF OtherEntries
<1>4. ASSUME NEW i \in 1 .. n
      PROVE  Completes(NewBox, s[i].box, v.faces[i], BoxTable)
  <2> DEFINE b == m.faces[i]
             w == Values(b)
  <2>1. /\ Good(NewBox, BoxMembers, BoxBlock, {}, DOMAIN BoxTable)
        /\ NewBox.has = {} /\ NewBox.unknown = <<>>
    BY NewBoxGood DEF GoodBox, Emptied
  <2>2. Good(b, BoxMembers, BoxBlock, {}, DOMAIN BoxTable)
    BY <1>1 DEF GoodBox
  <2>3. Wire(BoxTags, BoxTable, BoxBlock, {}, {"confidence"})
    BY Wires
  <2>4. w.num = b.num /\ w.text = b.text /\ w.unknown = b.unknown
    BY DEF Values
  <2>5. s[i].box = BoxEntries(b) /\ v.faces[i] = w
    BY <1>1
  <2> HIDE DEF b, w
  <2>6. Completes(NewBox, Written(b, BoxTags, BoxTable), w, BoxTable)
    BY <2>1, <2>2, <2>3, <2>4, EmptyCompletes
  <2>7. QED
    BY <2>5, <2>6 DEF BoxEntries
<1>5. n - 0 = n /\ \A i \in 1 .. n : 0 + i = i
  BY <1>1
<1>6. ResponseCompletes(c, s, <<>>, v)
  <2>1. Len(v.faces) - c.size = n
    BY <1>1, <1>5
  <2>2. \A i \in 1 .. n : v.faces[c.size + i] = v.faces[i]
    BY <1>5
  <2>3. 1 .. (c.size - 1) = {}
    OBVIOUS
  <2>4. \A i \in 1 .. n :
          /\ s[i].tag = FacesTag
          /\ s[i].length = TotalBytes(s[i].box)
          /\ Completes(NewBox, s[i].box, v.faces[c.size + i], BoxTable)
    BY <1>1, <1>4, <2>2
  <2>5. Completes(c, SubSeq(s, n + 1, Len(s)), v, ResponseTable)
    BY <1>1, <1>3
  <2> HIDE DEF n
  <2>6. QED
    BY <1>1, <2>1, <2>3, <2>4, <2>5 DEF ResponseCompletes
<1>7. QED
  BY <1>3, <1>6 DEF s, v

\* Reading a field of a response: its faces have been read.
LEMMA FieldCompletes ==
  ASSUME NEW m, GoodResponse(m), NEW s \in Seq(Entries("DetectionResponse")), s # <<>>,
         NEW v \in Sendable("DetectionResponse"),
         Head(s).tag # FacesTag, ResponseCompletes(m, s, <<>>, v),
         Clean(m, {"frame_id"})
  PROVE  LET r == ResponseRead(m, Head(s)) IN
         /\ ResponseCompletes(r, Tail(s), <<>>, v)
         /\ IF Unreadable(Head(s), ResponseTable, {"frame_id"})
            THEN ~ Clean(v, {"frame_id"})
            ELSE Clean(r, {"frame_id"})
<1> DEFINE E == Entries("DetectionResponse")
           e == Head(s)
           t == Tail(s)
           r == ResponseRead(m, e)
           left == Len(v.faces) - m.size
<1>1. /\ Len(s) \in Nat /\ Len(s) > 0 /\ e = s[1] /\ e \in E
      /\ t \in Seq(E) /\ Len(t) = Len(s) - 1
      /\ \A i \in 1 .. Len(t) : t[i] = s[i + 1]
  BY HeadTailProperties
<1>2. /\ left \in 0 .. Len(s)
      /\ \A i \in 1 .. left : s[i].tag = FacesTag
      /\ \A i \in (left + 1) .. Len(s) : s[i].tag # FacesTag
      /\ Completes(m, SubSeq(s, left + 1, Len(s)), v, ResponseTable)
      /\ \A i \in 1 .. (m.size - 1) : Values(m.faces[i]) = v.faces[i]
      /\ m.size # 0 => Completes(m.faces[m.size], <<>>, v.faces[m.size], BoxTable)
  BY DEF ResponseCompletes
<1> DEFINE k == left
<1>3. k = 0
  <2> HIDE DEF left, e
  <2>1. k # 0 => 1 \in 1 .. k
    BY <1>2
  <2>2. QED
    BY <1>1, <1>2, <2>1
<1>4. /\ DOMAIN v.num = ResponseBlock /\ DOMAIN v.text = {"frame_id"}
  BY DEF Sendable
<1>5. Good(m, ResponseMembers, ResponseBlock, {"frame_id"}, ResponseKnown)
  BY DEF GoodResponse, GoodFields
<1>6. e \in Entry
  BY <1>1, EntryKinds
<1>7. GoodResponse(r) /\ r.faces = m.faces /\ r.size = m.size
  BY <1>6, ResponseReadGood
<1>8. \A i \in 1 .. Len(s) : s[i].tag # FacesTag
  <2> HIDE DEF left
  <2>1. QED
    BY <1>2, <1>3
<1>9. s \in Seq(Entry) /\ SubSeq(s, 0 + 1, Len(s)) = s
  <2>1. \A i \in 1 .. Len(s) : s[i] \in E
    OBVIOUS
  <2>2. \A i \in 1 .. Len(s) : s[i] \in Entry
    BY <1>8, <2>1, EntryKinds
  <2> HIDE DEF E
  <2>3. s \in Seq(Entry)
    BY <2>2
  <2>4. 0 \in 0 .. Len(s) /\ Len(s) - 0 = Len(s) /\ \A i \in 1 .. Len(s) : 0 + i = i
    BY <1>1
  <2> DEFINE u == SubSeq(s, 0 + 1, Len(s))
  <2>5. u \in Seq(Entry) /\ Len(u) = Len(s) - 0 /\ \A i \in 1 .. Len(s) - 0 : u[i] = s[0 + i]
    BY <2>3, <2>4, SuffixOf
  <2> HIDE DEF u
  <2>6. u = s
    BY <2>3, <2>4, <2>5, SeqEqual
  <2>7. QED
    BY <2>3, <2>6 DEF u
<1>10. Completes(m, s, v, ResponseTable)
  <2>1. SubSeq(s, k + 1, Len(s)) = s
    BY <1>3, <1>9
  <2>2. QED
    BY <1>2, <2>1
<1>11. {"frame_id"} \in SUBSET {"frame_id"}
  OBVIOUS
<1>12. Wire(ResponseTags, ResponseTable, ResponseBlock, {"frame_id"}, {})
  BY Wires
<1>13. /\ Completes(FieldRead(m, Head(s), ResponseTable), Tail(s), v, ResponseTable)
       /\ IF Unreadable(Head(s), ResponseTable, {"frame_id"})
          THEN ~ Clean(v, {"frame_id"})
          ELSE Clean(FieldRead(m, Head(s), ResponseTable), {"frame_id"})
  BY <1>4, <1>5, <1>9, <1>10, <1>11, <1>12, ReadArrives
<1>14. t \in Seq(Entry) /\ SubSeq(t, 0 + 1, Len(t)) = t
  <2>1. t \in Seq(Entry)
    BY <1>9, HeadTailProperties
  <2>2. QED
    BY <2>1
<1>15. ResponseCompletes(r, t, <<>>, v)
  <2>1. Len(v.faces) - r.size = 0
    BY <1>3, <1>7
  <2>2. 0 \in 0 .. Len(t) /\ 1 .. 0 = {}
    BY <1>1
  <2>3. \A i \in (0 + 1) .. Len(t) : t[i].tag # FacesTag
    <3>1. SUFFICES ASSUME NEW i \in (0 + 1) .. Len(t) PROVE t[i].tag # FacesTag
      OBVIOUS
    <3>2. i \in 1 .. Len(t) /\ i + 1 \in 1 .. Len(s)
      BY <1>1
    <3>3. t[i] = s[i + 1]
      BY <1>1, <3>2
    <3>4. QED
      BY <1>8, <3>2, <3>3
  <2>4. Completes(r, SubSeq(t, 0 + 1, Len(t)), v, ResponseTable)
    BY <1>13, <1>14 DEF ResponseRead
  <2>5. \A i \in 1 .. (r.size - 1) : Values(r.faces[i]) = v.faces[i]
    BY <1>2, <1>7
  <2>6. IF r.size = 0 THEN TRUE
        ELSE Completes(r.faces[r.size], <<>>, v.faces[r.size], BoxTable)
    BY <1>2, <1>7
  <2> HIDE DEF r, t, left
  <2>7. QED
    BY <2>1, <2>2, <2>3, <2>4, <2>5, <2>6 DEF ResponseCompletes
<1>16. QED
  BY <1>13, <1>15 DEF ResponseRead

\* add_faces gives one element more, an empty one
LEMMA FaceAddedElements ==
  ASSUME NEW m, GoodResponse(m)
  PROVE  LET r == FaceAdded(m) IN
         /\ GoodResponse(r) /\ r.size = m.size + 1 /\ m.size \in Nat
         /\ r.num = m.num /\ r.text = m.text /\ r.unknown = m.unknown
         /\ \A i \in 1 .. m.size : r.faces[i] = m.faces[i]
         /\ LET b == r.faces[m.size + 1] IN
            /\ GoodBox(b) /\ b.num = NewBox.num /\ b.text = NewBox.text
            /\ b.unknown = NewBox.unknown
<1> DEFINE r == FaceAdded(m)
           n == m.size
           b == r.faces[n + 1]
<1>1. n \in 0 .. Len(m.faces) /\ Len(m.faces) \in Nat /\ n \in Nat
  <2>1. n \in 0 .. Len(m.faces) /\ Len(m.faces) \in Nat
    BY FacesAreFunction
  <2>2. QED
    BY <2>1
<1>2. /\ r.size = n + 1 /\ r.num = m.num /\ r.text = m.text /\ r.unknown = m.unknown
      /\ r.faces = IF n < Len(m.faces) THEN m.faces ELSE Append(m.faces, NewBox)
  BY DEF FaceAdded, GoodResponse, GoodFields, Good, ResponseMembers, RequestMembers
<1>3. PICK S : m.faces \in Seq(S)
  BY DEF GoodResponse
<1>4. m.faces \in Seq(S \cup {NewBox})
  BY <1>3, SeqMonotonic
<1>5. GoodResponse(r)
  BY FaceAddedGood
<1>6. \A i \in 1 .. n : r.faces[i] = m.faces[i]
  <2> HIDE DEF r, n
  <2>1. NewBox \in S \cup {NewBox}
    OBVIOUS
  <2>2. \A i \in 1 .. Len(m.faces) : Append(m.faces, NewBox)[i] = m.faces[i]
    BY <1>4, <2>1, AppendProperties
  <2>3. \A i \in 1 .. n : i \in 1 .. Len(m.faces)
    BY <1>1
  <2>4. QED
    BY <1>2, <2>2, <2>3
<1>7. GoodBox(b) /\ Emptied(b)
  <2>1. CASE n < Len(m.faces)
    <3>1. n + 1 \in 1 .. Len(m.faces) /\ n + 1 > n
      BY <1>1, <2>1
    <3>2. b = m.faces[n + 1]
      BY <1>2, <2>1
    <3> HIDE DEF b
    <3>3. QED
      BY <3>1, <3>2 DEF GoodResponse
  <2>2. CASE ~ (n < Len(m.faces))
    <3>1. n = Len(m.faces) /\ r.faces = Append(m.faces, NewBox)
      BY <1>1, <1>2, <2>2
    <3>2. Append(m.faces, NewBox)[Len(m.faces) + 1] = NewBox
      BY <1>4, AppendProperties
    <3>3. b = NewBox
      BY <3>1, <3>2
    <3> HIDE DEF b
    <3>4. QED
      BY <3>3, NewBoxGood
  <2>3. QED
    BY <2>1, <2>2
<1>8. /\ b.num = NewBox.num /\ b.text = NewBox.text /\ b.unknown = NewBox.unknown
  <2> HIDE DEF b
  <2>1. /\ b.num = [f \in BoxBlock |-> 0] /\ b.text = [f \in {} |-> <<>>]
        /\ b.unknown = <<>>
    <3>1. /\ b.num \in [BoxBlock -> Int] /\ b.text \in [{} -> Seq(Byte)]
          /\ b.has = {} /\ b.unknown = <<>>
          /\ \A f \in BoxBlock : b.num[f] = 0
      BY <1>7 DEF GoodBox, Good, Typed, Consistent, Emptied
    <3>2. QED
      BY <3>1
  <2>2. QED
    BY <2>1 DEF NewBox
<1> HIDE DEF r
<1>9. QED
  BY <1>1, <1>2, <1>5, <1>6, <1>7, <1>8 DEF r

\* Entering a face of a response: the face before it has been read.
LEMMA FaceCompletes ==
  ASSUME NEW m, GoodResponse(m), NEW s \in Seq(Entries("DetectionResponse")), s # <<>>,
         NEW v \in Sendable("DetectionResponse"),
         Head(s).tag = FacesTag, ResponseCompletes(m, s, <<>>, v)
  PROVE  /\ Head(s).length = TotalBytes(Head(s).box)
         /\ ResponseCompletes(FaceAdded(m), Tail(s), Head(s).box, v)
<1> DEFINE E == Entries("DetectionResponse")
           e == Head(s)
           t == Tail(s)
           r == FaceAdded(m)
           n == m.size
           left == Len(v.faces) - n
<1>1. /\ Len(s) \in Nat /\ Len(s) > 0 /\ e = s[1] /\ e \in E
      /\ t \in Seq(E) /\ Len(t) = Len(s) - 1
      /\ \A i \in 1 .. Len(t) : t[i] = s[i + 1]
  BY HeadTailProperties
<1>2. /\ left \in 0 .. Len(s)
      /\ \A i \in 1 .. left :
           /\ s[i].tag = FacesTag
           /\ s[i].length = TotalBytes(s[i].box)
           /\ Completes(NewBox, s[i].box, v.faces[n + i], BoxTable)
      /\ \A i \in (left + 1) .. Len(s) : s[i].tag # FacesTag
      /\ Completes(m, SubSeq(s, left + 1, Len(s)), v, ResponseTable)
      /\ \A i \in 1 .. (n - 1) : Values(m.faces[i]) = v.faces[i]
      /\ n # 0 => Completes(m.faces[n], <<>>, v.faces[n], BoxTable)
  BY DEF ResponseCompletes
<1>3. /\ GoodResponse(r) /\ r.size = n + 1 /\ n \in Nat
      /\ r.num = m.num /\ r.text = m.text /\ r.unknown = m.unknown
      /\ \A i \in 1 .. n : r.faces[i] = m.faces[i]
      /\ r.faces[n + 1].num = NewBox.num /\ r.faces[n + 1].text = NewBox.text
      /\ r.faces[n + 1].unknown = NewBox.unknown
  BY FaceAddedElements
<1>4. Len(v.faces) \in Nat /\ v.faces \in Seq(Readable(BoxBlock, {}))
  BY DEF Sendable
<1> HIDE DEF e, t, r
<1> DEFINE k == left
<1>5. k \in 0 .. Len(s) /\ 1 \in 1 .. k
  <2> HIDE DEF left
  <2>1. k = 0 => 1 \in (k + 1) .. Len(s)
    BY <1>1
  <2>2. QED
    BY <1>1, <1>2, <2>1 DEF e
<1>6. /\ e.length = TotalBytes(e.box)
      /\ Completes(NewBox, e.box, v.faces[n + 1], BoxTable)
  <2> HIDE DEF left, n
  <2>1. QED
    BY <1>1, <1>2, <1>5
<1>7. Completes(r.faces[n + 1], e.box, v.faces[n + 1], BoxTable)
  <2> HIDE DEF n
  <2>1. QED
    BY <1>3, <1>6, CompletesSame
<1>8. \A i \in 1 .. n : Values(r.faces[i]) = v.faces[i]
  <2>1. n # 0 => Values(m.faces[n]) = v.faces[n]
    <3>1. SUFFICES ASSUME n # 0 PROVE Values(m.faces[n]) = v.faces[n]
      OBVIOUS
    <3>2. n \in 1 .. Len(v.faces)
      BY <1>2, <1>3, <1>4, <3>1
    <3>3. v.faces[n] \in Readable(BoxBlock, {})
      BY <1>4, <3>2
    <3>4. n \in 1 .. Len(m.faces)
      <4>1. n \in 0 .. Len(m.faces) /\ Len(m.faces) \in Nat
        BY FacesAreFunction
      <4> HIDE DEF n
      <4>2. QED
        BY <3>1, <4>1
    <3>5. Good(m.faces[n], BoxMembers, BoxBlock, {}, DOMAIN BoxTable)
      BY <3>4 DEF GoodResponse, GoodBox
    <3>6. Completes(m.faces[n], <<>>, v.faces[n], BoxTable)
      BY <1>2, <3>1
    <3> HIDE DEF n
    <3>7. QED
      BY <3>3, <3>5, <3>6, CompletesDone
  <2>2. \A i \in 1 .. n : i = n \/ i \in 1 .. (n - 1)
    BY <1>3
  <2> HIDE DEF n
  <2>3. ASSUME NEW i \in 1 .. n PROVE Values(r.faces[i]) = v.faces[i]
    <3>1. r.faces[i] = m.faces[i]
      BY <1>3
    <3>2. Values(m.faces[i]) = v.faces[i]
      BY <1>2, <2>1, <2>2
    <3>3. QED
      BY <3>1, <3>2
  <2>4. QED
    BY <2>3
<1>9. /\ Len(v.faces) - r.size = k - 1
      /\ k - 1 \in 0 .. Len(t)
      /\ \A i \in 1 .. (k - 1) : i + 1 \in 1 .. k /\ i \in 1 .. Len(t)
                                   /\ r.size + i = n + (i + 1)
  <2>1. r.size = n + 1 /\ n \in Nat /\ Len(v.faces) \in Nat /\ k = Len(v.faces) - n
    BY <1>3, <1>4
  <2> HIDE DEF left, n
  <2>2. QED
    BY <1>1, <1>5, <2>1
<1>10. \A i \in 1 .. (k - 1) :
         /\ t[i].tag = FacesTag
         /\ t[i].length = TotalBytes(t[i].box)
         /\ Completes(NewBox, t[i].box, v.faces[r.size + i], BoxTable)
  <2>1. SUFFICES ASSUME NEW i \in 1 .. (k - 1)
                 PROVE  /\ t[i].tag = FacesTag
                        /\ t[i].length = TotalBytes(t[i].box)
                        /\ Completes(NewBox, t[i].box, v.faces[r.size + i], BoxTable)
    OBVIOUS
  <2> DEFINE j == i + 1
  <2>2. j \in 1 .. k /\ t[i] = s[j] /\ r.size + i = n + j
    BY <1>1, <1>9
  <2> HIDE DEF left, n, j
  <2>3. QED
    BY <1>2, <2>2
<1>11. \A i \in ((k - 1) + 1) .. Len(t) : t[i].tag # FacesTag
  <2> HIDE DEF left, n
  <2>1. SUFFICES ASSUME NEW i \in ((k - 1) + 1) .. Len(t) PROVE t[i].tag # FacesTag
    OBVIOUS
  <2>2. i \in 1 .. Len(t) /\ i + 1 \in (k + 1) .. Len(s)
    BY <1>1, <1>5
  <2>3. t[i] = s[i + 1]
    BY <1>1, <2>2
  <2>4. QED
    BY <1>2, <2>2, <2>3
<1>12. SubSeq(t, (k - 1) + 1, Len(t)) = SubSeq(s, k + 1, Len(s))
  <2> HIDE DEF left, n, E
  <2> DEFINE u == SubSeq(s, k + 1, Len(s))
             w == SubSeq(t, (k - 1) + 1, Len(t))
  <2>1. /\ u \in Seq(E) /\ Len(u) = Len(s) - k
        /\ \A i \in 1 .. Len(s) - k : u[i] = s[k + i]
    BY <1>5, SuffixOf DEF E
  <2>2. /\ w \in Seq(E) /\ Len(w) = Len(t) - (k - 1)
        /\ \A i \in 1 .. Len(t) - (k - 1) : w[i] = t[(k - 1) + i]
    BY <1>1, <1>9, SuffixOf
  <2>3. Len(s) - k = Len(t) - (k - 1)
    BY <1>1, <1>5
  <2> HIDE DEF u, w
  <2>4. ASSUME NEW i \in 1 .. Len(u) PROVE u[i] = w[i]
    <3>1. (k - 1) + i \in 1 .. Len(t) /\ ((k - 1) + i) + 1 = k + i
      BY <1>1, <1>5, <2>1
    <3>2. t[(k - 1) + i] = s[k + i]
      BY <1>1, <3>1
    <3>3. QED
      BY <2>1, <2>2, <2>3, <3>2
  <2>5. u = w
    BY <2>1, <2>2, <2>3, <2>4, SeqEqual
  <2>6. QED
    BY <2>5 DEF u, w
<1>13. Completes(r, SubSeq(t, (k - 1) + 1, Len(t)), v, ResponseTable)
  <2> HIDE DEF left, n
  <2>1. Completes(m, SubSeq(t, (k - 1) + 1, Len(t)), v, ResponseTable)
    BY <1>2, <1>12
  <2>2. QED
    BY <1>3, <2>1, CompletesSame
<1>14. r.size - 1 = n /\ r.size # 0
  <2>1. r.size = n + 1 /\ n \in Nat
    BY <1>3
  <2> HIDE DEF left, n
  <2>2. QED
    BY <2>1
<1>15. ResponseCompletes(r, t, e.box, v)
  <2> HIDE DEF left, n
  <2>1. r.faces[r.size] = r.faces[n + 1] /\ v.faces[r.size] = v.faces[n + 1]
    BY <1>3
  <2>2. QED
    BY <1>7, <1>8, <1>9, <1>10, <1>11, <1>13, <1>14, <2>1 DEF ResponseCompletes
<1>16. QED
  BY <1>6, <1>15 DEF e, t, r

\* Reading a field of a face.
LEMMA PartCompletes ==
  ASSUME NEW m, GoodResponse(m), NEW s,
         NEW rest \in Seq(Entry), rest # <<>>,
         NEW v \in Sendable("DetectionResponse"), ResponseCompletes(m, s, rest, v)
  PROVE  ResponseCompletes(
           [m EXCEPT !.faces[m.size] = BoxRead(m.faces[m.size], Head(rest))],
           s, Tail(rest), v)
<1> DEFINE n == m.size
           b == BoxRead(m.faces[n], Head(rest))
           r == [m EXCEPT !.faces[m.size] = BoxRead(m.faces[m.size], Head(rest))]
           left == Len(v.faces) - n
           u == SubSeq(s, left + 1, Len(s))
<1>1. /\ left \in 0 .. Len(s)
      /\ \A i \in 1 .. left :
           /\ s[i].tag = FacesTag
           /\ s[i].length = TotalBytes(s[i].box)
           /\ Completes(NewBox, s[i].box, v.faces[n + i], BoxTable)
      /\ \A i \in (left + 1) .. Len(s) : s[i].tag # FacesTag
      /\ Completes(m, u, v, ResponseTable)
      /\ \A i \in 1 .. (n - 1) : Values(m.faces[i]) = v.faces[i]
      /\ n # 0 /\ Completes(m.faces[n], rest, v.faces[n], BoxTable)
  BY DEF ResponseCompletes
<1>2. /\ n \in 0 .. Len(m.faces) /\ Len(m.faces) \in Nat
      /\ DOMAIN m.faces = 1 .. Len(m.faces)
  BY FacesAreFunction
<1>3. n \in 1 .. Len(m.faces) /\ n \in Nat
  <2> HIDE DEF n
  <2>1. QED
    BY <1>1, <1>2
<1>4. Len(v.faces) \in Nat /\ v.faces \in Seq(Readable(BoxBlock, {}))
  BY DEF Sendable
<1>5. n \in 1 .. Len(v.faces)
  <2>1. left \in Int /\ left >= 0
    BY <1>1, <1>3, <1>4
  <2> DEFINE k == Len(v.faces)
  <2>2. k \in Nat /\ k - n >= 0
    BY <1>4, <2>1
  <2> HIDE DEF n, k
  <2>3. n \in 1 .. k
    BY <1>3, <2>2
  <2>4. QED
    BY <2>3 DEF k
<1>6. v.faces[n] \in Readable(BoxBlock, {})
  BY <1>4, <1>5
<1>7. Completes(b, Tail(rest), v.faces[n], BoxTable)
  <2> DEFINE f == m.faces[n]
             w == v.faces[n]
  <2>1. Good(f, BoxMembers, BoxBlock, {}, DOMAIN BoxTable)
    BY <1>3 DEF GoodResponse, GoodBox
  <2>2. DOMAIN w.num = BoxBlock /\ DOMAIN w.text = {}
    BY <1>6 DEF Readable
  <2>3. Wire(BoxTags, BoxTable, BoxBlock, {}, {"confidence"})
    BY Wires
  <2>4. Completes(f, rest, w, BoxTable)
    BY <1>1
  <2> HIDE DEF f, w
  <2>5. Completes(FieldRead(f, Head(rest), BoxTable), Tail(rest), w, BoxTable)
    BY <2>1, <2>2, <2>3, <2>4, ReadCompletes
  <2>6. QED
    BY <2>5 DEF BoxRead, f, w
<1>8. /\ r.size = n /\ r.num = m.num /\ r.text = m.text /\ r.unknown = m.unknown
      /\ r.faces = [m.faces EXCEPT ![n] = b]
  <2> DEFINE c == BoxRead(m.faces[m.size], Head(rest))
  <2>1. c = b
    OBVIOUS
  <2> HIDE DEF c, b
  <2>2. /\ [m EXCEPT !.faces[m.size] = c].size = n
        /\ [m EXCEPT !.faces[m.size] = c].num = m.num
        /\ [m EXCEPT !.faces[m.size] = c].text = m.text
        /\ [m EXCEPT !.faces[m.size] = c].unknown = m.unknown
        /\ [m EXCEPT !.faces[m.size] = c].faces = [m.faces EXCEPT ![n] = c]
    BY DEF GoodResponse, GoodFields, Good, ResponseMembers, RequestMembers
  <2>3. QED
    BY <2>1, <2>2 DEF c
<1> HIDE DEF b, r
<1>9. r.faces[n] = b
  BY <1>2, <1>3, <1>8
<1>10. \A i \in 1 .. (n - 1) : Values(r.faces[i]) = v.faces[i]
  <2> HIDE DEF n
  <2>1. SUFFICES ASSUME NEW i \in 1 .. (n - 1) PROVE Values(r.faces[i]) = v.faces[i]
    OBVIOUS
  <2>2. i \in DOMAIN m.faces /\ i # n
    BY <1>2, <1>3
  <2>3. r.faces[i] = m.faces[i]
    BY <1>8, <2>2
  <2>4. QED
    BY <1>1, <2>3
<1>11. Completes(r, u, v, ResponseTable)
  <2> HIDE DEF u, n
  <2>1. QED
    BY <1>1, <1>8, CompletesSame
<1>12. Len(v.faces) - r.size = left
  BY <1>8
<1>13. ResponseCompletes(r, s, Tail(rest), v)
  <2>1. r.size = n /\ n # 0 /\ Completes(r.faces[n], Tail(rest), v.faces[n], BoxTable)
    BY <1>1, <1>7, <1>8, <1>9
  <2> HIDE DEF n
  <2>2. QED
    BY <1>1, <1>10, <1>11, <1>12, <2>1 DEF ResponseCompletes
<1>14. QED
  BY <1>13 DEF r

\* A response that is completed without reading more is the one sent.
LEMMA ResponseDone ==
  ASSUME NEW m, GoodResponse(m), NEW v \in Sendable("DetectionResponse"),
         ResponseCompletes(m, <<>>, <<>>, v)
  PROVE  ResponseValues(m) = v
<1> DEFINE n == m.size
           left == Len(v.faces) - n
           w == [num |-> v.num, text |-> v.text, unknown |-> v.unknown]
<1>1. /\ left \in 0 .. Len(<<>>)
      /\ Completes(m, SubSeq(<<>>, left + 1, Len(<<>>)), v, ResponseTable)
      /\ \A i \in 1 .. (n - 1) : Values(m.faces[i]) = v.faces[i]
      /\ n # 0 => Completes(m.faces[n], <<>>, v.faces[n], BoxTable)
  BY DEF ResponseCompletes
<1>2. Len(<<>>) = 0 /\ 0 .. 0 = {0} /\ SubSeq(<<>>, 0 + 1, 0) = <<>>
  OBVIOUS
<1>3. /\ v.num \in [ResponseBlock -> Int] /\ v.text \in [{"frame_id"} -> Seq(Byte)]
      /\ v.unknown \in Seq(Entry) /\ v.faces \in Seq(Readable(BoxBlock, {}))
      /\ v = [num |-> v.num, text |-> v.text, unknown |-> v.unknown,
              faces |-> v.faces]
      /\ Len(v.faces) \in Nat
  BY DEF Sendable
<1>4. n \in 0 .. Len(m.faces) /\ Len(m.faces) \in Nat
  BY FacesAreFunction
<1>5. left = 0
  BY <1>1, <1>2
<1>6. n = Len(v.faces) /\ n \in Nat
  <2>1. Len(v.faces) - n = 0
    BY <1>5
  <2> HIDE DEF n
  <2>2. QED
    BY <1>3, <1>4, <2>1
<1>7. Completes(m, <<>>, v, ResponseTable)
  BY <1>1, <1>2, <1>5
<1>8. Values(m) = w
  <2>1. w.num = v.num /\ w.text = v.text /\ w.unknown = v.unknown
    OBVIOUS
  <2>2. w \in Readable(ResponseBlock, {"frame_id"})
    BY <1>3 DEF Readable
  <2> HIDE DEF w
  <2>3. Completes(m, <<>>, w, ResponseTable)
    BY <1>7, <2>1, CompletesSame
  <2>4. Good(m, ResponseMembers, ResponseBlock, {"frame_id"}, ResponseKnown)
    BY DEF GoodResponse, GoodFields
  <2>5. QED
    BY <2>2, <2>3, <2>4, CompletesDone
<1>9. ASSUME NEW i \in 1 .. n
      PROVE  Values(m.faces[i]) = v.faces[i]
  <2>1. CASE i = n
    <3>1. n # 0 /\ n \in 1 .. Len(m.faces) /\ n \in 1 .. Len(v.faces)
      <4> HIDE DEF n
      <4>1. QED
        BY <1>4, <1>6, <2>1
    <3>2. v.faces[n] \in Readable(BoxBlock, {})
      BY <1>3, <3>1
    <3>3. Good(m.faces[n], BoxMembers, BoxBlock, {}, DOMAIN BoxTable)
      BY <3>1 DEF GoodResponse, GoodBox
    <3>4. Completes(m.faces[n], <<>>, v.faces[n], BoxTable)
      BY <1>1, <3>1
    <3> HIDE DEF n
    <3>5. QED
      BY <2>1, <3>2, <3>3, <3>4, CompletesDone
  <2>2. CASE i # n
    <3> HIDE DEF n
    <3>1. i \in 1 .. (n - 1)
      BY <1>6, <2>2
    <3>2. QED
      BY <1>1, <3>1
  <2>3. QED
    BY <2>1, <2>2
<1>10. [i \in 1 .. n |-> Values(m.faces[i])] = v.faces
  <2> DEFINE f == [i \in 1 .. n |-> Values(m.faces[i])]
             g == v.faces
  <2>1. g = [i \in 1 .. n |-> g[i]]
    BY <1>3, <1>6
  <2>2. \A i \in 1 .. n : f[i] = g[i]
    BY <1>9
  <2> HIDE DEF g, n
  <2>3. f = g
    BY <2>1, <1>9 DEF g
  <2>4. QED
    BY <2>3 DEF g
<1>11. m.num = v.num /\ m.text = v.text /\ m.unknown = v.unknown
  BY <1>8 DEF Values
<1>12. QED
  BY <1>3, <1>10, <1>11 DEF ResponseValues

LEMMA ResponseSends ==
  ASSUME MessagesInv, NEW o \in Objects, NEW p \in Objects, SendResponse(o, p)
  PROVE  SentArrives'
<1> DEFINE m == ResponseSized(response[o])
           from == [response EXCEPT ![o] = m]
           c == ResponseCleared(from[p])
           v == ResponseValues(m)
<1>1. GoodResponse(response[o]) /\ GoodResponse(response[p]) /\ DOMAIN response = Objects
  BY DEF MessagesInv, ResponseInv
<1>2. GoodResponse(m)
  BY <1>1, ResponseSizedGood
<1>3. \A i \in 1 .. m.size : m.faces[i].cached = TotalBytes(BoxEntries(m.faces[i]))
  BY <1>1, ResponseSizeExact
<1>4. GoodResponse(from[p])
  <2> HIDE DEF m
  <2>1. from[p] \in {m, response[p]}
    BY <1>1
  <2> HIDE DEF from
  <2>2. QED
    BY <1>1, <1>2, <2>1
<1>5. /\ type = "DetectionResponse" /\ type' = type /\ part = <<>> /\ part' = part
      /\ response' = [from EXCEPT ![p] = c]
      /\ input' = ResponseEntries(m) /\ reader' = p /\ refused' = FALSE
      /\ sent' = <<v>>
  BY DEF SendResponse, ParseResponse, type, Idle
<1>6. response'[reader'] = c /\ sent'[1] = v
  <2> HIDE DEF c, m, v
  <2>1. DOMAIN from = Objects
    BY <1>1
  <2> HIDE DEF from
  <2>2. QED
    BY <1>5, <2>1
<1> HIDE DEF m, from
<1>7. GoodResponse(c) /\ c.size = 0 /\ c.has = {} /\ c.unknown = <<>>
  BY <1>4, ResponseClearedGood
<1> HIDE DEF c
<1>8. /\ ResponseCompletes(c, ResponseEntries(m), <<>>, v)
      /\ c.text["frame_id"] = <<>>
  BY <1>2, <1>3, <1>7, SentCompletes
<1> HIDE DEF v
<1>9. ResponseArrives'
  BY <1>5, <1>6, <1>8, MalformedAssumption DEF ResponseArrives
<1>10. QED
  BY <1>5, <1>9 DEF SentArrives

LEMMA ResponseReads ==
  ASSUME MessagesInv, SentArrives, sent # <<>>,
         ReadResponseField \/ EnterFace \/ ReadFaceField
  PROVE  SentArrives'
<1> DEFINE m == response[reader]
           v == sent[1]
<1>1. type = "DetectionResponse"
  <2>1. CASE ReadFaceField
    BY <2>1, ProgramsAssumption DEF ReadFaceField, MessagesInv, ParserInv, type
  <2>2. QED
    BY <2>1 DEF ReadResponseField, EnterFace
<1>2. ~ Idle
  BY DEF ReadResponseField, EnterFace, ReadFaceField, Idle
<1>3. /\ ~ refused /\ ResponseCompletes(m, input, part, v)
      /\ Clean(m, {"frame_id"})
  BY <1>1, <1>2 DEF SentArrives, ResponseArrives, Clean
<1>4. /\ reader \in Objects /\ GoodResponse(m) /\ DOMAIN response = Objects
      /\ v \in Sendable("DetectionResponse")
      /\ input \in Seq(Entries("DetectionResponse")) /\ part \in Seq(Entry)
  BY <1>1 DEF MessagesInv, ParserInv, ResponseInv
<1>5. CASE ReadResponseField
  <2> DEFINE e == Head(input)
             r == ResponseRead(m, e)
  <2>1. /\ response' = [response EXCEPT ![reader] = r]
        /\ input # <<>> /\ part = <<>> /\ e.tag # FacesTag
        /\ refused' = Unreadable(e, ResponseTable, {"frame_id"})
        /\ input' = IF refused' THEN <<>> ELSE Tail(input)
        /\ part' = part /\ reader' = reader /\ sent' = sent /\ type' = type
    BY <1>5 DEF ReadResponseField, type
  <2>2. response'[reader'] = r /\ sent'[1] = v
    <3> HIDE DEF r, v
    <3>1. QED
      BY <1>4, <2>1 DEF v
  <2> HIDE DEF m, v
  <2>3. ResponseCompletes(m, input, <<>>, v)
    BY <1>3, <2>1
  <2>4. /\ ResponseCompletes(r, Tail(input), <<>>, v)
        /\ IF Unreadable(e, ResponseTable, {"frame_id"})
           THEN ~ Clean(v, {"frame_id"})
           ELSE Clean(r, {"frame_id"})
    BY <1>3, <1>4, <2>1, <2>3, FieldCompletes
  <2> HIDE DEF r, e
  <2>5. ResponseArrives'
    BY <2>1, <2>2, <2>4 DEF ResponseArrives, Idle, Clean
  <2>6. QED
    BY <1>1, <2>1, <2>5 DEF SentArrives
<1>6. CASE EnterFace
  <2> DEFINE e == Head(input)
             r == FaceAdded(m)
  <2>1. /\ response' = [response EXCEPT ![reader] = r]
        /\ input # <<>> /\ part = <<>> /\ e.tag = FacesTag
        /\ refused' = (e.length # TotalBytes(e.box))
        /\ input' = IF refused' THEN <<>> ELSE Tail(input)
        /\ part' = IF refused' THEN <<>> ELSE e.box
        /\ reader' = reader /\ sent' = sent /\ type' = type
    BY <1>6 DEF EnterFace, type
  <2>2. response'[reader'] = r /\ sent'[1] = v
    <3> HIDE DEF r, v
    <3>1. QED
      BY <1>4, <2>1 DEF v
  <2>3. r.text = m.text
    BY <1>4 DEF FaceAdded, GoodResponse, GoodFields, Good, ResponseMembers, RequestMembers
  <2> HIDE DEF m, v
  <2>4. ResponseCompletes(m, input, <<>>, v)
    BY <1>3, <2>1
  <2>5. /\ e.length = TotalBytes(e.box)
        /\ ResponseCompletes(r, Tail(input), e.box, v)
    BY <1>4, <2>1, <2>4, FaceCompletes
  <2>6. Clean(r, {"frame_id"})
    BY <1>3, <2>3 DEF Clean
  <2> HIDE DEF r, e
  <2>7. ~ refused' /\ input' = Tail(input) /\ part' = e.box
    BY <2>1, <2>5
  <2>8. ResponseArrives'
    BY <2>2, <2>5, <2>6, <2>7 DEF ResponseArrives, Clean
  <2>9. QED
    BY <1>1, <2>1, <2>8 DEF SentArrives
<1>7. CASE ReadFaceField
  <2> DEFINE r == [m EXCEPT !.faces[m.size] = BoxRead(m.faces[m.size], Head(part))]
  <2>1. /\ response' = [response EXCEPT ![reader] = r]
        /\ part # <<>> /\ part' = Tail(part)
        /\ input' = input /\ refused' = refused
        /\ reader' = reader /\ sent' = sent /\ type' = type
    BY <1>7 DEF ReadFaceField, type
  <2>2. response'[reader'] = r /\ sent'[1] = v
    <3> HIDE DEF r, v
    <3>1. QED
      BY <1>4, <2>1 DEF v
  <2>3. r.text = m.text
    <3> DEFINE c == BoxRead(m.faces[m.size], Head(part))
    <3> HIDE DEF c
    <3>1. [m EXCEPT !.faces[m.size] = c].text = m.text
      BY <1>4 DEF GoodResponse, GoodFields, Good, ResponseMembers, RequestMembers
    <3>2. QED
      BY <3>1 DEF c
  <2> HIDE DEF m, v
  <2>4. ResponseCompletes(r, input, Tail(part), v)
    BY <1>3, <1>4, <2>1, PartCompletes
  <2>5. Clean(r, {"frame_id"})
    BY <1>3, <2>3 DEF Clean
  <2> HIDE DEF r
  <2>6. ResponseArrives'
    BY <1>3, <2>1, <2>2, <2>4, <2>5 DEF ResponseArrives, Clean
  <2>7. QED
    BY <1>1, <2>1, <2>6 DEF SentArrives
<1>8. QED
  BY <1>5, <1>6, <1>7

(***************************************************************************)
(* Every step keeps it.                                                    *)
(***************************************************************************)
LEMMA SentNext ==
  ASSUME MessagesInv, SentArrives, [Next]_vars
  PROVE  SentArrives'
<1>1. ASSUME NEW o \in Objects, RequestStep(o) \/ ResponseStep(o)
      PROVE  SentArrives'
  <2>1. CASE \/ UseRequestNumber(o) \/ UseFrameId(o) \/ UseCodec(o)
             \/ UseEncodedFrame(o) \/ RenewRequest(o) \/ ReceiveRequest(o)
             \/ \E p \in Objects : CombineRequests(o, p) \/ SwapRequests(o, p)
    <3>1. sent' = <<>>
      BY <2>1 DEF UseRequestNumber, UseFrameId, UseCodec, UseEncodedFrame,
           RenewRequest, CombineRequests, SwapRequests, RequestCall, Called,
           ReceiveRequest
    <3>2. QED
      BY <3>1 DEF SentArrives
  <2>2. CASE \/ UseFace(o) \/ CombineFaces(o) \/ UseFaces(o) \/ UseResponseField(o)
             \/ RenewResponse(o) \/ ReceiveResponse(o)
             \/ \E p \in Objects : CombineResponses(o, p) \/ SwapResponses(o, p)
    <3>1. sent' = <<>>
      BY <2>2 DEF UseFace, CombineFaces, UseFaces, UseResponseField,
           RenewResponse, CombineResponses, SwapResponses, ResponseCall, Called,
           ReceiveResponse
    <3>2. QED
      BY <3>1 DEF SentArrives
  <2>3. QED
    BY <1>1, <2>1, <2>2, RequestSends, ResponseSends DEF RequestStep, ResponseStep
<1>2. ASSUME ReadRequestField \/ ReadResponseField \/ EnterFace \/ ReadFaceField
      PROVE  SentArrives'
  <2>1. CASE sent = <<>>
    <3>1. sent' = <<>>
      BY <1>2, <2>1 DEF ReadRequestField, ReadResponseField, EnterFace, ReadFaceField
    <3>2. QED
      BY <3>1 DEF SentArrives
  <2>2. CASE sent # <<>>
    BY <1>2, <2>2, RequestReads, ResponseReads
  <2>3. QED
    BY <2>1, <2>2
<1>3. CASE UNCHANGED vars
  BY <1>3 DEF vars, SentArrives, RequestArrives, ResponseArrives, Idle, type
<1>4. QED
  BY <1>1, <1>2, <1>3 DEF Next

LEMMA SentArrived ==
  ASSUME MessagesInv, SentArrives
  PROVE  RoundTrip
<1> DEFINE v == sent[1]
<1>1. SUFFICES ASSUME sent # <<>>, Idle
               PROVE  /\ refused = (\E f \in DOMAIN v.text \ {"encoded_frame"} :
                                      v.text[f] \in Malformed)
                      /\ ~ refused =>
                           v = IF type = "FrameRequest"
                               THEN RequestValues(request[reader])
                               ELSE ResponseValues(response[reader])
  BY DEF RoundTrip
<1>2. /\ reader \in Objects /\ refused \in BOOLEAN /\ v \in Sendable(type)
      /\ type \in {"FrameRequest", "DetectionResponse"}
      /\ input = <<>> /\ part = <<>>
  BY <1>1, ProgramsAssumption DEF MessagesInv, ParserInv, Idle, type
<1>3. CASE type = "FrameRequest"
  <2> DEFINE m == request[reader]
  <2>1. /\ RequestArrives /\ v \in Readable(RequestBlock, RequestTexts)
        /\ Good(m, RequestMembers, RequestBlock, RequestTexts, DOMAIN RequestTable)
    BY <1>1, <1>2, <1>3
    DEF SentArrives, Sendable, MessagesInv, RequestInv, GoodRequest
  <2>2. DOMAIN v.text \ {"encoded_frame"} = RequestChecked
    BY <2>1, Fields DEF Readable, RequestChecked
  <2>3. CASE refused
    BY <1>2, <2>1, <2>2, <2>3 DEF RequestArrives
  <2>4. CASE ~ refused
    <3>1. /\ Completes(m, <<>>, v, RequestTable)
          /\ \A f \in RequestChecked : m.text[f] \notin Malformed
      BY <1>2, <2>1, <2>4 DEF RequestArrives
    <3> HIDE DEF m, v
    <3>2. Values(m) = v
      BY <2>1, <3>1, CompletesDone
    <3>3. m.text = v.text
      BY <3>2 DEF Values
    <3>4. ~ \E f \in DOMAIN v.text \ {"encoded_frame"} : v.text[f] \in Malformed
      BY <2>2, <3>1, <3>3
    <3>5. QED
      BY <1>2, <1>3, <2>4, <3>2, <3>4 DEF RequestValues, m, v
  <2>5. QED
    BY <2>3, <2>4
<1>4. CASE type # "FrameRequest"
  <2> DEFINE m == response[reader]
  <2>1. /\ ResponseArrives /\ v \in Sendable("DetectionResponse") /\ GoodResponse(m)
    BY <1>1, <1>2, <1>4 DEF SentArrives, MessagesInv, ResponseInv
  <2>2. DOMAIN v.text \ {"encoded_frame"} = {"frame_id"}
    BY <2>1 DEF Sendable
  <2>3. CASE refused
    BY <1>2, <2>1, <2>2, <2>3 DEF ResponseArrives
  <2>4. CASE ~ refused
    <3>1. ResponseCompletes(m, <<>>, <<>>, v) /\ m.text["frame_id"] \notin Malformed
      BY <1>2, <2>1, <2>4 DEF ResponseArrives
    <3> HIDE DEF m, v
    <3>2. ResponseValues(m) = v
      BY <2>1, <3>1, ResponseDone
    <3>3. m.text = v.text
      BY <3>2 DEF ResponseValues
    <3>4. ~ \E f \in DOMAIN v.text \ {"encoded_frame"} : v.text[f] \in Malformed
      BY <2>2, <3>1, <3>3
    <3>5. QED
      BY <1>2, <1>4, <2>4, <3>2, <3>4 DEF m, v
  <2>5. QED
    BY <2>3, <2>4
<1>5. QED
  BY <1>3, <1>4

(***************************************************************************)
(* RoundTrip holds: a message that is sent arrives with its values, its    *)
(* faces in their order and its unknown fields, whatever the object that   *)
(* parses it held before; only a string that is not UTF-8 is refused (the  *)
(* serializers and parsers of inference.pb.cc).                            *)
(***************************************************************************)
THEOREM MessagesArrive == Spec => []RoundTrip
<1>1. Init => SentArrives
  BY DEF Init, SentArrives
<1>2. MessagesInv /\ SentArrives /\ [Next]_vars => SentArrives'
  BY SentNext
<1>3. MessagesInv /\ SentArrives => RoundTrip
  BY SentArrived
<1>4. QED
  BY <1>1, <1>2, <1>3, MessagesInvariance, PTL DEF Spec
==============================================================================
