------------------------------ MODULE BrowserProofs -----------------------------
(***************************************************************************)
(* Proofs about the browser and the records that reach it, for any nodes   *)
(* whose data fit their fields, any servers and services, and any numbers  *)
(* of frames and broken connections.  First what packets are: what is      *)
(* written and reset is read again, integer by integer, field by field,    *)
(* end point by end point, and so a node's own data pass unchanged through *)
(* its replies and through a server's update.  Then the enumeration:       *)
(* EnumInv adds to the checked EnumerationCovers that ResolveCount counts  *)
(* the resolvers at work, each of a service reported, and that those the   *)
(* end of the enumeration waits for are among them.  Then what a byte      *)
(* stream carries: a channel holds a flight of whole packets, whatever is  *)
(* still queued, sent, read or half read.  Last BrowserInv: every session  *)
(* follows its server's providers, in the sense of SessionProofs; what is  *)
(* under way to a point is the updates and frames of that session; and the *)
(* point's records are the entries of the updates that were read.          *)
(***************************************************************************)
EXTENDS Browser, FoldProofs, SequenceTheorems

--------------------------------------------------------------------------------
(* Integers.                                                               *)

Widths == {1, 2, 4}

\* What is left of v in an integer of w bytes.
Cut(w, v) == v % 256^w

\* The bytes b of v, in w bytes.
AreBytes(b, w, v) ==
    /\ b \in Seq(Nat) /\ Len(b) = w
    /\ w = 1 => b[1] = v % 256
    /\ w = 2 => b[1] = (v \div 256) % 256 /\ b[2] = v % 256
    /\ w = 4 => /\ b[1] = (v \div 16777216) % 256 /\ b[2] = (v \div 65536) % 256
                /\ b[3] = (v \div 256) % 256 /\ b[4] = v % 256

LEMMA BytesOfInt ==
    ASSUME NEW w \in Widths, NEW v \in Nat
    PROVE  AreBytes(BigEndian(w, v), w, v)
  <1>1. 256^3 = 16777216 /\ 256^2 = 65536 /\ 256^1 = 256 /\ 256^0 = 1
    OBVIOUS
  <1>2. v \div 1 = v
    OBVIOUS
  <1>3. BigEndian(w, v) = [i \in 1..w |-> (v \div 256^(w - i)) % 256]
    BY DEF BigEndian
  <1>4. CASE w = 1
    BY <1>1, <1>2, <1>3, <1>4 DEF AreBytes
  <1>5. CASE w = 2
    BY <1>1, <1>2, <1>3, <1>5 DEF AreBytes
  <1>6. CASE w = 4
    <2> DEFINE b == BigEndian(w, v)
    <2>1. /\ b[1] = (v \div 16777216) % 256 /\ b[2] = (v \div 65536) % 256
          /\ b[3] = (v \div 256) % 256 /\ b[4] = v % 256
      BY <1>1, <1>2, <1>3, <1>6
    <2>2. /\ (v \div 16777216) % 256 \in Nat /\ (v \div 65536) % 256 \in Nat
          /\ (v \div 256) % 256 \in Nat /\ v % 256 \in Nat
      OBVIOUS
    <2>3. b = [i \in 1..4 |-> b[i]]
      BY <1>3, <1>6
    <2>. HIDE DEF b
    <2>4. \A i \in 1..4 : b[i] \in Nat
      BY <2>1, <2>2
    <2>5. b \in Seq(Nat) /\ Len(b) = 4
      BY <2>3, <2>4
    <2>. QED  BY <1>6, <2>1, <2>5 DEF b, AreBytes
  <1>. QED  BY <1>4, <1>5, <1>6 DEF Widths

\* The number that GetInt makes of bytes.
IntOf(bytes) == FoldLeft(LAMBDA v, byte : v * 256 + byte, 0, bytes)

IntScan(h, bytes) ==
    h = [s \in SUBSET (1..Len(bytes)) |->
            IF s = {} THEN 0 ELSE h[s \ {Max(s)}] * 256 + bytes[Max(s)]]

IsIntTrace(g, bytes) ==
    /\ g \in [0..Len(bytes) -> Nat] /\ g[0] = 0 /\ g[Len(bytes)] = IntOf(bytes)
    /\ \A k \in 1..Len(bytes) : g[k] = g[k - 1] * 256 + bytes[k]

LEMMA IntTrace ==
    ASSUME NEW bytes \in Seq(Nat)
    PROVE  \E g : IsIntTrace(g, bytes)
  <1> DEFINE n == Len(bytes)
             G == [x \in (1..n) \X Nat |-> x[2] * 256 + bytes[x[1]]]
             f == CHOOSE h : IntScan(h, bytes)
  <1>1. n \in Nat /\ DOMAIN bytes = 1..n /\ \A k \in 1..n : bytes[k] \in Nat
    BY LenProperties, ElementOfSeq
  <1>2. /\ G \in [(1..n) \X Nat -> Nat]
        /\ \A k \in 1..n, v \in Nat : G[<<k, v>>] = v * 256 + bytes[k]
    BY <1>1, SMTT(60)
  <1>3. IntOf(bytes) = f[1..n]
    BY <1>1 DEF IntOf, IntScan, FoldLeft, MapThenFoldSet
  <1>. HIDE DEF G, f
  <1>4. PICK h \in [SUBSET (1..n) -> Nat] : FoldsTo(h, n, 0, G)
    BY <1>1, <1>2, FoldIsDefined DEF IsFold
  <1>5. IntScan(h, bytes)
    <2>1. ASSUME NEW s \in SUBSET (1..n)
          PROVE  h[s] = IF s = {} THEN 0 ELSE h[s \ {Max(s)}] * 256 + bytes[Max(s)]
      <3>1. CASE s # {}
        <4>1. Max(s) \in 1..n /\ h[s \ {Max(s)}] \in Nat
          BY <1>1, <3>1, MaxOfPositions
        <4>. QED  BY <1>2, <1>4, <3>1, <4>1, ZenonT(60) DEF FoldsTo
      <3>. QED  BY <1>4, <3>1 DEF FoldsTo
    <2>2. h = [s \in SUBSET (1..n) |-> h[s]]
      OBVIOUS
    <2>. QED  BY <2>1, <2>2, ZenonT(60) DEF IntScan
  <1>6. IntScan(f, bytes)
    BY <1>5 DEF f
  <1>7. FoldsBy(f, n, Nat, 0, G)
    <2>1. f[{}] = 0
      BY <1>6 DEF IntScan
    <2>2. ASSUME NEW s \in SUBSET (1..n), s # {}, f[s \ {Max(s)}] \in Nat
          PROVE  f[s] = G[<<Max(s), f[s \ {Max(s)}]>>]
      <3>1. Max(s) \in 1..n
        BY <1>1, <2>2, MaxOfPositions
      <3>2. f[s] = f[s \ {Max(s)}] * 256 + bytes[Max(s)]
        BY <1>6, <2>2 DEF IntScan
      <3>. QED  BY <1>2, <2>2, <3>1, <3>2, ZenonT(60)
    <2>. QED  BY <2>1, <2>2 DEF FoldsBy
  <1>8. PICK g : FoldTrace(g, n, Nat, 0, G, f[1..n])
    BY <1>1, <1>2, <1>7, FoldPrefixes
  <1>9. IsIntTrace(g, bytes)
    BY <1>1, <1>2, <1>3, <1>8, ZenonT(60) DEF FoldTrace, IsIntTrace
  <1>. QED  BY <1>9

\* A number is read again as far as the width holds it.
LEMMA IntOfBytes ==
    /\ \A bytes \in Seq(Nat) : IntOf(bytes) \in Nat
    /\ \A w \in Widths, v \in Nat : IntOf(BigEndian(w, v)) = Cut(w, v)
  <1>1. ASSUME NEW bytes \in Seq(Nat) PROVE IntOf(bytes) \in Nat
    <2>1. PICK g : IsIntTrace(g, bytes)
      BY IntTrace
    <2>. QED  BY <2>1, LenProperties DEF IsIntTrace
  <1>2. ASSUME NEW w \in Widths, NEW v \in Nat PROVE IntOf(BigEndian(w, v)) = Cut(w, v)
    <2> DEFINE b == BigEndian(w, v)
    <2>1. AreBytes(b, w, v)
      BY BytesOfInt
    <2>. HIDE DEF b
    <2>2. PICK g : IsIntTrace(g, b)
      BY <2>1, IntTrace DEF AreBytes
    <2>3. 256^4 = 4294967296 /\ 256^2 = 65536 /\ 256^1 = 256
      OBVIOUS
    <2>4. CASE w = 1
      <3>1. g[1] = v % 256 /\ g[1] = IntOf(b)
        BY <2>1, <2>2, <2>4 DEF AreBytes, IsIntTrace
      <3>. QED  BY <2>3, <2>4, <3>1 DEF b, Cut
    <2>5. CASE w = 2
      <3>1. /\ g[1] = (v \div 256) % 256 /\ g[2] = g[1] * 256 + (v % 256)
            /\ g[2] = IntOf(b)
        BY <2>1, <2>2, <2>5 DEF AreBytes, IsIntTrace
      <3>2. ((v \div 256) % 256) * 256 + (v % 256) = v % 65536
        OBVIOUS
      <3>. QED  BY <2>3, <2>5, <3>1, <3>2 DEF b, Cut
    <2>6. CASE w = 4
      <3>1. /\ g[1] = (v \div 16777216) % 256
            /\ g[2] = g[1] * 256 + ((v \div 65536) % 256)
            /\ g[3] = g[2] * 256 + ((v \div 256) % 256)
            /\ g[4] = g[3] * 256 + (v % 256)
            /\ g[4] = IntOf(b)
        BY <2>1, <2>2, <2>6 DEF AreBytes, IsIntTrace
      <3>2. ((((v \div 16777216) % 256) * 256 + ((v \div 65536) % 256)) * 256
                + ((v \div 256) % 256)) * 256 + (v % 256) = v % 4294967296
        OBVIOUS
      <3>. QED  BY <2>3, <2>6, <3>1, <3>2 DEF b, Cut
    <2>. QED  BY <2>4, <2>5, <2>6 DEF Widths
  <1>. QED  BY <1>1, <1>2

--------------------------------------------------------------------------------
(* Layouts.                                                                *)

IsLayout(layout) ==
    /\ Len(layout) \in Nat /\ DOMAIN layout = 1..Len(layout)
    /\ \A k \in 1..Len(layout) : layout[k][2] \in Widths
    /\ \A j, k \in 1..Len(layout) : layout[j][1] = layout[k][1] => j = k

FieldValue(layout, rec, k) == IF layout[k][1] = "-" THEN 0 ELSE rec[layout[k][1]]

Fills(rec, layout) == \A k \in 1..Len(layout) : FieldValue(layout, rec, k) \in Nat

\* What SetFields sets.
FieldBytes(layout, rec) ==
    FoldLeft(LAMBDA bytes, f : bytes \o BigEndian(f[2], IF f[1] = "-" THEN 0 ELSE rec[f[1]]),
             <<>>, layout)

FieldScan(h, layout, rec) ==
    h = [s \in SUBSET (1..Len(layout)) |->
            IF s = {} THEN <<>>
            ELSE h[s \ {Max(s)}] \o BigEndian(layout[Max(s)][2], FieldValue(layout, rec, Max(s)))]

IsFieldTrace(g, layout, rec) ==
    /\ g \in [0..Len(layout) -> Seq(Nat)]
    /\ g[0] = <<>> /\ g[Len(layout)] = FieldBytes(layout, rec)
    /\ \A k \in 1..Len(layout) :
          g[k] = g[k - 1] \o BigEndian(layout[k][2], FieldValue(layout, rec, k))

LEMMA FieldTrace ==
    ASSUME NEW layout, IsLayout(layout), NEW rec, Fills(rec, layout)
    PROVE  \E g : IsFieldTrace(g, layout, rec)
  <1> DEFINE n == Len(layout)
             B == Seq(Nat)
             Bytes(k) == BigEndian(layout[k][2], FieldValue(layout, rec, k))
             G == [x \in (1..n) \X B |-> x[2] \o Bytes(x[1])]
             f == CHOOSE h : FieldScan(h, layout, rec)
  <1>1. n \in Nat /\ DOMAIN layout = 1..n /\ <<>> \in B
    BY DEF IsLayout
  <1>2. \A k \in 1..n : Bytes(k) \in B
    BY BytesOfInt DEF IsLayout, Fills, AreBytes
  <1>3. FieldBytes(layout, rec) = f[1..n]
    BY <1>1 DEF FieldBytes, FieldValue, FieldScan, FoldLeft, MapThenFoldSet
  <1>. HIDE DEF f, Bytes
  <1>4. /\ G \in [(1..n) \X B -> B]
        /\ \A k \in 1..n, v \in B : G[<<k, v>>] = v \o Bytes(k)
    <2>1. \A k \in 1..n, v \in B : v \o Bytes(k) \in B
      BY <1>2, ConcatProperties
    <2>. HIDE DEF B
    <2>. QED  BY <2>1
  <1>. HIDE DEF G, B
  <1>5. PICK h \in [SUBSET (1..n) -> B] : FoldsTo(h, n, <<>>, G)
    BY <1>1, <1>4, FoldIsDefined DEF IsFold
  <1>6. FieldScan(h, layout, rec)
    <2>1. ASSUME NEW s \in SUBSET (1..n)
          PROVE  h[s] = IF s = {} THEN <<>> ELSE h[s \ {Max(s)}] \o Bytes(Max(s))
      <3>1. CASE s # {}
        <4>1. Max(s) \in 1..n /\ h[s \ {Max(s)}] \in B
          BY <1>1, <3>1, MaxOfPositions
        <4>. QED  BY <1>4, <1>5, <3>1, <4>1 DEF FoldsTo
      <3>. QED  BY <1>5, <3>1 DEF FoldsTo
    <2>2. h = [s \in SUBSET (1..n) |-> h[s]]
      OBVIOUS
    <2>. QED  BY <2>1, <2>2 DEF FieldScan, Bytes
  <1>7. FieldScan(f, layout, rec)
    BY <1>6 DEF f
  <1>8. FoldsBy(f, n, B, <<>>, G)
    <2>1. f[{}] = <<>>
      BY <1>7 DEF FieldScan
    <2>2. ASSUME NEW s \in SUBSET (1..n), s # {}, f[s \ {Max(s)}] \in B
          PROVE  f[s] = G[<<Max(s), f[s \ {Max(s)}]>>]
      <3>1. Max(s) \in 1..n
        BY <1>1, <2>2, MaxOfPositions
      <3>2. f[s] = f[s \ {Max(s)}] \o Bytes(Max(s))
        BY <1>7, <2>2 DEF FieldScan, Bytes
      <3>. QED  BY <1>4, <2>2, <3>1, <3>2
    <2>. QED  BY <2>1, <2>2 DEF FoldsBy
  <1>9. PICK g : FoldTrace(g, n, B, <<>>, G, f[1..n])
    BY <1>1, <1>4, <1>8, FoldPrefixes
  <1>10. IsFieldTrace(g, layout, rec)
    BY <1>1, <1>3, <1>4, <1>9 DEF FoldTrace, IsFieldTrace, Bytes, B
  <1>. QED  BY <1>10

WidthScan(h, layout) ==
    h = [s \in SUBSET (1..Len(layout)) |->
            IF s = {} THEN 0 ELSE h[s \ {Max(s)}] + layout[Max(s)][2]]

IsWidthTrace(g, layout) ==
    /\ g \in [0..Len(layout) -> Nat] /\ g[0] = 0 /\ g[Len(layout)] = Width(layout)
    /\ \A k \in 1..Len(layout) : g[k] = g[k - 1] + layout[k][2]

LEMMA WidthTrace ==
    ASSUME NEW layout, IsLayout(layout)
    PROVE  \E g : IsWidthTrace(g, layout)
  <1> DEFINE n == Len(layout)
             G == [x \in (1..n) \X Nat |-> x[2] + layout[x[1]][2]]
             f == CHOOSE h : WidthScan(h, layout)
  <1>1. n \in Nat /\ DOMAIN layout = 1..n /\ \A k \in 1..n : layout[k][2] \in Nat
    BY DEF IsLayout, Widths
  <1>2. /\ G \in [(1..n) \X Nat -> Nat]
        /\ \A k \in 1..n, v \in Nat : G[<<k, v>>] = v + layout[k][2]
    BY <1>1
  <1>3. Width(layout) = f[1..n]
    BY <1>1 DEF Width, WidthScan, FoldLeft, MapThenFoldSet
  <1>. HIDE DEF G, f
  <1>4. PICK h \in [SUBSET (1..n) -> Nat] : FoldsTo(h, n, 0, G)
    BY <1>1, <1>2, FoldIsDefined DEF IsFold
  <1>5. WidthScan(h, layout)
    <2>1. ASSUME NEW s \in SUBSET (1..n)
          PROVE  h[s] = IF s = {} THEN 0 ELSE h[s \ {Max(s)}] + layout[Max(s)][2]
      <3>1. CASE s # {}
        <4>1. Max(s) \in 1..n /\ h[s \ {Max(s)}] \in Nat
          BY <1>1, <3>1, MaxOfPositions
        <4>. QED  BY <1>2, <1>4, <3>1, <4>1 DEF FoldsTo
      <3>. QED  BY <1>4, <3>1 DEF FoldsTo
    <2>2. h = [s \in SUBSET (1..n) |-> h[s]]
      OBVIOUS
    <2>. QED  BY <2>1, <2>2 DEF WidthScan
  <1>6. WidthScan(f, layout)
    BY <1>5 DEF f
  <1>7. FoldsBy(f, n, Nat, 0, G)
    <2>1. f[{}] = 0
      BY <1>6 DEF WidthScan
    <2>2. ASSUME NEW s \in SUBSET (1..n), s # {}, f[s \ {Max(s)}] \in Nat
          PROVE  f[s] = G[<<Max(s), f[s \ {Max(s)}]>>]
      <3>1. Max(s) \in 1..n
        BY <1>1, <2>2, MaxOfPositions
      <3>2. f[s] = f[s \ {Max(s)}] + layout[Max(s)][2]
        BY <1>6, <2>2 DEF WidthScan
      <3>. QED  BY <1>2, <2>2, <3>1, <3>2
    <2>. QED  BY <2>1, <2>2 DEF FoldsBy
  <1>8. PICK g : FoldTrace(g, n, Nat, 0, G, f[1..n])
    BY <1>1, <1>2, <1>7, FoldPrefixes
  <1>9. IsWidthTrace(g, layout)
    BY <1>1, <1>2, <1>3, <1>8 DEF FoldTrace, IsWidthTrace
  <1>. QED  BY <1>9

\* The beginning of a layout is as wide as its bytes are many.
LEMMA PrefixWidth ==
    ASSUME NEW layout, IsLayout(layout), NEW rec, Fills(rec, layout),
           NEW g, IsFieldTrace(g, layout, rec), NEW j \in 0..Len(layout),
           NEW L, Len(L) = j, DOMAIN L = 1..j, \A k \in 1..j : L[k] = layout[k]
    PROVE  Width(L) = Len(g[j])
  <1> DEFINE n == Len(layout)
  <1>1. n \in Nat /\ j \in Nat /\ j <= n
    BY DEF IsLayout
  <1>2. Len(L) = j /\ DOMAIN L = 1..j /\ \A k \in 1..j : L[k] = layout[k]
    OBVIOUS
  <1>3. IsLayout(L)
    BY <1>1, <1>2 DEF IsLayout
  <1>4. PICK h : IsWidthTrace(h, L)
    BY <1>3, WidthTrace
  <1> DEFINE S == {k \in Nat : k <= j => h[k] = Len(g[k])}
  <1>5. 0 \in S
    BY <1>4 DEF IsWidthTrace, IsFieldTrace
  <1>6. ASSUME NEW k \in Nat, k \in S PROVE k + 1 \in S
    <2> SUFFICES ASSUME k + 1 <= j PROVE h[k + 1] = Len(g[k + 1])
      OBVIOUS
    <2> DEFINE w == layout[k + 1][2]
               b == BigEndian(w, FieldValue(layout, rec, k + 1))
    <2>1. k + 1 \in 1..j /\ k + 1 \in 1..n /\ k \in 0..n /\ (k + 1) - 1 = k
      BY <1>1
    <2>2. h[k + 1] = h[k] + w
      BY <1>2, <1>4, <2>1 DEF IsWidthTrace
    <2>3. w \in Widths /\ FieldValue(layout, rec, k + 1) \in Nat
      BY <2>1 DEF IsLayout, Fills
    <2>4. b \in Seq(Nat) /\ Len(b) = w
      BY <2>3, BytesOfInt DEF AreBytes
    <2>5. g[k + 1] = g[k] \o b /\ g[k] \in Seq(Nat)
      BY <2>1 DEF IsFieldTrace
    <2>6. Len(g[k + 1]) = Len(g[k]) + w
      <3>. HIDE DEF b, w
      <3>. QED  BY <2>4, <2>5, ConcatProperties, ZenonT(60)
    <2>7. h[k] = Len(g[k])
      BY <1>1, <1>6
    <2>. QED  BY <2>2, <2>6, <2>7
  <1>7. S = Nat
    <2>. HIDE DEF S
    <2>1. S \in SUBSET Nat
      BY DEF S
    <2>. QED  BY <1>5, <1>6, <2>1, Induction
  <1>8. h[j] = Len(g[j])
    BY <1>1, <1>7
  <1>. QED  BY <1>2, <1>4, <1>8 DEF IsWidthTrace

\* The offset of a field is the number of the bytes before it.
LEMMA WidthsAreLengths ==
    ASSUME NEW layout, IsLayout(layout), NEW rec, Fills(rec, layout),
           NEW g, IsFieldTrace(g, layout, rec)
    PROVE  /\ \A j \in 0..Len(layout) : Width(SubSeq(layout, 1, j)) = Len(g[j])
           /\ Width(layout) = Len(g[Len(layout)])
  <1>1. Len(layout) \in Nat /\ DOMAIN layout = 1..Len(layout)
    BY DEF IsLayout
  <1>2. ASSUME NEW j \in 0..Len(layout) PROVE Width(SubSeq(layout, 1, j)) = Len(g[j])
    <2> DEFINE L == SubSeq(layout, 1, j)
               S == {layout[i] : i \in 1..Len(layout)}
    <2>1. \A k \in 1..j : layout[k] \in S
      BY <1>1
    <2>2. L \in Seq(S) /\ Len(L) = j /\ \A k \in 1..j : L[k] = layout[k]
      BY <1>1, <2>1, SubSeqProperties
    <2>3. DOMAIN L = 1..j
      BY <2>2, LenProperties
    <2>. HIDE DEF L
    <2>4. Width(L) = Len(g[j])
      BY <2>2, <2>3, PrefixWidth
    <2>. QED  BY <2>4 DEF L
  <1>3. Width(layout) = Len(g[Len(layout)])
    BY <1>1, PrefixWidth
  <1>. QED  BY <1>2, <1>3

\* The bytes of a field, between those before and those after it.
Around(c, a, b) == \E t \in Seq(Nat) : c = a \o (b \o t)

LEMMA Assoc ==
    ASSUME NEW a \in Seq(Nat), NEW b \in Seq(Nat), NEW c \in Seq(Nat)
    PROVE  (a \o b) \o c = a \o (b \o c)
  BY ConcatAssociative, SMTT(60)

LEMMA Joins ==
    ASSUME NEW a \in Seq(Nat), NEW b \in Seq(Nat)
    PROVE  a \o b \in Seq(Nat) /\ Len(a \o b) = Len(a) + Len(b)
  BY ConcatProperties

Grouped(a, b, c, d) == (a \o (b \o c)) \o d = a \o (b \o (c \o d))

LEMMA Assoc4 ==
    ASSUME NEW a \in Seq(Nat), NEW b \in Seq(Nat), NEW c \in Seq(Nat), NEW d \in Seq(Nat)
    PROVE  Grouped(a, b, c, d)
  <1>1. b \o c \in Seq(Nat)
    BY Joins
  <1>2. (a \o (b \o c)) \o d = a \o ((b \o c) \o d)
    BY <1>1, Assoc, ZenonT(60)
  <1>3. (b \o c) \o d = b \o (c \o d)
    BY Assoc, ZenonT(60)
  <1>. QED  BY <1>2, <1>3 DEF Grouped

LEMMA AroundGrows ==
    ASSUME NEW a \in Seq(Nat), NEW b \in Seq(Nat), NEW c, Around(c, a, b), NEW x \in Seq(Nat)
    PROVE  Around(c \o x, a, b)
  <1>1. PICK t \in Seq(Nat) : c = a \o (b \o t)
    BY DEF Around
  <1>2. (a \o (b \o t)) \o x = a \o (b \o (t \o x)) /\ t \o x \in Seq(Nat)
    <2>1. Grouped(a, b, t, x)
      BY Assoc4
    <2>2. t \o x \in Seq(Nat)
      BY Joins
    <2>. QED  BY <2>1, <2>2 DEF Grouped
  <1>. QED  BY <1>1, <1>2 DEF Around

\* Bytes that grow piece by piece.
Grows(g, x, n) ==
    /\ n \in Nat /\ \A k \in 0..n : g[k] \in Seq(Nat)
    /\ \A k \in 1..n : x[k] \in Seq(Nat) /\ g[k] = g[k - 1] \o x[k]

LEMMA GrowsAround ==
    ASSUME NEW g, NEW x, NEW n, Grows(g, x, n), NEW k \in 1..n
    PROVE  Around(g[n], g[k - 1], x[k])
  <1> DEFINE a == g[k - 1]
             b == x[k]
             S == {i \in Nat : k + i <= n => Around(g[k + i], a, b)}
  <1>1. n \in Nat /\ k \in Nat /\ k <= n /\ k - 1 \in 0..n
    BY DEF Grows
  <1>2. ASSUME NEW i \in 1..n
        PROVE  x[i] \in Seq(Nat) /\ g[i] \in Seq(Nat) /\ g[i] = g[i - 1] \o x[i]
    <2>1. i \in 0..n
      BY <1>1
    <2>. QED  BY <2>1 DEF Grows
  <1>3. a \in Seq(Nat) /\ b \in Seq(Nat)
    BY <1>1, <1>2 DEF Grows
  <1>4. 0 \in S
    <2>1. b \o <<>> = b /\ <<>> \in Seq(Nat)
      BY <1>3, ConcatEmptySeq
    <2>2. g[k] = a \o (b \o <<>>) /\ k + 0 = k
      <3>1. g[k] = a \o b
        BY <1>2
      <3>. HIDE DEF a, b
      <3>. QED  BY <1>1, <2>1, <3>1
    <2>3. Around(g[k + 0], a, b)
      BY <2>1, <2>2 DEF Around
    <2>. HIDE DEF a, b
    <2>. QED  BY <2>3
  <1>5. ASSUME NEW i \in Nat, i \in S PROVE i + 1 \in S
    <2>1. ASSUME k + (i + 1) <= n PROVE Around(g[k + (i + 1)], a, b)
      <3> DEFINE j == k + (i + 1)
      <3>1. j \in 1..n /\ j - 1 = k + i /\ k + i <= n
        BY <1>1, <2>1
      <3>2. Around(g[j - 1], a, b)
        BY <1>5, <3>1
      <3>3. g[j] = g[j - 1] \o x[j] /\ x[j] \in Seq(Nat)
        BY <1>2, <3>1
      <3>. HIDE DEF j, a, b
      <3>4. Around(g[j], a, b)
        BY <1>3, <3>2, <3>3, AroundGrows
      <3>. QED  BY <3>4 DEF j
    <2>. HIDE DEF a, b
    <2>. QED  BY <2>1
  <1>6. S = Nat
    <2>. HIDE DEF S
    <2>1. S \in SUBSET Nat
      BY DEF S
    <2>. QED  BY <1>4, <1>5, <2>1, Induction
  <1>7. n - k \in Nat /\ k + (n - k) = n
    BY <1>1
  <1>8. n - k \in S
    <2>. HIDE DEF S
    <2>. QED  BY <1>6, <1>7
  <1>9. k + (n - k) <= n => Around(g[k + (n - k)], a, b)
    <2>. HIDE DEF a, b
    <2>. QED  BY <1>8
  <1>. HIDE DEF a, b
  <1>10. Around(g[n], a, b)
    BY <1>1, <1>7, <1>9
  <1>. QED  BY <1>10 DEF a, b

LEMMA FieldsAround ==
    ASSUME NEW layout, IsLayout(layout), NEW rec, Fills(rec, layout),
           NEW g, IsFieldTrace(g, layout, rec), NEW k \in 1..Len(layout)
    PROVE  Around(FieldBytes(layout, rec), g[k - 1],
                  BigEndian(layout[k][2], FieldValue(layout, rec, k)))
  <1> DEFINE n == Len(layout)
             x == [i \in 1..n |-> BigEndian(layout[i][2], FieldValue(layout, rec, i))]
  <1>1. ASSUME NEW i \in 1..n PROVE x[i] \in Seq(Nat) /\ g[i] = g[i - 1] \o x[i]
    <2>1. layout[i][2] \in Widths /\ FieldValue(layout, rec, i) \in Nat
      BY DEF IsLayout, Fills
    <2>2. BigEndian(layout[i][2], FieldValue(layout, rec, i)) \in Seq(Nat)
      BY <2>1, BytesOfInt DEF AreBytes
    <2>. QED  BY <2>2 DEF IsFieldTrace
  <1>2. x[k] = BigEndian(layout[k][2], FieldValue(layout, rec, k))
    OBVIOUS
  <1>. HIDE DEF x
  <1>3. Grows(g, x, n)
    BY <1>1 DEF Grows, IsFieldTrace, IsLayout
  <1>4. Around(g[n], g[k - 1], x[k])
    BY <1>3, GrowsAround
  <1>. QED  BY <1>2, <1>4 DEF IsFieldTrace

--------------------------------------------------------------------------------
(* Packets.                                                                *)

IsPacket(p) == p \in [data : Seq(Nat), off : Nat, cap : Nat]

LEMMA RoundsUp ==
    ASSUME NEW n \in Nat
    PROVE  RoundedUp(n) \in Nat /\ n <= RoundedUp(n)
  <1>1. BlockSize \in Nat \ {0}
    BY RecordAssumption
  <1>2. n \div BlockSize \in Nat /\ n % BlockSize \in 0..(BlockSize - 1)
    BY <1>1
  <1>3. n = BlockSize * (n \div BlockSize) + (n % BlockSize)
    BY <1>1
  <1>4. PICK q, r : q = n \div BlockSize /\ r = n % BlockSize
    OBVIOUS
  <1>5. q * BlockSize = BlockSize * q /\ q * BlockSize \in Nat
    BY <1>1, <1>2, <1>4
  <1>. QED  BY <1>1, <1>2, <1>3, <1>4, <1>5 DEF RoundedUp

\* The data after zeros were added up to a length.
LEMMA ExtendedData ==
    ASSUME NEW data \in Seq(Nat), NEW n \in Nat
    PROVE  /\ Extended(data, n) \in Seq(Nat)
           /\ Len(Extended(data, n)) = IF n <= Len(data) THEN Len(data) ELSE n
           /\ \A i \in 1..Len(data) : Extended(data, n)[i] = data[i]
  <1>1. Len(data) \in Nat
    BY LenProperties
  <1>2. CASE n <= Len(data)
    BY <1>1, <1>2 DEF Extended
  <1>3. CASE ~(n <= Len(data))
    <2> DEFINE z == [i \in 1..(n - Len(data)) |-> 0]
    <2>1. z \in Seq(Nat) /\ Len(z) = n - Len(data)
      BY <1>1, <1>3
    <2>2. Extended(data, n) = data \o z
      BY <1>3 DEF Extended
    <2>. HIDE DEF z
    <2>3. /\ data \o z \in Seq(Nat) /\ Len(data \o z) = Len(data) + Len(z)
          /\ \A i \in 1..(Len(data) + Len(z)) :
                (data \o z)[i] = IF i <= Len(data) THEN data[i] ELSE z[i - Len(data)]
      BY <2>1, ConcatProperties
    <2>. QED  BY <1>1, <1>3, <2>1, <2>2, <2>3
  <1>. QED  BY <1>2, <1>3

\* A packet that was only appended to: its bytes, all within the buffer.
Written(p, bytes) ==
    /\ IsPacket(p) /\ bytes \in Seq(Nat)
    /\ p.data = bytes /\ p.off = Len(bytes) /\ Len(bytes) <= p.cap

LEMMA NothingWritten == Written(NewPacket, <<>>)
  BY DEF Written, IsPacket, NewPacket

LEMMA WriteBytes ==
    ASSUME NEW p, NEW a, Written(p, a), NEW b \in Seq(Nat)
    PROVE  Written(SetBytes(p, b), a \o b)
  <1> DEFINE end == Len(a) + Len(b)
             q == GetBuffer(p, end)
  <1>1. /\ a \in Seq(Nat) /\ Len(a) \in Nat /\ Len(b) \in Nat /\ end \in Nat
        /\ p.data = a /\ p.off = Len(a) /\ p.cap \in Nat
        /\ p \in [data : Seq(Nat), off : Nat, cap : Nat]
    BY LenProperties DEF Written, IsPacket
  <1>2. q.data = a /\ q.cap \in Nat /\ end <= q.cap
        /\ q \in [data : Seq(Nat), off : Nat, cap : Nat]
    BY <1>1, RoundsUp DEF GetBuffer
  <1> DEFINE d == SubSeq(Extended(a, Len(a)), 1, Len(a)) \o b
                  \o SubSeq(a, end + 1, Len(a))
  <1>3. d = a \o b
    <2>1. Extended(a, Len(a)) = a
      BY <1>1 DEF Extended
    <2>2. SubSeq(a, 1, Len(a)) = a
      BY <1>1, SubSeqFull
    <2>3. SubSeq(a, end + 1, Len(a)) = <<>>
      BY <1>1, SubSeqEmpty
    <2>4. a \o b \in Seq(Nat)
      BY <1>1, ConcatProperties
    <2>. QED  BY <2>1, <2>2, <2>3, <2>4, ConcatEmptySeq
  <1>4. SetBytes(p, b) = [q EXCEPT !.off = end, !.data = d]
    BY <1>1, <1>2 DEF SetBytes
  <1>5. a \o b \in Seq(Nat) /\ Len(a \o b) = end
    BY <1>1, ConcatProperties
  <1>. HIDE DEF q, d, end
  <1>. QED  BY <1>1, <1>2, <1>3, <1>4, <1>5 DEF Written, IsPacket

LEMMA WriteInt ==
    ASSUME NEW p, NEW a, Written(p, a), NEW w \in Widths, NEW v \in Nat
    PROVE  Written(SetInt(p, w, v), a \o BigEndian(w, v))
  <1>1. BigEndian(w, v) \in Seq(Nat)
    BY BytesOfInt DEF AreBytes
  <1>. QED  BY <1>1, WriteBytes DEF SetInt

LEMMA FieldBytesAreBytes ==
    ASSUME NEW layout, IsLayout(layout), NEW rec, Fills(rec, layout)
    PROVE  FieldBytes(layout, rec) \in Seq(Nat) /\ Len(FieldBytes(layout, rec)) = Width(layout)
  <1>1. PICK g : IsFieldTrace(g, layout, rec)
    BY FieldTrace
  <1>2. Width(layout) = Len(g[Len(layout)])
    BY <1>1, WidthsAreLengths
  <1>3. Len(layout) \in 0..Len(layout)
    BY DEF IsLayout
  <1>. QED  BY <1>1, <1>2, <1>3 DEF IsFieldTrace

LEMMA WriteFields ==
    ASSUME NEW p, NEW a, Written(p, a), NEW layout, IsLayout(layout), NEW rec, Fills(rec, layout)
    PROVE  Written(SetFields(p, layout, rec), a \o FieldBytes(layout, rec))
  <1>1. SetFields(p, layout, rec) = SetBytes(p, FieldBytes(layout, rec))
    BY DEF SetFields, FieldBytes
  <1>. QED  BY <1>1, FieldBytesAreBytes, WriteBytes

\* What is left to read of a packet.
Readable(p, s) ==
    /\ IsPacket(p) /\ s \in Seq(Nat)
    /\ Len(p.data) = p.off + Len(s)
    /\ \A i \in 1..Len(s) : p.data[p.off + i] = s[i]

LEMMA ResetReads ==
    ASSUME NEW p, NEW s, Written(p, s)
    PROVE  Readable(Reset(p), s)
  <1>1. Len(s) \in Nat /\ s \in Seq(Nat) /\ p \in [data : Seq(Nat), off : Nat, cap : Nat] /\ p.data = s
    BY LenProperties DEF Written, IsPacket
  <1> DEFINE q == Reset(p)
  <1>2. q \in [data : Seq(Nat), off : Nat, cap : Nat] /\ q.data = s /\ q.off = 0
    BY <1>1 DEF Reset
  <1>. HIDE DEF q
  <1>3. \A i \in 1..Len(s) : 0 + i = i
    BY <1>1
  <1>. QED  BY <1>1, <1>2, <1>3 DEF Readable, IsPacket, q

LEMMA Slice ==
    ASSUME NEW d \in Seq(Nat), NEW o \in Nat, NEW n \in Nat, o + n <= Len(d)
    PROVE  /\ SubSeq(d, o + 1, o + n) \in Seq(Nat) /\ Len(SubSeq(d, o + 1, o + n)) = n
           /\ \A i \in 1..n : SubSeq(d, o + 1, o + n)[i] = d[o + i]
  <1>1. PICK j, k : j = o + 1 /\ k = o + n
    OBVIOUS
  <1>2. j \in Int /\ k \in Int /\ k - j + 1 = n /\ (j <= k <=> n > 0)
    BY <1>1
  <1>3. \A i \in j..k : d[i] \in Nat
    BY <1>1, LenProperties
  <1>4. /\ SubSeq(d, j, k) \in Seq(Nat)
        /\ Len(SubSeq(d, j, k)) = IF j <= k THEN k - j + 1 ELSE 0
        /\ \A i \in 1..(k - j + 1) : SubSeq(d, j, k)[i] = d[j + i - 1]
    BY <1>2, <1>3, SubSeqProperties, SMTT(60)
  <1>5. Len(SubSeq(d, j, k)) = n
    BY <1>2, <1>4
  <1>6. ASSUME NEW i \in 1..n PROVE SubSeq(d, j, k)[i] = d[o + i]
    <2>1. j + i - 1 = o + i /\ i \in 1..(k - j + 1)
      BY <1>1, <1>2
    <2>. QED  BY <1>4, <2>1
  <1>. QED  BY <1>1, <1>4, <1>5, <1>6

LEMMA BytesRead ==
    ASSUME NEW p, NEW a \in Seq(Nat), NEW b \in Seq(Nat), Readable(p, a \o b)
    PROVE  /\ GetBytes(p, Len(a)) = a /\ Readable(Skip(p, Len(a)), b)
           /\ Skip(p, Len(a)).data = p.data /\ Skip(p, Len(a)).off = p.off + Len(a)
  <1> DEFINE n == Len(a)
             q == Skip(p, n)
  <1>1. /\ n \in Nat /\ Len(b) \in Nat /\ Len(a \o b) = n + Len(b)
        /\ p \in [data : Seq(Nat), off : Nat, cap : Nat] /\ Len(p.data) \in Nat
        /\ Len(p.data) = p.off + (n + Len(b))
    BY LenProperties, Joins DEF Readable, IsPacket
  <1>2. \A i \in 1..(n + Len(b)) :
            p.data[p.off + i] = IF i <= n THEN a[i] ELSE b[i - n]
    <2>1. \A i \in 1..(n + Len(b)) : (a \o b)[i] = IF i <= n THEN a[i] ELSE b[i - n]
      BY ConcatProperties
    <2>. QED  BY <1>1, <2>1 DEF Readable
  <1>3. Extended(p.data, p.off + n) = p.data
    BY <1>1 DEF Extended
  <1>4. GetBytes(p, n) = a
    <2> DEFINE s == SubSeq(p.data, p.off + 1, p.off + n)
    <2>1. s \in Seq(Nat) /\ Len(s) = n /\ \A i \in 1..n : s[i] = p.data[p.off + i]
      <3>1. PICK d \in Seq(Nat), o \in Nat : d = p.data /\ o = p.off
        BY <1>1
      <3>2. o + n <= Len(d)
        BY <1>1, <3>1
      <3>3. /\ SubSeq(d, o + 1, o + n) \in Seq(Nat) /\ Len(SubSeq(d, o + 1, o + n)) = n
            /\ \A i \in 1..n : SubSeq(d, o + 1, o + n)[i] = d[o + i]
        BY <1>1, <3>2, Slice, ZenonT(60)
      <3>. QED  BY <3>1, <3>3
    <2>2. ASSUME NEW i \in 1..n PROVE s[i] = a[i]
      <3>1. i \in 1..(n + Len(b)) /\ i <= n
        BY <1>1
      <3>. QED  BY <1>2, <2>1, <3>1
    <2>. HIDE DEF s
    <2>3. s = a
      BY <2>1, <2>2, SeqEqual
    <2>. QED  BY <1>3, <2>3 DEF s, GetBytes
  <1>5. q \in [data : Seq(Nat), off : Nat, cap : Nat] /\ q.data = p.data /\ q.off = p.off + n
    <2>1. q = [p EXCEPT !.off = p.off + n, !.data = p.data]
      BY <1>3 DEF Skip
    <2>2. p.off + n \in Nat /\ p.data \in Seq(Nat)
      BY <1>1
    <2>. HIDE DEF q, n
    <2>. QED  BY <1>1, <2>1, <2>2
  <1>9. PICK o, m \in Nat : o = p.off /\ m = n
    BY <1>1
  <1>6. Len(q.data) = q.off + Len(b)
    <2>1. q.off = o + m /\ Len(q.data) = o + (m + Len(b))
      BY <1>1, <1>5, <1>9
    <2>. HIDE DEF q
    <2>. QED  BY <1>1, <1>9, <2>1
  <1>7. ASSUME NEW i \in 1..Len(b) PROVE q.data[q.off + i] = b[i]
    <2>0. q.off = o + m /\ Len(b) \in Nat
      BY <1>1, <1>5, <1>9
    <2>. HIDE DEF q, n
    <2>1. m + i \in 1..(m + Len(b)) /\ ~(m + i <= m) /\ (m + i) - m = i
          /\ (o + m) + i = o + (m + i)
      BY <1>9, <2>0
    <2>2. p.data[o + (m + i)] = b[(m + i) - m]
      BY <1>2, <1>9, <2>1
    <2>. QED  BY <1>5, <2>0, <2>1, <2>2
  <1>. HIDE DEF q
  <1>8. Readable(q, b)
    BY <1>5, <1>6, <1>7 DEF Readable, IsPacket
  <1>. QED  BY <1>4, <1>5, <1>8 DEF q

LEMMA IntRead ==
    ASSUME NEW p, NEW w \in Widths, NEW v \in Nat, NEW b \in Seq(Nat),
           Readable(p, BigEndian(w, v) \o b)
    PROVE  GetInt(p, w) = Cut(w, v) /\ Readable(Skip(p, w), b)
  <1> DEFINE a == BigEndian(w, v)
  <1>1. a \in Seq(Nat) /\ Len(a) = w
    BY BytesOfInt DEF AreBytes
  <1>2. IntOf(a) = Cut(w, v)
    BY IntOfBytes
  <1>3. GetInt(p, w) = IntOf(GetBytes(p, w))
    BY DEF GetInt, IntOf
  <1>4. GetBytes(p, w) = a /\ Readable(Skip(p, w), b)
    <2>. HIDE DEF a
    <2>1. Readable(p, a \o b)
      BY DEF a
    <2>. QED  BY <1>1, <2>1, BytesRead
  <1>. QED  BY <1>2, <1>3, <1>4

\* The fields of a packet are those of a record, and b is behind them.
FieldsAre(p, layout, rec, b) ==
    /\ \A k \in 1..Len(layout) :
          GetFields(p, layout)[layout[k][1]] = Cut(layout[k][2], FieldValue(layout, rec, k))
    /\ Readable(SkipFields(p, layout), b)

LEMMA FieldsRead ==
    ASSUME NEW p, NEW layout, IsLayout(layout), NEW rec, Fills(rec, layout), NEW b \in Seq(Nat),
           Readable(p, FieldBytes(layout, rec) \o b)
    PROVE  /\ FieldsAre(p, layout, rec, b)
           /\ SkipFields(p, layout).data = p.data
           /\ SkipFields(p, layout).off = p.off + Width(layout)
  <1>1. PICK g : IsFieldTrace(g, layout, rec)
    BY FieldTrace
  <1>2. /\ Len(layout) \in Nat /\ DOMAIN layout = 1..Len(layout)
        /\ FieldBytes(layout, rec) \in Seq(Nat)
        /\ Width(layout) = Len(FieldBytes(layout, rec))
    BY FieldBytesAreBytes DEF IsLayout
  <1>3. ASSUME NEW k \in 1..Len(layout)
        PROVE  GetFields(p, layout)[layout[k][1]]
                 = Cut(layout[k][2], FieldValue(layout, rec, k))
    <2> DEFINE v == FieldValue(layout, rec, k)
               w == layout[k][2]
               a == g[k - 1]
               c == BigEndian(w, v)
    <2>1. k - 1 \in 0..Len(layout) /\ w \in Widths /\ v \in Nat
      BY <1>2 DEF IsLayout, Fills
    <2>2. a \in Seq(Nat) /\ c \in Seq(Nat)
      <3>1. a \in Seq(Nat)
        BY <1>1, <2>1 DEF IsFieldTrace
      <3>2. c \in Seq(Nat)
        BY <2>1, BytesOfInt DEF AreBytes
      <3>. QED  BY <3>1, <3>2
    <2>3. PICK t \in Seq(Nat) : FieldBytes(layout, rec) = a \o (c \o t)
      <3>1. Around(FieldBytes(layout, rec), a, c)
        BY <1>1, FieldsAround
      <3>. HIDE DEF a, c
      <3>. QED  BY <3>1 DEF Around
    <2>4. Width(SubSeq(layout, 1, k - 1)) = Len(a)
      BY <1>1, <2>1, WidthsAreLengths
    <2>5. GetFields(p, layout)[layout[k][1]]
            = GetInt(Skip(p, Width(SubSeq(layout, 1, k - 1))), w)
      <3>1. (CHOOSE i \in DOMAIN layout : layout[i][1] = layout[k][1]) = k
        BY <1>2 DEF IsLayout
      <3>2. layout[k][1] \in {layout[i][1] : i \in DOMAIN layout}
        BY <1>2
      <3>. QED  BY <3>1, <3>2 DEF GetFields
    <2>. HIDE DEF a, c
    <2>6. PICK u \in Seq(Nat) : u = t \o b
      BY Joins
    <2>7. PICK x \in Seq(Nat) : x = c \o u
      BY <2>2, Joins
    <2>8. FieldBytes(layout, rec) \o b = a \o x
      <3>1. (a \o (c \o t)) \o b = a \o (c \o (t \o b))
        <4>1. Grouped(a, c, t, b)
          BY <2>2, Assoc4
        <4>. QED  BY <4>1 DEF Grouped
      <3>. QED  BY <2>3, <2>6, <2>7, <3>1
    <2>9. Readable(Skip(p, Len(a)), x)
      BY <2>2, <2>8, BytesRead
    <2>. HIDE DEF v, w
    <2>10. GetInt(Skip(p, Len(a)), w) = Cut(w, v)
      BY <2>1, <2>7, <2>9, IntRead DEF c
    <2>. QED  BY <2>4, <2>5, <2>10 DEF v, w
  <1>4. /\ Readable(SkipFields(p, layout), b)
        /\ SkipFields(p, layout).data = p.data
        /\ SkipFields(p, layout).off = p.off + Width(layout)
    BY <1>2, BytesRead DEF SkipFields
  <1>. QED  BY <1>3, <1>4 DEF FieldsAre

--------------------------------------------------------------------------------
(* What any packet yields.                                                 *)

LEMMA SkipIsPacket ==
    ASSUME NEW p, IsPacket(p), NEW n \in Nat
    PROVE  IsPacket(Skip(p, n)) /\ Skip(p, n).off = p.off + n
  <1>1. p \in [data : Seq(Nat), off : Nat, cap : Nat] /\ p.off + n \in Nat
    BY DEF IsPacket
  <1> DEFINE d == Extended(p.data, p.off + n)
  <1>2. d \in Seq(Nat)
    BY <1>1, ExtendedData
  <1>3. Skip(p, n) = [p EXCEPT !.off = p.off + n, !.data = d]
    BY <1>1 DEF Skip
  <1>. HIDE DEF d
  <1>. QED  BY <1>1, <1>2, <1>3 DEF IsPacket

LEMMA GetsBytes ==
    ASSUME NEW p, IsPacket(p), NEW n \in Nat
    PROVE  GetBytes(p, n) \in Seq(Nat) /\ Len(GetBytes(p, n)) = n
  <1>1. p \in [data : Seq(Nat), off : Nat, cap : Nat]
    BY DEF IsPacket
  <1>2. PICK o \in Nat : o = p.off
    BY <1>1
  <1> DEFINE d == Extended(p.data, o + n)
  <1>3. d \in Seq(Nat) /\ o + n <= Len(d) /\ o + n \in Nat
    BY <1>1, ExtendedData, LenProperties
  <1>4. GetBytes(p, n) = SubSeq(d, o + 1, o + n)
    BY <1>2 DEF GetBytes
  <1>. HIDE DEF d
  <1>. QED  BY <1>3, <1>4, Slice

LEMMA GetsInt ==
    ASSUME NEW p, IsPacket(p), NEW w \in Widths
    PROVE  GetInt(p, w) \in Nat
  <1>1. GetBytes(p, w) \in Seq(Nat)
    BY GetsBytes DEF Widths
  <1>2. GetInt(p, w) = IntOf(GetBytes(p, w))
    BY DEF GetInt, IntOf
  <1>. QED  BY <1>1, <1>2, IntOfBytes

LEMMA GetsFields ==
    ASSUME NEW p, IsPacket(p), NEW layout, IsLayout(layout)
    PROVE  /\ \A k \in 1..Len(layout) : GetFields(p, layout)[layout[k][1]] \in Nat
           /\ IsPacket(SkipFields(p, layout))
  <1> DEFINE rec == [x \in {layout[i][1] : i \in DOMAIN layout} |-> 0]
  <1>1. Len(layout) \in Nat /\ DOMAIN layout = 1..Len(layout)
    BY DEF IsLayout
  <1>2. Fills(rec, layout)
    BY <1>1 DEF Fills, FieldValue
  <1>. HIDE DEF rec
  <1>3. PICK g : IsFieldTrace(g, layout, rec)
    BY <1>2, FieldTrace
  <1>4. /\ \A j \in 0..Len(layout) : Width(SubSeq(layout, 1, j)) \in Nat
        /\ Width(layout) \in Nat
    <2>1. \A j \in 0..Len(layout) : Len(g[j]) \in Nat
      BY <1>3, LenProperties DEF IsFieldTrace
    <2>2. Len(layout) \in 0..Len(layout)
      BY <1>1
    <2>. QED  BY <1>2, <1>3, <2>1, <2>2, WidthsAreLengths
  <1>5. ASSUME NEW k \in 1..Len(layout) PROVE GetFields(p, layout)[layout[k][1]] \in Nat
    <2> DEFINE q == Skip(p, Width(SubSeq(layout, 1, k - 1)))
    <2>1. (CHOOSE i \in DOMAIN layout : layout[i][1] = layout[k][1]) = k
      BY <1>1 DEF IsLayout
    <2>2. layout[k][1] \in {layout[i][1] : i \in DOMAIN layout}
      BY <1>1
    <2>3. GetFields(p, layout)[layout[k][1]] = GetInt(q, layout[k][2])
      BY <2>1, <2>2 DEF GetFields
    <2>4. k - 1 \in 0..Len(layout) /\ layout[k][2] \in Widths
      BY <1>1 DEF IsLayout
    <2>5. IsPacket(q)
      BY <1>4, <2>4, SkipIsPacket
    <2>. QED  BY <2>3, <2>4, <2>5, GetsInt
  <1>6. IsPacket(SkipFields(p, layout))
    BY <1>4, SkipIsPacket DEF SkipFields
  <1>. QED  BY <1>5, <1>6

--------------------------------------------------------------------------------
(* The layouts of the records.                                             *)

LEMMA Layouts ==
    /\ IsLayout(Version) /\ IsLayout(PInfoTail) /\ IsLayout(EPInfoLayout)
    /\ IsLayout(UpdateHead) /\ IsLayout(UpdateTail) /\ IsLayout(EPUpdateLayout)
  <1>1. IsLayout(Version)
    BY DEF IsLayout, Widths, Version
  <1>2. IsLayout(PInfoTail)
    BY DEF IsLayout, Widths, PInfoTail
  <1>3. IsLayout(EPInfoLayout)
    BY DEF IsLayout, Widths, EPInfoLayout, Version
  <1>4. IsLayout(UpdateHead)
    BY DEF IsLayout, Widths, UpdateHead, Version
  <1>5. IsLayout(UpdateTail)
    BY DEF IsLayout, Widths, UpdateTail
  <1>6. IsLayout(EPUpdateLayout)
    BY DEF IsLayout, Widths, EPUpdateLayout, Version
  <1>. QED  BY <1>1, <1>2, <1>3, <1>4, <1>5, <1>6

LEMMA VersionRead ==
    ASSUME NEW p, NEW r, r.MicroVersion \in Nat, r.MinorVersion \in Nat, r.MajorVersion \in Nat,
           NEW b \in Seq(Nat), Readable(p, FieldBytes(Version, r) \o b)
    PROVE  /\ GetFields(p, Version)["MicroVersion"] = Cut(2, r.MicroVersion)
           /\ GetFields(p, Version)["MinorVersion"] = Cut(1, r.MinorVersion)
           /\ GetFields(p, Version)["MajorVersion"] = Cut(1, r.MajorVersion)
           /\ Readable(SkipFields(p, Version), b)
  <1>1. /\ Len(Version) = 3 /\ Version[1] = <<"MicroVersion", 2>>
        /\ Version[2] = <<"MinorVersion", 1>> /\ Version[3] = <<"MajorVersion", 1>>
    BY DEF Version
  <1>2. /\ FieldValue(Version, r, 1) = r.MicroVersion
        /\ FieldValue(Version, r, 2) = r.MinorVersion
        /\ FieldValue(Version, r, 3) = r.MajorVersion
    BY <1>1 DEF FieldValue
  <1>3. Fills(r, Version)
    BY <1>1, <1>2 DEF Fills
  <1>4. FieldsAre(p, Version, r, b)
    BY <1>3, Layouts, FieldsRead
  <1>. QED  BY <1>1, <1>2, <1>4 DEF FieldsAre

LEMMA FitsCut ==
    ASSUME NEW w \in Widths, NEW v, Fits(w, v)
    PROVE  v \in Nat /\ Cut(w, v) = v
  <1>1. /\ 256^0 = 1 /\ 256^1 = 256 /\ 256^2 = 65536 /\ 256^3 = 16777216
        /\ 256^4 = 4294967296
    OBVIOUS
  <1>2. v \in Nat
    BY DEF Fits
  <1>3. CASE w = 1
    BY <1>1, <1>2, <1>3 DEF Fits, Cut
  <1>4. CASE w = 2
    BY <1>1, <1>2, <1>4 DEF Fits, Cut
  <1>5. CASE w = 4
    <2>1. v \div 256 < 16777216
      BY <1>1, <1>5 DEF Fits
    <2>2. v % 4294967296 = v
      BY <1>2, <2>1
    <2>. QED  BY <1>1, <1>2, <1>5, <2>2 DEF Cut
  <1>. QED  BY <1>2, <1>3, <1>4, <1>5 DEF Widths

\* The parts of a packet, from the first to the last.
Nest3(a, b, c) == (a \o b) \o c = a \o (b \o c)
Nest5(a, b, c, d, e) == (((a \o b) \o c) \o d) \o e = a \o (b \o (c \o (d \o e)))

LEMMA Nested3 ==
    ASSUME NEW a \in Seq(Nat), NEW b \in Seq(Nat), NEW c \in Seq(Nat)
    PROVE  Nest3(a, b, c)
  BY Assoc DEF Nest3

LEMMA Nested5 ==
    ASSUME NEW a \in Seq(Nat), NEW b \in Seq(Nat), NEW c \in Seq(Nat), NEW d \in Seq(Nat),
           NEW e \in Seq(Nat)
    PROVE  Nest5(a, b, c, d, e)
  <1>1. PICK x \in Seq(Nat) : x = a \o b
    BY Joins
  <1>2. PICK y \in Seq(Nat) : y = x \o c
    BY Joins
  <1>3. PICK u \in Seq(Nat) : u = d \o e
    BY Joins
  <1>4. PICK v \in Seq(Nat) : v = c \o u
    BY Joins
  <1>5. Nest3(y, d, e) /\ Nest3(x, c, u) /\ Nest3(a, b, v)
    BY Nested3
  <1>. QED  BY <1>1, <1>2, <1>3, <1>4, <1>5 DEF Nest3, Nest5

\* A string in its buffer.
LEMMA PaddedString ==
    ASSUME NEW str \in Seq(Nat), Len(str) <= MimeMax
    PROVE  \E z \in Seq(Nat) : Padded(str) = str \o z /\ Padded(str) \in Seq(Nat)
  <1>1. MimeMax \in Nat /\ Len(str) \in Nat
    BY RecordAssumption, LenProperties DEF Fits
  <1> DEFINE z == [i \in 1..(MimeMax - Len(str)) |-> 0]
  <1>2. z \in Seq(Nat) /\ Len(z) = MimeMax - Len(str)
    BY <1>1
  <1>3. \A i \in 1..(MimeMax - Len(str)) : z[i] = 0
    OBVIOUS
  <1>. HIDE DEF z
  <1>4. Padded(str) \in Seq(Nat) /\ Len(Padded(str)) = MimeMax
    <2>1. \A i \in 1..MimeMax : (IF i <= Len(str) THEN str[i] ELSE 0) \in Nat
      BY <1>1, ElementOfSeq
    <2>. QED  BY <1>1, <2>1 DEF Padded
  <1>5. /\ str \o z \in Seq(Nat) /\ Len(str \o z) = MimeMax
        /\ \A i \in 1..MimeMax : (str \o z)[i] = IF i <= Len(str) THEN str[i] ELSE z[i - Len(str)]
    <2>1. /\ str \o z \in Seq(Nat) /\ Len(str \o z) = Len(str) + Len(z)
          /\ \A i \in 1..(Len(str) + Len(z)) :
               (str \o z)[i] = IF i <= Len(str) THEN str[i] ELSE z[i - Len(str)]
      BY <1>2, ConcatProperties
    <2>2. Len(str) + Len(z) = MimeMax
      BY <1>1, <1>2
    <2>. QED  BY <2>1, <2>2
  <1>6. ASSUME NEW i \in 1..MimeMax PROVE Padded(str)[i] = (str \o z)[i]
    <2>1. Padded(str)[i] = IF i <= Len(str) THEN str[i] ELSE 0
      BY DEF Padded
    <2>2. ~(i <= Len(str)) => i - Len(str) \in 1..(MimeMax - Len(str))
      BY <1>1
    <2>. QED  BY <1>3, <1>5, <2>1, <2>2
  <1>7. Padded(str) = str \o z
    BY <1>4, <1>5, <1>6, SeqEqual
  <1>. QED  BY <1>2, <1>4, <1>7

--------------------------------------------------------------------------------
(* From the node to the server.                                            *)

LEMMA VersionBytes ==
    ASSUME NEW r, VersionFits(r)
    PROVE  /\ FieldBytes(Version, r) \in Seq(Nat) /\ Fills(r, Version)
           /\ r.MicroVersion \in Nat /\ Cut(2, r.MicroVersion) = r.MicroVersion
           /\ r.MinorVersion \in Nat /\ Cut(1, r.MinorVersion) = r.MinorVersion
           /\ r.MajorVersion \in Nat /\ Cut(1, r.MajorVersion) = r.MajorVersion
  <1>1. /\ r.MicroVersion \in Nat /\ Cut(2, r.MicroVersion) = r.MicroVersion
        /\ r.MinorVersion \in Nat /\ Cut(1, r.MinorVersion) = r.MinorVersion
        /\ r.MajorVersion \in Nat /\ Cut(1, r.MajorVersion) = r.MajorVersion
    BY FitsCut DEF VersionFits, Widths
  <1>2. Fills(r, Version)
    <2>1. /\ Len(Version) = 3 /\ Version[1] = <<"MicroVersion", 2>>
          /\ Version[2] = <<"MinorVersion", 1>> /\ Version[3] = <<"MajorVersion", 1>>
      BY DEF Version
    <2>. QED  BY <1>1, <2>1 DEF Fills, FieldValue
  <1>3. FieldBytes(Version, r) \in Seq(Nat)
    BY <1>2, Layouts, FieldBytesAreBytes
  <1>. QED  BY <1>1, <1>2, <1>3

TailRecord(count, mgmt, config, length) ==
    [EndPointCount |-> count, MgmtPort |-> mgmt, ConfigPort |-> config, HostAddrType |-> 0,
     HostAddrLength |-> length]

TailReads(r, count, config) ==
    /\ FieldBytes(PInfoTail, r) \in Seq(Nat) /\ Fills(r, PInfoTail)
    /\ \A p, b : b \in Seq(Nat) /\ Readable(p, FieldBytes(PInfoTail, r) \o b) =>
          /\ GetFields(p, PInfoTail)["EndPointCount"] = Cut(4, count)
          /\ GetFields(p, PInfoTail)["ConfigPort"] = Cut(2, config)

LEMMA TailRead ==
    ASSUME NEW count \in Nat, NEW mgmt \in Nat, NEW config \in Nat, NEW length \in Nat
    PROVE  TailReads(TailRecord(count, mgmt, config, length), count, config)
  <1> DEFINE r == TailRecord(count, mgmt, config, length)
  <1>1. /\ Len(PInfoTail) = 5 /\ PInfoTail[1] = <<"EndPointCount", 4>>
        /\ PInfoTail[2] = <<"MgmtPort", 2>> /\ PInfoTail[3] = <<"ConfigPort", 2>>
        /\ PInfoTail[4] = <<"HostAddrType", 4>> /\ PInfoTail[5] = <<"HostAddrLength", 4>>
    BY DEF PInfoTail
  <1>2. /\ FieldValue(PInfoTail, r, 1) = count /\ FieldValue(PInfoTail, r, 2) = mgmt
        /\ FieldValue(PInfoTail, r, 3) = config /\ FieldValue(PInfoTail, r, 4) = 0
        /\ FieldValue(PInfoTail, r, 5) = length
    BY <1>1 DEF FieldValue, TailRecord
  <1>3. Fills(r, PInfoTail)
    BY <1>1, <1>2 DEF Fills
  <1>4. FieldBytes(PInfoTail, r) \in Seq(Nat)
    BY <1>3, Layouts, FieldBytesAreBytes
  <1>5. ASSUME NEW p, NEW b, b \in Seq(Nat), Readable(p, FieldBytes(PInfoTail, r) \o b)
        PROVE  /\ GetFields(p, PInfoTail)["EndPointCount"] = Cut(4, count)
               /\ GetFields(p, PInfoTail)["ConfigPort"] = Cut(2, config)
    <2>1. FieldsAre(p, PInfoTail, r, b)
      BY <1>3, <1>5, Layouts, FieldsRead
    <2>. QED  BY <1>1, <1>2, <2>1 DEF FieldsAre
  <1>. HIDE DEF r
  <1>6. TailReads(r, count, config)
    BY <1>3, <1>4, <1>5 DEF TailReads
  <1>. QED  BY <1>6 DEF r

\* What a provider is after the reply of a node.
Informed(prov, d) ==
    update_config_addr(
        [prov EXCEPT !.MicroVersion = d.MicroVersion, !.MinorVersion = d.MinorVersion,
                     !.MajorVersion = d.MajorVersion, !.NodeUID = d.NodeUID,
                     !.EndPointArray = allocate_endpoint_array(Len(d.EndPointArray)),
                     !.ConfigPort = d.ConfigPort])

LEMMA ReplyWritten ==
    ASSUME NEW type \in Nat, NEW tag \in Nat
    PROVE  \E a \in Seq(Nat) : Len(a) = 8 /\ Written(Reply(type, tag), a)
  <1> DEFINE x == BigEndian(4, type)
             y == BigEndian(4, tag)
             p == SetInt(NewPacket, 4, type)
  <1>1. x \in Seq(Nat) /\ Len(x) = 4 /\ y \in Seq(Nat) /\ Len(y) = 4
    BY BytesOfInt DEF AreBytes, Widths
  <1>2. Written(p, <<>> \o x)
    BY NothingWritten, WriteInt DEF Widths
  <1>3. <<>> \o x = x
    BY <1>1, ConcatEmptySeq
  <1>4. Written(p, x)
    BY <1>2, <1>3
  <1>. HIDE DEF p
  <1>5. Written(SetInt(p, 4, tag), x \o y)
    BY <1>4, WriteInt DEF Widths
  <1>. HIDE DEF x, y
  <1>6. x \o y \in Seq(Nat) /\ Len(x \o y) = Len(x) + Len(y)
    BY <1>1, Joins
  <1>7. Len(x \o y) = 8
    BY <1>1, <1>6
  <1>. QED  BY <1>5, <1>6, <1>7 DEF Reply, p

LEMMA PInfoTrip ==
    ASSUME NEW d, NodeFits(d), NEW tag \in Nat, NEW prov
    PROVE  ParsePInfo(prov, Skip(Reset(PInfoReply(d, tag)), 8)) = Informed(prov, d)
  <1> DEFINE V == FieldBytes(Version, d)
             U == d.NodeUID
             r == TailRecord(Len(d.EndPointArray), d.MgmtPort, d.ConfigPort, Len(d.HostAddr))
             T == FieldBytes(PInfoTail, r)
             H == Padded(d.HostAddr)
  <1>1. /\ V \in Seq(Nat) /\ Fills(d, Version)
        /\ d.MicroVersion \in Nat /\ Cut(2, d.MicroVersion) = d.MicroVersion
        /\ d.MinorVersion \in Nat /\ Cut(1, d.MinorVersion) = d.MinorVersion
        /\ d.MajorVersion \in Nat /\ Cut(1, d.MajorVersion) = d.MajorVersion
    BY VersionBytes DEF NodeFits
  <1>2. /\ Len(d.EndPointArray) \in Nat /\ Cut(4, Len(d.EndPointArray)) = Len(d.EndPointArray)
        /\ d.MgmtPort \in Nat /\ d.ConfigPort \in Nat /\ Cut(2, d.ConfigPort) = d.ConfigPort
        /\ Len(d.HostAddr) \in Nat
    <2>1. Len(d.HostAddr) \in Nat
      BY LenProperties DEF NodeFits
    <2>. QED  BY <2>1, FitsCut DEF NodeFits, Widths
  <1>3. /\ T \in Seq(Nat) /\ Fills(r, PInfoTail)
        /\ \A p, b : b \in Seq(Nat) /\ Readable(p, T \o b) =>
                /\ GetFields(p, PInfoTail)["EndPointCount"] = Len(d.EndPointArray)
                /\ GetFields(p, PInfoTail)["ConfigPort"] = d.ConfigPort
    <2>1. TailReads(r, Len(d.EndPointArray), d.ConfigPort)
      BY <1>2, TailRead
    <2>. QED  BY <1>2, <2>1 DEF TailReads
  <1>4. U \in Seq(Nat) /\ Len(U) = UIDLength /\ H \in Seq(Nat)
    BY PaddedString DEF NodeFits
  <1>5. PICK a \in Seq(Nat) : Len(a) = 8 /\ Written(Reply(HNPKT_PINFO_RPY, tag), a)
    BY ReplyWritten DEF HNPKT_PINFO_RPY
  <1> DEFINE p1 == Reply(HNPKT_PINFO_RPY, tag)
             p2 == SetFields(p1, Version, d)
             p3 == SetBytes(p2, U)
             p4 == SetFields(p3, PInfoTail, r)
             p5 == SetBytes(p4, H)
  <1>6. PInfoReply(d, tag) = p5
    BY DEF PInfoReply, TailRecord
  <1>. HIDE DEF V, U, T, H, p1, r
  <1>7. Written(p2, a \o V)
    BY <1>1, <1>5, Layouts, WriteFields DEF p1, V
  <1>. HIDE DEF p2
  <1>8. Written(p3, (a \o V) \o U)
    BY <1>4, <1>7, WriteBytes
  <1>. HIDE DEF p3
  <1>9. Written(p4, ((a \o V) \o U) \o T)
    BY <1>3, <1>8, Layouts, WriteFields DEF T
  <1>. HIDE DEF p4
  <1>10. Written(p5, (((a \o V) \o U) \o T) \o H)
    BY <1>4, <1>9, WriteBytes
  <1>. HIDE DEF p5
  <1>11. PICK th \in Seq(Nat) : th = T \o H
    BY <1>3, <1>4, Joins
  <1>12. PICK uth \in Seq(Nat) : uth = U \o th
    BY <1>4, Joins
  <1>13. PICK vuth \in Seq(Nat) : vuth = V \o uth
    BY <1>1, Joins
  <1>14. Written(p5, a \o vuth)
    <2>1. Nest5(a, V, U, T, H)
      BY <1>1, <1>3, <1>4, Nested5
    <2>. QED  BY <1>10, <1>11, <1>12, <1>13, <2>1 DEF Nest5
  <1> DEFINE q1 == Skip(Reset(p5), 8)
             q2 == SkipFields(q1, Version)
             q3 == Skip(q2, UIDLength)
  <1>15. Readable(q1, vuth)
    BY <1>5, <1>14, ResetReads, BytesRead
  <1>. HIDE DEF q1
  <1>16. /\ GetFields(q1, Version)["MicroVersion"] = d.MicroVersion
         /\ GetFields(q1, Version)["MinorVersion"] = d.MinorVersion
         /\ GetFields(q1, Version)["MajorVersion"] = d.MajorVersion
         /\ Readable(q2, uth)
    BY <1>1, <1>13, <1>15, VersionRead DEF V
  <1>. HIDE DEF q2
  <1>17. GetBytes(q2, UIDLength) = U /\ Readable(q3, th)
    BY <1>4, <1>12, <1>16, BytesRead
  <1>. HIDE DEF q3
  <1>18. /\ GetFields(q3, PInfoTail)["EndPointCount"] = Len(d.EndPointArray)
         /\ GetFields(q3, PInfoTail)["ConfigPort"] = d.ConfigPort
    BY <1>3, <1>4, <1>11, <1>17
  <1>. QED  BY <1>6, <1>16, <1>17, <1>18 DEF ParsePInfo, Informed, q1, q2, q3, U
--------------------------------------------------------------------------------
(* End points.                                                             *)

\* The fields of an end point in a packet, and the end point read from them.
EPFields(port, e) ==
    [Port |-> port, MicroVersion |-> e.MicroVersion, MinorVersion |-> e.MinorVersion,
     MajorVersion |-> e.MajorVersion, AssociateEPIndex |-> e.AssociateEPIndex,
     MimeTypeLength |-> Len(e.MimeTypeStr)]

EPOf(addr, port, e) ==
    [AddrObj |-> set_port(addr, port), MicroVersion |-> e.MicroVersion,
     MinorVersion |-> e.MinorVersion, MajorVersion |-> e.MajorVersion,
     AssociateEPIndex |-> e.AssociateEPIndex, MimeTypeStr |-> e.MimeTypeStr]

EPFits(port, e) ==
    /\ Fits(2, port) /\ VersionFits(e) /\ Fits(4, e.AssociateEPIndex)
    /\ e.MimeTypeStr \in Seq(Nat) /\ Len(e.MimeTypeStr) <= MimeMax

\* What fits is a number, and the width holds it.
Holds(w, v) == v \in Nat /\ Cut(w, v) = v

EPHolds(port, e) ==
    /\ Holds(2, port) /\ Holds(2, e.MicroVersion) /\ Holds(1, e.MinorVersion)
    /\ Holds(1, e.MajorVersion) /\ Holds(4, e.AssociateEPIndex) /\ Holds(4, Len(e.MimeTypeStr))

LEMMA FitsBelow ==
    ASSUME NEW w \in Widths, NEW n, Fits(w, n), NEW v \in Nat, v <= n
    PROVE  Fits(w, v)
  <1>1. PICK k : k = 256^(w - 1)
    OBVIOUS
  <1>2. n \in Nat /\ n \div 256 < k
    BY <1>1 DEF Fits
  <1>3. k \in Int
    <2>1. 256^0 = 1 /\ 256^1 = 256 /\ 256^3 = 16777216
      OBVIOUS
    <2>2. w - 1 = 0 \/ w - 1 = 1 \/ w - 1 = 3
      BY DEF Widths
    <2>. QED  BY <1>1, <2>1, <2>2
  <1>4. v \div 256 < k
    BY <1>2, <1>3
  <1>. QED  BY <1>1, <1>4 DEF Fits

LEMMA EPHeld ==
    ASSUME NEW port, NEW e, EPFits(port, e)
    PROVE  EPHolds(port, e)
  <1>1. Fits(4, MimeMax) /\ Len(e.MimeTypeStr) \in Nat /\ Len(e.MimeTypeStr) <= MimeMax
    BY RecordAssumption, LenProperties DEF EPFits
  <1>3. Fits(4, Len(e.MimeTypeStr))
    BY <1>1, FitsBelow DEF Widths
  <1>. QED  BY <1>3, FitsCut DEF EPFits, VersionFits, EPHolds, Holds, Widths

\* The fields f of a packet are those of the end point.
EPAre(f, port, e) ==
    /\ f["Port"] = port /\ f["MicroVersion"] = e.MicroVersion
    /\ f["MinorVersion"] = e.MinorVersion /\ f["MajorVersion"] = e.MajorVersion
    /\ f["AssociateEPIndex"] = e.AssociateEPIndex
    /\ f["MimeTypeLength"] = Len(e.MimeTypeStr)

LEMMA EPInfoFields ==
    ASSUME NEW port, NEW e, EPFits(port, e)
    PROVE  /\ Fills(EPFields(port, e), EPInfoLayout)
           /\ \A p, b : FieldsAre(p, EPInfoLayout, EPFields(port, e), b) =>
                            EPAre(GetFields(p, EPInfoLayout), port, e)
  <1> DEFINE r == EPFields(port, e)
             L == EPInfoLayout
  <1>1. /\ Len(L) = 7 /\ L[1] = <<"Port", 2>> /\ L[2] = <<"-", 2>> /\ L[3] = <<"MicroVersion", 2>>
        /\ L[4] = <<"MinorVersion", 1>> /\ L[5] = <<"MajorVersion", 1>>
        /\ L[6] = <<"AssociateEPIndex", 4>> /\ L[7] = <<"MimeTypeLength", 4>>
    BY DEF EPInfoLayout, Version
  <1>. HIDE DEF L
  <1>2. /\ FieldValue(L, r, 1) = port /\ FieldValue(L, r, 2) = 0
        /\ FieldValue(L, r, 3) = e.MicroVersion /\ FieldValue(L, r, 4) = e.MinorVersion
        /\ FieldValue(L, r, 5) = e.MajorVersion /\ FieldValue(L, r, 6) = e.AssociateEPIndex
        /\ FieldValue(L, r, 7) = Len(e.MimeTypeStr)
    BY <1>1 DEF FieldValue, EPFields
  <1>. HIDE DEF r
  <1>3. EPHolds(port, e)
    BY EPHeld
  <1>4. Fills(r, L)
    BY <1>1, <1>2, <1>3, SMTT(60) DEF Fills, EPHolds, Holds
  <1>5. ASSUME NEW p, NEW b, FieldsAre(p, L, r, b) PROVE EPAre(GetFields(p, L), port, e)
    BY <1>1, <1>2, <1>3, <1>5, SMTT(60) DEF FieldsAre, EPAre, EPHolds, Holds
  <1>. QED  BY <1>4, <1>5 DEF L, r

LEMMA EPUpdateFields ==
    ASSUME NEW port, NEW e, EPFits(port, e)
    PROVE  /\ Fills(EPFields(port, e), EPUpdateLayout)
           /\ \A p, b : FieldsAre(p, EPUpdateLayout, EPFields(port, e), b) =>
                            EPAre(GetFields(p, EPUpdateLayout), port, e)
  <1> DEFINE r == EPFields(port, e)
             L == EPUpdateLayout
  <1>1. /\ Len(L) = 6 /\ L[1] = <<"Port", 2>> /\ L[2] = <<"MicroVersion", 2>>
        /\ L[3] = <<"MinorVersion", 1>> /\ L[4] = <<"MajorVersion", 1>>
        /\ L[5] = <<"AssociateEPIndex", 4>> /\ L[6] = <<"MimeTypeLength", 4>>
    BY DEF EPUpdateLayout, Version
  <1>. HIDE DEF L
  <1>2. /\ FieldValue(L, r, 1) = port
        /\ FieldValue(L, r, 2) = e.MicroVersion /\ FieldValue(L, r, 3) = e.MinorVersion
        /\ FieldValue(L, r, 4) = e.MajorVersion /\ FieldValue(L, r, 5) = e.AssociateEPIndex
        /\ FieldValue(L, r, 6) = Len(e.MimeTypeStr)
    BY <1>1 DEF FieldValue, EPFields
  <1>. HIDE DEF r
  <1>3. EPHolds(port, e)
    BY EPHeld
  <1>4. Fills(r, L)
    BY <1>1, <1>2, <1>3, SMTT(60) DEF Fills, EPHolds, Holds
  <1>5. ASSUME NEW p, NEW b, FieldsAre(p, L, r, b) PROVE EPAre(GetFields(p, L), port, e)
    BY <1>1, <1>2, <1>3, <1>5, SMTT(60) DEF FieldsAre, EPAre, EPHolds, Holds
  <1>. QED  BY <1>4, <1>5 DEF L, r

\* The two layouts of an end point, and its bytes in each.
IsEPLayout(layout) == layout \in {EPInfoLayout, EPUpdateLayout}

EPBytes(layout, port, e) == FieldBytes(layout, EPFields(port, e)) \o e.MimeTypeStr

LEMMA EPBytesAreBytes ==
    ASSUME NEW layout, IsEPLayout(layout), NEW port, NEW e, EPFits(port, e)
    PROVE  /\ IsLayout(layout) /\ Fills(EPFields(port, e), layout)
           /\ FieldBytes(layout, EPFields(port, e)) \in Seq(Nat)
           /\ EPBytes(layout, port, e) \in Seq(Nat)
           /\ Len(EPBytes(layout, port, e)) = Width(layout) + Len(e.MimeTypeStr)
  <1>1. IsLayout(layout) /\ Fills(EPFields(port, e), layout)
    BY Layouts, EPInfoFields, EPUpdateFields DEF IsEPLayout
  <1>2. PICK r : r = EPFields(port, e)
    OBVIOUS
  <1>3. FieldBytes(layout, r) \in Seq(Nat) /\ Len(FieldBytes(layout, r)) = Width(layout)
    BY <1>1, <1>2, FieldBytesAreBytes
  <1>4. PICK x, y \in Seq(Nat) : x = FieldBytes(layout, r) /\ y = e.MimeTypeStr
    BY <1>3 DEF EPFits
  <1>5. x \o y \in Seq(Nat) /\ Len(x \o y) = Len(x) + Len(y)
    BY Joins
  <1>. QED  BY <1>1, <1>2, <1>3, <1>4, <1>5 DEF EPBytes

\* An end point at the head of what is left of a packet is read, and what is behind
\* it is left.
EPIsRead(x, p, layout, addr, port, e, b) ==
    /\ x.rec = EPOf(addr, port, e)
    /\ Readable(x.pkt, b) /\ x.pkt.data = p.data
    /\ x.pkt.off = (p.off + Width(layout)) + Len(e.MimeTypeStr)

LEMMA EPRead ==
    ASSUME NEW layout, IsEPLayout(layout), NEW port, NEW e, EPFits(port, e),
           NEW p, NEW b \in Seq(Nat), NEW addr,
           Readable(p, EPBytes(layout, port, e) \o b)
    PROVE  EPIsRead(EndPointRead(addr, GetFields(p, layout), SkipFields(p, layout)),
                    p, layout, addr, port, e, b)
  <1> DEFINE r == EPFields(port, e)
             F == FieldBytes(layout, r)
             M == e.MimeTypeStr
             f == GetFields(p, layout)
             q == SkipFields(p, layout)
  <1>1. IsLayout(layout) /\ Fills(r, layout) /\ F \in Seq(Nat)
    BY EPBytesAreBytes
  <1>2. M \in Seq(Nat)
    BY DEF EPFits
  <1>3. PICK mb \in Seq(Nat) : mb = M \o b
    BY <1>2, Joins
  <1>. HIDE DEF F, M
  <1>4. Readable(p, F \o mb)
    <2>1. Nest3(F, M, b)
      BY <1>1, <1>2, Nested3
    <2>. QED  BY <1>3, <2>1 DEF EPBytes, Nest3, F, M
  <1>. HIDE DEF r
  <1>5. FieldsAre(p, layout, r, mb) /\ q.data = p.data /\ q.off = p.off + Width(layout)
    BY <1>1, <1>4, FieldsRead DEF F
  <1>6. EPAre(f, port, e)
    BY <1>5, EPInfoFields, EPUpdateFields DEF IsEPLayout, r
  <1>7. Readable(q, M \o b)
    BY <1>3, <1>5 DEF FieldsAre
  <1>. HIDE DEF f, q
  <1>8. /\ GetBytes(q, Len(M)) = M /\ Readable(Skip(q, Len(M)), b)
        /\ Skip(q, Len(M)).data = q.data /\ Skip(q, Len(M)).off = q.off + Len(M)
    BY <1>2, <1>7, BytesRead
  <1>9. EndPointRead(addr, f, q) = Read(Skip(q, Len(M)), EPOf(addr, port, e))
    BY <1>6, <1>8 DEF EndPointRead, EPAre, EPOf, M
  <1>. QED  BY <1>5, <1>8, <1>9 DEF EPIsRead, Read, f, q, M
\* The reply of a node for the end point at index i tells of e.
RepliesWith(node, tag, i, addr, e) ==
    ParseRxPacket(addr, Skip(Reset(EPInfoReply(node, tag, i)), 12)) = EPOf(addr, e.Port, e)

LEMMA EPInfoTrip ==
    ASSUME NEW node, NEW tag \in Nat, NEW i \in Nat, NEW addr,
           NEW e, e = node.EndPointArray[i + 1], EPFits(e.Port, e)
    PROVE  RepliesWith(node, tag, i, addr, e)
  <1> DEFINE r == EPFields(e.Port, e)
             F == FieldBytes(EPInfoLayout, r)
             M == e.MimeTypeStr
             I == BigEndian(4, i)
             H == Padded(M)
             E == EPBytes(EPInfoLayout, e.Port, e)
  <1>1. /\ IsLayout(EPInfoLayout) /\ Fills(r, EPInfoLayout) /\ F \in Seq(Nat)
        /\ E \in Seq(Nat) /\ IsEPLayout(EPInfoLayout)
    BY EPBytesAreBytes DEF IsEPLayout
  <1>2. M \in Seq(Nat) /\ I \in Seq(Nat) /\ Len(I) = 4
    <2>1. AreBytes(I, 4, i)
      BY BytesOfInt DEF Widths
    <2>. QED  BY <2>1 DEF EPFits, AreBytes
  <1>3. PICK z \in Seq(Nat) : H = M \o z /\ H \in Seq(Nat)
    BY <1>2, PaddedString DEF EPFits
  <1>4. PICK a \in Seq(Nat) : Len(a) = 8 /\ Written(Reply(HNPKT_EPINFO_RPY, tag), a)
    BY ReplyWritten DEF HNPKT_EPINFO_RPY
  <1> DEFINE p1 == Reply(HNPKT_EPINFO_RPY, tag)
             p2 == SetInt(p1, 4, i)
             p3 == SetFields(p2, EPInfoLayout, r)
             p4 == SetBytes(p3, H)
  <1>5. EPInfoReply(node, tag, i) = p4
    BY DEF EPInfoReply, EPFields
  <1>6. Written(p2, a \o I)
    BY <1>4, WriteInt DEF Widths
  <1>. HIDE DEF p2, I, M, H, r, F
  <1>7. PICK c \in Seq(Nat) : c = a \o I /\ Len(c) = 12
    <2>1. a \o I \in Seq(Nat) /\ Len(a \o I) = Len(a) + Len(I)
      BY <1>2, Joins
    <2>2. Len(a \o I) = 12
      BY <1>2, <1>4, <2>1
    <2>. QED  BY <2>1, <2>2
  <1>8. Written(p3, c \o F)
    BY <1>1, <1>6, <1>7, WriteFields DEF F
  <1>. HIDE DEF p3
  <1>9. Written(p4, (c \o F) \o H)
    BY <1>3, <1>8, WriteBytes
  <1>. HIDE DEF p4
  <1>10. PICK ez \in Seq(Nat) : ez = E \o z
    BY <1>1, Joins
  <1>11. (c \o F) \o H = c \o ez
    <2>1. Nest3(c, F, H) /\ Nest3(F, M, z)
      BY <1>1, <1>2, <1>3, Nested3
    <2>2. E = F \o M
      BY DEF E, EPBytes, F, M, r
    <2>. HIDE DEF E
    <2>. QED  BY <1>3, <1>10, <2>1, <2>2 DEF Nest3
  <1>12. Readable(Reset(p4), c \o ez)
    BY <1>9, <1>11, ResetReads
  <1> DEFINE q == Skip(Reset(p4), 12)
  <1>13. Readable(q, ez)
    BY <1>7, <1>12, BytesRead
  <1>. HIDE DEF q
  <1>14. EPIsRead(EndPointRead(addr, GetFields(q, EPInfoLayout), SkipFields(q, EPInfoLayout)),
                  q, EPInfoLayout, addr, e.Port, e, z)
    BY <1>1, <1>3, <1>10, <1>13, EPRead
  <1>. QED  BY <1>5, <1>14 DEF EPIsRead, ParseRxPacket, RepliesWith, q

\* A record of a node's own data, with the end points and the id given.
RecordOf(d, a, eps, id) ==
    [AddrObj |-> a,
     ConfigAddrObj |-> IF d.ConfigPort = 0 THEN NoAddress ELSE Address(a.host, d.ConfigPort),
     ConfigPort |-> d.ConfigPort, MicroVersion |-> d.MicroVersion,
     MinorVersion |-> d.MinorVersion, MajorVersion |-> d.MajorVersion, NodeUID |-> d.NodeUID,
     EndPointArray |-> eps, ServerObjID |-> id]

TrueEndPoints(d, a) ==
    [i \in 1..Len(d.EndPointArray) |-> EPOf(a, d.EndPointArray[i].Port, d.EndPointArray[i])]

LEMMA PortSet ==
    ASSUME NEW a, AddressFits(a), NEW port, Fits(2, port)
    PROVE  set_port(a, port) = Address(a.host, port)
  <1>1. port \in Nat /\ port % 65536 = port
    <2>1. 256^2 = 65536
      OBVIOUS
    <2>. QED  BY <2>1, FitsCut DEF Widths, Cut
  <1>. QED  BY <1>1 DEF AddressFits, set_port, Address

LEMMA EndPointsFit ==
    ASSUME NEW d, NodeFits(d)
    PROVE  /\ Len(d.EndPointArray) \in Nat
           /\ \A i \in 1..Len(d.EndPointArray) :
                 EPFits(d.EndPointArray[i].Port, d.EndPointArray[i])
  <1>1. d.EndPointArray \in Seq(EndPointData)
        /\ \A i \in DOMAIN d.EndPointArray : EndPointFits(d.EndPointArray[i])
    BY DEF NodeFits
  <1>2. /\ Len(d.EndPointArray) \in Nat
        /\ DOMAIN d.EndPointArray = 1..Len(d.EndPointArray)
    BY <1>1, LenProperties
  <1>3. ASSUME NEW i \in 1..Len(d.EndPointArray)
        PROVE  EPFits(d.EndPointArray[i].Port, d.EndPointArray[i])
    <2>1. EndPointFits(d.EndPointArray[i]) /\ d.EndPointArray[i] \in EndPointData
      BY <1>1, <1>2, ElementOfSeq
    <2>. QED  BY <2>1 DEF EPFits, EndPointFits, EndPointData
  <1>. QED  BY <1>2, <1>3

\* Discovery brings a server the data of the node, through its replies' bytes
\* (hnode-nodeobj.c, the replies; hnode-provider.c and hnode-provider-epoint.c, their
\* parsing).
THEOREM DiscoveredTells ==
    ASSUME NEW d, NodeFits(d), NEW a, AddressFits(a)
    PROVE  Discovered(d, a) = RecordOf(d, a, TrueEndPoints(d, a), 0)
  <1> DEFINE prov == set_address(NewProvider, AddrStr(a))
             n == Len(d.EndPointArray)
             info == ParsePInfo(prov, Skip(Reset(PInfoReply(d, 1)), 8))
  <1>1. info = Informed(prov, d)
    BY PInfoTrip
  <1>2. prov = [AddrObj |-> a, ConfigAddrObj |-> NoAddress, ConfigPort |-> 0,
                MicroVersion |-> 0, MinorVersion |-> 0, MajorVersion |-> 0,
                NodeUID |-> [i \in 1..UIDLength |-> 0], EndPointArray |-> <<>>,
                ServerObjID |-> 0]
    <2>1. AddressOf(AddrStr(a)) = a
      BY DEF AddressFits, AddressOf, AddrStr, Address
    <2>2. PICK zeros : zeros = [i \in 1..UIDLength |-> 0]
      OBVIOUS
    <2>3. NewProvider = [AddrObj |-> NoAddress, ConfigAddrObj |-> NoAddress, ConfigPort |-> 0,
                         MicroVersion |-> 0, MinorVersion |-> 0, MajorVersion |-> 0,
                         NodeUID |-> zeros, EndPointArray |-> <<>>, ServerObjID |-> 0]
      BY <2>2 DEF NewProvider
    <2>4. [NewProvider EXCEPT !.AddrObj = a]
            = [AddrObj |-> a, ConfigAddrObj |-> NoAddress, ConfigPort |-> 0,
               MicroVersion |-> 0, MinorVersion |-> 0, MajorVersion |-> 0,
               NodeUID |-> zeros, EndPointArray |-> <<>>, ServerObjID |-> 0]
      BY <2>3
    <2>5. prov = [AddrObj |-> a, ConfigAddrObj |-> NoAddress, ConfigPort |-> 0,
                  MicroVersion |-> 0, MinorVersion |-> 0, MajorVersion |-> 0,
                  NodeUID |-> zeros, EndPointArray |-> <<>>, ServerObjID |-> 0]
      BY <2>1, <2>4, ZenonT(60) DEF set_address, update_config_addr
    <2>. HIDE DEF prov
    <2>. QED  BY <2>2, <2>5
  <1>3. Fits(2, d.ConfigPort)
    BY DEF NodeFits
  <1>4. d.ConfigPort = 0 \/ set_port(a, d.ConfigPort) = Address(a.host, d.ConfigPort)
    BY <1>3, PortSet
  <1>5. info = RecordOf(d, a, allocate_endpoint_array(n), 0)
    <2>. HIDE DEF prov, info
    <2>1. PICK blank : blank = allocate_endpoint_array(n)
      OBVIOUS
    <2>2. PICK zeros : zeros = [i \in 1..UIDLength |-> 0]
      OBVIOUS
    <2>. QED  BY <1>1, <1>2, <1>4, <2>1, <2>2, ZenonT(60) DEF Informed, update_config_addr, RecordOf
  <1>6. n \in Nat /\ DOMAIN info.EndPointArray = 1..n
    <2>. HIDE DEF prov, info
    <2>1. info.EndPointArray = allocate_endpoint_array(n)
      BY <1>5 DEF RecordOf
    <2>. QED  BY <2>1, EndPointsFit DEF allocate_endpoint_array
  <1> DEFINE eps == [i \in 1..n |->
                        ParseRxPacket(a, Skip(Reset(EPInfoReply(d, 1 + i, i - 1)), 12))]
  <1>7. Discovered(d, a) = [info EXCEPT !.EndPointArray = eps]
    <2>. HIDE DEF prov
    <2>1. Discovered(d, a) =
            [info EXCEPT !.EndPointArray = [i \in DOMAIN @ |->
                ParseRxPacket(a, Skip(Reset(EPInfoReply(d, 1 + i, i - 1)), 12))]]
      BY DEF Discovered, prov
    <2>. HIDE DEF info
    <2>. QED  BY <1>6, <2>1
  <1>. HIDE DEF info, prov
  <1>8. eps = TrueEndPoints(d, a)
    <2>1. ASSUME NEW i \in 1..n PROVE eps[i] = EPOf(a, d.EndPointArray[i].Port, d.EndPointArray[i])
      <3>1. PICK j, t \in Nat : j = i - 1 /\ j + 1 = i /\ t = 1 + i
        BY <1>6
      <3>2. EPFits(d.EndPointArray[i].Port, d.EndPointArray[i])
        BY EndPointsFit
      <3>3. PICK e : e = d.EndPointArray[i]
        OBVIOUS
      <3>4. RepliesWith(d, t, j, a, e)
        BY <3>1, <3>2, <3>3, EPInfoTrip
      <3>. QED  BY <3>1, <3>3, <3>4 DEF RepliesWith
    <2>. QED  BY <2>1 DEF TrueEndPoints
  <1>. HIDE DEF eps
  <1>. QED  BY <1>5, <1>7, <1>8 DEF RecordOf
--------------------------------------------------------------------------------
(* From the server to the browser: the end points.                         *)

\* End points that fit an update.
EPsFit(eps, n) ==
    /\ n \in Nat /\ DOMAIN eps = 1..n
    /\ \A k \in 1..n : EPFits(eps[k].AddrObj.port, eps[k])

SentEP(ep) == EPBytes(EPUpdateLayout, ep.AddrObj.port, ep)

BuildScan(h, p, eps, n) ==
    h = [s \in SUBSET (1..n) |->
            IF s = {} THEN p ELSE BuildEndPoint(h[s \ {Max(s)}], eps[Max(s)])]

\* The packets of the fold, from p to q.
IsBuildTrace(g, p, eps, n, q) ==
    /\ g \in [0..n -> [data : Seq(Nat), off : Nat, cap : Nat]]
    /\ g[0] = p /\ g[n] = q
    /\ \A k \in 0..n : Written(g[k], g[k].data)
    /\ \A k \in 1..n : g[k].data = g[k - 1].data \o SentEP(eps[k])

LEMMA EPWritten ==
    ASSUME NEW p, NEW a, Written(p, a), NEW ep, EPFits(ep.AddrObj.port, ep)
    PROVE  SentEP(ep) \in Seq(Nat) /\ Written(BuildEndPoint(p, ep), a \o SentEP(ep))
  <1> DEFINE r == EPFields(ep.AddrObj.port, ep)
             F == FieldBytes(EPUpdateLayout, r)
             M == ep.MimeTypeStr
             q == SetFields(p, EPUpdateLayout, r)
  <1>1. /\ IsLayout(EPUpdateLayout) /\ Fills(r, EPUpdateLayout) /\ F \in Seq(Nat)
        /\ SentEP(ep) \in Seq(Nat)
    BY EPBytesAreBytes DEF IsEPLayout, SentEP
  <1>2. M \in Seq(Nat) /\ a \in Seq(Nat)
    BY DEF EPFits, Written
  <1>3. BuildEndPoint(p, ep) = SetBytes(q, M)
    BY DEF BuildEndPoint, EPFields
  <1>4. SentEP(ep) = F \o M
    BY DEF SentEP, EPBytes
  <1>. HIDE DEF r, F, M
  <1>5. Written(q, a \o F)
    BY <1>1, WriteFields DEF F
  <1>. HIDE DEF q
  <1>6. Written(SetBytes(q, M), (a \o F) \o M)
    BY <1>2, <1>5, WriteBytes
  <1>7. Nest3(a, F, M)
    BY <1>1, <1>2, Nested3
  <1>. QED  BY <1>1, <1>3, <1>4, <1>6, <1>7 DEF Nest3

LEMMA BuildTrace ==
    ASSUME NEW p, Written(p, p.data), NEW eps, NEW n, EPsFit(eps, n)
    PROVE  \E g : IsBuildTrace(g, p, eps, n, FoldLeft(BuildEndPoint, p, eps))
  <1> DEFINE P == [data : Seq(Nat), off : Nat, cap : Nat]
             B == {q \in P : Written(q, q.data)}
             G == [x \in (1..n) \X B |-> BuildEndPoint(x[2], eps[x[1]])]
             f == CHOOSE h : BuildScan(h, p, eps, n)
  <1>1. n \in Nat /\ DOMAIN eps = 1..n /\ p \in B
    BY DEF EPsFit, Written, IsPacket
  <1>2. ASSUME NEW k \in 1..n, NEW q \in B
        PROVE  /\ BuildEndPoint(q, eps[k]) \in B
               /\ BuildEndPoint(q, eps[k]).data = q.data \o SentEP(eps[k])
    <2>1. EPFits(eps[k].AddrObj.port, eps[k])
      BY DEF EPsFit
    <2>2. PICK ep : ep = eps[k]
      OBVIOUS
    <2>3. PICK d : d = q.data /\ Written(q, d)
      OBVIOUS
    <2>4. Written(BuildEndPoint(q, ep), d \o SentEP(ep))
      BY <2>1, <2>2, <2>3, EPWritten
    <2>. QED  BY <2>2, <2>3, <2>4 DEF Written, IsPacket
  <1>. HIDE DEF B
  <1>3. /\ G \in [(1..n) \X B -> B]
        /\ \A k \in 1..n, q \in B : G[<<k, q>>] = BuildEndPoint(q, eps[k])
    BY <1>2
  <1>4. FoldLeft(BuildEndPoint, p, eps) = f[1..n]
    BY <1>1 DEF BuildScan, FoldLeft, MapThenFoldSet
  <1>. HIDE DEF G, f
  <1>5. PICK h \in [SUBSET (1..n) -> B] : FoldsTo(h, n, p, G)
    BY <1>1, <1>3, FoldIsDefined DEF IsFold
  <1>6. BuildScan(h, p, eps, n)
    <2>1. ASSUME NEW s \in SUBSET (1..n)
          PROVE  h[s] = IF s = {} THEN p ELSE BuildEndPoint(h[s \ {Max(s)}], eps[Max(s)])
      <3>1. CASE s # {}
        <4>1. Max(s) \in 1..n /\ h[s \ {Max(s)}] \in B
          BY <1>1, <3>1, MaxOfPositions
        <4>. QED  BY <1>3, <1>5, <3>1, <4>1 DEF FoldsTo
      <3>. QED  BY <1>5, <3>1 DEF FoldsTo
    <2>2. h = [s \in SUBSET (1..n) |-> h[s]]
      OBVIOUS
    <2>. QED  BY <2>1, <2>2 DEF BuildScan
  <1>7. BuildScan(f, p, eps, n)
    BY <1>6 DEF f
  <1>8. FoldsBy(f, n, B, p, G)
    <2>1. f[{}] = p
      BY <1>7 DEF BuildScan
    <2>2. ASSUME NEW s \in SUBSET (1..n), s # {}, f[s \ {Max(s)}] \in B
          PROVE  f[s] = G[<<Max(s), f[s \ {Max(s)}]>>]
      <3>1. Max(s) \in 1..n
        BY <1>1, <2>2, MaxOfPositions
      <3>2. f[s] = BuildEndPoint(f[s \ {Max(s)}], eps[Max(s)])
        BY <1>7, <2>2 DEF BuildScan
      <3>. QED  BY <1>3, <2>2, <3>1, <3>2
    <2>. QED  BY <2>1, <2>2 DEF FoldsBy
  <1>9. PICK g : FoldTrace(g, n, B, p, G, f[1..n])
    BY <1>1, <1>3, <1>8, FoldPrefixes
  <1>10. IsBuildTrace(g, p, eps, n, f[1..n])
    <2>1. g \in [0..n -> B] /\ g[0] = p /\ g[n] = f[1..n]
          /\ \A k \in 1..n : g[k] = G[<<k, g[k - 1]>>]
      BY <1>9 DEF FoldTrace
    <2>2. \A k \in 1..n : k - 1 \in 0..n
      BY <1>1
    <2>3. ASSUME NEW k \in 1..n PROVE g[k].data = g[k - 1].data \o SentEP(eps[k])
      <3>1. PICK q \in B : q = g[k - 1]
        BY <2>1, <2>2
      <3>2. g[k] = BuildEndPoint(q, eps[k])
        BY <1>3, <2>1, <3>1
      <3>3. BuildEndPoint(q, eps[k]).data = q.data \o SentEP(eps[k])
        BY <1>2
      <3>. QED  BY <3>1, <3>2, <3>3
    <2>4. \A q \in B : q \in P /\ Written(q, q.data)
      BY DEF B
    <2>. HIDE DEF P
    <2>5. \A k \in 0..n : g[k] \in P /\ Written(g[k], g[k].data)
      BY <2>1, <2>4
    <2>6. g \in [0..n -> P]
      BY <2>1, <2>5
    <2>. QED  BY <2>1, <2>3, <2>5, <2>6 DEF IsBuildTrace, P
  <1>. QED  BY <1>4, <1>10

\* The bytes of end points, one after the other.
Sent(eps, n) == [k \in 1..n |-> SentEP(eps[k])]

\* Where an end point is in them.
SentAt(c, ep, n, k) ==
    /\ Around(c[n], c[k - 1], SentEP(ep))
    /\ c[k - 1] \in Seq(Nat) /\ SentEP(ep) \in Seq(Nat)
    /\ Len(c[k]) = Len(c[k - 1]) + Len(SentEP(ep))

LEMMA SentAround ==
    ASSUME NEW c, NEW eps, NEW n, Grows(c, Sent(eps, n), n), NEW k \in 1..n
    PROVE  SentAt(c, eps[k], n, k)
  <1>1. n \in Nat /\ k - 1 \in 0..n
    BY DEF Grows
  <1>2a. Sent(eps, n)[k] = SentEP(eps[k])
    BY DEF Sent
  <1>2. PICK x : x = Sent(eps, n) /\ x[k] = SentEP(eps[k])
    BY <1>2a
  <1>3. Around(c[n], c[k - 1], x[k])
    BY <1>2, GrowsAround
  <1>4. c[k - 1] \in Seq(Nat) /\ x[k] \in Seq(Nat) /\ c[k] = c[k - 1] \o x[k]
    BY <1>1, <1>2 DEF Grows
  <1>5. Len(c[k]) = Len(c[k - 1]) + Len(x[k])
    BY <1>4, Joins
  <1>. QED  BY <1>2, <1>3, <1>4, <1>5 DEF SentAt

\* The bytes that the fold adds, whatever was written before.
GrowsBehind(e, a, b, x, n) == Grows(e, x, n) /\ e[0] = <<>> /\ b = a \o e[n]

LEMMA Cancels ==
    ASSUME NEW a \in Seq(Nat), NEW b \in Seq(Nat), NEW c \in Seq(Nat), a \o b = a \o c
    PROVE  b = c
  <1>1. PICK m, i, j \in Nat : m = Len(a) /\ i = Len(b) /\ j = Len(c)
    BY LenProperties
  <1>2. /\ Len(a \o b) = m + i /\ Len(a \o c) = m + j
        /\ \A k \in 1..(m + i) : (a \o b)[k] = IF k <= m THEN a[k] ELSE b[k - m]
        /\ \A k \in 1..(m + j) : (a \o c)[k] = IF k <= m THEN a[k] ELSE c[k - m]
    BY <1>1, ConcatProperties
  <1>3. i = j
    BY <1>1, <1>2
  <1>4. ASSUME NEW k \in 1..i PROVE b[k] = c[k]
    <2>1. m + k \in 1..(m + i) /\ ~(m + k <= m) /\ (m + k) - m = k
      BY <1>1
    <2>. QED  BY <1>2, <1>3, <2>1
  <1>. QED  BY <1>1, <1>3, <1>4, SeqEqual

LEMMA GrowthBehind ==
    ASSUME NEW g, NEW x, NEW n, Grows(g, x, n)
    PROVE  \E e : GrowsBehind(e, g[0], g[n], x, n)
  <1> DEFINE From(k, y) == y \in Seq(Nat) /\ g[k] = g[0] \o y
             S == {k \in Nat : k <= n => \E y : From(k, y)}
             e == [k \in 0..n |-> CHOOSE y : From(k, y)]
  <1>1. n \in Nat /\ 0 \in 0..n /\ n \in 0..n /\ g[0] \in Seq(Nat)
    BY DEF Grows
  <1>2. From(0, <<>>)
    BY <1>1, ConcatEmptySeq
  <1>3. ASSUME NEW k \in Nat, k + 1 <= n, NEW y, From(k, y)
        PROVE  x[k + 1] \in Seq(Nat) /\ From(k + 1, y \o x[k + 1])
    <2>1. k + 1 \in 1..n /\ (k + 1) - 1 = k
      BY <1>1, <1>3
    <2>2. PICK z \in Seq(Nat) : z = x[k + 1] /\ g[k + 1] = g[k] \o z
      BY <2>1 DEF Grows
    <2>3. (g[0] \o y) \o z = g[0] \o (y \o z) /\ y \o z \in Seq(Nat)
      <3>1. Nest3(g[0], y, z)
        BY <1>1, <1>3, Nested3
      <3>2. y \o z \in Seq(Nat)
        BY <1>3, Joins
      <3>. QED  BY <3>1, <3>2 DEF Nest3
    <2>. QED  BY <1>3, <2>2, <2>3
  <1>4. S = Nat
    <2>1. 0 \in S
      BY <1>2
    <2>2. ASSUME NEW k \in Nat, k \in S PROVE k + 1 \in S
      <3>1. ASSUME k + 1 <= n PROVE \E y : From(k + 1, y)
        <4>1a. k <= n
          BY <1>1, <3>1
        <4>1. PICK y : From(k, y)
          BY <2>2, <4>1a
        <4>2. From(k + 1, y \o x[k + 1])
          BY <1>3, <3>1, <4>1
        <4>. HIDE DEF From
        <4>. QED  BY <4>2
      <3>. HIDE DEF From
      <3>. QED  BY <3>1
    <2>. HIDE DEF S
    <2>3. S \in SUBSET Nat
      BY DEF S
    <2>. QED  BY <2>1, <2>2, <2>3, Induction
  <1>5. ASSUME NEW k \in 0..n PROVE From(k, e[k])
    <2>1. k \in Nat /\ k <= n
      BY <1>1
    <2>. HIDE DEF From
    <2>2. \E y : From(k, y)
      BY <1>4, <2>1
    <2>. QED  BY <2>2
  <1>6. ASSUME NEW k \in 0..n, NEW y, From(k, y) PROVE y = e[k]
    <2>. HIDE DEF e
    <2>1. From(k, e[k])
      BY <1>5
    <2>. QED  BY <1>1, <1>6, <2>1, Cancels
  <1>. HIDE DEF e, From
  <1>7. e[0] = <<>>
    BY <1>1, <1>2, <1>6
  <1>8. ASSUME NEW k \in 1..n PROVE x[k] \in Seq(Nat) /\ e[k] = e[k - 1] \o x[k]
    <2>1. PICK j \in Nat : j = k - 1 /\ j + 1 = k /\ j + 1 <= n /\ j \in 0..n /\ k \in 0..n
      BY <1>1
    <2>2. x[j + 1] \in Seq(Nat) /\ From(j + 1, e[j] \o x[j + 1])
      BY <1>3, <1>5, <2>1
    <2>. QED  BY <1>6, <2>1, <2>2
  <1>9. Grows(e, x, n)
    BY <1>1, <1>5, <1>8 DEF Grows, From
  <1>10. g[n] = g[0] \o e[n]
    BY <1>1, <1>5 DEF From
  <1>. QED  BY <1>7, <1>9, <1>10 DEF GrowsBehind

LEMMA BuildGrows ==
    ASSUME NEW g, NEW p, NEW eps, NEW n, NEW q, EPsFit(eps, n), IsBuildTrace(g, p, eps, n, q)
    PROVE  \E e : GrowsBehind(e, p.data, q.data, Sent(eps, n), n)
  <1> DEFINE d == [k \in 0..n |-> g[k].data]
             x == Sent(eps, n)
  <1>1. n \in Nat /\ 0 \in 0..n /\ n \in 0..n
    BY DEF EPsFit
  <1>2. ASSUME NEW k \in 1..n PROVE x[k] \in Seq(Nat) /\ d[k] = d[k - 1] \o x[k]
    <2>1. EPFits(eps[k].AddrObj.port, eps[k])
      BY DEF EPsFit
    <2>2. SentEP(eps[k]) \in Seq(Nat)
      BY <2>1, EPBytesAreBytes DEF SentEP, IsEPLayout
    <2>3. k - 1 \in 0..n /\ k \in 0..n
      BY <1>1
    <2>4. x[k] = SentEP(eps[k])
      BY DEF Sent
    <2>. HIDE DEF x
    <2>. QED  BY <2>2, <2>3, <2>4 DEF IsBuildTrace
  <1>3. \A k \in 0..n : d[k] \in Seq(Nat)
    BY DEF IsBuildTrace
  <1>4. d[0] = p.data /\ d[n] = q.data
    BY <1>1 DEF IsBuildTrace
  <1>. HIDE DEF d, x
  <1>5. Grows(d, x, n)
    BY <1>1, <1>2, <1>3 DEF Grows
  <1>6. \E e : GrowsBehind(e, d[0], d[n], x, n)
    BY <1>5, GrowthBehind
  <1>. QED  BY <1>4, <1>6 DEF x

\* The same end points behind other bytes.
LEMMA GrowsAnywhere ==
    ASSUME NEW e, NEW x, NEW n, Grows(e, x, n), NEW a \in Seq(Nat)
    PROVE  Grows([k \in 0..n |-> a \o e[k]], x, n)
  <1> DEFINE c == [k \in 0..n |-> a \o e[k]]
  <1>1. n \in Nat
    BY DEF Grows
  <1>2. ASSUME NEW k \in 0..n PROVE c[k] \in Seq(Nat)
    <2>1. e[k] \in Seq(Nat)
      BY DEF Grows
    <2>2. a \o e[k] \in Seq(Nat)
      BY <2>1, Joins
    <2>. QED  BY <2>2
  <1>3. ASSUME NEW k \in 1..n PROVE x[k] \in Seq(Nat) /\ c[k] = c[k - 1] \o x[k]
    <2>1. k \in 0..n /\ k - 1 \in 0..n
      BY <1>1
    <2>2. PICK y, z \in Seq(Nat) : y = e[k - 1] /\ z = x[k] /\ e[k] = y \o z
      BY <2>1 DEF Grows
    <2>3. Nest3(a, y, z)
      BY Nested3
    <2>4. c[k] = a \o e[k] /\ c[k - 1] = a \o e[k - 1]
      BY <2>1
    <2>. HIDE DEF c
    <2>. QED  BY <2>2, <2>3, <2>4 DEF Nest3
  <1>. HIDE DEF c
  <1>4. Grows(c, x, n)
    BY <1>1, <1>2, <1>3 DEF Grows
  <1>. QED  BY <1>4 DEF c

\* The end points that are parsed, and what is left of the packet.
ParseNext(addr, acc) ==
    LET x == ParseEndPoint(addr, acc.pkt) IN Read(x.pkt, Append(acc.rec, x.rec))

ParsedEPs(addr, p, n) ==
    FoldLeft(LAMBDA acc, ep :
                LET x == ParseEndPoint(addr, acc.pkt)
                IN  Read(x.pkt, Append(acc.rec, x.rec)),
             Read(p, <<>>), allocate_endpoint_array(n))

ParseScan(h, addr, p, n) ==
    h = [s \in SUBSET (1..n) |->
            IF s = {} THEN Read(p, <<>>) ELSE ParseNext(addr, h[s \ {Max(s)}])]

AnyPacket == [data : Seq(Nat), off : Nat, cap : Nat]
AnyEP(addr) == {ParseEndPoint(addr, q).rec : q \in AnyPacket}
Parsing(addr) == [pkt : AnyPacket, rec : Seq(AnyEP(addr))]

IsParseTrace(g, addr, p, n, v) ==
    /\ g \in [0..n -> Parsing(addr)] /\ g[0] = Read(p, <<>>) /\ g[n] = v
    /\ \A k \in 1..n : g[k] = ParseNext(addr, g[k - 1])

LEMMA ParseGoesOn ==
    ASSUME NEW addr, NEW acc \in Parsing(addr)
    PROVE  ParseNext(addr, acc) \in Parsing(addr)
  <1> DEFINE p == acc.pkt
             f == GetFields(p, EPUpdateLayout)
             q == SkipFields(p, EPUpdateLayout)
             x == ParseEndPoint(addr, p)
             A == AnyEP(addr)
  <1>1. p \in AnyPacket /\ acc.rec \in Seq(A)
    BY DEF Parsing
  <1>2. IsPacket(q) /\ \A k \in 1..Len(EPUpdateLayout) : f[EPUpdateLayout[k][1]] \in Nat
    BY <1>1, Layouts, GetsFields DEF IsPacket, AnyPacket
  <1>3. f["MimeTypeLength"] \in Nat
    <2>1. Len(EPUpdateLayout) = 6 /\ EPUpdateLayout[6] = <<"MimeTypeLength", 4>>
      BY DEF EPUpdateLayout, Version
    <2>. HIDE DEF f
    <2>. QED  BY <1>2, <2>1
  <1>4. x.pkt = Skip(q, f["MimeTypeLength"])
    BY DEF ParseEndPoint, EndPointRead, Read
  <1>. HIDE DEF f, q
  <1>5. x.pkt \in AnyPacket
    <2>1. IsPacket(Skip(q, f["MimeTypeLength"]))
      BY <1>2, <1>3, SkipIsPacket
    <2>. QED  BY <1>4, <2>1 DEF IsPacket, AnyPacket
  <1>6. x.rec \in A
    BY <1>1 DEF AnyEP
  <1>7. ParseNext(addr, acc) = Read(x.pkt, Append(acc.rec, x.rec))
    BY DEF ParseNext
  <1>. HIDE DEF x, A
  <1>8. Append(acc.rec, x.rec) \in Seq(A)
    BY <1>1, <1>6, AppendProperties
  <1>. QED  BY <1>5, <1>7, <1>8 DEF Parsing, Read, A

LEMMA ParseTrace ==
    ASSUME NEW addr, NEW p, IsPacket(p), NEW n \in Nat
    PROVE  \E g : IsParseTrace(g, addr, p, n, ParsedEPs(addr, p, n))
  <1> DEFINE B == Parsing(addr)
             base == Read(p, <<>>)
             G == [x \in (1..n) \X B |-> ParseNext(addr, x[2])]
             f == CHOOSE h : ParseScan(h, addr, p, n)
  <1>1. base \in B
    BY DEF IsPacket, Parsing, AnyPacket, Read
  <1>2. DOMAIN allocate_endpoint_array(n) = 1..n
    BY DEF allocate_endpoint_array
  <1>3. ParsedEPs(addr, p, n) = f[1..n]
    BY <1>2 DEF ParsedEPs, ParseNext, ParseScan, FoldLeft, MapThenFoldSet
  <1>. HIDE DEF B, base, f
  <1>4. /\ G \in [(1..n) \X B -> B]
        /\ \A k \in 1..n, v \in B : G[<<k, v>>] = ParseNext(addr, v)
    BY ParseGoesOn DEF B
  <1>. HIDE DEF G
  <1>5. PICK h \in [SUBSET (1..n) -> B] : FoldsTo(h, n, base, G)
    BY <1>1, <1>4, FoldIsDefined DEF IsFold
  <1>6. ParseScan(h, addr, p, n)
    <2>1. ASSUME NEW s \in SUBSET (1..n)
          PROVE  h[s] = IF s = {} THEN base ELSE ParseNext(addr, h[s \ {Max(s)}])
      <3>1. CASE s # {}
        <4>1. Max(s) \in 1..n /\ h[s \ {Max(s)}] \in B
          BY <3>1, MaxOfPositions
        <4>. QED  BY <1>4, <1>5, <3>1, <4>1 DEF FoldsTo
      <3>. QED  BY <1>5, <3>1 DEF FoldsTo
    <2>2. h = [s \in SUBSET (1..n) |-> h[s]]
      OBVIOUS
    <2>. QED  BY <2>1, <2>2 DEF ParseScan, base
  <1>7. ParseScan(f, addr, p, n)
    BY <1>6 DEF f
  <1>8. FoldsBy(f, n, B, base, G)
    <2>1. f[{}] = base
      BY <1>7 DEF ParseScan, base
    <2>2. ASSUME NEW s \in SUBSET (1..n), s # {}, f[s \ {Max(s)}] \in B
          PROVE  f[s] = G[<<Max(s), f[s \ {Max(s)}]>>]
      <3>1. Max(s) \in 1..n
        BY <2>2, MaxOfPositions
      <3>2. f[s] = ParseNext(addr, f[s \ {Max(s)}])
        BY <1>7, <2>2 DEF ParseScan
      <3>. QED  BY <1>4, <2>2, <3>1, <3>2
    <2>. QED  BY <2>1, <2>2 DEF FoldsBy
  <1>9. PICK g : FoldTrace(g, n, B, base, G, f[1..n])
    BY <1>1, <1>4, <1>8, FoldPrefixes
  <1>10. IsParseTrace(g, addr, p, n, f[1..n])
    BY <1>4, <1>9 DEF FoldTrace, IsParseTrace, B, base
  <1>. QED  BY <1>3, <1>10

\* What the browser makes of the end points of an update.
ReadEP(addr, ep) == EPOf(addr, ep.AddrObj.port, ep)

\* A packet read up to an offset.
ReadTo(p, data, off) ==
    /\ p \in AnyPacket /\ p.data = data /\ p.off = off

LEMMA ReadableAt ==
    ASSUME NEW p, NEW d \in Seq(Nat), NEW a \in Seq(Nat), NEW b \in Seq(Nat), d = a \o b,
           ReadTo(p, d, Len(a))
    PROVE  Readable(p, b)
  <1>1. Len(a) \in Nat /\ Len(b) \in Nat
    BY LenProperties
  <1>2. /\ Len(d) = Len(a) + Len(b)
        /\ \A i \in 1..(Len(a) + Len(b)) : d[i] = IF i <= Len(a) THEN a[i] ELSE b[i - Len(a)]
    BY ConcatProperties
  <1>3. ASSUME NEW i \in 1..Len(b) PROVE d[Len(a) + i] = b[i]
    <2>1. Len(a) + i \in 1..(Len(a) + Len(b)) /\ ~(Len(a) + i <= Len(a))
          /\ (Len(a) + i) - Len(a) = i
      BY <1>1
    <2>. QED  BY <1>2, <2>1
  <1>. QED  BY <1>2, <1>3 DEF Readable, ReadTo, IsPacket, AnyPacket

\* The end points that are read are those sent.
EPsAgree(eps, n, addr, r) ==
    ParsedEPs(addr, r, n).rec = [k \in 1..n |-> ReadEP(addr, eps[k])]

LEMMA EPsRead ==
    ASSUME NEW c, NEW eps, NEW n, EPsFit(eps, n), Grows(c, Sent(eps, n), n),
           NEW addr, NEW r, ReadTo(r, c[n], Len(c[0]))
    PROVE  EPsAgree(eps, n, addr, r)
  <1>1. n \in Nat
    BY DEF EPsFit
  <1>2. PICK h : IsParseTrace(h, addr, r, n, ParsedEPs(addr, r, n))
    BY <1>1, ParseTrace DEF ReadTo, IsPacket, AnyPacket
  <1> DEFINE Done(k) == /\ ReadTo(h[k].pkt, c[n], Len(c[k]))
                        /\ Len(h[k].rec) = k
                        /\ \A i \in 1..k : h[k].rec[i] = ReadEP(addr, eps[i])
             S == {k \in Nat : k <= n => Done(k)}
  <1>3. 0 \in S
    BY <1>2 DEF IsParseTrace, Read
  <1>4. ASSUME NEW j \in Nat, j \in S, j + 1 <= n PROVE Done(j + 1)
    <2>1. PICK k : k = j + 1 /\ k \in 1..n /\ k - 1 = j /\ j \in 0..n /\ k \in 0..n
      BY <1>1, <1>4
    <2>2. Done(j)
      BY <1>1, <1>4
    <2>3a. SentAt(c, eps[k], n, k)
      BY <2>1, SentAround
    <2>3. PICK a, b \in Seq(Nat) : a = c[j] /\ b = SentEP(eps[k])
      BY <2>1, <2>3a DEF SentAt
    <2>4. Around(c[n], a, b) /\ Len(c[k]) = Len(a) + Len(b)
      BY <2>1, <2>3, <2>3a DEF SentAt
    <2>5. PICK t \in Seq(Nat) : c[n] = a \o (b \o t)
      BY <2>4 DEF Around
    <2>6. PICK bt, d \in Seq(Nat) : bt = b \o t /\ d = c[n]
      <3>1. PICK x \in Seq(Nat) : x = b \o t
        BY Joins
      <3>2. a \o x \in Seq(Nat)
        BY Joins
      <3>. QED  BY <2>5, <3>1, <3>2
    <2>7. PICK u : u = h[j].pkt /\ ReadTo(u, d, Len(a))
      BY <2>2, <2>3, <2>6
    <2>8. Readable(u, b \o t)
      BY <2>5, <2>6, <2>7, ReadableAt
    <2>9. PICK ep : ep = eps[k] /\ EPFits(ep.AddrObj.port, ep)
      BY <2>1 DEF EPsFit
    <2>10. PICK x : x = ParseEndPoint(addr, u)
      OBVIOUS
    <2>11. EPIsRead(x, u, EPUpdateLayout, addr, ep.AddrObj.port, ep, t)
      <3>1. Readable(u, EPBytes(EPUpdateLayout, ep.AddrObj.port, ep) \o t)
        BY <2>3, <2>8, <2>9 DEF SentEP
      <3>2. IsEPLayout(EPUpdateLayout)
        BY DEF IsEPLayout
      <3>. QED  BY <2>9, <2>10, <3>1, <3>2, EPRead DEF ParseEndPoint
    <2>12. x.rec = ReadEP(addr, ep) /\ ReadTo(x.pkt, d, Len(c[k]))
      <3>1. Len(b) = Width(EPUpdateLayout) + Len(ep.MimeTypeStr)
        BY <2>3, <2>9, EPBytesAreBytes DEF SentEP, IsEPLayout
      <3>2. Width(EPUpdateLayout) \in Nat /\ Len(ep.MimeTypeStr) \in Nat /\ Len(a) \in Nat
        <4>1. Len(FieldBytes(EPUpdateLayout, EPFields(ep.AddrObj.port, ep))) \in Nat
              /\ Len(FieldBytes(EPUpdateLayout, EPFields(ep.AddrObj.port, ep)))
                    = Width(EPUpdateLayout)
          BY <2>9, EPBytesAreBytes, FieldBytesAreBytes, LenProperties DEF IsEPLayout
        <4>. QED  BY <2>9, <4>1, LenProperties DEF EPFits
      <3>3. x.pkt.off = Len(a) + Len(b)
        BY <2>7, <2>11, <3>1, <3>2 DEF EPIsRead, ReadTo
      <3>. QED  BY <2>4, <2>7, <2>11, <3>3
                DEF EPIsRead, ReadTo, ReadEP, Readable, IsPacket, AnyPacket
    <2>13. h[k] = Read(x.pkt, Append(h[j].rec, x.rec))
      BY <1>2, <2>1, <2>7, <2>10 DEF IsParseTrace, ParseNext
    <2>14a. PICK A : h[j].rec \in Seq(A) /\ x.rec \in A
      <3>1. h[j] \in Parsing(addr)
        BY <1>2, <2>1 DEF IsParseTrace
      <3>2. x.rec \in AnyEP(addr)
        BY <2>7, <2>10 DEF AnyEP, ReadTo
      <3>. QED  BY <3>1, <3>2 DEF Parsing
    <2>14. PICK s \in Seq(A) : s = h[j].rec /\ Len(s) = j
      BY <2>2, <2>14a
    <2>15. /\ Len(Append(s, x.rec)) = j + 1 /\ Append(s, x.rec)[j + 1] = x.rec
           /\ \A i \in 1..j : Append(s, x.rec)[i] = s[i]
      BY <2>14, <2>14a, AppendProperties, SMTT(60)
    <2>16. h[k].pkt = x.pkt /\ h[k].rec = Append(s, x.rec)
      BY <2>13, <2>14 DEF Read
    <2>17. ASSUME NEW i \in 1..k PROVE h[k].rec[i] = ReadEP(addr, eps[i])
      <3>1. CASE i = k
        BY <2>1, <2>9, <2>12, <2>15, <2>16, <3>1
      <3>2. CASE i # k
        <4>1. i \in 1..j
          BY <2>1, <3>2
        <4>2. s[i] = ReadEP(addr, eps[i])
          BY <2>2, <2>14, <4>1
        <4>. QED  BY <2>15, <2>16, <4>1, <4>2
      <3>. QED  BY <3>1, <3>2
    <2>18. Len(h[k].rec) = k
      BY <2>1, <2>15, <2>16
    <2>19. ReadTo(h[k].pkt, c[n], Len(c[k]))
      BY <2>6, <2>12, <2>16
    <2>20. Done(k)
      BY <2>17, <2>18, <2>19
    <2>. HIDE DEF Done
    <2>. QED  BY <2>1, <2>20
  <1>5. S = Nat
    <2>. HIDE DEF Done
    <2>1. \A j \in Nat : j \in S => j + 1 \in S
      BY <1>1, <1>4
    <2>. HIDE DEF S
    <2>2. S \in SUBSET Nat
      BY DEF S
    <2>. QED  BY <1>3, <2>1, <2>2, Induction
  <1>6. Done(n)
    <2>. HIDE DEF Done
    <2>. QED  BY <1>1, <1>5
  <1>7. h[n] = ParsedEPs(addr, r, n) /\ h[n] \in Parsing(addr)
    BY <1>1, <1>2 DEF IsParseTrace
  <1>8a. PICK A : h[n].rec \in Seq(A)
    BY <1>7 DEF Parsing
  <1>8. PICK s \in Seq(A) : s = h[n].rec
    BY <1>8a
  <1>9. Len(s) = n /\ \A i \in 1..n : s[i] = ReadEP(addr, eps[i])
    BY <1>6, <1>8
  <1>10. s = [k \in 1..n |-> s[k]]
    BY <1>9, LenProperties
  <1>11. s = [k \in 1..n |-> ReadEP(addr, eps[k])]
    BY <1>9, <1>10
  <1>. QED  BY <1>7, <1>8, <1>11 DEF EPsAgree
--------------------------------------------------------------------------------
(* From the server to the browser: the record.                             *)

\* A record that fits an update.
RecordFits(r) ==
    /\ Fits(4, r.ServerObjID) /\ AddressFits(r.AddrObj) /\ Fits(2, r.ConfigPort)
    /\ VersionFits(r) /\ r.NodeUID \in Seq(Nat) /\ Len(r.NodeUID) = UIDLength
    /\ Fits(4, Len(r.EndPointArray)) /\ EPsFit(r.EndPointArray, Len(r.EndPointArray))

HeadOf(r) ==
    [ServerObjID |-> r.ServerObjID, Port |-> r.AddrObj.port, ConfigPort |-> r.ConfigPort,
     MicroVersion |-> r.MicroVersion, MinorVersion |-> r.MinorVersion,
     MajorVersion |-> r.MajorVersion]

TailOf(r) ==
    [EndPointCount |-> Len(r.EndPointArray), AddressType |-> 0,
     AddrStrLen |-> Len(AddrStr(r.AddrObj))]

\* What precedes the end points.
Preface(r) ==
    FieldBytes(UpdateHead, HeadOf(r)) \o
    (r.NodeUID \o (FieldBytes(UpdateTail, TailOf(r)) \o AddrStr(r.AddrObj)))

\* The fields f of a packet are those of the record.
HeadIs(f, r) ==
    /\ f["ServerObjID"] = r.ServerObjID /\ f["ConfigPort"] = r.ConfigPort
    /\ f["MicroVersion"] = r.MicroVersion /\ f["MinorVersion"] = r.MinorVersion
    /\ f["MajorVersion"] = r.MajorVersion

TailIs(f, r) ==
    /\ f["EndPointCount"] = Len(r.EndPointArray)
    /\ f["AddrStrLen"] = Len(AddrStr(r.AddrObj))

LEMMA AddrString ==
    ASSUME NEW a, AddressFits(a)
    PROVE  AddrStr(a) \in Seq(Nat) /\ Len(AddrStr(a)) = 2 /\ AddressOf(AddrStr(a)) = a
  <1>1. a.host \in Nat /\ a.port \in Nat /\ a = [host |-> a.host, port |-> a.port]
    BY DEF AddressFits
  <1>. QED  BY <1>1 DEF AddrStr, AddressOf, Address

HeadReads(r) ==
    /\ Fills(HeadOf(r), UpdateHead) /\ FieldBytes(UpdateHead, HeadOf(r)) \in Seq(Nat)
    /\ \A p, b : FieldsAre(p, UpdateHead, HeadOf(r), b) => HeadIs(GetFields(p, UpdateHead), r)

LEMMA HeadRead ==
    ASSUME NEW r, RecordFits(r)
    PROVE  HeadReads(r)
  <1> DEFINE L == UpdateHead
             h == HeadOf(r)
  <1>1. /\ Len(L) = 6 /\ L[1] = <<"ServerObjID", 4>> /\ L[2] = <<"Port", 2>>
        /\ L[3] = <<"ConfigPort", 2>> /\ L[4] = <<"MicroVersion", 2>>
        /\ L[5] = <<"MinorVersion", 1>> /\ L[6] = <<"MajorVersion", 1>>
    BY DEF UpdateHead, Version
  <1>. HIDE DEF L
  <1>2. /\ FieldValue(L, h, 1) = r.ServerObjID /\ FieldValue(L, h, 2) = r.AddrObj.port
        /\ FieldValue(L, h, 3) = r.ConfigPort /\ FieldValue(L, h, 4) = r.MicroVersion
        /\ FieldValue(L, h, 5) = r.MinorVersion /\ FieldValue(L, h, 6) = r.MajorVersion
    BY <1>1 DEF FieldValue, HeadOf
  <1>. HIDE DEF h
  <1>3. /\ Holds(4, r.ServerObjID) /\ Holds(2, r.AddrObj.port) /\ Holds(2, r.ConfigPort)
        /\ Holds(2, r.MicroVersion) /\ Holds(1, r.MinorVersion) /\ Holds(1, r.MajorVersion)
    BY FitsCut DEF RecordFits, AddressFits, VersionFits, Holds, Widths
  <1>4. Fills(h, L)
    BY <1>1, <1>2, <1>3 DEF Fills, Holds
  <1>5. ASSUME NEW p, NEW b, FieldsAre(p, L, h, b) PROVE HeadIs(GetFields(p, L), r)
    BY <1>1, <1>2, <1>3, <1>5 DEF FieldsAre, HeadIs, Holds
  <1>6. FieldBytes(L, h) \in Seq(Nat)
    BY <1>4, Layouts, FieldBytesAreBytes DEF L
  <1>. QED  BY <1>4, <1>5, <1>6 DEF HeadReads, L, h

TailIsRead(r) ==
    /\ Fills(TailOf(r), UpdateTail) /\ FieldBytes(UpdateTail, TailOf(r)) \in Seq(Nat)
    /\ \A p, b : FieldsAre(p, UpdateTail, TailOf(r), b) => TailIs(GetFields(p, UpdateTail), r)

LEMMA UpdateTailRead ==
    ASSUME NEW r, RecordFits(r)
    PROVE  TailIsRead(r)
  <1> DEFINE L == UpdateTail
             h == TailOf(r)
  <1>1. /\ Len(L) = 3 /\ L[1] = <<"EndPointCount", 4>> /\ L[2] = <<"AddressType", 4>>
        /\ L[3] = <<"AddrStrLen", 4>>
    BY DEF UpdateTail
  <1>. HIDE DEF L
  <1>2. /\ FieldValue(L, h, 1) = Len(r.EndPointArray) /\ FieldValue(L, h, 2) = 0
        /\ FieldValue(L, h, 3) = Len(AddrStr(r.AddrObj))
    BY <1>1 DEF FieldValue, TailOf
  <1>. HIDE DEF h
  <1>3. Holds(4, Len(r.EndPointArray)) /\ Holds(4, Len(AddrStr(r.AddrObj)))
    <2>1. Fits(4, Len(r.EndPointArray))
      BY DEF RecordFits
    <2>2. Len(AddrStr(r.AddrObj)) = 2
      BY AddrString DEF RecordFits
    <2>3. Cut(4, 2) = 2
      <3>1. 256^4 = 4294967296
        OBVIOUS
      <3>. QED  BY <3>1 DEF Cut
    <2>. QED  BY <2>1, <2>2, <2>3, FitsCut DEF Holds, Widths
  <1>4. Fills(h, L)
    BY <1>1, <1>2, <1>3 DEF Fills, Holds
  <1>5. ASSUME NEW p, NEW b, FieldsAre(p, L, h, b) PROVE TailIs(GetFields(p, L), r)
    BY <1>1, <1>2, <1>3, <1>5 DEF FieldsAre, TailIs, Holds
  <1>6. FieldBytes(L, h) \in Seq(Nat)
    BY <1>4, Layouts, FieldBytesAreBytes DEF L
  <1>. QED  BY <1>4, <1>5, <1>6 DEF TailIsRead, L, h

\* The bytes e of the end points of a record, and an update that ends in them.
EPBytesOf(e, r) ==
    Grows(e, Sent(r.EndPointArray, Len(r.EndPointArray)), Len(r.EndPointArray)) /\ e[0] = <<>>

EndsOf(e, r) == e[Len(r.EndPointArray)]

UpdateIs(q, b, r, e) ==
    /\ Written(q, q.data) /\ EPBytesOf(e, r) /\ EndsOf(e, r) \in Seq(Nat)
    /\ Preface(r) \in Seq(Nat)
    /\ q.data = b \o (Preface(r) \o EndsOf(e, r))

LEMMA UpdateBuilt ==
    ASSUME NEW r, RecordFits(r), NEW p, NEW b, Written(p, b)
    PROVE  \E e : UpdateIs(BuildClientUpdate(p, r), b, r, e)
  <1> DEFINE H == FieldBytes(UpdateHead, HeadOf(r))
             U == r.NodeUID
             T == FieldBytes(UpdateTail, TailOf(r))
             A == AddrStr(r.AddrObj)
             eps == r.EndPointArray
             n == Len(eps)
  <1>1. /\ H \in Seq(Nat) /\ Fills(HeadOf(r), UpdateHead)
        /\ T \in Seq(Nat) /\ Fills(TailOf(r), UpdateTail)
    BY HeadRead, UpdateTailRead DEF HeadReads, TailIsRead
  <1>2. U \in Seq(Nat) /\ A \in Seq(Nat) /\ b \in Seq(Nat) /\ EPsFit(eps, n) /\ n \in Nat
    BY AddrString DEF RecordFits, Written, EPsFit
  <1> DEFINE p1 == SetFields(p, UpdateHead, HeadOf(r))
             p2 == SetBytes(p1, U)
             p3 == SetFields(p2, UpdateTail, TailOf(r))
             p4 == SetBytes(p3, A)
             q == FoldLeft(BuildEndPoint, p4, eps)
  <1>3. BuildClientUpdate(p, r) = q
    BY DEF BuildClientUpdate, HeadOf, TailOf
  <1>. HIDE DEF H, T, U, A, eps, n
  <1>4. Written(p1, b \o H)
    BY <1>1, Layouts, WriteFields DEF H
  <1>. HIDE DEF p1
  <1>5. Written(p2, (b \o H) \o U)
    BY <1>2, <1>4, WriteBytes
  <1>. HIDE DEF p2
  <1>6. Written(p3, ((b \o H) \o U) \o T)
    BY <1>1, <1>5, Layouts, WriteFields DEF T
  <1>. HIDE DEF p3
  <1>7. Written(p4, (((b \o H) \o U) \o T) \o A)
    BY <1>2, <1>6, WriteBytes
  <1>. HIDE DEF p4
  <1>8. PICK P \in Seq(Nat) : P = Preface(r) /\ (((b \o H) \o U) \o T) \o A = b \o P
    <2>1. Nest5(b, H, U, T, A)
      BY <1>1, <1>2, Nested5
    <2>2. PICK x \in Seq(Nat) : x = T \o A
      BY <1>1, <1>2, Joins
    <2>3. PICK y \in Seq(Nat) : y = U \o x
      BY <1>2, Joins
    <2>4. H \o y \in Seq(Nat)
      BY <1>1, Joins
    <2>5. Preface(r) = H \o (U \o (T \o A))
      BY DEF Preface, H, U, T, A
    <2>. QED  BY <2>1, <2>2, <2>3, <2>4, <2>5 DEF Nest5
  <1>9. Written(p4, p4.data) /\ p4.data = b \o P
    BY <1>7, <1>8 DEF Written
  <1>10. PICK g : IsBuildTrace(g, p4, eps, n, q)
    BY <1>2, <1>9, BuildTrace
  <1>. HIDE DEF q
  <1>11. PICK e : GrowsBehind(e, p4.data, q.data, Sent(eps, n), n)
    BY <1>2, <1>10, BuildGrows
  <1>12. e[n] \in Seq(Nat)
    BY <1>2, <1>11 DEF GrowsBehind, Grows
  <1>13. q.data = b \o (P \o e[n])
    <2>1. Nest3(b, P, e[n])
      BY <1>2, <1>8, <1>12, Nested3
    <2>. QED  BY <1>9, <1>11, <2>1 DEF GrowsBehind, Nest3
  <1>14. Written(q, q.data)
    BY <1>2, <1>10 DEF IsBuildTrace
  <1>15. EPBytesOf(e, r) /\ EndsOf(e, r) = e[n]
    BY <1>11 DEF GrowsBehind, EPBytesOf, EndsOf, eps, n
  <1>16. UpdateIs(q, b, r, e)
    BY <1>8, <1>12, <1>13, <1>14, <1>15 DEF UpdateIs
  <1>. QED  BY <1>3, <1>16

\* What a packet has been read of.
LEMMA ReadableSplits ==
    ASSUME NEW p, NEW b, Readable(p, b)
    PROVE  \E a \in Seq(Nat) : p.data = a \o b /\ ReadTo(p, p.data, Len(a))
  <1>1. PICK d \in Seq(Nat), o \in Nat : d = p.data /\ o = p.off /\ p \in AnyPacket
    BY DEF Readable, IsPacket, AnyPacket
  <1>2. /\ b \in Seq(Nat) /\ Len(b) \in Nat /\ Len(d) = o + Len(b)
        /\ \A i \in 1..Len(b) : d[o + i] = b[i]
    BY <1>1, LenProperties DEF Readable
  <1> DEFINE a == SubSeq(d, 1, o)
  <1>3. a \in Seq(Nat) /\ Len(a) = o /\ \A i \in 1..o : a[i] = d[i]
    <2>1. 0 + o <= Len(d) /\ 0 + 1 = 1 /\ 0 + o = o /\ \A i \in 1..o : 0 + i = i
      BY <1>2
    <2>2. /\ SubSeq(d, 0 + 1, 0 + o) \in Seq(Nat) /\ Len(SubSeq(d, 0 + 1, 0 + o)) = o
          /\ \A i \in 1..o : SubSeq(d, 0 + 1, 0 + o)[i] = d[0 + i]
      BY <2>1, Slice
    <2>. QED  BY <2>1, <2>2
  <1>. HIDE DEF a
  <1>4. /\ a \o b \in Seq(Nat) /\ Len(a \o b) = o + Len(b)
        /\ \A i \in 1..(o + Len(b)) : (a \o b)[i] = IF i <= o THEN a[i] ELSE b[i - o]
    BY <1>2, <1>3, ConcatProperties
  <1>5. ASSUME NEW i \in 1..Len(d) PROVE d[i] = (a \o b)[i]
    <2>1. CASE i <= o
      BY <1>2, <1>3, <1>4, <2>1
    <2>2. CASE ~(i <= o)
      <3>1. i - o \in 1..Len(b) /\ o + (i - o) = i
        BY <1>2, <2>2
      <3>. QED  BY <1>2, <1>4, <2>2, <3>1
    <2>. QED  BY <2>1, <2>2
  <1>6. d = a \o b
    BY <1>2, <1>4, <1>5, SeqEqual
  <1>. QED  BY <1>1, <1>3, <1>6 DEF ReadTo

\* What the browser makes of a record.
ReadRecord(r) ==
    RecordOf(r, r.AddrObj,
             [k \in 1..Len(r.EndPointArray) |-> ReadEP(r.AddrObj, r.EndPointArray[k])],
             r.ServerObjID)

LEMMA UpdateRead ==
    ASSUME NEW r, RecordFits(r), NEW e, EPBytesOf(e, r), NEW p,
           Readable(p, Preface(r) \o EndsOf(e, r))
    PROVE  ParseClientUpdate(NewProvider, p) = ReadRecord(r)
  <1> DEFINE H == FieldBytes(UpdateHead, HeadOf(r))
             U == r.NodeUID
             T == FieldBytes(UpdateTail, TailOf(r))
             A == AddrStr(r.AddrObj)
             eps == r.EndPointArray
             n == Len(eps)
             E == e[n]
  <1>1. /\ H \in Seq(Nat) /\ Fills(HeadOf(r), UpdateHead)
        /\ T \in Seq(Nat) /\ Fills(TailOf(r), UpdateTail)
    BY HeadRead, UpdateTailRead DEF HeadReads, TailIsRead
  <1>2. /\ U \in Seq(Nat) /\ Len(U) = UIDLength /\ A \in Seq(Nat) /\ Len(A) = 2
        /\ AddressOf(A) = r.AddrObj /\ EPsFit(eps, n) /\ n \in Nat /\ E \in Seq(Nat)
    <2>1. n \in Nat /\ EPsFit(eps, n)
      BY DEF RecordFits, EPsFit
    <2>2. E \in Seq(Nat)
      BY <2>1 DEF EPBytesOf, Grows
    <2>. QED  BY <2>1, <2>2, AddrString DEF RecordFits
  <1> DEFINE h  == GetFields(p, UpdateHead)
             q1 == SkipFields(p, UpdateHead)
             q2 == Skip(q1, UIDLength)
             t  == GetFields(q2, UpdateTail)
             q3 == SkipFields(q2, UpdateTail)
             q4 == Skip(q3, t["AddrStrLen"])
             s  == GetBytes(q3, t["AddrStrLen"])
  <1>3. PICK ae \in Seq(Nat) : ae = A \o E
    BY <1>2, Joins
  <1>4. PICK tae \in Seq(Nat) : tae = T \o ae
    BY <1>1, Joins
  <1>5. PICK utae \in Seq(Nat) : utae = U \o tae
    BY <1>2, Joins
  <1>. HIDE DEF H, U, T, A, eps, n, E
  <1>6. Readable(p, H \o utae)
    <2>1. Preface(r) = H \o (U \o (T \o A)) /\ EndsOf(e, r) = E
      BY DEF Preface, EndsOf, H, U, T, A, E, eps, n
    <2>2. PICK x \in Seq(Nat) : x = T \o A
      BY <1>1, <1>2, Joins
    <2>3. PICK y \in Seq(Nat) : y = U \o x
      BY <1>2, Joins
    <2>4. Nest3(H, y, E) /\ Nest3(U, x, E) /\ Nest3(T, A, E)
      BY <1>1, <1>2, Nested3
    <2>5. (H \o y) \o E = H \o utae
      BY <1>3, <1>4, <1>5, <2>2, <2>3, <2>4 DEF Nest3
    <2>. QED  BY <2>1, <2>2, <2>3, <2>5
  <1>7. FieldsAre(p, UpdateHead, HeadOf(r), utae)
    BY <1>1, <1>6, Layouts, FieldsRead DEF H
  <1>8. HeadIs(h, r) /\ Readable(q1, utae)
    BY <1>7, HeadRead DEF HeadReads, FieldsAre
  <1>. HIDE DEF h, q1
  <1>9. GetBytes(q1, UIDLength) = U /\ Readable(q2, tae)
    BY <1>2, <1>5, <1>8, BytesRead
  <1>. HIDE DEF q2
  <1>10. FieldsAre(q2, UpdateTail, TailOf(r), ae)
    BY <1>1, <1>4, <1>9, Layouts, FieldsRead DEF T
  <1>11. TailIs(t, r) /\ Readable(q3, ae)
    BY <1>10, UpdateTailRead DEF TailIsRead, FieldsAre
  <1>12. t["EndPointCount"] = n /\ t["AddrStrLen"] = 2
    BY <1>2, <1>11 DEF TailIs, eps, n, A
  <1>. HIDE DEF t, q3
  <1>13. s = A /\ Readable(q4, E)
    BY <1>2, <1>3, <1>11, <1>12, BytesRead
  <1>. HIDE DEF s, q4
  <1>14. PICK a \in Seq(Nat) : q4.data = a \o E /\ ReadTo(q4, q4.data, Len(a))
    BY <1>13, ReadableSplits
  <1> DEFINE c == [k \in 0..n |-> a \o e[k]]
  <1>15. Grows(c, Sent(eps, n), n)
    BY GrowsAnywhere DEF EPBytesOf, eps, n
  <1>16. c[n] = q4.data /\ c[0] = a
    <2>1. 0 \in 0..n /\ n \in 0..n /\ e[0] = <<>>
      BY <1>2 DEF EPBytesOf
    <2>2. a \o <<>> = a
      BY ConcatEmptySeq
    <2>. QED  BY <1>14, <2>1, <2>2 DEF E
  <1>. HIDE DEF c
  <1>17. ParsedEPs(r.AddrObj, q4, n).rec = [k \in 1..n |-> ReadEP(r.AddrObj, eps[k])]
    <2>1. EPsAgree(eps, n, r.AddrObj, q4)
      BY <1>2, <1>14, <1>15, <1>16, EPsRead
    <2>. QED  BY <2>1 DEF EPsAgree
  <1> DEFINE heard == set_address(
                [NewProvider EXCEPT !.ServerObjID = h["ServerObjID"],
                                    !.ConfigPort = h["ConfigPort"],
                                    !.MicroVersion = h["MicroVersion"],
                                    !.MinorVersion = h["MinorVersion"],
                                    !.MajorVersion = h["MajorVersion"],
                                    !.NodeUID = GetBytes(q1, UIDLength)],
                s)
  <1>18. ParseClientUpdate(NewProvider, p)
           = [heard EXCEPT !.EndPointArray = ParsedEPs(heard.AddrObj, q4, t["EndPointCount"]).rec]
    BY DEF ParseClientUpdate, ParsedEPs, h, q1, q2, t, q3, q4, s
  <1>19. heard = RecordOf(r, r.AddrObj, <<>>, r.ServerObjID)
    <2>1. PICK zeros : NewProvider =
                [AddrObj |-> NoAddress, ConfigAddrObj |-> NoAddress, ConfigPort |-> 0,
                 MicroVersion |-> 0, MinorVersion |-> 0, MajorVersion |-> 0,
                 NodeUID |-> zeros, EndPointArray |-> <<>>, ServerObjID |-> 0]
      BY DEF NewProvider
    <2>2. r.ConfigPort = 0 \/ set_port(r.AddrObj, r.ConfigPort)
                                = Address(r.AddrObj.host, r.ConfigPort)
      BY PortSet DEF RecordFits
    <2> DEFINE new == [NewProvider EXCEPT !.ServerObjID = h["ServerObjID"],
                                          !.ConfigPort = h["ConfigPort"],
                                          !.MicroVersion = h["MicroVersion"],
                                          !.MinorVersion = h["MinorVersion"],
                                          !.MajorVersion = h["MajorVersion"],
                                          !.NodeUID = GetBytes(q1, UIDLength)]
    <2>3. new = [AddrObj |-> NoAddress, ConfigAddrObj |-> NoAddress,
                 ConfigPort |-> r.ConfigPort, MicroVersion |-> r.MicroVersion,
                 MinorVersion |-> r.MinorVersion, MajorVersion |-> r.MajorVersion,
                 NodeUID |-> r.NodeUID, EndPointArray |-> <<>>,
                 ServerObjID |-> r.ServerObjID]
      <3>1. PICK i, cp, mi, mn, ma, u :
                /\ i = r.ServerObjID /\ cp = r.ConfigPort /\ mi = r.MicroVersion
                /\ mn = r.MinorVersion /\ ma = r.MajorVersion /\ u = r.NodeUID
        OBVIOUS
      <3>2. new = [NewProvider EXCEPT !.ServerObjID = i, !.ConfigPort = cp, !.MicroVersion = mi,
                                      !.MinorVersion = mn, !.MajorVersion = ma, !.NodeUID = u]
        BY <1>8, <1>9, <3>1 DEF HeadIs, U
      <3>. HIDE DEF new
      <3>3. new = [AddrObj |-> NoAddress, ConfigAddrObj |-> NoAddress,
                   ConfigPort |-> cp, MicroVersion |-> mi, MinorVersion |-> mn,
                   MajorVersion |-> ma, NodeUID |-> u, EndPointArray |-> <<>>,
                   ServerObjID |-> i]
        BY <2>1, <3>2
      <3>. QED  BY <3>1, <3>3
    <2>4. heard = update_config_addr([new EXCEPT !.AddrObj = r.AddrObj])
      BY <1>2, <1>13 DEF set_address
    <2>. HIDE DEF new, heard
    <2>. QED  BY <2>2, <2>3, <2>4 DEF update_config_addr, RecordOf
  <1>. HIDE DEF heard
  <1>20. heard.AddrObj = r.AddrObj
    BY <1>19 DEF RecordOf
  <1>21. ParseClientUpdate(NewProvider, p)
           = [heard EXCEPT !.EndPointArray = [k \in 1..n |-> ReadEP(r.AddrObj, eps[k])]]
    BY <1>12, <1>17, <1>18, <1>20
  <1>22. PICK x : x = [k \in 1..n |-> ReadEP(r.AddrObj, eps[k])]
    OBVIOUS
  <1>23. ParseClientUpdate(NewProvider, p) = RecordOf(r, r.AddrObj, x, r.ServerObjID)
    BY <1>19, <1>21, <1>22 DEF RecordOf
  <1>. QED  BY <1>22, <1>23 DEF ReadRecord, eps, n
\* The record that a server keeps of a node it has claimed.
Claimed(d, a, id) == RecordOf(d, a, TrueEndPoints(d, a), id)

LEMMA ClaimedEndPoint ==
    ASSUME NEW a, AddressFits(a), NEW port, NEW e, EPFits(port, e),
           NEW x, x = EPOf(a, port, e)
    PROVE  /\ x.AddrObj = Address(a.host, port) /\ EPFits(x.AddrObj.port, x)
           /\ ReadEP(a, x) = x
  <1>1. set_port(a, port) = Address(a.host, port)
    BY PortSet DEF EPFits
  <1>2. x.AddrObj = Address(a.host, port) /\ x.AddrObj.port = port
    BY <1>1 DEF EPOf, Address
  <1>3. /\ x.MicroVersion = e.MicroVersion /\ x.MinorVersion = e.MinorVersion
        /\ x.MajorVersion = e.MajorVersion /\ x.AssociateEPIndex = e.AssociateEPIndex
        /\ x.MimeTypeStr = e.MimeTypeStr
    BY DEF EPOf
  <1>4. EPFits(x.AddrObj.port, x)
    BY <1>2, <1>3 DEF EPFits, VersionFits
  <1>5. ReadEP(a, x) = x
    BY <1>2, <1>3 DEF ReadEP, EPOf
  <1>. QED  BY <1>2, <1>4, <1>5

LEMMA ClaimedFits ==
    ASSUME NEW d, NodeFits(d), NEW a, AddressFits(a), NEW id, Fits(4, id)
    PROVE  RecordFits(Claimed(d, a, id)) /\ ReadRecord(Claimed(d, a, id)) = Claimed(d, a, id)
  <1> DEFINE n == Len(d.EndPointArray)
             eps == TrueEndPoints(d, a)
             r == Claimed(d, a, id)
  <1>1. n \in Nat /\ \A k \in 1..n : EPFits(d.EndPointArray[k].Port, d.EndPointArray[k])
    BY EndPointsFit
  <1>2. eps = [k \in 1..n |-> eps[k]] /\ DOMAIN eps = 1..n
    BY DEF TrueEndPoints
  <1>3. ASSUME NEW k \in 1..n
        PROVE  EPFits(eps[k].AddrObj.port, eps[k]) /\ ReadEP(a, eps[k]) = eps[k]
    <2>1. PICK e : e = d.EndPointArray[k] /\ EPFits(e.Port, e)
      BY <1>1
    <2>2. eps[k] = EPOf(a, e.Port, e)
      BY <2>1 DEF TrueEndPoints
    <2>. HIDE DEF eps
    <2>. QED  BY <2>1, <2>2, ClaimedEndPoint
  <1>. HIDE DEF eps
  <1>4. Len(eps) = n
    <2>1. eps \in Seq({eps[k] : k \in 1..n})
      BY <1>1, <1>2
    <2>. QED  BY <1>1, <1>2, <2>1, LenProperties
  <1>5. EPsFit(eps, n)
    BY <1>1, <1>2, <1>3 DEF EPsFit
  <1>6. /\ r.AddrObj = a /\ r.EndPointArray = eps /\ r.ServerObjID = id
        /\ r.ConfigPort = d.ConfigPort /\ r.MicroVersion = d.MicroVersion
        /\ r.MinorVersion = d.MinorVersion /\ r.MajorVersion = d.MajorVersion
        /\ r.NodeUID = d.NodeUID
    BY DEF Claimed, RecordOf, eps
  <1>. HIDE DEF r
  <1>7. RecordFits(r)
    BY <1>4, <1>5, <1>6 DEF RecordFits, NodeFits, VersionFits
  <1>8. [k \in 1..Len(r.EndPointArray) |-> ReadEP(r.AddrObj, r.EndPointArray[k])] = eps
    BY <1>2, <1>3, <1>4, <1>6
  <1>9. ReadRecord(r) = RecordOf(r, a, eps, id)
    BY <1>6, <1>8 DEF ReadRecord
  <1>10. RecordOf(r, a, eps, id) = RecordOf(d, a, eps, id)
    BY <1>6 DEF RecordOf
  <1>. QED  BY <1>7, <1>9, <1>10 DEF r, Claimed, eps

LEMMA ClaimIs ==
    ASSUME NEW d, NodeFits(d), NEW a, AddressFits(a), NEW id
    PROVE  claim(Discovered(d, a), id) = Claimed(d, a, id)
  <1>1. PICK eps : eps = TrueEndPoints(d, a) /\ Discovered(d, a) = RecordOf(d, a, eps, 0)
    BY DiscoveredTells
  <1>2. claim(RecordOf(d, a, eps, 0), id) = RecordOf(d, a, eps, id)
    BY DEF claim, RecordOf
  <1>. QED  BY <1>1, <1>2 DEF Claimed

\* The bytes of end points are few enough.
LEMMA SentLength ==
    ASSUME NEW e, NEW eps, NEW n, EPsFit(eps, n), Grows(e, Sent(eps, n), n), e[0] = <<>>
    PROVE  Len(e[n]) \in Nat /\ Len(e[n]) <= n * (Width(EPUpdateLayout) + MimeMax)
  <1>1. PICK W \in Nat : W = Width(EPUpdateLayout)
    <2>1. PICK g : IsWidthTrace(g, EPUpdateLayout)
      BY Layouts, WidthTrace
    <2>2. Len(EPUpdateLayout) \in 0..Len(EPUpdateLayout)
      BY Layouts DEF IsLayout
    <2>. QED  BY <2>1, <2>2 DEF IsWidthTrace
  <1>2. PICK M \in Nat : M = W + MimeMax
    BY RecordAssumption DEF Fits
  <1> DEFINE S == {k \in Nat : k <= n => Len(e[k]) \in Nat /\ Len(e[k]) <= k * M}
  <1>3. n \in Nat
    BY DEF Grows
  <1>4. 0 \in S
    OBVIOUS
  <1>5. ASSUME NEW j \in Nat, j \in S, j + 1 <= n
        PROVE  Len(e[j + 1]) \in Nat /\ Len(e[j + 1]) <= (j + 1) * M
    <2>1. PICK k \in 1..n : k = j + 1 /\ k - 1 = j /\ j <= n
      BY <1>3, <1>5
    <2>2. SentAt(e, eps[k], n, k)
      BY SentAround
    <2>3. PICK ep : ep = eps[k] /\ EPFits(ep.AddrObj.port, ep)
      BY DEF EPsFit
    <2>4. PICK l \in Nat : l = Len(SentEP(ep)) /\ l <= M
      <3>1. /\ Len(SentEP(ep)) = W + Len(ep.MimeTypeStr)
            /\ Len(ep.MimeTypeStr) \in Nat /\ Len(ep.MimeTypeStr) <= MimeMax
        BY <1>1, <2>3, EPBytesAreBytes, LenProperties DEF SentEP, IsEPLayout, EPFits
      <3>. QED  BY <1>2, <3>1, RecordAssumption DEF Fits
    <2>5. Len(e[k]) = Len(e[j]) + l
      BY <2>1, <2>2, <2>3, <2>4 DEF SentAt
    <2>6. Len(e[j]) \in Nat /\ Len(e[j]) <= j * M
      BY <1>5, <2>1
    <2>7. (j + 1) * M = j * M + M /\ j * M \in Nat
      OBVIOUS
    <2>. QED  BY <2>1, <2>4, <2>5, <2>6, <2>7
  <1>6. S = Nat
    <2>1. \A j \in Nat : j \in S => j + 1 \in S
      BY <1>5
    <2>. HIDE DEF S
    <2>2. S \in SUBSET Nat
      BY DEF S
    <2>. QED  BY <1>4, <2>1, <2>2, Induction
  <1>7. Len(e[n]) \in Nat /\ Len(e[n]) <= n * M
    BY <1>3, <1>6
  <1>. QED  BY <1>1, <1>2, <1>7

LEMMA UpdateWidths ==
    Width(UpdateHead) = 12 /\ Width(UpdateTail) = 12 /\ Width(EPUpdateLayout) = 14
  <1>1. Width(UpdateHead) = 12
    <2>1. PICK g : IsWidthTrace(g, UpdateHead)
      BY Layouts, WidthTrace
    <2>2. /\ Len(UpdateHead) = 6 /\ UpdateHead[1][2] = 4 /\ UpdateHead[2][2] = 2
          /\ UpdateHead[3][2] = 2 /\ UpdateHead[4][2] = 2 /\ UpdateHead[5][2] = 1
          /\ UpdateHead[6][2] = 1
      BY DEF UpdateHead, Version
    <2>3. g[0] = 0 /\ g[1] = g[0] + 4 /\ g[2] = g[1] + 2 /\ g[3] = g[2] + 2
          /\ g[4] = g[3] + 2 /\ g[5] = g[4] + 1 /\ g[6] = g[5] + 1 /\ g[6] = Width(UpdateHead)
      BY <2>1, <2>2 DEF IsWidthTrace
    <2>. QED  BY <2>3
  <1>2. Width(UpdateTail) = 12
    <2>1. PICK g : IsWidthTrace(g, UpdateTail)
      BY Layouts, WidthTrace
    <2>2. Len(UpdateTail) = 3 /\ UpdateTail[1][2] = 4 /\ UpdateTail[2][2] = 4
          /\ UpdateTail[3][2] = 4
      BY DEF UpdateTail
    <2>3. g[0] = 0 /\ g[1] = g[0] + 4 /\ g[2] = g[1] + 4 /\ g[3] = g[2] + 4
          /\ g[3] = Width(UpdateTail)
      BY <2>1, <2>2 DEF IsWidthTrace
    <2>. QED  BY <2>3
  <1>3. Width(EPUpdateLayout) = 14
    <2>1. PICK g : IsWidthTrace(g, EPUpdateLayout)
      BY Layouts, WidthTrace
    <2>2. /\ Len(EPUpdateLayout) = 6 /\ EPUpdateLayout[1][2] = 2 /\ EPUpdateLayout[2][2] = 2
          /\ EPUpdateLayout[3][2] = 1 /\ EPUpdateLayout[4][2] = 1
          /\ EPUpdateLayout[5][2] = 4 /\ EPUpdateLayout[6][2] = 4
      BY DEF EPUpdateLayout, Version
    <2>3. g[0] = 0 /\ g[1] = g[0] + 2 /\ g[2] = g[1] + 2 /\ g[3] = g[2] + 1
          /\ g[4] = g[3] + 1 /\ g[5] = g[4] + 4 /\ g[6] = g[5] + 4
          /\ g[6] = Width(EPUpdateLayout)
      BY <2>1, <2>2 DEF IsWidthTrace
    <2>. QED  BY <2>3
  <1>. QED  BY <1>1, <1>2, <1>3

LEMMA PrefaceLength ==
    ASSUME NEW r, RecordFits(r)
    PROVE  Preface(r) \in Seq(Nat) /\ Len(Preface(r)) = 26 + UIDLength
  <1> DEFINE H == FieldBytes(UpdateHead, HeadOf(r))
             U == r.NodeUID
             T == FieldBytes(UpdateTail, TailOf(r))
             A == AddrStr(r.AddrObj)
  <1>1. H \in Seq(Nat) /\ Len(H) = 12
    BY HeadRead, Layouts, FieldBytesAreBytes, UpdateWidths DEF HeadReads
  <1>2. T \in Seq(Nat) /\ Len(T) = 12
    BY UpdateTailRead, Layouts, FieldBytesAreBytes, UpdateWidths DEF TailIsRead
  <1>3. U \in Seq(Nat) /\ Len(U) = UIDLength /\ A \in Seq(Nat) /\ Len(A) = 2 /\ UIDLength \in Nat
    BY AddrString, RecordAssumption DEF RecordFits
  <1>4. Preface(r) = H \o (U \o (T \o A))
    BY DEF Preface
  <1>. HIDE DEF H, U, T, A
  <1>5. PICK x \in Seq(Nat) : x = T \o A /\ Len(x) = Len(T) + Len(A)
    BY <1>2, <1>3, Joins
  <1>6. PICK y \in Seq(Nat) : y = U \o x /\ Len(y) = Len(U) + Len(x)
    BY <1>3, Joins
  <1>7. H \o y \in Seq(Nat) /\ Len(H \o y) = Len(H) + Len(y)
    BY <1>1, Joins
  <1>. QED  BY <1>1, <1>2, <1>3, <1>4, <1>5, <1>6, <1>7
\* What a server keeps of a node it has claimed is what a browser makes of the update
\* packet, wherever in the packet the record is, and it is the node's own data
\* (hnode-provider.c and hnode-provider-epoint.c, build_client_update and
\* parse_client_update).
THEOREM UpdateTells ==
    ASSUME NEW d, NodeFits(d), NEW a, AddressFits(a), NEW id, Fits(4, id),
           NEW p, NEW b, Written(p, b), NEW r, r = claim(Discovered(d, a), id)
    PROVE  /\ r = Claimed(d, a, id)
           /\ ParseClientUpdate(NewProvider, Skip(Reset(BuildClientUpdate(p, r)), Len(b))) = r
  <1>1. r = Claimed(d, a, id)
    BY ClaimIs
  <1>2. RecordFits(r) /\ ReadRecord(r) = r
    BY <1>1, ClaimedFits
  <1>3. PICK q : q = BuildClientUpdate(p, r)
    OBVIOUS
  <1>4. PICK e : UpdateIs(q, b, r, e)
    BY <1>2, <1>3, UpdateBuilt
  <1>5. PICK s \in Seq(Nat) : s = Preface(r) \o EndsOf(e, r)
    BY <1>4, Joins DEF UpdateIs
  <1>6. b \in Seq(Nat) /\ Readable(Reset(q), b \o s)
    BY <1>4, <1>5, ResetReads DEF UpdateIs, Written
  <1>7. Readable(Skip(Reset(q), Len(b)), s)
    BY <1>6, BytesRead
  <1>8. ParseClientUpdate(NewProvider, Skip(Reset(q), Len(b))) = ReadRecord(r)
    BY <1>2, <1>4, <1>5, <1>7, UpdateRead DEF UpdateIs
  <1>. QED  BY <1>1, <1>2, <1>3, <1>8

--------------------------------------------------------------------------------
(* The end of the enumeration.                                             *)

EnumInv ==
    /\ IsFiniteSet(resolving) /\ ResolveCount = Cardinality(resolving)
    /\ resolving \subseteq reported
    /\ awaited \subseteq resolving
    /\ enumerated => avahi_done /\ awaited = {}
    /\ avahi_done \in BOOLEAN /\ enumerated \in BOOLEAN

LEMMA InitEnumInv == Init => EnumInv
  BY FS_EmptySet DEF Init, EnumInv

\* A step of the servers, the nodes or the connections, or one that ends the browser.
LEMMA EnumUntouched ==
    ASSUME EnumInv, UNCHANGED <<resolving, reported, ResolveCount, avahi_done, awaited, enumerated>>
    PROVE  EnumInv'
  BY DEF EnumInv

LEMMA StepEnumInv == EnumInv /\ [Next]_vars => EnumInv'
  <1> SUFFICES ASSUME EnumInv, [Next]_vars PROVE EnumInv'
    OBVIOUS
  <1>0. Cardinality(resolving) \in Nat /\ (Cardinality(resolving) = 0 <=> resolving = {})
    BY FS_CardinalityType, FS_EmptySet DEF EnumInv
  <1>1. CASE UNCHANGED vars
    BY <1>1, EnumUntouched DEF vars, browserVars
  <1>2. ASSUME NEW svc \in Services, BrowseNew(svc) PROVE EnumInv'
    <2>1. svc \notin resolving /\ resolving' = resolving \cup {svc}
      BY <1>2 DEF BrowseNew, EnumInv
    <2>2. IsFiniteSet(resolving') /\ Cardinality(resolving') = Cardinality(resolving) + 1
      BY <2>1, FS_AddElement DEF EnumInv
    <2>. QED  BY <1>2, <2>1, <2>2 DEF BrowseNew, EnumInv
  <1>3. CASE BrowseAllForNow
    BY <1>0, <1>3 DEF BrowseAllForNow, EnumComplete, EnumInv
  <1>4. ASSUME NEW svc \in Services, ResolveFound(svc) PROVE EnumInv'
    <2>1. svc \in resolving /\ resolving' = resolving \ {svc} /\ awaited' = awaited \ {svc}
      BY <1>4 DEF ResolveFound
    <2>2. IsFiniteSet(resolving') /\ Cardinality(resolving') = Cardinality(resolving) - 1
      BY <2>1, FS_RemoveElement DEF EnumInv
    <2>3. Cardinality(resolving') = 0 <=> resolving' = {}
      BY <2>2, FS_EmptySet
    <2>. QED  BY <1>4, <2>1, <2>2, <2>3 DEF ResolveFound, EnumComplete, EnumInv
  <1>5. ASSUME NEW svc \in Services, ResolveFailure(svc) PROVE EnumInv'
    BY <1>5, EnumUntouched DEF ResolveFailure
  <1>6. CASE Timeout
    BY <1>6, EnumUntouched DEF Timeout
  <1>7. CASE UNCHANGED browserVars
    BY <1>7, EnumUntouched DEF browserVars
  <1>8. ASSUME NEW s \in Servers, NEW n \in Nodes, NodeDiscovered(s, n) PROVE EnumInv'
    BY <1>7, <1>8 DEF NodeDiscovered
  <1>9. ASSUME NEW m \in Points,
               Accept(m) \/ ServerRx(m) \/ ServerTx(m) \/ BrowserRx(m) \/ LinkDown(m)
        PROVE  EnumInv'
    BY <1>7, <1>9 DEF Accept, ServerRx, ServerTx, BrowserRx, LinkDown
  <1>10. ASSUME NEW n \in Nodes, NodeSendDebug(n) PROVE EnumInv'
    BY <1>7, <1>10 DEF NodeSendDebug
  <1>11. ASSUME NEW f \in frames, ServerDebugRx(f) PROVE EnumInv'
    BY <1>7, <1>11 DEF ServerDebugRx
  <1>. QED  BY <1>1, <1>2, <1>3, <1>4, <1>5, <1>6, <1>8, <1>9, <1>10, <1>11 DEF Next

\* When the end of the enumeration is signalled, every server reported before
\* all-for-now is a management point, in whatever order resolvers answer and whatever
\* is reported meanwhile (hnode-browser.c, the browse and the resolve callback).
THEOREM EnumerationComplete == Spec => []EnumerationCovers
  <1>1. EnumInv => EnumerationCovers
    BY DEF EnumInv, EnumerationCovers
  <1>. QED  BY <1>1, InitEnumInv, StepEnumInv, PTL DEF Spec

--------------------------------------------------------------------------------
(* Management packets.                                                     *)

\* The two parts of a sequence.
Parted(a, b) ==
    /\ a \o b \in Seq(Nat) /\ Len(a \o b) = Len(a) + Len(b)
    /\ SubSeq(a \o b, 1, Len(a)) = a
    /\ SubSeq(a \o b, Len(a) + 1, Len(a \o b)) = b

LEMMA Parts ==
    ASSUME NEW a \in Seq(Nat), NEW b \in Seq(Nat)
    PROVE  Parted(a, b)
  <1>1. PICK c \in Seq(Nat) : c = a \o b /\ Len(c) = Len(a) + Len(b)
    BY Joins
  <1>2. /\ Len(a) \in Nat /\ Len(b) \in Nat
        /\ \A i \in 1..(Len(a) + Len(b)) : c[i] = IF i <= Len(a) THEN a[i] ELSE b[i - Len(a)]
    BY <1>1, ConcatProperties, LenProperties
  <1>3. SubSeq(c, 1, Len(a)) = a
    <2>1. 0 + Len(a) <= Len(c) /\ 0 + 1 = 1 /\ 0 + Len(a) = Len(a)
      BY <1>1, <1>2
    <2>2. PICK x : x = SubSeq(c, 1, Len(a))
      OBVIOUS
    <2>3. x \in Seq(Nat) /\ Len(x) = Len(a) /\ \A i \in 1..Len(a) : x[i] = c[0 + i]
      BY <1>2, <2>1, <2>2, Slice
    <2>4. \A i \in 1..Len(a) : x[i] = a[i]
      <3> SUFFICES ASSUME NEW i \in 1..Len(a) PROVE x[i] = a[i]
        OBVIOUS
      <3>1. 0 + i = i /\ i \in 1..(Len(a) + Len(b)) /\ i <= Len(a)
        BY <1>2
      <3>. QED  BY <1>2, <2>3, <3>1
    <2>. QED  BY <2>2, <2>3, <2>4, SeqEqual
  <1>4. SubSeq(c, Len(a) + 1, Len(c)) = b
    <2>1. Len(a) + Len(b) <= Len(c)
      BY <1>1, <1>2
    <2>2. PICK x : x = SubSeq(c, Len(a) + 1, Len(a) + Len(b))
      OBVIOUS
    <2>3. x \in Seq(Nat) /\ Len(x) = Len(b) /\ \A i \in 1..Len(b) : x[i] = c[Len(a) + i]
      BY <1>2, <2>1, <2>2, Slice
    <2>4. \A i \in 1..Len(b) : x[i] = b[i]
      <3> SUFFICES ASSUME NEW i \in 1..Len(b) PROVE c[Len(a) + i] = b[i]
        BY <2>3
      <3>1. Len(a) + i \in 1..(Len(a) + Len(b)) /\ ~(Len(a) + i <= Len(a)) /\ (Len(a) + i) - Len(a) = i
        BY <1>2
      <3>. QED  BY <1>2, <3>1
    <2>. QED  BY <1>1, <2>2, <2>3, <2>4, SeqEqual
  <1>. QED  BY <1>1, <1>3, <1>4 DEF Parted

\* What lies between two parts.
Within(a, b, t) == SubSeq(a \o (b \o t), Len(a) + 1, Len(a) + Len(b)) = b

LEMMA Middle ==
    ASSUME NEW a \in Seq(Nat), NEW b \in Seq(Nat), NEW t \in Seq(Nat)
    PROVE  Within(a, b, t)
  <1>1. PICK u \in Seq(Nat) : u = b \o t /\ Len(u) = Len(b) + Len(t)
    BY Joins
  <1>2. PICK c \in Seq(Nat) : c = a \o u /\ Len(c) = Len(a) + Len(u)
    BY Joins
  <1>3. /\ \A i \in 1..(Len(a) + Len(u)) : c[i] = IF i <= Len(a) THEN a[i] ELSE u[i - Len(a)]
        /\ \A i \in 1..(Len(b) + Len(t)) : u[i] = IF i <= Len(b) THEN b[i] ELSE t[i - Len(b)]
    BY <1>1, <1>2, ConcatProperties
  <1>4. PICK la, lb, lt \in Nat : la = Len(a) /\ lb = Len(b) /\ lt = Len(t)
    BY LenProperties
  <1>5. la + lb <= Len(c)
    BY <1>1, <1>2, <1>4
  <1>6. PICK x : x = SubSeq(c, la + 1, la + lb)
    OBVIOUS
  <1>7. x \in Seq(Nat) /\ Len(x) = lb /\ \A i \in 1..lb : x[i] = c[la + i]
    BY <1>5, <1>6, Slice, ZenonT(60)
  <1>8. \A i \in 1..lb : x[i] = b[i]
    <2> SUFFICES ASSUME NEW i \in 1..lb PROVE c[la + i] = b[i]
      BY <1>7
    <2>1. /\ la + i \in 1..(la + (lb + lt)) /\ ~(la + i <= la) /\ (la + i) - la = i
          /\ i \in 1..(lb + lt) /\ i <= lb
      OBVIOUS
    <2>. QED  BY <1>1, <1>3, <1>4, <2>1
  <1>. QED  BY <1>1, <1>2, <1>4, <1>6, <1>7, <1>8, SeqEqual, ZenonT(60) DEF Within

\* The integer at the beginning of a packet is written again.
Rewritten(q, p, v, y) ==
    IsPacket(q) /\ q.cap = p.cap /\ q.data = BigEndian(4, v) \o y

LEMMA Rewrites ==
    ASSUME NEW p, NEW a \in Seq(Nat), Len(a) = 4, NEW y \in Seq(Nat), Written(p, a \o y),
           NEW v \in Nat
    PROVE  Rewritten(SetInt(Reset(p), 4, v), p, v, y)
  <1>1. PICK d \in Seq(Nat) : d = a \o y
    BY Joins
  <1>2. Len(d) = 4 + Len(y) /\ SubSeq(d, 5, Len(d)) = y /\ Len(y) \in Nat
    <2>1. Parted(a, y) /\ 4 + 1 = 5
      BY Parts
    <2>. QED  BY <1>1, <2>1, LenProperties DEF Parted
  <1>3. PICK b \in Seq(Nat) : b = BigEndian(4, v) /\ Len(b) = 4
    <2>1. AreBytes(BigEndian(4, v), 4, v)
      BY BytesOfInt DEF Widths
    <2>. QED  BY <2>1 DEF AreBytes
  <1>4. PICK r : r = Reset(p)
    OBVIOUS
  <1>5. /\ r \in [data : Seq(Nat), off : Nat, cap : Nat]
        /\ r.data = d /\ r.off = 0 /\ r.cap = p.cap
    BY <1>1, <1>4 DEF Written, IsPacket, Reset
  <1>6. r.cap \in Nat /\ 4 <= r.cap
    BY <1>1, <1>2, <1>5 DEF Written
  <1>7. GetBuffer(r, 4) = r
    BY <1>6 DEF GetBuffer
  <1>8. Extended(d, 0) = d
    BY <1>2 DEF Extended
  <1>9. SubSeq(d, 1, 0) = <<>>
    BY <1>1, SubSeqEmpty
  <1> DEFINE x == SubSeq(Extended(d, 0), 1, 0) \o b \o SubSeq(d, 5, Len(d))
  <1>10. SetBytes(r, b) = [r EXCEPT !.off = 4, !.data = x]
    <2>1. r.off + Len(b) = 4 /\ 4 + 1 = 5
      BY <1>3, <1>5
    <2>2. SetBytes(r, b) = [GetBuffer(r, 4) EXCEPT
              !.off = 4,
              !.data = SubSeq(Extended(@, r.off), 1, r.off) \o b \o SubSeq(@, 4 + 1, Len(@))]
      BY <2>1 DEF SetBytes
    <2>3. SetBytes(r, b) = [r EXCEPT
              !.off = 4,
              !.data = SubSeq(Extended(r.data, 0), 1, 0) \o b \o SubSeq(r.data, 5, Len(r.data))]
      BY <1>5, <1>7, <2>1, <2>2
    <2>. QED  BY <1>5, <2>3
  <1>11. PICK z \in Seq(Nat) : z = b \o y
    BY Joins
  <1>12. x = z
    <2>1. <<>> \o b = b
      BY ConcatEmptySeq
    <2>. QED  BY <1>2, <1>8, <1>9, <1>11, <2>1
  <1>13. PICK s : s = SetBytes(r, b)
    OBVIOUS
  <1>. HIDE DEF x
  <1>14. /\ s \in [data : Seq(Nat), off : Nat, cap : Nat] /\ s.cap = p.cap /\ s.data = z
    <2>1. PICK r1 : r1 = [r EXCEPT !.off = 4]
      OBVIOUS
    <2>2. r1 \in [data : Seq(Nat), off : Nat, cap : Nat] /\ r1.cap = p.cap
      BY <1>5, <2>1
    <2>3. s = [r1 EXCEPT !.data = z]
      BY <1>10, <1>12, <1>13, <2>1
    <2>. QED  BY <2>2, <2>3
  <1>15. SetInt(Reset(p), 4, v) = s
    BY <1>3, <1>4, <1>13 DEF SetInt
  <1>. QED  BY <1>3, <1>11, <1>14, <1>15 DEF Rewritten, IsPacket

LEMMA MessageLayouts ==
    /\ IsLayout(Header) /\ IsLayout(NodeFrameLayout) /\ IsLayout(DebugLayout)
    /\ Width(Header) = 12 /\ Width(DebugLayout) = 20
  <1>1. IsLayout(Header)
    BY DEF IsLayout, Widths, Header
  <1>2. IsLayout(NodeFrameLayout)
    BY DEF IsLayout, Widths, NodeFrameLayout
  <1>3. IsLayout(DebugLayout)
    BY DEF IsLayout, Widths, DebugLayout
  <1>4. Width(Header) = 12
    <2>1. PICK g : IsWidthTrace(g, Header)
      BY <1>1, WidthTrace
    <2>2. Len(Header) = 3 /\ Header[1][2] = 4 /\ Header[2][2] = 4 /\ Header[3][2] = 4
      BY DEF Header
    <2>3. g[0] = 0 /\ g[1] = g[0] + 4 /\ g[2] = g[1] + 4 /\ g[3] = g[2] + 4 /\ g[3] = Width(Header)
      BY <2>1, <2>2 DEF IsWidthTrace
    <2>. QED  BY <2>3
  <1>5. Width(DebugLayout) = 20
    <2>1. PICK g : IsWidthTrace(g, DebugLayout)
      BY <1>3, WidthTrace
    <2>2. /\ Len(DebugLayout) = 5 /\ DebugLayout[1][2] = 4 /\ DebugLayout[2][2] = 4
          /\ DebugLayout[3][2] = 4 /\ DebugLayout[4][2] = 4 /\ DebugLayout[5][2] = 4
      BY DEF DebugLayout
    <2>3. /\ g[0] = 0 /\ g[1] = g[0] + 4 /\ g[2] = g[1] + 4 /\ g[3] = g[2] + 4
          /\ g[4] = g[3] + 4 /\ g[5] = g[4] + 4 /\ g[5] = Width(DebugLayout)
      BY <2>1, <2>2 DEF IsWidthTrace
    <2>. QED  BY <2>3
  <1>. QED  BY <1>1, <1>2, <1>3, <1>4, <1>5

\* The head of a message: its length, and what follows.
MsgHead(len, type, tag) == [Length |-> len, Type |-> type, IOTag |-> tag]

Behind(type, tag) == BigEndian(4, type) \o BigEndian(4, tag)

HeadBytes(len, type, tag) ==
    /\ Fills(MsgHead(len, type, tag), Header)
    /\ Behind(type, tag) \in Seq(Nat)
    /\ FieldBytes(Header, MsgHead(len, type, tag)) \in Seq(Nat)
    /\ Len(FieldBytes(Header, MsgHead(len, type, tag))) = 12
    /\ FieldBytes(Header, MsgHead(len, type, tag)) = BigEndian(4, len) \o Behind(type, tag)

Adds(g, k, x) == g[k] = g[k - 1] \o x

LEMMA HeadWritten ==
    ASSUME NEW len \in Nat, NEW type \in Nat, NEW tag \in Nat
    PROVE  HeadBytes(len, type, tag)
  <1>1. PICK r : r = MsgHead(len, type, tag)
    OBVIOUS
  <1>2. /\ Len(Header) = 3 /\ Header[1] = <<"Length", 4>>
        /\ Header[2] = <<"Type", 4>> /\ Header[3] = <<"IOTag", 4>>
    BY DEF Header
  <1>3. /\ FieldValue(Header, r, 1) = len /\ FieldValue(Header, r, 2) = type
        /\ FieldValue(Header, r, 3) = tag
    BY <1>1, <1>2 DEF FieldValue, MsgHead
  <1>4. Fills(r, Header)
    BY <1>2, <1>3 DEF Fills
  <1>5. PICK g : IsFieldTrace(g, Header, r)
    BY <1>4, MessageLayouts, FieldTrace
  <1>6. PICK a \in Seq(Nat), b \in Seq(Nat), c \in Seq(Nat) :
            a = BigEndian(4, len) /\ b = BigEndian(4, type) /\ c = BigEndian(4, tag)
    BY BytesOfInt DEF AreBytes, Widths
  <1>7. /\ g[0] = <<>> /\ g[1] = g[0] \o a /\ g[2] = g[1] \o b /\ g[3] = g[2] \o c
        /\ g[3] = FieldBytes(Header, r)
    <2>1. g[0] = <<>> /\ g[3] = FieldBytes(Header, r)
      BY <1>2, <1>5 DEF IsFieldTrace
    <2>2. \A k \in 1..Len(Header) :
              Adds(g, k, BigEndian(Header[k][2], FieldValue(Header, r, k)))
      BY <1>5 DEF IsFieldTrace, Adds
    <2>3. Header[1][2] = 4 /\ Header[2][2] = 4 /\ Header[3][2] = 4
      BY <1>2
    <2>4. Adds(g, 1, a) /\ Adds(g, 2, b) /\ Adds(g, 3, c)
      BY <1>2, <1>3, <1>6, <2>2, <2>3
    <2>5. 1 - 1 = 0 /\ 2 - 1 = 1 /\ 3 - 1 = 2
      OBVIOUS
    <2>. QED  BY <2>1, <2>4, <2>5 DEF Adds
  <1>8. g[1] = a
    BY <1>6, <1>7, ConcatEmptySeq
  <1>9. (a \o b) \o c = a \o (b \o c) /\ b \o c \in Seq(Nat)
    <2>1. Nest3(a, b, c)
      BY Nested3
    <2>2. b \o c \in Seq(Nat)
      BY Joins
    <2>. QED  BY <2>1, <2>2 DEF Nest3
  <1>10. FieldBytes(Header, r) \in Seq(Nat) /\ Len(FieldBytes(Header, r)) = 12
    BY <1>4, MessageLayouts, FieldBytesAreBytes
  <1>. QED  BY <1>1, <1>4, <1>6, <1>7, <1>8, <1>9, <1>10 DEF HeadBytes, Behind

\* What the receiver of a stream has: the type and the length of a message, its body
\* to be read, and the rest of the stream.
Delivers(s, rest, len, type, body) ==
    /\ IsPacket(Received(s))
    /\ GetFields(Received(s), Header)["Type"] = type
    /\ GetFields(Received(s), Header)["Length"] = len
    /\ Readable(SkipFields(Received(s), Header), body)
    /\ Len(s) >= 12 /\ Rest(s, Received(s)) = rest

Brings(x, type, body) ==
    /\ x \in Seq(Nat) /\ body \in Seq(Nat) /\ Len(x) = 12 + Len(body)
    /\ \A rest \in Seq(Nat) : Delivers(x \o rest, rest, Len(x), type, body)

\* A message: the header, with its length, and a body.
IsMsg(x, type, tag, body) ==
    /\ type \in Nat /\ tag \in Nat /\ body \in Seq(Nat) /\ x \in Seq(Nat)
    /\ Holds(4, Len(x)) /\ Holds(4, type)
    /\ x = FieldBytes(Header, MsgHead(Len(x), type, tag)) \o body

\* The header that the receiver gets first.
Headers(s) == [NewPacket EXCEPT !.data = SubSeq(s, 1, 12), !.cap = RoundedUp(12)]

GetsAll(s, x) ==
    /\ IsPacket(Received(s)) /\ Received(s).data = x /\ Received(s).off = 0

LEMMA MsgGot ==
    ASSUME NEW x, NEW type, NEW tag, NEW body, IsMsg(x, type, tag, body), NEW rest \in Seq(Nat)
    PROVE  GetsAll(x \o rest, x)
  <1>1. PICK L \in Nat : L = Len(x) /\ Holds(4, L)
    BY DEF IsMsg, Holds
  <1>2. PICK H \in Seq(Nat) : H = FieldBytes(Header, MsgHead(L, type, tag)) /\ Len(H) = 12
    <2>1. HeadBytes(L, type, tag)
      BY HeadWritten DEF IsMsg
    <2>. QED  BY <2>1 DEF HeadBytes
  <1>3. PICK B \in Seq(Nat) : B = Behind(type, tag) /\ H = BigEndian(4, L) \o B
    <2>1. HeadBytes(L, type, tag)
      BY HeadWritten DEF IsMsg
    <2>. QED  BY <1>2, <2>1 DEF HeadBytes
  <1>4. body \in Seq(Nat) /\ x = H \o body /\ x \in Seq(Nat)
    BY <1>1, <1>2 DEF IsMsg
  <1>5. L = 12 + Len(body) /\ Len(body) \in Nat
    BY <1>1, <1>2, <1>4, Joins, LenProperties
  <1>6. PICK u \in Seq(Nat) : u = body \o rest
    BY <1>4, Joins
  <1>7. PICK s \in Seq(Nat) : s = x \o rest /\ s = H \o u
    <2>1. Nest3(H, body, rest)
      BY <1>4, Nested3
    <2>2. x \o rest \in Seq(Nat)
      BY <1>4, Joins
    <2>. QED  BY <1>4, <1>6, <2>1, <2>2 DEF Nest3
  <1>8. SubSeq(s, 1, 12) = H
    <2>1. Parted(H, u)
      BY Parts
    <2>. QED  BY <1>2, <1>7, <2>1 DEF Parted
  <1>9. PICK h : h = Headers(s)
    OBVIOUS
  <1>10. h \in [data : Seq(Nat), off : Nat, cap : Nat] /\ h.data = H /\ h.off = 0
    BY <1>8, <1>9, RoundsUp DEF Headers, NewPacket
  <1>11. GetInt(h, 4) = L
    <2>1. Readable(h, H)
      BY <1>2, <1>10 DEF Readable, IsPacket
    <2>2. GetInt(h, 4) = Cut(4, L)
      BY <1>3, <2>1, IntRead DEF Widths
    <2>. QED  BY <1>1, <2>2 DEF Holds
  <1>12. CASE body = <<>>
    <2>1. x = H /\ ~(L > 12)
      BY <1>4, <1>5, <1>12, ConcatEmptySeq
    <2>2. Received(s) = h
      BY <1>9, <1>11, <2>1 DEF Received, Headers
    <2>. QED  BY <1>7, <1>10, <2>1, <2>2 DEF GetsAll, IsPacket
  <1>13. CASE body # <<>>
    <2>1. L > 12
      BY <1>4, <1>5, <1>13, EmptySeq
    <2>2. SubSeq(s, 13, L) = body
      <3>1. Within(H, body, rest)
        BY <1>4, Middle
      <3>2. 12 + 1 = 13
        OBVIOUS
      <3>. QED  BY <1>2, <1>5, <1>6, <1>7, <3>1, <3>2 DEF Within
    <2>3. Len(s) \in Nat /\ L <= Len(s)
      <3>1. PICK i, j \in Nat : i = Len(x) /\ j = Len(rest)
        BY <1>4, LenProperties
      <3>2. Len(s) = i + j
        BY <1>4, <1>7, <3>1, Joins, ZenonT(60)
      <3>. QED  BY <1>1, <3>1, <3>2
    <2>4. (IF L < Len(s) THEN L ELSE Len(s)) = L
      BY <2>3
    <2>5. PICK g : g = GetBuffer(h, L)
      OBVIOUS
    <2>6. g \in [data : Seq(Nat), off : Nat, cap : Nat] /\ g.data = H /\ g.off = 0
      BY <1>10, <2>5, RoundsUp DEF GetBuffer
    <2>7. Received(s) = [g EXCEPT !.data = @ \o SubSeq(s, 13, IF L < Len(s) THEN L ELSE Len(s))]
      BY <1>9, <1>11, <2>1, <2>5 DEF Received, Headers
    <2>8. Received(s) = [g EXCEPT !.data = x]
      BY <1>4, <2>2, <2>4, <2>6, <2>7
    <2>. QED  BY <1>4, <1>7, <2>6, <2>8 DEF GetsAll, IsPacket
  <1>. QED  BY <1>12, <1>13

\* What is read of a message is what was written, wherever the stream goes on.
LEMMA MsgReceived ==
    ASSUME NEW x, NEW type, NEW tag, NEW body, IsMsg(x, type, tag, body)
    PROVE  Brings(x, type, body)
  <1>1. PICK L \in Nat : L = Len(x) /\ Holds(4, L) /\ Holds(4, type)
    BY DEF IsMsg, Holds
  <1>2. PICK r : r = MsgHead(L, type, tag) /\ Fills(r, Header)
    <2>1. HeadBytes(L, type, tag)
      BY HeadWritten DEF IsMsg
    <2>. QED  BY <2>1 DEF HeadBytes
  <1>3. PICK H \in Seq(Nat) : H = FieldBytes(Header, r) /\ Len(H) = 12
    <2>1. HeadBytes(L, type, tag)
      BY HeadWritten DEF IsMsg
    <2>. QED  BY <1>2, <2>1 DEF HeadBytes
  <1>4. body \in Seq(Nat) /\ x = H \o body /\ x \in Seq(Nat)
    BY <1>1, <1>2, <1>3 DEF IsMsg
  <1>5. L = 12 + Len(body) /\ Len(body) \in Nat
    BY <1>1, <1>3, <1>4, Joins, LenProperties
  <1>6. ASSUME NEW rest \in Seq(Nat) PROVE Delivers(x \o rest, rest, L, type, body)
    <2>1. PICK s \in Seq(Nat) : s = x \o rest /\ Len(s) = L + Len(rest)
      BY <1>1, <1>4, Joins
    <2>2. PICK p : p = Received(s)
      OBVIOUS
    <2>3. IsPacket(p) /\ p.data = x /\ p.off = 0
      <3>1. GetsAll(s, x)
        BY <2>1, MsgGot
      <3>. QED  BY <2>2, <3>1 DEF GetsAll
    <2>4. Readable(p, H \o body)
      <3>1. \A i \in 1..L : 0 + i = i
        BY <1>1
      <3>2. Len(p.data) = p.off + Len(x) /\ \A i \in 1..L : p.data[p.off + i] = x[i]
        BY <1>1, <2>3, <3>1
      <3>. QED  BY <1>1, <1>4, <2>3, <3>2 DEF Readable
    <2>5. FieldsAre(p, Header, r, body)
      BY <1>2, <1>3, <1>4, <2>4, MessageLayouts, FieldsRead
    <2>6. /\ GetFields(p, Header)["Type"] = type /\ GetFields(p, Header)["Length"] = L
          /\ Readable(SkipFields(p, Header), body)
      <3>1. Len(Header) = 3 /\ Header[1] = <<"Length", 4>> /\ Header[2] = <<"Type", 4>>
        BY DEF Header
      <3>2. FieldValue(Header, r, 1) = L /\ FieldValue(Header, r, 2) = type
        BY <1>2, <3>1 DEF FieldValue, MsgHead
      <3>3. /\ GetFields(p, Header)[Header[1][1]] = Cut(Header[1][2], FieldValue(Header, r, 1))
            /\ GetFields(p, Header)[Header[2][1]] = Cut(Header[2][2], FieldValue(Header, r, 2))
            /\ Readable(SkipFields(p, Header), body)
        BY <2>5, <3>1 DEF FieldsAre
      <3>4. Header[1][1] = "Length" /\ Header[1][2] = 4 /\ Header[2][1] = "Type" /\ Header[2][2] = 4
        BY <3>1
      <3>. QED  BY <1>1, <3>2, <3>3, <3>4 DEF Holds
    <2>7. Rest(s, p) = rest
      <3>1. Parted(x, rest)
        BY <1>4, Parts
      <3>2. DataLength(p) = Len(x)
        BY <2>3 DEF DataLength
      <3>. QED  BY <2>1, <3>1, <3>2 DEF Parted, Rest
    <2>8. Len(s) >= 12
      BY <1>5, <2>1, LenProperties
    <2>. QED  BY <2>1, <2>2, <2>3, <2>6, <2>7, <2>8 DEF Delivers
  <1>. QED  BY <1>1, <1>4, <1>5, <1>6 DEF Brings

\* A packet that is a message of a type with a body, within its buffer.
Builds(q, type, body) == IsPacket(q) /\ Brings(q.data, type, body) /\ Len(q.data) <= q.cap

\* What a browser reads in the body of a node record, and in that of a debug frame.
NodeBody(body, n, id) ==
    \A p : Readable(p, body) =>
        /\ GetInt(p, 4) = id
        /\ ParseClientUpdate(NewProvider, Skip(p, 4)) = Claimed(NodeData[n], NodeAddr[n], id)

FrameBody(body, n, id) ==
    \A p : Readable(p, body) =>
        /\ GetFields(p, DebugLayout)["SvrObjID"] = id
        /\ GetBytes(SkipFields(p, DebugLayout), GetFields(p, DebugLayout)["DataLength"]) = <<n>>

LEMMA SmallFits ==
    /\ Holds(4, 12) /\ Holds(4, 16) /\ Holds(4, 33) /\ Holds(4, 7) /\ Holds(4, 8) /\ Holds(4, 10)
    /\ Holds(4, 2) /\ Holds(4, 5) /\ Holds(4, 1) /\ Holds(2, 1)
  <1>1. 256^4 = 4294967296 /\ 256^2 = 65536
    OBVIOUS
  <1>. QED  BY <1>1 DEF Holds, Cut

LEMMA HeadedIs ==
    ASSUME NEW len \in Nat, NEW type \in Nat, NEW tag \in Nat
    PROVE  Written(Headed(len, type, tag), FieldBytes(Header, MsgHead(len, type, tag)))
  <1>1. PICK r : r = MsgHead(len, type, tag)
    OBVIOUS
  <1>2. PICK b \in Seq(Nat) : b = FieldBytes(Header, r) /\ Fills(r, Header)
    <2>1. HeadBytes(len, type, tag)
      BY HeadWritten
    <2>. QED  BY <1>1, <2>1 DEF HeadBytes
  <1>3. Written(SetFields(NewPacket, Header, r), <<>> \o FieldBytes(Header, r))
    BY <1>2, NothingWritten, MessageLayouts, WriteFields
  <1>4. <<>> \o b = b
    BY ConcatEmptySeq
  <1>5. Headed(len, type, tag) = SetFields(NewPacket, Header, r)
    BY <1>1 DEF Headed, MsgHead
  <1>. QED  BY <1>1, <1>2, <1>3, <1>4, <1>5

\* A packet written as a header and a body is a message.
LEMMA MsgWritten ==
    ASSUME NEW q, NEW type \in Nat, Holds(4, type), NEW tag \in Nat, NEW body \in Seq(Nat),
           NEW len, Holds(4, len), len = 12 + Len(body),
           IsPacket(q), Len(q.data) <= q.cap,
           q.data = FieldBytes(Header, MsgHead(len, type, tag)) \o body
    PROVE  Builds(q, type, body) /\ Len(q.data) = len
  <1>1. PICK h \in Seq(Nat) : h = FieldBytes(Header, MsgHead(len, type, tag)) /\ Len(h) = 12
    <2>1. HeadBytes(len, type, tag)
      BY HeadWritten DEF Holds
    <2>. QED  BY <2>1 DEF HeadBytes
  <1>2. q.data \in Seq(Nat) /\ Len(q.data) = len
    <2>1. h \o body \in Seq(Nat) /\ Len(h \o body) = Len(h) + Len(body)
      BY Joins
    <2>. QED  BY <1>1, <2>1
  <1>3. IsMsg(q.data, type, tag, body)
    BY <1>2 DEF IsMsg
  <1>4. Brings(q.data, type, body)
    BY <1>3, MsgReceived
  <1>. QED  BY <1>2, <1>4 DEF Builds

LEMMA HeaderOnly ==
    ASSUME NEW type \in Nat, Holds(4, type), NEW tag \in Nat
    PROVE  Builds(Headed(12, type, tag), type, <<>>)
  <1>1. PICK q : q = Headed(12, type, tag)
    OBVIOUS
  <1>2. PICK h \in Seq(Nat) : h = FieldBytes(Header, MsgHead(12, type, tag)) /\ Len(h) = 12
    <2>1. HeadBytes(12, type, tag)
      BY HeadWritten
    <2>. QED  BY <2>1 DEF HeadBytes
  <1>3. Written(q, h)
    BY <1>1, <1>2, HeadedIs
  <1>4. h \o <<>> = h
    BY ConcatEmptySeq
  <1>5. IsPacket(q) /\ q.data = h \o <<>> /\ Len(q.data) <= q.cap
    BY <1>3, <1>4 DEF Written
  <1>6. <<>> \in Seq(Nat) /\ Len(<<>>) = 0 /\ 12 = 12 + 0
    OBVIOUS
  <1>7. Builds(q, type, <<>>)
    BY <1>2, <1>5, <1>6, MsgWritten, SmallFits
  <1>. QED  BY <1>1, <1>7

\* What a browser sends when it has found a server.
InfoRequest  == Headed(12, HNODE_MGMT_REQ_PINFO, 0).data
DebugRequest == SetInt(Headed(16, HNODE_MGMT_DEBUG_CTRL, 1), 4, 1).data

LEMMA RequestsAre ==
    /\ Brings(InfoRequest, 2, <<>>)
    /\ Brings(DebugRequest, 5, BigEndian(4, 1))
  <1>1. Brings(InfoRequest, 2, <<>>)
    <2>1. Builds(Headed(12, 2, 0), 2, <<>>)
      BY HeaderOnly, SmallFits
    <2>. QED  BY <2>1 DEF Builds, InfoRequest, HNODE_MGMT_REQ_PINFO
  <1>2. Brings(DebugRequest, 5, BigEndian(4, 1))
    <2>1. PICK h \in Seq(Nat) : h = FieldBytes(Header, MsgHead(16, 5, 1)) /\ Len(h) = 12
      <3>1. HeadBytes(16, 5, 1)
        BY HeadWritten
      <3>. QED  BY <3>1 DEF HeadBytes
    <2>2. Written(Headed(16, 5, 1), h)
      BY <2>1, HeadedIs
    <2>3. PICK b \in Seq(Nat) : b = BigEndian(4, 1) /\ Len(b) = 4
      <3>1. AreBytes(BigEndian(4, 1), 4, 1)
        BY BytesOfInt DEF Widths
      <3>. QED  BY <3>1 DEF AreBytes
    <2>4. PICK q : q = SetInt(Headed(16, 5, 1), 4, 1)
      OBVIOUS
    <2>5. Written(q, h \o b)
      BY <2>2, <2>3, <2>4, WriteInt DEF Widths
    <2>6. IsPacket(q) /\ q.data = h \o b /\ Len(q.data) <= q.cap
      BY <2>5 DEF Written
    <2>7. 16 = 12 + Len(b)
      <3>1. Len(b) = 4
        BY <2>3
      <3>. QED  BY <3>1
    <2>8. Builds(q, 5, b)
      BY <2>1, <2>6, <2>7, MsgWritten, SmallFits
    <2>. QED  BY <2>3, <2>4, <2>8 DEF Builds, DebugRequest, HNODE_MGMT_DEBUG_CTRL
  <1>. QED  BY <1>1, <1>2

\* A server's update packet is a message that tells of the node.
LEMMA UpdateBuilds ==
    ASSUME NEW n \in Nodes, NEW id \in Nat, id <= MaxKnown, NEW tag \in Nat,
           NEW prov, prov = claim(Records[n], id)
    PROVE  \E body : /\ Builds(UpdatePacket(tag, id, prov), HNODE_MGMT_NODE_PKT, body)
                     /\ Len(UpdatePacket(tag, id, prov).data) > 12
                     /\ NodeBody(body, n, id)
  <1>1. PICK d : d = NodeData[n] /\ NodeFits(d) /\ Fits(4, UpdateSize(d))
    BY NodesAssumption DEF Nodes
  <1>2. PICK a : a = NodeAddr[n] /\ AddressFits(a)
    BY NodesAssumption DEF Nodes
  <1>3. Fits(4, id)
    BY NodesAssumption, FitsBelow DEF Widths
  <1>4. PICK r : r = Claimed(d, a, id) /\ prov = r
    <2>1. Records[n] = Discovered(d, a)
      BY <1>1, <1>2 DEF Records
    <2>. QED  BY <1>1, <1>2, <2>1, ClaimIs
  <1>5. RecordFits(r) /\ ReadRecord(r) = r
    BY <1>1, <1>2, <1>3, <1>4, ClaimedFits
  <1>6. PICK h \in Seq(Nat) : h = FieldBytes(Header, MsgHead(12, 10, tag))
    <2>1. HeadBytes(12, 10, tag)
      BY HeadWritten
    <2>. QED  BY <2>1 DEF HeadBytes
  <1>7. PICK l \in Seq(Nat), t \in Seq(Nat) :
            l = BigEndian(4, 12) /\ Len(l) = 4 /\ t = Behind(10, tag) /\ h = l \o t
    <2>1. HeadBytes(12, 10, tag)
      BY HeadWritten
    <2>2. BigEndian(4, 12) \in Seq(Nat) /\ Len(BigEndian(4, 12)) = 4
      <3>1. AreBytes(BigEndian(4, 12), 4, 12)
        BY BytesOfInt DEF Widths
      <3>. QED  BY <3>1 DEF AreBytes
    <2>3. Behind(10, tag) \in Seq(Nat) /\ h = BigEndian(4, 12) \o Behind(10, tag)
      BY <1>6, <2>1 DEF HeadBytes
    <2>. QED  BY <2>2, <2>3
  <1>8. PICK i \in Seq(Nat) : i = BigEndian(4, id) /\ Len(i) = 4
    <2>1. AreBytes(BigEndian(4, id), 4, id)
      BY BytesOfInt DEF Widths
    <2>. QED  BY <2>1 DEF AreBytes
  <1>9. PICK p : p = SetInt(Headed(12, 10, tag), 4, id) /\ Written(p, h \o i)
    <2>1. Written(Headed(12, 10, tag), h)
      BY <1>6, HeadedIs
    <2>. QED  BY <1>8, <2>1, WriteInt DEF Widths
  <1>10. PICK q : q = BuildClientUpdate(p, r)
    OBVIOUS
  <1>11. PICK e : UpdateIs(q, h \o i, r, e)
    BY <1>5, <1>9, <1>10, UpdateBuilt
  <1>12. PICK s \in Seq(Nat) :
            s = Preface(r) \o EndsOf(e, r) /\ Len(s) = Len(Preface(r)) + Len(EndsOf(e, r))
    BY <1>11, Joins DEF UpdateIs
  <1>13. PICK body \in Seq(Nat) : body = i \o s /\ Len(body) = Len(i) + Len(s)
    BY Joins
  <1>14. PICK y \in Seq(Nat) : y = t \o body
    BY Joins
  <1>15. q.data = l \o y /\ Written(q, l \o y)
    <2>1. Nest3(l, t, body) /\ Nest3(h, i, s)
      BY Nested3
    <2>2. (l \o t) \o body = l \o (t \o body) /\ (h \o i) \o s = h \o (i \o s)
      BY <2>1 DEF Nest3
    <2>. QED  BY <1>7, <1>11, <1>12, <1>13, <1>14, <2>1, <2>2 DEF UpdateIs
  <1>16. PICK L \in Nat : L = DataLength(q) /\ L = 12 + Len(body) /\ L <= q.cap
    <2>1. Len(h) = 12
      <3>1. HeadBytes(12, 10, tag)
        BY HeadWritten
      <3>. QED  BY <1>6, <3>1 DEF HeadBytes
    <2>2. Len(h \o body) = Len(h) + Len(body) /\ Len(h \o body) = Len(q.data)
      <3>. Nest3(l, t, body)
        BY Nested3
      <3>1. (l \o t) \o body = l \o (t \o body)
        BY DEF Nest3
      <3>. QED  BY <1>7, <1>14, <1>15, <3>1, Joins
    <2>3. Len(body) \in Nat
      BY LenProperties
    <2>. QED  BY <1>15, <2>1, <2>2, <2>3 DEF DataLength, Written
  <1>17. L <= UpdateSize(d) /\ L > 12
    <2>1. Len(Preface(r)) = 26 + UIDLength
      BY <1>5, PrefaceLength
    <2>2. PICK k \in Nat : k = Len(r.EndPointArray) /\ EPsFit(r.EndPointArray, k)
      BY <1>5 DEF RecordFits, EPsFit
    <2>3. k = Len(d.EndPointArray)
      <3>1. r.EndPointArray = TrueEndPoints(d, a)
        BY <1>4 DEF Claimed, RecordOf
      <3>2. Len(d.EndPointArray) \in Nat
        BY <1>1, EndPointsFit
      <3>3. DOMAIN r.EndPointArray = 1..Len(d.EndPointArray)
        BY <3>1 DEF TrueEndPoints
      <3>4. 1..k = 1..Len(d.EndPointArray)
        BY <2>2, <3>3 DEF EPsFit
      <3>. QED  BY <3>2, <3>4
    <2>4. Len(EndsOf(e, r)) \in Nat /\ Len(EndsOf(e, r)) <= k * (14 + MimeMax)
      <3>1. Grows(e, Sent(r.EndPointArray, k), k) /\ e[0] = <<>> /\ EndsOf(e, r) = e[k]
        BY <1>11, <2>2 DEF UpdateIs, EPBytesOf, EndsOf
      <3>. QED  BY <2>2, <3>1, SentLength, UpdateWidths
    <2>5. PICK w : w = k * (14 + MimeMax)
      OBVIOUS
    <2>6. w \in Int
      <3>1. MimeMax \in Nat
        BY RecordAssumption DEF Fits
      <3>. QED  BY <2>5, <3>1
    <2>10. PICK v \in Nat : v = Len(EndsOf(e, r)) /\ v <= w
      BY <2>4, <2>5
    <2>7. UpdateSize(d) = 42 + UIDLength + w /\ UIDLength \in Nat
      BY <2>3, <2>5, RecordAssumption DEF UpdateSize
    <2>8. Len(body) = 4 + (26 + UIDLength + v)
      BY <1>8, <1>12, <1>13, <2>1, <2>10
    <2>9. L = 12 + (4 + (26 + UIDLength + v))
      BY <1>16, <2>8
    <2>. QED  BY <2>6, <2>10, <2>7, <2>9
  <1>18. Holds(4, L)
    <2>1. Fits(4, L)
      BY <1>1, <1>17, FitsBelow DEF Widths
    <2>. QED  BY <2>1, FitsCut DEF Holds, Widths
  <1>19. PICK w : w = SetInt(Reset(q), 4, L)
    OBVIOUS
  <1>20. IsPacket(w) /\ w.cap = q.cap /\ w.data = BigEndian(4, L) \o y
    <2>1. Rewritten(w, q, L, y)
      BY <1>7, <1>15, <1>19, Rewrites
    <2>. QED  BY <2>1 DEF Rewritten
  <1>21. w.data = FieldBytes(Header, MsgHead(L, 10, tag)) \o body
    <2>1. FieldBytes(Header, MsgHead(L, 10, tag)) = BigEndian(4, L) \o t
      <3>1. HeadBytes(L, 10, tag)
        BY HeadWritten
      <3>. QED  BY <1>7, <3>1 DEF HeadBytes
    <2>2. PICK b \in Seq(Nat) : b = BigEndian(4, L)
      <3>1. AreBytes(BigEndian(4, L), 4, L)
        BY BytesOfInt DEF Widths
      <3>. QED  BY <3>1 DEF AreBytes
    <2>. Nest3(b, t, body)
      BY Nested3
    <2>3. (b \o t) \o body = b \o (t \o body)
      BY DEF Nest3
    <2>. QED  BY <1>14, <1>20, <2>1, <2>2, <2>3
  <1>22. Len(w.data) = L
    <2>1. PICK f \in Seq(Nat) : f = FieldBytes(Header, MsgHead(L, 10, tag)) /\ Len(f) = 12
      <3>1. HeadBytes(L, 10, tag)
        BY HeadWritten
      <3>. QED  BY <3>1 DEF HeadBytes
    <2>2. Len(f \o body) = Len(f) + Len(body)
      BY Joins
    <2>. QED  BY <1>16, <1>21, <2>1, <2>2
  <1>23. Builds(w, 10, body)
    BY <1>16, <1>18, <1>20, <1>21, <1>22, MsgWritten, SmallFits
  <1>24. ASSUME NEW x, Readable(x, body)
         PROVE  GetInt(x, 4) = id /\ ParseClientUpdate(NewProvider, Skip(x, 4)) = r
    <2>1. GetInt(x, 4) = Cut(4, id) /\ Readable(Skip(x, 4), s)
      BY <1>8, <1>13, <1>24, IntRead DEF Widths
    <2>2. Cut(4, id) = id
      BY <1>3, FitsCut DEF Widths
    <2>3. ParseClientUpdate(NewProvider, Skip(x, 4)) = ReadRecord(r)
      BY <1>5, <1>11, <1>12, <2>1, UpdateRead DEF UpdateIs
    <2>. QED  BY <1>5, <2>1, <2>2, <2>3
  <1>25. NodeBody(body, n, id)
    BY <1>1, <1>2, <1>4, <1>24 DEF NodeBody
  <1>26. UpdatePacket(tag, id, prov) = w
    BY <1>4, <1>9, <1>10, <1>16, <1>19 DEF UpdatePacket, HNODE_MGMT_NODE_PKT
  <1>. QED  BY <1>17, <1>22, <1>23, <1>25, <1>26 DEF HNODE_MGMT_NODE_PKT

\* A debug frame of a node, as it is on its way to the server.
FrameRec(id, seq) ==
    [Type |-> 2, SeqCnt |-> seq, SvrObjID |-> id, EPIndex |-> 1, DataLength |-> 1]

FramePkt(n, id, seq) ==
    SetBytes(SetFields(NewPacket, NodeFrameLayout, FrameRec(id, seq)), <<n>>)

\* What the server reads in it.
FrameRead(f, id) ==
    /\ f["Type"] \in Nat /\ f["SeqCnt"] \in Nat /\ f["SvrObjID"] = id
    /\ f["EPIndex"] \in Nat /\ f["DataLength"] = 1

IsByte(d, n) == d = <<n>> /\ d \in Seq(Nat) /\ Len(d) = 1 /\ d \o <<>> = d

LEMMA OneByte ==
    ASSUME NEW n \in Nat
    PROVE  IsByte(<<n>>, n)
  <1>1. <<n>> \in Seq(Nat) /\ Len(<<n>>) = 1
    OBVIOUS
  <1>2. <<n>> \o <<>> = <<n>>
    BY <1>1, ConcatEmptySeq
  <1>. QED  BY <1>1, <1>2 DEF IsByte

LEMMA OneByteRead ==
    ASSUME NEW n \in Nat, NEW p, Readable(p, <<n>>)
    PROVE  GetBytes(p, 1) = <<n>>
  <1>1. PICK d \in Seq(Nat) : IsByte(d, n)
    BY OneByte DEF IsByte
  <1>2. Readable(p, d \o <<>>) /\ <<>> \in Seq(Nat)
    BY <1>1 DEF IsByte
  <1>3. GetBytes(p, Len(d)) = d
    BY <1>2, BytesRead
  <1>. QED  BY <1>1, <1>3 DEF IsByte

LEMMA FrameSent ==
    ASSUME NEW n \in Nat, NEW id \in Nat, NEW seq \in Nat
    PROVE  /\ Fills(FrameRec(id, seq), NodeFrameLayout)
           /\ FieldBytes(NodeFrameLayout, FrameRec(id, seq)) \in Seq(Nat)
           /\ Written(FramePkt(n, id, seq),
                      FieldBytes(NodeFrameLayout, FrameRec(id, seq)) \o <<n>>)
  <1>1. PICK r : r = FrameRec(id, seq)
    OBVIOUS
  <1>2. /\ Len(NodeFrameLayout) = 5 /\ NodeFrameLayout[1][1] = "Type"
        /\ NodeFrameLayout[2][1] = "SeqCnt" /\ NodeFrameLayout[3][1] = "SvrObjID"
        /\ NodeFrameLayout[4][1] = "EPIndex" /\ NodeFrameLayout[5][1] = "DataLength"
    BY DEF NodeFrameLayout
  <1>3. Fills(r, NodeFrameLayout)
    BY <1>1, <1>2 DEF Fills, FieldValue, FrameRec
  <1>4. PICK F \in Seq(Nat) : F = FieldBytes(NodeFrameLayout, r)
    BY <1>3, MessageLayouts, FieldBytesAreBytes
  <1>5. Written(SetFields(NewPacket, NodeFrameLayout, r), F)
    <2>1. Written(SetFields(NewPacket, NodeFrameLayout, r), <<>> \o FieldBytes(NodeFrameLayout, r))
      BY <1>3, NothingWritten, MessageLayouts, WriteFields
    <2>2. <<>> \o F = F
      BY ConcatEmptySeq
    <2>. QED  BY <1>4, <2>1, <2>2
  <1>6. <<n>> \in Seq(Nat)
    OBVIOUS
  <1>7. Written(FramePkt(n, id, seq), F \o <<n>>)
    BY <1>1, <1>5, <1>6, WriteBytes DEF FramePkt
  <1>. QED  BY <1>1, <1>3, <1>4, <1>7

LEMMA FrameIsRead ==
    ASSUME NEW n \in Nat, NEW id \in Nat, Holds(4, id), NEW seq \in Nat,
           NEW p, p = Reset(FramePkt(n, id, seq))
    PROVE  /\ FrameRead(GetFields(p, NodeFrameLayout), id)
           /\ GetBytes(SkipFields(p, NodeFrameLayout), 1) = <<n>>
  <1>1. PICK r : r = FrameRec(id, seq) /\ Fills(r, NodeFrameLayout)
    BY FrameSent
  <1>2. PICK F \in Seq(Nat) : F = FieldBytes(NodeFrameLayout, r)
    BY <1>1, FrameSent
  <1>3. Readable(p, F \o <<n>>)
    BY <1>1, <1>2, FrameSent, ResetReads
  <1>4. <<n>> \in Seq(Nat)
    OBVIOUS
  <1>5. FieldsAre(p, NodeFrameLayout, r, <<n>>)
    BY <1>1, <1>2, <1>3, <1>4, MessageLayouts, FieldsRead
  <1>6. GetBytes(SkipFields(p, NodeFrameLayout), 1) = <<n>>
    BY <1>5, OneByteRead DEF FieldsAre
  <1>7. PICK f : f = GetFields(p, NodeFrameLayout)
    OBVIOUS
  <1>8. /\ Len(NodeFrameLayout) = 5 /\ NodeFrameLayout[1] = <<"Type", 2>>
        /\ NodeFrameLayout[2] = <<"SeqCnt", 2>> /\ NodeFrameLayout[3] = <<"SvrObjID", 4>>
        /\ NodeFrameLayout[4] = <<"EPIndex", 2>> /\ NodeFrameLayout[5] = <<"DataLength", 2>>
    BY DEF NodeFrameLayout
  <1>9. /\ f["Type"] = Cut(2, 2) /\ f["SeqCnt"] = Cut(2, seq) /\ f["SvrObjID"] = Cut(4, id)
        /\ f["EPIndex"] = Cut(2, 1) /\ f["DataLength"] = Cut(2, 1)
    BY <1>1, <1>5, <1>7, <1>8 DEF FieldsAre, FieldValue, FrameRec
  <1>10. \A v \in Nat : Cut(2, v) \in Nat
    <2>1. 256^2 = 65536
      OBVIOUS
    <2>. QED  BY <2>1 DEF Cut
  <1>11. FrameRead(f, id)
    BY <1>9, <1>10, SmallFits DEF FrameRead, Holds
  <1>. QED  BY <1>6, <1>7, <1>11

\* What a server sends on of it is a message that tells of the node.
LEMMA DebugBuilds ==
    ASSUME NEW n \in Nat, NEW id \in Nat, id <= MaxKnown, NEW seq \in Nat
    PROVE  \E body : /\ Builds(DebugPacket(FramePkt(n, id, seq)), HNODE_MGMT_DEBUG_PKT, body)
                     /\ FrameBody(body, n, id)
  <1>1. Holds(4, id)
    <2>1. Fits(4, id)
      BY NodesAssumption, FitsBelow DEF Widths
    <2>. QED  BY <2>1, FitsCut DEF Holds, Widths
  <1>2. PICK p : p = Reset(FramePkt(n, id, seq))
    OBVIOUS
  <1>3. PICK f : f = GetFields(p, NodeFrameLayout) /\ FrameRead(f, id)
    BY <1>1, <1>2, FrameIsRead
  <1>4. PICK d \in Seq(Nat) : IsByte(d, n) /\ GetBytes(SkipFields(p, NodeFrameLayout), 1) = d
    <2>1. GetBytes(SkipFields(p, NodeFrameLayout), 1) = <<n>>
      BY <1>1, <1>2, FrameIsRead
    <2>2. IsByte(<<n>>, n)
      BY OneByte
    <2>. QED  BY <2>1, <2>2 DEF IsByte
  <1>5. /\ Len(DebugLayout) = 5 /\ DebugLayout[1] = <<"Type", 4>>
        /\ DebugLayout[2] = <<"SeqCnt", 4>> /\ DebugLayout[3] = <<"SvrObjID", 4>>
        /\ DebugLayout[4] = <<"EPIndex", 4>> /\ DebugLayout[5] = <<"DataLength", 4>>
    BY DEF DebugLayout
  <1>6. Fills(f, DebugLayout)
    BY <1>3, <1>5 DEF Fills, FieldValue, FrameRead
  <1>7. PICK D \in Seq(Nat) : D = FieldBytes(DebugLayout, f) /\ Len(D) = 20
    BY <1>6, MessageLayouts, FieldBytesAreBytes
  <1>8. PICK h \in Seq(Nat) : h = FieldBytes(Header, MsgHead(33, 8, 0))
    <2>1. HeadBytes(33, 8, 0)
      BY HeadWritten
    <2>. QED  BY <2>1 DEF HeadBytes
  <1>9. Written(Headed(33, 8, 0), h)
    BY <1>8, HeadedIs
  <1>10. PICK s : s = SetFields(Headed(33, 8, 0), DebugLayout, f) /\ Written(s, h \o D)
    BY <1>6, <1>7, <1>9, MessageLayouts, WriteFields
  <1>11. PICK x : x = SetBytes(s, d) /\ Written(x, (h \o D) \o d)
    BY <1>10, WriteBytes
  <1>12. PICK body \in Seq(Nat) : body = D \o d /\ Len(body) = 21
    <2>1. D \o d \in Seq(Nat) /\ Len(D \o d) = Len(D) + Len(d)
      BY Joins
    <2>2. Len(d) = 1 /\ Len(D) = 20
      BY <1>4, <1>7 DEF IsByte
    <2>3. Len(D \o d) = 21
      BY <2>1, <2>2
    <2>. QED  BY <2>1, <2>3
  <1>13. IsPacket(x) /\ x.data = h \o body /\ Len(x.data) <= x.cap
    <2>1. Nest3(h, D, d)
      BY Nested3
    <2>. QED  BY <1>11, <1>12, <2>1 DEF Written, Nest3
  <1>14. Builds(x, 8, body)
    <2>1. 33 = 12 + Len(body)
      <3>1. Len(body) = 21
        BY <1>12
      <3>. QED  BY <3>1
    <2>. QED  BY <1>8, <1>13, <2>1, MsgWritten, SmallFits
  <1>15. DebugPacket(FramePkt(n, id, seq)) = x
    <2>1. f["DataLength"] = 1
      BY <1>3 DEF FrameRead
    <2>2. 8 * 4 + Len(d) = 33
      <3>1. Len(d) = 1
        BY <1>4 DEF IsByte
      <3>. QED  BY <3>1
    <2>. QED  BY <1>2, <1>3, <1>4, <1>10, <1>11, <2>1, <2>2 DEF DebugPacket, HNODE_MGMT_DEBUG_PKT
  <1>16. ASSUME NEW y, Readable(y, body)
         PROVE  /\ GetFields(y, DebugLayout)["SvrObjID"] = id
                /\ GetFields(y, DebugLayout)["DataLength"] = 1
                /\ GetBytes(SkipFields(y, DebugLayout), 1) = <<n>>
    <2>1. FieldsAre(y, DebugLayout, f, d)
      BY <1>6, <1>7, <1>12, <1>16, MessageLayouts, FieldsRead
    <2>2. Readable(SkipFields(y, DebugLayout), <<n>>)
      BY <1>4, <2>1 DEF FieldsAre, IsByte
    <2>3. GetBytes(SkipFields(y, DebugLayout), 1) = <<n>>
      BY <2>2, OneByteRead
    <2>4. PICK g : g = GetFields(y, DebugLayout)
      OBVIOUS
    <2>5. g["SvrObjID"] = Cut(4, f["SvrObjID"]) /\ g["DataLength"] = Cut(4, f["DataLength"])
      BY <1>5, <2>1, <2>4 DEF FieldsAre, FieldValue
    <2>6. g["SvrObjID"] = id /\ g["DataLength"] = 1
      BY <1>1, <1>3, <2>5, SmallFits DEF FrameRead, Holds
    <2>. QED  BY <2>3, <2>4, <2>6
  <1>17. FrameBody(body, n, id)
    BY <1>16 DEF FrameBody
  <1>. QED  BY <1>14, <1>15, <1>17 DEF HNODE_MGMT_DEBUG_PKT

--------------------------------------------------------------------------------
(* The stream to a browser.                                                *)

\* A message to a browser that has records of the first i nodes of the sequence ks, and
\* has j of them afterwards.
Message(x, i, j, ks) ==
    \E type, body :
        /\ Brings(x, type, body)
        /\ \/ /\ type = HNODE_MGMT_NODE_PKT /\ Len(x) > 12
              /\ j = i + 1 /\ j <= Len(ks) /\ NodeBody(body, ks[j], i)
           \/ /\ type = HNODE_MGMT_DEBUG_PKT
              /\ j = i /\ \E k \in 1..Len(ks) : FrameBody(body, ks[k], k - 1)
           \/ type = HNODE_MGMT_ACK /\ j = i

Carried(s, t, i, j, ks) == \E x \in Seq(Nat) : s = x \o t /\ Message(x, i, j, ks)

\* A stream of n messages: b[k] is what is left after k of them, and u[k] the number of
\* records then.
IsFlight(n, b, u, tb, first, last, ks) ==
    /\ n \in Nat /\ b \in [0..n -> Seq(Nat)] /\ u \in [0..n -> Nat]
    /\ b[0] = tb /\ b[n] = <<>> /\ u[0] = first /\ u[n] = last
    /\ \A k \in 1..n : Carried(b[k - 1], b[k], u[k - 1], u[k], ks)

Flight(tb, first, last, ks) == \E n, b, u : IsFlight(n, b, u, tb, first, last, ks)

LEMMA FlightStarts ==
    ASSUME NEW i \in Nat, NEW ks
    PROVE  Flight(<<>>, i, i, ks)
  <1>1. PICK b : b = [k \in 0..0 |-> <<>>]
    OBVIOUS
  <1>2. PICK u : u = [k \in 0..0 |-> i]
    OBVIOUS
  <1>3. b \in [0..0 -> Seq(Nat)] /\ u \in [0..0 -> Nat] /\ b[0] = <<>> /\ u[0] = i
    BY <1>1, <1>2
  <1>4. IsFlight(0, b, u, <<>>, i, i, ks)
    BY <1>3 DEF IsFlight
  <1>. QED  BY <1>4 DEF Flight

\* The server sends a message.
LEMMA FlightGrows ==
    ASSUME NEW tb, NEW first, NEW last, NEW ks, Flight(tb, first, last, ks),
           NEW x \in Seq(Nat), NEW j \in Nat, Message(x, last, j, ks)
    PROVE  Flight(tb \o x, first, j, ks)
  <1>1. PICK n, b, u : IsFlight(n, b, u, tb, first, last, ks)
    BY DEF Flight
  <1>2. n \in Nat /\ b \in [0..n -> Seq(Nat)] /\ u \in [0..n -> Nat]
    BY <1>1 DEF IsFlight
  <1>3. PICK c : c = [k \in 0..(n + 1) |-> IF k <= n THEN b[k] \o x ELSE <<>>]
    OBVIOUS
  <1>4. PICK v : v = [k \in 0..(n + 1) |-> IF k <= n THEN u[k] ELSE j]
    OBVIOUS
  <1>5. \A k \in 0..n : b[k] \in Seq(Nat) /\ b[k] \o x \in Seq(Nat)
    BY <1>2, Joins
  <1>6. c \in [0..(n + 1) -> Seq(Nat)] /\ v \in [0..(n + 1) -> Nat]
    <2>1. \A k \in 0..(n + 1) : k <= n => k \in 0..n
      BY <1>2
    <2>. QED  BY <1>2, <1>3, <1>4, <1>5, <2>1
  <1>7. /\ 0 \in 0..(n + 1) /\ 0 <= n /\ n + 1 \in 0..(n + 1) /\ ~(n + 1 <= n)
        /\ n \in 0..(n + 1) /\ n <= n
    BY <1>2
  <1>8. c[0] = tb \o x /\ c[n + 1] = <<>> /\ v[0] = first /\ v[n + 1] = j
    BY <1>1, <1>3, <1>4, <1>7 DEF IsFlight
  <1>9. ASSUME NEW k \in 1..(n + 1) PROVE Carried(c[k - 1], c[k], v[k - 1], v[k], ks)
    <2>1. k - 1 \in 0..(n + 1) /\ k - 1 <= n /\ k \in 0..(n + 1)
      BY <1>2
    <2>2. c[k - 1] = b[k - 1] \o x /\ v[k - 1] = u[k - 1]
      BY <1>3, <1>4, <2>1
    <2>3. CASE k <= n
      <3>1. k \in 1..n /\ k \in 0..n
        BY <1>2, <2>3
      <3>2. PICK y \in Seq(Nat) : b[k - 1] = y \o b[k] /\ Message(y, u[k - 1], u[k], ks)
        BY <1>1, <3>1 DEF IsFlight, Carried
      <3>3. c[k] = b[k] \o x /\ v[k] = u[k]
        BY <1>3, <1>4, <2>1, <2>3
      <3>4. Nest3(y, b[k], x)
        BY <1>5, <3>1, Nested3
      <3>. QED  BY <2>2, <3>2, <3>3, <3>4 DEF Carried, Nest3
    <2>4. CASE ~(k <= n)
      <3>1. k = n + 1 /\ k - 1 = n
        BY <1>2, <2>4
      <3>2. c[k] = <<>> /\ v[k] = j /\ b[n] = <<>> /\ u[n] = last
        BY <1>1, <1>8, <3>1 DEF IsFlight
      <3>3. <<>> \o x = x /\ x \o <<>> = x
        BY ConcatEmptySeq
      <3>. QED  BY <2>2, <3>1, <3>2, <3>3 DEF Carried
    <2>. QED  BY <2>3, <2>4
  <1>10. n + 1 \in Nat
    BY <1>2
  <1>11. IsFlight(n + 1, c, v, tb \o x, first, j, ks)
    <2>1. \A k \in 1..(n + 1) : Carried(c[k - 1], c[k], v[k - 1], v[k], ks)
      BY <1>9
    <2>. QED  BY <1>6, <1>8, <1>10, <2>1 DEF IsFlight
  <1>. QED  BY <1>11 DEF Flight

\* The browser receives one.
Lands(tb, first, last, ks, x, t, j) ==
    tb = x \o t /\ Message(x, first, j, ks) /\ Flight(t, j, last, ks)

LEMMA FlightLands ==
    ASSUME NEW tb, NEW first, NEW last, NEW ks, Flight(tb, first, last, ks), tb # <<>>
    PROVE  \E x \in Seq(Nat), t \in Seq(Nat), j \in Nat : Lands(tb, first, last, ks, x, t, j)
  <1>1. PICK n, b, u : IsFlight(n, b, u, tb, first, last, ks)
    BY DEF Flight
  <1>2. n \in Nat \ {0} /\ b \in [0..n -> Seq(Nat)] /\ u \in [0..n -> Nat]
    BY <1>1 DEF IsFlight
  <1>3. 1 \in 1..n /\ 1 \in 0..n /\ 1 - 1 = 0 /\ n - 1 \in Nat
    BY <1>2
  <1>4. PICK x \in Seq(Nat) : tb = x \o b[1] /\ Message(x, first, u[1], ks)
    <2>1. Carried(b[1 - 1], b[1], u[1 - 1], u[1], ks)
      BY <1>1, <1>3 DEF IsFlight
    <2>2. Carried(tb, b[1], first, u[1], ks)
      BY <1>1, <1>3, <2>1 DEF IsFlight
    <2>. QED  BY <2>2 DEF Carried
  <1>5. b[1] \in Seq(Nat) /\ u[1] \in Nat
    BY <1>2, <1>3
  <1>6. PICK c : c = [k \in 0..(n - 1) |-> b[k + 1]]
    OBVIOUS
  <1>7. PICK v : v = [k \in 0..(n - 1) |-> u[k + 1]]
    OBVIOUS
  <1>8. c \in [0..(n - 1) -> Seq(Nat)] /\ v \in [0..(n - 1) -> Nat]
    <2>1. \A k \in 0..(n - 1) : k + 1 \in 0..n
      BY <1>2
    <2>. QED  BY <1>2, <1>6, <1>7, <2>1
  <1>9. c[0] = b[1] /\ c[n - 1] = <<>> /\ v[0] = u[1] /\ v[n - 1] = last
    <2>1. 0 \in 0..(n - 1) /\ n - 1 \in 0..(n - 1) /\ 0 + 1 = 1 /\ (n - 1) + 1 = n
      BY <1>2
    <2>. QED  BY <1>1, <1>6, <1>7, <2>1 DEF IsFlight
  <1>10. ASSUME NEW k \in 1..(n - 1) PROVE Carried(c[k - 1], c[k], v[k - 1], v[k], ks)
    <2>1. /\ k - 1 \in 0..(n - 1) /\ k \in 0..(n - 1) /\ (k - 1) + 1 = k
          /\ k + 1 \in 1..n /\ (k + 1) - 1 = k
      BY <1>2
    <2>2. c[k - 1] = b[k] /\ c[k] = b[k + 1] /\ v[k - 1] = u[k] /\ v[k] = u[k + 1]
      BY <1>6, <1>7, <2>1
    <2>3. Carried(b[(k + 1) - 1], b[k + 1], u[(k + 1) - 1], u[k + 1], ks)
      BY <1>1, <2>1 DEF IsFlight
    <2>. QED  BY <2>1, <2>2, <2>3
  <1>11. IsFlight(n - 1, c, v, b[1], u[1], last, ks)
    <2>1. \A k \in 1..(n - 1) : Carried(c[k - 1], c[k], v[k - 1], v[k], ks)
      BY <1>10
    <2>. QED  BY <1>3, <1>8, <1>9, <2>1 DEF IsFlight
  <1>12. Flight(b[1], u[1], last, ks)
    BY <1>11 DEF Flight
  <1>. QED  BY <1>4, <1>5, <1>12 DEF Lands

\* The server gets to know another node.
LEMMA FlightStays ==
    ASSUME NEW tb, NEW first, NEW last, NEW ks \in Seq(Nat), Flight(tb, first, last, ks),
           NEW n \in Nat
    PROVE  Flight(tb, first, last, Append(ks, n))
  <1>1. PICK r \in Seq(Nat) : r = Append(ks, n)
    <2>1. Append(ks, n) \in Seq(Nat)
      BY AppendProperties
    <2>. QED  BY <2>1
  <1>2. PICK l \in Nat : l = Len(ks) /\ Len(r) = l + 1 /\ \A k \in 1..l : r[k] = ks[k]
    BY <1>1, AppendProperties, LenProperties
  <1>3. ASSUME NEW x, NEW i \in Nat, NEW j \in Nat, Message(x, i, j, ks) PROVE Message(x, i, j, r)
    <2>1. PICK type, body :
            /\ Brings(x, type, body)
            /\ \/ /\ type = HNODE_MGMT_NODE_PKT /\ Len(x) > 12
                  /\ j = i + 1 /\ j <= Len(ks) /\ NodeBody(body, ks[j], i)
               \/ /\ type = HNODE_MGMT_DEBUG_PKT
                  /\ j = i /\ \E k \in 1..Len(ks) : FrameBody(body, ks[k], k - 1)
               \/ type = HNODE_MGMT_ACK /\ j = i
      BY <1>3 DEF Message
    <2>2. ASSUME type = HNODE_MGMT_NODE_PKT, Len(x) > 12,
                 j = i + 1, j <= Len(ks), NodeBody(body, ks[j], i)
          PROVE  j <= Len(r) /\ NodeBody(body, r[j], i)
      <3>1. j \in 1..l /\ j <= l + 1
        BY <1>2, <2>2
      <3>. QED  BY <1>2, <2>2, <3>1
    <2>3. ASSUME NEW k \in 1..Len(ks), FrameBody(body, ks[k], k - 1)
          PROVE  k \in 1..Len(r) /\ FrameBody(body, r[k], k - 1)
      <3>1. k \in 1..l /\ k \in 1..(l + 1)
        BY <1>2, <2>3
      <3>. QED  BY <1>2, <2>3, <3>1
    <2>. QED  BY <2>1, <2>2, <2>3 DEF Message
  <1>4. PICK m, b, u : IsFlight(m, b, u, tb, first, last, ks)
    BY DEF Flight
  <1>5. ASSUME NEW k \in 1..m PROVE Carried(b[k - 1], b[k], u[k - 1], u[k], r)
    <2>1. u[k - 1] \in Nat /\ u[k] \in Nat
      <3>1. m \in Nat /\ u \in [0..m -> Nat]
        BY <1>4 DEF IsFlight
      <3>2. k - 1 \in 0..m /\ k \in 0..m
        BY <3>1
      <3>. QED  BY <3>1, <3>2
    <2>2. Carried(b[k - 1], b[k], u[k - 1], u[k], ks)
      BY <1>4 DEF IsFlight
    <2>. QED  BY <1>3, <2>1, <2>2 DEF Carried
  <1>6. IsFlight(m, b, u, tb, first, last, r)
    BY <1>4, <1>5 DEF IsFlight
  <1>. QED  BY <1>1, <1>6 DEF Flight

--------------------------------------------------------------------------------
(* The sessions of the servers.                                            *)

\* What SessionProofs shows of a session, whose providers are numbers and whose
\* debug packets carry the frames themselves.
SP == INSTANCE SessionProofs WITH Providers <- Nat, Frames <- AnyPacket

LEMMA SameHandlers ==
    /\ SP!NewClient = NewClient
    /\ \A c : /\ SP!StartClient(c) = StartClient(c)
              /\ SP!RxDebugCtrl(c) = RxDebugCtrl(c)
              /\ SP!TxComplete(c) = TxComplete(c)
              /\ \A x : /\ SP!AddNode(c, x) = AddNode(c, x)
                        /\ SP!RxReqPInfo(c, x) = RxReqPInfo(c, x)
                        /\ SP!ForwardDebugPacket(c, x) = ForwardDebugPacket(c, x)
  <1>1. SP!NewClient = NewClient
    BY DEF NewClient, SP!NewClient
  <1>2. \A c : SP!BuildUpdatePacket(c) = BuildUpdatePacket(c)
    BY DEF BuildUpdatePacket, SP!BuildUpdatePacket, NewNodes, SP!NewNodes, FirstNew, SP!FirstNew,
           ExposeNode, SP!ExposeNode, NodePkt, SP!NodePkt
  <1>3. ASSUME NEW c
        PROVE  /\ SP!StartClient(c) = StartClient(c)
               /\ SP!RxDebugCtrl(c) = RxDebugCtrl(c)
    BY DEF StartClient, SP!StartClient, RxDebugCtrl, SP!RxDebugCtrl
  <1>4. ASSUME NEW c PROVE SP!TxComplete(c) = TxComplete(c)
    BY <1>2 DEF TxComplete, SP!TxComplete, NextUpdate, SP!NextUpdate, FinishUpdate, SP!FinishUpdate
  <1>5. ASSUME NEW c, NEW x PROVE SP!AddNode(c, x) = AddNode(c, x)
    BY <1>2 DEF AddNode, SP!AddNode
  <1>6. ASSUME NEW c, NEW x
        PROVE  /\ SP!RxReqPInfo(c, x) = RxReqPInfo(c, x)
               /\ SP!ForwardDebugPacket(c, x) = ForwardDebugPacket(c, x)
    BY DEF RxReqPInfo, SP!RxReqPInfo, ForwardDebugPacket, SP!ForwardDebugPacket,
           SendPacket, SP!SendPacket, AckPkt, SP!AckPkt, DebugPkt, SP!DebugPkt
  <1>. QED  BY <1>1, <1>3, <1>4, <1>5, <1>6

--------------------------------------------------------------------------------
(* Lists.                                                                  *)

\* A sequence of n elements, of whatever kind.
List(x, n) == n \in Nat /\ x = [i \in 1..n |-> x[i]]

LEMMA ListIs ==
    ASSUME NEW x, NEW n, List(x, n)
    PROVE  /\ Len(x) = n /\ DOMAIN x = 1..n
           /\ x \in Seq({x[i] : i \in 1..n})
  BY DEF List

\* It has one more.
Extends(y, x, n, e) ==
    /\ List(y, n + 1) /\ y[n + 1] = e /\ DOMAIN y = 1..(n + 1) /\ Len(y) = n + 1
    /\ \A i \in 1..n : i \in 1..(n + 1) /\ y[i] = x[i]

LEMMA ListAppends ==
    ASSUME NEW x, NEW n, List(x, n), NEW e
    PROVE  Extends(Append(x, e), x, n, e)
  <1>1. PICK A : A = {x[i] : i \in 1..n} \cup {e}
    OBVIOUS
  <1>2. n \in Nat /\ Len(x) = n /\ x \in Seq(A) /\ e \in A
    <2>1. n \in Nat /\ x \in Seq({x[i] : i \in 1..n})
      BY ListIs DEF List
    <2>. QED  BY <1>1, <2>1, ListIs
  <1>3. PICK y \in Seq(A) : y = Append(x, e) /\ Len(y) = n + 1
    <2>1. Append(x, e) \in Seq(A) /\ Len(Append(x, e)) = Len(x) + 1
      BY <1>2, AppendProperties
    <2>. QED  BY <1>2, <2>1
  <1>4. y[n + 1] = e /\ \A i \in 1..n : y[i] = x[i]
    BY <1>2, <1>3, AppendProperties
  <1>5. y = [i \in 1..(n + 1) |-> y[i]] /\ DOMAIN y = 1..(n + 1)
    <2>1. y \in [1..(n + 1) -> A]
      BY <1>3, LenProperties
    <2>. QED  BY <2>1
  <1>. QED  BY <1>2, <1>3, <1>4, <1>5 DEF Extends, List

\* One is another.
Changes(y, x, n, m, e) ==
    List(y, n) /\ y[m] = e /\ \A i \in 1..n : i # m => y[i] = x[i]

LEMMA ListChanges ==
    ASSUME NEW x, NEW n, List(x, n), NEW m \in 1..n, NEW e,
           NEW y, y = [x EXCEPT ![m] = e]
    PROVE  Changes(y, x, n, m, e)
  BY DEF List, Changes

LEMMA Grown ==
    ASSUME NEW ks \in Seq(Nodes), NEW n \in Nodes
    PROVE  /\ Append(ks, n) \in Seq(Nodes) /\ Len(Append(ks, n)) = Len(ks) + 1
           /\ Append(ks, n)[Len(ks) + 1] = n
           /\ \A k \in 1..Len(ks) : Append(ks, n)[k] = ks[k]
  BY AppendProperties, LenProperties

--------------------------------------------------------------------------------
(* What a point has.                                                       *)

\* The first k providers of a server, which are numbered as they come.
Upto(k) == [i \in 1..k |-> i]

\* A frame from one of the nodes ks of a server.
FromNode(b, ks) == \E k \in 1..Len(ks), q \in Nat : b = FramePkt(ks[k], k - 1, q)

\* The records l of a point are those of its server's first nodes.
Entries(l, ks) ==
    /\ List(l, Len(l)) /\ Len(l) <= Len(ks)
    /\ \A i \in 1..Len(l) :
          /\ l[i].MPointNodeID = i - 1
          /\ l[i].Provider = Claimed(NodeData[ks[i]], NodeAddr[ks[i]], i - 1)

\* The session c knows k providers, and told its client of ann; i records have come.
Tuned(lk, c, tb, i, ks, k, ann) ==
    /\ SP!Follows(c, ann, Upto(k)) /\ i <= k
    /\ \/ /\ lk = "up" /\ k = Len(ks) /\ c.State # "STOPPED"
          /\ Flight(tb, i, Len(ann), ks)
       \/ lk = "connecting" /\ tb = <<>> /\ c = NewClient /\ i = 0
       \/ lk = "down" /\ tb = <<>>
       \/ lk = "ended"
    /\ \A b \in SP!FramesIn(c.TxPackets) : FromNode(b, ks)

Linked(lk, c, tb, i, ks) ==
    \E k \in 0..Len(ks), ann \in Seq(Nat) : Tuned(lk, c, tb, i, ks, k, ann)

Asking == {<<>>, InfoRequest, DebugRequest, InfoRequest \o DebugRequest}

PointIs(l, lk, c, tb, ts, ks) ==
    Entries(l, ks) /\ ts \in Asking /\ Linked(lk, c, tb, Len(l), ks)

LEMMA UptoIs ==
    ASSUME NEW k \in Nat
    PROVE  /\ Upto(k) \in Seq(Nat) /\ Len(Upto(k)) = k
           /\ Append(Upto(k), k + 1) = Upto(k + 1)
           /\ Upto(0) = <<>>
  <1>1. Upto(k) \in Seq(Nat) /\ Len(Upto(k)) = k
    BY DEF Upto
  <1>2. Append(Upto(k), k + 1) = Upto(k + 1)
    <2>1. List(Upto(k), k)
      BY DEF List, Upto
    <2>2. Extends(Append(Upto(k), k + 1), Upto(k), k, k + 1)
      BY <2>1, ListAppends
    <2>. QED  BY <2>2 DEF Extends, List, Upto
  <1>3. Upto(0) = <<>>
    BY DEF Upto
  <1>. QED  BY <1>1, <1>2, <1>3

LEMMA NodesAreNumbers ==
    ASSUME NEW ks \in Seq(Nodes)
    PROVE  /\ ks \in Seq(Nat) /\ Len(ks) \in Nat /\ DOMAIN ks = 1..Len(ks)
           /\ \A k \in 1..Len(ks) : ks[k] \in Nodes /\ ks[k] \in Nat
  <1>1. Nodes \subseteq Nat
    BY NodesAssumption DEF Nodes
  <1>2. Len(ks) \in Nat /\ DOMAIN ks = 1..Len(ks) /\ \A k \in 1..Len(ks) : ks[k] \in Nodes
    BY LenProperties, ElementOfSeq
  <1>3. ks \in Seq(Nat)
    <2>1. ks \in [1..Len(ks) -> Nodes]
      BY LenProperties
    <2>2. ks \in [1..Len(ks) -> Nat]
      BY <1>1, <2>1
    <2>. QED  BY <1>2, <2>2, IsASeq
  <1>. QED  BY <1>1, <1>2, <1>3

--------------------------------------------------------------------------------
(* What happens to a point.                                                *)

LEMMA FrameIsPacket ==
    ASSUME NEW ks \in Seq(Nodes), NEW b, FromNode(b, ks)
    PROVE  b \in AnyPacket
  <1>1. PICK k \in 1..Len(ks), q \in Nat : b = FramePkt(ks[k], k - 1, q)
    BY DEF FromNode
  <1>2. PICK n \in Nat, i \in Nat : n = ks[k] /\ i = k - 1
    <2>1. ks[k] \in Nat /\ k - 1 \in Nat
      BY NodesAreNumbers
    <2>. QED  BY <2>1
  <1>3. Written(b, FieldBytes(NodeFrameLayout, FrameRec(i, q)) \o <<n>>)
    BY <1>1, <1>2, FrameSent
  <1>. QED  BY <1>3 DEF Written, IsPacket, AnyPacket

LEMMA FrameStays ==
    ASSUME NEW ks \in Seq(Nodes), NEW n \in Nodes, NEW b, FromNode(b, ks)
    PROVE  FromNode(b, Append(ks, n))
  <1>1. PICK k \in 1..Len(ks), q \in Nat : b = FramePkt(ks[k], k - 1, q)
    BY DEF FromNode
  <1>2. Append(ks, n)[k] = ks[k] /\ k \in 1..Len(Append(ks, n))
    BY Grown, NodesAreNumbers
  <1>. QED  BY <1>1, <1>2 DEF FromNode

LEMMA EntriesStay ==
    ASSUME NEW ks \in Seq(Nodes), NEW n \in Nodes, NEW l, Entries(l, ks)
    PROVE  Entries(l, Append(ks, n))
  <1>1. PICK r : r = Append(ks, n)
    OBVIOUS
  <1>2. Len(r) = Len(ks) + 1 /\ Len(ks) \in Nat /\ \A k \in 1..Len(ks) : r[k] = ks[k]
    BY <1>1, Grown, NodesAreNumbers
  <1>3. Len(l) \in Nat /\ Len(l) <= Len(ks) /\ \A i \in 1..Len(l) : i \in 1..Len(ks)
    BY <1>2 DEF Entries, List
  <1>4. Len(l) <= Len(r) /\ \A i \in 1..Len(l) : r[i] = ks[i]
    BY <1>2, <1>3
  <1>. QED  BY <1>1, <1>4 DEF Entries

\* Another provider is known to the server, with the session's connection not up.
LEMMA PointMisses ==
    ASSUME NEW ks \in Seq(Nodes), NEW n \in Nodes,
           NEW l, NEW lk, NEW c, NEW tb, NEW ts, PointIs(l, lk, c, tb, ts, ks), lk # "up"
    PROVE  PointIs(l, lk, c, tb, ts, Append(ks, n))
  <1>1. PICK k \in 0..Len(ks), ann \in Seq(Nat) : Tuned(lk, c, tb, Len(l), ks, k, ann)
    BY DEF PointIs, Linked
  <1>2. PICK r : r = Append(ks, n)
    OBVIOUS
  <1>3. k \in 0..Len(r)
    BY <1>2, Grown, NodesAreNumbers
  <1>4. \A b \in SP!FramesIn(c.TxPackets) : FromNode(b, r)
    BY <1>1, <1>2, FrameStays DEF Tuned
  <1>5. Tuned(lk, c, tb, Len(l), r, k, ann)
    BY <1>1, <1>4 DEF Tuned
  <1>6. Entries(l, r) /\ ts \in Asking
    BY <1>2, EntriesStay DEF PointIs
  <1>. QED  BY <1>2, <1>3, <1>5, <1>6 DEF PointIs, Linked

\* With its connection up, the session gets to know it too.
LEMMA PointLearns ==
    ASSUME NEW ks \in Seq(Nodes), NEW n \in Nodes,
           NEW l, NEW c, NEW tb, NEW ts, PointIs(l, "up", c, tb, ts, ks)
    PROVE  PointIs(l, "up", AddNode(c, Len(ks) + 1), tb, ts, Append(ks, n))
  <1>1. PICK k \in 0..Len(ks), ann \in Seq(Nat) : Tuned("up", c, tb, Len(l), ks, k, ann)
    BY DEF PointIs, Linked
  <1>2. PICK r : r = Append(ks, n)
    OBVIOUS
  <1>3. Len(r) = k + 1 /\ k = Len(ks) /\ k \in Nat /\ n \in Nat /\ ks \in Seq(Nat)
    <2>1. k = Len(ks) /\ k \in Nat /\ ks \in Seq(Nat)
      BY <1>1, NodesAreNumbers DEF Tuned
    <2>. QED  BY <1>2, <2>1, Grown, NodesAssumption DEF Nodes
  <1>4. PICK d : d = AddNode(c, k + 1)
    OBVIOUS
  <1>5. PICK u : u = Upto(k) /\ Append(u, k + 1) = Upto(k + 1)
    BY <1>3, UptoIs
  <1>6. k + 1 \in Nat /\ SP!Follows(c, ann, u) /\ d = SP!AddNode(c, k + 1)
    BY <1>1, <1>3, <1>4, <1>5, SameHandlers DEF Tuned
  <1>7. /\ SP!Follows(d, ann, Append(u, k + 1))
        /\ SP!FramesIn(d.TxPackets) = SP!FramesIn(c.TxPackets)
        /\ d.State = "STOPPED" <=> c.State = "STOPPED"
    BY <1>6, SP!AddFollows, SMTT(60)
  <1>8. \A b \in SP!FramesIn(d.TxPackets) : FromNode(b, r)
    BY <1>1, <1>2, <1>7, FrameStays DEF Tuned
  <1>9. Flight(tb, Len(l), Len(ann), r)
    BY <1>1, <1>2, <1>3, FlightStays DEF Tuned
  <1>10. Len(l) <= k + 1
    <2>1. Len(l) \in Nat /\ Len(l) <= k
      BY <1>1 DEF Tuned, PointIs, Entries, List
    <2>. QED  BY <1>3, <2>1
  <1>11. Tuned("up", d, tb, Len(l), r, k + 1, ann)
    BY <1>1, <1>3, <1>5, <1>7, <1>8, <1>9, <1>10 DEF Tuned
  <1>12. Entries(l, r) /\ ts \in Asking
    BY <1>2, EntriesStay DEF PointIs
  <1>13. k + 1 \in 0..Len(r)
    BY <1>3
  <1>14. Linked("up", d, tb, Len(l), r)
    BY <1>11, <1>13 DEF Linked
  <1>. QED  BY <1>2, <1>3, <1>4, <1>12, <1>14 DEF PointIs

\* A session that waits for its start, and knows k providers.
Waits(c, k) == SP!Follows(c, <<>>, Upto(k)) /\ c.State = "STOPPED" /\ c.TxPackets = <<>>

AddScan(h, n) ==
    h = [s \in SUBSET (1..n) |-> IF s = {} THEN NewClient
                                           ELSE AddNode(h[s \ {Max(s)}], Upto(n)[Max(s)])]

LEMMA WaitAdds ==
    ASSUME NEW c, NEW l, SP!Follows(c, <<>>, l), c.State = "STOPPED", c.TxPackets = <<>>,
           NEW i \in Nat, NEW d, d = AddNode(c, i)
    PROVE  /\ SP!Follows(d, <<>>, Append(l, i))
           /\ d.State = "STOPPED" /\ d.TxPackets = <<>>
  <1>1. d = SP!AddNode(c, i)
    BY SameHandlers
  <1>2. PICK ann \in Seq(Nat) : ann = <<>>
    <2>1. <<>> \in Seq(Nat)
      OBVIOUS
    <2>. QED  BY <2>1
  <1>3. SP!Follows(c, ann, l)
    BY <1>2
  <1>4. /\ SP!Follows(d, ann, Append(l, i))
        /\ d.State = "STOPPED" <=> c.State = "STOPPED"
        /\ c.State = "STOPPED" => d.TxPackets = c.TxPackets
    BY <1>1, <1>3, SP!AddFollows
  <1>. QED  BY <1>2, <1>4

LEMMA ServerLists ==
    ASSUME NEW n \in Nat
    PROVE  Waits(FoldLeft(AddNode, NewClient, Upto(n)), n)
  <1> DEFINE Stopped(c, l) == SP!Follows(c, <<>>, l) /\ c.State = "STOPPED" /\ c.TxPackets = <<>>
             B == {c \in SP!Sessions : \E l : Stopped(c, l)}
             G == [x \in (1..n) \X B |-> AddNode(x[2], x[1])]
             f == CHOOSE h : AddScan(h, n)
  <1>1. ASSUME NEW c, NEW l, SP!Follows(c, <<>>, l) PROVE c \in SP!Sessions
    BY <1>1 DEF SP!Follows, SP!Sound, SP!Bookkept
  <1>2. Stopped(NewClient, <<>>) /\ NewClient \in B
    <2>1. Stopped(NewClient, <<>>)
      BY SameHandlers, SP!NewFollows
    <2>. QED  BY <1>1, <2>1
  <1>3. ASSUME NEW k \in 1..n, NEW c, NEW l, Stopped(c, l)
        PROVE  Stopped(AddNode(c, k), Append(l, k))
    BY <1>3, WaitAdds
  <1>4. ASSUME NEW k \in 1..n, NEW c \in B PROVE AddNode(c, k) \in B
    <2>1. PICK l : Stopped(c, l)
      OBVIOUS
    <2>2. Stopped(AddNode(c, k), Append(l, k))
      BY <1>3, <2>1
    <2>. QED  BY <1>1, <2>2
  <1>. HIDE DEF B
  <1>5. /\ G \in [(1..n) \X B -> B]
        /\ \A k \in 1..n, c \in B : G[<<k, c>>] = AddNode(c, k)
    BY <1>4
  <1>6. DOMAIN Upto(n) = 1..n /\ \A k \in 1..n : Upto(n)[k] = k
    BY DEF Upto
  <1>7. FoldLeft(AddNode, NewClient, Upto(n)) = f[1..n]
    <2>1. PICK u : u = Upto(n) /\ DOMAIN u = 1..n
      BY <1>6
    <2>2. FoldLeft(AddNode, NewClient, u) = f[1..n]
      BY <2>1 DEF AddScan, FoldLeft, MapThenFoldSet
    <2>. QED  BY <2>1, <2>2
  <1>. HIDE DEF G, f
  <1>8. PICK h \in [SUBSET (1..n) -> B] : FoldsTo(h, n, NewClient, G)
    BY <1>2, <1>5, FoldIsDefined DEF IsFold
  <1>9. AddScan(h, n)
    <2>1. ASSUME NEW s \in SUBSET (1..n)
          PROVE  h[s] = IF s = {} THEN NewClient ELSE AddNode(h[s \ {Max(s)}], Upto(n)[Max(s)])
      <3>1. CASE s # {}
        <4>1. Max(s) \in 1..n /\ h[s \ {Max(s)}] \in B
          BY <3>1, MaxOfPositions
        <4>. QED  BY <1>5, <1>6, <1>8, <3>1, <4>1 DEF FoldsTo
      <3>. QED  BY <1>8, <3>1 DEF FoldsTo
    <2>2. h = [s \in SUBSET (1..n) |-> h[s]]
      OBVIOUS
    <2>. QED  BY <2>1, <2>2 DEF AddScan
  <1>10. AddScan(f, n)
    BY <1>9 DEF f
  <1>11. FoldsBy(f, n, B, NewClient, G)
    <2>1. f[{}] = NewClient
      BY <1>10 DEF AddScan
    <2>2. ASSUME NEW s \in SUBSET (1..n), s # {}, f[s \ {Max(s)}] \in B
          PROVE  f[s] = G[<<Max(s), f[s \ {Max(s)}]>>]
      <3>1. Max(s) \in 1..n
        BY <2>2, MaxOfPositions
      <3>2. f[s] = AddNode(f[s \ {Max(s)}], Upto(n)[Max(s)])
        BY <1>10, <2>2 DEF AddScan
      <3>. QED  BY <1>5, <1>6, <2>2, <3>1, <3>2
    <2>. QED  BY <2>1, <2>2 DEF FoldsBy
  <1>12. PICK g : FoldTrace(g, n, B, NewClient, G, f[1..n])
    BY <1>2, <1>5, <1>11, FoldPrefixes
  <1> DEFINE S == {k \in Nat : k <= n => Stopped(g[k], Upto(k))}
  <1>13. 0 \in S
    <2>1. g[0] = NewClient /\ Upto(0) = <<>>
      BY <1>12, UptoIs DEF FoldTrace
    <2>. QED  BY <1>2, <2>1
  <1>14. ASSUME NEW k \in Nat, k \in S PROVE k + 1 \in S
    <2> SUFFICES ASSUME k + 1 <= n PROVE Stopped(g[k + 1], Upto(k + 1))
      OBVIOUS
    <2>1. Stopped(g[k], Upto(k)) /\ k + 1 \in 1..n /\ (k + 1) - 1 = k
      BY <1>14
    <2>2. g[k] \in B /\ g[k + 1] = G[<<k + 1, g[k]>>]
      BY <1>12, <2>1 DEF FoldTrace
    <2>3. g[k + 1] = AddNode(g[k], k + 1)
      BY <1>5, <2>1, <2>2
    <2>4. Stopped(AddNode(g[k], k + 1), Append(Upto(k), k + 1))
      BY <1>3, <2>1
    <2>. QED  BY <2>3, <2>4, UptoIs
  <1>15. S = Nat
    <2>. HIDE DEF S
    <2>1. S \in SUBSET Nat
      BY DEF S
    <2>. QED  BY <1>13, <1>14, <2>1, Induction
  <1>16. Stopped(g[n], Upto(n)) /\ g[n] = f[1..n]
    <2>1. n \in S /\ n <= n
      BY <1>15
    <2>. QED  BY <1>12, <2>1 DEF FoldTrace
  <1>. QED  BY <1>7, <1>16 DEF Waits

\* g_hnode_server_newsrc.
LEMMA PointAccepts ==
    ASSUME NEW ks \in Seq(Nodes), NEW l, NEW c, NEW tb, NEW ts,
           PointIs(l, "connecting", c, tb, ts, ks),
           NEW d, d = StartClient(FoldLeft(AddNode, NewClient, Upto(Len(ks))))
    PROVE  PointIs(l, "up", d, tb, ts, ks)
  <1>1. Entries(l, ks) /\ ts \in Asking /\ tb = <<>> /\ Len(l) = 0
    BY DEF PointIs, Linked, Tuned
  <1>2. PICK k \in Nat : k = Len(ks)
    BY NodesAreNumbers
  <1>3. PICK e : e = FoldLeft(AddNode, NewClient, Upto(k)) /\ Waits(e, k)
    BY ServerLists
  <1>4. /\ SP!Follows(d, <<>>, Upto(k)) /\ d.State = "IDLE" /\ d.TxPackets = <<>>
    <2>1. d = SP!StartClient(e)
      BY <1>2, <1>3, SameHandlers
    <2>. QED  BY <1>3, <2>1, SP!StartFollows DEF Waits
  <1>5. SP!FramesIn(d.TxPackets) = {}
    BY <1>4, SP!NewFollows
  <1>6. Flight(<<>>, 0, 0, ks)
    BY FlightStarts
  <1>7. Len(<<>>) = 0 /\ 0 <= k /\ <<>> \in Seq(Nat) /\ k \in 0..Len(ks)
    BY <1>2
  <1>8. Tuned("up", d, tb, Len(l), ks, k, <<>>)
    BY <1>1, <1>2, <1>4, <1>5, <1>6, <1>7 DEF Tuned
  <1>9. Linked("up", d, tb, Len(l), ks)
    BY <1>7, <1>8 DEF Linked
  <1>. QED  BY <1>1, <1>9 DEF PointIs

\* mpoint_start.
LEMMA PointStarts ==
    ASSUME NEW ks \in Seq(Nodes), mode \in {"list", "debug"}
    PROVE  PointIs(<<>>, "connecting", NewClient, <<>>, Requests, ks)
  <1>1. Requests \in Asking
    <2>1. InfoRequest \o <<>> = InfoRequest
      <3>1. InfoRequest \in Seq(Nat)
        BY RequestsAre DEF Brings
      <3>. QED  BY <3>1, ConcatEmptySeq
    <2>2. \/ Requests = InfoRequest \o <<>>
          \/ Requests = InfoRequest \o DebugRequest
      BY DEF Requests, InfoRequest, DebugRequest
    <2>. QED  BY <2>1, <2>2 DEF Asking
  <1>2. Len(ks) \in Nat /\ Len(<<>>) = 0 /\ <<>> \in Seq(Nat) /\ 0 \in 0..Len(ks)
    BY NodesAreNumbers
  <1>3. Entries(<<>>, ks)
    <2>1. 1..0 = {} /\ List(<<>>, 0)
      BY DEF List
    <2>. QED  BY <1>2, <2>1 DEF Entries
  <1>4. SP!Follows(NewClient, <<>>, Upto(0)) /\ SP!FramesIn(NewClient.TxPackets) = {}
    BY SameHandlers, SP!NewFollows, UptoIs
  <1>5. Tuned("connecting", NewClient, <<>>, 0, ks, 0, <<>>)
    BY <1>4 DEF Tuned
  <1>6. Linked("connecting", NewClient, <<>>, Len(<<>>), ks)
    BY <1>2, <1>5 DEF Linked
  <1>. QED  BY <1>1, <1>3, <1>6 DEF PointIs

\* The connection breaks, or the process ends.
LEMMA PointStops ==
    ASSUME NEW ks, NEW l, NEW lk, NEW c, NEW tb, NEW ts, PointIs(l, lk, c, tb, ts, ks)
    PROVE  /\ PointIs(l, "down", c, <<>>, <<>>, ks)
           /\ PointIs(l, "ended", c, tb, ts, ks)
  <1>1. PICK k \in 0..Len(ks), ann \in Seq(Nat) : Tuned(lk, c, tb, Len(l), ks, k, ann)
    BY DEF PointIs, Linked
  <1>2. Tuned("down", c, <<>>, Len(l), ks, k, ann) /\ Tuned("ended", c, tb, Len(l), ks, k, ann)
    BY <1>1 DEF Tuned
  <1>3. Linked("down", c, <<>>, Len(l), ks) /\ Linked("ended", c, tb, Len(l), ks)
    BY <1>2 DEF Linked
  <1>4. <<>> \in Asking
    BY DEF Asking
  <1>. QED  BY <1>3, <1>4 DEF PointIs

\* The session changes, and what it tells its client does not.
LEMMA PointTurns ==
    ASSUME NEW ks, NEW l, NEW c, NEW tb, NEW ts, PointIs(l, "up", c, tb, ts, ks),
           NEW d, NEW us \in Asking,
           \A ann \in Seq(Nat) : \A u : SP!Follows(c, ann, u) /\ c.State # "STOPPED"
               => SP!Follows(d, ann, u) /\ d.State # "STOPPED",
           \A b \in SP!FramesIn(d.TxPackets) : b \in SP!FramesIn(c.TxPackets) \/ FromNode(b, ks)
    PROVE  PointIs(l, "up", d, tb, us, ks)
  <1>1. PICK k \in 0..Len(ks), ann \in Seq(Nat) : Tuned("up", c, tb, Len(l), ks, k, ann)
    BY DEF PointIs, Linked
  <1>2. SP!Follows(d, ann, Upto(k)) /\ d.State # "STOPPED"
    BY <1>1 DEF Tuned
  <1>3. \A b \in SP!FramesIn(d.TxPackets) : FromNode(b, ks)
    BY <1>1 DEF Tuned
  <1>4. Tuned("up", d, tb, Len(l), ks, k, ann)
    BY <1>1, <1>2, <1>3 DEF Tuned
  <1>5. Linked("up", d, tb, Len(l), ks)
    BY <1>4 DEF Linked
  <1>. QED  BY <1>5 DEF PointIs

\* g_hnode_client_forward_debug_packet.
LEMMA PointForwards ==
    ASSUME NEW ks \in Seq(Nodes), NEW l, NEW c, NEW tb, NEW ts, PointIs(l, "up", c, tb, ts, ks),
           NEW f, FromNode(f, ks), NEW d, d = ForwardDebugPacket(c, f)
    PROVE  PointIs(l, "up", d, tb, ts, ks)
  <1>1. f \in AnyPacket /\ d = SP!ForwardDebugPacket(c, f)
    BY FrameIsPacket, SameHandlers
  <1>2. ASSUME NEW ann \in Seq(Nat), NEW u, SP!Follows(c, ann, u), c.State # "STOPPED"
        PROVE  /\ SP!Follows(d, ann, u) /\ d.State # "STOPPED"
               /\ SP!FramesIn(d.TxPackets) \subseteq SP!FramesIn(c.TxPackets) \cup {f}
    BY <1>1, <1>2, SP!ForwardFollows
  <1>3. SP!FramesIn(d.TxPackets) \subseteq SP!FramesIn(c.TxPackets) \cup {f}
    <2>1. PICK k \in 0..Len(ks), ann \in Seq(Nat) : Tuned("up", c, tb, Len(l), ks, k, ann)
      BY DEF PointIs, Linked
    <2>. QED  BY <1>2, <2>1 DEF Tuned
  <1>4. ts \in Asking
    BY DEF PointIs
  <1>. QED  BY <1>2, <1>3, <1>4, PointTurns

\* What the session reads in a stream of requests.
Heard(ts, type, rest) ==
    /\ GetFields(Received(ts), Header)["Type"] = type
    /\ GetFields(Received(ts), Header)["IOTag"] \in Nat
    /\ Rest(ts, Received(ts)) = rest

LEMMA HeardFirst ==
    ASSUME NEW x, NEW type, NEW body, Brings(x, type, body), NEW rest \in Seq(Nat),
           NEW ts, ts = x \o rest
    PROVE  Heard(ts, type, rest)
  <1>1. Delivers(ts, rest, Len(x), type, body)
    BY DEF Brings
  <1>2. GetFields(Received(ts), Header)["IOTag"] \in Nat
    <2>1. IsPacket(Received(ts)) /\ IsLayout(Header)
      BY <1>1, MessageLayouts DEF Delivers
    <2>2. \A k \in 1..Len(Header) : GetFields(Received(ts), Header)[Header[k][1]] \in Nat
      BY <2>1, GetsFields
    <2>3. 3 \in 1..Len(Header) /\ Header[3][1] = "IOTag"
      BY DEF Header
    <2>. QED  BY <2>2, <2>3
  <1>. QED  BY <1>1, <1>2 DEF Delivers, Heard

LEMMA RequestsHeard ==
    ASSUME NEW ts \in Asking, ts # <<>>
    PROVE  \E type \in {2, 5}, rest \in Asking : Heard(ts, type, rest)
  <1>1. /\ Brings(InfoRequest, 2, <<>>) /\ Brings(DebugRequest, 5, BigEndian(4, 1))
        /\ InfoRequest \in Seq(Nat) /\ DebugRequest \in Seq(Nat) /\ <<>> \in Seq(Nat)
    BY RequestsAre DEF Brings
  <1>2. InfoRequest \o <<>> = InfoRequest /\ DebugRequest \o <<>> = DebugRequest
    BY <1>1, ConcatEmptySeq
  <1>3. <<>> \in Asking /\ DebugRequest \in Asking
    BY DEF Asking
  <1>4. CASE ts = InfoRequest \o <<>>
    <2>1. Heard(ts, 2, <<>>)
      BY <1>1, <1>4, HeardFirst
    <2>. QED  BY <1>3, <2>1
  <1>5. CASE ts = DebugRequest \o <<>>
    <2>1. Heard(ts, 5, <<>>)
      BY <1>1, <1>5, HeardFirst
    <2>. QED  BY <1>3, <2>1
  <1>6. CASE ts = InfoRequest \o DebugRequest
    <2>1. Heard(ts, 2, DebugRequest)
      BY <1>1, <1>6, HeardFirst
    <2>. QED  BY <1>3, <2>1
  <1>. QED  BY <1>2, <1>4, <1>5, <1>6 DEF Asking

\* g_hnode_client_client_rx.
SessionRx(c, type, tag) ==
    CASE type = HNODE_MGMT_REQ_PINFO  -> RxReqPInfo(c, tag)
      [] type = HNODE_MGMT_DEBUG_CTRL -> RxDebugCtrl(c)
      [] OTHER -> c

LEMMA PointAsks ==
    ASSUME NEW ks \in Seq(Nodes), NEW l, NEW c, NEW tb, NEW ts, PointIs(l, "up", c, tb, ts, ks),
           ts # <<>>, NEW p, p = Received(ts), NEW h, h = GetFields(p, Header)
    PROVE  PointIs(l, "up", SessionRx(c, h["Type"], h["IOTag"]), tb, Rest(ts, p), ks)
  <1>1. PICK type \in {2, 5}, rest \in Asking : Heard(ts, type, rest)
    BY RequestsHeard DEF PointIs
  <1>2. PICK tag \in Nat : tag = h["IOTag"] /\ h["Type"] = type /\ Rest(ts, p) = rest
    BY <1>1 DEF Heard
  <1>3. PICK d : d = SessionRx(c, type, tag)
    OBVIOUS
  <1>4. ASSUME NEW ann \in Seq(Nat), NEW u, SP!Follows(c, ann, u), c.State # "STOPPED"
        PROVE  /\ SP!Follows(d, ann, u) /\ d.State # "STOPPED"
               /\ SP!FramesIn(d.TxPackets) = SP!FramesIn(c.TxPackets)
    <2>1. CASE type = 2
      <3>1. d = SP!RxReqPInfo(c, tag)
        BY <1>3, <2>1, SameHandlers DEF SessionRx, HNODE_MGMT_REQ_PINFO, HNODE_MGMT_DEBUG_CTRL
      <3>. QED  BY <1>4, <3>1, SP!ReportFollows
    <2>2. CASE type = 5
      <3>1. d = SP!RxDebugCtrl(c)
        BY <1>3, <2>2, SameHandlers DEF SessionRx, HNODE_MGMT_REQ_PINFO, HNODE_MGMT_DEBUG_CTRL
      <3>2. SP!Follows(d, ann, u) /\ d.State = c.State /\ d.TxPackets = c.TxPackets
        BY <1>4, <3>1, SP!DebugFollows
      <3>. QED  BY <1>4, <3>2
    <2>. QED  BY <2>1, <2>2
  <1>5. SP!FramesIn(d.TxPackets) = SP!FramesIn(c.TxPackets)
    <2>1. PICK k \in 0..Len(ks), ann \in Seq(Nat) : Tuned("up", c, tb, Len(l), ks, k, ann)
      BY DEF PointIs, Linked
    <2>. QED  BY <1>4, <2>1 DEF Tuned
  <1>6. PointIs(l, "up", d, tb, rest, ks)
    BY <1>4, <1>5, PointTurns
  <1>. QED  BY <1>2, <1>3, <1>6

\* A packet of a session, as the bytes that are sent for it.
Sendable(q, pkt, ks) ==
    /\ q.data \in Seq(Nat) /\ Len(q.data) <= q.cap
    /\ pkt.type = "NODE" => Message(q.data, pkt.body, pkt.body + 1, ks)
    /\ pkt.type # "NODE" => \A i \in Nat : Message(q.data, i, i, ks)

LEMMA EncodedIs ==
    ASSUME NEW m, NEW ks \in Seq(Nodes), ks = known[ServerOf(m)], Len(ks) <= MaxKnown,
           NEW k \in 0..Len(ks), NEW ann, SP!Follows(session[m], ann, Upto(k)),
           NEW pkt \in SP!Packets, pkt.type = "NODE" => pkt.body < k,
           pkt.type = "DEBUG" => FromNode(pkt.body, ks)
    PROVE  Sendable(Encoded(m, pkt), pkt, ks)
  <1>1. /\ pkt.type \in {"ACK", "NODE", "DEBUG"} /\ pkt.tag \in Nat
        /\ pkt.type = "NODE" => pkt.body \in Nat
    BY DEF SP!Packets
  <1>2. PICK q : q = Encoded(m, pkt)
    OBVIOUS
  <1>3. Len(ks) \in Nat /\ k \in Nat /\ k <= Len(ks) /\ MaxKnown \in Nat
    BY NodesAreNumbers, BrowserAssumption
  <1>4. CASE pkt.type = "ACK"
    <2>1. Builds(Headed(12, 7, pkt.tag), 7, <<>>)
      BY <1>1, HeaderOnly, SmallFits
    <2>2. q = Headed(12, 7, pkt.tag)
      BY <1>2, <1>4 DEF Encoded, HNODE_MGMT_ACK
    <2>3. Brings(q.data, 7, <<>>) /\ Len(q.data) <= q.cap /\ q.data \in Seq(Nat)
      BY <2>1, <2>2 DEF Builds, Brings
    <2>4. \A i \in Nat : Message(q.data, i, i, ks)
      BY <2>3 DEF Message, HNODE_MGMT_ACK
    <2>. QED  BY <1>2, <1>4, <2>3, <2>4 DEF Sendable
  <1>5. CASE pkt.type = "NODE"
    <2>1. PICK i \in Nat : i = pkt.body /\ i < k
      BY <1>1, <1>5
    <2>2. i + 1 \in 1..k /\ i + 1 \in 1..Len(ks) /\ (i + 1) - 1 = i /\ i <= MaxKnown
      BY <1>3, <2>1
    <2>3. PICK n \in Nodes : n = ks[i + 1]
      <3>1. ks[i + 1] \in Nodes
        BY <2>2, NodesAreNumbers
      <3>. QED  BY <3>1
    <2>4. session[m].NodeList[i + 1].Node = i + 1
      <3>1. SP!KnownBy(session[m]) = Upto(k) /\ SP!Bookkept(session[m])
        BY DEF SP!Follows, SP!Sound
      <3>2. /\ Len(SP!KnownBy(session[m])) = Len(session[m].NodeList)
            /\ \A j \in 1..Len(session[m].NodeList) :
                  SP!KnownBy(session[m])[j] = session[m].NodeList[j].Node
        BY <3>1, SP!KnownIsSeq
      <3>3. Len(session[m].NodeList) = k /\ Upto(k)[i + 1] = i + 1
        BY <1>3, <2>2, <3>1, <3>2, UptoIs DEF Upto
      <3>. QED  BY <2>2, <3>1, <3>2, <3>3
    <2>5. PICK prov : prov = claim(Records[n], i)
      OBVIOUS
    <2>6. ProviderOf(ServerOf(m), i + 1) = prov
      BY <2>2, <2>3, <2>5 DEF ProviderOf
    <2>7. q = UpdatePacket(pkt.tag, i, prov)
      BY <1>2, <1>5, <2>1, <2>4, <2>6 DEF Encoded
    <2>8. PICK body : /\ Builds(q, HNODE_MGMT_NODE_PKT, body) /\ Len(q.data) > 12
                      /\ NodeBody(body, n, i)
      BY <1>1, <2>2, <2>5, <2>7, UpdateBuilds
    <2>9. Brings(q.data, HNODE_MGMT_NODE_PKT, body) /\ Len(q.data) <= q.cap /\ q.data \in Seq(Nat)
      BY <2>8 DEF Builds, Brings
    <2>10. i + 1 <= Len(ks)
      BY <1>3, <2>1
    <2>11. Message(q.data, i, i + 1, ks)
      BY <2>3, <2>8, <2>9, <2>10 DEF Message
    <2>. QED  BY <1>2, <1>5, <2>1, <2>9, <2>11 DEF Sendable
  <1>6. CASE pkt.type = "DEBUG"
    <2>1. PICK j \in 1..Len(ks), s \in Nat : pkt.body = FramePkt(ks[j], j - 1, s)
      BY <1>6 DEF FromNode
    <2>2. PICK n \in Nat, i \in Nat : n = ks[j] /\ i = j - 1 /\ i <= MaxKnown
      <3>1. ks[j] \in Nat /\ j - 1 \in Nat /\ j - 1 <= MaxKnown
        BY <1>3, NodesAreNumbers
      <3>. QED  BY <3>1
    <2>3. q = DebugPacket(FramePkt(n, i, s))
      BY <1>2, <1>6, <2>1, <2>2 DEF Encoded
    <2>4. PICK body : Builds(q, HNODE_MGMT_DEBUG_PKT, body) /\ FrameBody(body, n, i)
      BY <2>2, <2>3, DebugBuilds
    <2>5. Brings(q.data, HNODE_MGMT_DEBUG_PKT, body) /\ Len(q.data) <= q.cap /\ q.data \in Seq(Nat)
      BY <2>4 DEF Builds, Brings
    <2>6. FrameBody(body, ks[j], j - 1)
      BY <2>2, <2>4
    <2>7. \A v \in Nat : Message(q.data, v, v, ks)
      BY <2>5, <2>6 DEF Message
    <2>. QED  BY <1>2, <1>6, <2>5, <2>7 DEF Sendable
  <1>. QED  BY <1>1, <1>4, <1>5, <1>6

\* client_tx: what was sent is on its way.
LEMMA PointSends ==
    ASSUME NEW m, NEW ks \in Seq(Nodes), ks = known[ServerOf(m)], Len(ks) <= MaxKnown,
           NEW l, NEW c, c = session[m], NEW tb, NEW ts, PointIs(l, "up", c, tb, ts, ks),
           c.TxPackets # <<>>
    PROVE  PointIs(l, "up", TxComplete(c), tb \o Encoded(m, Head(c.TxPackets)).data, ts, ks)
  <1>1. PICK k \in 0..Len(ks), ann \in Seq(Nat) : Tuned("up", c, tb, Len(l), ks, k, ann)
    BY DEF PointIs, Linked
  <1>2. PICK d : d = TxComplete(c) /\ d = SP!TxComplete(c)
    BY SameHandlers
  <1>3. PICK pkt : pkt = Head(c.TxPackets)
    OBVIOUS
  <1>4. PICK u : u = Upto(k) /\ Len(u) = k /\ SP!Follows(c, ann, u)
    <2>1. k \in Nat
      BY NodesAreNumbers
    <2>. QED  BY <1>1, <2>1, UptoIs DEF Tuned
  <1>5. PICK told : told = SP!ToldWith(ann, pkt)
    OBVIOUS
  <1>6. /\ SP!SendsNext(c, ann, u, pkt) /\ told \in Seq(Nat) /\ SP!Follows(d, told, u)
        /\ d.State # "STOPPED" /\ SP!FramesIn(d.TxPackets) \subseteq SP!FramesIn(c.TxPackets)
    BY <1>1, <1>2, <1>3, <1>4, <1>5, SP!CompleteFollows DEF Tuned
  <1>7. /\ pkt \in SP!Packets
        /\ pkt.type = "NODE" => pkt.body = Len(ann) /\ pkt.body < k
        /\ pkt.type = "DEBUG" => FromNode(pkt.body, ks)
    BY <1>1, <1>4, <1>6 DEF SP!SendsNext, Tuned
  <1>8. PICK q : q = Encoded(m, pkt) /\ Sendable(q, pkt, ks)
    BY <1>1, <1>4, <1>7, EncodedIs
  <1>9. PICK a, b \in Nat : a = Len(ann) /\ b = Len(told) /\ Message(q.data, a, b, ks)
    <2>1. Len(ann) \in Nat /\ Len(told) \in Nat
      BY <1>6, LenProperties
    <2>2. CASE pkt.type = "NODE"
      <3>1. Len(told) = Len(ann) + 1
        <4>1. told = Append(ann, pkt.body) /\ pkt.body \in Nat
          BY <1>5, <1>7, <2>1, <2>2 DEF SP!ToldWith
        <4>. QED  BY <4>1, AppendProperties
      <3>. QED  BY <1>7, <1>8, <2>1, <2>2, <3>1 DEF Sendable
    <2>3. CASE pkt.type # "NODE"
      <3>1. told = ann
        BY <1>5, <2>3 DEF SP!ToldWith
      <3>. QED  BY <1>8, <2>1, <2>3, <3>1 DEF Sendable
    <2>. QED  BY <2>2, <2>3
  <1>10. PICK x \in Seq(Nat) : x = q.data
    BY <1>8 DEF Sendable
  <1>11. Flight(tb \o x, Len(l), b, ks)
    BY <1>1, <1>9, <1>10, FlightGrows DEF Tuned
  <1>12. Tuned("up", d, tb \o x, Len(l), ks, k, told)
    BY <1>1, <1>4, <1>6, <1>9, <1>11 DEF Tuned
  <1>13. Linked("up", d, tb \o x, Len(l), ks)
    BY <1>6, <1>12 DEF Linked
  <1>14. PointIs(l, "up", d, tb \o x, ts, ks)
    BY <1>13 DEF PointIs
  <1>. QED  BY <1>2, <1>3, <1>8, <1>10, <1>14

\* What the browser reads in the message that comes first.
BodyOf(p) == SkipFields(p, Header)

ReadsRecord(p, i, n) ==
    /\ GetFields(p, Header)["Type"] = HNODE_MGMT_NODE_PKT /\ GetFields(p, Header)["Length"] > 12
    /\ GetInt(BodyOf(p), 4) = i
    /\ ParseClientUpdate(NewProvider, Skip(BodyOf(p), 4)) = Claimed(NodeData[n], NodeAddr[n], i)

ReadsFrame(p, ks) ==
    /\ GetFields(p, Header)["Type"] = HNODE_MGMT_DEBUG_PKT
    /\ \E k \in 1..Len(ks) :
          /\ GetFields(BodyOf(p), DebugLayout)["SvrObjID"] = k - 1
          /\ GetBytes(SkipFields(BodyOf(p), DebugLayout),
                      GetFields(BodyOf(p), DebugLayout)["DataLength"]) = <<ks[k]>>

Reads(p, c, rest, i, ks) ==
    \/ /\ ReadsRecord(p, i, ks[i + 1]) /\ i + 1 <= Len(ks)
       /\ Linked("up", c, rest, i + 1, ks)
    \/ /\ ReadsFrame(p, ks) \/ GetFields(p, Header)["Type"] = HNODE_MGMT_ACK
       /\ Linked("up", c, rest, i, ks)

LEMMA PointReads ==
    ASSUME NEW ks \in Seq(Nodes), NEW l, NEW lk \in {"connecting", "up", "down"}, NEW c, NEW tb,
           NEW ts, PointIs(l, lk, c, tb, ts, ks), Len(tb) >= 12
    PROVE  lk = "up" /\ Reads(Received(tb), c, Rest(tb, Received(tb)), Len(l), ks)
  <1>1. PICK k \in 0..Len(ks), ann \in Seq(Nat) : Tuned(lk, c, tb, Len(l), ks, k, ann)
    BY DEF PointIs, Linked
  <1>2. tb # <<>>
    <2>1. Len(<<>>) = 0
      OBVIOUS
    <2>. QED  BY <2>1
  <1>3. lk = "up"
    BY <1>1, <1>2 DEF Tuned
  <1>4. PICK i \in Nat : i = Len(l)
    BY DEF PointIs, Entries, List
  <1>5. PICK x \in Seq(Nat), t \in Seq(Nat), j \in Nat : Lands(tb, i, Len(ann), ks, x, t, j)
    <2>1. Flight(tb, i, Len(ann), ks)
      BY <1>1, <1>3, <1>4 DEF Tuned
    <2>. QED  BY <1>2, <2>1, FlightLands
  <1>6. tb = x \o t /\ Message(x, i, j, ks) /\ Flight(t, j, Len(ann), ks)
    BY <1>5 DEF Lands
  <1>7. PICK type, body :
          /\ Brings(x, type, body)
          /\ \/ /\ type = HNODE_MGMT_NODE_PKT /\ Len(x) > 12
                /\ j = i + 1 /\ j <= Len(ks) /\ NodeBody(body, ks[j], i)
             \/ /\ type = HNODE_MGMT_DEBUG_PKT
                /\ j = i /\ \E n \in 1..Len(ks) : FrameBody(body, ks[n], n - 1)
             \/ type = HNODE_MGMT_ACK /\ j = i
    BY <1>6 DEF Message
  <1>8. PICK p : p = Received(tb)
    OBVIOUS
  <1>9. /\ GetFields(p, Header)["Type"] = type /\ GetFields(p, Header)["Length"] = Len(x)
        /\ Readable(BodyOf(p), body) /\ Rest(tb, p) = t
    <2>1. Delivers(tb, t, Len(x), type, body)
      BY <1>6, <1>7 DEF Brings
    <2>. QED  BY <1>8, <2>1 DEF Delivers, BodyOf
  <1>10. ASSUME j <= k PROVE Linked("up", c, t, j, ks)
    <2>1. Tuned("up", c, t, j, ks, k, ann)
      BY <1>1, <1>3, <1>6, <1>10 DEF Tuned
    <2>. QED  BY <2>1 DEF Linked
  <1>11. k = Len(ks) /\ i <= k
    BY <1>1, <1>3, <1>4 DEF Tuned
  <1>12. CASE /\ type = HNODE_MGMT_NODE_PKT /\ Len(x) > 12
              /\ j = i + 1 /\ j <= Len(ks) /\ NodeBody(body, ks[j], i)
    <2>1. ReadsRecord(p, i, ks[i + 1])
      BY <1>9, <1>12 DEF ReadsRecord, NodeBody
    <2>2. Linked("up", c, t, i + 1, ks)
      BY <1>10, <1>11, <1>12
    <2>. QED  BY <1>3, <1>4, <1>8, <1>9, <1>12, <2>1, <2>2 DEF Reads
  <1>13. CASE /\ type = HNODE_MGMT_DEBUG_PKT
              /\ j = i /\ \E n \in 1..Len(ks) : FrameBody(body, ks[n], n - 1)
    <2>1. ReadsFrame(p, ks)
      BY <1>9, <1>13 DEF ReadsFrame, FrameBody
    <2>2. Linked("up", c, t, i, ks)
      BY <1>10, <1>11, <1>13
    <2>. QED  BY <1>3, <1>4, <1>8, <1>9, <2>1, <2>2 DEF Reads
  <1>14. CASE type = HNODE_MGMT_ACK /\ j = i
    <2>1. Linked("up", c, t, i, ks)
      BY <1>10, <1>11, <1>14
    <2>. QED  BY <1>3, <1>4, <1>8, <1>9, <1>14, <2>1 DEF Reads
  <1>. QED  BY <1>7, <1>12, <1>13, <1>14

\* The record that is added for it.
LEMMA PointGets ==
    ASSUME NEW ks \in Seq(Nodes), NEW l, NEW c, NEW tb, NEW ts, PointIs(l, "up", c, tb, ts, ks),
           NEW p, NEW rest, ReadsRecord(p, Len(l), ks[Len(l) + 1]), Len(l) + 1 <= Len(ks),
           Linked("up", c, rest, Len(l) + 1, ks),
           NEW e, e.MPointNodeID = GetInt(BodyOf(p), 4),
           e.Provider = ParseClientUpdate(NewProvider, Skip(BodyOf(p), 4))
    PROVE  PointIs(Append(l, e), "up", c, rest, ts, ks)
  <1>1. PICK i \in Nat : i = Len(l) /\ List(l, i) /\ Entries(l, ks) /\ ts \in Asking
    BY DEF PointIs, Entries, List
  <1>2. PICK r : r = Append(l, e) /\ Extends(r, l, i, e)
    BY <1>1, ListAppends
  <1>3. /\ e.MPointNodeID = (i + 1) - 1
        /\ e.Provider = Claimed(NodeData[ks[i + 1]], NodeAddr[ks[i + 1]], (i + 1) - 1)
    <2>1. (i + 1) - 1 = i
      OBVIOUS
    <2>2. /\ e.MPointNodeID = i
          /\ e.Provider = Claimed(NodeData[ks[i + 1]], NodeAddr[ks[i + 1]], i)
      BY <1>1 DEF ReadsRecord
    <2>. QED  BY <2>1, <2>2
  <1>4. ASSUME NEW j \in 1..(i + 1)
        PROVE  /\ r[j].MPointNodeID = j - 1
               /\ r[j].Provider = Claimed(NodeData[ks[j]], NodeAddr[ks[j]], j - 1)
    <2>1. CASE j \in 1..i
      BY <1>1, <1>2, <2>1 DEF Extends, Entries
    <2>2. CASE j = i + 1
      BY <1>2, <1>3, <2>2 DEF Extends
    <2>. QED  BY <2>1, <2>2
  <1>5. Len(r) = i + 1 /\ List(r, i + 1)
    BY <1>2 DEF Extends
  <1>6. Entries(r, ks)
    BY <1>1, <1>4, <1>5 DEF Entries
  <1>7. Linked("up", c, rest, Len(r), ks)
    BY <1>1, <1>5
  <1>. QED  BY <1>1, <1>2, <1>6, <1>7 DEF PointIs

--------------------------------------------------------------------------------
(* The protocol.                                                           *)

Links == {"connecting", "up", "down"}

\* The standing of a connection whose link is lk, with the process in status st.
Standing(st, lk) == IF st = "running" THEN lk ELSE "ended"

KnownTo(m) == known[ServerOf(m)]

IsPoint(r) ==
    r.service \in Services /\
    r = [service |-> r.service, CurIOTag |-> r.CurIOTag, NodeList |-> r.NodeList]

PointOK(m) ==
    PointIs(MPointList[m].NodeList, Standing(status, link[m]), session[m], toBrowser[m],
            toServer[m], KnownTo(m))

Shaped(n) ==
    /\ List(MPointList, n) /\ List(link, n) /\ List(session, n) /\ List(toServer, n)
    /\ List(toBrowser, n)

PointsOK ==
    /\ Shaped(Len(MPointList))
    /\ \A m \in Points : IsPoint(MPointList[m]) /\ link[m] \in Links /\ PointOK(m)

ServersOK == known \in [Servers -> Seq(Nodes)] /\ \A s \in Servers : Len(known[s]) <= MaxKnown

\* A node is the one its last claim says, and a frame is of the node it is sent by.
OwnersOK ==
    /\ owner = [n \in Nodes |-> owner[n]]
    /\ \A n \in Nodes : owner[n] # <<>> =>
         /\ owner[n].server \in Servers
         /\ \E k \in 1..Len(known[owner[n].server]) :
                owner[n].id = k - 1 /\ known[owner[n].server][k] = n

FramesOK == \A f \in frames : f.server \in Servers /\ FromNode(f.pkt, known[f.server])

ShownOK ==
    \A e \in shown :
        /\ e.point \in Points /\ e.index \in 1..Len(MPointList[e.point].NodeList)
        /\ e.data = <<KnownTo(e.point)[e.index]>>

BrowserInv ==
    /\ mode \in {"list", "debug"} /\ sent \in Nat
    /\ PointsOK /\ ServersOK /\ OwnersOK /\ FramesOK /\ ShownOK

LEMMA InitBrowserInv == Init => BrowserInv
  <1> SUFFICES ASSUME Init PROVE BrowserInv
    OBVIOUS
  <1>1. List(<<>>, 0) /\ Len(<<>>) = 0 /\ DOMAIN <<>> = {} /\ <<>> \in Seq(Nodes)
    BY DEF List
  <1>2. PointsOK
    BY <1>1 DEF Init, PointsOK, Shaped, Points
  <1>3. ServersOK
    BY <1>1, BrowserAssumption DEF Init, ServersOK
  <1>4. OwnersOK
    BY DEF Init, OwnersOK
  <1>. QED  BY <1>2, <1>3, <1>4 DEF Init, BrowserInv, FramesOK, ShownOK

\* What is known of a point.
LEMMA PointHas ==
    ASSUME BrowserInv, NEW m \in Points
    PROVE  /\ m \in 1..Len(MPointList) /\ Points = 1..Len(MPointList)
           /\ ServerOf(m) \in Servers /\ KnownTo(m) \in Seq(Nodes) /\ Len(KnownTo(m)) <= MaxKnown
           /\ IsPoint(MPointList[m]) /\ link[m] \in Links
           /\ PointIs(MPointList[m].NodeList, Standing(status, link[m]), session[m], toBrowser[m],
                      toServer[m], KnownTo(m))
  <1>1. Points = 1..Len(MPointList)
    BY ListIs DEF BrowserInv, PointsOK, Shaped, Points
  <1>2. IsPoint(MPointList[m]) /\ link[m] \in Links /\ PointOK(m)
    BY DEF BrowserInv, PointsOK
  <1>3. ServerOf(m) \in Servers
    BY <1>2, BrowserAssumption DEF IsPoint, ServerOf
  <1>4. KnownTo(m) \in Seq(Nodes) /\ Len(KnownTo(m)) <= MaxKnown
    BY <1>3 DEF BrowserInv, ServersOK, KnownTo
  <1>. QED  BY <1>1, <1>2, <1>3, <1>4 DEF PointOK

\* A step of the links and the sessions.
LEMMA LinksStep ==
    ASSUME BrowserInv, UNCHANGED <<mode, pointVars, known, owner>>, FramesOK', sent' \in Nat,
           NEW n, n = Len(MPointList),
           List(link', n), List(session', n), List(toServer', n), List(toBrowser', n),
           \A m \in Points :
              /\ link'[m] \in Links
              /\ PointIs(MPointList[m].NodeList, Standing(status', link'[m]), session'[m],
                         toBrowser'[m], toServer'[m], KnownTo(m))
    PROVE  BrowserInv'
  <1>1. /\ MPointList' = MPointList /\ shown' = shown /\ known' = known /\ owner' = owner
        /\ mode' = mode
    BY DEF pointVars
  <1>2. Points' = Points /\ \A m : KnownTo(m)' = KnownTo(m)
    BY <1>1 DEF Points, KnownTo, ServerOf
  <1>3. Shaped(Len(MPointList))'
    BY <1>1 DEF BrowserInv, PointsOK, Shaped
  <1>4. PointsOK'
    BY <1>1, <1>2, <1>3 DEF BrowserInv, PointsOK, PointOK
  <1>5. ServersOK' /\ OwnersOK' /\ ShownOK'
    BY <1>1, <1>2 DEF BrowserInv, ServersOK, OwnersOK, ShownOK
  <1>. QED  BY <1>1, <1>4, <1>5 DEF BrowserInv

\* One of them, with the process running.
LEMMA LinkStep ==
    ASSUME BrowserInv, Running, status' = status,
           UNCHANGED <<mode, pointVars, known, owner, frames, sent>>,
           NEW m \in Points, NEW lk \in Links, NEW c, NEW ts, NEW tb,
           PointIs(MPointList[m].NodeList, lk, c, tb, ts, KnownTo(m)),
           link' = [link EXCEPT ![m] = lk], session' = [session EXCEPT ![m] = c],
           toServer' = [toServer EXCEPT ![m] = ts], toBrowser' = [toBrowser EXCEPT ![m] = tb]
    PROVE  BrowserInv'
  <1>1. PICK n : n = Len(MPointList) /\ Points = 1..n /\ m \in 1..n /\ Shaped(n)
    BY PointHas DEF BrowserInv, PointsOK
  <1>2. /\ Changes(link', link, n, m, lk) /\ Changes(session', session, n, m, c)
        /\ Changes(toServer', toServer, n, m, ts) /\ Changes(toBrowser', toBrowser, n, m, tb)
    BY <1>1, ListChanges DEF Shaped
  <1>3. link'[m] = lk /\ session'[m] = c /\ toServer'[m] = ts /\ toBrowser'[m] = tb
    BY <1>2 DEF Changes
  <1>4. List(link', n) /\ List(session', n) /\ List(toServer', n) /\ List(toBrowser', n)
    BY <1>2 DEF Changes
  <1>5. \A i \in 1..n : i # m => /\ link'[i] = link[i] /\ session'[i] = session[i]
                               /\ toServer'[i] = toServer[i] /\ toBrowser'[i] = toBrowser[i]
    BY <1>2 DEF Changes
  <1>6. ASSUME NEW i \in Points
        PROVE  /\ link'[i] \in Links
               /\ PointIs(MPointList[i].NodeList, Standing(status', link'[i]), session'[i],
                          toBrowser'[i], toServer'[i], KnownTo(i))
    <2>1. CASE i = m
      <3>1. Standing(status', lk) = lk
        BY DEF Standing, Running
      <3>. QED  BY <1>3, <2>1, <3>1
    <2>2. CASE i # m
      <3>1. i \in 1..n
        BY <1>1
      <3>2. link'[i] = link[i] /\ session'[i] = session[i] /\ toServer'[i] = toServer[i]
            /\ toBrowser'[i] = toBrowser[i]
        BY <1>5, <2>2, <3>1
      <3>. QED  BY <3>2, PointHas
    <2>. QED  BY <2>1, <2>2
  <1>7. FramesOK' /\ sent' \in Nat
    BY DEF BrowserInv, FramesOK
  <1>. QED  BY <1>1, <1>4, <1>6, <1>7, LinksStep

LEMMA PointRuns ==
    ASSUME BrowserInv, Running, NEW m \in Points
    PROVE  /\ PointIs(MPointList[m].NodeList, link[m], session[m], toBrowser[m], toServer[m],
                      KnownTo(m))
           /\ link[m] \in Links /\ KnownTo(m) \in Seq(Nodes) /\ Len(KnownTo(m)) <= MaxKnown
  <1>1. Standing(status, link[m]) = link[m]
    BY DEF Standing, Running
  <1>. QED  BY <1>1, PointHas

\* What is left alone, as one of the elements changed.
LEMMA Kept ==
    ASSUME BrowserInv, NEW m \in Points
    PROVE  /\ link = [link EXCEPT ![m] = link[m]]
           /\ session = [session EXCEPT ![m] = session[m]]
           /\ toServer = [toServer EXCEPT ![m] = toServer[m]]
           /\ toBrowser = [toBrowser EXCEPT ![m] = toBrowser[m]]
  <1>1. m \in 1..Len(MPointList)
    BY PointHas
  <1>. QED  BY <1>1 DEF BrowserInv, PointsOK, Shaped, List

LEMMA AcceptStep ==
    ASSUME BrowserInv, Running, NEW m \in Points, Accept(m)
    PROVE  BrowserInv'
  <1>1. PICK ks \in Seq(Nodes) : ks = KnownTo(m)
    BY PointRuns
  <1>2. PICK d : d = StartClient(FoldLeft(AddNode, NewClient, Upto(Len(ks))))
    OBVIOUS
  <1>3. session' = [session EXCEPT ![m] = d]
    <2>1. [k \in DOMAIN ks |-> k] = Upto(Len(ks))
      BY NodesAreNumbers DEF Upto
    <2>. QED  BY <1>1, <1>2, <2>1 DEF Accept, KnownTo
  <1>4. PointIs(MPointList[m].NodeList, "up", d, toBrowser[m], toServer[m], ks)
    <2>1. PointIs(MPointList[m].NodeList, "connecting", session[m], toBrowser[m], toServer[m], ks)
      BY <1>1, PointRuns DEF Accept
    <2>. QED  BY <1>2, <2>1, PointAccepts
  <1>5. link' = [link EXCEPT ![m] = "up"] /\ "up" \in Links
    BY DEF Accept, Links
  <1>6. toServer' = [toServer EXCEPT ![m] = toServer[m]]
        /\ toBrowser' = [toBrowser EXCEPT ![m] = toBrowser[m]]
    BY Kept DEF Accept
  <1>7. status' = status /\ UNCHANGED <<mode, pointVars, known, owner, frames, sent>>
    BY DEF Accept, browserVars, nodeVars
  <1>. QED  BY <1>1, <1>3, <1>4, <1>5, <1>6, <1>7, LinkStep

LEMMA ServerRxStep ==
    ASSUME BrowserInv, Running, NEW m \in Points, ServerRx(m)
    PROVE  BrowserInv'
  <1>1. PICK ks \in Seq(Nodes) : ks = KnownTo(m)
    BY PointRuns
  <1>2. PICK p, h : p = Received(toServer[m]) /\ h = GetFields(p, Header)
    OBVIOUS
  <1>3. PICK d : d = SessionRx(session[m], h["Type"], h["IOTag"])
    OBVIOUS
  <1>4. session' = [session EXCEPT ![m] = d]
        /\ toServer' = [toServer EXCEPT ![m] = Rest(toServer[m], p)]
    BY <1>2, <1>3 DEF ServerRx, SessionRx
  <1>5. PointIs(MPointList[m].NodeList, "up", d, toBrowser[m], Rest(toServer[m], p), ks)
    <2>1. /\ PointIs(MPointList[m].NodeList, "up", session[m], toBrowser[m], toServer[m], ks)
          /\ toServer[m] # <<>>
      BY <1>1, PointRuns DEF ServerRx
    <2>. QED  BY <1>2, <1>3, <2>1, PointAsks
  <1>6. link' = [link EXCEPT ![m] = "up"] /\ "up" \in Links
        /\ toBrowser' = [toBrowser EXCEPT ![m] = toBrowser[m]]
    BY Kept DEF ServerRx, Links
  <1>7. status' = status /\ UNCHANGED <<mode, pointVars, known, owner, frames, sent>>
    BY DEF ServerRx, browserVars, nodeVars
  <1>. QED  BY <1>1, <1>4, <1>5, <1>6, <1>7, LinkStep

LEMMA ServerTxStep ==
    ASSUME BrowserInv, Running, NEW m \in Points, ServerTx(m)
    PROVE  BrowserInv'
  <1>1. PICK ks \in Seq(Nodes) : ks = KnownTo(m) /\ ks = known[ServerOf(m)] /\ Len(ks) <= MaxKnown
    BY PointRuns DEF KnownTo
  <1>2. PICK d, tb : /\ d = TxComplete(session[m])
                     /\ tb = toBrowser[m] \o Encoded(m, Head(session[m].TxPackets)).data
    OBVIOUS
  <1>3. session' = [session EXCEPT ![m] = d] /\ toBrowser' = [toBrowser EXCEPT ![m] = tb]
    BY <1>2 DEF ServerTx
  <1>4. PointIs(MPointList[m].NodeList, "up", d, tb, toServer[m], ks)
    <2>1. /\ PointIs(MPointList[m].NodeList, "up", session[m], toBrowser[m], toServer[m], ks)
          /\ session[m].TxPackets # <<>>
      BY <1>1, PointRuns DEF ServerTx
    <2>2. PICK c : c = session[m]
      OBVIOUS
    <2>3. PointIs(MPointList[m].NodeList, "up", TxComplete(c),
                  toBrowser[m] \o Encoded(m, Head(c.TxPackets)).data, toServer[m], ks)
      BY <1>1, <2>1, <2>2, PointSends
    <2>. QED  BY <1>2, <2>2, <2>3
  <1>5. link' = [link EXCEPT ![m] = "up"] /\ "up" \in Links
        /\ toServer' = [toServer EXCEPT ![m] = toServer[m]]
    BY Kept DEF ServerTx, Links
  <1>6. status' = status /\ UNCHANGED <<mode, pointVars, known, owner, frames, sent>>
    BY DEF ServerTx, browserVars, nodeVars
  <1>. QED  BY <1>1, <1>3, <1>4, <1>5, <1>6, LinkStep

LEMMA LinkDownStep ==
    ASSUME BrowserInv, Running, NEW m \in Points, LinkDown(m)
    PROVE  BrowserInv'
  <1>1. PointIs(MPointList[m].NodeList, "down", session[m], <<>>, <<>>, KnownTo(m))
    BY PointRuns, PointStops
  <1>2. /\ link' = [link EXCEPT ![m] = "down"] /\ "down" \in Links
        /\ session' = [session EXCEPT ![m] = session[m]]
        /\ toServer' = [toServer EXCEPT ![m] = <<>>] /\ toBrowser' = [toBrowser EXCEPT ![m] = <<>>]
    BY Kept DEF LinkDown, Links
  <1>3. status' = status /\ UNCHANGED <<mode, pointVars, known, owner, frames, sent>>
    BY DEF LinkDown, browserVars, nodeVars
  <1>. QED  BY <1>1, <1>2, <1>3, LinkStep

\* Steps that leave the links alone, and the process's end.
LEMMA StandStep ==
    ASSUME BrowserInv, Running, UNCHANGED <<mode, pointVars, linkVars, known, owner>>,
           FramesOK', sent' \in Nat
    PROVE  BrowserInv'
  <1>1. PICK n : n = Len(MPointList) /\ Shaped(n)
    BY DEF BrowserInv, PointsOK
  <1>2. /\ link' = link /\ session' = session /\ toServer' = toServer /\ toBrowser' = toBrowser
    BY DEF linkVars
  <1>3. List(link', n) /\ List(session', n) /\ List(toServer', n) /\ List(toBrowser', n)
    BY <1>1, <1>2 DEF Shaped
  <1>4. ASSUME NEW m \in Points
        PROVE  /\ link'[m] \in Links
               /\ PointIs(MPointList[m].NodeList, Standing(status', link'[m]), session'[m],
                          toBrowser'[m], toServer'[m], KnownTo(m))
    <2>1. Standing(status', link[m]) = link[m] \/ Standing(status', link[m]) = "ended"
      BY DEF Standing
    <2>. QED  BY <1>2, <2>1, PointRuns, PointStops
  <1>. QED  BY <1>1, <1>3, <1>4, LinksStep

LEMMA TimeoutStep ==
    ASSUME BrowserInv, Running, Timeout
    PROVE  BrowserInv'
  <1>1. PICK n : n = Len(MPointList) /\ Shaped(n) /\ Points = 1..n /\ n \in Nat
    <2>1. Shaped(Len(MPointList)) /\ Points = 1..Len(MPointList) /\ Len(MPointList) \in Nat
      BY ListIs DEF BrowserInv, PointsOK, Shaped, Points, List
    <2>. QED  BY <2>1
  <1>2. /\ link' = [m \in Points |-> "down"] /\ session' = session /\ toServer' = toServer
        /\ toBrowser' = toBrowser /\ status' # "running"
        /\ UNCHANGED <<mode, pointVars, known, owner, frames, sent>>
    BY DEF Timeout, nodeVars
  <1>3. List(link', n) /\ List(session', n) /\ List(toServer', n) /\ List(toBrowser', n)
    BY <1>1, <1>2 DEF Shaped, List
  <1>4. ASSUME NEW m \in Points
        PROVE  /\ link'[m] \in Links
               /\ PointIs(MPointList[m].NodeList, Standing(status', link'[m]), session'[m],
                          toBrowser'[m], toServer'[m], KnownTo(m))
    <2>1. link'[m] \in Links /\ Standing(status', link'[m]) = "ended"
      BY <1>2 DEF Standing, Links
    <2>2. PointIs(MPointList[m].NodeList, "ended", session[m], toBrowser[m], toServer[m], KnownTo(m))
      BY PointRuns, PointStops
    <2>. QED  BY <1>2, <2>1, <2>2
  <1>5. FramesOK' /\ sent' \in Nat
    BY <1>2 DEF BrowserInv, FramesOK
  <1>6. UNCHANGED <<mode, pointVars, known, owner>>
    BY <1>2
  <1>. QED  BY <1>1, <1>3, <1>4, <1>5, <1>6, LinksStep

LEMMA NodeSendDebugStep ==
    ASSUME BrowserInv, Running, NEW n \in Nodes, NodeSendDebug(n)
    PROVE  BrowserInv'
  <1>1. PICK o : o = owner[n] /\ o.server \in Servers
                 /\ \E k \in 1..Len(known[o.server]) : o.id = k - 1 /\ known[o.server][k] = n
    BY DEF BrowserInv, OwnersOK, NodeSendDebug
  <1>2. PICK k \in 1..Len(known[o.server]) : o.id = k - 1 /\ known[o.server][k] = n
    BY <1>1
  <1>3. sent \in Nat /\ sent' \in Nat
    BY DEF BrowserInv, NodeSendDebug
  <1>4. FromNode(NodeFrame(n, sent), known[o.server])
    <2>1. NodeFrame(n, sent) = FramePkt(n, o.id, sent)
      BY <1>1 DEF NodeFrame, FramePkt, FrameRec
    <2>2. NodeFrame(n, sent) = FramePkt(known[o.server][k], k - 1, sent)
      BY <1>2, <2>1
    <2>. QED  BY <1>3, <2>2 DEF FromNode
  <1>5. frames' = frames \cup {[server |-> o.server, pkt |-> NodeFrame(n, sent)]}
        /\ known' = known /\ owner' = owner
    BY <1>1 DEF NodeSendDebug
  <1>6. FramesOK'
    <2>1. PICK f : f = [server |-> o.server, pkt |-> NodeFrame(n, sent)]
      OBVIOUS
    <2>2. f.server \in Servers /\ FromNode(f.pkt, known[f.server])
      BY <1>1, <1>4, <2>1
    <2>. QED  BY <1>5, <2>1, <2>2 DEF BrowserInv, FramesOK
  <1>7. UNCHANGED <<mode, pointVars, linkVars, known, owner>>
    BY DEF NodeSendDebug, browserVars
  <1>. QED  BY <1>3, <1>6, <1>7, StandStep

LEMMA ServerDebugRxStep ==
    ASSUME BrowserInv, Running, NEW f \in frames, ServerDebugRx(f)
    PROVE  BrowserInv'
  <1>1. FramesOK' /\ sent' \in Nat /\ f.server \in Servers /\ FromNode(f.pkt, known[f.server])
        /\ known' = known
    BY DEF ServerDebugRx, BrowserInv, FramesOK
  <1>2. UNCHANGED <<mode, status, pointVars, known, owner, link, toServer, toBrowser>>
    BY DEF ServerDebugRx, browserVars
  <1>3. CASE UNCHANGED session
    <2>1. UNCHANGED <<mode, pointVars, linkVars, known, owner>>
      BY <1>2, <1>3 DEF linkVars
    <2>. QED  BY <1>1, <2>1, StandStep
  <1>4. CASE session' = [m \in Points |->
                            IF m \in Sessions(f.server) THEN ForwardDebugPacket(session[m], f.pkt)
                                                        ELSE session[m]]
    <2>1. PICK n : n = Len(MPointList) /\ Shaped(n) /\ Points = 1..n /\ n \in Nat
      <3>1. Shaped(Len(MPointList)) /\ Points = 1..Len(MPointList) /\ Len(MPointList) \in Nat
        BY ListIs DEF BrowserInv, PointsOK, Shaped, Points, List
      <3>. QED  BY <3>1
    <2>2. List(link', n) /\ List(session', n) /\ List(toServer', n) /\ List(toBrowser', n)
      BY <1>2, <1>4, <2>1 DEF Shaped, List
    <2>3. ASSUME NEW m \in Points
          PROVE  /\ link'[m] \in Links
                 /\ PointIs(MPointList[m].NodeList, Standing(status', link'[m]), session'[m],
                            toBrowser'[m], toServer'[m], KnownTo(m))
      <3>1. Standing(status', link'[m]) = link[m]
        BY <1>2 DEF Standing, Running
      <3>2. PICK ks \in Seq(Nodes) : ks = KnownTo(m)
        BY PointRuns
      <3>3. PointIs(MPointList[m].NodeList, link[m], session[m], toBrowser[m], toServer[m], ks)
            /\ link[m] \in Links
        BY <3>2, PointRuns
      <3>4. PointIs(MPointList[m].NodeList, link[m], session'[m], toBrowser[m], toServer[m], ks)
        <4>1. CASE m \in Sessions(f.server)
          <5>1. ServerOf(m) = f.server /\ link[m] = "up"
            BY <4>1 DEF Sessions
          <5>2. FromNode(f.pkt, ks)
            BY <1>1, <3>2, <5>1 DEF KnownTo
          <5>3. session'[m] = ForwardDebugPacket(session[m], f.pkt)
            BY <1>4, <4>1
          <5>. QED  BY <3>3, <5>1, <5>2, <5>3, PointForwards
        <4>2. CASE m \notin Sessions(f.server)
          BY <1>4, <3>3, <4>2
        <4>. QED  BY <4>1, <4>2
      <3>. QED  BY <1>2, <3>1, <3>2, <3>3, <3>4
    <2>4. UNCHANGED <<mode, pointVars, known, owner>>
      BY <1>2
    <2>. QED  BY <1>1, <2>1, <2>2, <2>3, <2>4, LinksStep
  <1>. QED  BY <1>3, <1>4 DEF ServerDebugRx

\* The nodes a server knows, and what holds of them, after one more.
LEMMA OthersKnow ==
    ASSUME BrowserInv, Running, NEW s \in Servers, NEW n \in Nodes, NodeDiscovered(s, n)
    PROVE  /\ ServersOK' /\ OwnersOK' /\ FramesOK'
           /\ \A t \in Servers : /\ Len(known[t]) \in Nat /\ Len(known[t]) <= Len(known'[t])
                                 /\ \A k \in 1..Len(known[t]) : known'[t][k] = known[t][k]
  <1>1. PICK r \in Seq(Nodes) : r = known[s] /\ Len(r) < MaxKnown
    BY DEF BrowserInv, ServersOK, NodeDiscovered
  <1>2. PICK l \in Nat : l = Len(r)
    BY NodesAreNumbers
  <1>3. PICK a \in Seq(Nodes) : /\ a = Append(r, n) /\ Len(a) = l + 1 /\ a[l + 1] = n
                                /\ \A k \in 1..l : a[k] = r[k]
    <2>1. /\ Append(r, n) \in Seq(Nodes) /\ Len(Append(r, n)) = l + 1 /\ Append(r, n)[l + 1] = n
          /\ \A k \in 1..l : Append(r, n)[k] = r[k]
      BY <1>2, Grown
    <2>. QED  BY <2>1
  <1>4. known' = [known EXCEPT ![s] = a]
        /\ owner' = [owner EXCEPT ![n] = [server |-> s, id |-> l]]
    BY <1>1, <1>2, <1>3 DEF NodeDiscovered
  <1>5. known' \in [Servers -> Seq(Nodes)] /\ known'[s] = a
        /\ \A t \in Servers : t # s => known'[t] = known[t]
    BY <1>4 DEF BrowserInv, ServersOK
  <1>6. \A t \in Servers : known[t] \in Seq(Nodes) /\ Len(known[t]) \in Nat
    BY NodesAreNumbers DEF BrowserInv, ServersOK
  <1>7. ASSUME NEW t \in Servers
        PROVE  /\ Len(known[t]) <= Len(known'[t])
               /\ \A k \in 1..Len(known[t]) : known'[t][k] = known[t][k]
    <2>1. CASE t = s
      BY <1>1, <1>2, <1>3, <1>5, <2>1, SMTT(60)
    <2>2. CASE t # s
      BY <1>5, <1>6, <2>2
    <2>. QED  BY <2>1, <2>2
  <1>8. ServersOK'
    <2>1. l + 1 <= MaxKnown
      BY <1>1, <1>2, BrowserAssumption
    <2>. QED  BY <1>3, <1>5, <2>1 DEF BrowserInv, ServersOK
  <1>9. OwnersOK'
    <2>1. owner = [x \in Nodes |-> owner[x]]
      BY DEF BrowserInv, OwnersOK
    <2>2. owner' = [x \in Nodes |-> owner'[x]]
          /\ owner'[n] = [server |-> s, id |-> l]
          /\ \A x \in Nodes : x # n => owner'[x] = owner[x]
      BY <1>4, <2>1
    <2>3. ASSUME NEW x \in Nodes, owner'[x] # <<>>
          PROVE  /\ owner'[x].server \in Servers
                 /\ \E k \in 1..Len(known'[owner'[x].server]) :
                        owner'[x].id = k - 1 /\ known'[owner'[x].server][k] = x
      <3>1. CASE x = n
        <4>1. owner'[x].server = s /\ owner'[x].id = l
          BY <2>2, <3>1
        <4>2. l + 1 \in 1..Len(known'[s]) /\ l = (l + 1) - 1 /\ known'[s][l + 1] = x
          BY <1>3, <1>5, <3>1
        <4>. QED  BY <4>1, <4>2
      <3>2. CASE x # n
        <4>1. PICK o : o = owner[x] /\ o = owner'[x]
          BY <2>2, <3>2
        <4>2. PICK k \in 1..Len(known[o.server]) :
                o.server \in Servers /\ o.id = k - 1 /\ known[o.server][k] = x
          BY <2>3, <4>1 DEF BrowserInv, OwnersOK
        <4>3. k \in 1..Len(known'[o.server]) /\ known'[o.server][k] = x
          <5>1. Len(known'[o.server]) \in Nat
            BY <1>5, <4>2, NodesAreNumbers
          <5>. QED  BY <1>6, <1>7, <4>2, <5>1
        <4>. QED  BY <4>1, <4>2, <4>3
      <3>. QED  BY <3>1, <3>2
    <2>. QED  BY <2>2, <2>3 DEF OwnersOK
  <1>10. FramesOK'
    <2>1. frames' = frames
      BY DEF NodeDiscovered
    <2>2. ASSUME NEW f \in frames
          PROVE  f.server \in Servers /\ FromNode(f.pkt, known'[f.server])
      <3>1. f.server \in Servers /\ FromNode(f.pkt, known[f.server])
        BY DEF BrowserInv, FramesOK
      <3>2. CASE f.server = s
        <4>1. PICK b : b = f.pkt /\ FromNode(b, r)
          BY <1>1, <3>1, <3>2
        <4>2. FromNode(b, Append(r, n))
          BY <4>1, FrameStays
        <4>. QED  BY <1>3, <1>5, <3>1, <3>2, <4>1, <4>2
      <3>3. CASE f.server # s
        BY <1>5, <3>1, <3>3
      <3>. QED  BY <3>1, <3>2, <3>3
    <2>. QED  BY <2>1, <2>2 DEF FramesOK
  <1>. QED  BY <1>6, <1>7, <1>8, <1>9, <1>10

LEMMA NodeDiscoveredStep ==
    ASSUME BrowserInv, Running, NEW s \in Servers, NEW n \in Nodes, NodeDiscovered(s, n)
    PROVE  BrowserInv'
  <1>1. /\ ServersOK' /\ OwnersOK' /\ FramesOK'
        /\ \A t \in Servers : /\ Len(known[t]) \in Nat /\ Len(known[t]) <= Len(known'[t])
                              /\ \A k \in 1..Len(known[t]) : known'[t][k] = known[t][k]
    BY OthersKnow
  <1>2. /\ UNCHANGED <<mode, status, sent, MPointList, shown, link, toServer, toBrowser>>
        /\ known' = [known EXCEPT ![s] = Append(@, n)]
        /\ session' = [m \in Points |-> IF m \in Sessions(s)
                                        THEN AddNode(session[m], Len(known[s]) + 1)
                                        ELSE session[m]]
    BY DEF NodeDiscovered, browserVars, pointVars
  <1>3. PICK x : x = Len(MPointList) /\ Shaped(x) /\ Points = 1..x /\ x \in Nat
    <2>1. Shaped(Len(MPointList)) /\ Points = 1..Len(MPointList) /\ Len(MPointList) \in Nat
      BY ListIs DEF BrowserInv, PointsOK, Shaped, Points, List
    <2>. QED  BY <2>1
  <1>4. Shaped(Len(MPointList))' /\ Points' = Points
    <2>1. List(session', x)
      BY <1>2, <1>3 DEF List
    <2>. QED  BY <1>2, <1>3, <2>1 DEF Shaped, Points
  <1>5. ASSUME NEW m \in Points
        PROVE  /\ IsPoint(MPointList[m])' /\ link'[m] \in Links /\ PointOK(m)'
               /\ ServerOf(m)' = ServerOf(m) /\ ServerOf(m) \in Servers
    <2>1. IsPoint(MPointList[m]) /\ link[m] \in Links /\ ServerOf(m) \in Servers
      BY PointHas
    <2>2. ServerOf(m)' = ServerOf(m)
      BY <1>2 DEF ServerOf
    <2>3. PICK ks \in Seq(Nodes) : ks = known[ServerOf(m)]
      BY PointRuns DEF KnownTo
    <2>4. PICK l, lk, tb, ts : /\ l = MPointList[m].NodeList /\ lk = link[m] /\ tb = toBrowser[m]
                               /\ ts = toServer[m]
      OBVIOUS
    <2>5. PointIs(l, lk, session[m], tb, ts, ks) /\ Standing(status', lk) = lk
      BY <1>2, <2>3, <2>4, PointRuns DEF KnownTo, Standing, Running
    <2>6. PointIs(l, lk, session'[m], tb, ts, known'[ServerOf(m)])
      <3>1. DOMAIN known = Servers
        BY DEF BrowserInv, ServersOK
      <3>2. CASE ServerOf(m) = s
        <4>1. known'[s] = Append(ks, n) /\ ks = known[s]
          BY <1>2, <2>3, <3>1, <3>2
        <4>2. CASE lk = "up"
          <5>1. m \in Sessions(s)
            BY <2>4, <3>2, <4>2 DEF Sessions
          <5>2. session'[m] = AddNode(session[m], Len(ks) + 1)
            BY <1>2, <4>1, <5>1
          <5>. QED  BY <2>5, <3>2, <4>1, <4>2, <5>2, PointLearns
        <4>3. CASE lk # "up"
          <5>1. session'[m] = session[m]
            BY <1>2, <2>4, <4>3 DEF Sessions
          <5>2. PointIs(l, lk, session[m], tb, ts, Append(ks, n))
            BY <2>5, <4>3, PointMisses
          <5>. QED  BY <3>2, <4>1, <5>1, <5>2
        <4>. QED  BY <4>2, <4>3
      <3>3. CASE ServerOf(m) # s
        <4>1. known'[ServerOf(m)] = ks /\ session'[m] = session[m]
          BY <1>2, <2>1, <2>3, <3>1, <3>3 DEF Sessions
        <4>. QED  BY <2>5, <4>1
      <3>. QED  BY <3>2, <3>3
    <2>7. PointOK(m)'
      <3>1. KnownTo(m)' = known'[ServerOf(m)]
        BY <2>2 DEF KnownTo
      <3>. QED  BY <1>2, <2>4, <2>5, <2>6, <3>1 DEF PointOK
    <2>8. IsPoint(MPointList[m])' /\ link'[m] \in Links
      BY <1>2, <2>1 DEF IsPoint
    <2>. QED  BY <2>1, <2>2, <2>7, <2>8
  <1>6. PointsOK'
    BY <1>4, <1>5 DEF PointsOK
  <1>7. ShownOK'
    <2>1. ASSUME NEW e \in shown
          PROVE  /\ e.point \in Points /\ e.index \in 1..Len(MPointList[e.point].NodeList)
                 /\ e.data = <<KnownTo(e.point)'[e.index]>>
      <3>1. /\ e.point \in Points /\ e.index \in 1..Len(MPointList[e.point].NodeList)
            /\ e.data = <<KnownTo(e.point)[e.index]>>
        BY DEF BrowserInv, ShownOK
      <3>2. PICK m \in Points : m = e.point
        BY <3>1
      <3>3. Entries(MPointList[m].NodeList, KnownTo(m))
        BY PointHas DEF PointIs
      <3>4. Len(MPointList[m].NodeList) \in Nat /\ Len(MPointList[m].NodeList) <= Len(KnownTo(m))
        BY <3>3 DEF Entries, List
      <3>5. PICK t \in Servers : t = ServerOf(m) /\ t = ServerOf(m)'
        BY <1>5
      <3>6. e.index \in 1..Len(known[t])
        BY <1>1, <3>1, <3>2, <3>4, <3>5 DEF KnownTo
      <3>7. KnownTo(m)'[e.index] = KnownTo(m)[e.index]
        BY <1>1, <3>5, <3>6 DEF KnownTo
      <3>. QED  BY <3>1, <3>2, <3>7
    <2>2. shown' = shown /\ MPointList' = MPointList
      BY <1>2
    <2>. QED  BY <1>4, <2>1, <2>2 DEF ShownOK
  <1>8. mode' \in {"list", "debug"} /\ sent' \in Nat
    BY <1>2 DEF BrowserInv
  <1>. QED  BY <1>1, <1>6, <1>7, <1>8 DEF BrowserInv

LEMMA ResolveFoundStep ==
    ASSUME BrowserInv, Running, NEW svc \in Services, ResolveFound(svc)
    PROVE  BrowserInv'
  <1>1. PICK x : x = Len(MPointList) /\ Shaped(x) /\ Points = 1..x /\ x \in Nat
    <2>1. Shaped(Len(MPointList)) /\ Points = 1..Len(MPointList) /\ Len(MPointList) \in Nat
      BY ListIs DEF BrowserInv, PointsOK, Shaped, Points, List
    <2>. QED  BY <2>1
  <1>2. svc \in Services /\ HostOf[svc] \in Servers
    BY BrowserAssumption DEF ResolveFound
  <1>3. PICK r : /\ r = [service |-> svc, CurIOTag |-> IF mode = "debug" THEN 2 ELSE 1,
                         NodeList |-> <<>>]
                 /\ MPointList' = Append(MPointList, r)
    BY DEF ResolveFound
  <1>4. r.service = svc /\ r.NodeList = <<>> /\ IsPoint(r)
    BY <1>2, <1>3 DEF IsPoint
  <1>5. Extends(MPointList', MPointList, x, r)
    BY <1>1, <1>3, ListAppends DEF Shaped
  <1>6. Extends(link', link, x, "connecting") /\ Extends(session', session, x, NewClient)
        /\ Extends(toServer', toServer, x, Requests) /\ Extends(toBrowser', toBrowser, x, <<>>)
    BY <1>1, ListAppends DEF ResolveFound, Shaped
  <1>7. /\ UNCHANGED <<mode, status, known, owner, frames, sent, shown>>
        /\ status' = "running"
    BY DEF ResolveFound, nodeVars, Running
  <1>8. Points' = 1..(x + 1) /\ Shaped(Len(MPointList))'
    BY <1>5, <1>6 DEF Extends, Shaped, Points
  <1>9. ASSUME NEW m \in 1..x
        PROVE  /\ m \in 1..(x + 1) /\ MPointList'[m] = MPointList[m] /\ KnownTo(m)' = KnownTo(m)
               /\ IsPoint(MPointList[m])' /\ link'[m] \in Links /\ PointOK(m)'
    <2>1. /\ m \in 1..(x + 1) /\ MPointList'[m] = MPointList[m] /\ link'[m] = link[m]
          /\ session'[m] = session[m] /\ toServer'[m] = toServer[m] /\ toBrowser'[m] = toBrowser[m]
      BY <1>5, <1>6 DEF Extends
    <2>2. KnownTo(m)' = KnownTo(m)
      BY <1>7, <2>1 DEF KnownTo, ServerOf
    <2>3. IsPoint(MPointList[m]) /\ link[m] \in Links /\ PointOK(m)
      BY <1>1 DEF BrowserInv, PointsOK
    <2>4. IsPoint(MPointList[m])'
      BY <2>1, <2>3 DEF IsPoint
    <2>. QED  BY <1>7, <2>1, <2>2, <2>3, <2>4 DEF PointOK
  <1>10. IsPoint(MPointList[x + 1])' /\ link'[x + 1] \in Links /\ PointOK(x + 1)'
    <2>1. /\ MPointList'[x + 1] = r /\ link'[x + 1] = "connecting" /\ session'[x + 1] = NewClient
          /\ toServer'[x + 1] = Requests /\ toBrowser'[x + 1] = <<>>
      BY <1>5, <1>6 DEF Extends
    <2>2. PICK ks \in Seq(Nodes) : ks = known[HostOf[svc]]
      BY <1>2 DEF BrowserInv, ServersOK
    <2>3. KnownTo(x + 1)' = ks
      BY <1>4, <1>7, <2>1, <2>2 DEF KnownTo, ServerOf
    <2>4. PointIs(<<>>, "connecting", NewClient, <<>>, Requests, ks)
      BY PointStarts DEF BrowserInv
    <2>5. PointOK(x + 1)'
      BY <1>4, <1>7, <2>1, <2>3, <2>4 DEF PointOK, Standing
    <2>6. IsPoint(MPointList[x + 1])' /\ link'[x + 1] \in Links
      BY <1>4, <2>1 DEF IsPoint, Links
    <2>. QED  BY <2>5, <2>6
  <1>11. PointsOK'
    <2>1. \A m \in 1..(x + 1) : m \in 1..x \/ m = x + 1
      BY <1>1
    <2>. QED  BY <1>8, <1>9, <1>10, <2>1 DEF PointsOK
  <1>12. ServersOK' /\ OwnersOK' /\ FramesOK'
    BY <1>7 DEF BrowserInv, ServersOK, OwnersOK, FramesOK
  <1>13. ShownOK'
    <2>1. ASSUME NEW e \in shown
          PROVE  /\ e.point \in Points' /\ e.index \in 1..Len(MPointList'[e.point].NodeList)
                 /\ e.data = <<KnownTo(e.point)'[e.index]>>
      <3>1. /\ e.point \in Points /\ e.index \in 1..Len(MPointList[e.point].NodeList)
            /\ e.data = <<KnownTo(e.point)[e.index]>>
        BY DEF BrowserInv, ShownOK
      <3>2. PICK m \in 1..x : m = e.point
        BY <1>1, <3>1
      <3>3. m \in Points' /\ MPointList'[m] = MPointList[m] /\ KnownTo(m)' = KnownTo(m)
        BY <1>8, <1>9
      <3>. QED  BY <3>1, <3>2, <3>3
    <2>. QED  BY <1>7, <2>1 DEF ShownOK
  <1>14. mode' \in {"list", "debug"} /\ sent' \in Nat
    BY <1>7 DEF BrowserInv
  <1>. QED  BY <1>11, <1>12, <1>13, <1>14 DEF BrowserInv

\* The browser's end: the point m has the records l, and rest is left to read.
LEMMA ReadStep ==
    ASSUME BrowserInv, Running, NEW m \in Points, link[m] = "up",
           NEW l, NEW rest, PointIs(l, "up", session[m], rest, toServer[m], KnownTo(m)),
           Len(MPointList[m].NodeList) <= Len(l),
           UNCHANGED <<mode, status, known, owner, frames, sent, link, session, toServer>>,
           NEW r, IsPoint(r), r.service = MPointList[m].service, r.NodeList = l,
           MPointList' = [MPointList EXCEPT ![m] = r],
           toBrowser' = [toBrowser EXCEPT ![m] = rest],
           \A e \in shown' : e \notin shown =>
              /\ e.point = m /\ e.index \in 1..Len(l) /\ e.data = <<KnownTo(m)[e.index]>>
    PROVE  BrowserInv'
  <1>1. PICK x : x = Len(MPointList) /\ Shaped(x) /\ Points = 1..x /\ m \in 1..x /\ x \in Nat
    <2>1. Shaped(Len(MPointList)) /\ Points = 1..Len(MPointList) /\ Len(MPointList) \in Nat
      BY ListIs DEF BrowserInv, PointsOK, Shaped, Points, List
    <2>. QED  BY <2>1
  <1>2. Changes(MPointList', MPointList, x, m, r) /\ Changes(toBrowser', toBrowser, x, m, rest)
    BY <1>1, ListChanges DEF Shaped
  <1>3. MPointList'[m] = r /\ toBrowser'[m] = rest
        /\ List(MPointList', x) /\ List(toBrowser', x)
        /\ \A i \in 1..x : i # m => MPointList'[i] = MPointList[i] /\ toBrowser'[i] = toBrowser[i]
    BY <1>2 DEF Changes
  <1>4. Points' = Points /\ Shaped(Len(MPointList))'
    BY <1>1, <1>3, ListIs DEF Shaped, Points
  <1>5. \A i \in Points : KnownTo(i)' = KnownTo(i)
    BY <1>1, <1>3 DEF KnownTo, ServerOf
  <1>6. ASSUME NEW i \in Points
        PROVE  IsPoint(MPointList[i])' /\ link'[i] \in Links /\ PointOK(i)'
    <2>1. link'[i] \in Links
      BY DEF BrowserInv, PointsOK
    <2>2. CASE i = m
      <3>1. IsPoint(MPointList[i])'
        BY <1>3, <2>2 DEF IsPoint
      <3>2. Standing(status', link'[m]) = "up"
        BY DEF Standing, Running
      <3>3. PointOK(m)'
        BY <1>3, <1>5, <3>2 DEF PointOK
      <3>. QED  BY <2>1, <2>2, <3>1, <3>3
    <2>3. CASE i # m
      <3>1. MPointList'[i] = MPointList[i] /\ toBrowser'[i] = toBrowser[i]
        BY <1>1, <1>3, <2>3
      <3>2. IsPoint(MPointList[i]) /\ PointOK(i)
        BY DEF BrowserInv, PointsOK
      <3>3. IsPoint(MPointList[i])'
        BY <3>1, <3>2 DEF IsPoint
      <3>. QED  BY <1>5, <2>1, <3>1, <3>2, <3>3 DEF PointOK
    <2>. QED  BY <2>2, <2>3
  <1>7. PointsOK'
    BY <1>4, <1>6 DEF PointsOK
  <1>8. ServersOK' /\ OwnersOK' /\ FramesOK'
    BY DEF BrowserInv, ServersOK, OwnersOK, FramesOK
  <1>9. Len(MPointList[m].NodeList) \in Nat /\ Len(l) \in Nat
    <2>1. Entries(MPointList[m].NodeList, KnownTo(m)) /\ Entries(l, KnownTo(m))
      BY PointHas DEF PointIs
    <2>. QED  BY <2>1 DEF Entries, List
  <1>10. ShownOK'
    <2>1. ASSUME NEW e \in shown'
          PROVE  /\ e.point \in Points /\ e.index \in 1..Len(MPointList'[e.point].NodeList)
                 /\ e.data = <<KnownTo(e.point)[e.index]>>
      <3>1. CASE e \in shown
        <4>1. /\ e.point \in Points /\ e.index \in 1..Len(MPointList[e.point].NodeList)
              /\ e.data = <<KnownTo(e.point)[e.index]>>
          BY <3>1 DEF BrowserInv, ShownOK
        <4>2. CASE e.point = m
          BY <1>3, <1>9, <4>1, <4>2
        <4>3. CASE e.point # m
          BY <1>1, <1>3, <4>1, <4>3
        <4>. QED  BY <4>2, <4>3
      <3>2. CASE e \notin shown
        BY <1>3, <3>2
      <3>. QED  BY <3>1, <3>2
    <2>. QED  BY <1>4, <1>5, <2>1 DEF ShownOK
  <1>11. mode' \in {"list", "debug"} /\ sent' \in Nat
    BY DEF BrowserInv
  <1>. QED  BY <1>7, <1>8, <1>10, <1>11 DEF BrowserInv

LEMMA ClaimedId ==
    ASSUME NEW d, NEW a, NEW id
    PROVE  Claimed(d, a, id).ServerObjID = id
  BY DEF Claimed, RecordOf

\* A record emits the frames with its own id alone.
LEMMA OwnId ==
    ASSUME NEW l, NEW ks \in Seq(Nodes), Entries(l, ks), NEW i \in DOMAIN l, NEW k \in 1..Len(ks),
           has_srvobj_id(l[i].Provider, k - 1)
    PROVE  i \in 1..Len(l) /\ i = k
  <1>1. Len(l) \in Nat /\ i \in 1..Len(l)
    BY ListIs DEF Entries, List
  <1>2. l[i].Provider.ServerObjID = i - 1
    BY <1>1, ClaimedId DEF Entries
  <1>3. i - 1 = k - 1 /\ i \in Nat /\ k \in Nat
    BY <1>1, <1>2, NodesAreNumbers DEF has_srvobj_id
  <1>. QED  BY <1>1, <1>3

LEMMA BrowserRxStep ==
    ASSUME BrowserInv, Running, NEW m \in Points, BrowserRx(m)
    PROVE  BrowserInv'
  <1>1. PICK ks \in Seq(Nodes) : ks = KnownTo(m)
    BY PointRuns
  <1>2. PICK l, c, tb, ts : /\ l = MPointList[m].NodeList /\ c = session[m]
                            /\ tb = toBrowser[m] /\ ts = toServer[m]
    OBVIOUS
  <1>3. PointIs(l, link[m], c, tb, ts, ks) /\ link[m] \in Links /\ Len(tb) >= 12
    BY <1>1, <1>2, PointRuns DEF BrowserRx
  <1>4. PICK p, h, b, rest : /\ p = Received(tb) /\ h = GetFields(p, Header) /\ b = SkipFields(p, Header)
                             /\ rest = Rest(tb, p)
    OBVIOUS
  <1>5. link[m] = "up" /\ Reads(p, c, rest, Len(l), ks)
    <2>1. link[m] \in {"connecting", "up", "down"}
      BY <1>3 DEF Links
    <2>. QED  BY <1>3, <1>4, <2>1, PointReads
  <1>6. /\ CASE h["Type"] = HNODE_MGMT_NODE_PKT /\ h["Length"] > 12 -> AddHNode(m, b)
             [] h["Type"] = HNODE_MGMT_DEBUG_PKT -> EmitDebug(m, b)
             [] OTHER -> UNCHANGED pointVars
        /\ toBrowser' = [toBrowser EXCEPT ![m] = rest]
        /\ UNCHANGED <<mode, status, known, owner, frames, sent, link, session, toServer>>
    BY <1>2, <1>4 DEF BrowserRx, browserVars, nodeVars
  <1>7. IsPoint(MPointList[m]) /\ MPointList = [MPointList EXCEPT ![m] = MPointList[m]]
        /\ Entries(l, ks) /\ Len(l) \in Nat /\ Len(l) <= Len(l)
    <2>1. IsPoint(MPointList[m]) /\ m \in 1..Len(MPointList)
      BY PointHas
    <2>2. MPointList = [MPointList EXCEPT ![m] = MPointList[m]]
      BY <2>1 DEF BrowserInv, PointsOK, Shaped, List
    <2>3. Entries(l, ks) /\ Len(l) \in Nat
      BY <1>3 DEF PointIs, Entries, List
    <2>. QED  BY <2>1, <2>2, <2>3
  <1>8. CASE /\ ReadsRecord(p, Len(l), ks[Len(l) + 1]) /\ Len(l) + 1 <= Len(ks)
             /\ Linked("up", c, rest, Len(l) + 1, ks)
    <2>1. PICK e : e = [MPoint |-> m, MPointNodeID |-> GetInt(b, 4),
                        Provider |-> ParseClientUpdate(NewProvider, Skip(b, 4))]
      OBVIOUS
    <2>2. PICK r, a : a = Append(l, e) /\ r = [MPointList[m] EXCEPT !.NodeList = a]
      OBVIOUS
    <2>3. AddHNode(m, b)
      <3>1. h["Type"] = HNODE_MGMT_NODE_PKT /\ h["Length"] > 12
        BY <1>4, <1>8 DEF ReadsRecord
      <3>. QED  BY <1>6, <3>1 DEF HNODE_MGMT_NODE_PKT, HNODE_MGMT_DEBUG_PKT
    <2>4. shown' = shown /\ MPointList' = [MPointList EXCEPT ![m].NodeList = a]
      BY <1>2, <2>1, <2>2, <2>3 DEF AddHNode
    <2>5. MPointList' = [MPointList EXCEPT ![m] = r]
      BY <2>2, <2>4
    <2>6. r.service = MPointList[m].service /\ r.NodeList = a /\ IsPoint(r)
      BY <1>7, <2>2 DEF IsPoint
    <2>7. PointIs(a, "up", c, rest, ts, ks)
      <3>1. /\ e.MPointNodeID = GetInt(BodyOf(p), 4)
            /\ e.Provider = ParseClientUpdate(NewProvider, Skip(BodyOf(p), 4))
        BY <1>4, <2>1 DEF BodyOf
      <3>2. PointIs(l, "up", c, tb, ts, ks)
        BY <1>3, <1>5
      <3>. QED  BY <1>8, <2>2, <3>1, <3>2, PointGets
    <2>8. Len(l) <= Len(a)
      <3>1. Extends(a, l, Len(l), e)
        BY <1>7, <2>2, ListAppends DEF Entries
      <3>. QED  BY <1>7, <3>1 DEF Extends
    <2>9. PointIs(a, "up", session[m], rest, toServer[m], KnownTo(m))
      BY <1>1, <1>2, <2>7
    <2>. QED  BY <1>2, <1>5, <1>6, <2>4, <2>5, <2>6, <2>8, <2>9, ReadStep
  <1>9. CASE /\ ReadsFrame(p, ks) \/ GetFields(p, Header)["Type"] = HNODE_MGMT_ACK
             /\ Linked("up", c, rest, Len(l), ks)
    <2>1. PointIs(l, "up", session[m], rest, toServer[m], KnownTo(m))
      <3>1. PointIs(l, "up", c, rest, ts, ks)
        BY <1>3, <1>9 DEF PointIs
      <3>. QED  BY <1>1, <1>2, <3>1
    <2>2. /\ MPointList' = MPointList
          /\ \A e \in shown' : e \notin shown =>
                /\ e.point = m /\ e.index \in 1..Len(l) /\ e.data = <<KnownTo(m)[e.index]>>
      <3>1. CASE GetFields(p, Header)["Type"] = HNODE_MGMT_ACK
        <4>1. UNCHANGED pointVars
          BY <1>4, <1>6, <3>1 DEF HNODE_MGMT_ACK, HNODE_MGMT_NODE_PKT, HNODE_MGMT_DEBUG_PKT
        <4>. QED  BY <4>1 DEF pointVars
      <3>2. CASE ReadsFrame(p, ks)
        <4>1. h["Type"] = HNODE_MGMT_DEBUG_PKT
          BY <1>4, <3>2 DEF ReadsFrame
        <4>2. EmitDebug(m, b)
          BY <1>6, <4>1 DEF HNODE_MGMT_NODE_PKT, HNODE_MGMT_DEBUG_PKT
        <4> DEFINE f == GetFields(b, DebugLayout)
        <4>3. PICK k \in 1..Len(ks) :
                /\ f["SvrObjID"] = k - 1
                /\ GetBytes(SkipFields(b, DebugLayout), f["DataLength"]) = <<ks[k]>>
          BY <1>4, <3>2 DEF ReadsFrame, BodyOf
        <4>. HIDE DEF f
        <4>4. PICK data : data = GetBytes(SkipFields(b, DebugLayout), f["DataLength"])
                          /\ data = <<ks[k]>>
          BY <4>3
        <4>5. /\ shown' = shown \cup {[point |-> g[1], index |-> g[2], data |-> data] :
                                          g \in Emitters(m, k - 1)}
              /\ MPointList' = MPointList
          BY <4>2, <4>3, <4>4 DEF f, EmitDebug
        <4>6. ASSUME NEW g \in Emitters(m, k - 1)
              PROVE  g[1] = m /\ g[2] \in 1..Len(l) /\ g[2] = k
          <5>1. /\ g[1] = m /\ g[2] \in DOMAIN MPointList[g[1]].NodeList
                /\ has_srvobj_id(MPointList[g[1]].NodeList[g[2]].Provider, k - 1)
            BY DEF Emitters, Point
          <5>2. g[2] \in DOMAIN l /\ has_srvobj_id(l[g[2]].Provider, k - 1)
            BY <1>2, <5>1
          <5>3. g[2] \in 1..Len(l) /\ g[2] = k
            BY <1>7, <5>2, OwnId
          <5>. QED  BY <5>1, <5>3
        <4>7. ASSUME NEW e \in shown', e \notin shown
              PROVE  e.point = m /\ e.index \in 1..Len(l) /\ e.data = <<KnownTo(m)[e.index]>>
          <5>1. PICK g \in Emitters(m, k - 1) : e = [point |-> g[1], index |-> g[2], data |-> data]
            BY <4>5, <4>7
          <5>2. e.point = m /\ e.index = g[2] /\ e.index = k /\ e.data = data
            BY <4>6, <5>1
          <5>3. g[2] \in 1..Len(l)
            BY <4>6
          <5>. QED  BY <1>1, <4>4, <5>2, <5>3
        <4>. QED  BY <4>5, <4>7
      <3>. QED  BY <1>9, <3>1, <3>2
    <2>3. PICK r : r = MPointList[m]
      OBVIOUS
    <2>4. MPointList' = [MPointList EXCEPT ![m] = r] /\ IsPoint(r) /\ r.NodeList = l
      BY <1>2, <1>7, <2>2, <2>3
    <2>. QED  BY <1>2, <1>5, <1>6, <1>7, <2>1, <2>2, <2>3, <2>4, ReadStep
  <1>. QED  BY <1>5, <1>8, <1>9 DEF Reads

LEMMA StepBrowserInv == BrowserInv /\ [Next]_vars => BrowserInv'
  <1> SUFFICES ASSUME BrowserInv, [Next]_vars PROVE BrowserInv'
    OBVIOUS
  <1>1. CASE UNCHANGED vars
    <2>1. /\ UNCHANGED <<mode, status, MPointList, shown, link, session, toServer, toBrowser>>
          /\ UNCHANGED <<known, owner, frames, sent>>
      BY <1>1 DEF vars, browserVars, pointVars, linkVars, nodeVars
    <2>2. PointsOK'
      BY <2>1 DEF BrowserInv, PointsOK, Shaped, Points, IsPoint, PointOK, KnownTo, ServerOf
    <2>3. ServersOK' /\ OwnersOK' /\ FramesOK' /\ ShownOK'
      BY <2>1 DEF BrowserInv, ServersOK, OwnersOK, FramesOK, ShownOK, Points, KnownTo, ServerOf
    <2>. QED  BY <2>1, <2>2, <2>3 DEF BrowserInv
  <1>2. CASE /\ Running
             /\ \/ \E svc \in Services : BrowseNew(svc) \/ ResolveFailure(svc)
                \/ BrowseAllForNow
    <2>1. UNCHANGED <<mode, pointVars, linkVars, nodeVars>>
      BY <1>2 DEF BrowseNew, ResolveFailure, BrowseAllForNow
    <2>2. UNCHANGED <<mode, pointVars, linkVars, known, owner>> /\ frames' = frames /\ sent' = sent
      BY <2>1 DEF nodeVars
    <2>3. FramesOK' /\ sent' \in Nat
      BY <2>2 DEF BrowserInv, FramesOK
    <2>. QED  BY <1>2, <2>2, <2>3, StandStep
  <1>3. ASSUME Running, NEW svc \in Services, ResolveFound(svc) PROVE BrowserInv'
    BY <1>3, ResolveFoundStep
  <1>4. CASE Running /\ Timeout
    BY <1>4, TimeoutStep
  <1>5. ASSUME Running, NEW s \in Servers, NEW n \in Nodes, NodeDiscovered(s, n) PROVE BrowserInv'
    BY <1>5, NodeDiscoveredStep
  <1>6. ASSUME Running, NEW m \in Points,
               Accept(m) \/ ServerRx(m) \/ ServerTx(m) \/ BrowserRx(m) \/ LinkDown(m)
        PROVE  BrowserInv'
    BY <1>6, AcceptStep, ServerRxStep, ServerTxStep, BrowserRxStep, LinkDownStep
  <1>7. ASSUME Running, NEW n \in Nodes, NodeSendDebug(n) PROVE BrowserInv'
    BY <1>7, NodeSendDebugStep
  <1>8. ASSUME Running, NEW f \in frames, ServerDebugRx(f) PROVE BrowserInv'
    BY <1>8, ServerDebugRxStep
  <1>. QED  BY <1>1, <1>2, <1>3, <1>4, <1>5, <1>6, <1>7, <1>8 DEF Next

\* The invariant holds, whatever the order in which services are found, nodes are
\* discovered and claimed, packets are sent and read, and connections break.
THEOREM BrowserInvariant == Spec => []BrowserInv
  <1>. QED  BY InitBrowserInv, StepBrowserInv, PTL DEF Spec

--------------------------------------------------------------------------------
(* What a user sees.                                                       *)

\* A claimed record tells the truth about its node.
LEMMA ClaimedIsTrue ==
    ASSUME NEW n \in Nodes, NEW id
    PROVE  Tells(Claimed(NodeData[n], NodeAddr[n], id), n)
  <1>1. PICK d, a : d = NodeData[n] /\ a = NodeAddr[n] /\ NodeFits(d) /\ AddressFits(a)
    BY NodesAssumption DEF Nodes
  <1>2. PICK r : r = Claimed(d, a, id)
    OBVIOUS
  <1>3. /\ r.AddrObj = a
        /\ r.ConfigAddrObj = IF d.ConfigPort = 0 THEN NoAddress ELSE Address(a.host, d.ConfigPort)
        /\ r.NodeUID = d.NodeUID /\ r.EndPointArray = TrueEndPoints(d, a)
        /\ r.MajorVersion = d.MajorVersion /\ r.MinorVersion = d.MinorVersion
        /\ r.MicroVersion = d.MicroVersion
    BY <1>2 DEF Claimed, RecordOf
  <1>4. PICK eps : eps = d.EndPointArray /\ Len(eps) \in Nat /\ DOMAIN eps = 1..Len(eps)
                   /\ \A i \in 1..Len(eps) : EPFits(eps[i].Port, eps[i])
    <2>1. d.EndPointArray \in Seq(EndPointData)
      BY <1>1 DEF NodeFits
    <2>2. DOMAIN d.EndPointArray = 1..Len(d.EndPointArray)
      BY <2>1, LenProperties
    <2>3. NodeFits(d)
      BY <1>1
    <2>4. /\ Len(d.EndPointArray) \in Nat
          /\ \A i \in 1..Len(d.EndPointArray) :
                EPFits(d.EndPointArray[i].Port, d.EndPointArray[i])
      BY <2>3, EndPointsFit
    <2>. QED  BY <2>2, <2>4
  <1>5. Len(r.EndPointArray) = Len(eps)
    BY <1>3, <1>4 DEF TrueEndPoints
  <1>6. ASSUME NEW i \in DOMAIN eps
        PROVE  /\ r.EndPointArray[i].AddrObj = Address(a.host, eps[i].Port)
               /\ r.EndPointArray[i].MajorVersion = eps[i].MajorVersion
               /\ r.EndPointArray[i].MinorVersion = eps[i].MinorVersion
               /\ r.EndPointArray[i].MicroVersion = eps[i].MicroVersion
               /\ r.EndPointArray[i].AssociateEPIndex = eps[i].AssociateEPIndex
               /\ r.EndPointArray[i].MimeTypeStr = eps[i].MimeTypeStr
    <2>1. PICK e : e = eps[i] /\ EPFits(e.Port, e)
      BY <1>4
    <2>2. r.EndPointArray[i] = EPOf(a, e.Port, e)
      BY <1>3, <1>4, <2>1 DEF TrueEndPoints
    <2>3. set_port(a, e.Port) = Address(a.host, e.Port)
      BY <1>1, <2>1, PortSet DEF EPFits
    <2>. QED  BY <2>1, <2>2, <2>3 DEF EPOf
  <1>7. Tells(r, n)
    BY <1>1, <1>3, <1>4, <1>5, <1>6 DEF Tells
  <1>. QED  BY <1>1, <1>2, <1>7

\* The i-th record of point m is that of the i-th node its server knows.
Stands(m, i) ==
    /\ session[m].NodeList[i].Node = i /\ i \in 1..Len(KnownTo(m))
    /\ MPointList[m].NodeList[i].MPointNodeID = i - 1
    /\ MPointList[m].NodeList[i].Provider
         = Claimed(NodeData[KnownTo(m)[i]], NodeAddr[KnownTo(m)[i]], i - 1)

\* The node behind a session's i-th record is the i-th its server knows.
LEMMA RecordsStand ==
    ASSUME BrowserInv, NEW m \in Points, NEW i \in DOMAIN MPointList[m].NodeList
    PROVE  Stands(m, i)
  <1>1. PICK ks \in Seq(Nodes) : ks = KnownTo(m)
    BY PointHas
  <1>2. PICK l : l = MPointList[m].NodeList /\ Entries(l, ks)
    BY <1>1, PointHas DEF PointIs
  <1>3. PICK k \in 0..Len(ks), ann \in Seq(Nat) :
          Tuned(Standing(status, link[m]), session[m], toBrowser[m], Len(l), ks, k, ann)
    BY <1>1, <1>2, PointHas DEF PointIs, Linked
  <1>4. i \in 1..Len(l) /\ Len(l) \in Nat /\ Len(l) <= k /\ k <= Len(ks) /\ Len(ks) \in Nat /\ k \in Nat
    BY <1>2, <1>3, ListIs, NodesAreNumbers DEF Entries, List, Tuned
  <1>5. i \in 1..k /\ i \in 1..Len(ks)
    BY <1>4
  <1>6. session[m].NodeList[i].Node = i
    <2>1. SP!KnownBy(session[m]) = Upto(k) /\ SP!Bookkept(session[m])
      BY <1>3 DEF Tuned, SP!Follows, SP!Sound
    <2>2. /\ Len(SP!KnownBy(session[m])) = Len(session[m].NodeList)
          /\ \A j \in 1..Len(session[m].NodeList) :
                SP!KnownBy(session[m])[j] = session[m].NodeList[j].Node
      BY <2>1, SP!KnownIsSeq
    <2>3. Len(session[m].NodeList) = k /\ Upto(k)[i] = i
      BY <1>4, <1>5, <2>1, <2>2, UptoIs DEF Upto
    <2>. QED  BY <1>5, <2>1, <2>2, <2>3
  <1>. QED  BY <1>1, <1>2, <1>4, <1>5, <1>6 DEF Entries, Stands

\* The browser's records are the nodes' own data, in the order of the session, whatever
\* the packets between them (hnode-browser-mpoint.c, hnode-provider.c, hnode-nodeobj.c).
THEOREM RecordsTell == Spec => []RecordsAgree
  <1>1. BrowserInv => RecordsAgree
    <2> SUFFICES ASSUME BrowserInv, NEW m \in Points, NEW i \in DOMAIN MPointList[m].NodeList,
                        NEW node, node = MPointList[m].NodeList[i],
                        NEW k, k = session[m].NodeList[i].Node
                 PROVE  /\ node.MPointNodeID = i - 1 /\ node.Provider.ServerObjID = k - 1
                        /\ Tells(node.Provider, known[ServerOf(m)][k])
      BY DEF RecordsAgree
    <2>1. PICK ks \in Seq(Nodes) : ks = KnownTo(m) /\ ks = known[ServerOf(m)]
      BY PointHas DEF KnownTo
    <2>2. k = i /\ i \in 1..Len(ks) /\ node.MPointNodeID = i - 1
          /\ node.Provider = Claimed(NodeData[ks[i]], NodeAddr[ks[i]], i - 1)
      <3>1. Stands(m, i)
        BY RecordsStand
      <3>. QED  BY <2>1, <3>1 DEF Stands
    <2>3. PICK n \in Nodes : n = ks[i]
      BY <2>2, NodesAreNumbers
    <2>4. Tells(node.Provider, n) /\ node.Provider.ServerObjID = i - 1
      BY <2>2, <2>3, ClaimedIsTrue, ClaimedId
    <2>. QED  BY <2>1, <2>2, <2>3, <2>4
  <1>. QED  BY <1>1, BrowserInvariant, PTL

\* A debug frame is emitted by the record of the node that sent it
\* (hnode-srvobj.c, g_hnode_server_debugrx; hnode-browser-mpoint.c, rxpacket).
THEOREM FramesFromTheirNodes == Spec => []DebugFromItsNode
  <1>1. BrowserInv => DebugFromItsNode
    <2> SUFFICES ASSUME BrowserInv, NEW e \in shown
                 PROVE  e.data = <<known[ServerOf(e.point)]
                                         [session[e.point].NodeList[e.index].Node]>>
      BY DEF DebugFromItsNode
    <2>1. /\ e.point \in Points /\ e.index \in 1..Len(MPointList[e.point].NodeList)
          /\ e.data = <<KnownTo(e.point)[e.index]>>
      BY DEF BrowserInv, ShownOK
    <2>2. PICK m \in Points : m = e.point
      BY <2>1
    <2>3. e.index \in DOMAIN MPointList[m].NodeList
      <3>1. Entries(MPointList[m].NodeList, KnownTo(m))
        BY PointHas DEF PointIs
      <3>. QED  BY <2>1, <2>2, <3>1, ListIs DEF Entries
    <2>4. session[m].NodeList[e.index].Node = e.index
      <3>1. Stands(m, e.index)
        BY <2>3, RecordsStand
      <3>. QED  BY <3>1 DEF Stands
    <2>. QED  BY <2>1, <2>2, <2>4 DEF KnownTo
  <1>. QED  BY <1>1, BrowserInvariant, PTL

\* Every packet a server queues fits the buffer its setters allocate
\* (hnode-packet.c, g_hnode_packet_get_buffer_ptr).
THEOREM PacketsHeld == Spec => []PacketsFit
  <1>1. BrowserInv => PacketsFit
    <2> SUFFICES ASSUME BrowserInv, NEW m \in Points, NEW i \in DOMAIN session[m].TxPackets,
                        NEW pkt, pkt = session[m].TxPackets[i], NEW q, q = Encoded(m, pkt)
                 PROVE  DataLength(q) <= q.cap
      BY DEF PacketsFit
    <2>1. PICK ks \in Seq(Nodes) : /\ ks = KnownTo(m) /\ ks = known[ServerOf(m)]
                                   /\ Len(ks) <= MaxKnown
      BY PointHas DEF KnownTo
    <2>2. PICK k \in 0..Len(ks), ann \in Seq(Nat) :
            Tuned(Standing(status, link[m]), session[m], toBrowser[m],
                  Len(MPointList[m].NodeList), ks, k, ann)
      BY <2>1, PointHas DEF PointIs, Linked
    <2>3. PICK u : u = Upto(k) /\ Len(u) = k /\ SP!Follows(session[m], ann, u)
      <3>1. k \in Nat
        BY NodesAreNumbers
      <3>. QED  BY <2>2, <3>1, UptoIs DEF Tuned
    <2>4. /\ pkt \in SP!Packets
          /\ pkt.type = "NODE" => pkt.body < k
          /\ pkt.type = "DEBUG" => pkt.body \in SP!FramesIn(session[m].TxPackets)
      BY <2>3, SP!QueuedIsKnown
    <2>5. pkt.type = "DEBUG" => FromNode(pkt.body, ks)
      BY <2>2, <2>4 DEF Tuned
    <2>6. Sendable(q, pkt, ks)
      <3>1. SP!Follows(session[m], ann, Upto(k))
        BY <2>3
      <3>2. Sendable(Encoded(m, pkt), pkt, ks)
        BY <2>1, <2>4, <2>5, <3>1, EncodedIs
      <3>. QED  BY <3>2
    <2>. QED  BY <2>6 DEF Sendable, DataLength
  <1>. QED  BY <1>1, BrowserInvariant, PTL
================================================================================
