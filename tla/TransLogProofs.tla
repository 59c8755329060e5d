--------------------------- MODULE TransLogProofs ---------------------------
(***************************************************************************)
(* Theorems about TransLog, for every size of pages, chunks, entries and   *)
(* disk, and any number of logs: what was appended is read back, and every *)
(* reserved page has one owner.                                            *)
(***************************************************************************)
EXTENDS TransLog, SequenceFacts, TLAPS

(***************************************************************************)
(* Bytes and pages                                                         *)
(***************************************************************************)

LEMMA ConstantsAre ==
  /\ PageSize \in Nat \ {0} /\ ChunkMax \in Nat \ {0} /\ EntrySize \in Nat \ {0}
  /\ HeaderSize \in Nat \ {0} /\ PtrSize \in Nat \ {0} /\ FirstChunks \in Nat \ {0}
  /\ DiskPages \in Nat /\ ItemSizes \subseteq Nat
  /\ \A s \in ItemSizes : s + EntrySize \in 1..ChunkMax
  /\ Nil \notin Ptr /\ Nil \notin Seq(ItemSizes) /\ Nil \notin Header
<1> USE TransLogAssumption DEF TransLogAssumption
<1>1. /\ PageSize \in Nat \ {0} /\ ChunkMax \in Nat \ {0} /\ EntrySize \in Nat \ {0}
      /\ HeaderSize \in Nat \ {0} /\ PtrSize \in Nat \ {0} /\ FirstChunks \in Nat \ {0}
      /\ DiskPages \in Nat
  OBVIOUS
<1>2. ItemSizes \subseteq 0..(ChunkMax - EntrySize)
  OBVIOUS
<1>3. QED
  BY <1>1, <1>2

\* The pages that so many bytes need.
LEMMA PagesIs ==
  ASSUME NEW b \in Nat
  PROVE  /\ PagesOf(b) \in Nat /\ Align(b) \in Nat
         /\ b <= Align(b) /\ Align(b) < b + PageSize
         /\ b > 0 => PagesOf(b) > 0
<1> DEFINE q == PagesOf(b)
<1>1. PageSize \in Nat \ {0} /\ b + PageSize - 1 \in Nat
  BY ConstantsAre
<1>2. \A a \in Nat, n \in Nat \ {0} : /\ a \div n \in Nat
                                      /\ n * (a \div n) <= a /\ a < n * (a \div n) + n
  OBVIOUS
<1>3. q \in Nat /\ PageSize * q <= b + PageSize - 1 /\ b + PageSize - 1 < PageSize * q + PageSize
  BY <1>1, <1>2 DEF PagesOf
<1>4. Align(b) = PageSize * q
  BY <1>1, <1>3 DEF Align
<1> HIDE DEF q
<1>5. PageSize * q \in Nat /\ (q = 0 => PageSize * q = 0)
  BY <1>1, <1>3
<1>6. q \in Nat /\ Align(b) \in Nat /\ b <= Align(b) /\ Align(b) < b + PageSize /\ (b > 0 => q > 0)
  BY <1>1, <1>3, <1>4, <1>5
<1>7. QED
  BY <1>6 DEF q

\* A multiple of the page size is aligned.
LEMMA AlignedIs ==
  ASSUME NEW q \in Nat
  PROVE  Align(q * PageSize) = q * PageSize
<1> DEFINE b == q * PageSize
           r == PagesOf(b)
<1>1. PageSize \in Nat \ {0} /\ b \in Nat
  BY ConstantsAre
<1>2. r \in Nat /\ Align(b) = r * PageSize /\ b <= Align(b) /\ Align(b) < b + PageSize
  BY <1>1, PagesIs DEF Align
<1>3. r = q
  <2> HIDE DEF r
  <2>1. q * PageSize <= r * PageSize /\ r * PageSize < (q + 1) * PageSize
    <3>1. (q + 1) * PageSize = q * PageSize + PageSize
      BY <1>1
    <3>2. QED
      BY <1>2, <3>1
  <2>2. \A x, y \in Nat : x <= y => x * PageSize <= y * PageSize
    BY <1>1
  <2>3. CASE r <= q - 1
    <3>1. r + 1 <= q /\ r + 1 \in Nat
      BY <1>2, <2>3
    <3>2. (r + 1) * PageSize <= q * PageSize
      BY <2>2, <3>1
    <3>3. (r + 1) * PageSize = r * PageSize + PageSize
      BY <1>1, <1>2
    <3>4. QED
      BY <1>1, <1>2, <2>1, <3>2, <3>3
  <2>4. CASE r >= q + 1
    <3>1. q + 1 \in Nat /\ (q + 1) * PageSize <= r * PageSize
      BY <1>2, <2>2, <2>4
    <3>2. (q + 1) * PageSize \in Int /\ r * PageSize \in Int
      BY <1>1, <1>2
    <3>3. QED
      BY ONLY <2>1, <3>1, <3>2
  <2>5. QED
    BY <1>2, <2>3, <2>4
<1>4. QED
  BY <1>2, <1>3

LEMMA AlignGrows ==
  ASSUME NEW a \in Nat, NEW b \in Nat, a <= b
  PROVE  Align(a) <= Align(b)
<1> DEFINE q == PagesOf(a)
           r == PagesOf(b)
<1>1. /\ q \in Nat /\ r \in Nat /\ Align(a) = q * PageSize /\ Align(b) = r * PageSize
      /\ Align(a) < a + PageSize /\ b <= Align(b) /\ PageSize \in Nat \ {0}
  BY PagesIs, ConstantsAre DEF Align
<1> HIDE DEF q, r
<1>2. CASE q <= r
  BY <1>1, <1>2
<1>3. CASE q >= r + 1
  <2>1. PICK d \in Nat : q = r + 1 + d
    <3>1. q - (r + 1) \in Nat /\ q = r + 1 + (q - (r + 1))
      BY <1>1, <1>3
    <3>2. QED
      BY <3>1
  <2>2. q * PageSize = r * PageSize + PageSize + d * PageSize /\ d * PageSize \in Nat
    BY <1>1, <2>1
  <2>3. q * PageSize \in Nat /\ r * PageSize \in Nat
    BY <1>1
  <2>4. QED
    BY <1>1, <2>2, <2>3
<1>4. QED
  BY <1>1, <1>2, <1>3

\* What an entry takes in the buffer.
EntryBytes(s) == [i \in 1..Len(s) |-> s[i] + EntrySize]
Sizes(cs) == [i \in 1..Len(cs) |-> cs[i].size]

LEMMA BytesAreSum ==
  ASSUME NEW s \in Seq(ItemSizes)
  PROVE  BytesOf(s) = SumOf(EntryBytes(s), Len(s))
<1>1. DOMAIN s = 1..Len(s)
  OBVIOUS
<1> DEFINE W == EntryBytes(s)
<1>2. \A t \in SUBSET (1..Len(s)) : t # {} => Max(t) \in 1..Len(s)
  <2> TAKE t \in SUBSET (1..Len(s))
  <2> HAVE t # {}
  <2>1. Len(s) \in Nat /\ t \in SUBSET (0..Len(s))
    OBVIOUS
  <2>2. QED
    BY <2>1, MaxIs
<1>3. \A t \in SUBSET (1..Len(s)) : t # {} => W[Max(t)] = s[Max(t)] + EntrySize
  BY <1>2 DEF EntryBytes
<1> DEFINE G(g) == g = [t \in SUBSET (1..Len(s)) |->
                      IF t = {} THEN 0 ELSE LET x == Max(t) IN g[t \ {x}] + (s[x] + EntrySize)]
<1>4. \A g : Sums(W, Len(s), g) <=> G(g)
  <2> HIDE DEF W
  <2>1. QED
    BY <1>3 DEF Sums
<1>5. BytesOf(s) = (CHOOSE g : G(g))[1..Len(s)]
  BY <1>1 DEF BytesOf, FoldLeft, MapThenFoldSet
<1>6. SumOf(W, Len(s)) = (CHOOSE g : Sums(W, Len(s), g))[1..Len(s)]
  BY DEF SumOf
<1> HIDE DEF G, W
<1>7. (CHOOSE g : Sums(W, Len(s), g)) = (CHOOSE g : G(g))
  BY <1>4
<1>8. QED
  BY <1>5, <1>6, <1>7 DEF W

LEMMA PagesAreSum ==
  ASSUME NEW cs \in Seq(Ptr)
  PROVE  PageCount(cs) = SumOf(Sizes(cs), Len(cs))
<1>1. DOMAIN cs = 1..Len(cs)
  OBVIOUS
<1> DEFINE W == Sizes(cs)
<1>2. \A t \in SUBSET (1..Len(cs)) : t # {} => Max(t) \in 1..Len(cs)
  <2> TAKE t \in SUBSET (1..Len(cs))
  <2> HAVE t # {}
  <2>1. Len(cs) \in Nat /\ t \in SUBSET (0..Len(cs))
    OBVIOUS
  <2>2. QED
    BY <2>1, MaxIs
<1>3. \A t \in SUBSET (1..Len(cs)) : t # {} => W[Max(t)] = cs[Max(t)].size
  BY <1>2 DEF Sizes
<1> DEFINE G(g) == g = [t \in SUBSET (1..Len(cs)) |->
                      IF t = {} THEN 0 ELSE LET x == Max(t) IN g[t \ {x}] + cs[x].size]
<1>4. \A g : Sums(W, Len(cs), g) <=> G(g)
  <2> HIDE DEF W
  <2>1. QED
    BY <1>3 DEF Sums
<1>5. PageCount(cs) = (CHOOSE g : G(g))[1..Len(cs)]
  BY <1>1 DEF PageCount, FoldLeft, MapThenFoldSet
<1>6. SumOf(W, Len(cs)) = (CHOOSE g : Sums(W, Len(cs), g))[1..Len(cs)]
  BY DEF SumOf
<1> HIDE DEF G, W
<1>7. (CHOOSE g : Sums(W, Len(cs), g)) = (CHOOSE g : G(g))
  BY <1>4
<1>8. QED
  BY <1>5, <1>6, <1>7 DEF W

LEMMA BytesIs ==
  /\ BytesOf(<<>>) = 0
  /\ \A s \in Seq(ItemSizes) : BytesOf(s) \in Nat /\ (s # <<>> => BytesOf(s) > 0)
  /\ \A s \in Seq(ItemSizes), e \in ItemSizes :
       BytesOf(Append(s, e)) = BytesOf(s) + (e + EntrySize)
<1>1. \A e \in ItemSizes : e + EntrySize \in Nat \ {0}
  BY ConstantsAre
<1>2. BytesOf(<<>>) = 0
  <2>1. <<>> \in Seq(ItemSizes) /\ Len(<<>>) = 0
    OBVIOUS
  <2>2. QED
    BY <2>1, BytesAreSum, SumIs
<1>3. ASSUME NEW s \in Seq(ItemSizes) PROVE BytesOf(s) \in Nat
  <2>1. Len(s) \in Nat /\ \A i \in 1..Len(s) : s[i] \in ItemSizes
    OBVIOUS
  <2>2. \A i \in 1..Len(s) : EntryBytes(s)[i] \in Nat
    BY <1>1, <2>1 DEF EntryBytes
  <2>3. QED
    BY <2>1, <2>2, BytesAreSum, SumTyped
<1>4. ASSUME NEW s \in Seq(ItemSizes), NEW e \in ItemSizes
      PROVE  BytesOf(Append(s, e)) = BytesOf(s) + (e + EntrySize)
  <2> DEFINE t == Append(s, e)
  <2>1. /\ t \in Seq(ItemSizes) /\ Len(s) \in Nat /\ Len(t) = Len(s) + 1
        /\ \A i \in 1..Len(s) : t[i] = s[i]
        /\ t[Len(s) + 1] = e
    BY AppendProperties
  <2> HIDE DEF t
  <2>2. /\ \A i \in 1..Len(s) : EntryBytes(s)[i] = EntryBytes(t)[i]
        /\ EntryBytes(t)[Len(s) + 1] = e + EntrySize
    BY <2>1 DEF EntryBytes
  <2>3. SumOf(EntryBytes(t), Len(s) + 1) = SumOf(EntryBytes(s), Len(s)) + EntryBytes(t)[Len(s) + 1]
    BY <2>1, <2>2, SumIs
  <2>4. QED
    BY <2>1, <2>2, <2>3, BytesAreSum DEF t
<1>5. ASSUME NEW s \in Seq(ItemSizes), s # <<>> PROVE BytesOf(s) > 0
  <2>1. PICK t \in Seq(ItemSizes), e \in ItemSizes : s = Append(t, e)
    BY <1>5, SequenceEmptyOrAppend
  <2>2. BytesOf(s) = BytesOf(t) + (e + EntrySize) /\ BytesOf(t) \in Nat
    BY <2>1, <1>3, <1>4
  <2>3. QED
    BY <2>2, <1>1
<1>6. QED
  BY <1>2, <1>3, <1>4, <1>5

LEMMA SizesAre ==
  ASSUME NEW cs \in Seq(Ptr), NEW p \in Ptr
  PROVE  /\ PageCount(<<>>) = 0
         /\ PageCount(Append(cs, p))
              = PageCount(cs) + p.size
<1>1. <<>> \in Seq(Ptr) /\ Len(<<>>) = 0
  OBVIOUS
<1>2. SumOf(Sizes(<<>>), 0) = 0
  BY SumIs
<1> DEFINE t == Append(cs, p)
<1>3. /\ t \in Seq(Ptr) /\ Len(cs) \in Nat /\ Len(t) = Len(cs) + 1
      /\ \A i \in 1..Len(cs) : t[i] = cs[i]
      /\ t[Len(cs) + 1] = p
  BY AppendProperties
<1> HIDE DEF t
<1>4. /\ \A i \in 1..Len(cs) : Sizes(cs)[i] = Sizes(t)[i]
      /\ Sizes(t)[Len(cs) + 1] = p.size
  BY <1>3 DEF Sizes
<1>5. SumOf(Sizes(t), Len(cs) + 1) = SumOf(Sizes(cs), Len(cs)) + Sizes(t)[Len(cs) + 1]
  BY <1>3, <1>4, SumIs
<1>6. PageCount(<<>>) = 0
  BY <1>1, <1>2, PagesAreSum
<1>7. PageCount(t)
        = PageCount(cs) + p.size
  BY <1>3, <1>4, <1>5, PagesAreSum
<1>8. QED
  BY <1>6, <1>7 DEF t

(***************************************************************************)
(* What the disk holds                                                     *)
(***************************************************************************)

\* Read, on any disk.
ReadOn(d, p) ==
  IF \A n \in Extent(p) : n \in DOMAIN d /\ d[n].part = n - p.offs
                          /\ d[n].content = d[p.offs].content
  THEN d[p.offs].content ELSE Nil

Extents(cs) == UNION {Extent(c) : c \in ToSet(cs)}

\* The entries in the chunks cs.
EntriesOn(d, cs) == FlattenSeq([i \in 1..Len(cs) |-> ReadOn(d, cs[i])])

\* The chunks cs are on the disk and in one piece.
Intact(d, cs) ==
  /\ Extents(cs) \subseteq DOMAIN d
  /\ \A i \in 1..Len(cs) : ReadOn(d, cs[i]) \in Seq(ItemSizes)
  /\ EntriesOn(d, cs) \in Seq(ItemSizes)

Counted(cs, n) == IsFiniteSet(Extents(cs)) /\ Cardinality(Extents(cs)) = n

\* Two disks hold the same on the pages of S.
SameOn(S, d, e) == \A n \in S : n \in DOMAIN d /\ n \in DOMAIN e /\ d[n] = e[n]

LEMMA PtrIs ==
  ASSUME NEW p \in Ptr
  PROVE  /\ p.offs \in Extent(p) /\ Extent(p) \subseteq Nat
         /\ IsFiniteSet(Extent(p)) /\ Cardinality(Extent(p)) = p.size
<1>1. p.offs \in Nat /\ p.size \in Nat /\ p.size >= 1 /\ p.offs + p.size - 1 \in Nat
  BY ConstantsAre DEF Ptr, Page
<1>2. p.offs \in Extent(p) /\ Extent(p) \subseteq Nat
  BY <1>1 DEF Extent
<1>3. IsFiniteSet(Extent(p)) /\ Cardinality(Extent(p)) = p.size
  <2> DEFINE a == p.offs
             z == p.offs + p.size - 1
  <2>1. a \in Int /\ z \in Int /\ ~(a > z) /\ z - a + 1 = p.size
    BY <1>1
  <2>2. Extent(p) = a..z
    BY DEF Extent
  <2> HIDE DEF a, z
  <2>3. IsFiniteSet(a..z) /\ Cardinality(a..z) = z - a + 1
    BY <2>1, FS_Interval
  <2>4. QED
    BY <2>1, <2>2, <2>3
<1>4. QED
  BY <1>2, <1>3

LEMMA ReadSame ==
  ASSUME NEW d, NEW e, NEW p \in Ptr, SameOn(Extent(p), d, e)
  PROVE  ReadOn(d, p) = ReadOn(e, p)
BY PtrIs DEF SameOn, ReadOn

LEMMA WrittenReads ==
  ASSUME NEW d, NEW p \in Ptr, NEW c
  PROVE  /\ ReadOn(Written(d, p, c), p) = c
         /\ DOMAIN Written(d, p, c) = DOMAIN d \cup Extent(p)
         /\ \A S \in SUBSET DOMAIN d : S \cap Extent(p) = {} => SameOn(S, d, Written(d, p, c))
<1> DEFINE e == Written(d, p, c)
<1>1. DOMAIN e = DOMAIN d \cup Extent(p)
  BY DEF Written
<1>2. \A n \in Extent(p) : n \in DOMAIN e /\ e[n] = [content |-> c, part |-> n - p.offs]
  BY DEF Written
<1>3. \A n \in DOMAIN d \ Extent(p) : e[n] = d[n]
  BY DEF Written
<1> HIDE DEF e
<1>4. ReadOn(e, p) = c
  <2>1. ASSUME NEW n \in Extent(p)
        PROVE  n \in DOMAIN e /\ e[n].part = n - p.offs /\ e[n].content = c
    <3>1. n \in DOMAIN e /\ e[n] = [content |-> c, part |-> n - p.offs]
      BY <1>2
    <3>2. QED
      BY <3>1
  <2>2. QED
    BY <2>1, PtrIs DEF ReadOn
<1>5. ASSUME NEW S \in SUBSET DOMAIN d, S \cap Extent(p) = {} PROVE SameOn(S, d, e)
  BY <1>1, <1>3, <1>5 DEF SameOn
<1>6. QED
  BY <1>1, <1>4, <1>5 DEF e

LEMMA ExtentsAre ==
  ASSUME NEW cs \in Seq(Ptr), NEW p \in Ptr
  PROVE  /\ Extents(<<>>) = {}
         /\ Extents(Append(cs, p)) = Extents(cs) \cup Extent(p)
         /\ \A i \in 1..Len(cs) : Extent(cs[i]) \subseteq Extents(cs) /\ cs[i] \in Ptr
<1>1. ToSet(<<>>) = {} /\ DOMAIN cs = 1..Len(cs)
  BY DEF ToSet
<1>2. ToSet(Append(cs, p)) = ToSet(cs) \cup {p}
  <2> DEFINE t == Append(cs, p)
  <2>1. /\ Len(cs) \in Nat /\ DOMAIN t = 1..(Len(cs) + 1)
        /\ \A i \in 1..Len(cs) : t[i] = cs[i]
        /\ t[Len(cs) + 1] = p
    OBVIOUS
  <2> HIDE DEF t
  <2>2. ToSet(t) = {t[i] : i \in 1..(Len(cs) + 1)}
    BY <2>1 DEF ToSet
  <2>3. 1..(Len(cs) + 1) = 1..Len(cs) \cup {Len(cs) + 1}
    BY <2>1
  <2>4. {t[i] : i \in 1..(Len(cs) + 1)} = {cs[i] : i \in 1..Len(cs)} \cup {p}
    BY <2>1, <2>3
  <2>5. QED
    BY <1>1, <2>2, <2>4 DEF ToSet, t
<1>3. QED
  BY <1>1, <1>2 DEF Extents, ToSet

LEMMA IntactStays ==
  ASSUME NEW d, NEW e, NEW cs \in Seq(Ptr), Intact(d, cs), SameOn(Extents(cs), d, e)
  PROVE  Intact(e, cs) /\ EntriesOn(e, cs) = EntriesOn(d, cs)
<1>1. \A i \in 1..Len(cs) : ReadOn(d, cs[i]) = ReadOn(e, cs[i])
  <2> TAKE i \in 1..Len(cs)
  <2>1. cs[i] \in Ptr /\ SameOn(Extent(cs[i]), d, e)
    BY ExtentsAre DEF SameOn
  <2>2. QED
    BY <2>1, ReadSame
<1>2. EntriesOn(e, cs) = EntriesOn(d, cs)
  <2>1. [i \in 1..Len(cs) |-> ReadOn(d, cs[i])] = [i \in 1..Len(cs) |-> ReadOn(e, cs[i])]
    BY <1>1
  <2>2. QED
    BY <2>1 DEF EntriesOn
<1>3. QED
  BY <1>1, <1>2 DEF Intact, SameOn

\* One more chunk.
LEMMA IntactGrows ==
  ASSUME NEW d, NEW cs \in Seq(Ptr), NEW p \in Ptr, NEW b \in Seq(ItemSizes),
         Intact(d, cs), Extent(p) \cap DOMAIN d = {}
  PROVE  /\ Intact(Written(d, p, b), Append(cs, p))
         /\ EntriesOn(Written(d, p, b), Append(cs, p)) = EntriesOn(d, cs) \o b
<1> DEFINE e == Written(d, p, b)
           ds == Append(cs, p)
           E == [i \in 1..Len(cs) |-> ReadOn(e, cs[i])]
           F == [i \in 1..Len(ds) |-> ReadOn(e, ds[i])]
           n == Len(cs)
<1>1. /\ ds \in Seq(Ptr) /\ n \in Nat /\ Len(ds) = n + 1 /\ ds[n + 1] = p
      /\ \A i \in 1..n : ds[i] = cs[i]
  BY AppendProperties
<1>2. ReadOn(e, p) = b /\ DOMAIN e = DOMAIN d \cup Extent(p) /\ SameOn(Extents(cs), d, e)
  <2>1. Extents(cs) \in SUBSET DOMAIN d
    BY DEF Intact
  <2>2. Extents(cs) \cap Extent(p) = {}
    BY <2>1
  <2>3. /\ ReadOn(e, p) = b /\ DOMAIN e = DOMAIN d \cup Extent(p)
        /\ \A S \in SUBSET DOMAIN d : S \cap Extent(p) = {} => SameOn(S, d, e)
    BY ONLY p \in Ptr, WrittenReads
  <2> HIDE DEF e, ds, E, F, n
  <2>4. QED
    BY ONLY <2>1, <2>2, <2>3
<1>3. Intact(e, cs) /\ EntriesOn(e, cs) = EntriesOn(d, cs)
  BY <1>2, IntactStays
<1> HIDE DEF e, ds
<1>4. Len(E) = n /\ Len(F) = n + 1 /\ (\A i \in 1..n : E[i] = F[i]) /\ F[n + 1] = b
  BY <1>1, <1>2
<1>5. FlattenSeq(F) = IF n = 0 THEN F[1] ELSE FlattenSeq(E) \o F[n + 1]
  <2> HIDE DEF E, F, n
  <2>1. n \in Nat
    BY <1>1
  <2>2. QED
    BY ONLY <2>1, <1>4, FlattenIs
<1>6. FlattenSeq(E) = EntriesOn(d, cs) /\ FlattenSeq(F) = EntriesOn(e, ds)
  BY <1>3 DEF EntriesOn
<1>7. EntriesOn(d, cs) \in Seq(ItemSizes)
  BY DEF Intact
<1>8. EntriesOn(e, ds) = EntriesOn(d, cs) \o b
  <2>1. CASE n = 0
    <3>1. EntriesOn(d, cs) = <<>>
      BY <2>1 DEF EntriesOn, FlattenSeq
    <3>2. F[1] = b
      BY <1>4, <2>1
    <3>3. <<>> \o b = b
      OBVIOUS
    <3>4. QED
      BY <1>5, <1>6, <2>1, <3>1, <3>2, <3>3
  <2>2. CASE n # 0
    BY <1>4, <1>5, <1>6, <2>2
  <2>3. QED
    BY <2>1, <2>2
<1>9. EntriesOn(e, ds) \in Seq(ItemSizes)
  BY <1>7, <1>8, ConcatProperties
<1>10. \A i \in 1..Len(ds) : ReadOn(e, ds[i]) \in Seq(ItemSizes)
  <2>1. \A i \in 1..n : ReadOn(e, ds[i]) \in Seq(ItemSizes)
    BY <1>1, <1>3 DEF Intact
  <2>2. ReadOn(e, ds[n + 1]) \in Seq(ItemSizes)
    BY <1>1, <1>2
  <2>3. \A i \in 1..Len(ds) : i \in 1..n \/ i = n + 1
    BY <1>1
  <2>4. QED
    BY <2>1, <2>2, <2>3
<1>11. Extents(ds) \subseteq DOMAIN e
  BY <1>2, ExtentsAre DEF Intact, ds
<1>12. QED
  BY <1>8, <1>9, <1>10, <1>11 DEF Intact, e, ds

LEMMA CountedGrows ==
  ASSUME NEW cs \in Seq(Ptr), NEW p \in Ptr, NEW n, Counted(cs, n), Extent(p) \cap Extents(cs) = {}
  PROVE  Counted(Append(cs, p), n + p.size)
<1>1. Extents(Append(cs, p)) = Extents(cs) \cup Extent(p)
  BY ExtentsAre
<1>2. IsFiniteSet(Extent(p)) /\ Cardinality(Extent(p)) = p.size
  BY PtrIs
<1>3. Extents(cs) \cap Extent(p) = {}
  OBVIOUS
<1>4. Cardinality({}) = 0 /\ n \in Nat /\ p.size \in Nat
  BY <1>2, FS_EmptySet, FS_CardinalityType DEF Counted
<1>5. IsFiniteSet(Extents(cs)) /\ Cardinality(Extents(cs)) = n
  BY DEF Counted
<1> DEFINE A == Extents(cs)
           B == Extent(p)
<1> HIDE DEF A, B
<1>6. IsFiniteSet(A) /\ IsFiniteSet(B) /\ Cardinality(A \cap B) = 0
  BY <1>2, <1>3, <1>4, <1>5 DEF A, B
<1>7. IsFiniteSet(A \cup B) /\ Cardinality(A \cup B) = Cardinality(A) + Cardinality(B) - 0
  BY <1>6, FS_Union
<1>8. Cardinality(A \cup B) = n + p.size
  BY <1>2, <1>4, <1>5, <1>7 DEF A, B
<1>9. QED
  BY <1>1, <1>7, <1>8 DEF Counted, A, B

(***************************************************************************)
(* struct trans_log and its calls                                          *)
(***************************************************************************)

Logs == [chunks : Seq(Ptr), maxChunks : {0, FirstChunks}, buffer : Seq(ItemSizes),
         bufferMax : Nat, pages : Nat, ptr : Ptr \cup {Nil}]

LogOK(l) ==
  /\ l \in Logs
  /\ Len(l.chunks) <= l.maxChunks
  /\ l.bufferMax <= Align(2 * ChunkMax)
  /\ l.pages = PageCount(l.chunks)

BufferOK(l) ==
  /\ BytesOf(l.buffer) <= l.bufferMax
  /\ Align(l.bufferMax) = l.bufferMax
  /\ BytesOf(l.buffer) <= ChunkMax

\* The buffer goes to the pages p, or nowhere.
WroteTo(p, l, d, m, e) ==
  /\ Extent(p) \cap DOMAIN d = {} /\ Extent(p) \subseteq Page
  /\ m.chunks = Append(l.chunks, p) /\ m.buffer = <<>> /\ m.pages = l.pages + p.size
  /\ e = Written(d, p, l.buffer)

Moved(l, d, m, e) ==
  /\ m.ptr = l.ptr
  /\ \/ m.chunks = l.chunks /\ m.buffer = l.buffer /\ m.pages = l.pages /\ e = d
     \/ \E p \in Ptr : WroteTo(p, l, d, m, e)

LEMMA PlacesAre ==
  ASSUME NEW d, NEW size \in Nat, size > 0, NEW p \in Places(d, size)
  PROVE  p \in Ptr /\ p.size = size /\ Extent(p) \cap DOMAIN d = {} /\ Extent(p) \subseteq Page
<1> DEFINE free == {o \in Page : o..(o + size - 1) \subseteq Page \ DOMAIN d}
<1>1. DiskPages \in Nat /\ Page = 0..(DiskPages - 1)
  BY ConstantsAre DEF Page
<1>2. PICK o \in IF free = {} THEN {} ELSE {Min(free), Max(free)} : p = [offs |-> o, size |-> size]
  BY DEF Places
<1>3. free # {} /\ free \in SUBSET Nat /\ free \in SUBSET (0..DiskPages)
  BY <1>1, <1>2
<1>4. o \in free
  <2> HIDE DEF free
  <2>1. Min(free) \in free
    BY <1>3, MinIs
  <2>2. Max(free) \in free
    BY <1>1, <1>3, MaxIs
  <2>3. QED
    BY <1>2, <1>3, <2>1, <2>2
<1>5. o \in Page /\ o..(o + size - 1) \subseteq Page \ DOMAIN d
  BY <1>4
<1>6. o + size - 1 \in o..(o + size - 1)
  BY <1>1, <1>5
<1>7. o + size - 1 <= DiskPages - 1 /\ size \in 1..DiskPages
  <2> HIDE DEF free
  <2>1. o + size - 1 \in Page /\ o \in Page
    BY <1>5, <1>6
  <2>2. QED
    BY ONLY <1>1, <2>1, size \in Nat, size > 0
<1>8. p.offs = o /\ p.size = size /\ p \in Ptr
  BY <1>2, <1>5, <1>7 DEF Ptr
<1>9. Extent(p) = o..(o + size - 1)
  BY <1>8 DEF Extent
<1>10. QED
  BY <1>5, <1>8, <1>9

\* What the code of trans_log_flush and trans_log_reserve may leave.
LEMMA FlushIs ==
  ASSUME NEW l, LogOK(l), BufferOK(l), NEW d, NEW r \in Flush(l, d)
  PROVE  /\ LogOK(r.log) /\ BufferOK(r.log) /\ Moved(l, d, r.log, r.disk)
         /\ r.rc \in {"ok", "failed", "aborted"}
         /\ r.rc = "ok" => r.log.buffer = <<>>
         /\ r.rc = "aborted" => r.log = l /\ r.disk = d
         /\ r.log.bufferMax = l.bufferMax
<1> DEFINE roomy == [l EXCEPT !.maxChunks = IF @ = 0 THEN FirstChunks ELSE @]
           size == PagesOf(BytesOf(l.buffer))
<1>1. /\ l \in Logs /\ Len(l.chunks) \in Nat /\ Len(l.chunks) <= l.maxChunks
      /\ l.chunks \in Seq(Ptr) /\ l.buffer \in Seq(ItemSizes)
      /\ l.maxChunks \in {0, FirstChunks} /\ FirstChunks \in Nat \ {0}
  BY ConstantsAre DEF LogOK, Logs
<1>2. /\ roomy \in Logs /\ roomy.chunks = l.chunks /\ roomy.buffer = l.buffer
      /\ roomy.pages = l.pages /\ roomy.ptr = l.ptr /\ roomy.bufferMax = l.bufferMax
      /\ roomy.maxChunks = FirstChunks
  BY <1>1 DEF Logs
<1>3. LogOK(roomy) /\ BufferOK(roomy)
  <2> HIDE DEF roomy
  <2>1. Len(roomy.chunks) <= roomy.maxChunks
    BY <1>1, <1>2
  <2>2. QED
    BY <1>2, <2>1 DEF LogOK, BufferOK
<1>4. \/ l.buffer = <<>> /\ r = Result("ok", l, d)
      \/ r = Result("aborted", l, d)
      \/ r = Result("failed", l, d) \/ r = Result("failed", roomy, d)
      \/ /\ l.buffer # <<>> /\ Len(l.chunks) # FirstChunks
         /\ \E p \in Places(d, size) : r = Result("ok", ChunkWritten(roomy, p), Written(d, p, l.buffer))
  BY <1>2 DEF Flush
<1> HIDE DEF roomy, size
<1>5. CASE l.buffer = <<>> /\ r = Result("ok", l, d)
  BY <1>5 DEF Result, Moved
<1>6. CASE r = Result("aborted", l, d) \/ r = Result("failed", l, d)
  BY <1>6 DEF Result, Moved
<1>7. CASE r = Result("failed", roomy, d)
  BY <1>2, <1>3, <1>7 DEF Result, Moved
<1>8. ASSUME l.buffer # <<>>, Len(l.chunks) # FirstChunks, NEW p \in Places(d, size),
             r = Result("ok", ChunkWritten(roomy, p), Written(d, p, l.buffer))
      PROVE  /\ LogOK(r.log) /\ BufferOK(r.log) /\ Moved(l, d, r.log, r.disk)
             /\ r.rc = "ok" /\ r.log.buffer = <<>> /\ r.log.bufferMax = l.bufferMax
  <2>1. BytesOf(l.buffer) \in Nat /\ BytesOf(l.buffer) > 0
    BY <1>1, <1>8, BytesIs
  <2>2. size \in Nat /\ size > 0
    BY <2>1, PagesIs DEF size
  <2>3. p \in Ptr /\ Extent(p) \cap DOMAIN d = {} /\ Extent(p) \subseteq Page
    BY <1>8, <2>2, PlacesAre
  <2> DEFINE m == ChunkWritten(roomy, p)
  <2>4. r.rc = "ok" /\ r.log = m /\ r.disk = Written(d, p, l.buffer)
    BY <1>8 DEF Result
  <2>5. p.size \in Nat /\ l.pages + p.size \in Nat
    BY <1>1, <2>3 DEF Ptr, Logs
  <2>6. /\ m.chunks = Append(l.chunks, p) /\ m.buffer = <<>> /\ m.pages = l.pages + p.size
        /\ m.ptr = l.ptr /\ m.bufferMax = l.bufferMax /\ m.maxChunks = FirstChunks
        /\ m \in Logs
    <3>1. Append(l.chunks, p) \in Seq(Ptr) /\ <<>> \in Seq(ItemSizes)
      BY <1>1, <2>3
    <3>2. m = [roomy EXCEPT !.chunks = Append(l.chunks, p), !.buffer = <<>>, !.pages = l.pages + p.size]
      BY <1>2 DEF ChunkWritten
    <3> HIDE DEF m
    <3>3. QED
      BY <1>2, <2>5, <3>1, <3>2 DEF Logs
  <2> HIDE DEF m
  <2>7. Len(m.chunks) <= m.maxChunks
    <3>1. Len(m.chunks) = Len(l.chunks) + 1
      BY <1>1, <2>3, <2>6, AppendProperties
    <3>2. QED
      BY <1>1, <1>8, <2>6, <3>1
  <2>8. m.pages = PageCount(m.chunks)
    BY <1>1, <2>3, <2>6, SizesAre DEF LogOK
  <2>9. LogOK(m)
    BY <2>6, <2>7, <2>8 DEF LogOK
  <2>10. BufferOK(m)
    <3>1. BytesOf(<<>>) = 0 /\ l.bufferMax \in Nat /\ ChunkMax \in Nat
      BY <1>1, BytesIs, ConstantsAre DEF Logs
    <3>2. QED
      BY <2>6, <3>1 DEF BufferOK
  <2>11. Moved(l, d, m, Written(d, p, l.buffer))
    BY <2>3, <2>6 DEF Moved, WroteTo
  <2>12. QED
    BY <2>4, <2>6, <2>9, <2>10, <2>11
<1>9. QED
  BY <1>4, <1>5, <1>6, <1>7, <1>8

LEMMA GrownIs ==
  ASSUME NEW max \in Nat, max <= Align(2 * ChunkMax), NEW need \in 1..(2 * ChunkMax)
  PROVE  LET g == Grown(max, need)
         IN  g \in Nat /\ need <= g /\ Align(g) = g /\ g <= Align(2 * ChunkMax)
<1>1. ChunkMax \in Nat /\ need \in Nat /\ 2 * ChunkMax \in Nat /\ 2 * max \in Nat
  BY ConstantsAre
<1>2. \A b \in Nat : Align(b) \in Nat /\ b <= Align(b) /\ Align(Align(b)) = Align(b)
  <2> TAKE b \in Nat
  <2>1. PagesOf(b) \in Nat /\ Align(b) = PagesOf(b) * PageSize
    BY PagesIs DEF Align
  <2>2. Align(Align(b)) = Align(b)
    BY <2>1, AlignedIs
  <2>3. QED
    BY <2>2, PagesIs
<1>3. Align(need) <= Align(2 * ChunkMax) /\ 2 * ChunkMax <= Align(2 * ChunkMax)
  BY <1>1, <1>2, AlignGrows
<1>4. CASE need < ChunkMax /\ Align(2 * max) \in need..ChunkMax
  <2>1. Grown(max, need) = Align(2 * max)
    BY <1>4 DEF Grown
  <2>2. need <= Align(2 * max) /\ Align(2 * max) <= ChunkMax /\ Align(2 * max) \in Nat
    BY <1>1, <1>2, <1>4
  <2>3. Align(2 * max) <= Align(2 * ChunkMax) /\ Align(2 * ChunkMax) \in Nat
    BY <1>1, <1>2, <1>3, <2>2
  <2>4. QED
    BY <1>1, <1>2, <2>1, <2>2, <2>3
<1>5. CASE ~(need < ChunkMax /\ Align(2 * max) \in need..ChunkMax)
  <2>1. Grown(max, need) = Align(need)
    BY <1>5 DEF Grown
  <2>2. QED
    BY <1>1, <1>2, <1>3, <2>1
<1>6. QED
  BY <1>4, <1>5

LEMMA ReserveIs ==
  ASSUME NEW l, LogOK(l), BufferOK(l), NEW d, NEW size \in 1..ChunkMax, NEW r \in Reserve(l, d, size)
  PROVE  /\ LogOK(r.log) /\ BufferOK(r.log) /\ Moved(l, d, r.log, r.disk)
         /\ r.rc \in {"ok", "failed", "aborted"}
         /\ r.rc = "ok" => /\ BytesOf(r.log.buffer) + size <= r.log.bufferMax
                           /\ BytesOf(r.log.buffer) + size <= ChunkMax
<1> DEFINE need == BytesOf(l.buffer) + size
           flushed == IF need > ChunkMax THEN Flush(l, d) ELSE {Result("ok", l, d)}
<1>1. /\ l \in Logs /\ l.buffer \in Seq(ItemSizes) /\ BytesOf(l.buffer) \in Nat
      /\ BytesOf(l.buffer) <= ChunkMax /\ ChunkMax \in Nat \ {0}
  BY BytesIs, ConstantsAre DEF LogOK, BufferOK, Logs
<1>2. need \in 1..(2 * ChunkMax) /\ need \in Nat
  BY <1>1
<1>3. PICK f \in flushed :
        \/ r = f /\ (f.rc = "ok" => need <= f.log.bufferMax)
        \/ /\ f.rc = "ok" /\ ~(need <= f.log.bufferMax)
           /\ \/ r = Result("failed", f.log, f.disk)
              \/ r = Result("ok", [f.log EXCEPT !.bufferMax = Grown(@, need)], f.disk)
  BY DEF Reserve
<1>4. /\ LogOK(f.log) /\ BufferOK(f.log) /\ Moved(l, d, f.log, f.disk)
      /\ f.rc \in {"ok", "failed", "aborted"}
      /\ f.rc = "ok" => /\ BytesOf(f.log.buffer) \in Nat
                        /\ BytesOf(f.log.buffer) + size <= need
                        /\ BytesOf(f.log.buffer) + size <= ChunkMax
  <2>1. CASE need > ChunkMax
    <3>1. f \in Flush(l, d)
      BY <2>1
    <3>2. f.rc = "ok" => BytesOf(f.log.buffer) = 0
      BY <3>1, FlushIs, BytesIs
    <3>3. QED
      BY <1>1, <1>2, <3>1, <3>2, FlushIs
  <2>2. CASE ~(need > ChunkMax)
    <3>1. f.rc = "ok" /\ f.log = l /\ f.disk = d
      BY <2>2 DEF Result
    <3>2. Moved(l, d, l, d)
      BY DEF Moved
    <3>3. QED
      BY <1>1, <1>2, <2>2, <3>1, <3>2
  <2>3. QED
    BY <2>1, <2>2
<1> HIDE DEF need, flushed
<1>5. f.log \in Logs /\ f.log.bufferMax \in Nat
  BY <1>4 DEF LogOK, Logs
<1>6. CASE r = f /\ (f.rc = "ok" => need <= f.log.bufferMax)
  <2>1. f.rc = "ok" => BytesOf(f.log.buffer) + size <= f.log.bufferMax
    BY <1>2, <1>4, <1>5, <1>6
  <2>2. QED
    BY <1>4, <1>6, <2>1
<1>7. CASE r = Result("failed", f.log, f.disk)
  BY <1>4, <1>7 DEF Result
<1>8. CASE f.rc = "ok" /\ r = Result("ok", [f.log EXCEPT !.bufferMax = Grown(@, need)], f.disk)
  <2> DEFINE g == Grown(f.log.bufferMax, need)
             m == [f.log EXCEPT !.bufferMax = g]
  <2>1. g \in Nat /\ need <= g /\ Align(g) = g /\ g <= Align(2 * ChunkMax)
    BY <1>2, <1>4, <1>5, GrownIs DEF LogOK
  <2>2. r.rc = "ok" /\ r.log = m /\ r.disk = f.disk
    BY <1>8 DEF Result
  <2> HIDE DEF g
  <2>3. /\ m \in Logs /\ m.bufferMax = g /\ m.buffer = f.log.buffer /\ m.chunks = f.log.chunks
        /\ m.pages = f.log.pages /\ m.ptr = f.log.ptr /\ m.maxChunks = f.log.maxChunks
    BY <1>5, <2>1 DEF Logs
  <2> HIDE DEF m
  <2>4. LogOK(m)
    BY <1>4, <2>1, <2>3 DEF LogOK
  <2>5. BytesOf(m.buffer) \in Nat /\ BytesOf(m.buffer) + size <= g /\ BytesOf(m.buffer) + size <= ChunkMax
    BY <1>2, <1>4, <1>8, <2>1, <2>3
  <2>6. BufferOK(m)
    BY <1>1, <2>1, <2>3, <2>5 DEF BufferOK
  <2>7. Moved(l, d, m, f.disk)
    BY <1>4, <2>3 DEF Moved, WroteTo
  <2>8. QED
    BY <2>2, <2>3, <2>4, <2>5, <2>6, <2>7
<1>9. QED
  BY <1>3, <1>6, <1>7, <1>8

(***************************************************************************)
(* The finished logs and the open one                                      *)
(***************************************************************************)

ChunksOn(d, p) == ReadOn(d, p).chunks

\* The pages of a finished log, header and chunks.
Under(d, p) == Extent(p) \cup Extents(ChunksOn(d, p))

\* The header at log.ptr leads to the items, in their order.
GoodLog(d, log1) ==
  LET cs == ChunksOn(d, log1.ptr)
  IN  /\ log1.ptr \in Ptr /\ ReadOn(d, log1.ptr) \in Header
      /\ Extent(log1.ptr) \subseteq DOMAIN d
      /\ Intact(d, cs) /\ EntriesOn(d, cs) = log1.items
      /\ Counted(cs, ReadOn(d, log1.ptr).pages)

\* The pages of the registered logs R.
AllOf(d, R) == UNION {Under(d, x.ptr) : x \in R}

\* R are good logs, and the pages reserved are theirs, those of S and the lost
\* ones, with none in two of these.
Owned(d, S, R, L) ==
  /\ \A x \in R : GoodLog(d, x)
  /\ DOMAIN d = L \cup AllOf(d, R) \cup S
  /\ S \cap L = {} /\ S \cap AllOf(d, R) = {} /\ L \cap AllOf(d, R) = {}
  /\ DOMAIN d \subseteq Page

\* The chunks and the buffer are the items.
Gathered(l, d, its) ==
  /\ LogOK(l) /\ BufferOK(l)
  /\ Intact(d, l.chunks) /\ EntriesOn(d, l.chunks) \o l.buffer = its
  /\ Counted(l.chunks, l.pages)

OpenInv(l, d, its, R, L) ==
  /\ l.ptr = Nil
  /\ Gathered(l, d, its)
  /\ Owned(d, Extents(l.chunks), R, L)

LEMMA GoodStays ==
  ASSUME NEW d, NEW e, NEW x, GoodLog(d, x), SameOn(Under(d, x.ptr), d, e)
  PROVE  GoodLog(e, x) /\ Under(e, x.ptr) = Under(d, x.ptr)
<1> DEFINE cs == ChunksOn(d, x.ptr)
<1>1. x.ptr \in Ptr /\ cs \in Seq(Ptr)
  BY DEF GoodLog, ChunksOn, Header
<1>2. SameOn(Extent(x.ptr), d, e) /\ SameOn(Extents(cs), d, e)
  BY DEF SameOn, Under
<1>3. ReadOn(e, x.ptr) = ReadOn(d, x.ptr)
  BY <1>1, <1>2, ReadSame
<1>4. ChunksOn(e, x.ptr) = cs
  BY <1>3 DEF ChunksOn
<1>5. Intact(d, cs)
  BY DEF GoodLog
<1> HIDE DEF cs
<1>6. Intact(e, cs) /\ EntriesOn(e, cs) = EntriesOn(d, cs)
  BY <1>1, <1>2, <1>5, IntactStays
<1>7. GoodLog(e, x)
  BY <1>2, <1>3, <1>4, <1>6 DEF GoodLog, SameOn, cs
<1>8. QED
  BY <1>4, <1>7 DEF Under, cs

\* The logs registered do not notice what happens to other pages.
LEMMA OwnedMoves ==
  ASSUME NEW d, NEW e, NEW R, NEW L, NEW S, NEW T, Owned(d, S, R, L),
         SameOn(L \cup AllOf(d, R), d, e),
         DOMAIN e = (L \cup AllOf(d, R)) \cup T, T \cap (L \cup AllOf(d, R)) = {},
         DOMAIN e \subseteq Page
  PROVE  Owned(e, T, R, L) /\ AllOf(e, R) = AllOf(d, R)
<1>1. \A x \in R : GoodLog(e, x) /\ Under(e, x.ptr) = Under(d, x.ptr)
  <2> TAKE x \in R
  <2>1. GoodLog(d, x) /\ SameOn(Under(d, x.ptr), d, e)
    BY DEF Owned, SameOn, AllOf
  <2>2. QED
    BY <2>1, GoodStays
<1>2. AllOf(e, R) = AllOf(d, R)
  BY <1>1 DEF AllOf
<1>3. QED
  BY <1>1, <1>2 DEF Owned

\* trans_log_flush keeps what is gathered, wherever it stops.
LEMMA MovedKeeps ==
  ASSUME NEW l, NEW d, NEW its \in Seq(ItemSizes), NEW R, NEW L, OpenInv(l, d, its, R, L),
         NEW m, NEW e, Moved(l, d, m, e), LogOK(m), BufferOK(m)
  PROVE  OpenInv(m, e, its, R, L)
<1>1. /\ l.ptr = Nil /\ m.ptr = Nil /\ LogOK(l) /\ l.chunks \in Seq(Ptr)
      /\ l.buffer \in Seq(ItemSizes) /\ Intact(d, l.chunks) /\ Counted(l.chunks, l.pages)
      /\ EntriesOn(d, l.chunks) \in Seq(ItemSizes) /\ EntriesOn(d, l.chunks) \o l.buffer = its
      /\ Owned(d, Extents(l.chunks), R, L)
  BY DEF OpenInv, Gathered, LogOK, Logs, Moved, Intact
<1>2. CASE m.chunks = l.chunks /\ m.buffer = l.buffer /\ m.pages = l.pages /\ e = d
  BY <1>1, <1>2 DEF OpenInv, Gathered
<1>3. ASSUME NEW p \in Ptr, WroteTo(p, l, d, m, e) PROVE OpenInv(m, e, its, R, L)
  <2>1. /\ Extent(p) \cap DOMAIN d = {} /\ Extent(p) \subseteq Page /\ m.chunks = Append(l.chunks, p)
        /\ m.buffer = <<>> /\ m.pages = l.pages + p.size /\ e = Written(d, p, l.buffer)
    BY <1>3 DEF WroteTo
  <2>2. Intact(e, m.chunks) /\ EntriesOn(e, m.chunks) = its
    <3>1. ASSUME NEW cs \in Seq(Ptr), NEW b \in Seq(ItemSizes), Intact(d, cs)
          PROVE  /\ Intact(Written(d, p, b), Append(cs, p))
                 /\ EntriesOn(Written(d, p, b), Append(cs, p)) = EntriesOn(d, cs) \o b
      BY ONLY <2>1, <3>1, p \in Ptr, IntactGrows
    <3>2. /\ Intact(Written(d, p, l.buffer), Append(l.chunks, p))
          /\ EntriesOn(Written(d, p, l.buffer), Append(l.chunks, p))
               = EntriesOn(d, l.chunks) \o l.buffer
      BY ONLY <1>1, <3>1
    <3>3. QED
      BY <1>1, <2>1, <3>2
  <2>3. EntriesOn(e, m.chunks) \o m.buffer = its
    BY <2>1, <2>2, ConcatEmptySeq
  <2>4. Extent(p) \cap Extents(l.chunks) = {}
    BY <1>1, <2>1 DEF Intact
  <2>5. Counted(m.chunks, m.pages)
    BY <1>1, <2>1, <2>4, CountedGrows
  <2>6. DOMAIN e = DOMAIN d \cup Extent(p) /\ Extents(m.chunks) = Extents(l.chunks) \cup Extent(p)
    BY <1>1, <2>1, WrittenReads, ExtentsAre
  <2>7. SameOn(L \cup AllOf(d, R), d, e)
    <3>1. L \cup AllOf(d, R) \in SUBSET DOMAIN d
      BY <1>1 DEF Owned
    <3>2. (L \cup AllOf(d, R)) \cap Extent(p) = {}
      BY <2>1, <3>1
    <3>3. QED
      BY <2>1, <3>1, <3>2, WrittenReads
  <2>8. Owned(e, Extents(m.chunks), R, L)
    <3>1. DOMAIN e = (L \cup AllOf(d, R)) \cup Extents(m.chunks) /\ DOMAIN e \subseteq Page
      BY <1>1, <2>1, <2>6 DEF Owned
    <3>2. Extents(m.chunks) \cap (L \cup AllOf(d, R)) = {}
      BY <1>1, <2>1, <2>6 DEF Owned
    <3>3. QED
      BY <1>1, <2>7, <3>1, <3>2, OwnedMoves
  <2>9. QED
    BY <1>1, <2>2, <2>3, <2>5, <2>8 DEF OpenInv, Gathered
<1>4. QED
  BY <1>2, <1>3 DEF Moved

\* The header makes a good log of what has been gathered.
LEMMA HeaderMakesLog ==
  ASSUME NEW l, NEW d, NEW its \in Seq(ItemSizes), NEW R, NEW L, OpenInv(l, d, its, R, L),
         l.buffer = <<>>, NEW p \in Ptr, Extent(p) \cap DOMAIN d = {}, Extent(p) \subseteq Page
  PROVE  LET e == Written(d, p, [chunks |-> l.chunks, pages |-> l.pages])
         IN  /\ GoodLog(e, [ptr |-> p, items |-> its])
             /\ ChunksOn(e, p) = l.chunks
             /\ Extent(p) \cap Extents(l.chunks) = {}
             /\ Owned(e, Under(e, p), R, L)
<1> DEFINE header == [chunks |-> l.chunks, pages |-> l.pages]
           e == Written(d, p, header)
<1>1. /\ LogOK(l) /\ l.chunks \in Seq(Ptr) /\ l.pages \in Nat /\ Intact(d, l.chunks)
      /\ Counted(l.chunks, l.pages) /\ EntriesOn(d, l.chunks) \in Seq(ItemSizes)
      /\ EntriesOn(d, l.chunks) \o <<>> = its /\ Owned(d, Extents(l.chunks), R, L)
  BY DEF OpenInv, Gathered, LogOK, Logs, Intact
<1>2. EntriesOn(d, l.chunks) = its
  BY <1>1, ConcatEmptySeq
<1>3. header \in Header /\ header.chunks = l.chunks /\ header.pages = l.pages
  BY <1>1 DEF Header
<1> HIDE DEF header
<1>4. ReadOn(e, p) = header /\ DOMAIN e = DOMAIN d \cup Extent(p)
  BY WrittenReads
<1>5. \A S \in SUBSET DOMAIN d : SameOn(S, d, e)
  <2> TAKE S \in SUBSET DOMAIN d
  <2>1. S \cap Extent(p) = {}
    OBVIOUS
  <2>2. QED
    BY <2>1, WrittenReads
<1> HIDE DEF e
<1>6. Intact(e, l.chunks) /\ EntriesOn(e, l.chunks) = its
  <2>1. SameOn(Extents(l.chunks), d, e)
    BY <1>1, <1>5 DEF Intact
  <2>2. QED
    BY <1>1, <1>2, <2>1, IntactStays
<1>7. ChunksOn(e, p) = l.chunks /\ Under(e, p) = Extent(p) \cup Extents(l.chunks)
  BY <1>3, <1>4 DEF ChunksOn, Under
<1>8. GoodLog(e, [ptr |-> p, items |-> its])
  BY <1>1, <1>3, <1>4, <1>6, <1>7 DEF GoodLog
<1>9. Extent(p) \cap Extents(l.chunks) = {}
  BY <1>1 DEF Intact
<1>10. Owned(e, Under(e, p), R, L)
  <2>1. L \cup AllOf(d, R) \in SUBSET DOMAIN d
    BY <1>1 DEF Owned
  <2>2. SameOn(L \cup AllOf(d, R), d, e)
    BY <1>5, <2>1
  <2>3. DOMAIN e = (L \cup AllOf(d, R)) \cup Under(e, p) /\ DOMAIN e \subseteq Page
    BY <1>1, <1>4, <1>7 DEF Owned
  <2>4. Under(e, p) \cap (L \cup AllOf(d, R)) = {}
    BY <1>1, <1>7 DEF Owned
  <2>5. QED
    BY <1>1, <2>2, <2>3, <2>4, OwnedMoves
<1>11. QED
  BY <1>7, <1>8, <1>9, <1>10 DEF e, header

(***************************************************************************)
(* The invariant                                                           *)
(***************************************************************************)

Finished == [ptr |-> log.ptr, items |-> items]

FinishedInv ==
  /\ GoodLog(disk, Finished) /\ ChunksOn(disk, log.ptr) = log.chunks
  /\ Extent(log.ptr) \cap Extents(log.chunks) = {}
  /\ Owned(disk, Under(disk, log.ptr), registered, lost)

TransLogInv ==
  /\ status \in {"open", "finished", "cancelled", "aborted", "crashed"}
  /\ items \in Seq(ItemSizes) /\ LogOK(log) /\ BufferOK(log)
  /\ status \in {"open", "aborted", "crashed"} => OpenInv(log, disk, items, registered, lost)
  /\ status = "finished" => FinishedInv
  /\ status = "cancelled" => Owned(disk, {}, registered, lost)

LEMMA EmptyIs == LogOK(EmptyLog) /\ BufferOK(EmptyLog)
<1>1. /\ <<>> \in Seq(Ptr) /\ <<>> \in Seq(ItemSizes) /\ Len(<<>>) = 0
      /\ PageCount(<<>>) = 0 /\ BytesOf(<<>>) = 0
  <2>1. <<>> \in Seq(Ptr) /\ <<>> \in Seq(ItemSizes) /\ Len(<<>>) = 0 /\ BytesOf(<<>>) = 0
    BY BytesIs
  <2>2. SumOf(Sizes(<<>>), 0) = 0
    BY SumIs
  <2>3. QED
    BY <2>1, <2>2, PagesAreSum
<1>2. ChunkMax \in Nat /\ 2 * ChunkMax \in Nat /\ Align(2 * ChunkMax) \in Nat
  BY ConstantsAre, PagesIs
<1>3. Align(0) = 0
  <2>1. 0 * PageSize = 0 /\ 0 \in Nat
    BY ConstantsAre
  <2>2. QED
    BY <2>1, AlignedIs
<1>4. EmptyLog \in Logs
  BY <1>1 DEF EmptyLog, Logs
<1>5. QED
  BY <1>1, <1>2, <1>3, <1>4 DEF EmptyLog, LogOK, BufferOK

\* A new transaction begins: nothing of it is on the disk.
LEMMA EmptyOpens ==
  ASSUME NEW d, NEW R, NEW L, Owned(d, {}, R, L)
  PROVE  OpenInv(EmptyLog, d, <<>>, R, L)
<1>1. /\ EmptyLog.chunks = <<>> /\ EmptyLog.buffer = <<>> /\ EmptyLog.pages = 0
      /\ EmptyLog.ptr = Nil
  BY DEF EmptyLog
<1>2. Extents(<<>>) = {}
  BY DEF Extents, ToSet
<1>3. Counted(<<>>, 0)
  BY <1>2, FS_EmptySet DEF Counted
<1>4. EntriesOn(d, <<>>) = <<>> /\ <<>> \in Seq(ItemSizes)
  BY DEF EntriesOn, FlattenSeq
<1>5. Intact(d, <<>>)
  <2>1. 1..Len(<<>>) = {}
    OBVIOUS
  <2>2. QED
    BY <1>2, <1>4, <2>1 DEF Intact
<1>6. EntriesOn(d, <<>>) \o <<>> = <<>>
  BY <1>4, ConcatEmptySeq
<1>7. QED
  BY <1>1, <1>2, <1>3, <1>5, <1>6, EmptyIs DEF OpenInv, Gathered

\* trans_log_append
LEMMA AppendKeeps ==
  ASSUME TransLogInv, NEW size \in ItemSizes, AppendItem(size)
  PROVE  TransLogInv'
<1>1. /\ items \in Seq(ItemSizes) /\ LogOK(log) /\ BufferOK(log) /\ status = "open"
      /\ OpenInv(log, disk, items, registered, lost)
      /\ registered' = registered /\ lost' = lost
  BY DEF TransLogInv, AppendItem
<1>2. PICK r \in Reserve(log, disk, size + EntrySize) :
        IF r.rc = "ok"
        THEN /\ Return([r EXCEPT !.log.buffer = Append(@, size)])
             /\ items' = Append(items, size)
        ELSE Return(r) /\ items' = items
  BY DEF AppendItem
<1>3. size + EntrySize \in 1..ChunkMax /\ size \in Nat /\ EntrySize \in Nat
  BY ConstantsAre
<1>4. /\ LogOK(r.log) /\ BufferOK(r.log) /\ Moved(log, disk, r.log, r.disk)
      /\ r.rc \in {"ok", "failed", "aborted"}
      /\ r.rc = "ok" => /\ BytesOf(r.log.buffer) + (size + EntrySize) <= r.log.bufferMax
                        /\ BytesOf(r.log.buffer) + (size + EntrySize) <= ChunkMax
  BY <1>1, <1>2, <1>3, ReserveIs
<1>5. OpenInv(r.log, r.disk, items, registered, lost)
  BY <1>1, <1>4, MovedKeeps
<1>6. CASE r.rc # "ok"
  <2>1. log' = r.log /\ disk' = r.disk /\ items' = items /\ status' \in {"open", "aborted"}
    BY <1>1, <1>2, <1>6 DEF Return
  <2>2. QED
    BY <1>1, <1>4, <1>5, <2>1 DEF TransLogInv
<1>7. CASE r.rc = "ok"
  <2> DEFINE b == Append(r.log.buffer, size)
             m == [r.log EXCEPT !.buffer = b]
  <2>1. r.log \in Logs /\ r.log.buffer \in Seq(ItemSizes)
    BY <1>4 DEF LogOK, Logs
  <2>2. r \in [rc : {r.rc}, log : {r.log}, disk : {r.disk}]
    <3>1. \A f \in Flush(log, disk) : f = [rc |-> f.rc, log |-> f.log, disk |-> f.disk]
      BY DEF Flush, Result
    <3>2. r = [rc |-> r.rc, log |-> r.log, disk |-> r.disk]
      BY <3>1 DEF Reserve, Result
    <3>3. QED
      BY <3>2
  <2>3. log' = m /\ disk' = r.disk /\ items' = Append(items, size) /\ status' = "open"
    BY <1>1, <1>2, <1>7, <2>1, <2>2 DEF Return, Logs
  <2>4. b \in Seq(ItemSizes)
    BY <2>1
  <2> HIDE DEF b
  <2>5. /\ m \in Logs /\ m.buffer = b /\ m.chunks = r.log.chunks /\ m.pages = r.log.pages
        /\ m.ptr = r.log.ptr /\ m.bufferMax = r.log.bufferMax /\ m.maxChunks = r.log.maxChunks
    BY <2>1, <2>4 DEF Logs
  <2> HIDE DEF m
  <2>6. LogOK(m)
    BY <1>4, <2>5 DEF LogOK
  <2>7. BufferOK(m)
    <3>1. BytesOf(b) = BytesOf(r.log.buffer) + (size + EntrySize)
      BY <2>1, BytesIs DEF b
    <3>2. QED
      BY <1>4, <1>7, <2>5, <3>1 DEF BufferOK
  <2>8. EntriesOn(r.disk, m.chunks) \o m.buffer = Append(items, size)
    <3> DEFINE E == EntriesOn(r.disk, r.log.chunks)
               c == r.log.buffer
    <3>1. E \in Seq(ItemSizes) /\ c \in Seq(ItemSizes) /\ E \o c = items
      BY <1>5, <2>1 DEF OpenInv, Gathered, Intact
    <3> HIDE DEF E, c
    <3>2. Append(c, size) = c \o <<size>> /\ Append(items, size) = items \o <<size>>
      BY <1>1, <3>1, AppendIsConcat
    <3>3. <<size>> \in Seq(ItemSizes)
      OBVIOUS
    <3>4. E \o (c \o <<size>>) = (E \o c) \o <<size>>
      BY ONLY <3>1, <3>3, ConcatAssociative
    <3>5. E \o (c \o <<size>>) = items \o <<size>>
      BY ONLY <3>1, <3>4
    <3>6. m.chunks = r.log.chunks /\ m.buffer = c \o <<size>>
      BY <2>5, <3>2 DEF c, b
    <3>7. QED
      BY <3>2, <3>5, <3>6 DEF E
  <2>9. OpenInv(m, r.disk, Append(items, size), registered, lost)
    BY <1>5, <2>5, <2>6, <2>7, <2>8 DEF OpenInv, Gathered
  <2>10. Append(items, size) \in Seq(ItemSizes)
    BY <1>1
  <2>11. QED
    BY <1>1, <2>3, <2>6, <2>7, <2>9, <2>10 DEF TransLogInv
<1>8. QED
  BY <1>6, <1>7

\* trans_log_finish writes the header.
LEMMA FinishKeeps ==
  ASSUME TransLogInv, Finish
  PROVE  TransLogInv'
<1>1. /\ items \in Seq(ItemSizes) /\ LogOK(log) /\ BufferOK(log)
      /\ OpenInv(log, disk, items, registered, lost)
      /\ items' = items /\ registered' = registered /\ lost' = lost /\ status' = "finished"
  BY DEF TransLogInv, Finish
<1> DEFINE Size(r) == PagesOf(HeaderSize + Len(r.log.chunks) * PtrSize)
           HeaderOf(r) == [chunks |-> r.log.chunks, pages |-> r.log.pages]
<1>2. PICK r \in Flush(log, disk) :
        /\ r.rc = "ok"
        /\ \E p \in Places(r.disk, Size(r)) : /\ log' = [r.log EXCEPT !.ptr = p]
                                             /\ disk' = Written(r.disk, p, HeaderOf(r))
  BY DEF Finish
<1>3. LogOK(r.log) /\ BufferOK(r.log) /\ Moved(log, disk, r.log, r.disk) /\ r.log.buffer = <<>>
  BY <1>1, <1>2, FlushIs
<1>4. OpenInv(r.log, r.disk, items, registered, lost)
  BY <1>1, <1>3, MovedKeeps
<1>5. r.log \in Logs /\ r.log.chunks \in Seq(Ptr)
  BY <1>3 DEF LogOK, Logs
<1>6. Size(r) \in Nat /\ Size(r) > 0
  <2> DEFINE n == Len(r.log.chunks)
  <2>1. n \in Nat /\ HeaderSize \in Nat \ {0} /\ PtrSize \in Nat \ {0}
    BY <1>5, ConstantsAre
  <2> HIDE DEF n
  <2>2. n * PtrSize \in Nat
    BY <2>1
  <2>3. HeaderSize + n * PtrSize \in Nat /\ HeaderSize + n * PtrSize > 0
    BY <2>1, <2>2
  <2>4. QED
    BY <2>3, PagesIs DEF n
<1>7. PICK p \in Places(r.disk, Size(r)) : /\ log' = [r.log EXCEPT !.ptr = p]
                                           /\ disk' = Written(r.disk, p, HeaderOf(r))
  BY <1>2
<1>8. p \in Ptr /\ Extent(p) \cap DOMAIN r.disk = {} /\ Extent(p) \subseteq Page
  <2> HIDE DEF Size
  <2>1. QED
    BY <1>6, <1>7, PlacesAre
<1>9. /\ GoodLog(disk', [ptr |-> p, items |-> items]) /\ ChunksOn(disk', p) = r.log.chunks
      /\ Extent(p) \cap Extents(r.log.chunks) = {}
      /\ Owned(disk', Under(disk', p), registered, lost)
  <2>1. LET e == Written(r.disk, p, HeaderOf(r))
        IN  /\ GoodLog(e, [ptr |-> p, items |-> items]) /\ ChunksOn(e, p) = r.log.chunks
            /\ Extent(p) \cap Extents(r.log.chunks) = {}
            /\ Owned(e, Under(e, p), registered, lost)
    BY <1>1, <1>3, <1>4, <1>8, HeaderMakesLog
  <2>2. QED
    BY <1>7, <2>1
<1>10. /\ log' \in Logs /\ log'.ptr = p /\ log'.chunks = r.log.chunks
       /\ log'.buffer = r.log.buffer /\ log'.bufferMax = r.log.bufferMax
       /\ log'.pages = r.log.pages /\ log'.maxChunks = r.log.maxChunks
  BY <1>5, <1>7, <1>8 DEF Logs
<1>11. LogOK(log') /\ BufferOK(log')
  BY <1>3, <1>10 DEF LogOK, BufferOK
<1>12. FinishedInv'
  BY <1>1, <1>9, <1>10 DEF FinishedInv, Finished
<1>13. QED
  BY <1>1, <1>11, <1>12 DEF TransLogInv

\* trans_log_finish stops before that.
LEMMA FinishFailsKeeps ==
  ASSUME TransLogInv, FinishFails
  PROVE  TransLogInv'
<1>1. /\ items \in Seq(ItemSizes) /\ LogOK(log) /\ BufferOK(log)
      /\ OpenInv(log, disk, items, registered, lost)
      /\ items' = items /\ registered' = registered /\ lost' = lost
  BY DEF TransLogInv, FinishFails
<1>2. PICK r \in Flush(log, disk) : /\ log' = r.log /\ disk' = r.disk
                                    /\ status' \in {"open", "aborted", "crashed"}
  BY DEF FinishFails, Return
<1>3. LogOK(r.log) /\ BufferOK(r.log) /\ Moved(log, disk, r.log, r.disk)
  BY <1>1, FlushIs
<1>4. OpenInv(r.log, r.disk, items, registered, lost)
  BY <1>1, <1>3, MovedKeeps
<1>5. QED
  BY <1>1, <1>2, <1>3, <1>4 DEF TransLogInv

\* trans_log_cancel
LEMMA CancelKeeps ==
  ASSUME TransLogInv, Cancel
  PROVE  TransLogInv'
<1> DEFINE S == Extents(log.chunks)
<1>1. /\ items' = items /\ registered' = registered /\ log' = log /\ status' = "cancelled"
      /\ items \in Seq(ItemSizes) /\ LogOK(log) /\ BufferOK(log)
      /\ disk' = [n \in DOMAIN disk \ S |-> disk[n]]
  BY DEF TransLogInv, Cancel, Held, Extents
<1>2. Owned(disk, S, registered, lost')
  <2>1. CASE status = "open"
    <3>1. log.ptr = Nil /\ Owned(disk, S, registered, lost)
      BY <2>1 DEF TransLogInv, OpenInv
    <3>2. lost' = lost
      BY <3>1 DEF Cancel
    <3>3. QED
      BY <3>1, <3>2
  <2>2. CASE status = "finished"
    <3>1. FinishedInv /\ log.ptr \in Ptr
      BY <2>2 DEF TransLogInv, FinishedInv, GoodLog, Finished
    <3>2. lost' = lost \cup Extent(log.ptr)
      BY <3>1, ConstantsAre DEF Cancel
    <3>3. /\ Under(disk, log.ptr) = Extent(log.ptr) \cup S /\ Extent(log.ptr) \cap S = {}
          /\ Owned(disk, Under(disk, log.ptr), registered, lost)
      BY <3>1 DEF FinishedInv, Under
    <3> HIDE DEF S
    <3>4. QED
      BY <3>2, <3>3 DEF Owned
  <2>3. QED
    BY <2>1, <2>2 DEF Cancel
<1> HIDE DEF S
<1> DEFINE K == lost' \cup AllOf(disk, registered)
<1>3. DOMAIN disk = K \cup S /\ S \cap K = {} /\ DOMAIN disk \subseteq Page
  BY <1>2 DEF Owned
<1>4. DOMAIN disk' = K /\ \A n \in K : disk'[n] = disk[n]
  BY <1>1, <1>3
<1>5. SameOn(K, disk, disk')
  BY <1>3, <1>4 DEF SameOn
<1>6. Owned(disk', {}, registered, lost')
  <2>1. DOMAIN disk' = K \cup {} /\ {} \cap K = {} /\ DOMAIN disk' \subseteq Page
    BY <1>3, <1>4
  <2>2. QED
    BY <1>2, <1>5, <2>1, OwnedMoves
<1>7. QED
  BY <1>1, <1>6 DEF TransLogInv

\* trasn_log_release and trans_log_setup
LEMMA NextKeeps ==
  ASSUME TransLogInv, NextTransaction
  PROVE  TransLogInv'
<1>1. /\ log' = EmptyLog /\ items' = <<>> /\ status' = "open" /\ disk' = disk /\ lost' = lost
      /\ status \in {"finished", "cancelled"}
  BY DEF NextTransaction
<1>2. Owned(disk, {}, registered', lost)
  <2>1. CASE status = "finished"
    <3>1. registered' = registered \cup {Finished}
      BY <2>1 DEF NextTransaction, Finished
    <3>2. GoodLog(disk, Finished) /\ Owned(disk, Under(disk, log.ptr), registered, lost)
      BY <2>1 DEF TransLogInv, FinishedInv
    <3>3. AllOf(disk, registered') = AllOf(disk, registered) \cup Under(disk, log.ptr)
      <4>1. Finished.ptr = log.ptr
        BY DEF Finished
      <4>2. QED
        BY <3>1, <4>1 DEF AllOf
    <3>4. \A x \in registered' : GoodLog(disk, x)
      BY <3>1, <3>2 DEF Owned
    <3>5. QED
      BY <3>2, <3>3, <3>4 DEF Owned
  <2>2. CASE status = "cancelled"
    <3>1. registered' = registered
      BY <2>2 DEF NextTransaction
    <3>2. QED
      BY <2>2, <3>1 DEF TransLogInv
  <2>3. QED
    BY <1>1, <2>1, <2>2
<1>3. OpenInv(EmptyLog, disk, <<>>, registered', lost)
  BY <1>2, EmptyOpens
<1>4. <<>> \in Seq(ItemSizes)
  OBVIOUS
<1>5. QED
  BY <1>1, <1>3, <1>4, EmptyIs DEF TransLogInv

\* What is gathered stays gathered, and every page keeps its one owner.
THEOREM TransLogInvHolds == Spec => []TransLogInv
<1>1. Init => TransLogInv
  <2> SUFFICES ASSUME Init PROVE TransLogInv
    OBVIOUS
  <2>1. /\ log = EmptyLog /\ status = "open" /\ items = <<>> /\ disk = <<>>
        /\ registered = {} /\ lost = {}
    BY DEF Init
  <2>2. Owned(disk, {}, registered, lost)
    <3>1. DOMAIN disk = {} /\ AllOf(disk, {}) = {}
      BY <2>1 DEF AllOf
    <3>2. QED
      BY <2>1, <3>1 DEF Owned
  <2>3. OpenInv(EmptyLog, disk, <<>>, registered, lost) /\ <<>> \in Seq(ItemSizes)
    BY <2>2, EmptyOpens
  <2>4. QED
    BY <2>1, <2>3, EmptyIs DEF TransLogInv
<1>2. TransLogInv /\ [Next]_vars => TransLogInv'
  <2> SUFFICES ASSUME TransLogInv, [Next]_vars PROVE TransLogInv'
    OBVIOUS
  <2>1. ASSUME NEW size \in ItemSizes, AppendItem(size) PROVE TransLogInv'
    BY <2>1, AppendKeeps
  <2>2. CASE Finish
    BY <2>2, FinishKeeps
  <2>3. CASE FinishFails
    BY <2>3, FinishFailsKeeps
  <2>4. CASE Cancel
    BY <2>4, CancelKeeps
  <2>5. CASE NextTransaction
    BY <2>5, NextKeeps
  <2>6. CASE UNCHANGED vars
    <3>1. /\ log' = log /\ status' = status /\ items' = items /\ disk' = disk
          /\ registered' = registered /\ lost' = lost
      BY <2>6 DEF vars
    <3>2. QED
      BY <3>1 DEF TransLogInv, FinishedInv, Finished
  <2>7. QED
    BY <2>1, <2>2, <2>3, <2>4, <2>5, <2>6 DEF Next
<1>3. QED
  BY <1>1, <1>2, PTL DEF Spec

(***************************************************************************)
(* What it says of the properties that are checked                         *)
(***************************************************************************)

LEMMA SomeOwned ==
  ASSUME TransLogInv
  PROVE  \E S : Owned(disk, S, registered, lost)
BY DEF TransLogInv, OpenInv, FinishedInv

LEMMA ReadIs ==
  ASSUME NEW p
  PROVE  Read(p) = ReadOn(disk, p) /\ PagesUnder(p) = Under(disk, p)
<1>1. Read(p) = ReadOn(disk, p)
  BY DEF Read, ReadOn, Held
<1>2. QED
  BY <1>1 DEF PagesUnder, Under, ChunksOf, ChunksOn, Extents

\* The struct trans_log is always one of its type, its page count that of its
\* chunks, which never outgrow their array.
THEOREM LogTypeCorrect == Spec => []TypeOK
<1>1. TransLogInv => TypeOK
  <2> SUFFICES ASSUME TransLogInv PROVE TypeOK
    OBVIOUS
  <2>1. LogOK(log) /\ items \in Seq(ItemSizes)
    BY DEF TransLogInv
  <2>2. log \in Logs
    BY <2>1 DEF LogOK
  <2>3. lost \subseteq Page /\ Held \subseteq Page
    BY SomeOwned DEF Owned, Held
  <2>4. log.bufferMax \in 0..Align(2 * ChunkMax)
    <3>1. log.bufferMax \in Nat /\ log.bufferMax <= Align(2 * ChunkMax)
      BY <2>1, <2>2 DEF LogOK, Logs
    <3>2. 2 * ChunkMax \in Nat
      BY ConstantsAre
    <3>3. Align(2 * ChunkMax) \in Nat
      BY <3>2, PagesIs
    <3>4. QED
      BY <3>1, <3>3
  <2>5. /\ log.chunks \in Seq(Ptr) /\ log.maxChunks \in {0, FirstChunks}
        /\ log.buffer \in Seq(ItemSizes) /\ log.ptr \in Ptr \cup {Nil}
    BY <2>2 DEF Logs
  <2>6. QED
    BY <2>1, <2>3, <2>4, <2>5 DEF TypeOK, LogOK, TransLogInv
<1>2. QED
  BY <1>1, TransLogInvHolds, PTL

\* trans_log_append, trans_log_flush, trans_log_finish: a log reads back as what
\* was appended to it, whatever failed on the way and whatever came after it.
THEOREM LogsReadBackHolds == Spec => []LogsReadBack
<1>1. TransLogInv => LogsReadBack
  <2> SUFFICES ASSUME TransLogInv,
                      NEW l \in registered \cup IF status = "finished"
                                                THEN {[ptr |-> log.ptr, items |-> items]} ELSE {}
               PROVE  /\ Read(l.ptr) # Nil
                      /\ \A c \in ToSet(ChunksOf(l.ptr)) : Read(c) # Nil
                      /\ FlattenSeq([i \in 1..Len(ChunksOf(l.ptr)) |-> Read(ChunksOf(l.ptr)[i])])
                           = l.items
                      /\ Read(l.ptr).pages
                           = Cardinality(UNION {Extent(c) : c \in ToSet(ChunksOf(l.ptr))})
    BY DEF LogsReadBack
  <2> DEFINE cs == ChunksOn(disk, l.ptr)
  <2>1. GoodLog(disk, l)
    <3>1. CASE l \in registered
      BY <3>1, SomeOwned DEF Owned
    <3>2. CASE status = "finished" /\ l = Finished
      BY <3>2 DEF TransLogInv, FinishedInv
    <3>3. QED
      BY <3>1, <3>2 DEF Finished
  <2>2. /\ ReadOn(disk, l.ptr) \in Header /\ Intact(disk, cs) /\ EntriesOn(disk, cs) = l.items
        /\ Counted(cs, ReadOn(disk, l.ptr).pages)
    BY <2>1 DEF GoodLog
  <2>3. cs \in Seq(Ptr)
    BY <2>2 DEF Header, ChunksOn
  <2>4. Read(l.ptr) = ReadOn(disk, l.ptr) /\ ChunksOf(l.ptr) = cs
    BY ReadIs DEF ChunksOf, ChunksOn
  <2> HIDE DEF cs
  <2>5. \A c \in ToSet(cs) : Read(c) # Nil
    <3> TAKE c \in ToSet(cs)
    <3>1. PICK i \in 1..Len(cs) : c = cs[i]
      BY <2>3 DEF ToSet
    <3>2. ReadOn(disk, c) \in Seq(ItemSizes)
      BY <2>2, <3>1 DEF Intact
    <3>3. QED
      BY <3>2, ReadIs, ConstantsAre
  <2>6. FlattenSeq([i \in 1..Len(cs) |-> Read(cs[i])]) = l.items
    <3>1. [i \in 1..Len(cs) |-> Read(cs[i])] = [i \in 1..Len(cs) |-> ReadOn(disk, cs[i])]
      BY ReadIs
    <3>2. QED
      BY <2>2, <3>1 DEF EntriesOn
  <2>7. Read(l.ptr).pages = Cardinality(Extents(cs))
    BY <2>2, <2>4 DEF Counted
  <2>8. Read(l.ptr) # Nil
    BY <2>2, <2>4, ConstantsAre
  <2>9. QED
    BY <2>4, <2>5, <2>6, <2>7, <2>8 DEF Extents
<1>2. QED
  BY <1>1, TransLogInvHolds, PTL

\* trans_log_append, trans_log_reserve, trans_log_flush: no entry is lost or
\* doubled between the buffer and the chunks.
THEOREM NothingLostHolds == Spec => []NothingLost
<1>1. TransLogInv => NothingLost
  <2> SUFFICES ASSUME TransLogInv, status = "open"
               PROVE  FlattenSeq([i \in 1..Len(log.chunks) |-> Read(log.chunks[i])]) \o log.buffer
                        = items
    BY DEF NothingLost
  <2>1. EntriesOn(disk, log.chunks) \o log.buffer = items
    BY DEF TransLogInv, OpenInv, Gathered
  <2>2. [i \in 1..Len(log.chunks) |-> Read(log.chunks[i])]
          = [i \in 1..Len(log.chunks) |-> ReadOn(disk, log.chunks[i])]
    BY ReadIs
  <2>3. QED
    BY <2>1, <2>2 DEF EntriesOn
<1>2. QED
  BY <1>1, TransLogInvHolds, PTL

\* trans_log_flush, trans_log_finish, trans_log_cancel: the pages reserved are
\* those of the registered logs and of this one, but for the headers lost.
THEOREM ReservedIsHeldHolds == Spec => []ReservedIsHeld
<1>1. TransLogInv => ReservedIsHeld
  <2> SUFFICES ASSUME TransLogInv PROVE ReservedIsHeld
    OBVIOUS
  <2>1. UNION {PagesUnder(l.ptr) : l \in registered} = AllOf(disk, registered)
    BY ReadIs DEF AllOf
  <2>2. CASE status \in {"open", "aborted", "crashed"}
    <3>1. log.ptr = Nil /\ DOMAIN disk = lost \cup AllOf(disk, registered) \cup Extents(log.chunks)
      BY <2>2 DEF TransLogInv, OpenInv, Owned
    <3>2. QED
      BY <2>1, <2>2, <3>1 DEF ReservedIsHeld, Held, Extents
  <2>3. CASE status = "finished"
    <3>1. /\ log.ptr \in Ptr /\ Under(disk, log.ptr) = Extent(log.ptr) \cup Extents(log.chunks)
          /\ DOMAIN disk = lost \cup AllOf(disk, registered) \cup Under(disk, log.ptr)
      BY <2>3 DEF TransLogInv, FinishedInv, GoodLog, Finished, Owned, Under
    <3>2. log.ptr # Nil
      BY <3>1, ConstantsAre
    <3>3. DOMAIN disk = lost \cup AllOf(disk, registered) \cup (Extents(log.chunks) \cup Extent(log.ptr))
      BY <3>1
    <3>4. QED
      BY <2>1, <2>3, <3>2, <3>3 DEF ReservedIsHeld, Held, Extents
  <2>4. CASE status = "cancelled"
    <3>1. DOMAIN disk = lost \cup AllOf(disk, registered) \cup {}
      BY <2>4 DEF TransLogInv, Owned
    <3>2. QED
      BY <2>1, <2>4, <3>1 DEF ReservedIsHeld, Held
  <2>5. QED
    BY <2>2, <2>3, <2>4 DEF TransLogInv
<1>2. QED
  BY <1>1, TransLogInvHolds, PTL

\* trans_log_reserve, and the assert of trans_log_flush: the entries fit in the
\* buffer, whose size is one of whole pages.
THEOREM BufferHoldsEntriesHolds == Spec => []BufferHoldsEntries
<1>1. TransLogInv => BufferHoldsEntries
  BY DEF TransLogInv, BufferOK, BufferHoldsEntries
<1>2. QED
  BY <1>1, TransLogInvHolds, PTL
=============================================================================
