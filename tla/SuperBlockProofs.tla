-------------------------- MODULE SuperBlockProofs --------------------------
(***************************************************************************)
(* Proofs about Crc64 and SuperBlock, for any polynomial, any width of     *)
(* bytes and words, any options of mkfs, any image and any pieces.         *)
(*                                                                         *)
(* The checksum.  A shift is linear, so the eight tables hold the bytes of *)
(* a word shifted by as many bytes as lie behind them (TableIs), and a     *)
(* turn of either loop is a division by the bytes it takes (WordTurnIs,    *)
(* ByteTurnIs).  If the polynomial has its highest bit a shift loses       *)
(* nothing either, and no two blocks that differ in one word only have the *)
(* same checksum (BurstsAreFound).                                         *)
(*                                                                         *)
(* The block.  Every byte of the file, and of what the server has read, is *)
(* a byte of a block that mkfs began to write after it had made the file   *)
(* long enough (FileIsMade, BufferIsMade): the offset at which a piece is  *)
(* written or read is the offset in the block.  A block the server takes   *)
(* is then one of those (SuperIsAccepted), or the checksum does not tell a *)
(* mixture of them from one of them (Collides), which hangs on the        *)
(* polynomial and on the blocks themselves.                                *)
(***************************************************************************)
EXTENDS SuperBlock, SequenceFacts

(***************************************************************************)
(* Recursion: every recursive function of the two modules takes its value  *)
(* at n from that at n - 1.                                                *)
(***************************************************************************)

\* Turns(W, base, F, n, g): g is what the steps F make of base.
Turns(W, base, F, n, g) ==
  /\ g \in [0..n -> W]
  /\ g[0] = base
  /\ \A i \in 1..n : g[i] = F[i][g[i - 1]]

LEMMA TurnsExist ==
  ASSUME NEW n \in Nat, NEW W, NEW base \in W, NEW F \in [1..n -> [W -> W]]
  PROVE  \E g : Turns(W, base, F, n, g)
<1> DEFINE S == {k \in Nat : k <= n => \E g : Turns(W, base, F, k, g)}
<1>1. 0 \in S
  <2> DEFINE g == [i \in 0..0 |-> base]
  <2>1. Turns(W, base, F, 0, g)
    BY DEF Turns
  <2>2. QED
    BY <2>1
<1>2. ASSUME NEW k \in Nat, k \in S PROVE k + 1 \in S
  <2> SUFFICES ASSUME k + 1 <= n PROVE \E g : Turns(W, base, F, k + 1, g)
    OBVIOUS
  <2>1. PICK g : Turns(W, base, F, k, g)
    BY <1>2
  <2> DEFINE h == [i \in 0..(k + 1) |-> IF i = k + 1 THEN F[k + 1][g[k]] ELSE g[i]]
  <2>2. g \in [0..k -> W] /\ g[0] = base /\ k \in 0..k
    BY <2>1 DEF Turns
  <2>3. k + 1 \in 1..n
    OBVIOUS
  <2>4. F[k + 1] \in [W -> W] /\ g[k] \in W
    BY <2>2, <2>3
  <2>5. F[k + 1][g[k]] \in W
    BY <2>4
  <2>6. h \in [0..(k + 1) -> W]
    BY <2>2, <2>5
  <2>7. h[0] = base
    BY <2>2
  <2>8. ASSUME NEW i \in 1..(k + 1) PROVE h[i] = F[i][h[i - 1]]
    <3>1. CASE i = k + 1
      <4>1. i - 1 = k /\ i - 1 \in 0..(k + 1) /\ i - 1 # k + 1 /\ i \in 0..(k + 1)
        BY <3>1
      <4>2. h[i - 1] = g[k]
        BY <4>1
      <4>3. h[i] = F[k + 1][g[k]]
        BY <4>1, <3>1
      <4>4. QED
        BY <4>2, <4>3, <3>1
    <3>2. CASE i # k + 1
      <4>1. i \in 1..k /\ i - 1 \in 0..(k + 1) /\ i - 1 # k + 1 /\ i \in 0..(k + 1)
        BY <3>2
      <4>2. g[i] = F[i][g[i - 1]]
        BY <4>1, <2>1 DEF Turns
      <4>3. h[i] = g[i] /\ h[i - 1] = g[i - 1]
        BY <4>1, <3>2
      <4>4. QED
        BY <4>2, <4>3
    <3>3. QED
      BY <3>1, <3>2
  <2> HIDE DEF h
  <2>9. Turns(W, base, F, k + 1, h)
    BY <2>6, <2>7, <2>8 DEF Turns
  <2>10. QED
    BY <2>9
<1> HIDE DEF S
<1>3. n \in S
  BY <1>1, <1>2, NaturalsIn
<1>4. QED
  BY <1>3 DEF S

(***************************************************************************)
(* Words                                                                   *)
(***************************************************************************)

LEMMA Widths ==
  /\ ByteBits \in Nat \ {0} /\ WordBytes \in Nat \ {0}
  /\ WordBits \in Nat \ {0} /\ ByteBits <= WordBits
<1>1. ByteBits \in Nat \ {0} /\ WordBytes \in Nat \ {0}
  BY CrcAssumption
<1>2. PICK k \in Nat : WordBytes = k + 1
  <2>1. WordBytes - 1 \in Nat /\ WordBytes = (WordBytes - 1) + 1
    BY <1>1
  <2>2. QED
    BY <2>1
<1>3. WordBits = k * ByteBits + ByteBits /\ k * ByteBits \in Nat
  BY <1>1, <1>2 DEF WordBits
<1>4. QED
  BY <1>1, <1>3

LEMMA BytesAreWords == \A b \in Byte : b \in Word /\ Low(b) = b /\ Down(b, ByteBits) = {}
<1> SUFFICES ASSUME NEW b \in Byte PROVE b \in Word /\ Low(b) = b /\ Down(b, ByteBits) = {}
  OBVIOUS
<1> USE Widths
<1>1. b \subseteq 0..(ByteBits - 1) /\ 0..(ByteBits - 1) \subseteq Bits
  BY DEF Byte, Bits
<1>2. \A i \in Bits : i + ByteBits \notin b
  BY <1>1 DEF Bits
<1>3. QED
  BY <1>1, <1>2 DEF Word, Low, Down

\* Where byte k of a word begins.
Place(k) == k * ByteBits

LEMMA PlacesAre ==
  /\ Place(0) = 0 /\ Place(1) = ByteBits /\ Place(WordBytes) = WordBits
  /\ \A k \in Nat : Place(k) \in Nat /\ Place(k + 1) = Place(k) + ByteBits
<1>1. \A k \in Nat : k * ByteBits \in Nat /\ (k + 1) * ByteBits = k * ByteBits + ByteBits
  BY Widths
<1>2. 0 * ByteBits = 0 /\ 1 * ByteBits = ByteBits
  BY Widths
<1>3. QED
  BY <1>1, <1>2 DEF Place, WordBits

LEMMA PlacesGrow == \A j, k \in Nat : j < k => Place(j) + ByteBits <= Place(k)
<1> SUFFICES ASSUME NEW j \in Nat, NEW k \in Nat, j < k PROVE Place(j) + ByteBits <= Place(k)
  OBVIOUS
<1>1. PICK d \in Nat : k = j + 1 + d
  <2>1. k - j - 1 \in Nat /\ k = j + 1 + (k - j - 1)
    OBVIOUS
  <2>2. QED
    BY <2>1
<1>2. k * ByteBits = j * ByteBits + ByteBits + d * ByteBits
  BY <1>1, Widths
<1>3. j * ByteBits \in Nat /\ d * ByteBits \in Nat /\ ByteBits \in Nat
  BY Widths
<1>4. QED
  BY <1>2, <1>3 DEF Place

LEMMA XorTyped == \A a, b \in Word : SymDiff(a, b) \in Word
BY DEF SymDiff, Word

LEMMA DownTyped == \A c, n : Down(c, n) \in Word
BY DEF Down, Word

LEMMA LowTyped == \A c : Low(c) \in Byte
BY DEF Low, Byte

LEMMA ShiftTyped == \A c \in Word : ShiftOnce(c) \in Word
BY XorTyped, DownTyped, CrcAssumption DEF ShiftOnce

LEMMA DownXor == \A a, b, n : Down(SymDiff(a, b), n) = SymDiff(Down(a, n), Down(b, n))
BY DEF Down, SymDiff

LEMMA LowXor == \A a, b : Low(SymDiff(a, b)) = SymDiff(Low(a), Low(b))
BY DEF Low, SymDiff

LEMMA XorLaws ==
  /\ \A a, b : SymDiff(a, b) = SymDiff(b, a)
  /\ \A a, b, c : SymDiff(SymDiff(a, b), c) = SymDiff(a, SymDiff(b, c))
  /\ \A a : SymDiff(a, {}) = a /\ SymDiff({}, a) = a
BY DEF SymDiff

\* One shift of a sum is the sum of the shifts.
LEMMA ShiftLinear ==
  \A a, b \in Word : ShiftOnce(SymDiff(a, b)) = SymDiff(ShiftOnce(a), ShiftOnce(b))
<1> SUFFICES ASSUME NEW a \in Word, NEW b \in Word
             PROVE  ShiftOnce(SymDiff(a, b)) = SymDiff(ShiftOnce(a), ShiftOnce(b))
  OBVIOUS
<1> DEFINE x == Down(a, 1)
           y == Down(b, 1)
<1>1. Down(SymDiff(a, b), 1) = SymDiff(x, y)
  BY DownXor
<1>2. 0 \in SymDiff(a, b) <=> ~(0 \in a <=> 0 \in b)
  BY DEF SymDiff
<1>3. /\ ShiftOnce(a) = IF 0 \in a THEN SymDiff(Poly, x) ELSE x
      /\ ShiftOnce(b) = IF 0 \in b THEN SymDiff(Poly, y) ELSE y
      /\ ShiftOnce(SymDiff(a, b)) = IF 0 \in SymDiff(a, b) THEN SymDiff(Poly, SymDiff(x, y)) ELSE SymDiff(x, y)
  BY <1>1 DEF ShiftOnce
<1> HIDE DEF x, y
<1>4. /\ SymDiff(SymDiff(Poly, x), SymDiff(Poly, y)) = SymDiff(x, y)
      /\ SymDiff(SymDiff(Poly, x), y) = SymDiff(Poly, SymDiff(x, y))
      /\ SymDiff(x, SymDiff(Poly, y)) = SymDiff(Poly, SymDiff(x, y))
  BY DEF SymDiff
<1>5. QED
  BY <1>2, <1>3, <1>4

LEMMA ShiftedIs ==
  ASSUME NEW c \in Word
  PROVE  /\ Shifted(c) \in [0..WordBits -> Word]
         /\ Shifted(c)[0] = c
         /\ \A n \in 1..WordBits : Shifted(c)[n] = ShiftOnce(Shifted(c)[n - 1])
<1> DEFINE F == [i \in 1..WordBits |-> [w \in Word |-> ShiftOnce(w)]]
           Is(g) == g = [n \in 0..WordBits |-> IF n = 0 THEN c ELSE ShiftOnce(g[n - 1])]
<1> USE Widths
<1>1. F \in [1..WordBits -> [Word -> Word]]
  BY ShiftTyped
<1>2. PICK g : Turns(Word, c, F, WordBits, g)
  <2> HIDE DEF F
  <2>1. QED
    BY <1>1, TurnsExist
<1>3. \A i \in 1..WordBits : g[i] = ShiftOnce(g[i - 1])
  <2> SUFFICES ASSUME NEW i \in 1..WordBits PROVE g[i] = ShiftOnce(g[i - 1])
    OBVIOUS
  <2>1. g[i - 1] \in Word
    BY <1>2 DEF Turns
  <2>2. g[i] = F[i][g[i - 1]]
    BY <1>2 DEF Turns
  <2>3. QED
    BY <2>1, <2>2
<1>4. Is(g)
  BY <1>2, <1>3 DEF Turns
<1>5. Shifted(c) = CHOOSE h : Is(h)
  BY DEF Shifted
<1>6. Is(Shifted(c))
  <2> HIDE DEF Is
  <2>1. QED
    BY <1>4, <1>5
<1> DEFINE h == Shifted(c)
<1>7. /\ h = [n \in 0..WordBits |-> IF n = 0 THEN c ELSE ShiftOnce(h[n - 1])]
  BY <1>6
<1> HIDE DEF h
<1>8. h[0] = c /\ \A n \in 1..WordBits : h[n] = ShiftOnce(h[n - 1])
  BY <1>7
<1>9. \A n \in 0..WordBits : h[n] \in Word
  <2> DEFINE S == {n \in Nat : n <= WordBits => h[n] \in Word}
  <2>1. 0 \in S
    BY <1>8
  <2>2. ASSUME NEW n \in Nat, n \in S PROVE n + 1 \in S
    <3> SUFFICES ASSUME n + 1 <= WordBits PROVE h[n + 1] \in Word
      OBVIOUS
    <3>1. h[n] \in Word /\ h[n + 1] = ShiftOnce(h[(n + 1) - 1]) /\ (n + 1) - 1 = n
      BY <2>2, <1>8
    <3>2. QED
      BY <3>1, ShiftTyped
  <2> HIDE DEF S
  <2>3. \A n \in Nat : n \in S
    BY <2>1, <2>2, NaturalsIn
  <2>4. QED
    BY <2>3 DEF S
<1>10. h \in [0..WordBits -> Word]
  BY <1>7, <1>9
<1>11. QED
  BY <1>8, <1>10 DEF h

LEMMA ShiftedTyped == \A c \in Word : \A n \in 0..WordBits : Shifted(c)[n] \in Word
BY ShiftedIs

LEMMA ShiftedStarts == \A c \in Word : Shifted(c)[0] = c
BY ShiftedIs

LEMMA ShiftedSteps ==
  \A c \in Word : \A n \in Nat : n + 1 <= WordBits => Shifted(c)[n + 1] = ShiftOnce(Shifted(c)[n])
<1> SUFFICES ASSUME NEW c \in Word, NEW n \in Nat, n + 1 <= WordBits
             PROVE  Shifted(c)[n + 1] = ShiftOnce(Shifted(c)[n])
  OBVIOUS
<1>1. n + 1 \in 1..WordBits /\ (n + 1) - 1 = n
  BY Widths
<1>2. \A k \in 1..WordBits : Shifted(c)[k] = ShiftOnce(Shifted(c)[k - 1])
  BY ShiftedIs
<1>3. QED
  BY <1>1, <1>2

\* m + n shifts are m shifts and then n.
LEMMA ShiftedAdds ==
  ASSUME NEW c \in Word, NEW m \in Nat, NEW n \in Nat, m + n <= WordBits
  PROVE  Shifted(c)[m + n] = Shifted(Shifted(c)[m])[n]
<1> DEFINE d == Shifted(c)[m]
           S == {k \in Nat : m + k <= WordBits => Shifted(c)[m + k] = Shifted(d)[k]}
<1> USE Widths
<1>1. d \in Word
  BY ShiftedTyped
<1>2. 0 \in S
  BY <1>1, ShiftedStarts
<1>3. ASSUME NEW k \in Nat, k \in S PROVE k + 1 \in S
  <2> SUFFICES ASSUME m + (k + 1) <= WordBits PROVE Shifted(c)[m + (k + 1)] = Shifted(d)[k + 1]
    OBVIOUS
  <2> HIDE DEF d
  <2>1. m + (k + 1) = (m + k) + 1 /\ m + k \in Nat /\ k + 1 <= WordBits /\ m + k <= WordBits
    OBVIOUS
  <2>2. Shifted(c)[(m + k) + 1] = ShiftOnce(Shifted(c)[m + k])
    BY <2>1, ShiftedSteps
  <2>3. Shifted(d)[k + 1] = ShiftOnce(Shifted(d)[k])
    BY <2>1, <1>1, ShiftedSteps
  <2>4. Shifted(c)[m + k] = Shifted(d)[k]
    BY <1>3, <2>1
  <2>5. QED
    BY <2>1, <2>2, <2>3, <2>4
<1> HIDE DEF S
<1>4. n \in S
  BY <1>2, <1>3, NaturalsIn
<1>5. QED
  BY <1>4 DEF S

LEMMA ShiftedLinear ==
  ASSUME NEW a \in Word, NEW b \in Word, NEW n \in 0..WordBits
  PROVE  Shifted(SymDiff(a, b))[n] = SymDiff(Shifted(a)[n], Shifted(b)[n])
<1> DEFINE c == SymDiff(a, b)
           S == {k \in Nat : k <= WordBits => Shifted(c)[k] = SymDiff(Shifted(a)[k], Shifted(b)[k])}
<1> USE Widths
<1>1. c \in Word
  BY XorTyped
<1>2. 0 \in S
  BY <1>1, ShiftedStarts
<1>3. ASSUME NEW k \in Nat, k \in S PROVE k + 1 \in S
  <2> SUFFICES ASSUME k + 1 <= WordBits
               PROVE  Shifted(c)[k + 1] = SymDiff(Shifted(a)[k + 1], Shifted(b)[k + 1])
    OBVIOUS
  <2> HIDE DEF c
  <2>1. k \in 0..WordBits /\ Shifted(c)[k] = SymDiff(Shifted(a)[k], Shifted(b)[k])
    BY <1>3
  <2>2. Shifted(a)[k] \in Word /\ Shifted(b)[k] \in Word
    BY <2>1, ShiftedTyped
  <2>3. /\ Shifted(c)[k + 1] = ShiftOnce(Shifted(c)[k])
        /\ Shifted(a)[k + 1] = ShiftOnce(Shifted(a)[k])
        /\ Shifted(b)[k + 1] = ShiftOnce(Shifted(b)[k])
    BY <1>1, ShiftedSteps
  <2>4. QED
    BY <2>1, <2>2, <2>3, ShiftLinear
<1> HIDE DEF S
<1>4. n \in S
  BY <1>2, <1>3, NaturalsIn
<1>5. QED
  BY <1>4 DEF S

LEMMA DownSteps == \A c \in Word : \A n \in Nat : Down(Down(c, n), 1) = Down(c, n + 1)
<1> SUFFICES ASSUME NEW c \in Word, NEW n \in Nat, NEW i \in Bits
             PROVE  i + 1 \in Down(c, n) <=> i + (n + 1) \in c
  BY DEF Down
<1>1. (i + 1) + n = i + (n + 1) /\ i \in Int /\ WordBits \in Nat
  BY Widths DEF Bits
<1>2. i + (n + 1) \in c => i + 1 \in Bits
  BY <1>1 DEF Word, Bits
<1>3. QED
  BY <1>1, <1>2 DEF Down

\* While the bits that go out are zero, a shift is a shift.
LEMMA ShiftedDown ==
  ASSUME NEW c \in Word, NEW n \in 0..WordBits, \A i \in c : i >= n
  PROVE  Shifted(c)[n] = Down(c, n)
<1> DEFINE S == {k \in Nat : k <= n => Shifted(c)[k] = Down(c, k)}
<1> USE Widths
<1>1. 0 \in S
  <2>1. \A i \in Bits : i + 0 = i
    BY DEF Bits
  <2>2. Down(c, 0) = c
    BY <2>1 DEF Down, Word
  <2>3. QED
    BY <2>2, ShiftedStarts
<1>2. ASSUME NEW k \in Nat, k \in S PROVE k + 1 \in S
  <2> SUFFICES ASSUME k + 1 <= n PROVE Shifted(c)[k + 1] = Down(c, k + 1)
    OBVIOUS
  <2>1. Shifted(c)[k + 1] = ShiftOnce(Down(c, k))
    BY <1>2, ShiftedSteps
  <2>2. 0 \notin Down(c, k)
    <3>1. 0 + k = k /\ ~(k >= n)
      OBVIOUS
    <3>2. QED
      BY <3>1 DEF Down
  <2>3. QED
    BY <2>1, <2>2, DownSteps DEF ShiftOnce
<1> HIDE DEF S
<1>3. n \in S
  BY <1>1, <1>2, NaturalsIn
<1>4. QED
  BY <1>3 DEF S

\* A byte of shifts looks up the low byte and shifts the others.
LEMMA ShiftedByByte ==
  ASSUME NEW c \in Word
  PROVE  Shifted(c)[ByteBits] = SymDiff(Shifted(Low(c))[ByteBits], Down(c, ByteBits))
<1> DEFINE high == c \ Low(c)
<1> USE Widths
<1>1. high \in Word /\ Low(c) \in Word /\ c = SymDiff(Low(c), high)
  BY DEF Word, Low, SymDiff
<1>2. \A i \in high : i >= ByteBits
  BY DEF Low, Word, Bits
<1>3. Down(high, ByteBits) = Down(c, ByteBits)
  <2>1. \A i \in Bits : i + ByteBits \notin 0..(ByteBits - 1)
    BY DEF Bits
  <2>2. QED
    BY <2>1 DEF Down, Low
<1> HIDE DEF high
<1>4. Shifted(high)[ByteBits] = Down(c, ByteBits)
  BY <1>1, <1>2, <1>3, ShiftedDown
<1>5. Shifted(SymDiff(Low(c), high))[ByteBits]
        = SymDiff(Shifted(Low(c))[ByteBits], Shifted(high)[ByteBits])
  BY <1>1, ShiftedLinear
<1>6. QED
  BY <1>1, <1>4, <1>5

(***************************************************************************)
(* The tables                                                              *)
(***************************************************************************)

\* Table i is i + 1 bytes of shifts.
Entry(i, b) == Shifted(b)[Place(i + 1)]

LEMMA PlacesFit == \A k \in 0..WordBytes : Place(k) \in 0..WordBits
<1> SUFFICES ASSUME NEW k \in 0..WordBytes PROVE Place(k) \in 0..WordBits
  OBVIOUS
<1>1. k \in Nat /\ WordBytes \in Nat /\ ByteBits \in Nat /\ WordBits \in Nat
  BY Widths
<1>2. Place(k) \in Nat /\ Place(WordBytes) = WordBits
  BY <1>1, PlacesAre
<1>3. CASE k = WordBytes
  BY <1>1, <1>2, <1>3
<1>4. CASE k < WordBytes
  <2>1. Place(k) + ByteBits <= Place(WordBytes)
    BY <1>1, <1>4, PlacesGrow
  <2>2. QED
    BY <1>1, <1>2, <2>1
<1>5. QED
  BY <1>1, <1>3, <1>4

LEMMA EntryTyped == \A i \in 0..(WordBytes - 1) : \A b \in Byte : Entry(i, b) \in Word
<1> SUFFICES ASSUME NEW i \in 0..(WordBytes - 1), NEW b \in Byte PROVE Entry(i, b) \in Word
  OBVIOUS
<1>1. Place(i + 1) \in 0..WordBits
  BY PlacesFit, Widths
<1>2. QED
  BY <1>1, BytesAreWords, ShiftedTyped DEF Entry

LEMMA EntrySteps ==
  ASSUME NEW i \in 1..(WordBytes - 1), NEW b \in Byte
  PROVE  Entry(i, b) = SymDiff(Down(Entry(i - 1, b), ByteBits), Entry(0, Low(Entry(i - 1, b))))
<1> USE Widths
<1>1. i \in Nat /\ (i - 1) + 1 = i /\ i + 1 \in 0..WordBytes /\ i \in 0..WordBytes /\ 0 + 1 = 1
  OBVIOUS
<1>2. Place(i) \in Nat /\ Place(i + 1) = Place(i) + ByteBits /\ Place(i + 1) \in 0..WordBits
  BY <1>1, PlacesAre, PlacesFit
<1> DEFINE x == Shifted(b)[Place(i)]
<1>3. b \in Word /\ x \in Word
  BY <1>1, PlacesFit, BytesAreWords, ShiftedTyped
<1>4. Shifted(b)[Place(i + 1)] = Shifted(x)[ByteBits]
  BY <1>2, <1>3, ShiftedAdds
<1>5. Entry(i, b) = Shifted(x)[ByteBits] /\ Entry(i - 1, b) = x
  BY <1>1, <1>4 DEF Entry
<1>6. Entry(0, Low(x)) = Shifted(Low(x))[ByteBits]
  BY <1>1, PlacesAre DEF Entry
<1> HIDE DEF x
<1>7. QED
  BY <1>3, <1>5, <1>6, ShiftedByByte, XorLaws

LEMMA TableIs == \A i \in 0..(WordBytes - 1) : \A b \in Byte : Table[i][b] = Entry(i, b)
<1> DEFINE Is(g) == g = [i \in 0..(WordBytes - 1) |->
                           [b \in Byte |->
                              IF i = 0 THEN Shifted(b)[ByteBits]
                              ELSE SymDiff(Down(g[i - 1][b], ByteBits), g[0][Low(g[i - 1][b])])]]
           t == [i \in 0..(WordBytes - 1) |-> [b \in Byte |-> Entry(i, b)]]
<1> USE Widths
<1>1. ASSUME NEW b \in Byte PROVE Entry(0, b) = Shifted(b)[ByteBits]
  BY PlacesAre DEF Entry
<1>2. ASSUME NEW i \in 1..(WordBytes - 1), NEW b \in Byte
      PROVE  t[i][b] = SymDiff(Down(t[i - 1][b], ByteBits), t[0][Low(t[i - 1][b])])
  <2>1. i - 1 \in 0..(WordBytes - 1) /\ 0 \in 0..(WordBytes - 1) /\ i \in 0..(WordBytes - 1)
    OBVIOUS
  <2>2. t[i][b] = Entry(i, b) /\ t[i - 1][b] = Entry(i - 1, b)
    BY <2>1
  <2>3. Low(t[i - 1][b]) \in Byte
    BY LowTyped
  <2>4. t[0][Low(t[i - 1][b])] = Entry(0, Low(t[i - 1][b]))
    BY <2>1, <2>3
  <2> HIDE DEF t
  <2>5. QED
    BY <2>2, <2>4, EntrySteps
<1>3. Is(t)
  <2>1. \A i \in 0..(WordBytes - 1) : \A b \in Byte :
          t[i][b] = IF i = 0 THEN Shifted(b)[ByteBits]
                    ELSE SymDiff(Down(t[i - 1][b], ByteBits), t[0][Low(t[i - 1][b])])
    <3> SUFFICES ASSUME NEW i \in 0..(WordBytes - 1), NEW b \in Byte
                 PROVE  t[i][b] = IF i = 0 THEN Shifted(b)[ByteBits]
                                  ELSE SymDiff(Down(t[i - 1][b], ByteBits), t[0][Low(t[i - 1][b])])
      OBVIOUS
    <3>1. CASE i = 0
      BY <3>1, <1>1
    <3>2. CASE i # 0
      <4>1. i \in 1..(WordBytes - 1)
        BY <3>2
      <4> HIDE DEF t
      <4>2. QED
        BY <4>1, <3>2, <1>2
    <3>3. QED
      BY <3>1, <3>2
  <2>2. \A i \in 0..(WordBytes - 1) : t[i] = [b \in Byte |-> t[i][b]]
    OBVIOUS
  <2>3. t = [i \in 0..(WordBytes - 1) |-> t[i]]
    OBVIOUS
  <2> HIDE DEF t
  <2>4. QED
    BY <2>1, <2>2, <2>3
<1>4. Is(Table)
  <2>1. Table = CHOOSE g : Is(g)
    BY DEF Table
  <2> HIDE DEF Is, t
  <2>2. QED
    BY <1>3, <2>1
<1>5. /\ \A b \in Byte : Table[0][b] = Shifted(b)[ByteBits]
      /\ \A i \in 1..(WordBytes - 1) : \A b \in Byte :
           Table[i][b] = SymDiff(Down(Table[i - 1][b], ByteBits), Table[0][Low(Table[i - 1][b])])
  <2> DEFINE T == Table
  <2>1. Is(T)
    BY <1>4
  <2>2. \A i \in 0..(WordBytes - 1) : \A b \in Byte :
          T[i][b] = IF i = 0 THEN Shifted(b)[ByteBits]
                    ELSE SymDiff(Down(T[i - 1][b], ByteBits), T[0][Low(T[i - 1][b])])
    <3> DEFINE Entries(i) ==
                 [b \in Byte |->
                    IF i = 0 THEN Shifted(b)[ByteBits]
                    ELSE SymDiff(Down(T[i - 1][b], ByteBits), T[0][Low(T[i - 1][b])])]
    <3>1. T = [i \in 0..(WordBytes - 1) |-> Entries(i)]
      BY <2>1
    <3>2. \A i \in 0..(WordBytes - 1) : T[i] = Entries(i)
      <4> HIDE DEF T, Entries
      <4>1. QED
        BY <3>1
    <3> HIDE DEF T
    <3>3. QED
      BY <3>2
  <2>3. /\ 0 \in 0..(WordBytes - 1)
        /\ \A i \in 1..(WordBytes - 1) : i \in 0..(WordBytes - 1) /\ i # 0
    OBVIOUS
  <2> HIDE DEF T, Is
  <2>4. /\ \A b \in Byte : T[0][b] = Shifted(b)[ByteBits]
        /\ \A i \in 1..(WordBytes - 1) : \A b \in Byte :
             T[i][b] = SymDiff(Down(T[i - 1][b], ByteBits), T[0][Low(T[i - 1][b])])
    BY <2>2, <2>3
  <2>5. QED
    BY <2>4 DEF T
<1> DEFINE S == {k \in Nat : k <= WordBytes - 1 => \A b \in Byte : Table[k][b] = Entry(k, b)}
<1> HIDE DEF Is, t
<1>6. 0 \in S
  BY <1>1, <1>5
<1>7. ASSUME NEW k \in Nat, k \in S PROVE k + 1 \in S
  <2> SUFFICES ASSUME k + 1 <= WordBytes - 1, NEW b \in Byte
               PROVE  Table[k + 1][b] = Entry(k + 1, b)
    OBVIOUS
  <2>1. k + 1 \in 1..(WordBytes - 1) /\ (k + 1) - 1 = k
    OBVIOUS
  <2>2. Table[k][b] = Entry(k, b)
    BY <1>7
  <2>3. Table[0][Low(Entry(k, b))] = Entry(0, Low(Entry(k, b)))
    BY <1>1, <1>5, LowTyped
  <2>4. Table[k + 1][b] = SymDiff(Down(Entry(k, b), ByteBits), Entry(0, Low(Entry(k, b))))
    BY <2>1, <2>2, <2>3, <1>5
  <2>5. QED
    BY <2>1, <2>4, EntrySteps
<1> HIDE DEF S
<1>8. \A k \in Nat : k \in S
  BY <1>6, <1>7, NaturalsIn
<1>9. QED
  BY <1>8 DEF S

(***************************************************************************)
(* The turns of the two loops                                              *)
(***************************************************************************)

LEMMA ByteTurnIs ==
  \A c \in Word : \A b \in Byte :
    ByteTurn(c, b) = Shifted(SymDiff(c, b))[ByteBits] /\ ByteTurn(c, b) \in Word
<1> SUFFICES ASSUME NEW c \in Word, NEW b \in Byte
             PROVE  /\ ByteTurn(c, b) = Shifted(SymDiff(c, b))[ByteBits]
                    /\ ByteTurn(c, b) \in Word
  OBVIOUS
<1> USE Widths
<1>1. b \in Word /\ Low(b) = b /\ Down(b, ByteBits) = {}
  BY BytesAreWords
<1>2. SymDiff(c, b) \in Word
  BY <1>1, XorTyped
<1>3. Low(SymDiff(c, b)) = SymDiff(Low(c), b)
  BY <1>1, LowXor
<1>4. Down(SymDiff(c, b), ByteBits) = Down(c, ByteBits)
  <2>1. Down(SymDiff(c, b), ByteBits) = SymDiff(Down(c, ByteBits), Down(b, ByteBits))
    BY DownXor
  <2>2. SymDiff(Down(c, ByteBits), {}) = Down(c, ByteBits)
    BY XorLaws
  <2>3. QED
    BY <2>1, <2>2, <1>1
<1>5. SymDiff(Low(c), b) \in Byte
  BY <1>3, LowTyped
<1>6. Table[0][SymDiff(Low(c), b)] = Shifted(SymDiff(Low(c), b))[ByteBits]
  <2>1. 0 \in 0..(WordBytes - 1) /\ 0 + 1 = 1
    OBVIOUS
  <2>2. Table[0][SymDiff(Low(c), b)] = Entry(0, SymDiff(Low(c), b))
    BY <2>1, <1>5, TableIs
  <2>3. QED
    BY <2>1, <2>2, PlacesAre DEF Entry
<1>7. Shifted(SymDiff(c, b))[ByteBits]
        = SymDiff(Shifted(SymDiff(Low(c), b))[ByteBits], Down(c, ByteBits))
  BY <1>2, <1>3, <1>4, ShiftedByByte
<1>8. ByteTurn(c, b) = Shifted(SymDiff(c, b))[ByteBits]
  BY <1>6, <1>7 DEF ByteTurn
<1>9. QED
  BY <1>2, <1>8, ShiftedTyped

\* The k low bytes of a word, and byte k in its place.
Lows(w, k) == {i \in w : i < Place(k)}
Part(w, k) == Up(ByteOf(w, k), Place(k))

LEMMA LowsEnds == \A w \in Word : Lows(w, 0) = {} /\ Lows(w, WordBytes) = w
<1>1. Place(0) = 0 /\ Place(WordBytes) = WordBits /\ WordBits \in Nat
  BY PlacesAre, Widths
<1>2. \A w \in Word : \A i \in w : i \in Int /\ 0 <= i /\ i < WordBits
  BY <1>1 DEF Word, Bits
<1>3. QED
  BY <1>1, <1>2 DEF Lows

LEMMA LowsTyped == \A w \in Word : \A k : Lows(w, k) \in Word
BY DEF Lows, Word

LEMMA InDown == \A c, i, n : i \in Down(c, n) <=> i \in Bits /\ i + n \in c
BY DEF Down

LEMMA ByteOfIs ==
  ASSUME NEW w \in Word, NEW k \in 0..(WordBytes - 1), NEW i \in Int
  PROVE  i \in ByteOf(w, k) <=> 0 <= i /\ i < ByteBits /\ i + Place(k) \in w
<1> USE Widths
<1>1. 0..(ByteBits - 1) \subseteq Bits
  BY DEF Bits
<1>2. i \in 0..(ByteBits - 1) <=> 0 <= i /\ i < ByteBits
  OBVIOUS
<1>3. i \in ByteOf(w, k) <=> i \in Down(w, Place(k)) /\ i \in 0..(ByteBits - 1)
  BY DEF ByteOf, Low, Place
<1>4. QED
  BY <1>1, <1>2, <1>3, InDown

\* A byte that is put in its place comes back by as many shifts.
LEMMA UpIsWord ==
  ASSUME NEW b \in Byte, NEW k \in 0..(WordBytes - 1)
  PROVE  /\ Up(b, Place(k)) \in Word
         /\ Shifted(Up(b, Place(k)))[Place(k)] = b
<1> DEFINE p == Up(b, Place(k))
<1> USE Widths
<1>1. /\ Place(k) \in Nat /\ Place(k) \in 0..WordBits
      /\ Place(k) + ByteBits <= WordBits
  <2>1. k \in Nat /\ k < WordBytes /\ k \in 0..WordBytes
    OBVIOUS
  <2>2. QED
    BY <2>1, PlacesAre, PlacesFit, PlacesGrow
<1> DEFINE n == Place(k)
<1> HIDE DEF n
<1>2. n \in 0..WordBits /\ n + ByteBits <= WordBits /\ p = {i + n : i \in b}
  BY <1>1 DEF n, Up
<1>3. \A i \in b : i \in Int /\ 0 <= i /\ i < ByteBits
  BY DEF Byte
<1>4. \A j \in p : j \in Bits /\ j >= n
  BY <1>2, <1>3 DEF Bits
<1>5. p \in Word
  BY <1>4 DEF Word
<1>6. Down(p, n) = b
  <2>1. \A i \in Int : i + n \in p <=> i \in b
    <3> SUFFICES ASSUME NEW i \in Int PROVE i + n \in p <=> i \in b
      OBVIOUS
    <3>1. \A j \in Int : i + n = j + n <=> i = j
      BY <1>2
    <3>2. i + n \in {j + n : j \in b} <=> \E j \in b : i + n = j + n
      OBVIOUS
    <3> HIDE DEF p
    <3>3. i + n \in p <=> \E j \in b : i + n = j + n
      BY <3>2, <1>2
    <3>4. QED
      BY <3>1, <3>3, <1>3
  <2>2. b \subseteq Bits /\ Bits \subseteq Int
    BY <1>3 DEF Bits
  <2> HIDE DEF p
  <2>3. QED
    BY <2>1, <2>2 DEF Down
<1> HIDE DEF p
<1>7. Shifted(p)[n] = Down(p, n)
  BY <1>2, <1>4, <1>5, ShiftedDown
<1>8. QED
  BY <1>5, <1>6, <1>7 DEF p, n

LEMMA LowsStep ==
  ASSUME NEW w \in Word, NEW k \in 0..(WordBytes - 1)
  PROVE  Lows(w, k + 1) = SymDiff(Lows(w, k), Part(w, k))
<1> USE Widths
<1> DEFINE n == Place(k)
<1>1. n \in Nat /\ Place(k + 1) = n + ByteBits
  BY PlacesAre
<1>2. \A i \in Int : i \in Part(w, k) <=> n <= i /\ i < n + ByteBits /\ i \in w
  <2> SUFFICES ASSUME NEW i \in Int
               PROVE  i \in Part(w, k) <=> n <= i /\ i < n + ByteBits /\ i \in w
    OBVIOUS
  <2>1. ByteOf(w, k) \subseteq Int
    BY DEF ByteOf, Low
  <2>2. i \in Part(w, k) <=> \E j \in ByteOf(w, k) : i = j + n
    BY DEF Part, Up
  <2>3. i - n \in Int /\ (i - n) + n = i
    BY <1>1
  <2>4. i \in Part(w, k) <=> i - n \in ByteOf(w, k)
    <3> HIDE DEF n
    <3>1. \A j \in Int : i = j + n => j = i - n
      BY <1>1
    <3>2. QED
      BY <2>1, <2>2, <2>3, <3>1
  <2>5. i - n \in ByteOf(w, k) <=> 0 <= i - n /\ i - n < ByteBits /\ (i - n) + n \in w
    <3> DEFINE d == i - n
    <3>1. d \in Int
      BY <2>3
    <3> HIDE DEF d
    <3>2. d \in ByteOf(w, k) <=> 0 <= d /\ d < ByteBits /\ d + n \in w
      BY <3>1, ByteOfIs
    <3>3. QED
      BY <3>2 DEF d
  <2> HIDE DEF n
  <2>6. (0 <= i - n <=> n <= i) /\ (i - n < ByteBits <=> i < n + ByteBits)
    BY <1>1
  <2>7. QED
    BY <2>3, <2>4, <2>5, <2>6
<1>3. Part(w, k) \subseteq Int
  <2>1. ByteOf(w, k) \subseteq Int
    BY DEF ByteOf, Low
  <2>2. QED
    BY <2>1, <1>1 DEF Part, Up
<1>4. w \subseteq Int
  BY DEF Word, Bits
<1>5. \A i \in Int : i \in Lows(w, k + 1) <=> i \in w /\ i < n + ByteBits
  BY <1>1 DEF Lows
<1>6. \A i \in Int : i \in Lows(w, k) <=> i \in w /\ i < n
  BY DEF Lows
<1>7. Lows(w, k + 1) \subseteq Int /\ Lows(w, k) \subseteq Int
  BY <1>4 DEF Lows
<1> HIDE DEF n
<1>8. \A i \in Int : i < n + ByteBits <=> i < n \/ (n <= i /\ i < n + ByteBits)
  BY <1>1
<1>9. \A i \in Int : i < n => ~(n <= i)
  BY <1>1
<1>10. \A i \in Int : i \in Lows(w, k + 1) <=> i \in SymDiff(Lows(w, k), Part(w, k))
  BY <1>2, <1>5, <1>6, <1>8, <1>9 DEF SymDiff
<1>11. SymDiff(Lows(w, k), Part(w, k)) \subseteq Int
  BY <1>3, <1>7 DEF SymDiff
<1>12. QED
  BY <1>7, <1>10, <1>11

\* The shifts that take a byte out of its place, and those of its table.
LEMMA PlacesMeet ==
  \A k \in 0..(WordBytes - 1) :
    /\ Place(k) \in Nat /\ Place(WordBytes - k) \in Nat
    /\ Place(k) + Place(WordBytes - k) = WordBits
<1> SUFFICES ASSUME NEW k \in 0..(WordBytes - 1)
             PROVE  /\ Place(k) \in Nat /\ Place(WordBytes - k) \in Nat
                    /\ Place(k) + Place(WordBytes - k) = WordBits
  OBVIOUS
<1> USE Widths
<1>1. k \in Nat /\ WordBytes - k \in Nat
  OBVIOUS
<1>2. (WordBytes - k) * ByteBits = WordBytes * ByteBits - k * ByteBits
  BY <1>1
<1>3. k * ByteBits \in Nat /\ WordBytes * ByteBits \in Nat
  BY <1>1
<1>4. QED
  BY <1>1, <1>2, <1>3, PlacesAre DEF Place, WordBits

LEMMA PartShifts ==
  ASSUME NEW w \in Word, NEW k \in 0..(WordBytes - 1)
  PROVE  Shifted(Part(w, k))[WordBits] = Table[WordBytes - (k + 1)][ByteOf(w, k)]
<1> USE Widths
<1> DEFINE b == ByteOf(w, k)
           p == Up(b, Place(k))
<1>1. b \in Byte
  BY LowTyped DEF ByteOf
<1> HIDE DEF b
<1>2. p \in Word /\ Shifted(p)[Place(k)] = b
  BY <1>1, UpIsWord
<1> HIDE DEF p
<1>3. /\ Place(k) \in Nat /\ Place(WordBytes - k) \in Nat
      /\ Place(k) + Place(WordBytes - k) = WordBits
  BY PlacesMeet
<1>4. Shifted(p)[Place(k) + Place(WordBytes - k)] = Shifted(b)[Place(WordBytes - k)]
  BY <1>2, <1>3, ShiftedAdds
<1>5. /\ WordBytes - (k + 1) \in 0..(WordBytes - 1)
      /\ (WordBytes - (k + 1)) + 1 = WordBytes - k
  OBVIOUS
<1>6. Table[WordBytes - (k + 1)][b] = Shifted(b)[Place(WordBytes - k)]
  BY <1>1, <1>5, TableIs DEF Entry
<1>7. QED
  BY <1>3, <1>4, <1>6 DEF Part, p, b

\* A turn of the loop over words is a word of shifts.
LEMMA WordTurnIs ==
  ASSUME NEW c \in Word, NEW word \in Word
  PROVE  /\ WordTurn(c, word) = Shifted(SymDiff(c, word))[WordBits]
         /\ WordTurn(c, word) \in Word
<1> USE Widths
<1> DEFINE w == SymDiff(word, c)
           Looked(n) == Table[WordBytes - n][ByteOf(w, n - 1)]
           Is(g) == g = [n \in 0..WordBytes |-> IF n = 0 THEN {} ELSE SymDiff(g[n - 1], Looked(n))]
           t == [n \in 0..WordBytes |-> Shifted(Lows(w, n))[WordBits]]
<1>1. w \in Word /\ w = SymDiff(c, word)
  BY XorTyped, XorLaws
<1>2. WordTurn(c, word) = (CHOOSE g : Is(g))[WordBytes]
  BY DEF WordTurn
<1> HIDE DEF w
<1>3. ASSUME NEW n \in 1..WordBytes
      PROVE  Shifted(Lows(w, n))[WordBits] = SymDiff(Shifted(Lows(w, n - 1))[WordBits], Looked(n))
  <2>1. n - 1 \in 0..(WordBytes - 1) /\ (n - 1) + 1 = n
    OBVIOUS
  <2>2. Lows(w, n) = SymDiff(Lows(w, n - 1), Part(w, n - 1))
    BY <1>1, <2>1, LowsStep
  <2>3. Lows(w, n - 1) \in Word
    BY <1>1, LowsTyped
  <2>4. Part(w, n - 1) \in Word
    <3>1. ByteOf(w, n - 1) \in Byte
      BY LowTyped DEF ByteOf
    <3>2. QED
      BY <3>1, <2>1, UpIsWord DEF Part
  <2>5. Shifted(Part(w, n - 1))[WordBits] = Looked(n)
    BY <1>1, <2>1, PartShifts
  <2>6. WordBits \in 0..WordBits
    OBVIOUS
  <2> HIDE DEF Looked
  <2>7. QED
    BY <2>2, <2>3, <2>4, <2>5, <2>6, ShiftedLinear
<1>4. Shifted(Lows(w, 0))[WordBits] = {}
  <2>1. {} \in Word /\ Lows(w, 0) = {}
    BY <1>1, LowsEnds DEF Word
  <2>2. Shifted({})[WordBits] = Down({}, WordBits)
    BY <2>1, ShiftedDown
  <2>3. QED
    BY <2>1, <2>2 DEF Down
<1>5. Is(t)
  <2> HIDE DEF Looked
  <2>1. \A n \in 0..WordBytes : t[n] = IF n = 0 THEN {} ELSE SymDiff(t[n - 1], Looked(n))
    <3> SUFFICES ASSUME NEW n \in 0..WordBytes
                 PROVE  t[n] = IF n = 0 THEN {} ELSE SymDiff(t[n - 1], Looked(n))
      OBVIOUS
    <3>1. CASE n = 0
      BY <3>1, <1>4
    <3>2. CASE n # 0
      <4>1. n \in 1..WordBytes /\ n - 1 \in 0..WordBytes
        BY <3>2
      <4>2. t[n] = Shifted(Lows(w, n))[WordBits] /\ t[n - 1] = Shifted(Lows(w, n - 1))[WordBits]
        BY <4>1
      <4> HIDE DEF t
      <4>3. QED
        BY <3>2, <4>1, <4>2, <1>3
    <3>3. QED
      BY <3>1, <3>2
  <2>2. t = [n \in 0..WordBytes |-> t[n]]
    OBVIOUS
  <2> HIDE DEF t
  <2>3. QED
    BY <2>1, <2>2
<1> DEFINE x == CHOOSE g : Is(g)
<1>6. Is(x)
  <2> HIDE DEF Is, t
  <2>1. QED
    BY <1>5
<1>7. x[0] = {} /\ \A n \in 1..WordBytes : x[n] = SymDiff(x[n - 1], Looked(n))
  <2>1. x = [n \in 0..WordBytes |-> IF n = 0 THEN {} ELSE SymDiff(x[n - 1], Looked(n))]
    BY <1>6
  <2>2. \A n \in 1..WordBytes : n \in 0..WordBytes /\ n # 0
    OBVIOUS
  <2> HIDE DEF x, Looked
  <2>3. \A n \in 0..WordBytes : x[n] = IF n = 0 THEN {} ELSE SymDiff(x[n - 1], Looked(n))
    BY ONLY <2>1
  <2>4. QED
    BY <2>2, <2>3
<1> DEFINE S == {n \in Nat : n <= WordBytes => x[n] = Shifted(Lows(w, n))[WordBits]}
<1> HIDE DEF x, Looked, Is, t
<1>8. 0 \in S
  BY <1>4, <1>7
<1>9. ASSUME NEW n \in Nat, n \in S PROVE n + 1 \in S
  <2> SUFFICES ASSUME n + 1 <= WordBytes PROVE x[n + 1] = Shifted(Lows(w, n + 1))[WordBits]
    OBVIOUS
  <2>1. n + 1 \in 1..WordBytes /\ (n + 1) - 1 = n
    OBVIOUS
  <2>2. x[n] = Shifted(Lows(w, n))[WordBits]
    BY <1>9
  <2>3. x[n + 1] = SymDiff(x[n], Looked(n + 1))
    BY <1>7, <2>1
  <2>4. QED
    BY <2>1, <2>2, <2>3, <1>3
<1> HIDE DEF S
<1>10. WordBytes \in S
  BY <1>8, <1>9, NaturalsIn
<1>11. x[WordBytes] = Shifted(w)[WordBits]
  BY <1>1, <1>10, LowsEnds DEF S
<1>12. WordBits \in 0..WordBits
  OBVIOUS
<1>13. QED
  BY <1>1, <1>2, <1>11, <1>12, ShiftedTyped DEF x

(***************************************************************************)
(* Words of a sequence of bytes                                            *)
(***************************************************************************)

LEMMA WordAtIs ==
  ASSUME NEW s \in Seq(Byte), NEW i \in Nat, i + WordBytes <= Len(s)
  PROVE  /\ WordAt(s, i) \in Word
         /\ \A k \in 0..(WordBytes - 1) : ByteOf(WordAt(s, i), k) = s[i + (k + 1)]
<1> USE Widths
<1> DEFINE wa == WordAt(s, i)
<1>1. ASSUME NEW j \in 1..WordBytes
      PROVE  /\ s[i + j] \in Byte
             /\ j - 1 \in 0..(WordBytes - 1)
             /\ Up(s[i + j], (j - 1) * ByteBits) = Up(s[i + j], Place(j - 1))
             /\ Up(s[i + j], Place(j - 1)) \in Word
  <2>1. i + j \in 1..Len(s) /\ j - 1 \in 0..(WordBytes - 1)
    OBVIOUS
  <2>2. s[i + j] \in Byte
    BY <2>1
  <2>3. QED
    BY <2>1, <2>2, UpIsWord DEF Place
<1>2. \A x : x \in wa <=> \E j \in 1..WordBytes : x \in Up(s[i + j], Place(j - 1))
  BY <1>1 DEF WordAt
<1>3. wa \in Word
  <2> HIDE DEF wa
  <2>1. \A x \in wa : x \in Bits
    BY <1>1, <1>2 DEF Word
  <2>2. QED
    BY <2>1 DEF Word
<1> HIDE DEF wa
<1>4. ASSUME NEW k \in 0..(WordBytes - 1) PROVE ByteOf(wa, k) = s[i + (k + 1)]
  <2>1. k + 1 \in 1..WordBytes /\ (k + 1) - 1 = k /\ k \in Nat
    OBVIOUS
  <2>2. s[i + (k + 1)] \in Byte
    BY <1>1, <2>1
  <2>3. Place(k) \in Nat
    BY <2>1, PlacesAre
  <2>4. ByteOf(wa, k) \subseteq Int /\ s[i + (k + 1)] \subseteq Int
    BY <2>2 DEF ByteOf, Low, Byte
  <2>5. ASSUME NEW d \in Int PROVE d \in ByteOf(wa, k) <=> d \in s[i + (k + 1)]
    <3>1. d \in ByteOf(wa, k) <=> 0 <= d /\ d < ByteBits /\ d + Place(k) \in wa
      BY <1>3, ByteOfIs
    <3>2. ASSUME d \in s[i + (k + 1)] PROVE d \in ByteOf(wa, k)
      <4>1. 0 <= d /\ d < ByteBits
        BY <3>2, <2>2 DEF Byte
      <4>2. d + Place(k) \in Up(s[i + (k + 1)], Place(k))
        BY <3>2 DEF Up
      <4>3. d + Place(k) \in wa
        BY <4>2, <1>2, <2>1
      <4>4. QED
        BY <3>1, <4>1, <4>3
    <3>3. ASSUME d \in ByteOf(wa, k) PROVE d \in s[i + (k + 1)]
      <4>1. 0 <= d /\ d < ByteBits /\ d + Place(k) \in wa
        BY <3>1, <3>3
      <4>2. PICK j \in 1..WordBytes : d + Place(k) \in Up(s[i + j], Place(j - 1))
        BY <4>1, <1>2
      <4>3. s[i + j] \in Byte /\ j - 1 \in Nat
        BY <1>1
      <4>4. PICK e \in s[i + j] : d + Place(k) = e + Place(j - 1)
        BY <4>2 DEF Up
      <4>5. e \in Int /\ 0 <= e /\ e < ByteBits
        BY <4>3 DEF Byte
      <4>6. Place(j - 1) \in Nat
        BY <4>3, PlacesAre
      <4> DEFINE p == Place(k)
                 q == Place(j - 1)
      <4>7. k < j - 1 => p + ByteBits <= q
        BY <2>1, <4>3, PlacesGrow
      <4>8. j - 1 < k => q + ByteBits <= p
        BY <2>1, <4>3, PlacesGrow
      <4>9. p \in Nat /\ q \in Nat /\ d + p = e + q
        BY <2>3, <4>4, <4>6
      <4> HIDE DEF p, q
      <4>10. ~(k < j - 1) /\ ~(j - 1 < k)
        BY <4>1, <4>5, <4>7, <4>8, <4>9
      <4>11. j = k + 1 /\ j - 1 = k
        BY <4>10
      <4>12. d = e
        <5>1. p = q
          BY <4>11 DEF p, q
        <5>2. QED
          BY <5>1, <4>5, <4>9
      <4>13. QED
        BY <4>11, <4>12
    <3>4. QED
      BY <3>2, <3>3
  <2>6. QED
    BY <2>4, <2>5
<1>5. QED
  BY <1>3, <1>4 DEF wa

(***************************************************************************)
(* Division                                                                *)
(***************************************************************************)

LEMMA DivisionIs ==
  ASSUME NEW init \in Word, NEW s \in Seq(Byte)
  PROVE  /\ Division(init, s)[0] = init
         /\ \A n \in 1..Len(s) :
              Division(init, s)[n] = Shifted(SymDiff(Division(init, s)[n - 1], s[n]))[ByteBits]
         /\ \A n \in 0..Len(s) : Division(init, s)[n] \in Word
<1> USE Widths
<1> DEFINE m == Len(s)
           F == [i \in 1..m |-> [w \in Word |-> Shifted(SymDiff(w, s[i]))[ByteBits]]]
           Is(g) == g = [n \in 0..m |->
                           IF n = 0 THEN init ELSE Shifted(SymDiff(g[n - 1], s[n]))[ByteBits]]
<1>1. m \in Nat /\ \A i \in 1..m : s[i] \in Byte
  OBVIOUS
<1> HIDE DEF m
<1>2. \A i \in 1..m : \A w \in Word : Shifted(SymDiff(w, s[i]))[ByteBits] \in Word
  <2> SUFFICES ASSUME NEW i \in 1..m, NEW w \in Word
               PROVE  Shifted(SymDiff(w, s[i]))[ByteBits] \in Word
    OBVIOUS
  <2>1. SymDiff(w, s[i]) \in Word /\ ByteBits \in 0..WordBits
    BY <1>1, BytesAreWords, XorTyped
  <2>2. QED
    BY <2>1, ShiftedTyped
<1>3. F \in [1..m -> [Word -> Word]]
  BY <1>2
<1>4. PICK g : Turns(Word, init, F, m, g)
  <2> HIDE DEF F
  <2>1. QED
    BY <1>1, <1>3, TurnsExist
<1>5. \A i \in 1..m : g[i] = Shifted(SymDiff(g[i - 1], s[i]))[ByteBits]
  <2> SUFFICES ASSUME NEW i \in 1..m PROVE g[i] = Shifted(SymDiff(g[i - 1], s[i]))[ByteBits]
    OBVIOUS
  <2>1. i - 1 \in 0..m
    BY <1>1
  <2>2. g[i - 1] \in Word
    BY <1>4, <2>1 DEF Turns
  <2>3. g[i] = F[i][g[i - 1]]
    BY <1>4 DEF Turns
  <2>4. QED
    BY <2>2, <2>3
<1>6. Is(g)
  BY <1>1, <1>4, <1>5 DEF Turns
<1>7. Division(init, s) = CHOOSE h : Is(h)
  BY DEF Division, m
<1> DEFINE h == Division(init, s)
<1>8. Is(h)
  <2> HIDE DEF Is
  <2>1. QED
    BY <1>6, <1>7
<1> HIDE DEF h
<1>9. h[0] = init /\ \A n \in 1..m : h[n] = Shifted(SymDiff(h[n - 1], s[n]))[ByteBits]
  BY <1>8, <1>1
<1> HIDE DEF Is, F
<1>10. \A n \in 0..m : h[n] \in Word
  <2> DEFINE S == {n \in Nat : n <= m => h[n] \in Word}
  <2>1. 0 \in S
    BY <1>9
  <2>2. ASSUME NEW n \in Nat, n \in S PROVE n + 1 \in S
    <3> SUFFICES ASSUME n + 1 <= m PROVE h[n + 1] \in Word
      OBVIOUS
    <3>1. n + 1 \in 1..m /\ (n + 1) - 1 = n /\ h[n] \in Word
      BY <2>2, <1>1
    <3>2. h[n + 1] = Shifted(SymDiff(h[n], s[n + 1]))[ByteBits]
      BY <1>9, <3>1
    <3>3. QED
      BY <1>2, <3>1, <3>2
  <2> HIDE DEF S
  <2>3. \A n \in Nat : n \in S
    BY <2>1, <2>2, NaturalsIn
  <2>4. QED
    BY <2>3, <1>1 DEF S
<1>11. QED
  BY <1>9, <1>10 DEF h, m

\* A word of division from the remainder after i bytes.
LEMMA WordDivision ==
  ASSUME NEW init \in Word, NEW s \in Seq(Byte), NEW i \in Nat, i + WordBytes <= Len(s)
  PROVE  Division(init, s)[i + WordBytes]
           = Shifted(SymDiff(Division(init, s)[i], WordAt(s, i)))[WordBits]
<1> USE Widths
<1> DEFINE rest == Division(init, s)
           c == rest[i]
           w == WordAt(s, i)
           S == {k \in Nat : k <= WordBytes =>
                   rest[i + k] = Shifted(SymDiff(c, Lows(w, k)))[Place(k)]}
<1>1. c \in Word /\ w \in Word
  BY DivisionIs, WordAtIs
<1>2. 0 \in S
  <2> HIDE DEF rest, c, w
  <2>1. Lows(w, 0) = {} /\ Place(0) = 0
    BY <1>1, LowsEnds, PlacesAre
  <2>2. SymDiff(c, {}) = c
    BY XorLaws
  <2>3. Shifted(c)[0] = c
    BY <1>1, ShiftedStarts
  <2>4. rest[i + 0] = c
    BY DEF c
  <2>5. QED
    BY <2>1, <2>2, <2>3, <2>4
<1>3. ASSUME NEW k \in Nat, k \in S PROVE k + 1 \in S
  <2> SUFFICES ASSUME k + 1 <= WordBytes
               PROVE  rest[i + (k + 1)] = Shifted(SymDiff(c, Lows(w, k + 1)))[Place(k + 1)]
    OBVIOUS
  <2>1. /\ k \in 0..(WordBytes - 1) /\ k + 1 \in 0..WordBytes
        /\ i + (k + 1) \in 1..Len(s) /\ (i + (k + 1)) - 1 = i + k
    OBVIOUS
  <2> DEFINE b == s[i + (k + 1)]
             p == Part(w, k)
             d == SymDiff(c, Lows(w, k))
             n == Place(k)
  <2>2. b \in Byte /\ ByteOf(w, k) = b
    BY <2>1, WordAtIs
  <2>3. rest[i + k] = Shifted(d)[n]
    BY <1>3
  <2>4. rest[i + (k + 1)] = Shifted(SymDiff(rest[i + k], b))[ByteBits]
    BY <2>1, DivisionIs
  <2>5. p \in Word /\ Shifted(p)[n] = b
    BY <2>1, <2>2, UpIsWord DEF Part
  <2>6. d \in Word
    BY <1>1, LowsTyped, XorTyped
  <2>7. n \in 0..WordBits /\ n \in Nat /\ Place(k + 1) = n + ByteBits /\ n + ByteBits <= WordBits
    <3>1. k \in 0..WordBytes
      OBVIOUS
    <3>2. Place(k) \in 0..WordBits /\ Place(k + 1) \in 0..WordBits
      BY <2>1, <3>1, PlacesFit
    <3>3. Place(k) \in Nat /\ Place(k + 1) = Place(k) + ByteBits
      BY PlacesAre
    <3>4. QED
      BY <3>2, <3>3
  <2>8. SymDiff(c, Lows(w, k + 1)) = SymDiff(d, p)
    <3>1. Lows(w, k + 1) = SymDiff(Lows(w, k), p)
      BY <1>1, <2>1, LowsStep
    <3>2. QED
      BY <3>1, XorLaws
  <2> HIDE DEF b, p, d, n, rest, c, w
  <2>9. Shifted(SymDiff(d, p))[n] = SymDiff(Shifted(d)[n], b)
    BY <2>5, <2>6, <2>7, ShiftedLinear
  <2>10. SymDiff(d, p) \in Word
    BY <2>5, <2>6, XorTyped
  <2>11. Shifted(SymDiff(d, p))[n + ByteBits] = Shifted(Shifted(SymDiff(d, p))[n])[ByteBits]
    BY <2>7, <2>10, ShiftedAdds
  <2>12. QED
    BY <2>3, <2>4, <2>7, <2>8, <2>9, <2>11
<1> HIDE DEF S
<1>4. WordBytes \in S
  BY <1>2, <1>3, NaturalsIn
<1>5. Lows(w, WordBytes) = w /\ Place(WordBytes) = WordBits
  BY <1>1, LowsEnds, PlacesAre
<1>6. QED
  BY <1>4, <1>5 DEF S

(***************************************************************************)
(* Numbers                                                                 *)
(***************************************************************************)

LEMMA Pow2Is ==
  /\ Pow2[0] = 1
  /\ \A n \in Nat : n + 1 <= WordBits => Pow2[n + 1] = 2 * Pow2[n]
  /\ \A n \in 0..WordBits : Pow2[n] \in Nat \ {0}
<1> USE Widths
<1> DEFINE F == [i \in 1..WordBits |-> [x \in Nat |-> 2 * x]]
           Is(g) == g = [n \in 0..WordBits |-> IF n = 0 THEN 1 ELSE 2 * g[n - 1]]
<1>1. F \in [1..WordBits -> [Nat -> Nat]]
  OBVIOUS
<1>2. PICK g : Turns(Nat, 1, F, WordBits, g)
  <2> HIDE DEF F
  <2>1. QED
    BY <1>1, TurnsExist
<1>3. \A i \in 1..WordBits : g[i] = 2 * g[i - 1]
  <2> SUFFICES ASSUME NEW i \in 1..WordBits PROVE g[i] = 2 * g[i - 1]
    OBVIOUS
  <2>1. i - 1 \in 0..WordBits
    OBVIOUS
  <2>2. g[i - 1] \in Nat
    BY <1>2, <2>1 DEF Turns
  <2>3. g[i] = F[i][g[i - 1]]
    BY <1>2 DEF Turns
  <2>4. QED
    BY <2>2, <2>3
<1>4. Is(g)
  BY <1>2, <1>3 DEF Turns
<1>5. Pow2 = CHOOSE h : Is(h)
  BY DEF Pow2
<1> DEFINE h == Pow2
<1>6. Is(h)
  <2> HIDE DEF Is
  <2>1. QED
    BY <1>4, <1>5
<1> HIDE DEF h, F
<1>7. h[0] = 1 /\ \A n \in 1..WordBits : h[n] = 2 * h[n - 1]
  BY <1>6
<1> HIDE DEF Is
<1>8. \A n \in Nat : n + 1 <= WordBits => h[n + 1] = 2 * h[n]
  <2> SUFFICES ASSUME NEW n \in Nat, n + 1 <= WordBits PROVE h[n + 1] = 2 * h[n]
    OBVIOUS
  <2>1. n + 1 \in 1..WordBits /\ (n + 1) - 1 = n
    OBVIOUS
  <2>2. QED
    BY <1>7, <2>1
<1>9. \A n \in 0..WordBits : h[n] \in Nat \ {0}
  <2> DEFINE S == {n \in Nat : n <= WordBits => h[n] \in Nat \ {0}}
  <2>1. 0 \in S
    BY <1>7
  <2>2. ASSUME NEW n \in Nat, n \in S PROVE n + 1 \in S
    BY <1>8, <2>2
  <2> HIDE DEF S
  <2>3. \A n \in Nat : n \in S
    BY <2>1, <2>2, NaturalsIn
  <2>4. QED
    BY <2>3 DEF S
<1>10. QED
  BY <1>7, <1>8, <1>9 DEF h

LEMMA Pow2Grows == \A i \in Bits : Pow2[i] \in Nat \ {0} /\ Pow2[i] < Modulus
<1> SUFFICES ASSUME NEW i \in Bits PROVE Pow2[i] \in Nat \ {0} /\ Pow2[i] < Modulus
  OBVIOUS
<1> USE Widths
<1>1. i \in Nat /\ i + 1 <= WordBits /\ i \in 0..WordBits
  BY DEF Bits
<1>2. Pow2[i] \in Nat \ {0}
  BY <1>1, Pow2Is
<1> DEFINE S == {k \in Nat : i + (k + 1) <= WordBits => Pow2[i] < Pow2[i + (k + 1)]}
<1>3. 0 \in S
  <2>1. Pow2[i + 1] = 2 * Pow2[i] /\ 0 + 1 = 1
    BY <1>1, Pow2Is
  <2>2. QED
    BY <1>2, <2>1
<1>4. ASSUME NEW k \in Nat, k \in S PROVE k + 1 \in S
  <2> SUFFICES ASSUME i + ((k + 1) + 1) <= WordBits
               PROVE  Pow2[i] < Pow2[i + ((k + 1) + 1)]
    OBVIOUS
  <2> DEFINE n == i + (k + 1)
  <2>1. n \in Nat /\ n + 1 <= WordBits /\ n \in 0..WordBits /\ i + ((k + 1) + 1) = n + 1
    BY <1>1
  <2>2. Pow2[i] < Pow2[n]
    BY <1>4, <2>1
  <2> HIDE DEF n
  <2>3. Pow2[n + 1] = 2 * Pow2[n] /\ Pow2[n] \in Nat
    BY <2>1, Pow2Is
  <2>4. QED
    BY <1>2, <2>1, <2>2, <2>3
<1>5. WordBits - i - 1 \in Nat /\ i + ((WordBits - i - 1) + 1) = WordBits
  BY <1>1
<1> HIDE DEF S
<1>6. WordBits - i - 1 \in S
  BY <1>3, <1>4, <1>5, NaturalsIn
<1>7. QED
  BY <1>2, <1>5, <1>6 DEF S, Modulus

LEMMA ModulusIs == Modulus \in Nat \ {0} /\ 0 \in Number
BY Pow2Is, Widths DEF Modulus, Number

\* The number of the n low bits of w.
Lowest(w) ==
  CHOOSE low : low = [i \in 0..WordBits |->
                        IF i = 0 THEN 0
                        ELSE low[i - 1] + (IF i - 1 \in w THEN Pow2[i - 1] ELSE 0)]

LEMMA LowestIs ==
  ASSUME NEW w \in Word
  PROVE  /\ FromBits(w) = Lowest(w)[WordBits]
         /\ Lowest(w)[0] = 0
         /\ \A n \in Nat : n + 1 <= WordBits =>
              Lowest(w)[n + 1] = Lowest(w)[n] + (IF n \in w THEN Pow2[n] ELSE 0)
<1> USE Widths
<1> DEFINE Bit(i) == IF i - 1 \in w THEN Pow2[i - 1] ELSE 0
           F == [i \in 1..WordBits |-> [x \in Nat |-> x + Bit(i)]]
           Is(g) == g = [n \in 0..WordBits |-> IF n = 0 THEN 0 ELSE g[n - 1] + Bit(n)]
<1>1. FromBits(w) = Lowest(w)[WordBits]
  BY DEF FromBits, Lowest
<1>2. \A i \in 1..WordBits : Bit(i) \in Nat
  <2>1. \A i \in 1..WordBits : i - 1 \in 0..WordBits
    OBVIOUS
  <2>2. QED
    BY <2>1, Pow2Is
<1>3. Lowest(w) = CHOOSE g : Is(g)
  BY DEF Lowest
<1> HIDE DEF Bit
<1>4. F \in [1..WordBits -> [Nat -> Nat]]
  BY <1>2
<1>5. PICK g : Turns(Nat, 0, F, WordBits, g)
  <2> HIDE DEF F
  <2>1. QED
    BY <1>4, TurnsExist
<1>6. \A i \in 1..WordBits : g[i] = g[i - 1] + Bit(i)
  <2> SUFFICES ASSUME NEW i \in 1..WordBits PROVE g[i] = g[i - 1] + Bit(i)
    OBVIOUS
  <2>1. i - 1 \in 0..WordBits
    OBVIOUS
  <2>2. g[i - 1] \in Nat
    BY <1>5, <2>1 DEF Turns
  <2>3. g[i] = F[i][g[i - 1]]
    BY <1>5 DEF Turns
  <2>4. QED
    BY <2>2, <2>3
<1>7. Is(g)
  BY <1>5, <1>6 DEF Turns
<1> DEFINE h == Lowest(w)
<1>8. Is(h)
  <2> HIDE DEF Is
  <2>1. QED
    BY <1>3, <1>7
<1> HIDE DEF h, F
<1>9. h[0] = 0 /\ \A n \in 1..WordBits : h[n] = h[n - 1] + Bit(n)
  BY <1>8
<1> HIDE DEF Is
<1>10. ASSUME NEW n \in Nat, n + 1 <= WordBits
       PROVE  h[n + 1] = h[n] + (IF n \in w THEN Pow2[n] ELSE 0)
  <2>1. n + 1 \in 1..WordBits /\ (n + 1) - 1 = n
    BY <1>10
  <2>2. h[n + 1] = h[n] + Bit(n + 1)
    BY <1>9, <2>1
  <2>3. QED
    BY <2>1, <2>2 DEF Bit
<1>11. QED
  BY <1>1, <1>9, <1>10 DEF h

LEMMA FromBitsTyped == \A w \in Word : FromBits(w) \in Number
<1> SUFFICES ASSUME NEW w \in Word PROVE FromBits(w) \in Number
  OBVIOUS
<1> USE Widths
<1> DEFINE h == Lowest(w)
           S == {n \in Nat : n <= WordBits => h[n] \in Nat /\ h[n] < Pow2[n]}
<1>1. 0 \in S
  BY LowestIs, Pow2Is
<1>2. ASSUME NEW n \in Nat, n \in S PROVE n + 1 \in S
  <2> SUFFICES ASSUME n + 1 <= WordBits PROVE h[n + 1] \in Nat /\ h[n + 1] < Pow2[n + 1]
    OBVIOUS
  <2>1. h[n + 1] = h[n] + (IF n \in w THEN Pow2[n] ELSE 0)
    BY LowestIs
  <2>2. Pow2[n + 1] = 2 * Pow2[n] /\ Pow2[n] \in Nat \ {0}
    BY Pow2Is
  <2>3. h[n] \in Nat /\ h[n] < Pow2[n]
    BY <1>2
  <2> HIDE DEF h
  <2>4. QED
    BY <2>1, <2>2, <2>3
<1> HIDE DEF S
<1>3. WordBits \in S
  BY <1>1, <1>2, NaturalsIn
<1>4. h[WordBits] \in Nat /\ h[WordBits] < Pow2[WordBits] /\ Pow2[WordBits] \in Nat
  BY <1>3, Pow2Is DEF S
<1>5. FromBits(w) = h[WordBits]
  BY LowestIs
<1> HIDE DEF h
<1>6. QED
  BY <1>4, <1>5 DEF Number, Modulus

\* A number halved again and again.
Halves(n) ==
  CHOOSE half : half = [i \in 0..WordBits |-> IF i = 0 THEN n ELSE half[i - 1] \div 2]

LEMMA HalvesIs ==
  ASSUME NEW n \in Nat
  PROVE  /\ ToBits(n) = {i \in Bits : Halves(n)[i] % 2 = 1}
         /\ Halves(n)[0] = n
         /\ \A i \in 0..WordBits : Halves(n)[i] \in Nat
         /\ \A i \in Nat : i + 1 <= WordBits => Halves(n)[i + 1] = Halves(n)[i] \div 2
<1> USE Widths
<1> DEFINE F == [i \in 1..WordBits |-> [x \in Nat |-> x \div 2]]
           Is(g) == g = [i \in 0..WordBits |-> IF i = 0 THEN n ELSE g[i - 1] \div 2]
<1>1. ToBits(n) = {i \in Bits : Halves(n)[i] % 2 = 1}
  BY DEF ToBits, Halves
<1>2. F \in [1..WordBits -> [Nat -> Nat]]
  OBVIOUS
<1>3. PICK g : Turns(Nat, n, F, WordBits, g)
  <2> HIDE DEF F
  <2>1. QED
    BY <1>2, TurnsExist
<1>4. \A i \in 1..WordBits : g[i] = g[i - 1] \div 2
  <2> SUFFICES ASSUME NEW i \in 1..WordBits PROVE g[i] = g[i - 1] \div 2
    OBVIOUS
  <2>1. i - 1 \in 0..WordBits
    OBVIOUS
  <2>2. g[i - 1] \in Nat
    BY <1>3, <2>1 DEF Turns
  <2>3. g[i] = F[i][g[i - 1]]
    BY <1>3 DEF Turns
  <2>4. QED
    BY <2>2, <2>3
<1>5. Is(g)
  BY <1>3, <1>4 DEF Turns
<1>6. Halves(n) = CHOOSE h : Is(h)
  BY DEF Halves
<1> DEFINE h == Halves(n)
<1>7. Is(h)
  <2> HIDE DEF Is
  <2>1. QED
    BY <1>5, <1>6
<1> HIDE DEF h, F
<1>8. h[0] = n /\ \A i \in 1..WordBits : h[i] = h[i - 1] \div 2
  BY <1>7
<1> HIDE DEF Is
<1>9. ASSUME NEW i \in Nat, i + 1 <= WordBits PROVE h[i + 1] = h[i] \div 2
  <2>1. i + 1 \in 1..WordBits /\ (i + 1) - 1 = i
    BY <1>9
  <2>2. QED
    BY <1>8, <2>1
<1>10. \A i \in 0..WordBits : h[i] \in Nat
  <2> DEFINE S == {i \in Nat : i <= WordBits => h[i] \in Nat}
  <2>1. 0 \in S
    BY <1>8
  <2>2. ASSUME NEW i \in Nat, i \in S PROVE i + 1 \in S
    <3> SUFFICES ASSUME i + 1 <= WordBits PROVE h[i + 1] \in Nat
      OBVIOUS
    <3>1. h[i] \in Nat /\ h[i + 1] = h[i] \div 2
      BY <1>9, <2>2
    <3>2. QED
      BY <3>1
  <2> HIDE DEF S
  <2>3. \A i \in Nat : i \in S
    BY <2>1, <2>2, NaturalsIn
  <2>4. QED
    BY <2>3 DEF S
<1>11. QED
  BY <1>1, <1>8, <1>9, <1>10 DEF h

LEMMA ToBitsTyped == \A n : ToBits(n) \in Word
BY DEF ToBits, Word

\* What le64toh makes of htole64 is the number.
LEMMA FromToBits == \A n \in Number : FromBits(ToBits(n)) = n
<1> SUFFICES ASSUME NEW n \in Number PROVE FromBits(ToBits(n)) = n
  OBVIOUS
<1> USE Widths
<1>1. n \in Nat /\ n < Modulus /\ ToBits(n) \in Word
  BY ModulusIs, ToBitsTyped DEF Number
<1> DEFINE w == ToBits(n)
           l == Lowest(w)
           h == Halves(n)
           S == {i \in Nat : i <= WordBits => l[i] \in Nat /\ l[i] + Pow2[i] * h[i] = n}
<1>2. \A i \in Bits : i \in w <=> h[i] % 2 = 1
  BY <1>1, HalvesIs
<1>3. 0 \in S
  <2>1. l[0] = 0 /\ h[0] = n /\ Pow2[0] = 1
    BY <1>1, LowestIs, HalvesIs, Pow2Is
  <2> HIDE DEF l, h
  <2>2. QED
    BY <1>1, <2>1
<1>4. ASSUME NEW i \in Nat, i \in S PROVE i + 1 \in S
  <2> SUFFICES ASSUME i + 1 <= WordBits
               PROVE  l[i + 1] \in Nat /\ l[i + 1] + Pow2[i + 1] * h[i + 1] = n
    OBVIOUS
  <2>1. i \in Bits /\ i \in 0..WordBits
    BY DEF Bits
  <2>2. l[i] \in Nat /\ l[i] + Pow2[i] * h[i] = n
    BY <1>4
  <2>3. l[i + 1] = l[i] + (IF i \in w THEN Pow2[i] ELSE 0)
    BY <1>1, LowestIs
  <2>4. h[i] \in Nat /\ h[i + 1] = h[i] \div 2
    BY <1>1, <2>1, HalvesIs
  <2>5. Pow2[i + 1] = 2 * Pow2[i] /\ Pow2[i] \in Nat
    BY <2>1, Pow2Is
  <2>6. i \in w <=> h[i] % 2 = 1
    BY <1>2, <2>1
  <2> DEFINE p == Pow2[i]
             x == h[i]
             y == h[i] \div 2
  <2> HIDE DEF l, h, w
  <2>7. y \in Nat /\ p \in Nat /\ (i \in w => x = 2 * y + 1) /\ (i \notin w => x = 2 * y)
    BY <2>4, <2>5, <2>6
  <2>8. l[i] + p * x = n /\ h[i + 1] = y /\ Pow2[i + 1] = 2 * p
    BY <2>2, <2>4, <2>5
  <2>9. l[i + 1] = l[i] + (IF i \in w THEN p ELSE 0)
    BY <2>3
  <2> HIDE DEF p, x, y
  <2>10. p * (2 * y + 1) = (2 * p) * y + p /\ p * (2 * y) = (2 * p) * y
    BY <2>7
  <2>11. (2 * p) * y \in Nat
    BY <2>7
  <2>12. CASE i \in w
    <3>1. l[i] + ((2 * p) * y + p) = n /\ l[i + 1] = l[i] + p
      BY <2>7, <2>8, <2>9, <2>10, <2>12
    <3>2. QED
      BY <3>1, <2>2, <2>7, <2>8, <2>11
  <2>13. CASE i \notin w
    <3>1. l[i] + (2 * p) * y = n /\ l[i + 1] = l[i]
      BY <2>2, <2>7, <2>8, <2>9, <2>10, <2>13
    <3>2. QED
      BY <3>1, <2>2, <2>8
  <2>14. QED
    BY <2>12, <2>13
<1> HIDE DEF S
<1>5. WordBits \in S
  BY <1>3, <1>4, NaturalsIn
<1>6. l[WordBits] \in Nat /\ l[WordBits] + Modulus * h[WordBits] = n
  BY <1>5 DEF S, Modulus
<1>7. h[WordBits] \in Nat /\ FromBits(w) = l[WordBits]
  BY <1>1, HalvesIs, LowestIs
<1> DEFINE x == h[WordBits]
           y == l[WordBits]
<1> HIDE DEF w, l, h
<1>8. x = 0
  <2>1. x \in Nat /\ y \in Nat /\ y + Modulus * x = n /\ n < Modulus /\ n \in Nat /\ Modulus \in Nat
    BY <1>1, <1>6, <1>7, ModulusIs
  <2> HIDE DEF x, y
  <2>2. SUFFICES ASSUME x # 0 PROVE FALSE
    OBVIOUS
  <2>3. PICK d \in Nat : x = d + 1
    <3>1. x - 1 \in Nat /\ x = (x - 1) + 1
      BY <2>1, <2>2
    <3>2. QED
      BY <3>1
  <2>4. Modulus * x = Modulus * d + Modulus /\ Modulus * d \in Nat
    BY <2>1, <2>3
  <2>5. QED
    BY <2>1, <2>4
<1>9. Modulus * 0 = 0
  BY ModulusIs
<1>10. QED
  BY <1>6, <1>7, <1>8, <1>9 DEF w, x

(***************************************************************************)
(* The checksum of a call, turn by turn                                    *)
(***************************************************************************)

CrcType ==
  /\ data \in Seq(DataBytes) /\ start \in Word /\ crc \in Word
  /\ at \in 0..part /\ part \in 0..Len(data)

CrcInv == CrcType /\ CrcIsDivision

LEMMA CrcTypeIs ==
  CrcType => /\ data \in Seq(Byte) /\ start \in Word /\ crc \in Word
             /\ at \in Nat /\ part \in Nat /\ Len(data) \in Nat
             /\ at <= part /\ part <= Len(data)
<1> SUFFICES ASSUME CrcType
             PROVE  /\ data \in Seq(Byte) /\ start \in Word /\ crc \in Word
                    /\ at \in Nat /\ part \in Nat /\ Len(data) \in Nat
                    /\ at <= part /\ part <= Len(data)
  OBVIOUS
<1>1. DataBytes \subseteq Byte
  BY CrcAssumption
<1>2. data \in Seq(Byte)
  <2>1. Len(data) \in Nat /\ data \in [1..Len(data) -> DataBytes]
    BY DEF CrcType
  <2>2. data \in [1..Len(data) -> Byte]
    BY <1>1, <2>1
  <2>3. QED
    BY <2>1, <2>2
<1>3. Len(data) \in Nat
  BY <1>2
<1>4. QED
  BY <1>2, <1>3 DEF CrcType

LEMMA CrcInit == CrcIdle => CrcInv
<1> SUFFICES ASSUME CrcIdle PROVE CrcInv
  OBVIOUS
<1>1. data = <<>> /\ start = {} /\ at = 0 /\ part = 0 /\ crc = {} /\ {} \in Word
  BY DEF CrcIdle, Word
<1>2. CrcType
  BY <1>1 DEF CrcType
<1>3. Division({}, <<>>)[0] = {}
  <2>1. <<>> \in Seq(Byte)
    OBVIOUS
  <2>2. QED
    BY <1>1, <2>1, DivisionIs
<1>4. QED
  BY <1>1, <1>2, <1>3 DEF CrcInv, CrcIsDivision

LEMMA CrcCallKeeps == CrcInv /\ CrcCall => CrcInv'
<1> SUFFICES ASSUME CrcInv, CrcCall PROVE CrcInv'
  OBVIOUS
<1>1. data = <<>> /\ at = 0 /\ at' = 0
  BY CrcTypeIs DEF CrcInv, CrcCall
<1>2. PICK n \in 1..MaxData : data' \in [1..n -> DataBytes]
  BY DEF CrcCall
<1>3. data' \in Seq(DataBytes)
  BY <1>2
<1>4. start' \in Word /\ crc' = start' /\ part' \in 0..Len(data')
  BY CrcAssumption DEF CrcCall
<1>5. Len(data') \in Nat
  BY <1>3
<1>6. CrcType'
  BY <1>1, <1>3, <1>4, <1>5 DEF CrcType
<1>7. data' \in Seq(Byte)
  <2>1. data' \in [1..n -> Byte]
    BY <1>2, CrcAssumption
  <2>2. QED
    BY <2>1
<1>8. Division(start', data')[0] = start'
  BY <1>4, <1>7, DivisionIs
<1>9. QED
  BY <1>1, <1>4, <1>6, <1>8 DEF CrcInv, CrcIsDivision

LEMMA CrcWordKeeps == CrcInv /\ CrcWord => CrcInv'
<1> SUFFICES ASSUME CrcInv, CrcWord PROVE CrcInv'
  OBVIOUS
<1> USE Widths
<1>1. /\ data \in Seq(Byte) /\ start \in Word /\ crc \in Word
      /\ at \in Nat /\ part \in Nat /\ Len(data) \in Nat /\ at <= part /\ part <= Len(data)
  BY CrcTypeIs DEF CrcInv
<1>2. /\ part - at >= WordBytes /\ at' = at + WordBytes /\ crc' = WordTurn(crc, WordAt(data, at))
      /\ data' = data /\ start' = start /\ part' = part
  BY DEF CrcWord
<1>3. at + WordBytes <= Len(data) /\ at + WordBytes <= part /\ at + WordBytes \in Nat
  BY <1>1, <1>2
<1>4. WordAt(data, at) \in Word
  BY <1>1, <1>3, WordAtIs
<1>5. /\ crc' = Shifted(SymDiff(crc, WordAt(data, at)))[WordBits]
      /\ crc' \in Word
  BY <1>1, <1>2, <1>4, WordTurnIs
<1>6. crc = Division(start, data)[at]
  BY DEF CrcInv, CrcIsDivision
<1>7. crc' = Division(start, data)[at + WordBytes]
  BY <1>1, <1>3, <1>5, <1>6, WordDivision
<1>8. CrcType'
  BY <1>1, <1>2, <1>3, <1>5 DEF CrcType, CrcInv
<1>9. QED
  BY <1>2, <1>7, <1>8 DEF CrcInv, CrcIsDivision

LEMMA CrcByteKeeps == CrcInv /\ CrcByte => CrcInv'
<1> SUFFICES ASSUME CrcInv, CrcByte PROVE CrcInv'
  OBVIOUS
<1>1. /\ data \in Seq(Byte) /\ start \in Word /\ crc \in Word
      /\ at \in Nat /\ part \in Nat /\ Len(data) \in Nat /\ at <= part /\ part <= Len(data)
  BY CrcTypeIs DEF CrcInv
<1>2. /\ at < part /\ at' = at + 1 /\ crc' = ByteTurn(crc, data[at + 1])
      /\ data' = data /\ start' = start /\ part' = part
  BY DEF CrcByte
<1>3. at + 1 \in 1..Len(data) /\ (at + 1) - 1 = at /\ at + 1 \in 0..part
  BY <1>1, <1>2
<1>4. data[at + 1] \in Byte
  BY <1>1, <1>3
<1>5. /\ crc' = Shifted(SymDiff(crc, data[at + 1]))[ByteBits]
      /\ crc' \in Word
  BY <1>1, <1>2, <1>4, ByteTurnIs
<1>6. crc = Division(start, data)[at]
  BY DEF CrcInv, CrcIsDivision
<1>7. \A n \in 1..Len(data) :
        Division(start, data)[n] = Shifted(SymDiff(Division(start, data)[n - 1], data[n]))[ByteBits]
  BY <1>1, DivisionIs
<1>8. crc' = Division(start, data)[at + 1]
  BY <1>3, <1>5, <1>6, <1>7
<1>9. CrcType'
  BY <1>1, <1>2, <1>3, <1>5 DEF CrcType, CrcInv
<1>10. QED
  BY <1>2, <1>8, <1>9 DEF CrcInv, CrcIsDivision

LEMMA CrcUpdateKeeps == CrcInv /\ CrcUpdate => CrcInv'
<1> SUFFICES ASSUME CrcInv, CrcUpdate PROVE CrcInv'
  OBVIOUS
<1>1. /\ at \in Nat /\ part \in Nat /\ Len(data) \in Nat /\ at <= part /\ part <= Len(data)
  BY CrcTypeIs DEF CrcInv
<1>2. part' = Len(data) /\ data' = data /\ start' = start /\ at' = at /\ crc' = crc
  BY DEF CrcUpdate
<1>3. CrcType'
  BY <1>1, <1>2 DEF CrcType, CrcInv
<1>4. QED
  BY <1>2, <1>3 DEF CrcInv, CrcIsDivision

LEMMA CrcStutters == CrcInv /\ UNCHANGED crcVars => CrcInv'
BY DEF CrcInv, CrcType, CrcIsDivision, crcVars

LEMMA CrcStep == CrcInv /\ [Next]_vars => CrcInv'
<1> SUFFICES ASSUME CrcInv, [Next]_vars PROVE CrcInv'
  OBVIOUS
<1>1. CASE CrcAlone
  BY <1>1, CrcCallKeeps, CrcWordKeeps, CrcByteKeeps, CrcUpdateKeeps DEF CrcAlone, CrcNext
<1>2. CASE ~CrcAlone
  <2>1. UNCHANGED crcVars
    BY <1>2 DEF Next, vars, MkfsStart, MkfsTruncate, MkfsWrite, MkfsStops, ServerStart,
                ServerRead, ServerReadEnds, ServerChecks, ServerStops
  <2>2. QED
    BY <2>1, CrcStutters
<1>3. QED
  BY <1>1, <1>2

\* For any polynomial, any width of bytes and words, any data and any cut of
\* it into calls: after every turn of the loops of __crc64 the checksum is the
\* remainder of division bit by bit.
THEOREM CrcIsRight == Spec => []CrcIsDivision
<1>1. Init => CrcInv
  BY CrcInit DEF Init
<1>2. CrcInv => CrcIsDivision
  BY DEF CrcInv
<1>3. QED
  BY <1>1, <1>2, CrcStep, PTL DEF Spec

(***************************************************************************)
(* The block                                                               *)
(***************************************************************************)

\* The words of s.
Words(s) == Len(s) \div WordBytes

LEMMA WordsFit ==
  ASSUME NEW s \in Seq(Byte)
  PROVE  /\ Words(s) \in Nat
         /\ \A n \in 0..Words(s) : n * WordBytes \in 0..Len(s)
         /\ \A n \in 1..Words(s) :
              /\ (n - 1) * WordBytes \in Nat
              /\ (n - 1) * WordBytes + WordBytes = n * WordBytes
<1> DEFINE m == Len(s)
           q == m \div WordBytes
<1> USE Widths
<1>1. m \in Nat
  OBVIOUS
<1> HIDE DEF m
<1>2. q \in Nat /\ q * WordBytes <= m
  <2>1. q \in Nat /\ m = q * WordBytes + (m % WordBytes) /\ m % WordBytes \in Nat
    BY <1>1
  <2> HIDE DEF q
  <2>2. q * WordBytes \in Nat
    BY <2>1
  <2>3. QED
    BY <1>1, <2>1, <2>2
<1> HIDE DEF q
<1>3. ASSUME NEW n \in 0..q PROVE n * WordBytes \in 0..m
  <2>1. n \in Nat /\ q - n \in Nat /\ q = n + (q - n)
    BY <1>2
  <2> DEFINE d == q - n
  <2>2. n \in Nat /\ d \in Nat /\ q = n + d
    BY <2>1
  <2> HIDE DEF d
  <2>3. q * WordBytes = n * WordBytes + d * WordBytes
    BY <2>2
  <2>4. n * WordBytes \in Nat /\ d * WordBytes \in Nat /\ q * WordBytes \in Nat
    BY <1>2, <2>2
  <2>5. QED
    BY <1>1, <1>2, <2>3, <2>4
<1>4. ASSUME NEW n \in 1..q
      PROVE  (n - 1) * WordBytes \in Nat /\ (n - 1) * WordBytes + WordBytes = n * WordBytes
  <2>1. PICK k \in Nat : n = k + 1 /\ n - 1 = k
    <3>1. n - 1 \in Nat /\ n = (n - 1) + 1
      BY <1>2
    <3>2. QED
      BY <3>1
  <2>2. QED
    BY <2>1
<1>5. QED
  BY <1>2, <1>3, <1>4 DEF Words, m, q

\* The checksum of a block is the remainder of its words.
LEMMA CrcOfWordsIs ==
  ASSUME NEW s \in Seq(Byte)
  PROVE  /\ CrcOfWords(s) = Division({}, s)[Words(s) * WordBytes]
         /\ CrcOfWords(s) \in Word
<1> DEFINE q == Words(s)
           rest == Division({}, s)
           Turn(c, n) == WordTurn(c, WordAt(s, (n - 1) * WordBytes))
           Is(g) == g = [n \in 0..q |-> IF n = 0 THEN {} ELSE Turn(g[n - 1], n)]
           t == [n \in 0..q |-> rest[n * WordBytes]]
<1> USE Widths
<1>1. /\ q \in Nat
      /\ \A n \in 0..q : n * WordBytes \in 0..Len(s)
      /\ \A n \in 1..q : /\ (n - 1) * WordBytes \in Nat
                        /\ (n - 1) * WordBytes + WordBytes = n * WordBytes
  BY WordsFit
<1>2. {} \in Word
  BY DEF Word
<1>3. rest[0] = {} /\ \A n \in 0..Len(s) : rest[n] \in Word
  BY <1>2, DivisionIs
<1>4. CrcOfWords(s) = (CHOOSE g : Is(g))[q]
  BY DEF CrcOfWords, Words
<1> HIDE DEF q
<1>5. ASSUME NEW n \in 1..q PROVE rest[n * WordBytes] = Turn(rest[(n - 1) * WordBytes], n)
  <2> DEFINE i == (n - 1) * WordBytes
  <2>1. n \in 0..q
    BY <1>1
  <2>2. i \in Nat /\ i + WordBytes = n * WordBytes /\ i + WordBytes <= Len(s) /\ i \in 0..Len(s)
    BY <1>1, <2>1
  <2> HIDE DEF i
  <2>3. WordAt(s, i) \in Word /\ rest[i] \in Word
    BY <1>3, <2>2, WordAtIs
  <2>4. rest[i + WordBytes] = Shifted(SymDiff(rest[i], WordAt(s, i)))[WordBits]
    BY <1>2, <2>2, WordDivision
  <2> HIDE DEF rest
  <2>5. rest[i + WordBytes] = WordTurn(rest[i], WordAt(s, i))
    BY <2>3, <2>4, WordTurnIs
  <2>6. QED
    BY <2>2, <2>5 DEF i
<1> HIDE DEF Turn, rest
<1>6. rest[0 * WordBytes] = {}
  BY <1>3
<1>7. Is(t)
  <2>1. \A n \in 0..q : t[n] = IF n = 0 THEN {} ELSE Turn(t[n - 1], n)
    <3> SUFFICES ASSUME NEW n \in 0..q PROVE t[n] = IF n = 0 THEN {} ELSE Turn(t[n - 1], n)
      OBVIOUS
    <3>1. CASE n = 0
      BY <3>1, <1>6
    <3>2. CASE n # 0
      <4>1. n \in 1..q /\ n - 1 \in 0..q
        BY <1>1, <3>2
      <4>2. t[n] = rest[n * WordBytes] /\ t[n - 1] = rest[(n - 1) * WordBytes]
        BY <4>1
      <4> HIDE DEF t
      <4>3. QED
        BY <3>2, <4>1, <4>2, <1>5
    <3>3. QED
      BY <3>1, <3>2
  <2>2. t = [n \in 0..q |-> t[n]]
    OBVIOUS
  <2> HIDE DEF t
  <2>3. QED
    BY <2>1, <2>2
<1> DEFINE x == CHOOSE g : Is(g)
<1>8. Is(x)
  <2> HIDE DEF Is, t
  <2>1. QED
    BY <1>7
<1>9. x[0] = {} /\ \A n \in 1..q : x[n] = Turn(x[n - 1], n)
  <2>1. x = [n \in 0..q |-> IF n = 0 THEN {} ELSE Turn(x[n - 1], n)]
    BY <1>8
  <2>2. 0 \in 0..q /\ \A n \in 1..q : n \in 0..q /\ n # 0
    BY <1>1
  <2> HIDE DEF x
  <2>3. \A n \in 0..q : x[n] = IF n = 0 THEN {} ELSE Turn(x[n - 1], n)
    BY ONLY <2>1
  <2>4. QED
    BY <2>2, <2>3
<1> DEFINE S == {n \in Nat : n <= q => x[n] = rest[n * WordBytes]}
<1> HIDE DEF x, Is, t
<1>10. 0 \in S
  BY <1>6, <1>9
<1>11. ASSUME NEW n \in Nat, n \in S PROVE n + 1 \in S
  <2> SUFFICES ASSUME n + 1 <= q PROVE x[n + 1] = rest[(n + 1) * WordBytes]
    OBVIOUS
  <2>1. n + 1 \in 1..q /\ (n + 1) - 1 = n /\ x[n] = rest[n * WordBytes]
    BY <1>1, <1>11
  <2> DEFINE k == n + 1
  <2>2. k \in 1..q /\ k - 1 = n
    BY <2>1
  <2> HIDE DEF k
  <2>3. x[k] = Turn(x[k - 1], k) /\ rest[k * WordBytes] = Turn(rest[(k - 1) * WordBytes], k)
    BY <2>2, <1>5, <1>9
  <2>4. QED
    BY <2>1, <2>2, <2>3 DEF k
<1> HIDE DEF S
<1>12. q \in S
  BY <1>1, <1>10, <1>11, NaturalsIn
<1>13. x[q] = rest[q * WordBytes]
  BY <1>1, <1>12 DEF S
<1>14. rest[q * WordBytes] \in Word
  BY <1>1, <1>3
<1>15. QED
  BY <1>4, <1>13, <1>14 DEF x, q, rest

\* Two words with the same bytes are the same.
LEMMA SameBytes ==
  ASSUME NEW x \in Word, NEW y \in Word,
         \A k \in 0..(WordBytes - 1) : ByteOf(x, k) = ByteOf(y, k)
  PROVE  x = y
<1> USE Widths
<1> DEFINE S == {k \in Nat : k <= WordBytes => Lows(x, k) = Lows(y, k)}
<1>1. 0 \in S
  BY LowsEnds
<1>2. ASSUME NEW k \in Nat, k \in S PROVE k + 1 \in S
  <2> SUFFICES ASSUME k + 1 <= WordBytes PROVE Lows(x, k + 1) = Lows(y, k + 1)
    OBVIOUS
  <2>1. k \in 0..(WordBytes - 1) /\ Lows(x, k) = Lows(y, k)
    BY <1>2
  <2>2. Part(x, k) = Part(y, k)
    BY <2>1 DEF Part
  <2>3. /\ Lows(x, k + 1) = SymDiff(Lows(x, k), Part(x, k))
        /\ Lows(y, k + 1) = SymDiff(Lows(y, k), Part(y, k))
    BY <2>1, LowsStep
  <2>4. QED
    BY <2>1, <2>2, <2>3
<1> HIDE DEF S
<1>3. WordBytes \in S
  BY <1>1, <1>2, NaturalsIn
<1>4. Lows(x, WordBytes) = Lows(y, WordBytes)
  BY <1>3 DEF S
<1>5. Lows(x, WordBytes) = x /\ Lows(y, WordBytes) = y
  BY LowsEnds
<1>6. QED
  BY <1>4, <1>5

LEMMA BytesIs ==
  ASSUME NEW w
  PROVE  /\ Bytes(w) \in Seq(Byte) /\ Len(Bytes(w)) = WordBytes
         /\ \A k \in 0..(WordBytes - 1) : Bytes(w)[k + 1] = ByteOf(w, k)
<1> USE Widths
<1>1. \A i \in 1..WordBytes : ByteOf(w, i - 1) \in Byte
  BY LowTyped DEF ByteOf
<1>2. Bytes(w) \in [1..WordBytes -> Byte]
  BY <1>1 DEF Bytes
<1>3. \A k \in 0..(WordBytes - 1) : k + 1 \in 1..WordBytes /\ (k + 1) - 1 = k
  OBVIOUS
<1>4. Bytes(w) \in Seq(Byte) /\ Len(Bytes(w)) = WordBytes
  BY <1>2
<1>5. QED
  BY <1>3, <1>4 DEF Bytes

\* A word whose bytes lie somewhere in s is read back from there.
LEMMA WordReadsBack ==
  ASSUME NEW s \in Seq(Byte), NEW i \in Nat, i + WordBytes <= Len(s), NEW w \in Word,
         \A k \in 0..(WordBytes - 1) : s[i + (k + 1)] = Bytes(w)[k + 1]
  PROVE  WordAt(s, i) = w
<1>1. /\ WordAt(s, i) \in Word
      /\ \A k \in 0..(WordBytes - 1) : ByteOf(WordAt(s, i), k) = s[i + (k + 1)]
  BY WordAtIs
<1>2. \A k \in 0..(WordBytes - 1) : Bytes(w)[k + 1] = ByteOf(w, k)
  BY BytesIs
<1>3. \A k \in 0..(WordBytes - 1) : ByteOf(WordAt(s, i), k) = ByteOf(w, k)
  BY <1>1, <1>2
<1>4. QED
  BY <1>1, <1>3, SameBytes

\* s is t, of m bytes, and then u, of n bytes.
Joins(s, t, m, u, n) ==
  /\ s \in Seq(Byte) /\ Len(s) = m + n
  /\ \A k \in 1..m : s[k] = t[k]
  /\ \A k \in 1..n : s[m + k] = u[k]

LEMMA BytesJoin ==
  ASSUME NEW s \in Seq(Byte), NEW t \in Seq(Byte), NEW m \in Nat, NEW n \in Nat,
         Len(s) = m, Len(t) = n
  PROVE  Joins(s \o t, s, m, t, n)
<1>1. s \o t \in Seq(Byte) /\ Len(s \o t) = m + n
  OBVIOUS
<1>2. \A k \in 1..(m + n) : (s \o t)[k] = IF k <= m THEN s[k] ELSE t[k - m]
  OBVIOUS
<1>3. \A k \in 1..n : m + k \in 1..(m + n) /\ ~(m + k <= m) /\ (m + k) - m = k
  OBVIOUS
<1>4. \A k \in 1..m : k \in 1..(m + n) /\ k <= m
  OBVIOUS
<1>5. QED
  BY <1>1, <1>2, <1>3, <1>4 DEF Joins

\* A sequence of four words, and of the first three of them.
Four(a, b, c, d) == Bytes(a) \o Bytes(b) \o Bytes(c) \o Bytes(d)

\* s is read back as the four words.
IsFour(s, a, b, c, d) ==
  /\ Len(s) = SuperSize
  /\ Field(s, 0) = a /\ Field(s, 1) = b /\ Field(s, 2) = c /\ Field(s, 3) = d
  /\ SubSeq(s, 1, 3 * WordBytes) = Bytes(a) \o Bytes(b) \o Bytes(c)

LEMMA FourIs ==
  ASSUME NEW a \in Word, NEW b \in Word, NEW c \in Word, NEW d \in Word
  PROVE  Four(a, b, c, d) \in Seq(Byte) /\ IsFour(Four(a, b, c, d), a, b, c, d)
<1> USE Widths
<1> DEFINE n == WordBytes
           A == Bytes(a)
           B == Bytes(b)
           C == Bytes(c)
           D == Bytes(d)
           s == Four(a, b, c, d)
<1>1. /\ n \in Nat
      /\ A \in Seq(Byte) /\ Len(A) = n /\ B \in Seq(Byte) /\ Len(B) = n
      /\ C \in Seq(Byte) /\ Len(C) = n /\ D \in Seq(Byte) /\ Len(D) = n
  BY BytesIs
<1>2. s = ((A \o B) \o C) \o D
  BY DEF Four
<1> HIDE DEF n, A, B, C, D, s
<1>3. /\ A \o B \in Seq(Byte) /\ Len(A \o B) = n + n
      /\ \A k \in 1..n : (A \o B)[k] = A[k] /\ (A \o B)[n + k] = B[k]
  <2>1. Joins(A \o B, A, n, B, n)
    BY <1>1, BytesJoin
  <2>2. QED
    BY <2>1 DEF Joins
<1> DEFINE AB == A \o B
<1>4. AB \in Seq(Byte) /\ Len(AB) = n + n
  BY <1>3
<1> HIDE DEF AB
<1>5. /\ AB \o C \in Seq(Byte) /\ Len(AB \o C) = n + n + n
      /\ \A k \in 1..(n + n) : (AB \o C)[k] = AB[k]
      /\ \A k \in 1..n : (AB \o C)[n + n + k] = C[k]
  <2>1. n + n \in Nat
    BY <1>1
  <2>2. Joins(AB \o C, AB, n + n, C, n)
    BY <1>1, <1>4, <2>1, BytesJoin
  <2>3. QED
    BY <2>2 DEF Joins
<1> DEFINE ABC == AB \o C
<1>6. ABC \in Seq(Byte) /\ Len(ABC) = n + n + n /\ s = ABC \o D
  BY <1>2, <1>5 DEF AB
<1> HIDE DEF ABC
<1>7. /\ s \in Seq(Byte) /\ Len(s) = n + n + n + n
      /\ \A k \in 1..(n + n + n) : s[k] = ABC[k]
      /\ \A k \in 1..n : s[n + n + n + k] = D[k]
  <2>1. n + n + n \in Nat
    BY <1>1
  <2>2. Joins(ABC \o D, ABC, n + n + n, D, n)
    BY <1>1, <1>6, <2>1, BytesJoin
  <2>3. QED
    BY <1>6, <2>2 DEF Joins
<1>8. ASSUME NEW k \in 1..n
      PROVE  s[0 + k] = A[k] /\ s[n + k] = B[k] /\ s[n + n + k] = C[k] /\ s[n + n + n + k] = D[k]
  <2>1. /\ k \in 1..(n + n) /\ k \in 1..(n + n + n) /\ 0 + k = k
        /\ n + k \in 1..(n + n) /\ n + k \in 1..(n + n + n) /\ n + n + k \in 1..(n + n + n)
    BY <1>1
  <2>2. s[k] = ABC[k] /\ s[n + k] = ABC[n + k] /\ s[n + n + k] = ABC[n + n + k]
    BY <1>7, <2>1
  <2>3. ABC[k] = AB[k] /\ ABC[n + k] = AB[n + k] /\ ABC[n + n + k] = C[k]
    BY <1>5, <2>1 DEF ABC
  <2>4. AB[k] = A[k] /\ AB[n + k] = B[k]
    BY <1>3 DEF AB
  <2>5. QED
    BY <1>7, <2>1, <2>2, <2>3, <2>4
<1>9. \A k \in 0..(n - 1) : k + 1 \in 1..n
  BY <1>1
<1>10. \A k \in 0..(n - 1) :
         /\ s[0 + (k + 1)] = A[k + 1] /\ s[n + (k + 1)] = B[k + 1]
         /\ s[(n + n) + (k + 1)] = C[k + 1] /\ s[(n + n + n) + (k + 1)] = D[k + 1]
  BY <1>8, <1>9
<1>11. 0 + n <= Len(s) /\ n + n <= Len(s) /\ (n + n) + n <= Len(s) /\ (n + n + n) + n <= Len(s)
  BY <1>1, <1>7
<1>12. 0 \in Nat /\ n + n \in Nat /\ n + n + n \in Nat
  BY <1>1
<1>13. WordAt(s, 0) = a
  BY <1>7, <1>10, <1>11, <1>12, WordReadsBack DEF n, A
<1>14. WordAt(s, n) = b
  BY <1>1, <1>7, <1>10, <1>11, WordReadsBack DEF n, B
<1>15. WordAt(s, n + n) = c
  BY <1>7, <1>10, <1>11, <1>12, WordReadsBack DEF n, C
<1>16. WordAt(s, n + n + n) = d
  BY <1>7, <1>10, <1>11, <1>12, WordReadsBack DEF n, D
<1>17. 0 * n = 0 /\ 1 * n = n /\ 2 * n = n + n /\ 3 * n = n + n + n /\ 4 * n = n + n + n + n
  BY <1>1
<1>18. SubSeq(s, 1, 3 * n) = ABC
  BY <1>6, <1>7, <1>17, <1>1
<1>19. Field(s, 0) = a /\ Field(s, 1) = b /\ Field(s, 2) = c /\ Field(s, 3) = d
  BY <1>13, <1>14, <1>15, <1>16, <1>17 DEF Field, n
<1>20. Len(s) = SuperSize
  BY <1>7, <1>17 DEF SuperSize, n
<1>21. ABC = A \o B \o C
  BY DEF ABC, AB
<1>22. ABC = Bytes(a) \o Bytes(b) \o Bytes(c)
  BY <1>21 DEF A, B, C
<1>23. SubSeq(s, 1, 3 * WordBytes) = Bytes(a) \o Bytes(b) \o Bytes(c)
  BY <1>18, <1>22 DEF n
<1>24. IsFour(s, a, b, c, d)
  BY <1>19, <1>20, <1>23 DEF IsFour
<1>25. QED
  BY <1>7, <1>24 DEF s

\* The fields of a block are words.
LEMMA FieldTyped ==
  ASSUME NEW s \in Seq(Byte), Len(s) = SuperSize, NEW i \in 0..3
  PROVE  Field(s, i) \in Word
<1> USE Widths
<1>1. i * WordBytes \in Nat /\ i * WordBytes + WordBytes <= 4 * WordBytes
  <2>1. i = 0 \/ i = 1 \/ i = 2 \/ i = 3
    OBVIOUS
  <2>2. WordBytes \in Nat
    OBVIOUS
  <2>3. QED
    BY <2>1, <2>2
<1>2. QED
  BY <1>1, WordAtIs DEF Field, SuperSize

\* The block of a configuration.
BlockOf(f) == Super(f[1], f[2])
Config == PageSizes \X Number

LEMMA PageSizesAre == \A ps \in PageSizes : ps \in Number /\ ps \in Nat \ {0}
<1> SUFFICES ASSUME NEW ps \in PageSizes PROVE ps \in Number /\ ps \in Nat \ {0}
  OBVIOUS
<1>1. PICK i \in Bits : ps = Pow2[i]
  BY SuperAssumption
<1>2. ps \in Nat \ {0} /\ ps < Modulus /\ Modulus \in Nat
  BY <1>1, Pow2Grows, ModulusIs
<1>3. QED
  BY <1>2 DEF Number

LEMMA BlockIsFour ==
  \A ps, p, c : Block(ps, p, c) = Four(Magic, ToBits(ps), ToBits(p), c)
BY DEF Block, Four

LEMMA EmptyIsWord == {} \in Word
BY DEF Word

\* The block mkfs writes for a configuration is one of SuperSize bytes.
LEMMA SuperTyped ==
  \A ps, p : Super(ps, p) \in Seq(Byte) /\ Len(Super(ps, p)) = SuperSize
<1> SUFFICES ASSUME NEW ps, NEW p
             PROVE  Super(ps, p) \in Seq(Byte) /\ Len(Super(ps, p)) = SuperSize
  OBVIOUS
<1> DEFINE a == ToBits(ps)
           b == ToBits(p)
           z == Four(Magic, a, b, {})
<1>1. Magic \in Word /\ a \in Word /\ b \in Word /\ {} \in Word
  BY SuperAssumption, ToBitsTyped, EmptyIsWord
<1> HIDE DEF a, b
<1>2. z \in Seq(Byte)
  BY <1>1, FourIs
<1> HIDE DEF z
<1>3. CrcOfWords(z) \in Word
  BY <1>2, CrcOfWordsIs
<1>4. Super(ps, p) = Four(Magic, a, b, CrcOfWords(z))
  BY BlockIsFour DEF Super, z, a, b
<1>5. Super(ps, p) \in Seq(Byte) /\ IsFour(Super(ps, p), Magic, a, b, CrcOfWords(z))
  BY <1>1, <1>3, <1>4, FourIs
<1>6. QED
  BY <1>5 DEF IsFour

\* A block that mkfs has written whole is accepted by the server, which finds
\* in it what mkfs was told.
THEOREM SuperIsAccepted ==
  ASSUME NEW ps \in Number, NEW p \in Number
  PROVE  /\ Accepts(Super(ps, p))
         /\ FromBits(Field(Super(ps, p), 1)) = ps
         /\ FromBits(Field(Super(ps, p), 2)) = p
<1> DEFINE a == ToBits(ps)
           b == ToBits(p)
           z == Four(Magic, a, b, {})
           c == CrcOfWords(z)
           s == Super(ps, p)
<1>1. Magic \in Word /\ a \in Word /\ b \in Word /\ {} \in Word
  BY SuperAssumption, ToBitsTyped, EmptyIsWord
<1>2. FromBits(a) = ps /\ FromBits(b) = p
  BY FromToBits
<1>3. s = Four(Magic, a, b, c)
  BY BlockIsFour DEF Super
<1> HIDE DEF a, b, s
<1>4. z \in Seq(Byte)
  BY <1>1, FourIs
<1>5. z = Bytes(Magic) \o Bytes(a) \o Bytes(b) \o Bytes({})
  BY DEF Four
<1> HIDE DEF z
<1>6. c \in Word
  BY <1>4, CrcOfWordsIs
<1> HIDE DEF c
<1>7. /\ Len(s) = SuperSize
      /\ Field(s, 0) = Magic /\ Field(s, 1) = a /\ Field(s, 2) = b /\ Field(s, 3) = c
      /\ SubSeq(s, 1, 3 * WordBytes) = Bytes(Magic) \o Bytes(a) \o Bytes(b)
  <2>1. IsFour(s, Magic, a, b, c)
    BY <1>1, <1>3, <1>6, FourIs
  <2>2. QED
    BY <2>1 DEF IsFour
<1>8. SubSeq(s, 1, 3 * WordBytes) \o Bytes({}) = z
  BY <1>5, <1>7
<1>9. Accepts(s)
  BY <1>7, <1>8 DEF Accepts, c
<1>10. QED
  BY <1>2, <1>7, <1>9 DEF s

(***************************************************************************)
(* What the checksum tells apart.  The polynomial of gen_crc64_table.py    *)
(* has its highest bit, so a shift loses nothing: two sequences that       *)
(* differ in the bytes of one word only have different remainders.         *)
(***************************************************************************)

HighBit == WordBits - 1 \in Poly

LEMMA ShiftInjective ==
  HighBit => \A a, b \in Word : ShiftOnce(a) = ShiftOnce(b) => a = b
<1> SUFFICES ASSUME HighBit, NEW a \in Word, NEW b \in Word, ShiftOnce(a) = ShiftOnce(b)
             PROVE  a = b
  OBVIOUS
<1> USE Widths
<1> DEFINE x == Down(a, 1)
           y == Down(b, 1)
           top == WordBits - 1
<1>1. \A c : top \notin Down(c, 1) \/ top + 1 \in c
  BY DEF Down
<1>2. top + 1 \notin a /\ top + 1 \notin b
  BY DEF Word, Bits
<1>3. top \notin x /\ top \notin y /\ top \in Poly
  BY <1>1, <1>2 DEF HighBit
<1>4. /\ ShiftOnce(a) = IF 0 \in a THEN SymDiff(Poly, x) ELSE x
      /\ ShiftOnce(b) = IF 0 \in b THEN SymDiff(Poly, y) ELSE y
  BY DEF ShiftOnce
<1> HIDE DEF x, y, top
<1>5. 0 \in a <=> 0 \in b
  BY <1>3, <1>4 DEF SymDiff
<1>6. \A i : i \in x <=> i \in y
  BY <1>4, <1>5 DEF SymDiff
<1>7. ASSUME NEW i \in Bits PROVE i \in a <=> i \in b
  <2>1. CASE i = 0
    BY <1>5, <2>1
  <2>2. CASE i # 0
    <3>1. i - 1 \in Bits /\ (i - 1) + 1 = i
      BY <2>2 DEF Bits
    <3>2. (i - 1 \in x <=> i \in a) /\ (i - 1 \in y <=> i \in b)
      BY <3>1, InDown DEF x, y
    <3>3. QED
      BY <1>6, <3>2
  <2>3. QED
    BY <2>1, <2>2
<1>8. QED
  BY <1>7 DEF Word

LEMMA ShiftedInjective ==
  HighBit => \A n \in 0..WordBits : \A a, b \in Word : Shifted(a)[n] = Shifted(b)[n] => a = b
<1> SUFFICES ASSUME HighBit
             PROVE  \A n \in 0..WordBits : \A a, b \in Word : Shifted(a)[n] = Shifted(b)[n] => a = b
  OBVIOUS
<1> USE Widths
<1> DEFINE S == {n \in Nat : n <= WordBits =>
                   \A a, b \in Word : Shifted(a)[n] = Shifted(b)[n] => a = b}
<1>1. 0 \in S
  BY ShiftedStarts
<1>2. ASSUME NEW n \in Nat, n \in S PROVE n + 1 \in S
  <2> SUFFICES ASSUME n + 1 <= WordBits, NEW a \in Word, NEW b \in Word,
                      Shifted(a)[n + 1] = Shifted(b)[n + 1]
               PROVE  a = b
    OBVIOUS
  <2>1. n \in 0..WordBits
    OBVIOUS
  <2>2. Shifted(a)[n] \in Word /\ Shifted(b)[n] \in Word
    BY <2>1, ShiftedTyped
  <2>3. ShiftOnce(Shifted(a)[n]) = ShiftOnce(Shifted(b)[n])
    BY ShiftedSteps
  <2>4. Shifted(a)[n] = Shifted(b)[n]
    BY <2>2, <2>3, ShiftInjective
  <2>5. QED
    BY <1>2, <2>4
<1> HIDE DEF S
<1>3. \A n \in Nat : n \in S
  BY <1>1, <1>2, NaturalsIn
<1>4. QED
  BY <1>3 DEF S

LEMMA XorCancels == \A a, b, c : SymDiff(a, c) = SymDiff(b, c) => a = b
BY DEF SymDiff

LEMMA XorCancelsLeft == \A a, b, c : SymDiff(c, a) = SymDiff(c, b) => a = b
BY DEF SymDiff

\* Remainders are the same as long as the bytes are.
LEMMA SameSoFar ==
  ASSUME NEW s \in Seq(Byte), NEW t \in Seq(Byte), NEW p \in Nat, p <= Len(s), p <= Len(t),
         \A i \in 1..p : s[i] = t[i]
  PROVE  Division({}, s)[p] = Division({}, t)[p]
<1> DEFINE S == {k \in Nat : k <= p => Division({}, s)[k] = Division({}, t)[k]}
<1>1. 0 \in S
  BY DivisionIs, EmptyIsWord
<1>2. ASSUME NEW k \in Nat, k \in S PROVE k + 1 \in S
  <2> SUFFICES ASSUME k + 1 <= p PROVE Division({}, s)[k + 1] = Division({}, t)[k + 1]
    OBVIOUS
  <2>1. /\ k + 1 \in 1..Len(s) /\ k + 1 \in 1..Len(t) /\ (k + 1) - 1 = k
        /\ s[k + 1] = t[k + 1] /\ Division({}, s)[k] = Division({}, t)[k]
    BY <1>2
  <2>2. Division({}, s)[k + 1] = Shifted(SymDiff(Division({}, s)[(k + 1) - 1], s[k + 1]))[ByteBits]
    BY <2>1, DivisionIs, EmptyIsWord
  <2>3. Division({}, t)[k + 1] = Shifted(SymDiff(Division({}, t)[(k + 1) - 1], t[k + 1]))[ByteBits]
    BY <2>1, DivisionIs, EmptyIsWord
  <2>4. QED
    BY <2>1, <2>2, <2>3
<1> HIDE DEF S
<1>3. \A k \in Nat : k \in S
  BY <1>1, <1>2, NaturalsIn
<1>4. QED
  BY <1>3 DEF S

\* Once they are different, the same bytes do not make them the same again.
LEMMA StaysDifferent ==
  ASSUME HighBit, NEW s \in Seq(Byte), NEW t \in Seq(Byte), Len(t) = Len(s),
         NEW p \in Nat, p <= Len(s), Division({}, s)[p] # Division({}, t)[p],
         \A i \in 1..Len(s) : i > p => s[i] = t[i]
  PROVE  Division({}, s)[Len(s)] # Division({}, t)[Len(s)]
<1> DEFINE m == Len(s)
           S == {k \in Nat : p + k <= m => Division({}, s)[p + k] # Division({}, t)[p + k]}
<1>1. 0 \in S
  OBVIOUS
<1>2. ASSUME NEW k \in Nat, k \in S PROVE k + 1 \in S
  <2> DEFINE n == p + k
             x == Division({}, s)[n]
             y == Division({}, t)[n]
  <2> SUFFICES ASSUME n + 1 <= m PROVE Division({}, s)[n + 1] # Division({}, t)[n + 1]
    OBVIOUS
  <2>1. /\ n \in 0..Len(s) /\ n \in 0..Len(t) /\ n + 1 \in 1..Len(s) /\ n + 1 \in 1..Len(t)
        /\ (n + 1) - 1 = n /\ s[n + 1] = t[n + 1] /\ s[n + 1] \in Byte /\ x # y
    BY <1>2
  <2> HIDE DEF n
  <2>2. Division({}, s)[n + 1] = Shifted(SymDiff(x, s[n + 1]))[ByteBits] /\ x \in Word
    BY <2>1, DivisionIs, EmptyIsWord
  <2>3. Division({}, t)[n + 1] = Shifted(SymDiff(y, s[n + 1]))[ByteBits] /\ y \in Word
    BY <2>1, DivisionIs, EmptyIsWord
  <2> HIDE DEF x, y
  <2>4. s[n + 1] \in Word
    BY <2>1, BytesAreWords
  <2>5. SymDiff(x, s[n + 1]) \in Word /\ SymDiff(y, s[n + 1]) \in Word
    BY <2>2, <2>3, <2>4, XorTyped
  <2>6. SymDiff(x, s[n + 1]) # SymDiff(y, s[n + 1])
    BY <2>1, XorCancels
  <2>7. ByteBits \in 0..WordBits
    BY Widths
  <2>8. QED
    BY <2>2, <2>3, <2>5, <2>6, <2>7, ShiftedInjective
<1> HIDE DEF S
<1>3. \A k \in Nat : k \in S
  BY <1>1, <1>2, NaturalsIn
<1>4. m - p \in Nat /\ p + (m - p) = m
  OBVIOUS
<1>5. QED
  BY <1>3, <1>4 DEF S

\* Two sequences differ, and only in bytes p + 1 to p + WordBytes.
Burst(s, t, p) ==
  /\ Len(t) = Len(s) /\ p + WordBytes <= Len(s)
  /\ s # t
  /\ \A i \in 1..Len(s) : s[i] = t[i] \/ i \in (p + 1)..(p + WordBytes)

LEMMA BurstInWord ==
  ASSUME NEW s \in Seq(Byte), NEW t \in Seq(Byte), NEW p \in Nat, Burst(s, t, p)
  PROVE  WordAt(s, p) # WordAt(t, p)
<1> SUFFICES ASSUME WordAt(s, p) = WordAt(t, p) PROVE FALSE
  OBVIOUS
<1> USE Widths
<1>1. /\ Len(t) = Len(s) /\ p + WordBytes <= Len(s) /\ s # t
      /\ \A i \in 1..Len(s) : s[i] = t[i] \/ i \in (p + 1)..(p + WordBytes)
  BY DEF Burst
<1>2. \A k \in 0..(WordBytes - 1) : ByteOf(WordAt(s, p), k) = s[p + (k + 1)]
  BY <1>1, WordAtIs
<1>3. \A k \in 0..(WordBytes - 1) : ByteOf(WordAt(t, p), k) = t[p + (k + 1)]
  BY <1>1, WordAtIs
<1>4. ASSUME NEW i \in 1..Len(s) PROVE s[i] = t[i]
  <2>1. CASE i \in (p + 1)..(p + WordBytes)
    <3> DEFINE k == i - p - 1
    <3>1. k \in 0..(WordBytes - 1) /\ p + (k + 1) = i
      BY <2>1
    <3> HIDE DEF k
    <3>2. QED
      BY <1>2, <1>3, <3>1
  <2>2. QED
    BY <1>1, <2>1
<1>5. s = t
  BY <1>1, <1>4
<1>6. QED
  BY <1>1, <1>5

LEMMA BurstChanges ==
  ASSUME HighBit, NEW s \in Seq(Byte), NEW t \in Seq(Byte), NEW p \in Nat, Burst(s, t, p)
  PROVE  Division({}, s)[Len(s)] # Division({}, t)[Len(s)]
<1> USE Widths
<1> DEFINE q == p + WordBytes
           x == Division({}, s)[p]
           v == WordAt(s, p)
           w == WordAt(t, p)
<1>1. /\ Len(t) = Len(s) /\ q <= Len(s) /\ q \in Nat
      /\ \A i \in 1..Len(s) : s[i] = t[i] \/ i \in (p + 1)..q
  BY DEF Burst
<1>2. Division({}, t)[p] = x
  <2>1. p <= Len(s) /\ p <= Len(t) /\ \A i \in 1..p : s[i] = t[i]
    BY <1>1
  <2>2. QED
    BY <2>1, SameSoFar
<1>3. x \in Word
  <2>1. p \in 0..Len(s)
    BY <1>1
  <2>2. QED
    BY <2>1, DivisionIs, EmptyIsWord
<1>4. v \in Word /\ w \in Word /\ v # w
  BY <1>1, WordAtIs, BurstInWord
<1>5. Division({}, s)[q] = Shifted(SymDiff(x, v))[WordBits]
  BY <1>1, WordDivision, EmptyIsWord
<1>6. Division({}, t)[q] = Shifted(SymDiff(x, w))[WordBits]
  BY <1>1, <1>2, WordDivision, EmptyIsWord
<1> HIDE DEF x, v, w, q
<1>7. SymDiff(x, v) \in Word /\ SymDiff(x, w) \in Word /\ SymDiff(x, v) # SymDiff(x, w)
  BY <1>3, <1>4, XorTyped, XorCancelsLeft
<1>8. WordBits \in 0..WordBits
  OBVIOUS
<1>9. Division({}, s)[q] # Division({}, t)[q]
  BY <1>5, <1>6, <1>7, <1>8, ShiftedInjective
<1>10. \A i \in 1..Len(s) : i > q => s[i] = t[i]
  BY <1>1
<1>11. QED
  BY <1>1, <1>9, <1>10, StaysDifferent

LEMMA FourWords == (4 * WordBytes) \div WordBytes = 4
<1> DEFINE n == 4 * WordBytes
           q == n \div WordBytes
<1> USE Widths
<1>1. /\ n \in Nat /\ q \in Nat /\ n = q * WordBytes + (n % WordBytes)
      /\ n % WordBytes \in Nat /\ n % WordBytes < WordBytes
  OBVIOUS
<1>2. n = WordBytes + WordBytes + WordBytes + WordBytes /\ WordBytes \in Nat \ {0}
  OBVIOUS
<1> HIDE DEF n, q
<1>3. ASSUME q <= 3 PROVE FALSE
  <2>1. q = 0 \/ q = 1 \/ q = 2 \/ q = 3
    BY <1>1, <1>3
  <2>2. QED
    BY <1>1, <1>2, <2>1
<1>4. ASSUME q >= 5 PROVE FALSE
  <2>1. PICK d \in Nat : q = d + 5
    <3>1. q - 5 \in Nat /\ q = (q - 5) + 5
      BY <1>1, <1>4
    <3>2. QED
      BY <3>1
  <2>2. q * WordBytes = d * WordBytes + 5 * WordBytes /\ d * WordBytes \in Nat
    BY <2>1
  <2>3. QED
    BY <1>1, <1>2, <2>2
<1>5. q = 4
  BY <1>1, <1>3, <1>4
<1>6. QED
  BY <1>5 DEF n, q

\* A block in front of the checksum, with a zero in place of the checksum.
Summed(s) == SubSeq(s, 1, 3 * WordBytes) \o Bytes({})

LEMMA SummedIs ==
  ASSUME NEW s \in Seq(Byte), Len(s) = SuperSize
  PROVE  /\ Summed(s) \in Seq(Byte) /\ Len(Summed(s)) = SuperSize
         /\ \A i \in 1..(3 * WordBytes) : Summed(s)[i] = s[i]
         /\ \A k \in 1..WordBytes : Summed(s)[3 * WordBytes + k] = Bytes({})[k]
         /\ CrcOfWords(Summed(s)) = Division({}, Summed(s))[SuperSize]
<1> USE Widths
<1> DEFINE n == 3 * WordBytes
           head == SubSeq(s, 1, n)
           sum == Summed(s)
<1>1. n \in Nat /\ n <= Len(s) /\ n + WordBytes = SuperSize
  BY DEF SuperSize
<1> HIDE DEF n
<1>2. head = [i \in 1..n |-> s[i]] /\ \A i \in 1..n : s[i] \in Byte
  BY <1>1
<1>3. head \in Seq(Byte) /\ Len(head) = n /\ \A i \in 1..n : head[i] = s[i]
  <2> HIDE DEF head
  <2>1. QED
    BY <1>1, <1>2
<1>4. sum = head \o Bytes({})
  BY DEF Summed, n
<1> HIDE DEF head, sum
<1>5. Joins(sum, head, n, Bytes({}), WordBytes)
  BY <1>1, <1>3, <1>4, BytesIs, BytesJoin
<1>6. sum \in Seq(Byte) /\ Len(sum) = SuperSize
  BY <1>1, <1>5 DEF Joins
<1>7. Words(sum) * WordBytes = SuperSize
  <2>1. SuperSize = 4 * WordBytes /\ (4 * WordBytes) \div WordBytes = 4
    BY FourWords DEF SuperSize
  <2>2. QED
    BY <1>6, <2>1 DEF Words
<1>8. CrcOfWords(sum) = Division({}, sum)[SuperSize]
  BY <1>6, <1>7, CrcOfWordsIs
<1>9. \A i \in 1..n : sum[i] = s[i]
  BY <1>3, <1>5 DEF Joins
<1>10. \A k \in 1..WordBytes : sum[n + k] = Bytes({})[k]
  BY <1>5 DEF Joins
<1>11. QED
  BY <1>6, <1>8, <1>9, <1>10 DEF sum, n

\* A block that differs from one the server accepts in the bytes of one word
\* only is not accepted, whether that word is a field or lies across two of
\* them, unless it lies across the checksum and what is before it.
THEOREM BurstsAreFound ==
  ASSUME HighBit, NEW s \in Seq(Byte), NEW t \in Seq(Byte), Accepts(s),
         NEW p \in (0..(2 * WordBytes)) \cup {3 * WordBytes}, Burst(s, t, p)
  PROVE  ~Accepts(t)
<1> USE Widths
<1> DEFINE u == Summed(s)
           v == Summed(t)
           n == 3 * WordBytes
           w == WordBytes
<1>1. p \in Nat /\ n \in Nat /\ w \in Nat \ {0} /\ n + w = SuperSize /\ 2 * w + w = n
  BY DEF SuperSize
<1>2. /\ Len(s) = SuperSize /\ Len(t) = SuperSize
      /\ \A i \in 1..SuperSize : s[i] = t[i] \/ i \in (p + 1)..(p + w)
      /\ s # t
  BY DEF Accepts, Burst
<1>3. /\ u \in Seq(Byte) /\ Len(u) = SuperSize /\ v \in Seq(Byte) /\ Len(v) = SuperSize
      /\ \A i \in 1..n : u[i] = s[i] /\ v[i] = t[i]
      /\ \A k \in 1..w : u[n + k] = Bytes({})[k] /\ v[n + k] = Bytes({})[k]
      /\ CrcOfWords(u) = Division({}, u)[SuperSize]
      /\ CrcOfWords(v) = Division({}, v)[SuperSize]
  BY <1>2, SummedIs
<1>4. Field(s, 3) = CrcOfWords(u)
  BY DEF Accepts, Summed
<1>5. Accepts(t) => Field(t, 3) = CrcOfWords(v)
  BY DEF Accepts, Summed
<1>6. Field(s, 3) = WordAt(s, n) /\ Field(t, 3) = WordAt(t, n)
  BY DEF Field
<1> HIDE DEF u, v, n
<1>7. \A i \in 1..SuperSize : i \in 1..n \/ (i - n \in 1..w /\ n + (i - n) = i)
  BY <1>1
<1>8. ASSUME NEW i \in 1..SuperSize, i > n PROVE u[i] = v[i]
  <2> DEFINE k == i - n
  <2>1. k \in 1..w /\ n + k = i
    BY <1>1, <1>7, <1>8
  <2> HIDE DEF k
  <2>2. u[n + k] = v[n + k]
    BY <1>3, <2>1
  <2>3. QED
    BY <2>1, <2>2
<1>9. CASE p = n
  <2>1. ASSUME NEW i \in 1..n PROVE u[i] = v[i]
    <3>1. i \in 1..SuperSize /\ i \notin (p + 1)..(p + w)
      BY <1>1, <1>9
    <3>2. s[i] = t[i]
      BY <1>2, <3>1
    <3>3. QED
      BY <1>3, <3>2
  <2>2. \A i \in 1..SuperSize : u[i] = v[i]
    BY <1>1, <1>7, <1>8, <2>1
  <2>3. u = v
    BY <1>3, <2>2
  <2>4. WordAt(s, n) # WordAt(t, n)
    BY <1>1, <1>9, BurstInWord
  <2>5. QED
    BY <1>4, <1>5, <1>6, <2>3, <2>4
<1>10. CASE p \in 0..(2 * w)
  <2>1. p + w <= n
    BY <1>1, <1>10
  <2>2. \A i \in 1..SuperSize : i > n => s[i] = t[i]
    BY <1>1, <1>2, <2>1
  <2>3. u # v
    <3>1. PICK i \in 1..SuperSize : s[i] # t[i]
      BY <1>2
    <3>2. ~(i > n)
      BY <2>2, <3>1
    <3>3. i \in 1..n
      <4>1. SuperSize \in Int /\ i \in Int /\ 1 <= i
        BY <1>1
      <4>2. QED
        BY <1>1, <3>2, <4>1
    <3>4. QED
      BY <1>3, <3>1, <3>3
  <2>4. \A i \in 1..SuperSize : u[i] = v[i] \/ i \in (p + 1)..(p + w)
    BY <1>1, <1>2, <1>3, <1>7, <1>8
  <2>5. Burst(u, v, p)
    BY <1>1, <1>3, <2>1, <2>3, <2>4 DEF Burst
  <2>6. CrcOfWords(u) # CrcOfWords(v)
    BY <1>1, <1>3, <2>5, BurstChanges
  <2>7. WordAt(s, n) = WordAt(t, n)
    <3>1. /\ WordAt(s, n) \in Word
          /\ \A k \in 0..(w - 1) : ByteOf(WordAt(s, n), k) = s[n + (k + 1)]
      BY <1>1, <1>2, WordAtIs
    <3>2. /\ WordAt(t, n) \in Word
          /\ \A k \in 0..(w - 1) : ByteOf(WordAt(t, n), k) = t[n + (k + 1)]
      BY <1>1, <1>2, WordAtIs
    <3>3. \A k \in 0..(w - 1) : n + (k + 1) \in 1..SuperSize /\ n + (k + 1) > n
      BY <1>1
    <3>4. \A k \in 0..(w - 1) : ByteOf(WordAt(s, n), k) = ByteOf(WordAt(t, n), k)
      BY <2>2, <3>1, <3>2, <3>3
    <3>5. QED
      BY <3>1, <3>2, <3>4, SameBytes
  <2>8. QED
    BY <1>4, <1>5, <1>6, <2>6, <2>7
<1>11. QED
  BY <1>9, <1>10 DEF n

(***************************************************************************)
(* mkfs and the server                                                     *)
(***************************************************************************)

ServerRecord ==
  [pc : {"idle", "read", "check", "mounted"}, buf : Seq(Byte), left : 0..SuperSize,
   page_size : Number, pages : Number]

BlockType ==
  /\ file \in [1..SuperSize -> Byte]
  /\ size \in Number
  /\ mkfs \in [pc : {"idle", "truncate", "write"}, bytes : Number, block : Seq(Byte),
               done : 0..(SuperSize - 1)]
  /\ server \in [pc : {"idle", "read", "check", "mounted"}, buf : Seq(Byte),
                 left : 0..SuperSize, page_size : Number, pages : Number]
  /\ formats \subseteq Config

\* The configurations whose pages the file has; only these are ever written.
Fits(f) == f[2] * f[1] <= size \/ f[2] * f[1] >= Modulus
Fitting == {f \in formats : Fits(f)}

\* Every byte of s is as in the file to begin with, or as in a block of F.
MadeOf(F, s) ==
  \A i \in 1..Len(s) : s[i] = {} \/ \E f \in F : s[i] = BlockOf(f)[i]

\* The checksum takes a mixture of blocks for one of them.
Collides ==
  \E F \in SUBSET formats :
    \E block \in Seq(Byte) : /\ MadeOf(F, block) /\ Accepts(block)
                             /\ \A f \in F : block # BlockOf(f)

\* What the running mkfs writes, and how far it is.
MkfsKnows ==
  mkfs.pc # "idle" =>
    \E f \in formats :
      /\ mkfs.block = BlockOf(f)
      /\ (f[2] * f[1]) % Modulus = mkfs.bytes
      /\ mkfs.pc = "write" => mkfs.bytes <= size
      /\ mkfs.pc = "truncate" => mkfs.bytes > size

FileIsMade == MadeOf(Fitting, file)
BufferIsMade == MadeOf(Fitting, server.buf)
BufferAndLeft == server.pc = "read" => Len(server.buf) + server.left = SuperSize

MountedKnown ==
  server.pc = "mounted" => Collides \/ <<server.page_size, server.pages>> \in Fitting

\* The inductive invariant.
BlockInv ==
  BlockType /\ MkfsKnows /\ FileIsMade /\ BufferIsMade /\ BufferAndLeft /\ MountedKnown

LEMMA SuperSizeIs == SuperSize \in Number /\ SuperSize \in Nat \ {0} /\ SuperSize <= Modulus - 1
BY SuperAssumption, ModulusIs, Widths DEF SuperSize, Number

LEMMA NumbersAre == \A n : n \in Number <=> n \in Nat /\ n < Modulus
BY ModulusIs DEF Number

LEMMA FitsMeans ==
  ASSUME NEW f \in Config, size \in Number, (f[2] * f[1]) % Modulus <= size
  PROVE  Fits(f)
<1> DEFINE n == f[2] * f[1]
<1>1. f[1] \in Nat /\ f[2] \in Nat
  BY PageSizesAre, NumbersAre DEF Config
<1>2. n \in Nat
  BY <1>1
<1> HIDE DEF n
<1>3. n < Modulus => n % Modulus = n
  BY <1>2, ModulusIs
<1>4. n % Modulus <= size
  BY DEF n
<1>5. n <= size \/ n >= Modulus
  BY <1>2, <1>3, <1>4, ModulusIs
<1>6. QED
  BY <1>5 DEF Fits, n

\* Nothing that has been written is forgotten, and the file does not shrink.
LEMMA MadeOfGrows == \A F, G, s : F \subseteq G /\ MadeOf(F, s) => MadeOf(G, s)
BY DEF MadeOf

Grows == formats \subseteq formats' /\ size <= size'

LEMMA GrowsKeeps ==
  ASSUME BlockType, BlockType', Grows
  PROVE  Fitting \subseteq Fitting' /\ (Collides => Collides')
<1>1. size \in Nat /\ size' \in Nat /\ size <= size' /\ formats \subseteq formats'
  BY NumbersAre DEF BlockType, Grows
<1>2. Fitting \subseteq Fitting'
  <2> SUFFICES ASSUME NEW f \in formats, Fits(f) PROVE f \in formats' /\ Fits(f)'
    BY DEF Fitting
  <2> DEFINE n == f[2] * f[1]
  <2>1. f \in Config
    BY DEF BlockType
  <2>2. f[1] \in Nat /\ f[2] \in Nat
    BY <2>1, PageSizesAre, NumbersAre DEF Config
  <2>3. n \in Nat
    BY <2>2
  <2>4. n <= size \/ n >= Modulus
    BY DEF Fits
  <2> HIDE DEF n
  <2>5. n <= size' \/ n >= Modulus
    BY <1>1, <2>3, <2>4
  <2>6. QED
    BY <1>1, <2>5 DEF Fits, n
<1>3. Collides => Collides'
  BY <1>1 DEF Collides
<1>4. QED
  BY <1>2, <1>3

LEMMA BlockInit == Init => BlockInv
<1> SUFFICES ASSUME Init PROVE BlockInv
  OBVIOUS
<1> USE SuperSizeIs, NumbersAre, ModulusIs
<1>1. /\ file = [i \in 1..SuperSize |-> {}] /\ size \in FileSizes
      /\ mkfs = MkfsIdle /\ server = ServerIdle /\ formats = {}
  BY DEF Init
<1>2. {} \in Byte /\ <<>> \in Seq(Byte) /\ 0 \in Number
  BY DEF Byte
<1>3. size \in Number
  BY <1>1, SuperAssumption
<1>4. BlockType
  BY <1>1, <1>2, <1>3 DEF BlockType, MkfsIdle, ServerIdle
<1>5. FileIsMade
  <2>1. Len(file) = SuperSize
    BY <1>1
  <2>2. QED
    BY <1>1, <2>1 DEF FileIsMade, MadeOf
<1>6. BufferIsMade
  BY <1>1 DEF BufferIsMade, MadeOf, ServerIdle
<1>7. MkfsKnows /\ BufferAndLeft /\ MountedKnown
  BY <1>1 DEF MkfsKnows, BufferAndLeft, MountedKnown, MkfsIdle, ServerIdle
<1>8. QED
  BY <1>4, <1>5, <1>6, <1>7 DEF BlockInv

(***************************************************************************)
(* The steps                                                               *)
(***************************************************************************)

\* What mkfs settles on are numbers.
LEMMA SettledTyped ==
  ASSUME NEW ps \in PageSizes, NEW b \in Number, NEW p \in Number, size \in Number
  PROVE  Settled(ps, b, p).bytes \in Number /\ Settled(ps, b, p).pages \in Number
<1> USE NumbersAre, ModulusIs
<1>1. ps \in Nat \ {0}
  BY PageSizesAre
<1>2. \A n \in Nat : /\ n % ps \in Nat /\ n % ps <= n /\ n \div ps \in Nat /\ n \div ps <= n
                     /\ n % Modulus \in Nat /\ n % Modulus < Modulus
  <2> SUFFICES ASSUME NEW n \in Nat
               PROVE  /\ n % ps \in Nat /\ n % ps <= n /\ n \div ps \in Nat /\ n \div ps <= n
                      /\ n % Modulus \in Nat /\ n % Modulus < Modulus
    OBVIOUS
  <2> DEFINE q == n \div ps
             r == n % ps
  <2>1. q \in Nat /\ r \in Nat /\ n = q * ps + r
    BY <1>1
  <2>2. n % Modulus \in Nat /\ n % Modulus < Modulus
    OBVIOUS
  <2> HIDE DEF q, r
  <2>3. PICK d \in Nat : ps = d + 1
    <3>1. ps - 1 \in Nat /\ ps = (ps - 1) + 1
      BY <1>1
    <3>2. QED
      BY <3>1
  <2>4. q * ps = q * d + q /\ q * d \in Nat
    BY <2>1, <2>3
  <2>5. q <= n /\ r <= n
    BY <2>1, <2>4
  <2>6. QED
    BY <2>1, <2>2, <2>5 DEF q, r
<1> DEFINE asked == IF b = 0 /\ p = 0 THEN size ELSE b
           whole == Rounded(ps, asked)
           total == IF whole = 0 THEN (p * ps) % Modulus ELSE whole
<1>3. asked \in Number
  OBVIOUS
<1>4. whole \in Number
  <2> HIDE DEF asked
  <2>1. asked \in Nat /\ asked < Modulus
    BY <1>3
  <2>2. asked % ps \in Nat /\ asked % ps <= asked
    BY <1>2, <2>1
  <2>3. asked - (asked % ps) \in Nat /\ asked - (asked % ps) < Modulus
    BY <2>1, <2>2
  <2>4. QED
    BY <2>3 DEF Rounded
<1> HIDE DEF whole
<1>5. (p * ps) % Modulus \in Number
  <2>1. p * ps \in Nat
    BY <1>1
  <2>2. QED
    BY <1>2, <2>1
<1>6. total \in Number
  BY <1>4, <1>5
<1>7. total \div ps \in Number
  <2> HIDE DEF total
  <2>1. total \in Nat /\ total < Modulus
    BY <1>6
  <2>2. total \div ps \in Nat /\ total \div ps <= total
    BY <1>2, <2>1
  <2>3. QED
    BY <2>1, <2>2
<1>8. Settled(ps, b, p) = [bytes |-> total, pages |-> IF p = 0 THEN total \div ps ELSE p]
  BY DEF Settled, whole
<1> HIDE DEF total
<1>9. QED
  BY <1>6, <1>7, <1>8

\* How many bytes a call of the system may move.
LEMMA TransfersAre ==
  ASSUME NEW n \in Nat, NEW m \in Transfers(n) PROVE m \in Nat /\ m <= n /\ (n > 0 => m > 0)
BY SuperAssumption DEF Transfers

LEMMA MinOfTwo ==
  ASSUME NEW a \in Nat, NEW b \in Nat
  PROVE  Min({a, b}) \in {a, b} /\ Min({a, b}) <= a /\ Min({a, b}) <= b
<1>1. {a, b} \in SUBSET Nat /\ {a, b} # {}
  OBVIOUS
<1>2. Min({a, b}) \in {a, b} /\ \A j \in {a, b} : Min({a, b}) <= j
  BY <1>1, MinIs
<1>3. QED
  BY <1>2

LEMMA StartKeeps ==
  ASSUME BlockInv, NEW ps \in PageSizes, NEW b \in ByteCounts, NEW p \in PageCounts,
         MkfsStart(ps, b, p)
  PROVE  BlockType' /\ Grows /\ MkfsKnows'
<1> USE NumbersAre, ModulusIs, SuperSizeIs DEF BlockInv
<1> DEFINE c == Settled(ps, b, p)
           f == <<ps, c.pages>>
<1>1. /\ Agrees(ps, c)
      /\ mkfs' = [pc |-> IF IsTooShort(c.bytes) THEN "truncate" ELSE "write",
                  bytes |-> c.bytes, block |-> Super(ps, c.pages), done |-> 0]
      /\ formats' = formats \cup {<<ps, c.pages>>}
      /\ file' = file /\ size' = size /\ server' = server
  BY DEF MkfsStart
<1>2. size \in Number
  BY DEF BlockType
<1>3. c.bytes \in Number /\ c.pages \in Number
  <2>1. b \in Number /\ p \in Number
    BY SuperAssumption
  <2>2. QED
    BY <1>2, <2>1, SettledTyped
<1> HIDE DEF c
<1>4. f \in Config /\ f[1] = ps /\ f[2] = c.pages
  BY <1>3 DEF Config
<1>5. Super(ps, c.pages) \in Seq(Byte)
  BY SuperTyped
<1>6. BlockType'
  <2> DEFINE next == IF IsTooShort(c.bytes) THEN "truncate" ELSE "write"
             block == Super(ps, c.pages)
  <2>1. next \in {"idle", "truncate", "write"} /\ 0 \in 0..(SuperSize - 1)
    OBVIOUS
  <2>2. block \in Seq(Byte)
    BY <1>5
  <2>3. mkfs' = [pc |-> next, bytes |-> c.bytes, block |-> block, done |-> 0]
    BY <1>1
  <2>4. formats' \subseteq Config
    BY <1>1, <1>4 DEF BlockType
  <2> HIDE DEF next, block
  <2>5. mkfs' \in [pc : {"idle", "truncate", "write"}, bytes : Number, block : Seq(Byte),
                   done : 0..(SuperSize - 1)]
    BY <1>3, <2>1, <2>2, <2>3
  <2>6. QED
    BY <1>1, <2>4, <2>5 DEF BlockType
<1>7. Grows
  BY <1>1, <1>2 DEF Grows
<1>8. MkfsKnows'
  <2>1. f \in formats' /\ mkfs'.block = BlockOf(f)
    BY <1>1, <1>4 DEF BlockOf
  <2>2. (f[2] * f[1]) % Modulus = mkfs'.bytes
    BY <1>1, <1>4 DEF Agrees
  <2>3. /\ mkfs'.pc = "write" => mkfs'.bytes <= size'
        /\ mkfs'.pc = "truncate" => mkfs'.bytes > size'
    BY <1>1, <1>2, <1>3 DEF IsTooShort
  <2> HIDE DEF f
  <2>4. QED
    BY <2>1, <2>2, <2>3 DEF MkfsKnows, BlockOf
<1>9. QED
  BY <1>6, <1>7, <1>8

LEMMA TruncateKeeps ==
  BlockInv /\ MkfsTruncate => BlockType' /\ Grows /\ MkfsKnows'
<1> SUFFICES ASSUME BlockInv, MkfsTruncate PROVE BlockType' /\ Grows /\ MkfsKnows'
  OBVIOUS
<1> USE NumbersAre, ModulusIs, SuperSizeIs DEF BlockInv
<1>1. /\ mkfs.pc = "truncate" /\ size' = mkfs.bytes /\ mkfs' = [mkfs EXCEPT !.pc = "write"]
      /\ file' = file /\ server' = server /\ formats' = formats
  BY DEF MkfsTruncate
<1>2. mkfs.bytes \in Number /\ size \in Number
  BY DEF BlockType
<1>3. PICK f \in formats : /\ mkfs.block = BlockOf(f)
                           /\ (f[2] * f[1]) % Modulus = mkfs.bytes
                           /\ mkfs.bytes > size
  BY <1>1 DEF MkfsKnows
<1>4. /\ mkfs'.pc = "write" /\ mkfs'.bytes = mkfs.bytes /\ mkfs'.block = mkfs.block
      /\ mkfs'.done = mkfs.done
  BY <1>1 DEF BlockType
<1>5. BlockType'
  BY <1>1, <1>2 DEF BlockType
<1>6. Grows
  BY <1>1, <1>2, <1>3 DEF Grows
<1>7. MkfsKnows'
  <2>1. mkfs'.bytes <= size'
    BY <1>1, <1>2, <1>4
  <2>2. f \in formats' /\ mkfs'.block = BlockOf(f) /\ (f[2] * f[1]) % Modulus = mkfs'.bytes
    BY <1>1, <1>3, <1>4
  <2>3. QED
    BY <1>4, <2>1, <2>2 DEF MkfsKnows, BlockOf
<1>8. QED
  BY <1>5, <1>6, <1>7

LEMMA WriteKeeps ==
  BlockInv /\ MkfsWrite => BlockType' /\ Grows /\ MkfsKnows' /\ FileIsMade'
<1> SUFFICES ASSUME BlockInv, MkfsWrite
             PROVE  BlockType' /\ Grows /\ MkfsKnows' /\ FileIsMade'
  OBVIOUS
<1> USE NumbersAre, ModulusIs, SuperSizeIs DEF BlockInv
<1>1. /\ mkfs.pc = "write" /\ server' = server /\ formats' = formats
  BY DEF MkfsWrite
<1>2. PICK n \in Transfers(SuperSize - mkfs.done) :
        LET end == mkfs.done + n
        IN  /\ file' = [i \in 1..SuperSize |->
                          IF i \in (mkfs.done + 1)..end THEN mkfs.block[i] ELSE file[i]]
            /\ size' = IF size < end THEN end ELSE size
            /\ mkfs' = IF IsWholeBlock(end) THEN MkfsIdle ELSE [mkfs EXCEPT !.done = end]
  BY DEF MkfsWrite
<1> DEFINE end == mkfs.done + n
<1>3. /\ mkfs.done \in 0..(SuperSize - 1) /\ size \in Number /\ mkfs.bytes \in Number
      /\ mkfs.block \in Seq(Byte) /\ file \in [1..SuperSize -> Byte]
  BY DEF BlockType
<1>4. end \in 1..SuperSize
  <2>1. SuperSize - mkfs.done \in Nat /\ SuperSize - mkfs.done > 0
    BY <1>3
  <2>2. n \in Nat /\ n <= SuperSize - mkfs.done /\ n > 0
    BY <2>1, TransfersAre
  <2>3. QED
    BY <1>3, <2>2
<1>5. /\ file' = [i \in 1..SuperSize |->
                    IF i \in (mkfs.done + 1)..end THEN mkfs.block[i] ELSE file[i]]
      /\ size' = IF size < end THEN end ELSE size
      /\ mkfs' = IF IsWholeBlock(end) THEN MkfsIdle ELSE [mkfs EXCEPT !.done = end]
  BY <1>2
<1> HIDE DEF end
<1>6. PICK f \in formats : /\ mkfs.block = BlockOf(f)
                           /\ (f[2] * f[1]) % Modulus = mkfs.bytes
                           /\ mkfs.bytes <= size
  BY <1>1 DEF MkfsKnows
<1>7. f \in Config
  BY DEF BlockType
<1>8. Len(mkfs.block) = SuperSize
  BY <1>6, SuperTyped DEF BlockOf
<1>9. size' \in Number /\ size <= size'
  BY <1>3, <1>4, <1>5
<1>10. file' \in [1..SuperSize -> Byte]
  BY <1>3, <1>5, <1>8
<1>11. BlockType'
  <2>1. CASE IsWholeBlock(end)
    <3>1. mkfs' = MkfsIdle /\ <<>> \in Seq(Byte)
      BY <1>5, <2>1
    <3>2. QED
      BY <3>1, <1>1, <1>9, <1>10 DEF BlockType, MkfsIdle
  <2>2. CASE ~IsWholeBlock(end)
    <3>1. mkfs' = [mkfs EXCEPT !.done = end]
      BY <1>5, <2>2
    <3>2. end \in 0..(SuperSize - 1)
      BY <1>4, <2>2 DEF IsWholeBlock
    <3>3. QED
      BY <3>1, <3>2, <1>1, <1>9, <1>10 DEF BlockType
  <2>3. QED
    BY <2>1, <2>2
<1>12. Grows
  BY <1>1, <1>9 DEF Grows
<1>13. MkfsKnows'
  <2>1. CASE IsWholeBlock(end)
    BY <1>5, <2>1 DEF MkfsKnows, MkfsIdle
  <2>2. CASE ~IsWholeBlock(end)
    <3>1. mkfs' = [mkfs EXCEPT !.done = end]
      BY <1>5, <2>2
    <3>2. /\ mkfs'.pc = "write" /\ mkfs'.bytes = mkfs.bytes /\ mkfs'.block = mkfs.block
      BY <3>1, <1>1 DEF BlockType
    <3>3. mkfs'.bytes <= size'
      BY <1>3, <1>6, <1>9, <3>2
    <3>4. f \in formats' /\ mkfs'.block = BlockOf(f) /\ (f[2] * f[1]) % Modulus = mkfs'.bytes
      BY <1>1, <1>6, <3>2
    <3>5. QED
      BY <3>2, <3>3, <3>4 DEF MkfsKnows, BlockOf
  <2>3. QED
    BY <2>1, <2>2
<1>14. f \in Fitting
  BY <1>3, <1>6, <1>7, FitsMeans DEF Fitting
<1>15. Fitting \subseteq Fitting'
  BY <1>11, <1>12, GrowsKeeps
<1>16. FileIsMade'
  <2>1. Len(file) = SuperSize /\ Len(file') = SuperSize
    BY <1>3, <1>10
  <2>2. ASSUME NEW i \in 1..SuperSize
        PROVE  file'[i] = {} \/ \E g \in Fitting' : file'[i] = BlockOf(g)[i]
    <3>1. CASE i \in (mkfs.done + 1)..end
      <4>1. file'[i] = BlockOf(f)[i]
        BY <1>5, <1>6, <3>1
      <4>2. QED
        BY <4>1, <1>14, <1>15
    <3>2. CASE i \notin (mkfs.done + 1)..end
      <4>1. file'[i] = file[i]
        BY <1>5, <3>2
      <4>2. file[i] = {} \/ \E g \in Fitting : file[i] = BlockOf(g)[i]
        BY <2>1 DEF FileIsMade, MadeOf
      <4>3. QED
        BY <4>1, <4>2, <1>15
    <3>3. QED
      BY <3>1, <3>2
  <2>3. \A F, s : (\A i \in 1..Len(s) : s[i] = {} \/ \E g \in F : s[i] = BlockOf(g)[i]) => MadeOf(F, s)
    BY DEF MadeOf
  <2> DEFINE F == Fitting'
             s == file'
  <2>4. \A i \in 1..Len(s) : s[i] = {} \/ \E g \in F : s[i] = BlockOf(g)[i]
    BY <2>1, <2>2
  <2> HIDE DEF F, s
  <2>5. MadeOf(F, s)
    BY <2>3, <2>4
  <2>6. MadeOf(F, s) = FileIsMade'
    BY DEF F, s, FileIsMade, MadeOf, BlockOf
  <2>7. QED
    BY <2>5, <2>6
<1>17. QED
  BY <1>11, <1>12, <1>13, <1>16

LEMMA StopsKeeps ==
  BlockInv /\ MkfsStops => BlockType' /\ Grows /\ MkfsKnows'
<1> SUFFICES ASSUME BlockInv, MkfsStops PROVE BlockType' /\ Grows /\ MkfsKnows'
  OBVIOUS
<1> USE NumbersAre, ModulusIs, SuperSizeIs DEF BlockInv
<1>1. mkfs' = MkfsIdle /\ file' = file /\ size' = size /\ server' = server /\ formats' = formats
  BY DEF MkfsStops
<1>2. <<>> \in Seq(Byte) /\ size \in Number
  BY DEF BlockType
<1>3. BlockType'
  BY <1>1, <1>2 DEF BlockType, MkfsIdle
<1>4. Grows
  BY <1>1, <1>2 DEF Grows
<1>5. MkfsKnows'
  BY <1>1 DEF MkfsKnows, MkfsIdle
<1>6. QED
  BY <1>3, <1>4, <1>5

\* A server that starts has read nothing yet.
LEMMA ServerStartKeeps ==
  BlockInv /\ ServerStart => BlockType' /\ Grows /\ BufferIsMade' /\ BufferAndLeft' /\ MountedKnown'
<1> SUFFICES ASSUME BlockInv, ServerStart
             PROVE  BlockType' /\ Grows /\ BufferIsMade' /\ BufferAndLeft' /\ MountedKnown'
  OBVIOUS
<1> USE NumbersAre, ModulusIs, SuperSizeIs DEF BlockInv
<1>1. /\ server' = [pc |-> "read", buf |-> <<>>, left |-> SuperSize, page_size |-> 0, pages |-> 0]
      /\ file' = file /\ size' = size /\ mkfs' = mkfs /\ formats' = formats
  BY DEF ServerStart, ServerIdle
<1>2. <<>> \in Seq(Byte) /\ size \in Number
  BY DEF BlockType
<1>3. BlockType'
  BY <1>1, <1>2 DEF BlockType
<1>4. Grows
  BY <1>1, <1>2 DEF Grows
<1>5. BufferIsMade'
  BY <1>1 DEF BufferIsMade, MadeOf
<1>6. BufferAndLeft' /\ MountedKnown'
  BY <1>1 DEF BufferAndLeft, MountedKnown
<1>7. QED
  BY <1>3, <1>4, <1>5, <1>6

\* What is read comes from the file, at the place where it belongs.
LEMMA ServerReadKeeps ==
  BlockInv /\ ServerRead => BlockType' /\ Grows /\ BufferIsMade' /\ BufferAndLeft' /\ MountedKnown'
<1> SUFFICES ASSUME BlockInv, ServerRead
             PROVE  BlockType' /\ Grows /\ BufferIsMade' /\ BufferAndLeft' /\ MountedKnown'
  OBVIOUS
<1> USE NumbersAre, ModulusIs, SuperSizeIs DEF BlockInv
<1> DEFINE buf == server.buf
           left == server.left
<1>1. /\ server.pc = "read" /\ left > 0 /\ Len(buf) < size
      /\ file' = file /\ size' = size /\ mkfs' = mkfs /\ formats' = formats
  BY DEF ServerRead
<1>2. PICK n \in Transfers(Min({left, size - Len(buf)})) :
        server' = [server EXCEPT !.buf = buf \o SubSeq(file, Len(buf) + 1, Len(buf) + n),
                                 !.left = left - n]
  BY DEF ServerRead, BlockType
<1>3. /\ buf \in Seq(Byte) /\ left \in Nat /\ left <= SuperSize /\ size \in Nat
      /\ Len(buf) \in Nat /\ Len(buf) + left = SuperSize /\ file \in [1..SuperSize -> Byte]
  BY <1>1 DEF BlockType, BufferAndLeft
<1>4. n \in Nat /\ n <= left
  <2> DEFINE rest == size - Len(buf)
             m == Min({left, rest})
  <2>1. rest \in Nat
    BY <1>1, <1>3
  <2> HIDE DEF rest
  <2>2. m \in Nat /\ m <= left
    BY <1>3, <2>1, MinOfTwo
  <2>3. n \in Transfers(m)
    BY DEF rest
  <2> HIDE DEF m
  <2>4. n \in Nat /\ n <= m
    BY <2>2, <2>3, TransfersAre
  <2>5. QED
    BY <1>3, <2>2, <2>4
<1> DEFINE got == SubSeq(file, Len(buf) + 1, Len(buf) + n)
           next == buf \o got
<1>5. /\ got \in Seq(Byte) /\ Len(got) = n
      /\ \A k \in 1..n : got[k] = file[Len(buf) + k]
  <2> DEFINE b == Len(buf)
  <2>1. file \in Seq(Byte) /\ Len(file) = SuperSize
    BY <1>3
  <2>2. b \in Nat /\ b + n <= SuperSize /\ b + 1 \in 1..(SuperSize + 1) /\ b + n \in 0..SuperSize
    BY <1>3, <1>4
  <2> HIDE DEF b
  <2> DEFINE part_of == SubSeq(file, b + 1, b + n)
  <2>3. part_of = [k \in 1..n |-> file[b + k]]
    BY <1>4, <2>1, <2>2
  <2>4. \A k \in 1..n : b + k \in 1..SuperSize
    BY <1>4, <2>2
  <2>5. \A k \in 1..n : file[b + k] \in Byte
    BY <1>3, <2>4
  <2>6. part_of = got
    BY DEF b
  <2> HIDE DEF part_of
  <2>7. /\ part_of \in Seq(Byte) /\ Len(part_of) = n
        /\ \A k \in 1..n : part_of[k] = file[b + k]
    BY <1>4, <2>3, <2>5
  <2> HIDE DEF got
  <2>8. QED
    BY <2>6, <2>7 DEF b
<1> HIDE DEF buf, left, got
<1>6. /\ next \in Seq(Byte) /\ Len(next) = Len(buf) + n
      /\ \A k \in 1..Len(buf) : next[k] = buf[k]
      /\ \A k \in 1..n : next[Len(buf) + k] = got[k]
  <2>1. Joins(next, buf, Len(buf), got, n)
    BY <1>3, <1>4, <1>5, BytesJoin
  <2>2. QED
    BY <2>1 DEF Joins
<1> HIDE DEF next
<1>7. server' = [server EXCEPT !.buf = next, !.left = left - n]
  BY <1>2 DEF next, got
<1>8. left - n \in 0..SuperSize
  BY <1>3, <1>4
<1>9. /\ server'.pc = "read" /\ server'.buf = next /\ server'.left = left - n
      /\ server' \in [pc : {"idle", "read", "check", "mounted"}, buf : Seq(Byte),
                      left : 0..SuperSize, page_size : Number, pages : Number]
  BY <1>1, <1>6, <1>7, <1>8 DEF BlockType
<1>10. BlockType'
  BY <1>1, <1>9 DEF BlockType
<1>11. Grows
  BY <1>1, <1>3 DEF Grows
<1>12. Fitting' = Fitting
  BY <1>1 DEF Fitting, Fits
<1>13. ASSUME NEW i \in 1..Len(next)
       PROVE  next[i] = {} \/ \E f \in Fitting : next[i] = BlockOf(f)[i]
  <2>1. CASE i \in 1..Len(buf)
    <3>1. next[i] = buf[i]
      BY <1>6, <2>1
    <3>2. buf[i] = {} \/ \E f \in Fitting : buf[i] = BlockOf(f)[i]
      BY <2>1 DEF BufferIsMade, MadeOf, buf
    <3>3. QED
      BY <3>1, <3>2
  <2>2. CASE i \notin 1..Len(buf)
    <3>1. i - Len(buf) \in 1..n /\ Len(buf) + (i - Len(buf)) = i /\ i \in 1..SuperSize
      BY <1>3, <1>4, <1>6, <2>2
    <3>2. next[i] = file[i]
      BY <1>5, <1>6, <3>1
    <3>3. Len(file) = SuperSize
      BY <1>3
    <3>4. file[i] = {} \/ \E f \in Fitting : file[i] = BlockOf(f)[i]
      BY <3>1, <3>3 DEF FileIsMade, MadeOf
    <3>5. QED
      BY <3>2, <3>4
  <2>3. QED
    BY <2>1, <2>2
<1>14. MadeOf(Fitting, next)
  BY <1>13 DEF MadeOf
<1>15. BufferIsMade'
  <2>1. MadeOf(Fitting, next) = BufferIsMade'
    BY <1>1, <1>9, <1>12 DEF BufferIsMade, MadeOf, BlockOf
  <2>2. QED
    BY <1>14, <2>1
<1>16. BufferAndLeft'
  BY <1>3, <1>4, <1>6, <1>9 DEF BufferAndLeft
<1>17. MountedKnown'
  BY <1>9 DEF MountedKnown
<1>18. QED
  BY <1>10, <1>11, <1>15, <1>16, <1>17

LEMMA ServerReadEndsKeeps ==
  BlockInv /\ ServerReadEnds =>
    BlockType' /\ Grows /\ BufferIsMade' /\ BufferAndLeft' /\ MountedKnown'
<1> SUFFICES ASSUME BlockInv, ServerReadEnds
             PROVE  BlockType' /\ Grows /\ BufferIsMade' /\ BufferAndLeft' /\ MountedKnown'
  OBVIOUS
<1> USE NumbersAre, ModulusIs, SuperSizeIs DEF BlockInv
<1>1. /\ server' = [server EXCEPT !.pc = "check"]
      /\ file' = file /\ size' = size /\ mkfs' = mkfs /\ formats' = formats
  BY DEF ServerReadEnds
<1>2. server'.pc = "check" /\ server'.buf = server.buf /\ size \in Number
  BY <1>1 DEF BlockType
<1>3. BlockType'
  <2>1. server \in ServerRecord
    BY DEF BlockType, ServerRecord
  <2>2. server' \in ServerRecord
    BY <1>1, <2>1 DEF ServerRecord
  <2>3. QED
    BY <1>1, <2>2 DEF BlockType, ServerRecord
<1>4. Grows
  BY <1>1, <1>2 DEF Grows
<1>5. BufferIsMade'
  BY <1>1, <1>2 DEF BufferIsMade, MadeOf, Fitting, Fits, BlockOf
<1>6. BufferAndLeft' /\ MountedKnown'
  BY <1>2 DEF BufferAndLeft, MountedKnown
<1>7. QED
  BY <1>3, <1>4, <1>5, <1>6

\* A block the server accepts is that of one configuration, or a collision.
LEMMA ServerChecksKeeps ==
  BlockInv /\ ServerChecks => BlockType' /\ Grows /\ BufferIsMade' /\ BufferAndLeft' /\ MountedKnown'
<1> SUFFICES ASSUME BlockInv, ServerChecks
             PROVE  BlockType' /\ Grows /\ BufferIsMade' /\ BufferAndLeft' /\ MountedKnown'
  OBVIOUS
<1> USE NumbersAre, ModulusIs, SuperSizeIs DEF BlockInv
<1> DEFINE buf == server.buf
           a == FromBits(Field(buf, 1))
           b == FromBits(Field(buf, 2))
<1>1. /\ server' = IF Accepts(buf)
                   THEN [ServerIdle EXCEPT !.pc = "mounted", !.page_size = a, !.pages = b]
                   ELSE ServerIdle
      /\ file' = file /\ size' = size /\ mkfs' = mkfs /\ formats' = formats
  BY DEF ServerChecks
<1>2. buf \in Seq(Byte) /\ size \in Number /\ <<>> \in Seq(Byte)
  BY DEF BlockType
<1>3. Grows
  BY <1>1, <1>2 DEF Grows
<1>4. MadeOf(Fitting, buf)
  BY DEF BufferIsMade
<1> HIDE DEF buf, a, b
<1>5. server'.buf = <<>> /\ server'.pc # "read"
  BY <1>1 DEF ServerIdle
<1>6. BufferIsMade' /\ BufferAndLeft'
  BY <1>5 DEF BufferIsMade, MadeOf, BufferAndLeft
<1>7. CASE Accepts(buf)
  <2>1. server' = [pc |-> "mounted", buf |-> <<>>, left |-> 0, page_size |-> a, pages |-> b]
    BY <1>1, <1>7 DEF ServerIdle
  <2>2. a \in Number /\ b \in Number
    <3>1. Len(buf) = SuperSize
      BY <1>7 DEF Accepts
    <3>2. Field(buf, 1) \in Word /\ Field(buf, 2) \in Word
      BY <1>2, <3>1, FieldTyped
    <3>3. QED
      BY <3>2, FromBitsTyped DEF a, b
  <2>3. BlockType'
    <3>1. server' \in ServerRecord
      BY <1>2, <2>1, <2>2 DEF ServerRecord
    <3>2. QED
      BY <1>1, <3>1 DEF BlockType, ServerRecord
  <2>4. Fitting \subseteq formats /\ Fitting' = Fitting /\ Collides' = Collides
    BY <1>1 DEF Fitting, Fits, Collides, MadeOf, BlockOf
  <2>5. ASSUME ~Collides PROVE <<a, b>> \in Fitting'
    <3>1. PICK f \in Fitting : buf = BlockOf(f)
      BY <1>2, <1>4, <1>7, <2>4, <2>5 DEF Collides
    <3>2. f \in Config
      BY <2>4 DEF BlockType
    <3>3. f[1] \in Number /\ f[2] \in Number /\ f = <<f[1], f[2]>>
      BY <3>2, PageSizesAre DEF Config
    <3>4. a = f[1] /\ b = f[2]
      BY <3>1, <3>3, SuperIsAccepted DEF BlockOf, a, b
    <3>5. QED
      BY <2>4, <3>3, <3>4
  <2>6. server'.page_size = a /\ server'.pages = b
    BY <2>1
  <2>7. MountedKnown'
    BY <2>4, <2>5, <2>6 DEF MountedKnown
  <2>8. QED
    BY <1>3, <1>6, <2>3, <2>7
<1>8. CASE ~Accepts(buf)
  <2>1. server' = ServerIdle
    BY <1>1, <1>8
  <2>2. server' \in ServerRecord /\ server'.pc = "idle"
    BY <1>2, <2>1 DEF ServerRecord, ServerIdle
  <2>3. BlockType'
    BY <1>1, <2>2 DEF BlockType, ServerRecord
  <2>4. MountedKnown'
    BY <2>2 DEF MountedKnown
  <2>5. QED
    BY <1>3, <1>6, <2>3, <2>4
<1>9. QED
  BY <1>7, <1>8

LEMMA ServerStopsKeeps ==
  BlockInv /\ ServerStops => BlockType' /\ Grows /\ BufferIsMade' /\ BufferAndLeft' /\ MountedKnown'
<1> SUFFICES ASSUME BlockInv, ServerStops
             PROVE  BlockType' /\ Grows /\ BufferIsMade' /\ BufferAndLeft' /\ MountedKnown'
  OBVIOUS
<1> USE NumbersAre, ModulusIs, SuperSizeIs DEF BlockInv
<1>1. /\ server' = ServerIdle
      /\ file' = file /\ size' = size /\ mkfs' = mkfs /\ formats' = formats
  BY DEF ServerStops
<1>2. <<>> \in Seq(Byte) /\ size \in Number
  BY DEF BlockType
<1>3. BlockType'
  BY <1>1, <1>2 DEF BlockType, ServerIdle
<1>4. Grows
  BY <1>1, <1>2 DEF Grows
<1>5. BufferIsMade'
  BY <1>1 DEF BufferIsMade, MadeOf, ServerIdle
<1>6. BufferAndLeft' /\ MountedKnown'
  BY <1>1 DEF BufferAndLeft, MountedKnown, ServerIdle
<1>7. QED
  BY <1>3, <1>4, <1>5, <1>6

\* What a step of the other process leaves alone stays true of the file, of
\* what has been read and of what is mounted: Fitting only grows.
LEMMA OthersKeep ==
  ASSUME BlockInv, BlockType', Grows
  PROVE  /\ file' = file => FileIsMade'
         /\ server' = server => BufferIsMade' /\ BufferAndLeft' /\ MountedKnown'
<1> USE DEF BlockInv
<1>1. Fitting \subseteq Fitting' /\ (Collides => Collides')
  BY GrowsKeeps
<1>2. FileIsMade /\ BufferIsMade /\ BufferAndLeft /\ MountedKnown
  OBVIOUS
<1>3. MadeOf(Fitting', file) /\ MadeOf(Fitting', server.buf)
  BY <1>1, <1>2, MadeOfGrows DEF FileIsMade, BufferIsMade
<1>4. file' = file => FileIsMade'
  <2> SUFFICES ASSUME file' = file PROVE FileIsMade'
    OBVIOUS
  <2>1. FileIsMade' = MadeOf(Fitting', file)
    BY DEF FileIsMade, MadeOf, BlockOf
  <2>2. QED
    BY <1>3, <2>1
<1>5. server' = server => BufferIsMade'
  <2> SUFFICES ASSUME server' = server PROVE BufferIsMade'
    OBVIOUS
  <2>1. BufferIsMade' = MadeOf(Fitting', server.buf)
    BY DEF BufferIsMade, MadeOf, BlockOf
  <2>2. QED
    BY <1>3, <2>1
<1>6. server' = server => BufferAndLeft' /\ MountedKnown'
  BY <1>1, <1>2 DEF BufferAndLeft, MountedKnown
<1>7. QED
  BY <1>4, <1>5, <1>6

LEMMA BlockStutters == BlockInv /\ UNCHANGED superVars => BlockInv'
<1> SUFFICES ASSUME BlockInv, UNCHANGED superVars PROVE BlockInv'
  OBVIOUS
<1>1. file' = file /\ size' = size /\ mkfs' = mkfs /\ server' = server /\ formats' = formats
  BY DEF superVars
<1>2. BlockType'
  BY <1>1 DEF BlockInv, BlockType
<1>3. size \in Nat
  BY NumbersAre DEF BlockInv, BlockType
<1>4. Grows
  BY <1>1, <1>3 DEF Grows
<1>5. MkfsKnows'
  BY <1>1 DEF BlockInv, MkfsKnows, BlockOf
<1>6. QED
  BY <1>1, <1>2, <1>4, <1>5, OthersKeep DEF BlockInv

LEMMA BlockStep == BlockInv /\ [Next]_vars => BlockInv'
<1> SUFFICES ASSUME BlockInv, [Next]_vars PROVE BlockInv'
  OBVIOUS
<1> DEFINE File == file' = file
           Mkfs == mkfs' = mkfs /\ formats' = formats /\ size' = size
           Server == server' = server
<1>1. ASSUME BlockType', Grows, FileIsMade' \/ File, MkfsKnows' \/ Mkfs,
             (BufferIsMade' /\ BufferAndLeft' /\ MountedKnown') \/ Server
      PROVE  BlockInv'
  <2>1. FileIsMade'
    BY <1>1, OthersKeep
  <2>2. BufferIsMade' /\ BufferAndLeft' /\ MountedKnown'
    BY <1>1, OthersKeep
  <2>3. Mkfs => MkfsKnows'
    BY DEF BlockInv, MkfsKnows, BlockOf
  <2>4. QED
    BY <1>1, <2>1, <2>2, <2>3 DEF BlockInv
<1>2. ASSUME NEW ps \in PageSizes, NEW b \in ByteCounts, NEW p \in PageCounts,
             MkfsStart(ps, b, p)
      PROVE  BlockInv'
  <2>1. File /\ Server
    BY <1>2 DEF MkfsStart
  <2>2. BlockType' /\ Grows /\ MkfsKnows'
    BY <1>2, StartKeeps
  <2>3. QED
    BY <1>1, <2>1, <2>2
<1>3. CASE MkfsTruncate
  <2>1. File /\ Server
    BY <1>3 DEF MkfsTruncate
  <2>2. QED
    BY <1>1, <1>3, <2>1, TruncateKeeps
<1>4. CASE MkfsWrite
  <2>1. Server
    BY <1>4 DEF MkfsWrite
  <2>2. QED
    BY <1>1, <1>4, <2>1, WriteKeeps
<1>5. CASE MkfsStops
  <2>1. File /\ Server
    BY <1>5 DEF MkfsStops
  <2>2. QED
    BY <1>1, <1>5, <2>1, StopsKeeps
<1>6. CASE ServerStart
  <2>1. File /\ Mkfs
    BY <1>6 DEF ServerStart
  <2>2. QED
    BY <1>1, <1>6, <2>1, ServerStartKeeps
<1>7. CASE ServerRead
  <2>1. File /\ Mkfs
    BY <1>7 DEF ServerRead
  <2>2. QED
    BY <1>1, <1>7, <2>1, ServerReadKeeps
<1>8. CASE ServerReadEnds
  <2>1. File /\ Mkfs
    BY <1>8 DEF ServerReadEnds
  <2>2. QED
    BY <1>1, <1>8, <2>1, ServerReadEndsKeeps
<1>9. CASE ServerChecks
  <2>1. File /\ Mkfs
    BY <1>9 DEF ServerChecks
  <2>2. QED
    BY <1>1, <1>9, <2>1, ServerChecksKeeps
<1>10. CASE ServerStops
  <2>1. File /\ Mkfs
    BY <1>10 DEF ServerStops
  <2>2. QED
    BY <1>1, <1>10, <2>1, ServerStopsKeeps
<1>11. CASE CrcAlone \/ UNCHANGED vars
  <2>1. UNCHANGED superVars
    BY <1>11 DEF CrcAlone, vars
  <2>2. QED
    BY <2>1, BlockStutters
<1>12. QED
  BY <1>2, <1>3, <1>4, <1>5, <1>6, <1>7, <1>8, <1>9, <1>10, <1>11 DEF Next

\* The block a mkfs holds is a whole one, or there is none.
LengthIs == Len(mkfs.block) \in {0, SuperSize}

LEMMA LengthStep == BlockInv /\ LengthIs /\ [Next]_vars => LengthIs'
<1> SUFFICES ASSUME BlockInv, LengthIs, [Next]_vars PROVE LengthIs'
  OBVIOUS
<1>1. ASSUME mkfs'.block = mkfs.block \/ mkfs' = MkfsIdle PROVE LengthIs'
  <2>1. mkfs' = MkfsIdle => mkfs'.block = <<>>
    BY DEF MkfsIdle
  <2>2. QED
    BY <1>1, <2>1 DEF LengthIs
<1>2. ASSUME NEW ps \in PageSizes, NEW b \in ByteCounts, NEW p \in PageCounts,
             MkfsStart(ps, b, p)
      PROVE  LengthIs'
  <2> DEFINE c == Settled(ps, b, p)
  <2>1. mkfs'.block = Super(ps, c.pages)
    BY <1>2 DEF MkfsStart
  <2> HIDE DEF c
  <2>2. QED
    BY <2>1, SuperTyped DEF LengthIs
<1>3. CASE MkfsTruncate
  BY <1>1, <1>3 DEF MkfsTruncate, BlockInv, BlockType
<1>4. CASE MkfsWrite
  <2>1. PICK end : mkfs' = IF IsWholeBlock(end) THEN MkfsIdle ELSE [mkfs EXCEPT !.done = end]
    BY <1>4 DEF MkfsWrite
  <2>2. mkfs'.block = mkfs.block \/ mkfs' = MkfsIdle
    BY <2>1 DEF BlockInv, BlockType
  <2>3. QED
    BY <1>1, <2>2
<1>5. CASE MkfsStops
  BY <1>1, <1>5 DEF MkfsStops
<1>6. CASE \/ ServerStart \/ ServerRead \/ ServerReadEnds \/ ServerChecks \/ ServerStops
           \/ CrcAlone \/ UNCHANGED vars
  <2>1. mkfs' = mkfs
    BY <1>6 DEF ServerStart, ServerRead, ServerReadEnds, ServerChecks, ServerStops,
                CrcAlone, superVars, vars
  <2>2. QED
    BY <1>1, <2>1
<1>7. QED
  BY <1>2, <1>3, <1>4, <1>5, <1>6 DEF Next

(***************************************************************************)
(* The theorems                                                            *)
(***************************************************************************)

\* Type correctness, for any polynomial, any words, any options of mkfs, any
\* image to start from and any pieces of the transfers.
THEOREM SuperTypeCorrect == Spec => []TypeOK
<1>1. Init => BlockInv /\ CrcInv /\ LengthIs
  <2>1. Init => LengthIs
    BY DEF Init, LengthIs, MkfsIdle
  <2>2. QED
    BY <2>1, BlockInit, CrcInit DEF Init
<1>2. BlockInv /\ CrcInv /\ LengthIs /\ [Next]_vars => (BlockInv /\ CrcInv /\ LengthIs)'
  BY BlockStep, CrcStep, LengthStep
<1>3. BlockInv /\ CrcInv /\ LengthIs => TypeOK
  BY DEF TypeOK, BlockInv, BlockType, CrcInv, CrcType, LengthIs, Config
<1>4. QED
  BY <1>1, <1>2, <1>3, PTL DEF Spec

\* Whatever mkfs and the server do at the same time, in what pieces the system
\* moves the bytes and where either is killed: what is mounted is what one run
\* of mkfs wanted to write, unless the checksum cannot tell a mixture of the
\* blocks written from one of them.
THEOREM MountedUnlessCollision == Spec => [](Collides \/ MountedIsOneFormat)
<1>1. BlockInv => Collides \/ MountedIsOneFormat
  BY DEF BlockInv, MountedKnown, MountedIsOneFormat, Fitting
<1>2. QED
  BY <1>1, BlockInit, BlockStep, PTL DEF Spec

\* Under the same condition the file has all the pages the server was told of,
\* or their number of bytes does not fit into a number.
THEOREM MountedFitsUnlessCollision == Spec => [](Collides \/ MountedFitsTheFile)
<1>1. BlockInv => Collides \/ MountedFitsTheFile
  <2> SUFFICES ASSUME BlockInv, ~Collides, server.pc = "mounted"
               PROVE  \/ server.pages * server.page_size <= size
                      \/ server.pages * server.page_size >= Modulus
    BY DEF MountedFitsTheFile
  <2> DEFINE f == <<server.page_size, server.pages>>
  <2>1. Fits(f)
    BY DEF BlockInv, MountedKnown, Fitting
  <2>2. f[1] = server.page_size /\ f[2] = server.pages
    OBVIOUS
  <2> HIDE DEF f
  <2>3. QED
    BY <2>1, <2>2 DEF Fits
<1>2. QED
  BY <1>1, BlockInit, BlockStep, PTL DEF Spec
=============================================================================
