------------------------------- MODULE Crc64 -------------------------------
(***************************************************************************)
(* __crc64 of util/crc64.c, with the tables of gen_crc64_table.py: a loop  *)
(* over words of the machine, one table per byte of a word, then a loop    *)
(* over the bytes left.  "TODO: we really need to verify this algorithm    *)
(* implementation", says crc64.c.                                          *)
(*                                                                         *)
(* Bytes, words and the polynomial are scaled down together; a word has as *)
(* many bits as the checksum, as in the code.  A word is the set of its    *)
(* bits that are one: exclusive or is SymDiff, and 0 is the low bit.       *)
(***************************************************************************)
EXTENDS Integers, Sequences, SequencesExt

CONSTANTS
  ByteBits,     \* bits of a byte: 8
  WordBytes,    \* bytes of a word and of a checksum: 8
  Poly,         \* polynomial, reversed
  DataBytes,    \* bound: the bytes data is made of
  MaxData,      \* bound: the bytes of data in a call on its own
  Inits         \* bound: the checksums a call starts from

WordBits == WordBytes * ByteBits
Bits == 0..(WordBits - 1)
Word == SUBSET Bits
Byte == SUBSET (0..(ByteBits - 1))

ASSUME CrcAssumption ==
  /\ ByteBits \in Nat \ {0}
  /\ WordBytes \in Nat \ {0}
  /\ Poly \in Word
  /\ DataBytes \subseteq Byte
  /\ MaxData \in Nat
  /\ Inits \subseteq Word

VARIABLES
  data,     \* the bytes to be summed
  start,    \* init
  at,       \* bytes gone through
  part,     \* where the data of the running call ends
  crc       \* crc

crcVars == <<data, start, at, part, crc>>

-----------------------------------------------------------------------------
(* Words                                                                   *)

Up(c, n) == {i + n : i \in c}                    \* c << n
Down(c, n) == {i \in Bits : i + n \in c}         \* c >> n
Low(c) == c \cap (0..(ByteBits - 1))             \* c & 0xff

\* A word in memory, low byte first, as the code loads it.
WordAt(s, i) == UNION {Up(s[i + j], (j - 1) * ByteBits) : j \in 1..WordBytes}

\* Byte i of a word, byte 0 the lowest.
ByteOf(w, i) == Low(Down(w, i * ByteBits))

-----------------------------------------------------------------------------
(* The definition: division, bit by bit                                    *)

ShiftOnce(c) == IF 0 \in c THEN SymDiff(Poly, Down(c, 1)) ELSE Down(c, 1)

\* Shifted(c)[n] is c after n shifts.
Shifted(c) ==
  LET after[n \in 0..WordBits] == IF n = 0 THEN c ELSE ShiftOnce(after[n - 1])
  IN  after

\* Division(init, s)[n] is the remainder of init, then the first n bytes of s.
Division(init, s) ==
  LET rest[n \in 0..Len(s)] ==
        IF n = 0 THEN init ELSE Shifted(SymDiff(rest[n - 1], s[n]))[ByteBits]
  IN  rest

-----------------------------------------------------------------------------
(* gen_crc64_table.py and __crc64                                          *)

\* gen_table: table[0], then each table from the one before.
Table[i \in 0..(WordBytes - 1)] ==
  [b \in Byte |->
     IF i = 0 THEN Shifted(b)[ByteBits]
     ELSE LET x == Table[i - 1][b] IN SymDiff(Down(x, ByteBits), Table[0][Low(x)])]

\* Mutant: the tables in the order of the bytes in memory.
WordTurnForward(c, word) ==
  LET xor[n \in 0..WordBytes] ==
        IF n = 0 THEN {}
        ELSE SymDiff(xor[n - 1], Table[n - 1][ByteOf(SymDiff(word, c), n - 1)])
  IN  xor[WordBytes]

\* One turn of the loop over words: the highest byte by table[0].
WordTurn(c, word) ==
  LET xor[n \in 0..WordBytes] ==
        IF n = 0 THEN {}
        ELSE SymDiff(xor[n - 1], Table[WordBytes - n][ByteOf(SymDiff(word, c), n - 1)])
  IN  xor[WordBytes]

\* One turn of the loop over the bytes left.
ByteTurn(c, byte) == SymDiff(Table[0][SymDiff(Low(c), byte)], Down(c, ByteBits))

\* __crc64(CRC64_INIT, s, Len(s)) for whole words
CrcOfWords(s) ==
  LET crc_of[n \in 0..(Len(s) \div WordBytes)] ==
        IF n = 0 THEN {} ELSE WordTurn(crc_of[n - 1], WordAt(s, (n - 1) * WordBytes))
  IN  crc_of[Len(s) \div WordBytes]

-----------------------------------------------------------------------------
(* A call, turn by turn; crc64_ctx_update goes on from the checksum of the *)
(* call before, wherever that one ended.                                   *)

CrcIdle == data = <<>> /\ start = {} /\ at = 0 /\ part = 0 /\ crc = {}

CrcCall ==
  /\ data = <<>>
  /\ \E n \in 1..MaxData : data' \in [1..n -> DataBytes]
  /\ start' \in Inits
  /\ crc' = start'
  /\ part' \in 0..Len(data')
  /\ UNCHANGED at

CrcWord ==
  /\ part - at >= WordBytes
  /\ crc' = WordTurn(crc, WordAt(data, at))
  /\ at' = at + WordBytes
  /\ UNCHANGED <<data, start, part>>

CrcByte ==
  /\ at < part
  /\ part - at < WordBytes
  /\ crc' = ByteTurn(crc, data[at + 1])
  /\ at' = at + 1
  /\ UNCHANGED <<data, start, part>>

\* crc64_ctx_update with the rest
CrcUpdate ==
  /\ at = part /\ part < Len(data)
  /\ part' = Len(data)
  /\ UNCHANGED <<data, start, at, crc>>

CrcNext == CrcCall \/ CrcWord \/ CrcByte \/ CrcUpdate

-----------------------------------------------------------------------------

\* After every turn of either loop the checksum is the remainder of what has
\* been gone through, whatever the data is, wherever the loop over words gives
\* way to that over bytes, and however the data is cut into calls: "we really
\* need to verify this algorithm implementation" (util/crc64.c).
CrcIsDivision == crc = Division(start, data)[at]
=============================================================================
