---------------------------- MODULE SuperBlock ----------------------------
(***************************************************************************)
(* The super block of an image: mkfs (mkfs/main.c) computes the size of    *)
(* the file system and writes the block, the FUSE server (fuse/main.c)     *)
(* reads it when it starts and takes the configuration from it.  Both go   *)
(* through the loops of lib/file_wrappers.c, in which the system may read  *)
(* or write fewer bytes than asked, and both may be killed between two     *)
(* calls of the system, or run at the same time.                           *)
(*                                                                         *)
(* The block is cut down to magic, page_size, pages and csum; what is left *)
(* out is the same in every block mkfs writes.  Integers have the width of *)
(* a word of Crc64, 64 bits in the code, and are its sets of bits where    *)
(* they are bytes of the block.                                            *)
(***************************************************************************)
EXTENDS Crc64, FiniteSets

CONSTANTS
  Magic,        \* AULSMFS_MAGIC
  FileSizes,    \* bound: the bytes of the image before the first mkfs
  PageSizes,    \* bound: --page_size
  ByteCounts,   \* bound: --size, 0 if it is not given
  PageCounts,   \* bound: --pages, 0 if it is not given
  Pieces,       \* bound: the bytes of a transfer that is cut short
  MaxFormats    \* bound: runs of mkfs

Pow2[n \in 0..WordBits] == IF n = 0 THEN 1 ELSE 2 * Pow2[n - 1]
Modulus == Pow2[WordBits]
Number == 0..(Modulus - 1)      \* uint64_t
SuperSize == 4 * WordBytes      \* sizeof(struct aulsmfs_super)

ASSUME SuperAssumption ==
  /\ Magic \in Word
  /\ SuperSize \in Number
  /\ FileSizes \subseteq Number
  /\ PageSizes \subseteq {Pow2[i] : i \in Bits}
  /\ ByteCounts \subseteq Number
  /\ PageCounts \subseteq Number
  /\ Pieces \subseteq Nat \ {0}
  /\ MaxFormats \in Nat

VARIABLES
  file,      \* the bytes of the image where the block lies
  size,      \* the size of the image
  mkfs,      \* the running mkfs
  server,    \* the server
  formats    \* the configurations mkfs has begun to write

superVars == <<file, size, mkfs, server, formats>>
vars == <<superVars, crcVars>>

-----------------------------------------------------------------------------
(* The block                                                               *)

\* The bits of a number and the number of a word's bits: htole64 and le64toh
ToBits(n) ==
  LET half[i \in 0..WordBits] == IF i = 0 THEN n ELSE half[i - 1] \div 2
  IN  {i \in Bits : half[i] % 2 = 1}

FromBits(w) ==
  LET low[i \in 0..WordBits] ==
        IF i = 0 THEN 0 ELSE low[i - 1] + (IF i - 1 \in w THEN Pow2[i - 1] ELSE 0)
  IN  low[WordBits]

Bytes(w) == [i \in 1..WordBytes |-> ByteOf(w, i - 1)]

Block(page_size, pages, csum) ==
  Bytes(Magic) \o Bytes(ToBits(page_size)) \o Bytes(ToBits(pages)) \o Bytes(csum)

\* The block aulsmfs_mkfs writes
Super(page_size, pages) ==
  Block(page_size, pages, CrcOfWords(Block(page_size, pages, {})))

\* What pread or pwrite may transfer of n bytes
Transfers(n) == {n} \cup {m \in Pieces : m < n}

Field(block, i) == WordAt(block, i * WordBytes)

-----------------------------------------------------------------------------
(* mkfs                                                                    *)

MkfsIdle == [pc |-> "idle", bytes |-> 0, block |-> <<>>, done |-> 0]

\* The rounding of aulsmfs_config_check
Rounded(page_size, bytes) == bytes - (bytes % page_size)

\* aulsmfs_config_check: the bytes and pages it settles on, from what was asked
\* for and the size of the file.
Settled(page_size, bytes, pages) ==
  LET asked == IF bytes = 0 /\ pages = 0 THEN size ELSE bytes
      whole == Rounded(page_size, asked)
      total == IF whole = 0 THEN (pages * page_size) % Modulus ELSE whole
  IN  [bytes |-> total, pages |-> IF pages = 0 THEN total \div page_size ELSE pages]

Agrees(page_size, c) == (c.pages * page_size) % Modulus = c.bytes

\* Mutant: the other way round.
IsTooLong(bytes) == bytes < size

\* The condition of ftruncate
IsTooShort(bytes) == bytes > size

\* mkfs is started with options that agree and can open the file.
MkfsStart(page_size, bytes, pages) ==
  /\ data = <<>>
  /\ mkfs.pc = "idle"
  /\ Cardinality(formats) < MaxFormats
  /\ LET c == Settled(page_size, bytes, pages)
     IN  /\ Agrees(page_size, c)
         /\ mkfs' = [pc |-> IF IsTooShort(c.bytes) THEN "truncate" ELSE "write",
                     bytes |-> c.bytes, block |-> Super(page_size, c.pages), done |-> 0]
         /\ formats' = formats \cup {<<page_size, c.pages>>}
  /\ UNCHANGED <<file, size, server, crcVars>>

\* ftruncate
MkfsTruncate ==
  /\ mkfs.pc = "truncate"
  /\ size' = mkfs.bytes
  /\ mkfs' = [mkfs EXCEPT !.pc = "write"]
  /\ UNCHANGED <<file, server, formats, crcVars>>

\* Mutant: once more with nothing left.
IsPastBlock(end) == end > SuperSize

\* The loop of file_write_at is over.
IsWholeBlock(end) == end = SuperSize

\* One pwrite of file_write_at, of at most what is left.
MkfsWrite ==
  /\ mkfs.pc = "write"
  /\ \E end \in {mkfs.done + n : n \in Transfers(SuperSize - mkfs.done)} :
       /\ file' = [i \in 1..SuperSize |->
                     IF i \in (mkfs.done + 1)..end THEN mkfs.block[i] ELSE file[i]]
       /\ size' = IF size < end THEN end ELSE size
       /\ mkfs' = IF IsWholeBlock(end) THEN MkfsIdle ELSE [mkfs EXCEPT !.done = end]
  /\ UNCHANGED <<server, formats, crcVars>>

\* A call of the system fails, or mkfs is killed.
MkfsStops ==
  /\ mkfs.pc # "idle"
  /\ mkfs' = MkfsIdle
  /\ UNCHANGED <<file, size, server, formats, crcVars>>

-----------------------------------------------------------------------------
(* The server                                                              *)

ServerIdle ==
  [pc |-> "idle", buf |-> <<>>, left |-> 0, page_size |-> 0, pages |-> 0]

ServerStart ==
  /\ data = <<>> /\ formats # {}
  /\ server.pc = "idle"
  /\ server' = [ServerIdle EXCEPT !.pc = "read", !.left = SuperSize]
  /\ UNCHANGED <<file, size, mkfs, formats, crcVars>>

\* The condition of the loop of file_read_at, in which size is counted down:
\* it does not hold after half of the bytes.
LoopEnds(s) == Len(s.buf) = s.left

\* One pread of file_read_at.
ServerRead ==
  /\ server.pc = "read"
  /\ ~LoopEnds(server)
  /\ server.left > 0 /\ Len(server.buf) < size
  /\ \E n \in Transfers(Min({server.left, size - Len(server.buf)})) :
       server' = [server EXCEPT
                    !.buf = @ \o SubSeq(file, Len(@) + 1, Len(@) + n),
                    !.left = @ - n]
  /\ UNCHANGED <<file, size, mkfs, formats, crcVars>>

\* The loop ends, or pread has nothing to read.
ServerReadEnds ==
  /\ server.pc = "read"
  /\ LoopEnds(server) \/ server.left = 0 \/ Len(server.buf) >= size
  /\ server' = [server EXCEPT !.pc = "check"]
  /\ UNCHANGED <<file, size, mkfs, formats, crcVars>>

\* Mutant: the checksum is not looked at.
AcceptsMagic(block) == Len(block) = SuperSize /\ Field(block, 0) = Magic

\* aulsmfs_super_read: the checksum is that of the block with a zero in its place.
Accepts(block) ==
  /\ Len(block) = SuperSize
  /\ Field(block, 0) = Magic
  /\ Field(block, 3) = CrcOfWords(SubSeq(block, 1, 3 * WordBytes) \o Bytes({}))

ServerChecks ==
  /\ server.pc = "check"
  /\ server' = IF Accepts(server.buf)
               THEN [ServerIdle EXCEPT !.pc = "mounted",
                                       !.page_size = FromBits(Field(server.buf, 1)),
                                       !.pages = FromBits(Field(server.buf, 2))]
               ELSE ServerIdle
  /\ UNCHANGED <<file, size, mkfs, formats, crcVars>>

\* The server ends, is killed, or a read fails.
ServerStops ==
  /\ server.pc # "idle"
  /\ server' = ServerIdle
  /\ UNCHANGED <<file, size, mkfs, formats, crcVars>>

-----------------------------------------------------------------------------

Init ==
  /\ file = [i \in 1..SuperSize |-> {}]
  /\ size \in FileSizes
  /\ mkfs = MkfsIdle
  /\ server = ServerIdle
  /\ formats = {}
  /\ CrcIdle

\* A checksum is computed turn by turn on its own; what mkfs and the server
\* compute is the result.
CrcAlone == formats = {} /\ CrcNext /\ UNCHANGED superVars

Next ==
  \/ \E ps \in PageSizes, b \in ByteCounts, p \in PageCounts : MkfsStart(ps, b, p)
  \/ MkfsTruncate
  \/ MkfsWrite
  \/ MkfsStops
  \/ ServerStart
  \/ ServerRead
  \/ ServerReadEnds
  \/ ServerChecks
  \/ ServerStops
  \/ CrcAlone

Spec == Init /\ [][Next]_vars

-----------------------------------------------------------------------------

TypeOK ==
  /\ file \in [1..SuperSize -> Byte]
  /\ size \in Number
  /\ mkfs \in [pc : {"idle", "truncate", "write"}, bytes : Number, block : Seq(Byte),
               done : 0..(SuperSize - 1)]
  /\ Len(mkfs.block) \in {0, SuperSize}
  /\ server \in [pc : {"idle", "read", "check", "mounted"}, buf : Seq(Byte),
                 left : 0..SuperSize, page_size : Number, pages : Number]
  /\ formats \subseteq PageSizes \X Number
  /\ data \in Seq(DataBytes) /\ start \in Word /\ crc \in Word
  /\ at \in 0..part /\ part \in 0..Len(data)

\* What the server takes for its configuration is what one run of mkfs wanted
\* to write, whole: no mixture of two blocks, or of a block and what was there
\* before, gets through, whether mkfs was killed half way, wrote again while the
\* server read, or the reads and writes came in pieces.
MountedIsOneFormat ==
  server.pc = "mounted" => <<server.page_size, server.pages>> \in formats

\* The file has all the pages the server has been told of: mkfs makes it long
\* enough before it writes the block.  Only a product that has wrapped, the
\* check of which wraps as well, gets past.
MountedFitsTheFile ==
  server.pc = "mounted" =>
    \/ server.pages * server.page_size <= size
    \/ server.pages * server.page_size >= Modulus
=============================================================================
