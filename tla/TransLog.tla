------------------------------ MODULE TransLog ------------------------------
(***************************************************************************)
(* lib/log.c: the log of one transaction after another.  Entries collect   *)
(* in a buffer, a full buffer is written out as a chunk, and at the end a  *)
(* header with the pointers to the chunks is written.  Every reservation,  *)
(* write and realloc may fail; the caller may then make the call again or  *)
(* cancel.                                                                 *)
(*                                                                         *)
(* Nothing in the repository calls this code.  The caller assumed here is  *)
(* the one inc/aulsmfs.h describes: it appends, finishes, and registers a  *)
(* finished log; it may also cancel at any time before it registers it.    *)
(***************************************************************************)
EXTENDS Integers, FiniteSetsExt, SequencesExt

CONSTANTS
  PageSize,      \* io->page_size
  ChunkMax,      \* TRANS_CHUNK_MAX_SIZE
  EntrySize,     \* sizeof(struct aulsmfs_log_entry)
  HeaderSize,    \* sizeof(struct aulsmfs_log_header)
  PtrSize,       \* sizeof(struct aulsmfs_ptr)
  FirstChunks,   \* entries of the first array of chunks, 16 in the code
  ItemSizes,     \* sizes of items
  MaxItems,      \* bound: items of a transaction
  MaxLogs,       \* bound: finished logs
  DiskPages,     \* bound: pages of the disk
  Nil

Page == 0..(DiskPages - 1)
Ptr == [offs : Page, size : 1..DiskPages]
Extent(p) == p.offs..(p.offs + p.size - 1)

\* struct aulsmfs_log_header
Header == [chunks : Seq(Ptr), pages : Nat]

\* An entry keeps 16 bits of the size of its item, so no item that can be read
\* back makes an entry larger than a chunk.
ASSUME TransLogAssumption ==
  /\ {PageSize, ChunkMax, EntrySize, HeaderSize, PtrSize, FirstChunks} \subseteq Nat \ {0}
  /\ {MaxItems, MaxLogs, DiskPages} \subseteq Nat
  /\ ItemSizes \subseteq 0..(ChunkMax - EntrySize)
  /\ Nil \notin Ptr /\ Nil \notin Seq(ItemSizes) /\ Nil \notin Header

PagesOf(bytes) == (bytes + PageSize - 1) \div PageSize
Align(bytes) == PagesOf(bytes) * PageSize

VARIABLES
  log,          \* struct trans_log
  status,       \* "open", "finished", "cancelled", or how the process died
  items,        \* the items appended to this transaction
  disk,         \* what has been written to the pages that are reserved
  registered,   \* the finished logs: where the header is, and the items
  lost          \* headers that trans_log_cancel leaves reserved

vars == <<log, status, items, disk, registered, lost>>

\* A failed or cancelled reservation leaves nothing behind, so the reserved pages
\* are the domain of disk.
Held == DOMAIN disk

\* trans_log_setup
EmptyLog == [chunks |-> <<>>, maxChunks |-> 0, buffer |-> <<>>, bufferMax |-> 0,
             pages |-> 0, ptr |-> Nil]

BytesOf(entries) == FoldLeft(LAMBDA sum, size : sum + (size + EntrySize), 0, entries)

Result(rc, l, d) == [rc |-> rc, log |-> l, disk |-> d]

-----------------------------------------------------------------------------

Written(d, p, content) ==
  [n \in DOMAIN d \cup Extent(p) |->
     IF n \in Extent(p) THEN [content |-> content, part |-> n - p.offs] ELSE d[n]]

\* Where trans_log_write may put size pages; it fails with nothing changed at any
\* time, a write that failed being cancelled.  The allocator may give any free
\* pages; bound: the first that fit, or the last.
Places(d, size) ==
  LET free == {o \in Page : o..(o + size - 1) \subseteq Page \ DOMAIN d}
  IN  {[offs |-> o, size |-> size] : o \in IF free = {} THEN {} ELSE {Min(free), Max(free)}}

\* Mutant: a flush forgets to empty the buffer.
ChunkAddedOnly(l, p) == [l EXCEPT !.chunks = Append(@, p), !.pages = @ + p.size]

\* Mutant: chunks are counted, not their pages.
ChunkCounted(l, p) == [l EXCEPT !.chunks = Append(@, p), !.buffer = <<>>, !.pages = @ + 1]

\* The last lines of trans_log_flush: the buffer has gone to p.
ChunkWritten(l, p) == [l EXCEPT !.chunks = Append(@, p), !.buffer = <<>>, !.pages = @ + p.size]

\* trans_log_flush, with trans_log_reserve_chunk.  To grow the array of chunks the
\* code reallocates log->chunk, which points past the header inside the block
\* that malloc gave: undefined, and the C library aborts the process.
Flush(l, d) ==
  LET roomy == [l EXCEPT !.maxChunks = IF @ = 0 THEN FirstChunks ELSE @]
      places == Places(d, PagesOf(BytesOf(l.buffer)))
  IN  IF l.buffer = <<>> THEN {Result("ok", l, d)}
      ELSE IF Len(l.chunks) = roomy.maxChunks THEN {Result("aborted", l, d)}
      ELSE {Result("failed", l, d), Result("failed", roomy, d)}
           \cup {Result("ok", ChunkWritten(roomy, p), Written(d, p, l.buffer)) : p \in places}

\* The size trans_log_reserve gives the buffer for need bytes: twice the old one
\* if that is enough and no more than a chunk.
Grown(max, need) ==
  IF need < ChunkMax /\ Align(2 * max) \in need..ChunkMax THEN Align(2 * max) ELSE Align(need)

\* Mutant: what is in the buffer already is not counted.
ReserveUncounted(l, d, size) ==
  LET flushed == IF BytesOf(l.buffer) + size > ChunkMax THEN Flush(l, d) ELSE {Result("ok", l, d)}
  IN  UNION {IF r.rc # "ok" \/ size <= r.log.bufferMax THEN {r}
             ELSE {Result("failed", r.log, r.disk),
                   Result("ok", [r.log EXCEPT !.bufferMax = Grown(@, size)], r.disk)} : r \in flushed}

\* trans_log_reserve.  The bytes needed are counted before the flush and not
\* again after it.
Reserve(l, d, size) ==
  LET need == BytesOf(l.buffer) + size
      flushed == IF need > ChunkMax THEN Flush(l, d) ELSE {Result("ok", l, d)}
  IN  UNION {IF r.rc # "ok" \/ need <= r.log.bufferMax THEN {r}
             ELSE {Result("failed", r.log, r.disk),
                   Result("ok", [r.log EXCEPT !.bufferMax = Grown(@, need)], r.disk)} : r \in flushed}

\* Take over the outcome of a call.
Return(r) ==
  /\ log' = r.log
  /\ disk' = r.disk
  /\ status' = IF r.rc = "aborted" THEN "aborted" ELSE status

-----------------------------------------------------------------------------

Init ==
  /\ log = EmptyLog /\ status = "open" /\ items = <<>>
  /\ disk = <<>> /\ registered = {} /\ lost = {}

\* trans_log_append
AppendItem(size) ==
  /\ status = "open" /\ Len(items) < MaxItems
  /\ \E r \in Reserve(log, disk, size + EntrySize) :
       IF r.rc = "ok"
       THEN /\ Return([r EXCEPT !.log.buffer = Append(@, size)])
            /\ items' = Append(items, size)
       ELSE Return(r) /\ UNCHANGED items
  /\ UNCHANGED <<registered, lost>>

\* Mutant: the header is made up before the flush.
FinishStaleHeader ==
  /\ status = "open" /\ Cardinality(registered) < MaxLogs
  /\ \E r \in Flush(log, disk) :
       LET header == [chunks |-> log.chunks, pages |-> log.pages]
           size == PagesOf(HeaderSize + Len(log.chunks) * PtrSize)
       IN  /\ r.rc = "ok" /\ r.log.maxChunks # 0
           /\ \E p \in Places(r.disk, size) :
                /\ log' = [r.log EXCEPT !.ptr = p]
                /\ disk' = Written(r.disk, p, header)
  /\ status' = "finished"
  /\ UNCHANGED <<items, registered, lost>>

\* trans_log_finish: the header has been written.
Finish ==
  /\ status = "open" /\ Cardinality(registered) < MaxLogs
  /\ \E r \in Flush(log, disk) :
       LET header == [chunks |-> r.log.chunks, pages |-> r.log.pages]
           size == PagesOf(HeaderSize + Len(r.log.chunks) * PtrSize)
       IN  /\ r.rc = "ok" /\ r.log.maxChunks # 0
           /\ \E p \in Places(r.disk, size) :
                /\ log' = [r.log EXCEPT !.ptr = p]
                /\ disk' = Written(r.disk, p, header)
  /\ status' = "finished"
  /\ UNCHANGED <<items, registered, lost>>

\* trans_log_finish: the flush failed, or the write of the header after it; where
\* nothing has ever been flushed there is no header to fill in.
FinishFails ==
  /\ status = "open"
  /\ \E r \in Flush(log, disk) :
       IF r.rc = "ok" /\ r.log.maxChunks = 0
       THEN log' = r.log /\ disk' = r.disk /\ status' = "crashed"
       ELSE Return(r)
  /\ UNCHANGED <<items, registered, lost>>

\* Mutant: the last chunk is forgotten.
CancelOffByOne ==
  /\ status \in {"open", "finished"}
  /\ log.ptr # Nil => lost = {}
  /\ disk' = [n \in Held \ UNION {Extent(log.chunks[i]) : i \in 1..(Len(log.chunks) - 1)} |-> disk[n]]
  /\ status' = "cancelled"
  /\ lost' = lost \cup IF log.ptr = Nil THEN {} ELSE Extent(log.ptr)
  /\ UNCHANGED <<log, items, registered>>

\* trans_log_cancel gives back the chunks, not the header.  Bound: one header is
\* lost this way.
Cancel ==
  /\ status \in {"open", "finished"}
  /\ log.ptr # Nil => lost = {}
  /\ disk' = [n \in Held \ UNION {Extent(p) : p \in ToSet(log.chunks)} |-> disk[n]]
  /\ status' = "cancelled"
  /\ lost' = lost \cup IF log.ptr = Nil THEN {} ELSE Extent(log.ptr)
  /\ UNCHANGED <<log, items, registered>>

\* The finished log is registered, or the cancelled one forgotten;
\* trasn_log_release and trans_log_setup follow.
NextTransaction ==
  /\ status \in {"finished", "cancelled"}
  /\ registered' = registered \cup
       IF status = "finished" THEN {[ptr |-> log.ptr, items |-> items]} ELSE {}
  /\ log' = EmptyLog /\ items' = <<>> /\ status' = "open"
  /\ UNCHANGED <<disk, lost>>

Next ==
  \/ \E size \in ItemSizes : AppendItem(size)
  \/ Finish
  \/ FinishFails
  \/ Cancel
  \/ NextTransaction

Spec == Init /\ [][Next]_vars

-----------------------------------------------------------------------------

\* Garbage, as a checksum would tell, if the pages are not those of one write.
Read(p) ==
  IF \A n \in Extent(p) : n \in Held /\ disk[n].part = n - p.offs
                         /\ disk[n].content = disk[p.offs].content
  THEN disk[p.offs].content ELSE Nil

ChunksOf(p) == Read(p).chunks
PagesUnder(p) == Extent(p) \cup UNION {Extent(c) : c \in ToSet(ChunksOf(p))}

\* The finished log and all registered ones read back what was appended, through
\* failures, repeated calls and whatever later transactions do: the header leads
\* to the chunks, these hold the items in their order, each once, and the page
\* count of the header is that of its chunks.
LogsReadBack ==
  \A l \in registered \cup IF status = "finished" THEN {[ptr |-> log.ptr, items |-> items]} ELSE {} :
    /\ Read(l.ptr) # Nil
    /\ \A c \in ToSet(ChunksOf(l.ptr)) : Read(c) # Nil
    /\ FlattenSeq([i \in 1..Len(ChunksOf(l.ptr)) |-> Read(ChunksOf(l.ptr)[i])]) = l.items
    /\ Read(l.ptr).pages = Cardinality(UNION {Extent(c) : c \in ToSet(ChunksOf(l.ptr))})

\* Nothing appended is lost or doubled on the way: the chunks and the buffer are
\* the items of the transaction.
NothingLost ==
  status = "open" =>
    FlattenSeq([i \in 1..Len(log.chunks) |-> Read(log.chunks[i])]) \o log.buffer = items

\* Every reserved page belongs to a registered log or to this one, but for the
\* headers of logs cancelled when they were finished.
ReservedIsHeld ==
  Held = lost \cup (UNION {PagesUnder(l.ptr) : l \in registered})
         \cup (IF status = "cancelled" THEN {} ELSE
               (UNION {Extent(p) : p \in ToSet(log.chunks)})
               \cup IF log.ptr = Nil THEN {} ELSE Extent(log.ptr))

\* The entries stay within the buffer, and so do the zeros the last page is filled
\* with (the assert of trans_log_flush); a chunk never grows beyond its maximum.
BufferHoldsEntries ==
  /\ BytesOf(log.buffer) <= log.bufferMax
  /\ Align(log.bufferMax) = log.bufferMax
  /\ BytesOf(log.buffer) <= ChunkMax

PageCount(chunks) == FoldLeft(LAMBDA sum, p : sum + p.size, 0, chunks)

TypeOK ==
  /\ log.chunks \in Seq(Ptr) /\ Len(log.chunks) <= log.maxChunks
  /\ log.maxChunks \in {0, FirstChunks}
  /\ log.buffer \in Seq(ItemSizes)
  /\ log.bufferMax \in 0..Align(2 * ChunkMax)
  /\ log.pages = PageCount(log.chunks)
  /\ log.ptr \in Ptr \cup {Nil}
  /\ status \in {"open", "finished", "cancelled", "aborted", "crashed"}
  /\ items \in Seq(ItemSizes)
  /\ lost \subseteq Page /\ Held \subseteq Page

\* "For large transactions we could have more" chunks (inc/aulsmfs.h).
ManyChunksAreAllowed == status # "aborted"
=============================================================================
