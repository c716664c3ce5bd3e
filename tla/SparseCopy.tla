----------------------------- MODULE SparseCopy -----------------------------
(***************************************************************************)
(* Block maps of sparse files and sparse_copy, which every byte of a disk  *)
(* image goes through (scripts/lib/wic/filemap.py).                        *)
(*                                                                         *)
(* A source file is its size, the blocks that are mapped, and where its    *)
(* extents begin; byte b of a mapped block holds the value b + 1, a hole   *)
(* reads as 0, and a byte the target held before the call is Old, so that  *)
(* a copied byte tells where it comes from.  Offsets count bytes from 0.   *)
(***************************************************************************)
EXTENDS Integers, Sequences, FiniteSets, FiniteSetsExt

CONSTANTS
    SourceFiles,      \* source files: [size, fsblock, mapped, starts], the last two sets
                  \* of host blocks; blocks may be mapped past the end (fallocate)
    CopyCalls,        \* calls: [skip, seek, length, old, fiemap, seekhole]; old is the
                  \* size of an existing target, 0 when there is none
    MaxBlock,     \* the 4 KiB cap of get_block_size
    ExtentCnt,    \* extents that fit one FIEMAP answer
    Chunk         \* the 1 MiB a loop iteration reads

Old == -1
Absent == <<>>   \* no target yet; an existing one has at least a byte
Nothing == <<>>  \* no range

VARIABLES
    src,      \* the source file
    call,     \* the arguments, and what the host supports
    pos,      \* where the map's generator goes on: a block (FIEMAP) or a byte
    batch,    \* the extents of the last FIEMAP answer that are still to be taken
    prev,     \* the range <<first, last>> that FIEMAP's get_mapped_ranges holds back
    ended,    \* the generator has run to its end
    cur,      \* the range being copied: [start, to_read, read]; idle when none
    copied,   \* the code's counter of copied bytes, holes included
    dst,      \* the target's bytes, or Absent
    outcome   \* "open", "copy", "done" or "RuntimeError"

mapVars == <<pos, batch, prev, ended>>
copyVars == <<cur, copied, dst, outcome>>
sparseVars == <<src, call, mapVars, copyVars>>

-----------------------------------------------------------------------------
(* The source as the kernel shows it.                                      *)

\* get_block_size: the host's block size (the ioctl's, or st_blksize), capped.
BlockSize(f) == Min({f.fsblock, MaxBlock})

BlocksCnt(f) == (f.size + BlockSize(f) - 1) \div BlockSize(f)

\* Block sizes are powers of two, so that the capped one divides the host's;
\* a file has a last block, and a buffer room for an extent and for a byte.
SourcesAssumption ==
    /\ MaxBlock \in Nat \ {0} /\ ExtentCnt \in Nat \ {0} /\ Chunk \in Nat \ {0}
    /\ \A f \in SourceFiles :
           /\ f.size \in Nat /\ f.fsblock \in Nat \ {0}
           /\ \E m \in f.mapped \cup {0} : f.mapped \subseteq 0..m
           /\ (f.fsblock % BlockSize(f)) = 0
    /\ \A c \in CopyCalls : c.skip \in Nat /\ c.seek \in Nat /\ c.length \in Nat /\ c.old \in Nat

ASSUME HostAssumption == SourcesAssumption

\* Maximal runs of mapped blocks of the host, cut where an extent begins.
Runs(f) ==
    {r \in f.mapped \X f.mapped :
        /\ r[1]..r[2] \subseteq f.mapped /\ r[1] <= r[2]
        /\ \A k \in (r[1] + 1)..r[2] : k \notin f.starts
        /\ r[1] - 1 \notin f.mapped \/ r[1] \in f.starts
        /\ r[2] + 1 \notin f.mapped \/ r[2] + 1 \in f.starts}

\* FIEMAP's records, in units of BlockSize.
Extents(f) ==
    LET ratio == f.fsblock \div BlockSize(f)
    IN  {[block |-> r[1] * ratio, count |-> (r[2] - r[1] + 1) * ratio] : r \in Runs(f)}

\* _invoke_fiemap: the first ExtentCnt records that reach into the asked blocks.
InvokeFiemap(f, block, count) ==
    LET hits == {e \in Extents(f) : e.block < block + count /\ e.block + e.count > block}
    IN  {e \in hits : Cardinality({h \in hits : h.block < e.block}) < ExtentCnt}

\* _lseek: the next data byte or hole from off; -1 for ENXIO.
IsData(f, b) == b \div f.fsblock \in f.mapped
SeekData(f, off) ==
    LET found == {b \in off..(f.size - 1) : IsData(f, b)}
    IN  IF found = {} THEN -1 ELSE Min(found)
SeekHole(f, off) ==
    IF off >= f.size THEN -1
    ELSE Min({b \in off..(f.size - 1) : ~IsData(f, b)} \cup {f.size})

-----------------------------------------------------------------------------
(* The target.                                                             *)

SourceByte(f, b) == IF b < f.size /\ IsData(f, b) THEN b + 1 ELSE 0
ReadAt(f, off, n) == [i \in 1..(Max({Min({off + n, f.size}), off}) - off) |-> SourceByte(f, off + i - 1)]

\* A write at off, past the end too: the gap reads as zeros.
WriteAt(t, off, bytes) ==
    IF bytes = <<>> THEN t
    ELSE [i \in 1..Max({Len(t), off + Len(bytes)}) |->
             IF i > off /\ i <= off + Len(bytes) THEN bytes[i - off]
             ELSE IF i <= Len(t) THEN t[i] ELSE 0]

idle == [start |-> 0, to_read |-> 0, read |-> 0]

\* Callers skip to a place inside the source; a host with FIEMAP has SEEK_HOLE.
CopyInit ==
    /\ src \in SourceFiles
    /\ call \in {c \in CopyCalls : c.skip <= src.size /\ (c.fiemap => c.seekhole)}
    /\ pos = 0 /\ batch = {} /\ prev = Nothing /\ ended = FALSE
    /\ cur = idle /\ copied = 0
    /\ dst = IF call.old = 0 THEN Absent ELSE [i \in 1..call.old |-> Old]
    /\ outcome = "open"

\* The file map is made, and the target opened, or created with its final size.
Open ==
    /\ outcome = "open"
    /\ dst' = IF dst # Absent THEN dst
              ELSE [i \in 1..(call.seek + (IF call.length > 0 THEN call.length
                                           ELSE src.size - call.skip)) |-> 0]
    /\ outcome' = "copy"
    /\ UNCHANGED <<src, call, mapVars, cur, copied>>

-----------------------------------------------------------------------------
(* The for loop over the mapped ranges: the map's generator runs up to its *)
(* next range, and the loop's head decides what is copied of it.           *)

\* filemap(): FIEMAP, else SEEK_HOLE, else the whole file as one range.
Api == IF call.fiemap THEN "fiemap" ELSE IF call.seekhole THEN "seek" ELSE "nobmap"

\* sparse_copy wants a range of this map, which has not come to its end.
Wanted(api) == outcome = "copy" /\ cur = idle /\ Api = api /\ ~ended

\* The head of the loop, for a range of blocks: skip a range that ends before
\* skip, else seek, unless all the length asked for lies before it.
Visit(first, last) ==
    LET bs    == BlockSize(src)
        begin == first * bs
        end   == (last + 1) * bs
        start == IF begin < call.skip /\ call.skip < end THEN call.skip ELSE begin
        reached == call.length > 0 /\ start - call.skip >= call.length
    IN  IF call.skip >= end
        THEN UNCHANGED <<cur, copied, outcome>>
        ELSE /\ copied' = start - call.skip
             /\ outcome' = IF reached THEN "done" ELSE "copy"
             /\ cur' = IF reached THEN idle
                       ELSE [start |-> start, to_read |-> end - start, read |-> 0]

NobmapRange ==
    /\ Wanted("nobmap")
    /\ Visit(0, BlocksCnt(src) - 1)
    /\ ended' = TRUE
    /\ UNCHANGED <<src, call, pos, batch, prev, dst>>

\* FilemapSeek._get_ranges(0, blocks_cnt, SEEK_DATA, SEEK_HOLE): the next range
\* goes from the data behind "pos" to the hole behind that.
Limit == BlocksCnt(src) * BlockSize(src)
DataAhead == SeekData(src, pos)
SeekEnds == DataAhead = -1 \/ DataAhead >= Limit \/ DataAhead = src.size
HoleAhead ==
    LET hole == SeekHole(src, DataAhead)
    IN  Min({IF hole \in {-1, src.size} THEN Limit ELSE hole, Limit})

SeekRange ==
    /\ Wanted("seek") /\ ~SeekEnds
    /\ Visit(DataAhead \div BlockSize(src), HoleAhead \div BlockSize(src) - 1)
    /\ pos' = HoleAhead
    /\ UNCHANGED <<src, call, batch, prev, ended, dst>>

SeekEnd ==
    /\ Wanted("seek") /\ SeekEnds
    /\ ended' = TRUE
    /\ UNCHANGED <<src, call, pos, batch, prev, copyVars>>

\* FilemapFiemap._do_get_mapped_ranges returns: get_mapped_ranges, which began
\* with next() on it, yields the range it holds, or has none; StopIteration
\* inside a generator is a RuntimeError.
FiemapReturns ==
    /\ ended' = TRUE /\ batch' = {}
    /\ IF prev = Nothing
       THEN outcome' = "RuntimeError" /\ UNCHANGED <<cur, copied>>
       ELSE Visit(prev[1], prev[2])
    /\ prev' = Nothing
    /\ UNCHANGED <<src, call, pos, dst>>

Answer == InvokeFiemap(src, pos, BlocksCnt(src))

AskFiemap ==
    /\ Wanted("fiemap") /\ batch = {} /\ pos < BlocksCnt(src) /\ Answer # {}
    /\ batch' = Answer
    /\ UNCHANGED <<src, call, pos, prev, ended, copyVars>>

\* Mutant: the block right behind the last record is skipped.
AskAgain_OneFurther(last) == last.block + last.count + 1

\* The block the next FIEMAP call asks from.
AskAgain(last) == last.block + last.count

\* Extents come clipped to the file, and consecutive ones become one range.
TakeExtent ==
    /\ Wanted("fiemap")
    /\ \E e \in batch :
           /\ \A h \in batch : e.block <= h.block
           /\ e.block < BlocksCnt(src)
           /\ LET first == Max({e.block, pos})
                  last  == Min({e.block + e.count, BlocksCnt(src)}) - 1
              IN  IF prev # Nothing /\ prev[2] = first - 1
                  THEN prev' = <<prev[1], last>> /\ UNCHANGED <<cur, copied, outcome>>
                  ELSE /\ prev' = <<first, last>>
                       /\ IF prev = Nothing THEN UNCHANGED <<cur, copied, outcome>>
                          ELSE Visit(prev[1], prev[2])
           /\ batch' = batch \ {e}
           /\ pos' = IF batch' = {} THEN AskAgain(e) ELSE pos
    /\ UNCHANGED <<src, call, ended, dst>>

\* No blocks are left to ask for, none of them is mapped, or the next extent
\* lies behind the file.
FiemapEnd ==
    /\ Wanted("fiemap")
    /\ IF batch = {} THEN pos >= BlocksCnt(src) \/ Answer = {}
       ELSE \A e \in batch : e.block >= BlocksCnt(src)
    /\ FiemapReturns

-----------------------------------------------------------------------------
(* The while loop over the chunks of a range.                              *)

\* A chunk, the last one cut to the range and to the length asked for.
ChunkSize(left) ==
    LET chunk == Min({Chunk, left})
    IN  IF call.length > 0 /\ copied + chunk > call.length THEN call.length - copied ELSE chunk

AfterChunk(c, size) == IF c.read + size < c.to_read THEN [c EXCEPT !.read = @ + size] ELSE idle

\* One pass of the while loop.
CopyChunk ==
    /\ outcome = "copy" /\ cur # idle
    /\ LET size == ChunkSize(cur.to_read - cur.read)
           from == cur.start + cur.read
       IN  /\ dst' = WriteAt(dst, call.seek + from - call.skip, ReadAt(src, from, size))
           /\ copied' = copied + size
           /\ IF copied' = call.length
              THEN outcome' = "done" /\ cur' = idle
              ELSE /\ outcome' = "copy"
                   /\ cur' = AfterChunk(cur, size)
    /\ UNCHANGED <<src, call, mapVars>>

Finish ==
    /\ outcome = "copy" /\ cur = idle /\ ended
    /\ outcome' = "done"
    /\ UNCHANGED <<src, call, mapVars, cur, copied, dst>>

CopyNext ==
    \/ Open
    \/ NobmapRange \/ SeekRange \/ SeekEnd
    \/ AskFiemap \/ TakeExtent \/ FiemapEnd
    \/ CopyChunk \/ Finish

CopySpec == CopyInit /\ [][CopyNext]_sparseVars
-----------------------------------------------------------------------------
(* What a copy promises.                                                   *)

\* Byte b of the target is inside the piece of the source that was asked for.
Asked(b) ==
    /\ b >= call.seek
    /\ b - call.seek + call.skip < src.size
    /\ call.length > 0 => b < call.seek + call.length
FromSource(b) == SourceByte(src, b - call.seek + call.skip)

\* A target that sparse_copy creates reads exactly as the asked piece of the
\* source, at the asked place, whichever of the three file maps the host
\* offers, however the extents are cut and the FIEMAP answers split, and zeros
\* stand everywhere else (create and assemble of an image, and the partitions
\* wic cp reads out of one, are made of these copies).
FreshCopyIsSource ==
    outcome = "done" /\ call.old = 0 =>
        \A i \in DOMAIN dst : dst[i] = IF Asked(i - 1) THEN FromSource(i - 1) ELSE 0

\* Copied into an existing image, the piece never touches a byte outside its
\* window, not even while it is under way (the neighbouring partitions live
\* there), and when it is done every data byte of the window has arrived.
NeighboursUntouched ==
    call.old > 0 =>
        /\ \A b \in 0..(call.old - 1) : ~Asked(b) => dst[b + 1] = Old
        /\ outcome = "done" =>
               \A b \in 0..(call.seek + src.size) :
                   Asked(b) /\ FromSource(b) > 0 => b < Len(dst) /\ dst[b + 1] = FromSource(b)

\* What sparse_copy delivers, into a new target and into an image.
CopyExact == FreshCopyIsSource /\ NeighboursUntouched
=============================================================================
