------------------------------ MODULE WicLayout ------------------------------
(***************************************************************************)
(* wic's direct imager: PartitionedImage places the partitions of a .wks   *)
(* file on the disk (layout_partitions), asks parted for a partition table *)
(* (create) and copies every partition's image to its place (assemble).    *)
(* Sizes are in kB and offsets in bytes, as the .wks file gives them, and  *)
(* everything computed is in sectors.                                      *)
(***************************************************************************)
EXTENDS Integers, Sequences, FiniteSets

CONSTANTS Wks,         \* the .wks files: sequences of partitions
          Formats,     \* the partition table formats tried
          SectorSize   \* --sector-size

None == -1

\* A "part" line, after its source plugin has settled size (--size or
\* --fixed-size) and image, the kB of its source_file. align 0 and offset
\* None are options not given; custom is --part-name or --part-type; odd
\* vfat is a FAT partition mounted on /boot.
Part == [no_table : BOOLEAN, type : {"primary", "logical"},
         align : Nat, offset : Nat \cup {None}, size : Nat, image : Nat,
         mbr : BOOLEAN, custom : BOOLEAN, bootvfat : BOOLEAN]

ASSUME WksAssumption == Wks \subseteq Seq(Part)
ASSUME FormatsAssumption == Formats \subseteq {"msdos", "gpt", "gpt-hybrid"}
ASSUME SectorSizeAssumption == SectorSize \in Nat \ {0}
\* A source plugin never makes an image larger than the size it settles.
ASSUME ImageAssumption == \A w \in Wks : \A i \in 1..Len(w) : w[i].image <= w[i].size

VARIABLES partitions, ptable_format,   \* the input
          pc,
          placed,      \* the partitions laid out so far, in order
          offset, realpart, primary_part_num, logical_part_cnt,
          extendedpart, extended_size_sec, min_size,
          created,     \* how many partitions create has gone through
          table, mbr,  \* the entries parted was asked for, in order
          written      \* the bytes assemble has copied each image to, in order

vars == <<partitions, ptable_format, pc, placed, offset, realpart,
          primary_part_num, logical_part_cnt, extendedpart, extended_size_sec,
          min_size, created, table, mbr, written>>

inputVars  == <<partitions, ptable_format>>
layoutVars == <<placed, offset, realpart, primary_part_num, logical_part_cnt,
                extendedpart, extended_size_sec, min_size>>
diskVars   == <<created, table, mbr, written>>

MBR_OVERHEAD == 1
GPT_OVERHEAD == 34

Placed == [start : Nat, size : Nat, num : Nat, type : {"primary", "logical"}]

Entry == [type : {"primary", "logical", "extended", "protective"},
          start : Int, size : Int, num : Nat]

\* The bytes from "from" up to, not including, "to".
Extent == [from : Nat, to : Nat]

TypeOK ==
  /\ partitions \in Seq(Part)
  /\ ptable_format \in {"msdos", "gpt", "gpt-hybrid"}
  /\ pc \in {"layout", "create", "assemble", "done", "error"}
  /\ placed \in Seq(Placed) /\ Len(placed) <= Len(partitions)
  /\ offset \in Nat /\ realpart \in Nat
  /\ primary_part_num \in Nat /\ logical_part_cnt \in Nat
  /\ extendedpart \in Nat /\ extended_size_sec \in Nat /\ min_size \in Nat
  /\ created \in 0..Len(partitions)
  /\ table \in Seq(Entry) /\ mbr \in Seq(Entry)
  /\ written \in Seq(Extent) /\ Len(written) <= Len(partitions)

Init ==
  /\ partitions \in Wks
  /\ ptable_format \in Formats
  /\ pc = "layout"
  /\ placed = <<>>
  /\ offset = 0 /\ realpart = 0
  /\ primary_part_num = 0 /\ logical_part_cnt = 0
  /\ extendedpart = 0 /\ extended_size_sec = 0 /\ min_size = 0
  /\ created = 0 /\ table = <<>> /\ mbr = <<>> /\ written = <<>>

------------------------------------------------------------------------------
(* layout_partitions.                                                       *)

msdos == ptable_format = "msdos"
Gpt == ptable_format \in {"gpt", "gpt-hybrid"}

InTable(n) == {i \in 1..n : ~partitions[i].no_table}
NumReal == Cardinality(InTable(Len(partitions)))

\* The number the constructor gives partition i beforehand, for fstab and
\* root=: msdos leaves number 4 to the extended partition.
Realnum(i) ==
  IF partitions[i].no_table THEN 0
  ELSE LET r == Cardinality(InTable(i))
       IN IF msdos /\ r > 3 /\ NumReal > 4 THEN r + 1 ELSE r

This == Len(placed) + 1
part == partitions[This]

Refused == \/ msdos /\ part.custom
           \/ part.mbr /\ ptable_format # "gpt-hybrid"

\* Mutant: the number of table slots is one too many.
ThisType_FourPrimaries ==
  IF msdos /\ primary_part_num > 4 THEN "logical" ELSE part.type

\* A partition becomes logical when the primary slots are used up, or when
\* the last one must be kept for the extended partition.
ThisType ==
  IF msdos /\ \/ primary_part_num > 3
              \/ extendedpart = 0 /\ primary_part_num >= 3 /\ NumReal > 4
  THEN "logical" ELSE part.type

Overhead == IF msdos THEN MBR_OVERHEAD ELSE GPT_OVERHEAD
Ebr == IF msdos /\ ThisType = "logical" THEN 2 ELSE 0

\* The first sector the partition may use.
FreeSector == offset + (IF This = 1 THEN Overhead ELSE 0) + Ebr

\* Python's kB to sectors, and what is missing to the next multiple.
Sectors(kb) == (kb * 1024) \div SectorSize
Unit == Sectors(part.align)
AlignSectors ==
  IF part.align = 0 \/ (FreeSector % Unit) = 0 THEN 0
  ELSE Unit - (FreeSector % Unit)

\* Mutant: the sectors to skip are what the offset is over the boundary.
NextStart_WrongWay ==
  IF part.align = 0 \/ part.offset # None THEN FreeSector
  ELSE FreeSector + (FreeSector % Unit)

NextStart == FreeSector + AlignSectors

Start == IF part.offset = None THEN NextStart ELSE part.offset \div SectorSize

\* Mutant: an --offset in space already given away is accepted.
NoPlace_Backwards ==
  \/ part.align # 0 /\ Unit = 0
  \/ part.offset # None /\ (part.offset % SectorSize) # 0

\* An --align below the sector size is a division by zero; an --offset must
\* be a whole sector, and not before the next free one.
NoPlace ==
  \/ part.align # 0 /\ Unit = 0
  \/ part.offset # None /\ \/ (part.offset % SectorSize) # 0
                           \/ Start < NextStart

\* Mutant: a partition left out of the table keeps num at its initial None.
ThisNum_Unset ==
  IF part.no_table THEN None
  ELSE IF ~msdos THEN realpart + 1
  ELSE IF ThisType = "logical" THEN logical_part_cnt + 1 + 4
  ELSE primary_part_num + 1

\* The number parted will give the partition.
ThisNum ==
  IF part.no_table THEN 0
  ELSE IF ~msdos THEN realpart + 1
  ELSE IF ThisType = "logical" THEN logical_part_cnt + 1 + 4
  ELSE primary_part_num + 1

IsLogical == msdos /\ ~part.no_table /\ ThisType = "logical"
IsPrimary == msdos /\ ~part.no_table /\ ThisType = "primary"

\* Mutant: the EBRs of the logical partitions are not counted.
ExtendedGrowth_NoEbr ==
  IF ~IsLogical THEN 0
  ELSE Sectors(part.size) + (IF extendedpart = 0 THEN 0 ELSE AlignSectors)

\* What the partition adds to the extended one. The first logical partition's
\* alignment lies before the extended partition and does not count.
ExtendedGrowth ==
  IF ~IsLogical THEN 0
  ELSE Sectors(part.size) + 2 + (IF extendedpart = 0 THEN 0 ELSE AlignSectors)

LayoutPartition ==
  /\ pc = "layout" /\ This <= Len(partitions)
  /\ ~Refused /\ ~NoPlace
  /\ placed' = Append(placed, [start |-> Start, size |-> Sectors(part.size),
                               num |-> ThisNum, type |-> ThisType])
  /\ offset' = Start + Sectors(part.size)
  /\ extended_size_sec' = extended_size_sec + ExtendedGrowth
  /\ realpart' = realpart + (IF part.no_table THEN 0 ELSE 1)
  /\ logical_part_cnt' = logical_part_cnt + (IF IsLogical THEN 1 ELSE 0)
  /\ extendedpart' = IF IsLogical /\ extendedpart = 0 THEN ThisNum ELSE extendedpart
  /\ primary_part_num' = primary_part_num
       + (IF IsPrimary \/ (IsLogical /\ extendedpart = 0) THEN 1 ELSE 0)
  /\ UNCHANGED <<inputVars, pc, min_size, diskVars>>

LayoutFails ==
  /\ pc = "layout" /\ This <= Len(partitions)
  /\ Refused \/ NoPlace
  /\ pc' = "error"
  /\ UNCHANGED <<inputVars, layoutVars, diskVars>>

\* Mutant: the backup of the GPT at the disk's end is forgotten.
MinSize_NoBackup == offset * SectorSize

MinSize == (offset + IF Gpt THEN GPT_OVERHEAD ELSE 0) * SectorSize

FinishLayout ==
  /\ pc = "layout" /\ This > Len(partitions)
  /\ min_size' = MinSize
  /\ pc' = "create"
  /\ UNCHANGED <<inputVars, placed, offset, realpart, primary_part_num,
                 logical_part_cnt, extendedpart, extended_size_sec, diskVars>>

------------------------------------------------------------------------------
(* create: the mkpart requests, in order. parted itself is not modelled.    *)

EntryOf(kind, start, size, num) ==
  [type |-> kind, start |-> start, size |-> size, num |-> num]

\* The extended partition is asked for just before its first logical one,
\* and starts at the two sectors kept for that one's EBR.
ExtendedEntry(p) ==
  IF msdos /\ p.num = extendedpart
  THEN <<EntryOf("extended", p.start - 2, extended_size_sec, 0)>> ELSE <<>>

\* A FAT /boot gets an even number of sectors.
TableSize(i) ==
  placed[i].size
    - (IF partitions[i].bootvfat /\ (placed[i].size % 2) = 1 THEN 1 ELSE 0)

CreatePartition ==
  /\ pc = "create" /\ created < Len(partitions)
  /\ LET i == created + 1
         p == placed[i]
         size == TableSize(i)
         hybrid == ptable_format = "gpt-hybrid" /\ partitions[i].mbr
     IN IF p.num = 0 THEN UNCHANGED <<table, mbr, pc>>
        ELSE /\ table' = table \o ExtendedEntry(p)
                           \o <<EntryOf(p.type, p.start, size, p.num)>>
             /\ IF hybrid /\ Len(mbr) < 4
                THEN mbr' = Append(mbr, EntryOf("primary", p.start, size, Len(mbr) + 1))
                ELSE mbr' = mbr
             /\ pc' = IF hybrid /\ Len(mbr) >= 4 THEN "error" ELSE "create"
  /\ created' = created + 1
  /\ UNCHANGED <<inputVars, layoutVars, written>>

ProtectiveEntry(num) == EntryOf("protective", 1, GPT_OVERHEAD, num)

\* A hybrid MBR ends with an entry that protects the GPT.
FinishCreate ==
  /\ pc = "create" /\ created = Len(partitions)
  /\ IF ptable_format # "gpt-hybrid"
     THEN mbr' = mbr /\ pc' = "assemble"
     ELSE IF Len(mbr) >= 4
     THEN mbr' = mbr /\ pc' = "error"
     ELSE /\ mbr' = Append(mbr, ProtectiveEntry(Len(mbr) + 1))
          /\ pc' = "assemble"
  /\ UNCHANGED <<inputVars, layoutVars, created, table, written>>

------------------------------------------------------------------------------
(* assemble.                                                                *)

\* Mutant: the place is computed with sectors of 512 bytes.
Copied_Sector512(i) ==
  LET from == placed[i].start * 512
  IN [from |-> from, to |-> from + partitions[i].image * 1024]

\* Where the image of partition i goes: sparse_copy seeks to its start.
Copied(i) ==
  LET from == placed[i].start * SectorSize
  IN [from |-> from, to |-> from + partitions[i].image * 1024]

InstallPartition ==
  /\ pc = "assemble" /\ Len(written) < Len(partitions)
  /\ written' = Append(written, Copied(Len(written) + 1))
  /\ UNCHANGED <<inputVars, pc, layoutVars, created, table, mbr>>

FinishAssemble ==
  /\ pc = "assemble" /\ Len(written) = Len(partitions)
  /\ pc' = "done"
  /\ UNCHANGED <<inputVars, layoutVars, diskVars>>

------------------------------------------------------------------------------
Next == \/ LayoutPartition \/ LayoutFails \/ FinishLayout
        \/ CreatePartition \/ FinishCreate
        \/ InstallPartition \/ FinishAssemble

Spec == Init /\ [][Next]_vars

------------------------------------------------------------------------------
(* Properties.                                                              *)

Laid == 1..Len(placed)
End(p) == p.start + p.size

\* The partitions lie one behind the other, behind the partition table's
\* own sectors, whatever their --align, --offset, --no-table and EBRs.
PartitionsDisjoint ==
  /\ \A i, j \in Laid : i < j => End(placed[i]) <= placed[j].start
  /\ \A i \in Laid : Overhead <= placed[i].start /\ End(placed[i]) <= offset

\* The image file is long enough for every partition and, with a GPT, for
\* the copy of the GPT behind them.
DiskHoldsAll ==
  pc \in {"create", "assemble", "done"} =>
    \A i \in Laid :
      (End(placed[i]) + (IF Gpt THEN GPT_OVERHEAD ELSE 0)) * SectorSize <= min_size

\* "--align (in KBytes) ... start a partition on an x KBytes boundary", when
\* x kB are whole sectors and no --offset overrides it.
Aligned ==
  \A i \in Laid :
    LET x == partitions[i].align * 1024
    IN x # 0 /\ (x % SectorSize) = 0 /\ partitions[i].offset = None
         => ((placed[i].start * SectorSize) % x) = 0

AllPrimary == \A i \in 1..Len(partitions) : partitions[i].type = "primary"

\* The number fstab and root= were given before the layout is the number the
\* partition gets, as long as the .wks file leaves --type alone.
NumbersAgree == AllPrimary => \A i \in Laid : placed[i].num = Realnum(i)

\* "the real partition number, accounting for partitions not in the partition
\* table and logical partitions", as the constructor's comment has it.
RealnumIsNum == \A i \in Laid : placed[i].num = Realnum(i)

\* An MBR has four entries; logical partitions count from 5; no two partitions
\* have one number; and the entries of a hybrid MBR, the protective one among
\* them, are disjoint, unless the first partition follows the GPT at once: the
\* protective entry begins at sector 1 and is as long as the GPT with sector 0.
TableFits ==
  /\ msdos => \A i \in Laid : partitions[i].no_table \/
                 (placed[i].num \in 1..4) = (placed[i].type = "primary")
  /\ msdos => Cardinality({k \in DOMAIN table : table[k].type # "logical"}) <= 4
  /\ \A k, l \in DOMAIN table : table[k].num = table[l].num => k = l
  /\ Len(mbr) <= 4
  /\ (\A i \in Laid : placed[i].start > GPT_OVERHEAD) =>
       \A k, l \in DOMAIN mbr :
         k # l => End(mbr[k]) <= mbr[l].start \/ End(mbr[l]) <= mbr[k].start

\* What other programs rely on in the table: its shape and its numbers.
TableRight == NumbersAgree /\ TableFits

Inside(e, f) == f.start <= e.start /\ End(e) <= End(f)

\* "extended partition is described in MBR and contains all logical
\* partitions", and the two sectors before each that its EBR needs.
ExtendedHoldsLogicals ==
  \A k, l \in DOMAIN table :
    table[k].type = "extended" /\ table[l].type = "logical" =>
      Inside([start |-> table[l].start - 2, size |-> table[l].size + 2], table[k])

\* From the first logical partition on there is nothing but logical ones,
\* each right behind the other.
LogicalsContiguous ==
  \A i, j \in Laid :
    i < j /\ placed[i].type = "logical"
      => /\ placed[j].type = "logical" /\ ~partitions[i].no_table
         /\ ~partitions[j].no_table /\ partitions[j].offset = None

\* In a .wks file that leaves no such holes, the size added up for the
\* extended partition covers every logical one.
ContiguousLogicalsHeld ==
  msdos /\ LogicalsContiguous => ExtendedHoldsLogicals

WholeSectors(i) == ((partitions[i].size * 1024) % SectorSize) = 0

\* Copying an image that was sized in whole sectors changes no byte of the
\* partition table and none of another partition.
ImagesKeptApart ==
  \A i \in 1..Len(written) : WholeSectors(i) /\ partitions[i].image > 0 =>
    /\ Overhead * SectorSize <= written[i].from
    /\ \A j \in Laid \ {i} : \/ written[i].to <= placed[j].start * SectorSize
                             \/ End(placed[j]) * SectorSize <= written[i].from
==============================================================================
