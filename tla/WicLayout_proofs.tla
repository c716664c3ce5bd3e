-------------------------- MODULE WicLayout_proofs --------------------------
(***************************************************************************)
(* Proofs about WicLayout, for every .wks file and sector size.            *)
(***************************************************************************)
EXTENDS WicLayout, FiniteSetTheorems, TLAPS

LEMMA DivNat ==
  ASSUME NEW a \in Nat, NEW b \in Nat \ {0}
  PROVE  a \div b \in Nat
OBVIOUS

LEMMA ModNat ==
  ASSUME NEW a \in Nat, NEW b \in Nat \ {0}
  PROVE  a % b \in Nat /\ a % b < b
OBVIOUS

LEMMA TimesNat ==
  ASSUME NEW a \in Nat, NEW b \in Nat
  PROVE  a * b \in Nat
OBVIOUS

LEMMA PlusNat ==
  ASSUME NEW a \in Nat, NEW b \in Nat
  PROVE  a + b \in Nat
OBVIOUS

\* What the layout of one partition computes: sizes and places are naturals,
\* and the place is not before the first free sector.
LEMMA PlaceType ==
  ASSUME TypeOK, This <= Len(partitions), ~NoPlace
  PROVE  /\ part \in Part
         /\ Sectors(part.size) \in Nat
         /\ AlignSectors \in Nat
         /\ FreeSector \in Nat /\ FreeSector >= offset
         /\ This = 1 => FreeSector >= offset + Overhead
         /\ Start \in Nat /\ Start >= FreeSector
<1>1. part \in Part
  <2>1. This \in 1..Len(partitions)
    BY DEF TypeOK, This
  <2>2. QED
    BY <2>1 DEF TypeOK, part
<1>2. \A kb \in Nat : Sectors(kb) \in Nat
  <2>1. SUFFICES ASSUME NEW kb \in Nat PROVE (kb * 1024) \div SectorSize \in Nat
    BY DEF Sectors
  <2>2. QED
    BY SectorSizeAssumption, DivNat
<1>3. /\ FreeSector \in Nat /\ FreeSector >= offset
      /\ This = 1 => FreeSector >= offset + Overhead
  BY DEF FreeSector, Overhead, Ebr, TypeOK, MBR_OVERHEAD, GPT_OVERHEAD
<1>4. AlignSectors \in Nat
  <2>1. CASE part.align = 0
    BY <2>1 DEF AlignSectors
  <2>2. CASE part.align # 0
    <3>1. Unit \in Nat \ {0}
      BY <1>1, <1>2, <2>2 DEF NoPlace, Unit, Part
    <3>2. FreeSector % Unit \in Nat /\ FreeSector % Unit < Unit
      BY <1>3, <3>1, ModNat
    <3>3. QED
      BY <3>1, <3>2 DEF AlignSectors
  <2>3. QED
    BY <2>1, <2>2
<1>5. NextStart \in Nat /\ NextStart >= FreeSector
  BY <1>3, <1>4 DEF NextStart
<1>6. Start \in Nat /\ Start >= FreeSector
  <2>1. CASE part.offset = None
    BY <1>5, <2>1 DEF Start
  <2>2. CASE part.offset # None
    <3>1. part.offset \in Nat
      BY <1>1, <2>2 DEF Part
    <3>2. part.offset \div SectorSize \in Nat
      BY <3>1, SectorSizeAssumption, DivNat
    <3>3. Start = part.offset \div SectorSize
      BY <2>2 DEF Start
    <3>4. ~(Start < NextStart)
      BY <2>2 DEF NoPlace
    <3>5. QED
      BY <1>3, <1>5, <3>2, <3>3, <3>4
  <2>3. QED
    BY <2>1, <2>2
<1>7. QED
  BY <1>1, <1>2, <1>3, <1>4, <1>6 DEF Part

------------------------------------------------------------------------------
(* The inductive invariant: types, the order of the partitions, and what    *)
(* the phases leave behind for the next ones.                               *)

Complete == pc \in {"create", "assemble", "done"} =>
              Len(placed) = Len(partitions) /\ min_size = MinSize

LayoutInv == /\ TypeOK
             /\ PartitionsDisjoint
             /\ placed = <<>> => offset = 0
             /\ Complete

LEMMA InitInv == Init => LayoutInv
<1> SUFFICES ASSUME Init PROVE LayoutInv
  OBVIOUS
<1>1. TypeOK
  BY WksAssumption, FormatsAssumption DEF Init, TypeOK
<1>2. PartitionsDisjoint
  BY DEF Init, PartitionsDisjoint, Laid
<1>3. QED
  BY <1>1, <1>2 DEF Init, LayoutInv, Complete

LEMMA LayoutPartitionInv == LayoutInv /\ LayoutPartition => LayoutInv'
<1> SUFFICES ASSUME LayoutInv, LayoutPartition PROVE LayoutInv'
  OBVIOUS
<1> DEFINE p == [start |-> Start, size |-> Sectors(part.size),
                 num |-> ThisNum, type |-> ThisType]
<1>1. /\ TypeOK /\ This <= Len(partitions) /\ ~NoPlace
      /\ placed' = Append(placed, p) /\ offset' = Start + Sectors(part.size)
      /\ partitions' = partitions /\ ptable_format' = ptable_format
      /\ pc = "layout" /\ pc' = "layout"
  BY DEF LayoutInv, LayoutPartition, inputVars
<1>0. /\ part \in Part /\ Start \in Nat /\ Sectors(part.size) \in Nat
      /\ AlignSectors \in Nat /\ Start >= offset /\ offset \in Nat
      /\ This = 1 => Start >= Overhead
  <2>1. Overhead \in Nat
    BY DEF Overhead, MBR_OVERHEAD, GPT_OVERHEAD
  <2>2. offset \in Nat
    BY <1>1 DEF TypeOK
  <2>3. QED
    BY <1>1, <2>1, <2>2, PlaceType
<1>2. p \in Placed
  <2>1. ThisType \in {"primary", "logical"}
    BY <1>0 DEF ThisType, Part
  <2>2. ThisNum \in Nat
    BY <1>1 DEF ThisNum, TypeOK
  <2>3. QED
    BY <1>0, <2>1, <2>2 DEF Placed
<1>3. /\ Len(placed') = This
      /\ \A i \in Laid : placed'[i] = placed[i]
      /\ placed'[This] = p
  BY <1>1, <1>2 DEF TypeOK, This, Laid
<1>4. TypeOK'
  <2>1. placed' \in Seq(Placed) /\ Len(placed') <= Len(partitions)
    BY <1>1, <1>2, <1>3 DEF TypeOK
  <2>2. offset' \in Nat
    BY <1>0, <1>1
  <2>3. extended_size_sec' \in Nat
    <3>1. ExtendedGrowth \in Nat
      BY <1>0 DEF ExtendedGrowth
    <3>2. QED
      BY <1>1, <3>1 DEF LayoutPartition, TypeOK
  <2>4. realpart' \in Nat /\ logical_part_cnt' \in Nat /\ primary_part_num' \in Nat
    BY <1>1 DEF LayoutPartition, TypeOK
  <2>5. extendedpart' \in Nat
    BY <1>1, <1>2 DEF LayoutPartition, TypeOK, Placed
  <2>6. UNCHANGED <<min_size, created, table, mbr, written>>
    BY DEF LayoutPartition, diskVars
  <2>7. QED
    BY <1>1, <2>1, <2>2, <2>3, <2>4, <2>5, <2>6 DEF TypeOK
<1>5. PartitionsDisjoint'
  <2>1. Overhead' = Overhead /\ Overhead \in Nat
    BY <1>1 DEF Overhead, msdos, MBR_OVERHEAD, GPT_OVERHEAD
  <2>2. Laid' = Laid \cup {This} /\ Len(placed) \in Nat
    BY <1>1, <1>3 DEF Laid, This, TypeOK
  <2>3. \A i \in Laid : End(placed[i]) <= Start /\ Overhead <= placed[i].start
    <3> TAKE i \in Laid
    <3>1. placed[i] \in Placed
      BY <1>1 DEF TypeOK, Laid
    <3>2. End(placed[i]) <= offset /\ Overhead <= placed[i].start
      BY DEF LayoutInv, PartitionsDisjoint
    <3>3. QED
      BY <1>0, <2>1, <3>1, <3>2 DEF Placed, End
  <2>4. Overhead <= Start
    <3>1. CASE This = 1
      BY <1>0, <3>1
    <3>2. CASE This # 1
      <4>1. 1 \in Laid
        BY <2>2, <3>2 DEF This, Laid
      <4>2. placed[1] \in Placed
        BY <1>1, <4>1 DEF TypeOK, Laid
      <4>3. QED
        BY <1>0, <2>1, <2>3, <4>1, <4>2 DEF End, Placed
    <3>3. QED
      BY <3>1, <3>2
  <2>5. ASSUME NEW i \in Laid', NEW j \in Laid', i < j
        PROVE  End(placed'[i]) <= placed'[j].start
    <3>1. CASE j = This
      BY <1>3, <2>2, <2>3, <2>5, <3>1 DEF This
    <3>2. CASE j # This
      BY <1>3, <2>2, <2>5, <3>2 DEF This, Laid, LayoutInv, PartitionsDisjoint
    <3>3. QED
      BY <3>1, <3>2
  <2>6. ASSUME NEW i \in Laid'
        PROVE  Overhead <= placed'[i].start /\ End(placed'[i]) <= offset'
    <3>1. CASE i = This
      BY <1>0, <1>1, <1>3, <2>4, <3>1 DEF End
    <3>2. CASE i # This
      <4>1. i \in Laid
        BY <2>2, <3>2
      <4>2. placed[i] \in Placed
        BY <1>1, <4>1 DEF TypeOK, Laid
      <4>3. placed'[i] = placed[i]
        BY <1>3, <4>1
      <4>4. End(placed[i]) <= Start /\ Overhead <= placed[i].start
        BY <2>3, <4>1
      <4>5. End(placed[i]) \in Nat /\ offset' \in Nat /\ Start <= offset'
        BY <1>0, <1>1, <4>2 DEF End, Placed
      <4>6. QED
        BY <1>0, <4>3, <4>4, <4>5 DEF End
    <3>3. QED
      BY <3>1, <3>2
  <2>7. QED
    BY <2>1, <2>5, <2>6 DEF PartitionsDisjoint, End
<1>6. placed' # <<>>
  <2>1. Len(placed') \in Nat /\ Len(placed') # 0
    BY <1>1, <1>3 DEF TypeOK, This
  <2>2. QED
    BY <2>1
<1>7. Complete'
  BY <1>1 DEF Complete
<1>8. QED
  BY <1>4, <1>5, <1>6, <1>7 DEF LayoutInv

\* The steps that leave the layout as it is keep what is said of it.
LEMMA LayoutKept ==
  ASSUME LayoutInv, TypeOK', UNCHANGED <<inputVars, placed, offset>>
  PROVE  PartitionsDisjoint' /\ (placed' = <<>> => offset' = 0)
BY DEF LayoutInv, PartitionsDisjoint, Laid, End, Overhead, msdos, inputVars

LEMMA FinishLayoutInv == LayoutInv /\ FinishLayout => LayoutInv'
<1> SUFFICES ASSUME LayoutInv, FinishLayout PROVE LayoutInv'
  OBVIOUS
<1>1. MinSize \in Nat
  BY SectorSizeAssumption, TimesNat DEF MinSize, LayoutInv, TypeOK, GPT_OVERHEAD
<1>2. TypeOK'
  BY <1>1 DEF LayoutInv, TypeOK, FinishLayout, inputVars, diskVars
<1>3. Complete'
  BY DEF Complete, FinishLayout, LayoutInv, TypeOK, This, MinSize, Gpt, inputVars
<1>4. UNCHANGED <<inputVars, placed, offset>>
  BY DEF FinishLayout
<1>5. QED
  BY <1>2, <1>3, <1>4, LayoutKept DEF LayoutInv

LEMMA CreatePartitionInv == LayoutInv /\ CreatePartition => LayoutInv'
<1> SUFFICES ASSUME LayoutInv, CreatePartition PROVE LayoutInv'
  OBVIOUS
<1> DEFINE i == created + 1
           p == placed[i]
<1>1. i \in 1..Len(partitions) /\ p \in Placed
  BY DEF LayoutInv, TypeOK, CreatePartition, Complete
<1>2. TableSize(i) \in Int
  BY <1>1 DEF TableSize, Placed
<1>3. \A num \in Nat : /\ EntryOf(p.type, p.start, TableSize(i), num) \in Entry
                       /\ EntryOf("primary", p.start, TableSize(i), num) \in Entry
  BY <1>1, <1>2 DEF EntryOf, Entry, Placed
<1>4. ExtendedEntry(p) \in Seq(Entry)
  <2>1. EntryOf("extended", p.start - 2, extended_size_sec, 0) \in Entry
    BY <1>1 DEF EntryOf, Entry, Placed, LayoutInv, TypeOK
  <2>2. QED
    BY <2>1 DEF ExtendedEntry
<1>5. table' \in Seq(Entry)
  <2>1. CASE p.num = 0
    BY <2>1 DEF CreatePartition, LayoutInv, TypeOK
  <2>2. CASE p.num # 0
    <3>1. EntryOf(p.type, p.start, TableSize(i), p.num) \in Entry
      BY <1>1, <1>3 DEF Placed
    <3>2. table' = table \o ExtendedEntry(p)
                     \o <<EntryOf(p.type, p.start, TableSize(i), p.num)>>
      BY <2>2 DEF CreatePartition
    <3>3. QED
      BY <1>4, <3>1, <3>2 DEF LayoutInv, TypeOK
  <2>3. QED
    BY <2>1, <2>2
<1>6. mbr' \in Seq(Entry)
  <2>1. mbr \in Seq(Entry) /\ Len(mbr) + 1 \in Nat
    BY DEF LayoutInv, TypeOK
  <2>2. \/ mbr' = mbr
        \/ mbr' = Append(mbr, EntryOf("primary", p.start, TableSize(i), Len(mbr) + 1))
    BY DEF CreatePartition
  <2>3. QED
    BY <1>3, <2>1, <2>2
<1>7. pc' \in {"create", "error"} /\ pc = "create" /\ created' = created + 1
      /\ UNCHANGED <<inputVars, layoutVars, written>>
  BY DEF CreatePartition
<1>8. TypeOK'
  BY <1>1, <1>5, <1>6, <1>7 DEF LayoutInv, TypeOK, inputVars, layoutVars
<1>9. Complete'
  BY <1>7 DEF Complete, LayoutInv, MinSize, Gpt, inputVars, layoutVars
<1>10. QED
  BY <1>7, <1>8, <1>9, LayoutKept DEF LayoutInv, layoutVars

LEMMA FinishCreateInv == LayoutInv /\ FinishCreate => LayoutInv'
<1> SUFFICES ASSUME LayoutInv, FinishCreate PROVE LayoutInv'
  OBVIOUS
<1>1. UNCHANGED <<inputVars, layoutVars, created, table, written>>
  BY DEF FinishCreate
<1>2. pc' \in {"assemble", "error"} /\ pc = "create"
  BY DEF FinishCreate
<1>3. mbr' \in Seq(Entry)
  <2>1. mbr \in Seq(Entry)
    BY DEF LayoutInv, TypeOK
  <2>2. ProtectiveEntry(Len(mbr) + 1) \in Entry
    BY <2>1 DEF ProtectiveEntry, EntryOf, Entry, GPT_OVERHEAD
  <2>3. QED
    BY <2>1, <2>2 DEF FinishCreate
<1>4. TypeOK'
  BY <1>1, <1>2, <1>3 DEF LayoutInv, TypeOK, inputVars, layoutVars
<1>5. Complete'
  BY <1>1, <1>2 DEF Complete, LayoutInv, MinSize, Gpt, inputVars, layoutVars
<1>6. QED
  BY <1>1, <1>4, <1>5, LayoutKept DEF LayoutInv, layoutVars

LEMMA InstallPartitionInv == LayoutInv /\ InstallPartition => LayoutInv'
<1> SUFFICES ASSUME LayoutInv, InstallPartition PROVE LayoutInv'
  OBVIOUS
<1> DEFINE i == Len(written) + 1
<1>1. UNCHANGED <<inputVars, pc, layoutVars, created, table, mbr>>
  BY DEF InstallPartition
<1>2. i \in 1..Len(partitions) /\ i \in 1..Len(placed)
  BY DEF InstallPartition, LayoutInv, TypeOK, Complete
<1>3. Copied(i) \in Extent
  <2>1. placed[i] \in Placed /\ partitions[i] \in Part
    BY <1>2 DEF LayoutInv, TypeOK
  <2>2. placed[i].start \in Nat /\ partitions[i].image \in Nat
    BY <2>1 DEF Placed, Part
  <2> DEFINE first == placed[i].start * SectorSize
             length == partitions[i].image * 1024
  <2>3. first \in Nat
    BY <2>2, SectorSizeAssumption, TimesNat
  <2>4. length \in Nat
    BY <2>2, TimesNat
  <2>5. first + length \in Nat
    <3> HIDE DEF first, length
    <3>1. QED
      BY <2>3, <2>4, PlusNat
  <2>6. QED
    BY <2>3, <2>5 DEF Copied, Extent
<1>4. written' \in Seq(Extent) /\ Len(written') <= Len(partitions)
  BY <1>2, <1>3 DEF InstallPartition, LayoutInv, TypeOK
<1>5. TypeOK'
  BY <1>1, <1>4 DEF LayoutInv, TypeOK, inputVars, layoutVars
<1>6. Complete'
  BY <1>1 DEF Complete, LayoutInv, MinSize, Gpt, inputVars, layoutVars
<1>7. QED
  BY <1>1, <1>5, <1>6, LayoutKept DEF LayoutInv, layoutVars

LEMMA EndInv == LayoutInv /\ (LayoutFails \/ FinishAssemble) => LayoutInv'
<1> SUFFICES ASSUME LayoutInv, LayoutFails \/ FinishAssemble PROVE LayoutInv'
  OBVIOUS
<1>1. UNCHANGED <<inputVars, layoutVars, diskVars>>
  BY DEF LayoutFails, FinishAssemble
<1>2. pc' = "error" \/ (pc' = "done" /\ pc = "assemble")
  BY DEF LayoutFails, FinishAssemble
<1>3. TypeOK'
  BY <1>1, <1>2 DEF LayoutInv, TypeOK, inputVars, layoutVars, diskVars
<1>4. Complete'
  BY <1>1, <1>2 DEF Complete, LayoutInv, MinSize, Gpt, inputVars, layoutVars
<1>5. QED
  BY <1>1, <1>3, <1>4, LayoutKept DEF LayoutInv, layoutVars

\* What the layout is built on, for any .wks file: the invariant above is
\* inductive.
THEOREM LayoutInvariant == Spec => []LayoutInv
<1>1. LayoutInv /\ UNCHANGED vars => LayoutInv'
  <2> SUFFICES ASSUME LayoutInv, UNCHANGED vars PROVE LayoutInv'
    OBVIOUS
  <2>1. TypeOK'
    BY DEF LayoutInv, TypeOK, vars
  <2>2. Complete'
    BY DEF Complete, LayoutInv, MinSize, Gpt, vars
  <2>3. QED
    BY <2>1, <2>2, LayoutKept DEF LayoutInv, vars, inputVars
<1>2. LayoutInv /\ [Next]_vars => LayoutInv'
  BY <1>1, LayoutPartitionInv, FinishLayoutInv, CreatePartitionInv,
     FinishCreateInv, InstallPartitionInv, EndInv DEF Next
<1>3. QED
  BY <1>2, InitInv, PTL DEF Spec

\* Type correctness of the imager's state, for any .wks file.
THEOREM TypeCorrect == Spec => []TypeOK
<1>1. LayoutInv => TypeOK
  BY DEF LayoutInv
<1>2. QED
  BY <1>1, LayoutInvariant, PTL

\* No two partitions of an image share a sector, and none lies in the
\* partition table, whatever the .wks file asks for.
THEOREM NoOverlap == Spec => []PartitionsDisjoint
<1>1. LayoutInv => PartitionsDisjoint
  BY DEF LayoutInv
<1>2. QED
  BY <1>1, LayoutInvariant, PTL

\* The image file made by create is long enough for all partitions and the
\* GPT's copy.
THEOREM DiskLongEnough == Spec => []DiskHoldsAll
<1>1. ASSUME LayoutInv PROVE DiskHoldsAll
  <2> SUFFICES ASSUME pc \in {"create", "assemble", "done"}, NEW i \in Laid
               PROVE  (End(placed[i]) + (IF Gpt THEN GPT_OVERHEAD ELSE 0)) * SectorSize
                        <= min_size
    BY DEF DiskHoldsAll
  <2> DEFINE a == End(placed[i]) + (IF Gpt THEN GPT_OVERHEAD ELSE 0)
             b == offset + (IF Gpt THEN GPT_OVERHEAD ELSE 0)
  <2>1. placed[i] \in Placed
    BY <1>1 DEF LayoutInv, TypeOK, Laid
  <2>2. End(placed[i]) <= offset
    BY <1>1 DEF LayoutInv, PartitionsDisjoint
  <2>3. a \in Nat /\ b \in Nat /\ a <= b
    <3>1. offset \in Nat
      BY <1>1 DEF LayoutInv, TypeOK
    <3>2. placed[i].start \in Nat /\ placed[i].size \in Nat
      BY <2>1 DEF Placed
    <3>3. End(placed[i]) \in Nat
      BY <3>2 DEF End
    <3>4. QED
      BY <2>2, <3>1, <3>3 DEF GPT_OVERHEAD
  <2>4. min_size = b * SectorSize
    BY <1>1 DEF LayoutInv, Complete, MinSize
  <2>5. a * SectorSize <= b * SectorSize
    <3> HIDE DEF a, b
    <3>1. QED
      BY <2>3, SectorSizeAssumption
  <2>6. QED
    BY <2>4, <2>5
<1>2. QED
  BY <1>1, LayoutInvariant, PTL

------------------------------------------------------------------------------
(* Alignment and the copies. The second invariant needs the first one.      *)

\* Division with remainder, and the multiples it speaks of.
LEMMA Division ==
  ASSUME NEW a \in Nat, NEW b \in Nat \ {0}
  PROVE  a = b * (a \div b) + (a % b)
OBVIOUS

LEMMA MultipleNat ==
  ASSUME NEW k \in Nat, NEW x \in Nat \ {0}
  PROVE  (k * x) % x = 0
<1> DEFINE a == k * x
           q == a \div x
           r == a % x
<1>1. a \in Nat /\ q \in Nat /\ r \in Nat /\ r < x
  BY TimesNat, DivNat, ModNat
<1>2. a = x * q + r
  BY <1>1, Division
<1>3. x * (k - q) = r
  <2> HIDE DEF q, r
  <2>1. QED
    BY <1>1, <1>2 DEF a
<1> HIDE DEF a, q, r
<1>4. k = q
  <2>1. CASE k > q
    <3>1. x * (k - q) >= x
      BY <1>1, <2>1
    <3>2. QED
      BY <1>1, <1>3, <3>1
  <2>2. CASE k < q
    <3>1. x * (k - q) <= -x
      BY <1>1, <2>2
    <3>2. QED
      BY <1>1, <1>3, <3>1
  <2>3. QED
    BY <1>1, <2>1, <2>2
<1>5. r = 0
  BY <1>1, <1>3, <1>4
<1>6. QED
  BY <1>5 DEF r, a

LEMMA MultipleOf ==
  ASSUME NEW a \in Nat, NEW b \in Nat \ {0}, a % b = 0
  PROVE  a = (a \div b) * b /\ a \div b \in Nat
<1>1. a \div b \in Nat
  BY DivNat
<1>2. a = b * (a \div b) + (a % b)
  BY Division
<1>3. QED
  BY <1>1, <1>2

LEMMA MonotoneTimes ==
  ASSUME NEW a \in Nat, NEW b \in Nat, NEW c \in Nat, a <= b
  PROVE  a * c <= b * c
OBVIOUS

\* A place the layout computes from --align is a multiple of it.
LEMMA PlaceAligned ==
  ASSUME TypeOK, This <= Len(partitions), ~NoPlace,
         part.offset = None, part.align * 1024 # 0,
         ((part.align * 1024) % SectorSize) = 0
  PROVE  ((Start * SectorSize) % (part.align * 1024)) = 0
<1> DEFINE x == part.align * 1024
<1>1. part \in Part /\ FreeSector \in Nat /\ Start \in Nat
  BY PlaceType
<1>2. part.align \in Nat /\ part.align # 0
  BY <1>1 DEF Part
<1>3. x \in Nat \ {0}
  BY <1>2
<1>4. Unit = x \div SectorSize
  BY DEF Unit, Sectors
<1>5. Unit \in Nat \ {0} /\ x = Unit * SectorSize
  <2>1. x = (x \div SectorSize) * SectorSize /\ x \div SectorSize \in Nat
    <3> HIDE DEF x
    <3>1. x % SectorSize = 0
      BY DEF x
    <3>2. QED
      BY <1>3, <3>1, SectorSizeAssumption, MultipleOf
  <2>2. Unit # 0
    BY <1>2 DEF NoPlace
  <2>3. QED
    BY <1>4, <2>1, <2>2
<1>6. PICK k \in Nat : Start = k * Unit
  <2>1. Start = FreeSector + AlignSectors
    BY DEF Start, NextStart
  <2> DEFINE q == FreeSector \div Unit
             r == FreeSector % Unit
  <2>2. q \in Nat /\ r \in Nat /\ r < Unit /\ FreeSector = Unit * q + r
    BY <1>1, <1>5, DivNat, ModNat, Division
  <2>3. CASE r = 0
    <3>1. AlignSectors = 0
      BY <2>3 DEF AlignSectors
    <3>2. Start = q * Unit
      <4> HIDE DEF q, r
      <4>1. QED
        BY <1>1, <1>5, <2>1, <2>2, <2>3, <3>1
    <3>3. QED
      BY <2>2, <3>2
  <2>4. CASE r # 0
    <3>1. AlignSectors = Unit - r
      BY <1>2, <2>4 DEF AlignSectors
    <3>2. q + 1 \in Nat /\ Start = (q + 1) * Unit
      <4> HIDE DEF q, r
      <4>1. QED
        BY <1>1, <1>5, <2>1, <2>2, <3>1
    <3>3. QED
      BY <3>2
  <2>5. QED
    BY <2>3, <2>4
<1>7. Start * SectorSize = k * x
  <2> HIDE DEF x
  <2>1. QED
    BY <1>1, <1>3, <1>5, <1>6, SectorSizeAssumption
<1>8. (k * x) % x = 0
  <2> HIDE DEF x
  <2>1. QED
    BY <1>3, <1>6, MultipleNat
<1>9. QED
  BY <1>7, <1>8

SizesKept == \A i \in Laid : placed[i].size = Sectors(partitions[i].size)

\* Copying starts when the layout is over, and goes by it.
CopiesRight ==
  /\ written # <<>> => pc \in {"assemble", "done"}
  /\ \A i \in 1..Len(written) : written[i] = Copied(i)

DetailInv == partitions \in Wks /\ SizesKept /\ Aligned /\ CopiesRight

LEMMA LayoutPartitionDetail ==
  ASSUME LayoutInv, LayoutInv', DetailInv, LayoutPartition
  PROVE  DetailInv'
<1> DEFINE p == [start |-> Start, size |-> Sectors(part.size),
                 num |-> ThisNum, type |-> ThisType]
<1>1. /\ TypeOK /\ This <= Len(partitions) /\ ~NoPlace
      /\ placed' = Append(placed, p)
      /\ partitions' = partitions /\ written' = written
      /\ pc = "layout" /\ pc' = "layout"
  BY DEF LayoutInv, LayoutPartition, inputVars, diskVars
<1>2. /\ Laid' = Laid \cup {This}
      /\ \A i \in Laid : placed'[i] = placed[i]
      /\ placed'[This] = p
  <2>1. placed \in Seq(Placed) /\ placed' \in Seq(Placed)
    BY DEF LayoutInv, TypeOK
  <2>2. p = placed'[This] /\ Len(placed') = This
    BY <1>1, <2>1 DEF This
  <2>3. QED
    BY <1>1, <2>1, <2>2 DEF This, Laid
<1>7. p.start = Start /\ p.size = Sectors(part.size)
  OBVIOUS
<1>8. partitions' = partitions
  BY <1>1
<1> HIDE DEF p
<1>3. SizesKept'
  <2>1. ASSUME NEW i \in Laid'
        PROVE  placed'[i].size = Sectors(partitions'[i].size)
    <3>1. CASE i = This
      BY <1>2, <1>7, <1>8, <3>1 DEF part
    <3>2. CASE i # This
      BY <1>2, <1>8, <3>2 DEF DetailInv, SizesKept
    <3>3. QED
      BY <3>1, <3>2
  <2>2. QED
    BY <2>1 DEF SizesKept, Sectors
<1>4. Aligned'
  <2> SUFFICES ASSUME NEW i \in Laid',
                      partitions'[i].align * 1024 # 0,
                      ((partitions'[i].align * 1024) % SectorSize) = 0,
                      partitions'[i].offset = None
               PROVE  ((placed'[i].start * SectorSize)
                         % (partitions'[i].align * 1024)) = 0
    BY DEF Aligned
  <2>1. CASE i = This
    <3>1. partitions'[i] = part /\ placed'[i].start = Start
      BY <1>2, <1>7, <1>8, <2>1 DEF part
    <3>2. /\ part.align * 1024 # 0 /\ part.offset = None
          /\ ((part.align * 1024) % SectorSize) = 0
      BY <3>1
    <3>3. ((Start * SectorSize) % (part.align * 1024)) = 0
      BY <1>1, <3>2, PlaceAligned
    <3>4. QED
      BY <3>1, <3>3
  <2>2. CASE i # This
    <3>1. /\ i \in Laid /\ placed'[i] = placed[i]
          /\ partitions'[i] = partitions[i]
      BY <1>2, <1>8, <2>2
    <3>2. QED
      BY <3>1 DEF DetailInv, Aligned
  <2>3. QED
    BY <2>1, <2>2
<1>5. CopiesRight'
  <2>1. written = <<>>
    BY <1>1 DEF DetailInv, CopiesRight
  <2>2. Len(written') = 0
    BY <1>1, <2>1
  <2>3. QED
    BY <1>1, <2>1, <2>2 DEF CopiesRight
<1>6. QED
  BY <1>1, <1>3, <1>4, <1>5 DEF DetailInv

LEMMA InstallPartitionDetail ==
  ASSUME LayoutInv, DetailInv, InstallPartition
  PROVE  DetailInv'
<1>1. /\ UNCHANGED <<inputVars, pc, placed>>
      /\ pc = "assemble"
      /\ written' = Append(written, Copied(Len(written) + 1))
  BY DEF InstallPartition, layoutVars
<1>2. SizesKept' /\ Aligned'
  BY <1>1 DEF DetailInv, SizesKept, Aligned, Laid, Sectors, inputVars
<1>3. \A i \in 1..Len(written') : written'[i] = Copied(i)
  <2>1. written \in Seq(Extent)
    BY DEF LayoutInv, TypeOK
  <2> SUFFICES ASSUME NEW i \in 1..Len(written') PROVE written'[i] = Copied(i)
    OBVIOUS
  <2>2. CASE i = Len(written) + 1
    BY <1>1, <2>1, <2>2
  <2>3. CASE i # Len(written) + 1
    <3>1. i \in 1..Len(written) /\ written'[i] = written[i]
      BY <1>1, <2>1, <2>3
    <3>2. QED
      BY <3>1 DEF DetailInv, CopiesRight
  <2>4. QED
    BY <2>2, <2>3
<1>4. \A i \in 1..Len(written') : Copied(i)' = Copied(i)
  BY <1>1 DEF Copied, inputVars
<1>5. CopiesRight'
  BY <1>1, <1>3, <1>4 DEF CopiesRight
<1>6. QED
  BY <1>1, <1>2, <1>5 DEF DetailInv, inputVars

\* The steps that place and copy nothing.
LEMMA OtherDetail ==
  ASSUME DetailInv, UNCHANGED <<inputVars, placed, written>>,
         \/ pc \in {"layout", "create"}
         \/ pc' \in {"assemble", "done"}
         \/ pc' = pc
  PROVE  DetailInv'
<1>1. SizesKept' /\ Aligned'
  BY DEF DetailInv, SizesKept, Aligned, Laid, Sectors, inputVars
<1>2. CopiesRight'
  BY DEF DetailInv, CopiesRight, Copied, inputVars
<1>3. QED
  BY <1>1, <1>2 DEF DetailInv, inputVars

LEMMA DetailInvariant == Spec => []DetailInv
<1>1. Init => DetailInv
  BY DEF Init, DetailInv, SizesKept, Aligned, CopiesRight, Laid
<1>2. LayoutInv /\ LayoutInv' /\ DetailInv /\ [Next]_vars => DetailInv'
  <2> SUFFICES ASSUME LayoutInv, LayoutInv', DetailInv, [Next]_vars
               PROVE  DetailInv'
    OBVIOUS
  <2>1. CASE LayoutPartition
    BY <2>1, LayoutPartitionDetail
  <2>2. CASE InstallPartition
    BY <2>2, InstallPartitionDetail
  <2>3. CASE LayoutFails
    BY <2>3, OtherDetail DEF LayoutFails, layoutVars, diskVars
  <2>4. CASE FinishLayout
    BY <2>4, OtherDetail DEF FinishLayout, diskVars
  <2>5. CASE CreatePartition
    BY <2>5, OtherDetail DEF CreatePartition, layoutVars
  <2>6. CASE FinishCreate
    BY <2>6, OtherDetail DEF FinishCreate, layoutVars
  <2>7. CASE FinishAssemble
    BY <2>7, OtherDetail DEF FinishAssemble, layoutVars, diskVars
  <2>8. CASE UNCHANGED vars
    BY <2>8, OtherDetail DEF vars, inputVars
  <2>9. QED
    BY <2>1, <2>2, <2>3, <2>4, <2>5, <2>6, <2>7, <2>8 DEF Next
<1>3. QED
  BY <1>1, <1>2, LayoutInvariant, PTL DEF Spec

\* Every partition with --align, and no --offset, starts on a multiple of it,
\* whatever lies before it: the boundary layout_partitions moves its offset to
\* (direct.py:428-449) is the one the .wks file asked for.
THEOREM AlignedAlways == Spec => []Aligned
<1>1. DetailInv => Aligned
  BY DEF DetailInv
<1>2. QED
  BY <1>1, DetailInvariant, PTL

\* assemble copies every image to a place of its own: no byte of the partition
\* table or of another partition is written (direct.py:678-690).
THEOREM CopiesKeptApart == Spec => []ImagesKeptApart
<1>1. ASSUME LayoutInv, DetailInv PROVE ImagesKeptApart
  <2> SUFFICES ASSUME NEW i \in 1..Len(written), WholeSectors(i)
               PROVE  /\ Overhead * SectorSize <= written[i].from
                      /\ \A j \in Laid \ {i} :
                           \/ written[i].to <= placed[j].start * SectorSize
                           \/ End(placed[j]) * SectorSize <= written[i].from
    BY DEF ImagesKeptApart
  <2>1. i \in Laid /\ i \in 1..Len(partitions)
    <3>1. written # <<>>
      BY <1>1 DEF LayoutInv, TypeOK
    <3>2. Len(placed) = Len(partitions)
      BY <1>1, <3>1 DEF DetailInv, CopiesRight, LayoutInv, Complete
    <3>3. QED
      BY <1>1, <3>2 DEF LayoutInv, TypeOK, Laid
  <2> DEFINE start == placed[i].start
             kb == partitions[i].size
             image == partitions[i].image
  <2>2. /\ \A j \in Laid : placed[j].start \in Nat /\ placed[j].size \in Nat
                            /\ End(placed[j]) \in Nat
        /\ kb \in Nat /\ image \in Nat /\ image <= kb
    <3>1. \A j \in Laid : placed[j] \in Placed
      BY <1>1 DEF LayoutInv, TypeOK, Laid
    <3>2. partitions[i] \in Part
      BY <1>1, <2>1 DEF LayoutInv, TypeOK
    <3>3. image <= kb
      BY <1>1, <2>1, ImageAssumption DEF DetailInv
    <3>4. QED
      BY <3>1, <3>2, <3>3 DEF Placed, Part, End
  <2>3. written[i].from = start * SectorSize /\ start * SectorSize \in Nat
        /\ written[i].to = start * SectorSize + image * 1024
    <3>1. written[i] = [from |-> start * SectorSize,
                        to |-> start * SectorSize + image * 1024]
      BY <1>1 DEF DetailInv, CopiesRight, Copied
    <3>2. start \in Nat
      BY <2>1, <2>2
    <3> HIDE DEF start, image
    <3>3. start * SectorSize \in Nat
      BY <3>2, SectorSizeAssumption, TimesNat
    <3>4. QED
      BY <3>1, <3>3
  <2>4. kb * 1024 = placed[i].size * SectorSize
    <3>1. placed[i].size = (kb * 1024) \div SectorSize
      BY <1>1, <2>1 DEF DetailInv, SizesKept, Sectors
    <3> DEFINE bytes == kb * 1024
    <3>2. (bytes % SectorSize) = 0 /\ bytes \in Nat
      BY <2>2 DEF WholeSectors
    <3> HIDE DEF bytes
    <3>3. bytes = (bytes \div SectorSize) * SectorSize
      BY <3>2, SectorSizeAssumption, MultipleOf
    <3>4. QED
      BY <3>1, <3>3 DEF bytes
  <2>5. written[i].to <= End(placed[i]) * SectorSize
    <3>1. End(placed[i]) * SectorSize
            = start * SectorSize + placed[i].size * SectorSize
      BY <2>1, <2>2, SectorSizeAssumption DEF End
    <3>2. image * 1024 <= kb * 1024 /\ image * 1024 \in Nat /\ kb * 1024 \in Nat
      BY <2>2
    <3>3. QED
      BY <2>3, <2>4, <3>1, <3>2
  <2>6. Overhead * SectorSize <= written[i].from
    <3>1. Overhead \in Nat /\ Overhead <= start
      BY <1>1, <2>1 DEF LayoutInv, PartitionsDisjoint, Overhead, MBR_OVERHEAD,
                        GPT_OVERHEAD
    <3>2. start \in Nat
      BY <2>1, <2>2
    <3> HIDE DEF start
    <3>3. Overhead * SectorSize <= start * SectorSize
      BY <3>1, <3>2, SectorSizeAssumption, MonotoneTimes
    <3>4. QED
      BY <2>3, <3>3
  <2>7. ASSUME NEW j \in Laid, i < j
        PROVE  written[i].to <= placed[j].start * SectorSize
    <3>1. End(placed[i]) <= placed[j].start
      BY <1>1, <2>1, <2>7 DEF LayoutInv, PartitionsDisjoint
    <3>2. /\ End(placed[i]) * SectorSize <= placed[j].start * SectorSize
          /\ End(placed[i]) * SectorSize \in Nat
          /\ placed[j].start * SectorSize \in Nat
      BY <2>1, <2>2, <2>7, <3>1, SectorSizeAssumption, MonotoneTimes, TimesNat
    <3>3. written[i].to \in Nat
      BY <2>2, <2>3
    <3>4. QED
      BY <2>5, <3>2, <3>3
  <2>8. ASSUME NEW j \in Laid, j < i
        PROVE  End(placed[j]) * SectorSize <= written[i].from
    <3>1. End(placed[j]) <= start
      BY <1>1, <2>1, <2>8 DEF LayoutInv, PartitionsDisjoint
    <3> DEFINE e == End(placed[j])
    <3>2. start \in Nat /\ e \in Nat
      BY <2>1, <2>2, <2>8
    <3> HIDE DEF start, e
    <3>3. e * SectorSize <= start * SectorSize
      BY <3>1, <3>2, SectorSizeAssumption, MonotoneTimes DEF e
    <3>4. QED
      BY <2>3, <3>3 DEF e
  <2>9. \A j \in Laid \ {i} : i < j \/ j < i
    BY <2>1 DEF Laid
  <2>10. QED
    BY <2>6, <2>7, <2>8, <2>9
<1>2. QED
  BY <1>1, LayoutInvariant, DetailInvariant, PTL
------------------------------------------------------------------------------
(* The numbers and the table.  The invariants behind TableRight and          *)
(* ContiguousLogicalsHeld: what the counters of the layout stand for, and    *)
(* which partition every entry of the table describes.                       *)

\* realpart counts the partitions of the table; a number is given once, below
\* 5 to a primary partition and from 5 on to a logical one.
Numbered ==
  /\ realpart = Cardinality(InTable(Len(placed)))
  /\ \A i \in Laid : placed[i].num = 0 <=> partitions[i].no_table
  /\ \A i, j \in Laid : placed[i].num = placed[j].num /\ placed[i].num # 0 => i = j
  /\ ~msdos => \A i \in Laid : placed[i].num <= realpart
  /\ msdos => \A i \in Laid : placed[i].num # 0 =>
       IF placed[i].type = "primary" THEN placed[i].num \in 1..primary_part_num
       ELSE placed[i].num \in 5..(4 + logical_part_cnt)

\* The four slots of an MBR: the extended partition has one to itself as soon
\* as there is a logical partition.
Slots == msdos =>
  /\ primary_part_num <= 4
  /\ extendedpart = IF logical_part_cnt = 0 THEN 0 ELSE 5
  /\ logical_part_cnt = 0 => extended_size_sec = 0
  /\ logical_part_cnt = 0 =>
       primary_part_num = realpart /\ (NumReal > 4 => realpart <= 3)
  /\ logical_part_cnt # 0 =>
       \E e \in 1..primary_part_num : \A i \in Laid : placed[i].num # e

\* Without --type, the first three are primary and the others logical when
\* there are more than four, and all are primary when there are not.
PlainNumbers == AllPrimary =>
  /\ \A i \in Laid : placed[i].num = Realnum(i)
  /\ msdos /\ logical_part_cnt # 0 =>
       NumReal > 4 /\ primary_part_num = 4 /\ logical_part_cnt = realpart - 3

\* The logical partitions so far fill the extended one up to the last sector
\* given away.
ExtendedCovers == msdos /\ LogicalsContiguous /\ logical_part_cnt # 0 =>
  \E f \in Laid :
    /\ placed[f].num = 5 /\ placed[f].type = "logical"
    /\ \A i \in Laid : placed[i].type = "logical" /\ placed[i].num # 0 => f <= i
    /\ offset = placed[f].start - 2 + extended_size_sec

NumbersInv == Numbered /\ Slots /\ PlainNumbers /\ ExtendedCovers

\* What a partition adds to the count of those in the table.
LEMMA CountStep ==
  ASSUME TypeOK, This <= Len(partitions)
  PROVE  /\ Cardinality(InTable(Len(placed))) \in Nat /\ NumReal \in Nat
         /\ Cardinality(InTable(This)) = Cardinality(InTable(Len(placed)))
                                           + (IF part.no_table THEN 0 ELSE 1)
         /\ Cardinality(InTable(This)) <= NumReal
<1>1. Len(placed) \in Nat /\ Len(partitions) \in Nat /\ This = Len(placed) + 1
  BY DEF TypeOK, This
<1>2. \A n \in Nat : IsFiniteSet(InTable(n)) /\ Cardinality(InTable(n)) \in Nat
  <2> SUFFICES ASSUME NEW n \in Nat
               PROVE  IsFiniteSet(InTable(n)) /\ Cardinality(InTable(n)) \in Nat
    OBVIOUS
  <2>1. IsFiniteSet(1..n)
    BY FS_Interval
  <2>2. InTable(n) \in SUBSET (1..n)
    BY DEF InTable
  <2>3. QED
    BY <2>1, <2>2, FS_Subset, FS_CardinalityType
<1>3. InTable(This) = IF part.no_table THEN InTable(Len(placed))
                      ELSE InTable(Len(placed)) \cup {This}
  <2>1. 1..This = 1..Len(placed) \cup {This}
    BY <1>1
  <2>2. QED
    BY <2>1 DEF InTable, part
<1>4. This \notin InTable(Len(placed))
  BY <1>1 DEF InTable
<1>5. Cardinality(InTable(This)) = Cardinality(InTable(Len(placed)))
                                     + (IF part.no_table THEN 0 ELSE 1)
  <2>1. CASE part.no_table
    BY <1>1, <1>2, <1>3, <2>1
  <2>2. CASE ~part.no_table
    BY <1>1, <1>2, <1>3, <1>4, <2>2, FS_AddElement
  <2>3. QED
    BY <2>1, <2>2
<1>6. Cardinality(InTable(This)) <= NumReal
  <2>1. InTable(This) \in SUBSET InTable(Len(partitions))
    BY <1>1 DEF InTable
  <2>2. QED
    BY <1>1, <1>2, <2>1, FS_Subset DEF NumReal
<1>7. QED
  BY <1>1, <1>2, <1>5, <1>6 DEF NumReal

\* A step of the layout adds one partition behind the others.
LEMMA LayoutPlaces ==
  ASSUME LayoutInv, LayoutPartition
  PROVE  /\ Laid' = Laid \cup {This}
         /\ \A i \in Laid : i \in Nat /\ i < This /\ placed'[i] = placed[i]
                            /\ placed[i] \in Placed
         /\ placed'[This].num = ThisNum /\ placed'[This].type = ThisType
         /\ placed'[This].start = Start
         /\ placed'[This].size = Sectors(part.size)
         /\ partitions' = partitions /\ ptable_format' = ptable_format
         /\ msdos' = msdos /\ NumReal' = NumReal
         /\ This \in 1..Len(partitions) /\ part \in Part
         /\ Len(placed') = This
         /\ ThisType \in {"primary", "logical"}
<1> DEFINE p == [start |-> Start, size |-> Sectors(part.size),
                 num |-> ThisNum, type |-> ThisType]
<1>1. /\ TypeOK /\ This <= Len(partitions) /\ ~NoPlace
      /\ placed' = Append(placed, p)
      /\ partitions' = partitions /\ ptable_format' = ptable_format
  BY DEF LayoutInv, LayoutPartition, inputVars
<1>2. placed \in Seq(Placed) /\ Len(placed) \in Nat /\ This = Len(placed) + 1
  BY <1>1 DEF TypeOK, This
<1>3. /\ Laid' = Laid \cup {This} /\ Len(placed') = This
      /\ \A i \in Laid : i \in Nat /\ i < This /\ placed'[i] = placed[i]
                         /\ placed[i] \in Placed
      /\ placed'[This] = p
  <2> HIDE DEF p
  <2>1. QED
    BY <1>1, <1>2 DEF Laid
<1>4. This \in 1..Len(partitions) /\ part \in Part
  BY <1>1, <1>2, PlaceType
<1>5. msdos' = msdos /\ NumReal' = NumReal
  BY <1>1 DEF msdos, NumReal, InTable
<1>6. ThisType \in {"primary", "logical"}
  BY <1>4 DEF ThisType, Part
<1>7. /\ p.start = Start /\ p.size = Sectors(part.size)
      /\ p.num = ThisNum /\ p.type = ThisType
  OBVIOUS
<1> HIDE DEF p
<1>8. QED
  BY <1>1, <1>3, <1>4, <1>5, <1>6, <1>7

LEMMA NumberedStep ==
  ASSUME LayoutInv, Numbered, Slots, LayoutPartition
  PROVE  Numbered'
<1> DEFINE t == This
<1>1. TypeOK /\ This <= Len(partitions)
  BY DEF LayoutInv, LayoutPartition
<1>2. realpart \in Nat /\ primary_part_num \in Nat /\ logical_part_cnt \in Nat
  BY <1>1 DEF TypeOK
<1>3. \A i \in Laid : placed[i].num \in Nat /\ placed[i].type \in {"primary", "logical"}
  BY LayoutPlaces DEF Placed
<1>4. realpart' = Cardinality(InTable(Len(placed)))'
  <2>1. InTable(Len(placed))' = InTable(This)
    BY LayoutPlaces DEF InTable
  <2>2. QED
    BY <1>1, <2>1, CountStep DEF LayoutPartition, Numbered
<1>5. \A i \in Laid' : placed'[i].num = 0 <=> partitions'[i].no_table
  <2>1. ThisNum = 0 <=> part.no_table
    BY <1>2 DEF ThisNum
  <2>2. QED
    BY <2>1, LayoutPlaces DEF Numbered, part
<1>6. ~msdos => \A i \in Laid' : placed'[i].num <= realpart'
  <2> SUFFICES ASSUME ~msdos, NEW i \in Laid' PROVE placed'[i].num <= realpart'
    OBVIOUS
  <2>1. realpart' = IF part.no_table THEN realpart ELSE realpart + 1
    BY <1>2 DEF LayoutPartition
  <2>2. CASE i = This
    BY <1>2, <2>1, <2>2, LayoutPlaces DEF ThisNum
  <2>3. CASE i # This
    <3>1. i \in Laid /\ placed'[i] = placed[i]
      BY <2>3, LayoutPlaces
    <3>2. placed[i].num <= realpart
      BY <3>1 DEF Numbered
    <3>3. QED
      BY <1>2, <1>3, <2>1, <3>1, <3>2
  <2>4. QED
    BY <2>2, <2>3
<1>7. msdos => \A i \in Laid' : placed'[i].num # 0 =>
        IF placed'[i].type = "primary" THEN placed'[i].num \in 1..primary_part_num'
        ELSE placed'[i].num \in 5..(4 + logical_part_cnt')
  <2> SUFFICES ASSUME msdos, NEW i \in Laid', placed'[i].num # 0
               PROVE  IF placed'[i].type = "primary"
                      THEN placed'[i].num \in 1..primary_part_num'
                      ELSE placed'[i].num \in 5..(4 + logical_part_cnt')
    OBVIOUS
  <2>1. /\ primary_part_num' \in Nat /\ primary_part_num <= primary_part_num'
        /\ logical_part_cnt' \in Nat /\ logical_part_cnt <= logical_part_cnt'
        /\ IsLogical => logical_part_cnt' = logical_part_cnt + 1
        /\ IsPrimary => primary_part_num' = primary_part_num + 1
    BY <1>2 DEF LayoutPartition
  <2>2. CASE i = This
    <3>1. ThisNum # 0 /\ ~part.no_table
      BY <2>2, LayoutPlaces DEF ThisNum
    <3>2. CASE ThisType = "logical"
      BY <1>2, <2>1, <2>2, <3>1, <3>2, LayoutPlaces DEF ThisNum, IsLogical
    <3>3. CASE ThisType = "primary"
      BY <1>2, <2>1, <2>2, <3>1, <3>3, LayoutPlaces DEF ThisNum, IsPrimary
    <3>4. QED
      BY <3>2, <3>3, LayoutPlaces
  <2>3. CASE i # This
    <3>1. i \in Laid /\ placed'[i] = placed[i]
      BY <2>3, LayoutPlaces
    <3>2. IF placed[i].type = "primary" THEN placed[i].num \in 1..primary_part_num
          ELSE placed[i].num \in 5..(4 + logical_part_cnt)
      BY <3>1 DEF Numbered
    <3>3. QED
      BY <1>2, <1>3, <2>1, <3>1, <3>2
  <2>4. QED
    BY <2>2, <2>3
\* The number is one that nobody had.
<1>8. ThisNum # 0 => \A i \in Laid : placed[i].num # ThisNum
  <2> SUFFICES ASSUME ThisNum # 0, NEW i \in Laid, placed[i].num = ThisNum PROVE FALSE
    OBVIOUS
  <2>1. ~part.no_table
    BY DEF ThisNum
  <2>2. CASE ~msdos
    BY <1>2, <1>3, <2>1, <2>2 DEF ThisNum, Numbered
  <2>3. CASE msdos /\ ThisType = "logical"
    <3>1. ThisNum = logical_part_cnt + 5
      BY <1>2, <2>1, <2>3 DEF ThisNum
    <3>2. primary_part_num <= 4
      BY <2>3 DEF Slots
    <3>3. QED
      BY <1>2, <1>3, <2>3, <3>1, <3>2 DEF Numbered
  <2>4. CASE msdos /\ ThisType = "primary"
    <3>1. ThisNum = primary_part_num + 1
      BY <2>1, <2>4 DEF ThisNum
    <3>2. primary_part_num <= 3
      BY <1>2, <2>4 DEF ThisType
    <3>3. QED
      BY <1>2, <1>3, <2>4, <3>1, <3>2 DEF Numbered
  <2>5. QED
    BY <2>2, <2>3, <2>4, LayoutPlaces
<1>9. \A i, j \in Laid' :
        placed'[i].num = placed'[j].num /\ placed'[i].num # 0 => i = j
  BY <1>8, LayoutPlaces DEF Numbered
<1>10. QED
  BY <1>4, <1>5, <1>6, <1>7, <1>9, LayoutPlaces DEF Numbered

LEMMA SlotsStep ==
  ASSUME LayoutInv, Numbered, Slots, LayoutPartition
  PROVE  Slots'
<1> SUFFICES ASSUME msdos PROVE Slots'
  BY LayoutPlaces DEF Slots
<1>1. TypeOK /\ This <= Len(partitions)
  BY DEF LayoutInv, LayoutPartition
<1>2. realpart \in Nat /\ primary_part_num \in Nat /\ logical_part_cnt \in Nat
      /\ NumReal \in Nat
  BY <1>1, CountStep DEF TypeOK
<1>3. /\ realpart' = realpart + (IF part.no_table THEN 0 ELSE 1)
      /\ realpart' <= NumReal
      /\ logical_part_cnt' = logical_part_cnt + (IF IsLogical THEN 1 ELSE 0)
      /\ extendedpart' = IF IsLogical /\ extendedpart = 0 THEN ThisNum ELSE extendedpart
      /\ primary_part_num' = primary_part_num
           + (IF IsPrimary \/ (IsLogical /\ extendedpart = 0) THEN 1 ELSE 0)
  BY <1>1, CountStep DEF LayoutPartition, Numbered
<1>4. /\ primary_part_num <= 4
      /\ extendedpart = IF logical_part_cnt = 0 THEN 0 ELSE 5
      /\ logical_part_cnt = 0 =>
           primary_part_num = realpart /\ (NumReal > 4 => realpart <= 3)
      /\ logical_part_cnt # 0 =>
           \E e \in 1..primary_part_num : \A i \in Laid : placed[i].num # e
  BY DEF Slots
<1>9. logical_part_cnt' = 0 => extended_size_sec' = 0
  BY <1>2, <1>3 DEF Slots, LayoutPartition, ExtendedGrowth
<1>5. CASE part.no_table
  <2>1. ~IsLogical /\ ~IsPrimary /\ ThisNum = 0
    BY <1>5 DEF IsLogical, IsPrimary, ThisNum
  <2>2. /\ realpart' = realpart /\ logical_part_cnt' = logical_part_cnt
        /\ extendedpart' = extendedpart /\ primary_part_num' = primary_part_num
    BY <1>2, <1>3, <1>5, <2>1
  <2>3. logical_part_cnt # 0 =>
          \E e \in 1..primary_part_num : \A i \in Laid' : placed'[i].num # e
    BY <1>2, <1>4, <2>1, LayoutPlaces
  <2>4. QED
    BY <1>4, <1>9, <2>2, <2>3, LayoutPlaces DEF Slots
<1>6. CASE ~part.no_table /\ ThisType = "primary"
  <2>1. ~IsLogical /\ IsPrimary /\ ThisNum = primary_part_num + 1
    BY <1>6 DEF IsLogical, IsPrimary, ThisNum
  <2>2. /\ primary_part_num <= 3
        /\ ~(extendedpart = 0 /\ primary_part_num >= 3 /\ NumReal > 4)
    BY <1>2, <1>6 DEF ThisType
  <2>3. /\ realpart' = realpart + 1 /\ logical_part_cnt' = logical_part_cnt
        /\ extendedpart' = extendedpart /\ primary_part_num' = primary_part_num + 1
    BY <1>2, <1>3, <1>6, <2>1
  <2>4. logical_part_cnt # 0 =>
          \E e \in 1..primary_part_num' : \A i \in Laid' : placed'[i].num # e
    <3> SUFFICES ASSUME logical_part_cnt # 0
                 PROVE  \E e \in 1..primary_part_num' : \A i \in Laid' : placed'[i].num # e
      OBVIOUS
    <3>1. PICK e \in 1..primary_part_num : \A i \in Laid : placed[i].num # e
      BY <1>4
    <3>2. e \in 1..primary_part_num' /\ ThisNum # e
      BY <1>2, <2>1, <2>3
    <3>3. \A i \in Laid' : placed'[i].num # e
      BY <3>1, <3>2, LayoutPlaces
    <3>4. QED
      BY <3>2, <3>3
  <2>5. primary_part_num' <= 4
    BY <1>2, <2>2, <2>3
  <2>6. logical_part_cnt' = 0 =>
          primary_part_num' = realpart' /\ (NumReal > 4 => realpart' <= 3)
    BY <1>2, <1>4, <2>2, <2>3
  <2>7. QED
    BY <1>4, <1>9, <2>3, <2>4, <2>5, <2>6, LayoutPlaces DEF Slots
<1>7. CASE ~part.no_table /\ ThisType = "logical"
  <2>1. IsLogical /\ ~IsPrimary /\ ThisNum = logical_part_cnt + 5
    BY <1>2, <1>7 DEF IsLogical, IsPrimary, ThisNum
  <2>2. /\ realpart' = realpart + 1 /\ logical_part_cnt' = logical_part_cnt + 1
        /\ extendedpart' = 5
    BY <1>2, <1>3, <1>4, <1>7, <2>1
  <2>3. CASE logical_part_cnt # 0
    <3>1. primary_part_num' = primary_part_num
      BY <1>2, <1>3, <1>4, <2>1, <2>3
    <3>2. \E e \in 1..primary_part_num' : \A i \in Laid' : placed'[i].num # e
      <4>1. PICK e \in 1..primary_part_num : \A i \in Laid : placed[i].num # e
        BY <1>4, <2>3
      <4>2. ThisNum # e
        BY <1>2, <1>4, <2>1
      <4>3. \A i \in Laid' : placed'[i].num # e
        BY <4>1, <4>2, LayoutPlaces
      <4>4. QED
        BY <3>1, <4>3
    <3>3. QED
      BY <1>2, <1>4, <1>9, <2>2, <3>1, <3>2, LayoutPlaces DEF Slots
  \* The first logical partition: its extended one takes the next number.
  <2>4. CASE logical_part_cnt = 0
    <3>1. primary_part_num' = primary_part_num + 1
      BY <1>2, <1>3, <1>4, <2>1, <2>4
    <3>2. primary_part_num <= 3
      BY <1>2, <1>3, <1>4, <1>7, <2>4
    <3>3. \A i \in Laid : placed[i].num # primary_part_num + 1
      <4>1. \A i \in Laid : placed[i].num \in Nat /\ placed[i].type \in {"primary", "logical"}
        BY LayoutPlaces DEF Placed
      <4>2. QED
        BY <1>2, <2>4, <3>2, <4>1 DEF Numbered
    <3>4. \E e \in 1..primary_part_num' : \A i \in Laid' : placed'[i].num # e
      BY <1>2, <2>1, <2>4, <3>1, <3>2, <3>3, LayoutPlaces
    <3>5. QED
      BY <1>2, <1>9, <2>2, <3>1, <3>2, <3>4, LayoutPlaces DEF Slots
  <2>5. QED
    BY <2>3, <2>4
<1>8. QED
  BY <1>5, <1>6, <1>7, LayoutPlaces

LEMMA PlainNumbersStep ==
  ASSUME LayoutInv, Numbered, Slots, PlainNumbers, LayoutPartition
  PROVE  PlainNumbers'
<1> DEFINE r == Cardinality(InTable(This))
<1> SUFFICES ASSUME AllPrimary PROVE PlainNumbers'
  BY LayoutPlaces DEF PlainNumbers, AllPrimary
<1>1. TypeOK /\ This <= Len(partitions)
  BY DEF LayoutInv, LayoutPartition
<1>2. realpart \in Nat /\ primary_part_num \in Nat /\ logical_part_cnt \in Nat
      /\ NumReal \in Nat
  BY <1>1, CountStep DEF TypeOK
<1>3. /\ r = realpart + (IF part.no_table THEN 0 ELSE 1)
      /\ r <= NumReal /\ realpart' = r
  BY <1>1, CountStep DEF LayoutPartition, Numbered
<1>4. /\ logical_part_cnt' = logical_part_cnt + (IF IsLogical THEN 1 ELSE 0)
      /\ primary_part_num' = primary_part_num
           + (IF IsPrimary \/ (IsLogical /\ extendedpart = 0) THEN 1 ELSE 0)
  BY DEF LayoutPartition
<1>5. part.type = "primary"
  BY LayoutPlaces DEF AllPrimary, part
<1>6. msdos /\ logical_part_cnt # 0 =>
        NumReal > 4 /\ primary_part_num = 4 /\ logical_part_cnt = realpart - 3
  BY DEF PlainNumbers
<1>7. Realnum(This) = IF part.no_table THEN 0
                      ELSE IF msdos /\ r > 3 /\ NumReal > 4 THEN r + 1 ELSE r
  BY DEF Realnum, part
<1> HIDE DEF r
<1>8. /\ ThisNum = Realnum(This)
      /\ msdos /\ logical_part_cnt' # 0 =>
           NumReal > 4 /\ primary_part_num' = 4 /\ logical_part_cnt' = r - 3
  <2>1. CASE part.no_table
    <3>1. ~IsLogical /\ ~IsPrimary
      BY <2>1 DEF IsLogical, IsPrimary
    <3>2. ThisNum = Realnum(This)
      BY <1>7, <2>1 DEF ThisNum
    <3>3. QED
      BY <1>2, <1>3, <1>4, <1>6, <2>1, <3>1, <3>2
  <2>2. CASE ~part.no_table /\ ~msdos
    BY <1>3, <1>7, <2>2 DEF ThisNum
  <2>3. CASE ~part.no_table /\ msdos /\ logical_part_cnt # 0
    <3>1. ThisType = "logical"
      BY <1>6, <2>3 DEF ThisType
    <3>2. IsLogical /\ ~IsPrimary /\ extendedpart # 0
      BY <2>3, <3>1 DEF IsLogical, IsPrimary, Slots
    <3>3. ThisNum = logical_part_cnt + 5
      BY <1>2, <2>3, <3>1 DEF ThisNum
    <3>4. QED
      BY <1>2, <1>3, <1>4, <1>6, <1>7, <2>3, <3>2, <3>3
  <2>4. CASE ~part.no_table /\ msdos /\ logical_part_cnt = 0
    <3>1. /\ extendedpart = 0 /\ primary_part_num = realpart
          /\ NumReal > 4 => realpart <= 3
      BY <2>4 DEF Slots
    <3>2. CASE NumReal > 4 /\ realpart = 3
      <4>1. ThisType = "logical"
        BY <2>4, <3>1, <3>2 DEF ThisType
      <4>2. IsLogical /\ ~IsPrimary /\ ThisNum = 5
        BY <2>4, <4>1 DEF IsLogical, IsPrimary, ThisNum
      <4>3. QED
        BY <1>2, <1>3, <1>4, <1>7, <2>4, <3>1, <3>2, <4>2
    <3>3. CASE ~(NumReal > 4 /\ realpart = 3)
      <4>1. realpart <= 3 /\ ~(primary_part_num >= 3 /\ NumReal > 4)
        BY <1>2, <1>3, <2>4, <3>1, <3>3
      <4>2. ThisType = "primary"
        BY <1>2, <1>5, <3>1, <4>1 DEF ThisType
      <4>3. ~IsLogical /\ ThisNum = primary_part_num + 1
        BY <2>4, <4>2 DEF IsLogical, ThisNum
      <4>4. QED
        BY <1>2, <1>3, <1>4, <1>7, <2>4, <3>1, <4>1, <4>3
    <3>4. QED
      BY <3>2, <3>3
  <2>5. QED
    BY <2>1, <2>2, <2>3, <2>4
<1>9. \A i : Realnum(i)' = Realnum(i)
  BY LayoutPlaces DEF Realnum, InTable
<1>10. \A i \in Laid' : placed'[i].num = Realnum(i)'
  BY <1>8, <1>9, LayoutPlaces DEF PlainNumbers
<1>11. QED
  BY <1>3, <1>8, <1>10, LayoutPlaces DEF PlainNumbers

LEMMA ExtendedCoversStep ==
  ASSUME LayoutInv, Numbered, Slots, ExtendedCovers, LayoutPartition
  PROVE  ExtendedCovers'
<1> SUFFICES ASSUME msdos, LogicalsContiguous', logical_part_cnt' # 0
             PROVE  \E f \in Laid' :
                      /\ placed'[f].num = 5 /\ placed'[f].type = "logical"
                      /\ \A i \in Laid' : placed'[i].type = "logical" /\ placed'[i].num # 0
                           => f <= i
                      /\ offset' = placed'[f].start - 2 + extended_size_sec'
  BY LayoutPlaces DEF ExtendedCovers
<1>1. TypeOK /\ This <= Len(partitions) /\ ~NoPlace /\ ThisType \in {"primary", "logical"}
  BY LayoutPlaces DEF LayoutInv, LayoutPartition
<1>2. /\ offset \in Nat /\ extended_size_sec \in Nat /\ logical_part_cnt \in Nat
      /\ Start \in Nat /\ Sectors(part.size) \in Nat /\ AlignSectors \in Nat
      /\ This \in Nat
  BY <1>1, LayoutPlaces, PlaceType DEF TypeOK
<1>3. /\ offset' = Start + Sectors(part.size)
      /\ extended_size_sec' = extended_size_sec + ExtendedGrowth
      /\ logical_part_cnt' = logical_part_cnt + (IF IsLogical THEN 1 ELSE 0)
  BY DEF LayoutPartition
<1>4. extendedpart = IF logical_part_cnt = 0 THEN 0 ELSE 5
  BY DEF Slots
<1>5. CASE logical_part_cnt = 0
  <2>1. IsLogical
    BY <1>2, <1>3, <1>5
  <2>2. ~part.no_table /\ ThisType = "logical" /\ ThisNum = 5
    BY <1>5, <2>1 DEF IsLogical, ThisNum
  <2>3. ExtendedGrowth = Sectors(part.size) + 2
    BY <1>2, <1>4, <1>5, <2>1 DEF ExtendedGrowth
  <2>4. \A i \in Laid : placed[i].type = "logical" => placed[i].num = 0
    <3> SUFFICES ASSUME NEW i \in Laid, placed[i].type = "logical", placed[i].num # 0
                 PROVE  FALSE
      OBVIOUS
    <3>1. placed[i].num \in 5..(4 + logical_part_cnt)
      BY DEF Numbered
    <3>2. QED
      BY <1>5, <3>1
  <2>5. extended_size_sec = 0
    BY <1>5 DEF Slots
  <2>6. QED
    BY <1>2, <1>3, <2>2, <2>3, <2>4, <2>5, LayoutPlaces
<1>6. CASE logical_part_cnt # 0
  <2>1. LogicalsContiguous
    BY LayoutPlaces DEF LogicalsContiguous
  <2>2. PICK f \in Laid :
           /\ placed[f].num = 5 /\ placed[f].type = "logical"
           /\ \A i \in Laid : placed[i].type = "logical" /\ placed[i].num # 0 => f <= i
           /\ offset = placed[f].start - 2 + extended_size_sec
    BY <1>6, <2>1 DEF ExtendedCovers
  <2>3. ThisType = "logical" /\ ~part.no_table /\ part.offset = None
    BY <2>2, LayoutPlaces DEF LogicalsContiguous, part
  <2>4. Start = offset + 2 + AlignSectors
    <3>1. This # 1
      BY <1>1 DEF Laid, This, TypeOK
    <3>2. FreeSector = offset + 2
      BY <1>2, <2>3, <3>1 DEF FreeSector, Ebr
    <3>3. QED
      BY <2>3, <3>2 DEF Start, NextStart
  <2>5. ExtendedGrowth = Sectors(part.size) + 2 + AlignSectors
    BY <1>4, <1>6, <2>3 DEF ExtendedGrowth, IsLogical
  <2>6. placed[f].start \in Nat
    BY LayoutPlaces DEF Placed
  <2>7. offset' = placed[f].start - 2 + extended_size_sec'
    BY <1>2, <1>3, <2>2, <2>4, <2>5, <2>6
  <2>8. \A i \in Laid' : placed'[i].type = "logical" /\ placed'[i].num # 0 => f <= i
    BY <1>2, <2>2, LayoutPlaces
  <2>9. QED
    BY <2>2, <2>7, <2>8, LayoutPlaces
<1>7. QED
  BY <1>5, <1>6

\* The steps behind the layout leave the numbers alone.
LEMMA NumbersKept ==
  ASSUME NumbersInv,
         UNCHANGED <<inputVars, placed, offset, realpart, primary_part_num,
                     logical_part_cnt, extendedpart, extended_size_sec>>
  PROVE  NumbersInv'
<1>1. /\ msdos' = msdos /\ NumReal' = NumReal /\ Laid' = Laid
      /\ AllPrimary' = AllPrimary /\ LogicalsContiguous' = LogicalsContiguous
  BY DEF msdos, NumReal, InTable, Laid, AllPrimary, LogicalsContiguous, inputVars
<1>2. Numbered'
  BY <1>1 DEF NumbersInv, Numbered, InTable, inputVars
<1>3. Slots'
  BY <1>1 DEF NumbersInv, Slots
<1>4. PlainNumbers'
  <2>1. \A i : Realnum(i)' = Realnum(i)
    BY <1>1 DEF Realnum, InTable, inputVars
  <2>2. QED
    BY <1>1, <2>1 DEF NumbersInv, PlainNumbers
<1>5. ExtendedCovers'
  BY <1>1 DEF NumbersInv, ExtendedCovers
<1>6. QED
  BY <1>2, <1>3, <1>4, <1>5 DEF NumbersInv

LEMMA NumbersInvariant == Spec => []NumbersInv
<1>1. Init => NumbersInv
  <2> SUFFICES ASSUME Init PROVE NumbersInv
    OBVIOUS
  <2>1. Laid = {} /\ InTable(Len(placed)) = {}
    BY DEF Init, Laid, InTable
  <2>2. Cardinality({}) = 0
    BY FS_EmptySet
  <2>3. Numbered
    BY <2>1, <2>2 DEF Init, Numbered
  <2>4. Slots
    BY DEF Init, Slots
  <2>5. PlainNumbers /\ ExtendedCovers
    BY <2>1 DEF Init, PlainNumbers, ExtendedCovers
  <2>6. QED
    BY <2>3, <2>4, <2>5 DEF NumbersInv
<1>2. LayoutInv /\ NumbersInv /\ [Next]_vars => NumbersInv'
  <2> SUFFICES ASSUME LayoutInv, NumbersInv, [Next]_vars PROVE NumbersInv'
    OBVIOUS
  <2>1. CASE LayoutPartition
    BY <2>1, NumberedStep, SlotsStep, PlainNumbersStep, ExtendedCoversStep
    DEF NumbersInv
  <2>2. CASE LayoutFails \/ FinishLayout
    BY <2>2, NumbersKept DEF LayoutFails, FinishLayout, layoutVars
  <2>3. CASE CreatePartition \/ FinishCreate \/ InstallPartition \/ FinishAssemble
    BY <2>3, NumbersKept
    DEF CreatePartition, FinishCreate, InstallPartition, FinishAssemble, layoutVars
  <2>4. CASE UNCHANGED vars
    BY <2>4, NumbersKept DEF vars, inputVars
  <2>5. QED
    BY <2>1, <2>2, <2>3, <2>4 DEF Next
<1>3. QED
  BY <1>1, <1>2, LayoutInvariant, PTL DEF Spec

\* An entry describes partition i.
IsPart(e, i) == /\ e.start = placed[i].start /\ e.size <= placed[i].size
                /\ placed[i].num # 0

Entries ==
  /\ created <= Len(placed)
  /\ pc = "layout" => created = 0 /\ table = <<>> /\ mbr = <<>>
  /\ \A k \in DOMAIN table :
       LET e == table[k] IN
       IF e.type = "extended"
       THEN /\ msdos /\ e.num = 0 /\ e.size = extended_size_sec
            /\ \E i \in 1..created : /\ placed[i].num = extendedpart /\ placed[i].num # 0
                                     /\ e.start = placed[i].start - 2
       ELSE \E i \in 1..created : /\ IsPart(e, i) /\ e.num = placed[i].num
                                  /\ e.type = placed[i].type
  /\ \A k, l \in DOMAIN table : table[k].num = table[l].num => k = l

HybridEntries ==
  /\ Len(mbr) <= 4
  /\ \A k \in DOMAIN mbr :
       IF mbr[k].type = "protective"
       THEN k = Len(mbr) /\ pc \in {"assemble", "done"} /\ mbr[k] = ProtectiveEntry(k)
       ELSE \E i \in 1..created : IsPart(mbr[k], i)
  /\ \A k, l \in DOMAIN mbr :
       k < l /\ mbr[l].type # "protective" => End(mbr[k]) <= mbr[l].start

EntriesInv == Entries /\ HybridEntries

\* The steps that ask parted for nothing.
LEMMA EntriesKept ==
  ASSUME EntriesInv,
         UNCHANGED <<inputVars, placed, extendedpart, extended_size_sec,
                     created, table, mbr>>,
         pc' = "layout" => pc = "layout",
         pc \in {"assemble", "done"} => pc' \in {"assemble", "done"}
  PROVE  EntriesInv'
<1>1. msdos' = msdos
  BY DEF msdos, inputVars
<1>2. Entries'
  BY <1>1 DEF EntriesInv, Entries, IsPart
<1>3. HybridEntries'
  BY DEF EntriesInv, HybridEntries, IsPart, End
<1>4. QED
  BY <1>2, <1>3 DEF EntriesInv

\* The entries create asks for when it comes to a partition of the table.
LEMMA CreatePartitionEntries ==
  ASSUME LayoutInv, LayoutInv', NumbersInv, EntriesInv, CreatePartition
  PROVE  EntriesInv'
<1> DEFINE i == created + 1
           p == placed[i]
           e == EntryOf(p.type, p.start, TableSize(i), p.num)
<1>1. /\ pc = "create" /\ created \in Nat /\ created' = i
      /\ UNCHANGED <<inputVars, placed, extendedpart, extended_size_sec>>
      /\ pc' \in {"create", "error"}
      /\ i \in Laid /\ 1..i = 1..created \cup {i} /\ i <= Len(placed)
      /\ msdos' = msdos
  <2>1. pc = "create" /\ created < Len(partitions) /\ created' = i
        /\ UNCHANGED <<inputVars, placed, extendedpart, extended_size_sec>>
        /\ pc' \in {"create", "error"}
    BY DEF CreatePartition, layoutVars
  <2>2. created \in Nat /\ Len(placed) = Len(partitions) /\ Len(placed) \in Nat
    BY <2>1 DEF LayoutInv, TypeOK, Complete
  <2>3. QED
    BY <2>1, <2>2 DEF Laid, msdos, inputVars
<1>2. /\ p \in Placed /\ p.start \in Nat /\ p.size \in Nat /\ p.num \in Nat
      /\ p.type \in {"primary", "logical"}
  <2>1. placed \in Seq(Placed)
    BY DEF LayoutInv, TypeOK
  <2>2. p \in Placed
    BY <1>1, <2>1 DEF Laid
  <2>3. QED
    BY <2>2 DEF Placed
<1>3. TableSize(i) \in Int /\ TableSize(i) <= p.size
  BY <1>2 DEF TableSize
<1>4. /\ e.type = p.type /\ e.start = p.start /\ e.size = TableSize(i)
      /\ e.num = p.num
  BY DEF EntryOf
<1>5. /\ table \in Seq(Entry) /\ mbr \in Seq(Entry)
      /\ table' \in Seq(Entry) /\ mbr' \in Seq(Entry)
  BY DEF LayoutInv, TypeOK
<1> HIDE DEF p, e
<1>6. ASSUME NEW k \in DOMAIN table
      PROVE  IF table[k].type = "extended"
             THEN /\ msdos /\ table[k].num = 0 /\ table[k].size = extended_size_sec
                  /\ \E h \in 1..i : /\ placed[h].num = extendedpart /\ placed[h].num # 0
                                     /\ table[k].start = placed[h].start - 2
             ELSE \E h \in 1..i : /\ IsPart(table[k], h)
                                  /\ table[k].num = placed[h].num
                                  /\ table[k].type = placed[h].type
  BY <1>1 DEF EntriesInv, Entries
<1>7. ASSUME NEW k \in DOMAIN table
      PROVE  /\ p.num # 0 => table[k].num # p.num
             /\ p.num # 0 /\ p.num = extendedpart => table[k].num # 0
  <2>1. PICK h \in 1..created :
           \/ table[k].num = 0 /\ placed[h].num = extendedpart /\ placed[h].num # 0
           \/ table[k].num = placed[h].num /\ placed[h].num # 0
    BY DEF EntriesInv, Entries, IsPart
  <2>2. h \in Laid /\ h # i
    BY <1>1 DEF Laid
  <2>3. p.num # 0 => placed[h].num # p.num
    BY <1>1, <2>2 DEF NumbersInv, Numbered, p
  <2>4. QED
    BY <2>1, <2>3
<1>8. Entries'
  <2>1. CASE p.num = 0
    <3>1. table' = table
      BY <2>1 DEF CreatePartition, p
    <3>2. QED
      BY <1>1, <1>6, <3>1 DEF EntriesInv, Entries, IsPart
  <2>2. CASE p.num # 0 /\ ~(msdos /\ p.num = extendedpart)
    <3>1. table' = Append(table, e)
      <4>1. table' = table \o <<>> \o <<e>>
        BY <2>2 DEF CreatePartition, ExtendedEntry, p, e
      <4>2. e \in Entry
        BY <1>2, <1>3 DEF e, EntryOf, Entry
      <4>3. QED
        BY <1>5, <4>1, <4>2
    <3>2. /\ DOMAIN table' = DOMAIN table \cup {Len(table) + 1}
          /\ \A k \in DOMAIN table : table'[k] = table[k]
          /\ table'[Len(table) + 1] = e
      BY <1>5, <3>1
    <3>3. /\ e.type # "extended" /\ e.type = placed[i].type /\ e.num = placed[i].num
          /\ IsPart(e, i)
      BY <1>2, <1>3, <1>4, <2>2 DEF IsPart, p
    <3>4. \A k, l \in DOMAIN table' : table'[k].num = table'[l].num => k = l
      BY <1>4, <1>7, <2>2, <3>2 DEF EntriesInv, Entries
    <3>5. ASSUME NEW k \in DOMAIN table'
          PROVE  IF table'[k].type = "extended"
                 THEN /\ msdos /\ table'[k].num = 0 /\ table'[k].size = extended_size_sec
                      /\ \E h \in 1..i : /\ placed[h].num = extendedpart
                                         /\ placed[h].num # 0
                                         /\ table'[k].start = placed[h].start - 2
                 ELSE \E h \in 1..i : /\ IsPart(table'[k], h)
                                      /\ table'[k].num = placed[h].num
                                      /\ table'[k].type = placed[h].type
      <4>1. CASE k \in DOMAIN table
        BY <1>6, <3>2, <4>1
      <4>2. CASE k = Len(table) + 1
        BY <1>1, <3>2, <3>3, <4>2
      <4>3. QED
        BY <3>2, <4>1, <4>2
    <3>6. QED
      BY <1>1, <3>4, <3>5 DEF Entries, IsPart
  <2>3. CASE p.num # 0 /\ msdos /\ p.num = extendedpart
    <3> DEFINE x == EntryOf("extended", p.start - 2, extended_size_sec, 0)
               n == Len(table)
    <3>0. /\ x.type = "extended" /\ x.start = p.start - 2
          /\ x.size = extended_size_sec /\ x.num = 0
      BY DEF EntryOf
    <3>1. table' = table \o <<x>> \o <<e>>
      BY <2>3 DEF CreatePartition, ExtendedEntry, p, e
    <3>2. /\ n \in Nat
          /\ DOMAIN table' = DOMAIN table \cup {n + 1, n + 2}
          /\ \A k \in DOMAIN table : table'[k] = table[k]
          /\ table'[n + 1] = x /\ table'[n + 2] = e
      <4>1. x \in Entry
        <5>1. extended_size_sec \in Int
          BY DEF LayoutInv, TypeOK
        <5>2. QED
          BY <1>2, <5>1 DEF EntryOf, Entry
      <4>2. e \in Entry
        BY <1>2, <1>3 DEF e, EntryOf, Entry
      <4> HIDE DEF x
      <4>3. n \in Nat /\ DOMAIN table = 1..n
        BY <1>5
      <4>4. table' = table \o <<x, e>>
        BY <1>5, <3>1, <4>1, <4>2
      <4>5. DOMAIN table' = 1..(n + 2)
        BY <1>5, <4>1, <4>2, <4>4
      <4>6. \A k \in DOMAIN table : table'[k] = table[k]
        BY <1>5, <4>1, <4>2, <4>4
      <4>7. table'[n + 1] = x /\ table'[n + 2] = e
        BY <1>5, <4>1, <4>2, <4>4
      <4>8. QED
        BY <4>3, <4>5, <4>6, <4>7
    <3> HIDE DEF x
    <3>3. /\ e.type # "extended" /\ e.type = placed[i].type /\ e.num = placed[i].num
          /\ IsPart(e, i) /\ e.num # 0
      BY <1>2, <1>3, <1>4, <2>3 DEF IsPart, p
    <3>4. \A k, l \in DOMAIN table' : table'[k].num = table'[l].num => k = l
      <4>1. \A k \in DOMAIN table : table'[k].num # e.num /\ table'[k].num # x.num
        BY <1>4, <1>7, <2>3, <3>0, <3>2
      <4>2. e.num # x.num /\ n + 1 # n + 2
        BY <3>0, <3>2, <3>3
      <4>3. \A k, l \in DOMAIN table : table'[k].num = table'[l].num => k = l
        BY <3>2 DEF EntriesInv, Entries
      <4>4. QED
        BY <3>2, <4>1, <4>2, <4>3
    <3>5. ASSUME NEW k \in DOMAIN table'
          PROVE  IF table'[k].type = "extended"
                 THEN /\ msdos /\ table'[k].num = 0 /\ table'[k].size = extended_size_sec
                      /\ \E h \in 1..i : /\ placed[h].num = extendedpart
                                         /\ placed[h].num # 0
                                         /\ table'[k].start = placed[h].start - 2
                 ELSE \E h \in 1..i : /\ IsPart(table'[k], h)
                                      /\ table'[k].num = placed[h].num
                                      /\ table'[k].type = placed[h].type
      <4>1. CASE k \in DOMAIN table
        BY <1>6, <3>2, <4>1
      <4>2. CASE k = n + 2
        BY <1>1, <3>2, <3>3, <4>2
      <4>3. CASE k = n + 1
        BY <1>1, <2>3, <3>0, <3>2, <4>3 DEF p
      <4>4. QED
        BY <3>2, <4>1, <4>2, <4>3
    <3>6. QED
      BY <1>1, <3>4, <3>5 DEF Entries, IsPart
  <2>4. QED
    BY <2>1, <2>2, <2>3
<1>9. HybridEntries'
  <2>1. \A k \in DOMAIN mbr : mbr[k].type # "protective"
                              /\ \E h \in 1..created : IsPart(mbr[k], h)
    BY <1>1 DEF EntriesInv, HybridEntries
  <2>2. CASE mbr' = mbr
    BY <1>1, <2>1, <2>2 DEF EntriesInv, HybridEntries, IsPart, End
  <2>3. CASE mbr' # mbr
    <3> DEFINE q == EntryOf("primary", p.start, TableSize(i), Len(mbr) + 1)
    <3>1. p.num # 0 /\ mbr' = Append(mbr, q) /\ Len(mbr) < 4
      BY <2>3 DEF CreatePartition, p
    <3>2. /\ q.type = "primary" /\ q.start = p.start /\ q.size = TableSize(i)
          /\ q \in Entry
      BY <1>2, <1>3, <1>5 DEF EntryOf, Entry
    <3> HIDE DEF q
    <3>3. /\ DOMAIN mbr' = DOMAIN mbr \cup {Len(mbr) + 1}
          /\ \A k \in DOMAIN mbr : mbr'[k] = mbr[k] /\ k <= Len(mbr)
          /\ mbr'[Len(mbr) + 1] = q /\ Len(mbr') = Len(mbr) + 1 /\ Len(mbr) \in Nat
          /\ DOMAIN mbr \subseteq Nat
      BY <1>5, <3>1, <3>2
    <3>4. IsPart(q, i)
      BY <1>2, <1>3, <3>1, <3>2 DEF IsPart, p
    <3>5. ASSUME NEW k \in DOMAIN mbr PROVE End(mbr[k]) <= q.start
      <4>1. PICK h \in 1..created : IsPart(mbr[k], h)
        BY <2>1
      <4>2. h \in Laid /\ h < i /\ placed[h] \in Placed
        <5>1. placed \in Seq(Placed)
          BY DEF LayoutInv, TypeOK
        <5>2. h \in Laid /\ h < i
          BY <1>1 DEF Laid
        <5>3. QED
          BY <5>1, <5>2 DEF Laid
      <4>3. End(placed[h]) <= p.start
        BY <1>1, <4>2 DEF LayoutInv, PartitionsDisjoint, p
      <4>4. mbr[k].size \in Int
        <5>1. mbr[k] \in Entry
          BY <1>5
        <5>2. QED
          BY <5>1 DEF Entry
      <4>5. placed[h].start \in Nat /\ placed[h].size \in Nat
        BY <4>2 DEF Placed
      <4>6. QED
        BY <1>2, <3>2, <4>1, <4>3, <4>4, <4>5 DEF IsPart, End
    <3>6. \A k \in DOMAIN mbr' : mbr'[k].type # "protective"
                                 /\ \E h \in 1..i : IsPart(mbr'[k], h)
      BY <1>1, <2>1, <3>2, <3>3, <3>4
    <3>7. \A k, l \in DOMAIN mbr' : k < l => End(mbr'[k]) <= mbr'[l].start
      <4> SUFFICES ASSUME NEW k \in DOMAIN mbr', NEW l \in DOMAIN mbr', k < l
                   PROVE  End(mbr'[k]) <= mbr'[l].start
        OBVIOUS
      <4>1. k \in DOMAIN mbr
        BY <3>3
      <4>2. CASE l \in DOMAIN mbr
        BY <2>1, <3>3, <4>1, <4>2 DEF EntriesInv, HybridEntries
      <4>3. CASE l = Len(mbr) + 1
        BY <3>3, <3>5, <4>1, <4>3
      <4>4. QED
        BY <3>3, <4>2, <4>3
    <3>8. QED
      BY <1>1, <3>1, <3>3, <3>6, <3>7 DEF HybridEntries, IsPart, End
  <2>4. QED
    BY <2>2, <2>3
<1>10. QED
  BY <1>8, <1>9 DEF EntriesInv

\* The protective entry goes behind the others.
LEMMA FinishCreateEntries ==
  ASSUME LayoutInv, EntriesInv, FinishCreate
  PROVE  EntriesInv'
<1>1. /\ pc = "create"
      /\ UNCHANGED <<inputVars, placed, extendedpart, extended_size_sec, created, table>>
      /\ pc' \in {"assemble", "error"} /\ msdos' = msdos
  BY DEF FinishCreate, layoutVars, msdos, inputVars
<1>2. CASE mbr' = mbr
  BY <1>1, <1>2, EntriesKept
<1>3. CASE mbr' # mbr
  <2> DEFINE q == ProtectiveEntry(Len(mbr) + 1)
  <2>1. mbr' = Append(mbr, q) /\ pc' = "assemble" /\ Len(mbr) < 4 /\ Len(mbr) \in Nat
        /\ mbr \in Seq(Entry)
    BY <1>3 DEF FinishCreate, LayoutInv, TypeOK
  <2>2. q \in Entry /\ q.type = "protective"
    BY <2>1 DEF ProtectiveEntry, EntryOf, Entry, GPT_OVERHEAD
  <2>3. /\ DOMAIN mbr' = DOMAIN mbr \cup {Len(mbr) + 1}
        /\ \A k \in DOMAIN mbr : mbr'[k] = mbr[k] /\ k <= Len(mbr)
        /\ mbr'[Len(mbr) + 1] = q /\ Len(mbr') = Len(mbr) + 1
        /\ DOMAIN mbr \subseteq Nat
    <3> HIDE DEF q
    <3>1. QED
      BY <2>1, <2>2
  <2>4. \A k \in DOMAIN mbr : mbr[k].type # "protective"
                              /\ \E h \in 1..created : IsPart(mbr[k], h)
    BY <1>1 DEF EntriesInv, HybridEntries
  <2> HIDE DEF q
  <2>5. \A k, l \in DOMAIN mbr' :
          k < l /\ mbr'[l].type # "protective" => End(mbr'[k]) <= mbr'[l].start
    <3> SUFFICES ASSUME NEW k \in DOMAIN mbr', NEW l \in DOMAIN mbr', k < l,
                        mbr'[l].type # "protective"
                 PROVE  End(mbr'[k]) <= mbr'[l].start
      OBVIOUS
    <3>1. l \in DOMAIN mbr
      BY <2>2, <2>3
    <3>2. k \in DOMAIN mbr
      BY <2>1, <2>3, <3>1
    <3>3. QED
      BY <2>3, <3>1, <3>2 DEF EntriesInv, HybridEntries
  <2>6. \A k \in DOMAIN mbr' :
          IF mbr'[k].type = "protective"
          THEN k = Len(mbr') /\ mbr'[k] = ProtectiveEntry(k)
          ELSE \E h \in 1..created : IsPart(mbr'[k], h)
    BY <2>2, <2>3, <2>4 DEF q
  <2>7. HybridEntries'
    BY <1>1, <2>1, <2>3, <2>5, <2>6 DEF HybridEntries, IsPart, End
  <2>8. Entries'
    BY <1>1, <2>1 DEF EntriesInv, Entries, IsPart
  <2>9. QED
    BY <2>7, <2>8 DEF EntriesInv
<1>4. QED
  BY <1>2, <1>3

LEMMA EntriesInvariant == Spec => []EntriesInv
<1>1. Init => EntriesInv
  BY DEF Init, EntriesInv, Entries, HybridEntries
<1>2. LayoutInv /\ LayoutInv' /\ NumbersInv /\ EntriesInv /\ [Next]_vars => EntriesInv'
  <2> SUFFICES ASSUME LayoutInv, LayoutInv', NumbersInv, EntriesInv, [Next]_vars
               PROVE  EntriesInv'
    OBVIOUS
  <2>1. CASE LayoutPartition
    <3>1. created = 0 /\ table = <<>> /\ mbr = <<>> /\ UNCHANGED <<created, table, mbr>>
      BY <2>1 DEF LayoutPartition, EntriesInv, Entries, diskVars
    <3>2. Len(placed') \in Nat
      BY DEF LayoutInv, TypeOK
    <3>3. QED
      BY <3>1, <3>2 DEF EntriesInv, Entries, HybridEntries
  <2>2. CASE LayoutFails \/ FinishLayout
    BY <2>2, EntriesKept DEF LayoutFails, FinishLayout, layoutVars, diskVars
  <2>3. CASE CreatePartition
    BY <2>3, CreatePartitionEntries
  <2>4. CASE FinishCreate
    BY <2>4, FinishCreateEntries
  <2>5. CASE InstallPartition \/ FinishAssemble
    BY <2>5, EntriesKept DEF InstallPartition, FinishAssemble, layoutVars, diskVars
  <2>6. CASE UNCHANGED vars
    BY <2>6, EntriesKept DEF vars, inputVars
  <2>7. QED
    BY <2>1, <2>2, <2>3, <2>4, <2>5, <2>6 DEF Next
<1>3. QED
  BY <1>1, <1>2, LayoutInvariant, NumbersInvariant, PTL DEF Spec

\* What the invariants say of an entry of the table, and of one of the hybrid
\* MBR: the partition it describes.
LEMMA EntryPlace ==
  ASSUME LayoutInv, EntriesInv, NEW k \in DOMAIN table
  PROVE  /\ table[k] \in Entry
         /\ \E i \in Laid :
              /\ placed[i].num # 0 /\ placed[i] \in Placed
              /\ IF table[k].type = "extended"
                 THEN /\ msdos /\ table[k].num = 0 /\ table[k].size = extended_size_sec
                      /\ placed[i].num = extendedpart
                      /\ table[k].start = placed[i].start - 2
                 ELSE /\ table[k].num = placed[i].num /\ table[k].type = placed[i].type
                      /\ table[k].start = placed[i].start
                      /\ table[k].size <= placed[i].size
<1>1. placed \in Seq(Placed) /\ table \in Seq(Entry) /\ created \in Nat
  BY DEF LayoutInv, TypeOK
<1>2. \A i \in 1..created : i \in Laid /\ placed[i] \in Placed
  BY <1>1 DEF EntriesInv, Entries, Laid
<1>3. table[k] \in Entry
  BY <1>1
<1>4. CASE table[k].type = "extended"
  <2>1. /\ msdos /\ table[k].num = 0 /\ table[k].size = extended_size_sec
        /\ \E i \in 1..created : /\ placed[i].num = extendedpart /\ placed[i].num # 0
                                 /\ table[k].start = placed[i].start - 2
    BY <1>4 DEF EntriesInv, Entries
  <2>2. QED
    BY <1>2, <1>3, <1>4, <2>1
<1>5. CASE table[k].type # "extended"
  <2>1. \E i \in 1..created : /\ IsPart(table[k], i) /\ table[k].num = placed[i].num
                              /\ table[k].type = placed[i].type
    BY <1>5 DEF EntriesInv, Entries
  <2>2. QED
    BY <1>2, <1>3, <1>5, <2>1 DEF IsPart
<1>6. QED
  BY <1>4, <1>5

\* How many numbers there are from 1 to n.
LEMMA FirstNaturals == \A n \in Nat : IsFiniteSet(1..n) /\ Cardinality(1..n) = n
<1> SUFFICES ASSUME NEW n \in Nat PROVE IsFiniteSet(1..n) /\ Cardinality(1..n) = n
  OBVIOUS
<1>1. 1 \in Int /\ n \in Int
  OBVIOUS
<1>2. IsFiniteSet(1..n)
  BY <1>1, FS_Interval
<1>3. Cardinality(1..n) = IF 1 > n THEN 0 ELSE n - 1 + 1
  BY <1>1, FS_Interval
<1>4. QED
  BY <1>2, <1>3

\* An MBR is asked for four primary partitions at most, with the extended one
\* among them.
LEMMA FourPrimaries ==
  ASSUME LayoutInv, NumbersInv, EntriesInv, msdos
  PROVE  Cardinality({k \in DOMAIN table : table[k].type # "logical"}) <= 4
<1> DEFINE S == {k \in DOMAIN table : table[k].type # "logical"}
<1>1. /\ primary_part_num \in Nat /\ primary_part_num <= 4
      /\ extendedpart = IF logical_part_cnt = 0 THEN 0 ELSE 5
  BY DEF NumbersInv, Slots, LayoutInv, TypeOK
<1>2. PICK e \in 1..4 : logical_part_cnt # 0 => \A i \in Laid : placed[i].num # e
  <2>1. CASE logical_part_cnt = 0
    BY <2>1
  <2>2. CASE logical_part_cnt # 0
    <3>1. PICK e \in 1..primary_part_num : \A i \in Laid : placed[i].num # e
      BY <2>2 DEF NumbersInv, Slots
    <3>2. e \in 1..4
      BY <1>1, <3>1
    <3>3. QED
      BY <3>1, <3>2
  <2>3. QED
    BY <2>1, <2>2
<1> DEFINE f == [k \in S |-> IF table[k].type = "extended" THEN e ELSE table[k].num]
<1>3. ASSUME NEW k \in S
      PROVE  IF table[k].type = "extended"
             THEN table[k].num = 0 /\ \A i \in Laid : placed[i].num # e
             ELSE /\ table[k].num \in 1..4
                  /\ \E i \in Laid : table[k].num = placed[i].num
  <2>1. PICK i \in Laid :
              /\ placed[i].num # 0 /\ placed[i] \in Placed
              /\ IF table[k].type = "extended"
                 THEN /\ table[k].num = 0 /\ placed[i].num = extendedpart
                 ELSE /\ table[k].num = placed[i].num /\ table[k].type = placed[i].type
    BY EntryPlace
  <2>2. CASE table[k].type = "extended"
    BY <1>1, <1>2, <2>1, <2>2
  <2>3. CASE table[k].type # "extended"
    <3>1. placed[i].type = "primary" /\ placed[i].num \in Nat
      BY <2>1, <2>3 DEF Placed
    <3>2. placed[i].num \in 1..primary_part_num
      BY <2>1, <3>1 DEF NumbersInv, Numbered
    <3>3. QED
      BY <1>1, <2>1, <2>3, <3>2
  <2>4. QED
    BY <2>2, <2>3
<1>4. f \in Injection(S, 1..4)
  <2>1. f \in [S -> 1..4]
    BY <1>2, <1>3
  <2>2. ASSUME NEW k \in S, NEW l \in S, f[k] = f[l] PROVE k = l
    <3>1. \A a, b \in DOMAIN table : table[a].num = table[b].num => a = b
      BY DEF EntriesInv, Entries
    <3>2. table[k].num = table[l].num
      BY <1>3, <2>2
    <3>3. QED
      BY <3>1, <3>2
  <2>3. QED
    BY <2>1, <2>2 DEF Injection, IsInjective
<1>5. IsFiniteSet(1..4) /\ Cardinality(1..4) = 4
  <2>1. 4 \in Nat
    OBVIOUS
  <2>2. QED
    BY <2>1, FirstNaturals, Zenon
<1> HIDE DEF f, S
<1>6. Cardinality(S) <= Cardinality(1..4)
  BY <1>4, <1>5, FS_Injection
<1>7. QED
  BY <1>5, <1>6 DEF S

\* The entries of a hybrid MBR are disjoint: those of partitions because the
\* partitions are, in this order; the protective one because it ends where the
\* GPT does.
LEMMA HybridDisjoint ==
  ASSUME LayoutInv, EntriesInv, \A i \in Laid : placed[i].start > GPT_OVERHEAD,
         NEW k \in DOMAIN mbr, NEW l \in DOMAIN mbr, k # l
  PROVE  End(mbr[k]) <= mbr[l].start \/ End(mbr[l]) <= mbr[k].start
<1>1. /\ placed \in Seq(Placed) /\ mbr \in Seq(Entry) /\ created \in Nat
      /\ Len(mbr) \in Nat /\ DOMAIN mbr = 1..Len(mbr)
  BY DEF LayoutInv, TypeOK
<1>2. ASSUME NEW a \in DOMAIN mbr, NEW b \in DOMAIN mbr, a < b
      PROVE  End(mbr[a]) <= mbr[b].start \/ End(mbr[b]) <= mbr[a].start
  <2>1. CASE mbr[b].type # "protective"
    BY <1>2, <2>1 DEF EntriesInv, HybridEntries
  <2>2. CASE mbr[b].type = "protective"
    <3>1. mbr[b] = ProtectiveEntry(b) /\ b = Len(mbr)
      BY <2>2 DEF EntriesInv, HybridEntries
    <3>2. mbr[b].start = 1 /\ mbr[b].size = 34
      BY <3>1 DEF ProtectiveEntry, EntryOf, GPT_OVERHEAD
    <3>3. mbr[a].type # "protective"
      BY <1>1, <1>2, <3>1 DEF EntriesInv, HybridEntries
    <3>4. PICK i \in 1..created : IsPart(mbr[a], i)
      BY <3>3 DEF EntriesInv, HybridEntries
    <3>5. i \in Laid
      BY <1>1 DEF EntriesInv, Entries, Laid
    <3>6. placed[i] \in Placed
      BY <1>1, <3>5 DEF Laid
    <3>7. placed[i].start \in Nat /\ placed[i].start > 34
      BY <3>5, <3>6 DEF Placed, GPT_OVERHEAD
    <3>8. mbr[a].start = placed[i].start
      BY <3>4 DEF IsPart
    <3>9. QED
      BY <3>2, <3>7, <3>8 DEF End
  <2>3. QED
    BY <2>1, <2>2
<1>3. k \in Nat /\ l \in Nat
  BY <1>1
<1>4. QED
  BY <1>2, <1>3

\* The table parted is asked for has the shape and the numbers other programs
\* rely on, for any .wks file: four primary entries at most, every number once,
\* hybrid entries that do not overlap, and the numbers fstab was written with
\* when no partition has a --type (direct.py:329-351, 366-499, 501-610).
THEOREM TableSound == Spec => []TableRight
<1>1. ASSUME LayoutInv, NumbersInv, EntriesInv PROVE TableRight
  <2>1. NumbersAgree
    BY <1>1 DEF NumbersInv, PlainNumbers, NumbersAgree
  <2>2. ASSUME msdos, NEW i \in Laid, ~partitions[i].no_table
        PROVE  (placed[i].num \in 1..4) = (placed[i].type = "primary")
    <3>1. primary_part_num \in Nat /\ primary_part_num <= 4
      BY <1>1, <2>2 DEF NumbersInv, Slots, LayoutInv, TypeOK
    <3>2. placed[i].num # 0
      BY <1>1, <2>2 DEF NumbersInv, Numbered
    <3>3. CASE placed[i].type = "primary"
      <4>1. placed[i].num \in 1..primary_part_num
        BY <1>1, <2>2, <3>2, <3>3 DEF NumbersInv, Numbered
      <4>2. QED
        BY <3>1, <3>3, <4>1
    <3>4. CASE placed[i].type # "primary"
      <4>1. placed[i].num \in 5..(4 + logical_part_cnt)
        BY <1>1, <2>2, <3>2, <3>4 DEF NumbersInv, Numbered
      <4>2. placed[i].num \notin 1..4
        BY <4>1
      <4>3. QED
        BY <3>4, <4>2
    <3>5. QED
      BY <3>3, <3>4
  <2>3. \A k, l \in DOMAIN table : table[k].num = table[l].num => k = l
    BY <1>1 DEF EntriesInv, Entries
  <2>4. Len(mbr) <= 4
    BY <1>1 DEF EntriesInv, HybridEntries
  <2>5. TableFits
    BY <1>1, <2>2, <2>3, <2>4, FourPrimaries, HybridDisjoint DEF TableFits
  <2>6. QED
    BY <2>1, <2>5 DEF TableRight
<1>2. QED
  BY <1>1, LayoutInvariant, NumbersInvariant, EntriesInvariant, PTL

\* The size added up for the extended partition covers every logical one and
\* its EBR, in a .wks file whose logical partitions follow each other without a
\* hole (direct.py:459-492, 533-544).
THEOREM ExtendedLongEnough == Spec => []ContiguousLogicalsHeld
<1>1. ASSUME LayoutInv, NumbersInv, EntriesInv PROVE ContiguousLogicalsHeld
  <2> SUFFICES ASSUME msdos, LogicalsContiguous,
                      NEW k \in DOMAIN table, NEW l \in DOMAIN table,
                      table[k].type = "extended", table[l].type = "logical"
               PROVE  Inside([start |-> table[l].start - 2,
                              size |-> table[l].size + 2], table[k])
    BY DEF ContiguousLogicalsHeld, ExtendedHoldsLogicals
  <2>1. PICK i \in Laid : /\ placed[i].num # 0 /\ placed[i] \in Placed
                          /\ table[k].size = extended_size_sec
                          /\ placed[i].num = extendedpart
                          /\ table[k].start = placed[i].start - 2
    BY <1>1, EntryPlace
  <2>2. PICK j \in Laid : /\ placed[j].num # 0 /\ placed[j] \in Placed
                          /\ placed[j].type = "logical"
                          /\ table[l].start = placed[j].start
                          /\ table[l].size <= placed[j].size
    BY <1>1, EntryPlace
  <2>3. logical_part_cnt # 0 /\ placed[i].num = 5
    BY <1>1, <2>1 DEF NumbersInv, Slots
  <2>4. PICK f \in Laid :
          /\ placed[f].num = 5
          /\ \A h \in Laid : placed[h].type = "logical" /\ placed[h].num # 0 => f <= h
          /\ offset = placed[f].start - 2 + extended_size_sec
    BY <1>1, <2>3 DEF NumbersInv, ExtendedCovers
  <2>5. i = f
    BY <1>1, <2>3, <2>4 DEF NumbersInv, Numbered
  <2>6. i <= j /\ i \in Nat /\ j \in Nat
    BY <2>2, <2>4, <2>5 DEF Laid
  <2>7. /\ placed[i].start \in Nat /\ placed[i].size \in Nat
        /\ placed[j].start \in Nat /\ placed[j].size \in Nat
        /\ table[l].size \in Int /\ offset \in Nat /\ extended_size_sec \in Nat
    <3>1. table[l] \in Entry
      BY <1>1, EntryPlace
    <3>2. offset \in Nat /\ extended_size_sec \in Nat
      BY <1>1 DEF LayoutInv, TypeOK
    <3>3. QED
      BY <2>1, <2>2, <3>1, <3>2 DEF Placed, Entry
  <2>8. placed[i].start <= placed[j].start
    <3>1. CASE i = j
      BY <2>7, <3>1
    <3>2. CASE i < j
      <4>1. placed[i].start + placed[i].size <= placed[j].start
        BY <1>1, <3>2 DEF LayoutInv, PartitionsDisjoint, End
      <4>2. QED
        BY <2>7, <4>1
    <3>3. QED
      BY <2>6, <3>1, <3>2
  <2>9. placed[j].start + placed[j].size <= offset
    BY <1>1 DEF LayoutInv, PartitionsDisjoint, End
  <2>10. table[l].start - 2 + (table[l].size + 2) <= table[k].start + table[k].size
    BY <2>1, <2>2, <2>4, <2>5, <2>7, <2>9
  <2>11. table[k].start <= table[l].start - 2
    BY <2>1, <2>2, <2>7, <2>8
  <2>12. QED
    BY <2>10, <2>11 DEF Inside, End
<1>2. QED
  BY <1>1, LayoutInvariant, NumbersInvariant, EntriesInvariant, PTL
==============================================================================
