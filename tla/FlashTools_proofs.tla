-------------------------- MODULE FlashTools_proofs --------------------------
(***************************************************************************)
(* Proofs about the two tools that make an image for the SPI flash.  For   *)
(* every layout, output size and component of amd-spi-image: the image     *)
(* never outgrows SPI_OUTPUT_SIZE, no component written to it is damaged   *)
(* by another, manifest and digests are true.  For every command line,     *)
(* artifact directory and number of runs of update-fpga: exit 0 means the  *)
(* outputs of this run, with the files where the command line says.        *)
(***************************************************************************)
EXTENDS SpiImage, UpdateFpga, SequenceTheorems, WellFoundedInduction, TLAPS

------------------------------------------------------------------------------
(* amd-spi-image.  Writing is safe because max_size is a distance between   *)
(* offsets, so the invariant keeps what spi_parse_layout established: the   *)
(* offsets are distinct and inside, and max_size fits behind each of them.  *)

\* What spi_parse_layout leaves behind, unless it is fatal.
LayoutInv ==
  pc \notin {"layout", "fatal"} =>
    /\ ~BadLayout
    /\ \A i \in Comps : Fits(i, max_size[i])

\* What is written fits, and nothing is written before the layout and the
\* sizes of the files are settled.
WrittenInv ==
  /\ \A i \in written : size[i] <= max_size[i]
  /\ pc \in {"layout", "validate"} => written = {}

IInv == TypeOK /\ LayoutInv /\ WrittenInv /\ NoComponentLost

------------------------------------------------------------------------------
\* Every component has a list of offsets in Nat.
LEMMA OffsetsInNat ==
  ASSUME TypeOK, NEW i \in Comps
  PROVE  /\ components[i] \in Component
         /\ Offsets(i) \subseteq Nat
         /\ components[i].len \in Nat
<1>1. components[i] \in Component
  BY DEF TypeOK, Comps
<1>2. components[i].offsets \in Seq(Nat)
  BY <1>1 DEF Component
<1>3. Offsets(i) \subseteq Nat
  BY <1>2 DEF Offsets
<1> QED
  BY <1>1, <1>3 DEF Component

\* An offset of a good layout lies inside the image, is an end for the
\* region before it, and belongs to one component.
LEMMA GoodOffsets ==
  ASSUME TypeOK, ~BadLayout, NEW i \in Comps, NEW o \in Offsets(i)
  PROVE  /\ o \in Nat /\ o < OutputSize /\ o \in Ends
         /\ \A j \in Comps : o \in Offsets(j) => i = j
<1>1. PICK k \in DOMAIN components[i].offsets : o = components[i].offsets[k]
  BY DEF Offsets
<1>2. <<i, k>> \in Regions /\ OffsetOf(<<i, k>>) = o
  BY <1>1 DEF Regions, OffsetOf
<1>3. o \in Nat
  BY OffsetsInNat
<1>4. o < OutputSize
  BY <1>2, <1>3, SizeAssumption DEF BadLayout
<1>5. o \in Ends
  BY <1>2 DEF Ends
<1>6. ASSUME NEW j \in Comps, o \in Offsets(j)
      PROVE  i = j
  <2>1. PICK l \in DOMAIN components[j].offsets : o = components[j].offsets[l]
    BY <1>6 DEF Offsets
  <2>2. <<j, l>> \in Regions /\ OffsetOf(<<j, l>>) = o
    BY <2>1 DEF Regions, OffsetOf
  <2>3. <<i, k>> = <<j, l>>
    BY <1>2, <2>2 DEF BadLayout
  <2> QED
    BY <2>3
<1> QED
  BY <1>3, <1>4, <1>5, <1>6

\* Less than what fits, fits.
LEMMA FitsLess ==
  ASSUME TypeOK, ~BadLayout, NEW i \in Comps, NEW m \in Nat, NEW n \in Nat,
         Fits(i, m), n <= m
  PROVE  Fits(i, n)
<1>1. Ends \subseteq Nat
  <2>1. \A r \in Regions : OffsetOf(r) \in Nat
    <3>1. SUFFICES ASSUME NEW r \in Regions
                   PROVE  OffsetOf(r) \in Nat
      OBVIOUS
    <3>2. PICK c \in Comps : \E k \in DOMAIN components[c].offsets : r = <<c, k>>
      BY DEF Regions
    <3>4. OffsetOf(r) \in Offsets(c)
      BY <3>2 DEF OffsetOf, Offsets
    <3> QED
      BY <3>4, OffsetsInNat
  <2> QED
    BY <2>1, SizeAssumption DEF Ends
<1>2. Offsets(i) \subseteq Nat
  BY OffsetsInNat
<1> QED
  BY <1>1, <1>2 DEF Fits

\* Regions that fit never meet: a byte behind one offset is behind no other.
LEMMA RegionsApart ==
  ASSUME TypeOK, ~BadLayout,
         NEW i \in Comps, NEW m \in Nat, Fits(i, m), NEW o \in Offsets(i),
         NEW j \in Comps, NEW n \in Nat, Fits(j, n), NEW p \in Offsets(j),
         NEW k \in 0..(m - 1), NEW l \in 0..(n - 1), o + k = p + l
  PROVE  o = p /\ i = j /\ k = l
<1>1. o \in Nat /\ p \in Nat /\ o \in Ends /\ p \in Ends
  BY GoodOffsets
<1>2. ~(o < p)
  <2>1. o < p => o + m <= p
    BY <1>1 DEF Fits
  <2> QED
    BY <1>1, <2>1
<1>3. ~(p < o)
  <2>1. p < o => p + n <= o
    BY <1>1 DEF Fits
  <2> QED
    BY <1>1, <2>1
<1>4. o = p
  BY <1>1, <1>2, <1>3
<1>5. i = j
  BY <1>4, GoodOffsets
<1> QED
  BY <1>1, <1>4, <1>5

\* Writing a component that fits keeps the image's size, puts the component
\* behind each of its offsets and leaves every other place alone.
LEMMA PutCorrect ==
  ASSUME TypeOK, ~BadLayout, NEW i \in Comps, NEW n \in Nat, Fits(i, n)
  PROVE  /\ Put(buf, i, n) \in [0..OutputSize-1 -> Byte]
         /\ \A o \in Offsets(i) : Holds(Put(buf, i, n), i, o, n)
         /\ \A x \in 0..OutputSize-1 \ Extent(i, n) : Put(buf, i, n)[x] = buf[x]
<1> DEFINE Place(x) == CHOOSE k \in 0..(n - 1) : \E o \in Offsets(i) : x = o + k
<1>1. DOMAIN buf = 0..OutputSize-1
  BY DEF TypeOK
<1>2. Extent(i, n) \subseteq 0..OutputSize-1
  <2>1. SUFFICES ASSUME NEW o \in Offsets(i), NEW x \in o..(o + n - 1)
                 PROVE  x \in 0..OutputSize-1
    BY DEF Extent
  <2>2. o \in Nat /\ o < OutputSize
    BY GoodOffsets
  <2>3. o + n <= OutputSize
    BY <2>2 DEF Fits, Ends
  <2> QED
    BY <2>2, <2>3, SizeAssumption
<1>3. DOMAIN Put(buf, i, n) = 0..OutputSize-1
  BY <1>1, <1>2 DEF Put
<1>4. ASSUME NEW x \in Extent(i, n)
      PROVE  /\ Place(x) \in 0..(n - 1)
             /\ \E o \in Offsets(i) : x = o + Place(x)
  <2>1. PICK o \in Offsets(i) : x \in o..(o + n - 1)
    BY DEF Extent
  <2>2. o \in Nat
    BY GoodOffsets
  <2>3. x - o \in 0..(n - 1) /\ x = o + (x - o)
    BY <2>1, <2>2
  <2>4. \E k \in 0..(n - 1) : \E p \in Offsets(i) : x = p + k
    BY <2>3
  <2> QED
    BY <2>4
<1>5. \A x \in Extent(i, n) : Put(buf, i, n)[x] = <<i, Place(x)>>
  BY <1>1, <1>2 DEF Put
<1>6. \A x \in 0..OutputSize-1 \ Extent(i, n) : Put(buf, i, n)[x] = buf[x]
  BY <1>1, <1>2 DEF Put
<1>7. Put(buf, i, n) \in [0..OutputSize-1 -> Byte]
  <2>1. \A x \in Extent(i, n) : <<i, Place(x)>> \in Byte
    BY <1>4 DEF Byte, Comps
  <2>2. ASSUME NEW x \in 0..OutputSize-1
        PROVE  Put(buf, i, n)[x] \in Byte
    <3>1. buf[x] \in Byte
      BY DEF TypeOK
    <3>2. CASE x \in Extent(i, n)
      BY <1>5, <2>1, <3>2
    <3>3. CASE x \notin Extent(i, n)
      BY <1>6, <3>1, <3>3
    <3> QED
      BY <3>2, <3>3
  <2>3. Put(buf, i, n) = [x \in 0..OutputSize-1 |-> Put(buf, i, n)[x]]
    BY <1>1, <1>2 DEF Put
  <2> QED
    BY <2>2, <2>3
<1>8. ASSUME NEW o \in Offsets(i), NEW k \in 0..(n - 1)
      PROVE  Put(buf, i, n)[o + k] = <<i, k>>
  <2>1. o \in Nat
    BY GoodOffsets
  <2>2. o + k \in Extent(i, n)
    BY <2>1 DEF Extent
  <2>3. PICK p \in Offsets(i) : o + k = p + Place(o + k)
    BY <1>4, <2>2
  <2>4. Place(o + k) \in 0..(n - 1)
    BY <1>4, <2>2
  <2>5. k = Place(o + k)
    BY <2>3, <2>4, RegionsApart
  <2> QED
    BY <1>5, <2>2, <2>5
<1> QED
  BY <1>6, <1>7, <1>8 DEF Holds

------------------------------------------------------------------------------
\* A step that writes component "at" keeps the invariant's parts about the
\* image, the sizes and the components written.
LEMMA WriteKeeps ==
  ASSUME IInv, pc \in {"assemble", "sha256"}, at \in Comps, WriteComponent,
         UNCHANGED <<components, max_size>>
  PROVE  /\ buf' \in [0..OutputSize-1 -> Byte]
         /\ size' \in [Comps -> Nat]
         /\ at' \in Nat
         /\ written' \subseteq Comps
         /\ \A i \in written' : size'[i] <= max_size'[i]
         /\ NoComponentLost'
<1> DEFINE n == components[at].len
<1>1. n \in Nat /\ n <= max_size[at] /\ max_size \in [Comps -> Nat]
  BY OffsetsInNat DEF IInv, WriteComponent, This, TypeOK
<1>2. ~BadLayout /\ \A i \in Comps : Fits(i, max_size[i])
  BY DEF IInv, LayoutInv
<1>3. TypeOK /\ size \in [Comps -> Nat] /\ written \subseteq Comps /\ at \in Nat
  BY DEF IInv, TypeOK
<1>4. Fits(at, n)
  BY <1>1, <1>2, <1>3, FitsLess
<1>5. /\ buf' = Put(buf, at, n) /\ size' = [size EXCEPT ![at] = n]
      /\ written' = written \cup {at} /\ at' = at + 1
  BY DEF WriteComponent, This
<1>6. buf' \in [0..OutputSize-1 -> Byte]
  BY <1>2, <1>3, <1>1, <1>4, <1>5, PutCorrect
<1>7. \A i \in written' : size'[i] <= max_size'[i]
  BY <1>1, <1>3, <1>5 DEF IInv, WrittenInv
<1>8. NoComponentLost'
  <2>1. SUFFICES ASSUME NEW i \in written', NEW o \in Offsets(i),
                        NEW k \in 0..(size'[i] - 1)
                 PROVE  buf'[o + k] = <<i, k>>
    BY DEF NoComponentLost, Holds, Offsets
  <2>2. CASE i = at
    <3>1. size'[i] = n
      BY <1>3, <1>5, <2>2
    <3>2. Holds(Put(buf, at, n), at, o, n)
      BY <1>1, <1>2, <1>3, <1>4, <2>2, PutCorrect
    <3> QED
      BY <1>5, <2>2, <3>1, <3>2 DEF Holds
  <2>3. CASE i # at
    <3>1. i \in written /\ i \in Comps /\ size'[i] = size[i] /\ size[i] \in Nat
      BY <1>3, <1>5, <2>3
    <3>2. size[i] <= max_size[i] /\ max_size[i] \in Nat
      BY <1>1, <3>1 DEF IInv, WrittenInv
    <3>3. Fits(i, size[i])
      BY <1>2, <1>3, <3>1, <3>2, FitsLess
    <3>4. o \in Nat /\ o < OutputSize /\ o + size[i] <= OutputSize
      <4>1. o \in Nat /\ o < OutputSize
        BY <1>2, <1>3, <3>1, GoodOffsets
      <4> QED
        BY <3>3, <4>1 DEF Fits, Ends
    <3>5. o + k \in 0..OutputSize-1
      BY <3>1, <3>4, SizeAssumption
    <3>6. o + k \notin Extent(at, n)
      <4>1. SUFFICES ASSUME NEW p \in Offsets(at), o + k \in p..(p + n - 1)
                     PROVE  FALSE
        BY DEF Extent
      <4>2. p \in Nat
        BY <1>2, <1>3, GoodOffsets
      <4>3. (o + k) - p \in 0..(n - 1) /\ o + k = p + ((o + k) - p)
        BY <1>1, <3>4, <4>1, <4>2
      <4>4. k \in 0..(size[i] - 1)
        BY <3>1
      <4>5. i = at
        BY <1>1, <1>2, <1>3, <1>4, <3>1, <3>3, <4>3, <4>4, RegionsApart
      <4> QED
        BY <2>3, <4>5
    <3>7. buf'[o + k] = buf[o + k]
      BY <1>1, <1>2, <1>3, <1>4, <1>5, <3>5, <3>6, PutCorrect
    <3>8. buf[o + k] = <<i, k>>
      BY <3>1 DEF IInv, NoComponentLost, Holds
    <3> QED
      BY <3>7, <3>8
  <2> QED
    BY <2>2, <2>3
<1> QED
  BY <1>1, <1>3, <1>5, <1>6, <1>7, <1>8

------------------------------------------------------------------------------
LEMMA InitHolds == Init => IInv
<1> SUFFICES ASSUME Init
             PROVE  IInv
  OBVIOUS
<1>1. Empty \in [0..OutputSize-1 -> Byte]
  BY DEF Empty, Blank, Byte
<1>2. TypeOK
  BY <1>1, LayoutsAssumption DEF Init, TypeOK, Comps
<1> QED
  BY <1>2 DEF Init, IInv, LayoutInv, WrittenInv, NoComponentLost

\* A step that writes nothing to the image and leaves the layout alone.
LEMMA QuietStep ==
  ASSUME IInv, TypeOK', pc # "layout",
         pc = "validate" \/ pc' # "validate", pc' # "layout",
         UNCHANGED <<components, max_size, buf, written>>,
         size' = size \/ written = {}, pc' = "fatal" \/ pc # "fatal"
  PROVE  IInv'
<1>1. LayoutInv'
  BY DEF IInv, LayoutInv, BadLayout, Regions, OffsetOf, Comps, Fits, Offsets, Ends
<1>2. WrittenInv'
  BY DEF IInv, WrittenInv
<1>3. NoComponentLost'
  BY DEF IInv, NoComponentLost, Offsets, Holds
<1> QED
  BY <1>1, <1>2, <1>3 DEF IInv

LEMMA StepHolds == IInv /\ [Next]_vars => IInv'
<1> SUFFICES ASSUME IInv, [Next]_vars
             PROVE  IInv'
  OBVIOUS
<1> USE DEF Comps
<1>0. TypeOK /\ (at \in Comps => components[at].len \in Nat)
  BY OffsetsInNat DEF IInv
<1>1. CASE LayoutFails
  <2>1. TypeOK'
    BY <1>0, <1>1 DEF LayoutFails, Fatal, TypeOK
  <2> QED
    BY <1>1, <2>1 DEF IInv, LayoutFails, Fatal, LayoutInv, WrittenInv,
      NoComponentLost, Offsets, Holds
<1>2. CASE ParseLayout
  <2>1. TypeOK'
    BY <1>0, <1>2, SizeAssumption DEF ParseLayout, TypeOK
  <2>2. LayoutInv'
    BY <1>2 DEF ParseLayout, IsMaxSize, LayoutInv, BadLayout, Regions, OffsetOf,
      Fits, Offsets, Ends
  <2> QED
    BY <1>2, <2>1, <2>2 DEF IInv, ParseLayout, WrittenInv, NoComponentLost
<1>3. CASE ValidateFails
  <2>1. TypeOK'
    BY <1>0, <1>3 DEF ValidateFails, Fatal, TypeOK
  <2> QED
    BY <1>3, <2>1, QuietStep DEF ValidateFails, Fatal
<1>4. CASE ValidateFile
  <2>1. TypeOK'
    BY <1>0, <1>4 DEF ValidateFile, This, TypeOK
  <2> QED
    BY <1>4, <2>1, QuietStep DEF ValidateFile, IInv, WrittenInv
<1>5. CASE ValidateEnds
  <2>1. TypeOK'
    BY <1>0, <1>5 DEF ValidateEnds, TypeOK
  <2> QED
    BY <1>5, <2>1, QuietStep DEF ValidateEnds
<1>6. CASE GenerateManifest
  <2>1. \A o \in DOMAIN manifest' : manifest'[o] \in Entry
    <3>1. SUFFICES ASSUME NEW o \in {OffsetOf(r) : r \in Regions}
                   PROVE  manifest'[o] \in Entry
      BY <1>6 DEF GenerateManifest
    <3>2. \E c \in Comps : o \in Offsets(c)
      BY DEF Regions, OffsetOf, Offsets
    <3>3. (CHOOSE c \in Comps : o \in Offsets(c)) \in Comps
      BY <3>2
    <3> QED
      BY <1>0, <1>6, <3>3 DEF GenerateManifest, Entry, SizeEntry, TypeOK
  <2>2. TypeOK'
    BY <1>0, <1>6, <2>1 DEF GenerateManifest, TypeOK
  <2> QED
    BY <1>6, <2>2, QuietStep DEF GenerateManifest
<1>7. CASE Assemble
  <2>1. /\ buf' \in [0..OutputSize-1 -> Byte] /\ size' \in [Comps -> Nat]
        /\ at' \in Nat /\ written' \subseteq Comps
        /\ \A i \in written' : size'[i] <= max_size'[i]
        /\ NoComponentLost'
    BY <1>7, WriteKeeps DEF Assemble
  <2>2. TypeOK'
    BY <1>0, <1>7, <2>1 DEF Assemble, TypeOK
  <2>3. LayoutInv'
    BY <1>7 DEF Assemble, IInv, LayoutInv, BadLayout, Regions, OffsetOf, Fits,
      Offsets, Ends
  <2> QED
    BY <1>7, <2>1, <2>2, <2>3 DEF Assemble, IInv, WrittenInv
<1>8. CASE AssembleSkips
  <2>1. TypeOK'
    BY <1>0, <1>8 DEF AssembleSkips, TypeOK
  <2> QED
    BY <1>8, <2>1, QuietStep DEF AssembleSkips
<1>9. CASE AssembleFails
  <2>1. TypeOK'
    BY <1>0, <1>9 DEF AssembleFails, Fatal, TypeOK
  <2> QED
    BY <1>9, <2>1, QuietStep DEF AssembleFails, Fatal
<1>10. CASE AssembleEnds
  <2>1. TypeOK'
    BY <1>0, <1>10 DEF AssembleEnds, TypeOK
  <2> QED
    BY <1>10, <2>1, QuietStep DEF AssembleEnds
<1>11. CASE Digest
  <2>1. /\ buf' \in [0..OutputSize-1 -> Byte] /\ size' \in [Comps -> Nat]
        /\ at' \in Nat /\ written' \subseteq Comps
        /\ \A i \in written' : size'[i] <= max_size'[i]
        /\ NoComponentLost'
    BY <1>11, WriteKeeps DEF Digest
  <2>2. TypeOK'
    BY <1>0, <1>11, <2>1 DEF Digest, TypeOK
  <2>3. LayoutInv'
    BY <1>11 DEF Digest, IInv, LayoutInv, BadLayout, Regions, OffsetOf, Fits,
      Offsets, Ends
  <2> QED
    BY <1>11, <2>1, <2>2, <2>3 DEF Digest, IInv, WrittenInv
<1>12. CASE DigestSkips
  <2>1. TypeOK'
    BY <1>0, <1>12 DEF DigestSkips, TypeOK
  <2> QED
    BY <1>12, <2>1, QuietStep DEF DigestSkips
<1>13. CASE WriteImage
  <2>1. TypeOK'
    BY <1>0, <1>13 DEF WriteImage, TypeOK
  <2> QED
    BY <1>13, <2>1, QuietStep DEF WriteImage
<1>14. CASE UNCHANGED vars
  <2>1. TypeOK'
    BY <1>0, <1>14 DEF vars, TypeOK
  <2>2. LayoutInv'
    BY <1>14 DEF vars, IInv, LayoutInv, BadLayout, Regions, OffsetOf, Fits,
      Offsets, Ends
  <2>3. WrittenInv' /\ NoComponentLost'
    BY <1>14 DEF vars, IInv, WrittenInv, NoComponentLost, Offsets, Holds
  <2> QED
    BY <2>1, <2>2, <2>3 DEF IInv
<1> QED
  BY <1>1, <1>2, <1>3, <1>4, <1>5, <1>6, <1>7, <1>8, <1>9, <1>10, <1>11, <1>12,
     <1>13, <1>14 DEF Next

\* The layout's promises hold all the way through do_compile.
THEOREM LayoutKept == Spec => []IInv
  BY InitHolds, StepHolds, PTL DEF Spec

\* The image has exactly SPI_OUTPUT_SIZE bytes at every moment: no component
\* is written beyond its end.
THEOREM TypeCorrect == Spec => []TypeOK
<1>1. IInv => TypeOK
  BY DEF IInv
<1> QED
  BY LayoutKept, <1>1, PTL

\* No copy of any component is ever overwritten by another one.
THEOREM NothingOverwritten == Spec => []NoComponentLost
<1>1. IInv => NoComponentLost
  BY DEF IInv
<1> QED
  BY LayoutKept, <1>1, PTL

------------------------------------------------------------------------------
(* What the image says of itself.  The manifest is made before the image and *)
(* a digest before the other sha256 components are written, so the invariant *)
(* keeps what will make them true: which components are written by now, and  *)
(* that a byte of the image belongs to the component whose region it is in.  *)

\* What the manifest can know of a component's size.
FileSize(i) == IF components[i].source = "file" THEN components[i].len ELSE 0

\* The loops over the components: the files validated so far have their size
\* and, once the image is assembled, the files passed are written.
Progress ==
  /\ at \in Nat \ {0}
  /\ pc = "layout" => at = 1
  /\ pc = "validate" => \A i \in Comps : i < at => size[i] = FileSize(i)
  /\ pc = "manifest" => \A i \in Comps : size[i] = FileSize(i)
  /\ pc = "assemble" => \A i \in Comps :
       i < at /\ components[i].source = "file" => i \in written
  /\ pc \in {"sha256", "done"} => \A i \in Comps :
       components[i].source = "file" => i \in written

\* An entry of the manifest, when the image is being made.
Described(o) ==
  LET e == manifest[o] IN
  /\ e.comp \in Comps /\ o \in Offsets(e.comp)
  /\ e.max_size = max_size[e.comp]
  /\ e.size = FileSize(e.comp)
  /\ e.hashed = (components[e.comp].source = "file")

Manifested ==
  pc \in {"assemble", "sha256", "done"} => \A o \in DOMAIN manifest : Described(o)

\* Every byte that is not blank lies in a region of the component it is of.
Owned ==
  /\ \A i \in written : size[i] = components[i].len
  /\ \A x \in 0..OutputSize-1 : \/ buf[x] = Blank
                                \/ \E i \in written : /\ x \in Extent(i, components[i].len)
                                                      /\ buf[x][1] = i

\* Since component i hashed the image, only sha256 components were written.
Covered(i) ==
  \A x \in 0..OutputSize-1 :
    buf[x] = digest[i][x] \/ components[buf[x][1]].source = "sha256"

Hashed ==
  \A i \in Comps :
    components[i].source = "sha256" /\ (pc = "done" \/ (pc = "sha256" /\ i < at))
      => Covered(i)

GeneratedInv == Progress /\ Manifested /\ Owned /\ Hashed

\* What writing a component does to a byte of the image.
LEMMA WriteChanges ==
  ASSUME IInv, pc \in {"assemble", "sha256"}, at \in Comps, WriteComponent,
         NEW x \in 0..OutputSize-1
  PROVE  \/ buf'[x] = buf[x]
         \/ x \in Extent(at, components[at].len) /\ buf'[x][1] = at
<1>1. DOMAIN buf = 0..OutputSize-1
  BY DEF IInv, TypeOK
<1>2. buf' = Put(buf, at, components[at].len)
  BY DEF WriteComponent, This
<1>3. CASE x \in Extent(at, components[at].len)
  BY <1>1, <1>2, <1>3 DEF Put
<1>4. CASE x \notin Extent(at, components[at].len)
  BY <1>1, <1>2, <1>4 DEF Put
<1>5. QED
  BY <1>3, <1>4

LEMMA ProgressStep == IInv /\ Progress /\ [Next]_vars => Progress'
<1> SUFFICES ASSUME IInv, Progress, [Next]_vars PROVE Progress'
  OBVIOUS
<1>1. /\ at \in Nat \ {0} /\ size \in [Comps -> Nat] /\ Comps = 1..Len(components)
      /\ components' = components /\ Comps' = Comps /\ Len(components) \in Nat
  <2>1. components' = components
    BY DEF Next, vars, LayoutFails, ParseLayout, ValidateFails, ValidateFile,
       ValidateEnds, GenerateManifest, Assemble, AssembleSkips, AssembleFails,
       AssembleEnds, Digest, DigestSkips, WriteImage, Fatal
  <2>2. QED
    BY <2>1 DEF IInv, TypeOK, Progress, Comps
<1>2. \A i \in Comps : FileSize(i)' = FileSize(i)
  BY <1>1 DEF FileSize
<1>3. CASE LayoutFails \/ ValidateFails \/ AssembleFails
  BY <1>1, <1>3 DEF LayoutFails, ValidateFails, AssembleFails, Fatal, Progress
<1>4. CASE ParseLayout
  BY <1>1, <1>4 DEF ParseLayout, Progress
<1>5. CASE ValidateFile
  <2>1. size'[at] = FileSize(at)
    BY <1>1, <1>5 DEF ValidateFile, BadFile, IsFile, This, FileSize
  <2>2. \A i \in Comps : i # at => size'[i] = size[i]
    BY <1>1, <1>5 DEF ValidateFile
  <2>3. pc = "validate" /\ pc' = "validate" /\ at' = at + 1
    BY <1>5 DEF ValidateFile
  <2>4. \A i \in Comps : i < at' => size'[i] = FileSize(i)
    BY <1>1, <2>1, <2>2, <2>3 DEF Progress
  <2>5. QED
    BY <1>1, <1>2, <2>3, <2>4 DEF Progress
<1>6. CASE ValidateEnds
  <2>1. pc = "validate" /\ pc' = "manifest" /\ at' = at /\ size' = size /\ at \notin Comps
    BY <1>6 DEF ValidateEnds
  <2>2. \A i \in Comps : i < at
    BY <1>1, <2>1
  <2>3. QED
    BY <1>1, <1>2, <2>1, <2>2 DEF Progress
<1>7. CASE GenerateManifest \/ WriteImage
  BY <1>1, <1>7 DEF GenerateManifest, WriteImage, Progress
<1>8. CASE Assemble
  <2>1. pc = "assemble" /\ pc' = pc /\ at' = at + 1 /\ written' = written \cup {at}
    BY <1>8 DEF Assemble, WriteComponent
  <2>2. \A i \in Comps : i < at' /\ components[i].source = "file" => i \in written'
    BY <1>1, <2>1 DEF Progress
  <2>3. QED
    BY <1>1, <2>1, <2>2 DEF Progress
<1>9. CASE AssembleSkips
  <2>1. /\ pc = "assemble" /\ pc' = pc /\ at' = at + 1 /\ written' = written
        /\ components[at].source # "file"
    BY <1>9 DEF AssembleSkips, This, Deferred
  <2>2. \A i \in Comps : i < at' /\ components[i].source = "file" => i \in written'
    BY <1>1, <2>1 DEF Progress
  <2>3. QED
    BY <1>1, <2>1, <2>2 DEF Progress
<1>10. CASE AssembleEnds
  <2>1. /\ pc = "assemble" /\ pc' = "sha256" /\ at' = 1 /\ written' = written
        /\ at \notin Comps
    BY <1>10 DEF AssembleEnds
  <2>2. \A i \in Comps : i < at
    BY <1>1, <2>1
  <2>3. QED
    BY <1>1, <2>1, <2>2 DEF Progress
<1>11. CASE Digest \/ DigestSkips
  <2>1. pc = "sha256" /\ pc' = pc /\ at' = at + 1 /\ written \subseteq written'
    BY <1>11 DEF Digest, DigestSkips, WriteComponent
  <2>2. QED
    BY <1>1, <2>1 DEF Progress
<1>12. CASE UNCHANGED vars
  BY <1>1, <1>2, <1>12 DEF vars, Progress
<1>13. QED
  BY <1>3, <1>4, <1>5, <1>6, <1>7, <1>8, <1>9, <1>10, <1>11, <1>12 DEF Next

LEMMA ManifestedStep == IInv /\ Progress /\ Manifested /\ [Next]_vars => Manifested'
<1> SUFFICES ASSUME IInv, Progress, Manifested, [Next]_vars PROVE Manifested'
  OBVIOUS
<1>1. CASE GenerateManifest
  <2>1. /\ pc = "manifest" /\ components' = components /\ max_size' = max_size
        /\ manifest' = [o \in {OffsetOf(r) : r \in Regions} |->
             LET i == CHOOSE c \in Comps : o \in Offsets(c)
             IN  [comp |-> i, max_size |-> max_size[i], size |-> SizeEntry(i),
                  hashed |-> components[i].source = "file"]]
    BY <1>1 DEF GenerateManifest
  <2>2. ASSUME NEW o \in DOMAIN manifest' PROVE Described(o)'
    <3>1. o \in {OffsetOf(r) : r \in Regions}
      BY <2>1
    <3>2. PICK i \in Comps : i = (CHOOSE c \in Comps : o \in Offsets(c)) /\ o \in Offsets(i)
      <4>1. \E c \in Comps : o \in Offsets(c)
        BY <3>1 DEF Regions, OffsetOf, Offsets
      <4>2. QED
        BY <4>1
    <3>3. /\ manifest'[o].comp = i /\ manifest'[o].max_size = max_size[i]
          /\ manifest'[o].size = size[i]
          /\ manifest'[o].hashed = (components[i].source = "file")
      BY <2>1, <3>1, <3>2 DEF SizeEntry
    <3>4. size[i] = FileSize(i)
      BY <2>1, <3>2 DEF Progress
    <3>5. Comps' = Comps /\ Offsets(i)' = Offsets(i) /\ FileSize(i)' = FileSize(i)
      BY <2>1 DEF Comps, Offsets, FileSize
    <3>6. QED
      BY <2>1, <3>2, <3>3, <3>4, <3>5 DEF Described, Offsets, FileSize
  <2>3. QED
    BY <2>2 DEF Manifested
<1>2. CASE ~GenerateManifest
  <2>1. /\ UNCHANGED <<components, manifest>>
        /\ pc' \in {"assemble", "sha256", "done"} =>
             /\ pc \in {"assemble", "sha256", "done"} /\ max_size' = max_size
    <3>1. CASE LayoutFails \/ ValidateFails \/ AssembleFails
      BY <3>1 DEF LayoutFails, ValidateFails, AssembleFails, Fatal
    <3>2. CASE ParseLayout \/ ValidateFile \/ ValidateEnds
      BY <3>2 DEF ParseLayout, ValidateFile, ValidateEnds
    <3>3. CASE Assemble \/ AssembleSkips \/ AssembleEnds \/ Digest \/ DigestSkips \/ WriteImage
      BY <3>3 DEF Assemble, AssembleSkips, AssembleEnds, Digest, DigestSkips, WriteImage
    <3>4. CASE UNCHANGED vars
      BY <3>4 DEF vars
    <3>5. QED
      BY <1>2, <3>1, <3>2, <3>3, <3>4 DEF Next
  <2>2. SUFFICES ASSUME pc' \in {"assemble", "sha256", "done"}, NEW o \in DOMAIN manifest
                 PROVE  Described(o)'
    BY <2>1 DEF Manifested
  <2>3. Described(o)
    BY <2>1, <2>2 DEF Manifested
  <2>4. QED
    BY <2>1, <2>2, <2>3 DEF Described, Comps, Offsets, FileSize
<1>3. QED
  BY <1>1, <1>2

LEMMA OwnedStep == IInv /\ Owned /\ [Next]_vars => Owned'
<1> SUFFICES ASSUME IInv, Owned, [Next]_vars PROVE Owned'
  OBVIOUS
<1>1. CASE Assemble \/ Digest
  <2>1. /\ pc \in {"assemble", "sha256"} /\ at \in Comps /\ WriteComponent
        /\ components' = components
    BY <1>1 DEF Assemble, Digest
  <2>2. /\ size' = [size EXCEPT ![at] = components[at].len]
        /\ written' = written \cup {at} /\ size \in [Comps -> Nat] /\ written \subseteq Comps
    BY <2>1 DEF WriteComponent, This, IInv, TypeOK
  <2>3. \A i \in written' : size'[i] = components[i].len
    BY <2>1, <2>2 DEF Owned
  <2>4. ASSUME NEW x \in 0..OutputSize-1
        PROVE  \/ buf'[x] = Blank
               \/ \E i \in written' : x \in Extent(i, components[i].len) /\ buf'[x][1] = i
    <3>1. CASE buf'[x] = buf[x]
      BY <2>2, <3>1 DEF Owned
    <3>2. CASE x \in Extent(at, components[at].len) /\ buf'[x][1] = at
      BY <2>2, <3>2
    <3>3. QED
      BY <2>1, <3>1, <3>2, WriteChanges
  <2>5. \A i, n : Extent(i, n)' = Extent(i, n)
    BY <2>1 DEF Extent, Offsets
  <2>6. QED
    BY <2>1, <2>3, <2>4, <2>5 DEF Owned
<1>2. CASE ~(Assemble \/ Digest)
  <2>1. /\ UNCHANGED <<components, buf, written>>
        /\ size' = size \/ written = {}
    <3>1. CASE LayoutFails \/ ValidateFails \/ AssembleFails
      BY <3>1 DEF LayoutFails, ValidateFails, AssembleFails, Fatal
    <3>2. CASE ParseLayout \/ ValidateEnds \/ GenerateManifest
      BY <3>2 DEF ParseLayout, ValidateEnds, GenerateManifest
    <3>3. CASE ValidateFile
      BY <3>3 DEF ValidateFile, IInv, WrittenInv
    <3>4. CASE AssembleSkips \/ AssembleEnds \/ DigestSkips \/ WriteImage
      BY <3>4 DEF AssembleSkips, AssembleEnds, DigestSkips, WriteImage
    <3>5. CASE UNCHANGED vars
      BY <3>5 DEF vars
    <3>6. QED
      BY <1>2, <3>1, <3>2, <3>3, <3>4, <3>5 DEF Next
  <2>2. \A i, n : Extent(i, n)' = Extent(i, n)
    BY <2>1 DEF Extent, Offsets
  <2>3. QED
    BY <2>1, <2>2 DEF Owned
<1>3. QED
  BY <1>1, <1>2

LEMMA HashedStep == IInv /\ Progress /\ Hashed /\ [Next]_vars => Hashed'
<1> SUFFICES ASSUME IInv, Progress, Hashed, [Next]_vars PROVE Hashed'
  OBVIOUS
<1>1. CASE Digest
  <2>1. /\ pc = "sha256" /\ pc' = pc /\ at \in Comps /\ WriteComponent /\ at' = at + 1
        /\ components[at].source = "sha256" /\ components' = components /\ Comps' = Comps
        /\ digest' = [digest EXCEPT ![at] = buf]
    BY <1>1 DEF Digest, WriteComponent, This, Deferred, Comps
  <2>2. DOMAIN digest = Comps /\ at \in Nat /\ Comps \subseteq Nat
    BY DEF IInv, TypeOK, Comps
  <2>3. ASSUME NEW i \in Comps, components[i].source = "sha256", i < at',
               NEW x \in 0..OutputSize-1
        PROVE  buf'[x] = digest'[i][x] \/ components[buf'[x][1]].source = "sha256"
    <3>1. CASE buf'[x] # buf[x]
      <4>1. buf'[x][1] = at
        BY <2>1, <3>1, WriteChanges
      <4>2. QED
        BY <2>1, <4>1
    <3>2. CASE buf'[x] = buf[x] /\ i = at
      BY <2>1, <2>2, <3>2
    <3>3. CASE buf'[x] = buf[x] /\ i # at
      <4>1. i < at
        BY <2>1, <2>2, <2>3, <3>3
      <4>2. Covered(i)
        BY <2>1, <2>3, <4>1 DEF Hashed
      <4>3. digest'[i] = digest[i]
        BY <2>1, <2>2, <3>3
      <4>4. QED
        BY <3>3, <4>2, <4>3 DEF Covered
    <3>4. QED
      BY <3>1, <3>2, <3>3
  <2>4. QED
    BY <2>1, <2>3 DEF Hashed, Covered
<1>2. CASE WriteImage
  <2>1. /\ pc = "sha256" /\ at \notin Comps /\ UNCHANGED <<components, buf, digest>>
    BY <1>2 DEF WriteImage
  <2>2. \A i \in Comps : i < at
    BY <2>1 DEF Comps, Progress, IInv, TypeOK
  <2>3. QED
    BY <2>1, <2>2 DEF Hashed, Covered, Comps
<1>3. CASE DigestSkips
  <2>1. /\ pc = "sha256" /\ pc' = pc /\ at' = at + 1 /\ components[at].source # "sha256"
        /\ UNCHANGED <<components, buf, digest>>
    BY <1>3 DEF DigestSkips, This, Deferred
  <2>2. \A i \in Comps : i < at' /\ components[i].source = "sha256" => i < at
    BY <2>1 DEF Comps, Progress, IInv, TypeOK
  <2>3. QED
    BY <2>1, <2>2 DEF Hashed, Covered, Comps
<1>4. CASE AssembleEnds
  <2>1. pc' = "sha256" /\ at' = 1 /\ components' = components
    BY <1>4 DEF AssembleEnds
  <2>2. \A i \in Comps' : ~(i < at')
    BY <2>1 DEF Comps
  <2>3. QED
    BY <2>1, <2>2 DEF Hashed
<1>5. CASE LayoutFails \/ ValidateFails \/ AssembleFails
  BY <1>5 DEF LayoutFails, ValidateFails, AssembleFails, Fatal, Hashed
<1>6. CASE ParseLayout \/ ValidateFile \/ ValidateEnds \/ GenerateManifest
           \/ Assemble \/ AssembleSkips
  BY <1>6 DEF ParseLayout, ValidateFile, ValidateEnds, GenerateManifest, Assemble,
     AssembleSkips, Hashed
<1>7. CASE UNCHANGED vars
  BY <1>7 DEF vars, Hashed, Covered, Comps
<1>8. QED
  BY <1>1, <1>2, <1>3, <1>4, <1>5, <1>6, <1>7 DEF Next

LEMMA GeneratedInvariant == Spec => []GeneratedInv
<1>1. Init => GeneratedInv
  <2> SUFFICES ASSUME Init PROVE GeneratedInv
    OBVIOUS
  <2>1. Progress /\ Manifested
    BY DEF Init, Progress, Manifested
  <2>2. Owned /\ Hashed
    BY DEF Init, Owned, Hashed, Empty
  <2>3. QED
    BY <2>1, <2>2 DEF GeneratedInv
<1>2. IInv /\ GeneratedInv /\ [Next]_vars => GeneratedInv'
  BY ProgressStep, ManifestedStep, OwnedStep, HashedStep DEF GeneratedInv
<1>3. QED
  BY <1>1, <1>2, LayoutKept, PTL DEF Spec

\* The manifest's entries and the digests are true of the image as it is
\* flashed, for any list of components: every size and hash the manifest gives
\* is of bytes the image holds, its regions hold nothing of another component,
\* and only sha256 components were written after a digest was taken
\* (amd-spi-image.bbclass, spi_generate_manifest and spi_assemble).
THEOREM ImageDescribesItself == Spec => []GeneratedTrue
<1>1. ASSUME IInv, GeneratedInv PROVE GeneratedTrue
  <2> SUFFICES ASSUME pc = "done" PROVE GeneratedTrue
    BY DEF GeneratedTrue, ManifestTrue, DigestCovers
  <2>1. /\ TypeOK /\ ~BadLayout /\ \A i \in Comps : Fits(i, max_size[i])
    BY <1>1 DEF IInv, LayoutInv
  <2>2. DOMAIN buf = 0..OutputSize-1 /\ max_size \in [Comps -> Nat] /\ written \subseteq Comps
    BY <2>1 DEF TypeOK
  <2>3. ASSUME NEW o \in DOMAIN manifest,
               manifest[o].size > 0 \/ manifest[o].hashed
        PROVE  /\ manifest[o].comp \in written
               /\ manifest[o].size = components[manifest[o].comp].len
               /\ Holds(buf, manifest[o].comp, o, manifest[o].size)
    <3> DEFINE e == manifest[o]
    <3>1. Described(o)
      BY <1>1 DEF GeneratedInv, Manifested
    <3>2. components[e.comp].source = "file"
      <4>1. CASE e.size > 0
        BY <3>1, <4>1 DEF Described, FileSize
      <4>2. CASE e.hashed
        BY <3>1, <4>2, Zenon DEF Described
      <4>3. QED
        BY <2>3, <4>1, <4>2
    <3>3. e.comp \in written
      BY <1>1, <3>1, <3>2 DEF Described, GeneratedInv, Progress
    <3>4. e.size = components[e.comp].len /\ size[e.comp] = e.size
      BY <1>1, <3>1, <3>2, <3>3 DEF Described, FileSize, GeneratedInv, Owned
    <3>5. Holds(buf, e.comp, o, size[e.comp])
      BY <1>1, <3>1, <3>3 DEF Described, IInv, NoComponentLost
    <3>6. QED
      BY <3>3, <3>4, <3>5
  <2>4. ASSUME NEW o \in DOMAIN manifest, NEW x \in o..(o + manifest[o].max_size - 1),
               buf[x] # Blank
        PROVE  buf[x][1] = manifest[o].comp
    <3> DEFINE c == manifest[o].comp
    <3>1. c \in Comps /\ o \in Offsets(c) /\ manifest[o].max_size = max_size[c]
      BY <1>1 DEF GeneratedInv, Manifested, Described
    <3> HIDE DEF c
    <3>2. o \in Nat /\ max_size[c] \in Nat
      BY <2>1, <2>2, <3>1, GoodOffsets
    <3>3. o + max_size[c] <= OutputSize
      BY <2>1, <3>1, GoodOffsets DEF Fits, Ends
    <3>4. x \in 0..OutputSize-1 /\ x - o \in 0..(max_size[c] - 1)
      BY <2>4, <3>1, <3>2, <3>3, SizeAssumption
    <3>5. PICK i \in written : x \in Extent(i, components[i].len) /\ buf[x][1] = i
      BY <1>1, <2>4, <3>4 DEF GeneratedInv, Owned
    <3>6. i \in Comps /\ components[i].len \in Nat /\ components[i].len <= max_size[i]
      <4>1. i \in Comps
        BY <2>2
      <4>2. size[i] = components[i].len /\ size[i] <= max_size[i]
        BY <1>1 DEF GeneratedInv, Owned, IInv, WrittenInv
      <4>3. QED
        BY <2>1, <4>1, <4>2, OffsetsInNat
    <3>7. Fits(i, components[i].len)
      BY <2>1, <2>2, <3>6, FitsLess
    <3>8. PICK p \in Offsets(i) : x \in p..(p + components[i].len - 1)
      BY <3>5 DEF Extent
    <3>9. p \in Nat
      BY <2>1, <3>6, GoodOffsets
    <3>10. x - p \in 0..(components[i].len - 1) /\ p + (x - p) = o + (x - o)
      BY <3>2, <3>4, <3>6, <3>8, <3>9
    <3>11. i = c
      BY <2>1, <3>1, <3>2, <3>4, <3>6, <3>7, <3>10, RegionsApart
    <3>12. QED
      BY <3>5, <3>11 DEF c
  <2>5. ManifestTrue
    BY <2>3, <2>4 DEF ManifestTrue
  <2>6. DigestCovers
    BY <1>1, <2>2 DEF GeneratedInv, Hashed, Covered, DigestCovers
  <2>7. QED
    BY <2>5, <2>6 DEF GeneratedTrue
<1>2. QED
  BY <1>1, LayoutKept, GeneratedInvariant, PTL

------------------------------------------------------------------------------
(* update-fpga: the command line.  The loop of preprocess_argv is a         *)
(* recursive function; that it is one, and what holds after every turn,     *)
(* follows from the least number principle.                                 *)

\* A set of naturals has a least member.
LEMMA Least ==
  ASSUME NEW T, T \subseteq Nat, T # {}
  PROVE  \E n \in T : \A m \in T : n <= m
<1> DEFINE R == {ss \in Nat \X Nat : ss[1] < ss[2]}
<1>1. IsWellFoundedOn(R, Nat)
  BY NatLessThanWellFounded DEF OpToRel
<1>2. PICK x \in T : \A y \in T : <<y, x>> \notin R
  <2> HIDE DEF R
  <2> QED
    BY <1>1, WFMin
<1>3. \A y \in T : ~(y < x)
  BY <1>2
<1>4. QED
  BY <1>3

\* A set of places in a list has a last one.
LEMMA LastPlace ==
  ASSUME NEW n \in Nat, NEW P, P \subseteq 1..n, P # {}
  PROVE  \E i \in P : \A j \in P : j <= i
<1> DEFINE T == {n - i : i \in P}
<1>1. T \subseteq Nat /\ T # {}
  <2>1. \A i \in P : n - i \in Nat
    OBVIOUS
  <2>2. PICK i \in P : TRUE
    OBVIOUS
  <2>3. n - i \in T
    BY <2>2
  <2>4. QED
    BY <2>1, <2>3
<1>2. PICK t \in T : \A u \in T : t <= u
  <2> HIDE DEF T
  <2> QED
    BY <1>1, Least
<1>3. PICK i \in P : t = n - i
  BY <1>2
<1>4. \A j \in P : n - i <= n - j
  BY <1>2, <1>3
<1>5. QED
  BY <1>4

FirstTurn == [i |-> 1, result |-> <<>>, pending |-> FALSE]

\* l has the loop's variables after each of the first n turns.
TurnLoop(args, l, n) ==
  l = [k \in 0..n |-> IF k = 0 THEN FirstTurn ELSE Turn(args, l[k - 1])]

LEMMA TurnLoopRuns ==
  ASSUME NEW args, NEW n \in Nat
  PROVE  \E l : TurnLoop(args, l, n)
<1> DEFINE T == {m \in Nat : ~ \E l : TurnLoop(args, l, m)}
<1>1. SUFFICES ASSUME T # {} PROVE FALSE
  OBVIOUS
<1>2. PICK m \in T : \A k \in T : m <= k
  <2> HIDE DEF T
  <2>1. T \subseteq Nat
    BY DEF T
  <2> QED
    BY <1>1, <2>1, Least
<1>3. m # 0
  <2> DEFINE l == [k \in 0..0 |-> FirstTurn]
  <2>1. TurnLoop(args, l, 0)
    BY DEF TurnLoop
  <2>2. QED
    BY <2>1
<1>4. PICK l : TurnLoop(args, l, m - 1)
  BY <1>2, <1>3
<1> DEFINE h == [k \in 0..m |-> IF k = m THEN Turn(args, l[m - 1]) ELSE l[k]]
<1>5. TurnLoop(args, h, m)
  <2>1. h = [k \in 0..m |-> IF k = 0 THEN FirstTurn ELSE Turn(args, h[k - 1])]
    <3>1. ASSUME NEW k \in 0..m
          PROVE  h[k] = IF k = 0 THEN FirstTurn ELSE Turn(args, h[k - 1])
      BY <1>2, <1>3, <1>4 DEF TurnLoop
    <3>2. QED
      BY <3>1
  <2>2. QED
    BY <2>1 DEF TurnLoop
<1>6. QED
  BY <1>5

LEMMA TurnsLoop ==
  ASSUME NEW args, Len(args) \in Nat
  PROVE  TurnLoop(args, Turns(args), Len(args))
<1>1. Turns(args) = CHOOSE l : TurnLoop(args, l, Len(args))
  BY DEF Turns, TurnLoop, FirstTurn
<1>2. QED
  BY <1>1, TurnLoopRuns

\* Words that are neighbours after preprocess_argv were neighbours before, or
\* had an --offset between them behind a word that is no option.
Follows(args, j, k) ==
  \/ k = j + 1
  \/ k = j + 2 /\ args[j + 1] = "--offset" /\ ~IsFlag(args[j])

\* Where in the command line the words of the result come from: m[k] is the
\* place of the k-th.  Only an --offset is left out.
From(args, s, m) ==
  /\ s.i \in 1..(Len(args) + 1)
  /\ s.result \in Seq(STRING) /\ m \in Seq(Nat) /\ Len(m) = Len(s.result)
  /\ \A k \in 1..Len(m) : m[k] \in 1..(s.i - 1) /\ s.result[k] = args[m[k]]
  /\ \A k, l \in 1..Len(m) : k < l => m[k] < m[l]
  /\ \A k \in 2..Len(m) : Follows(args, m[k - 1], m[k])
  /\ \A j \in 1..(s.i - 1) : args[j] = "--offset" \/ \E k \in 1..Len(m) : m[k] = j
  /\ s.i <= Len(args) => IF Len(m) = 0 THEN s.i = 1 ELSE m[Len(m)] = s.i - 1
  /\ s.pending => Len(m) > 0 /\ ~IsFlag(args[m[Len(m)]])

\* One more word is taken over: the next, or the one behind an --offset.
LEMMA FromAppend ==
  ASSUME NEW args \in Seq(STRING), NEW s, NEW m, From(args, s, m), NEW t, NEW j \in 1..Len(args),
         \/ j = s.i
         \/ j = s.i + 1 /\ args[s.i] = "--offset" /\ s.pending,
         t.i = j + 1, t.result = Append(s.result, args[j]),
         t.pending => ~IsFlag(args[j])
  PROVE  \E q : From(args, t, q)
<1>1. PICK n \in Nat, q \in Seq(Nat) :
        /\ n = Len(m) /\ Len(q) = n + 1 /\ q[n + 1] = j
        /\ \A k \in 1..n : q[k] = m[k] /\ m[k] \in Nat
  <2>1. m \in Seq(Nat) /\ j \in Nat
    BY DEF From
  <2>2. PICK q : q = Append(m, j)
    OBVIOUS
  <2>3. /\ q \in Seq(Nat) /\ Len(q) = Len(m) + 1 /\ Len(m) \in Nat
        /\ q[Len(m) + 1] = j
    BY <2>1, <2>2
  <2>4. \A k \in 1..Len(m) : q[k] = m[k] /\ m[k] \in Nat
    BY <2>1, <2>2
  <2>5. QED
    BY <2>3, <2>4
<1>2. PICK i, N \in Nat :
        /\ N = Len(args) /\ i = s.i /\ i \in 1..N /\ i <= j /\ j <= i + 1 /\ j \in 1..N
        /\ j # i => args[i] = "--offset" /\ s.pending
  BY DEF From
<1>3. /\ t.result \in Seq(STRING) /\ Len(t.result) = n + 1 /\ t.result[n + 1] = args[j]
      /\ \A k \in 1..n : t.result[k] = s.result[k]
  <2>1. args[j] \in STRING /\ s.result \in Seq(STRING) /\ Len(s.result) = n
    BY <1>1 DEF From
  <2>2. QED
    BY <2>1
<1>4. /\ \A k \in 1..n : m[k] \in 1..(i - 1) /\ s.result[k] = args[m[k]]
      /\ \A k, l \in 1..n : k < l => m[k] < m[l]
      /\ \A k \in 2..n : Follows(args, m[k - 1], m[k])
      /\ \A h \in 1..(i - 1) : args[h] = "--offset" \/ \E k \in 1..n : m[k] = h
      /\ IF n = 0 THEN i = 1 ELSE m[n] = i - 1
      /\ s.pending => n > 0 /\ ~IsFlag(args[m[n]])
  <2>1. s.i <= Len(args)
    BY <1>2
  <2>2. QED
    BY <1>1, <1>2, <2>1 DEF From
<1>5. \A k \in 1..(n + 1) : q[k] \in 1..j /\ t.result[k] = args[q[k]]
  <2>1. SUFFICES ASSUME NEW k \in 1..(n + 1)
                 PROVE  q[k] \in 1..j /\ t.result[k] = args[q[k]]
    OBVIOUS
  <2>2. CASE k = n + 1
    BY <1>1, <1>2, <1>3, <2>2
  <2>3. CASE k # n + 1
    <3>1. k \in 1..n
      BY <2>1, <2>3
    <3>2. q[k] = m[k] /\ m[k] \in 1..(i - 1) /\ t.result[k] = args[m[k]]
      BY <1>1, <1>3, <1>4, <3>1
    <3>3. m[k] \in 1..j
      BY <1>2, <3>2
    <3>4. QED
      BY <3>2, <3>3, Zenon
  <2>4. QED
    BY <2>2, <2>3
<1>6. \A k, l \in 1..(n + 1) : k < l => q[k] < q[l]
  <2>1. SUFFICES ASSUME NEW k \in 1..(n + 1), NEW l \in 1..(n + 1), k < l PROVE q[k] < q[l]
    OBVIOUS
  <2>2. k \in 1..n /\ q[k] = m[k] /\ m[k] \in 1..(i - 1)
    BY <1>1, <1>4, <2>1
  <2>3. CASE l = n + 1
    BY <1>1, <1>2, <2>2, <2>3
  <2>4. CASE l # n + 1
    <3>1. l \in 1..n
      BY <2>1, <2>4
    <3>2. QED
      BY <1>1, <1>4, <2>1, <2>2, <3>1
  <2>5. QED
    BY <2>3, <2>4
<1>7. \A k \in 2..(n + 1) : Follows(args, q[k - 1], q[k])
  <2>1. SUFFICES ASSUME NEW k \in 2..(n + 1) PROVE Follows(args, q[k - 1], q[k])
    OBVIOUS
  <2>2. k - 1 \in 1..n /\ q[k - 1] = m[k - 1]
    <3>1. k - 1 \in 1..n
      BY <2>1
    <3>2. QED
      BY <1>1, <3>1
  <2>3. CASE k = n + 1
    <3>1. q[k - 1] = i - 1 /\ q[k] = j /\ n # 0
      BY <1>1, <1>4, <2>2, <2>3
    <3>2. m[n] = i - 1 /\ (s.pending => ~IsFlag(args[i - 1]))
      BY <1>4, <3>1
    <3>3. CASE j = i
      BY <1>2, <3>1, <3>3 DEF Follows
    <3>4. CASE j # i
      <4>1. j = (i - 1) + 2 /\ args[(i - 1) + 1] = "--offset" /\ ~IsFlag(args[i - 1])
        BY <1>2, <3>2, <3>4
      <4>2. QED
        BY <3>1, <4>1 DEF Follows
    <3>5. QED
      BY <3>3, <3>4
  <2>4. CASE k # n + 1
    <3>1. k \in 2..n /\ q[k] = m[k]
      BY <1>1, <2>1, <2>4
    <3>2. QED
      BY <1>4, <2>2, <3>1
  <2>5. QED
    BY <2>3, <2>4
<1>8. \A h \in 1..j : args[h] = "--offset" \/ \E k \in 1..(n + 1) : q[k] = h
  <2>1. SUFFICES ASSUME NEW h \in 1..j, args[h] # "--offset"
                 PROVE  \E k \in 1..(n + 1) : q[k] = h
    OBVIOUS
  <2>2. CASE h = j
    <3>1. n + 1 \in 1..(n + 1) /\ q[n + 1] = h
      BY <1>1, <2>2
    <3>2. QED
      BY <3>1
  <2>3. CASE h # j
    <3>1. h \in 1..(i - 1)
      BY <1>2, <2>1, <2>3
    <3>2. PICK k \in 1..n : m[k] = h
      BY <1>4, <2>1, <3>1
    <3>3. QED
      BY <1>1, <3>2
  <2>4. QED
    BY <2>2, <2>3
<1>9. /\ t.i \in 1..(Len(args) + 1) /\ t.i - 1 = j
      /\ 1..Len(q) = 1..(n + 1) /\ 2..Len(q) = 2..(n + 1) /\ Len(q) = n + 1 /\ Len(q) # 0
  BY <1>1, <1>2
<1>10. From(args, t, q)
  <2>1. q[Len(q)] = j /\ Len(q) > 0
    BY <1>1
  <2>2. QED
    BY <1>3, <1>5, <1>6, <1>7, <1>8, <1>9, <2>1 DEF From
<1>11. QED
  BY <1>10

\* Two words behind a list are one behind it and another.
LEMMA TwoMore ==
  ASSUME NEW S, NEW s \in Seq(S), NEW a \in S, NEW b \in S
  PROVE  s \o <<a, b>> = Append(Append(s, a), b)
<1> DEFINE t == s \o <<a, b>>
           u == Append(Append(s, a), b)
<1>1. <<a, b>> \in Seq(S) /\ Len(<<a, b>>) = 2 /\ <<a, b>>[1] = a /\ <<a, b>>[2] = b
  OBVIOUS
<1>2. /\ t \in Seq(S) /\ Len(t) = Len(s) + 2
      /\ \A i \in 1..(Len(s) + 2) : t[i] = IF i <= Len(s) THEN s[i] ELSE <<a, b>>[i - Len(s)]
  <2> HIDE DEF t
  <2> QED
    BY <1>1, ConcatProperties DEF t
<1>3. /\ u \in Seq(S) /\ Len(u) = Len(s) + 2
      /\ \A i \in 1..Len(s) : u[i] = s[i]
      /\ u[Len(s) + 1] = a /\ u[Len(s) + 2] = b
  OBVIOUS
<1> HIDE DEF t, u
<1>4. ASSUME NEW i \in 1..Len(t) PROVE t[i] = u[i]
  <2>1. Len(s) \in Nat
    OBVIOUS
  <2>2. CASE i \in 1..Len(s)
    BY <1>2, <1>3, <2>1, <2>2
  <2>3. CASE i = Len(s) + 1
    BY <1>1, <1>2, <1>3, <2>1, <2>3
  <2>4. CASE i = Len(s) + 2
    BY <1>1, <1>2, <1>3, <2>1, <2>4
  <2>5. QED
    BY <1>2, <2>1, <2>2, <2>3, <2>4
<1>5. t = u
  BY <1>2, <1>3, <1>4, SeqEqual
<1>6. QED
  BY <1>5 DEF t, u

\* A turn keeps that, and takes one word or two.
LEMMA TurnKeeps ==
  ASSUME NEW args \in Seq(STRING), NEW s, NEW m, From(args, s, m), s.i <= Len(args)
  PROVE  /\ \E q : From(args, Turn(args, s), q)
         /\ Turn(args, s).i > s.i
<1> DEFINE i == s.i
           n == Len(args)
           t == Turn(args, s)
<1>1. i \in 1..n /\ n \in Nat /\ s.result \in Seq(STRING)
  BY DEF From
<1>2. PICK one : one = [i |-> i + 1, result |-> Append(s.result, args[i]), pending |-> FALSE]
  OBVIOUS
<1>3. one.i = i + 1 /\ one.result = Append(s.result, args[i]) /\ ~one.pending
  BY <1>2
<1>4. PICK p : From(args, one, p)
  <2> HIDE DEF n
  <2>1. i \in 1..Len(args)
    BY <1>1 DEF n
  <2>2. QED
    BY <1>3, <2>1, FromAppend
<1>5. CASE args[i] \in SpiFileArgs /\ i < n /\ ~IsFlag(args[i + 1])
  <2>1. t = [i |-> i + 2, result |-> s.result \o <<args[i], args[i + 1]>>, pending |-> TRUE]
    BY <1>1, <1>5 DEF Turn
  <2>2. s.result \o <<args[i], args[i + 1]>> = Append(one.result, args[i + 1])
    <3>1. args[i] \in STRING /\ args[i + 1] \in STRING
      BY <1>1, <1>5
    <3>2. s.result \o <<args[i], args[i + 1]>> = Append(Append(s.result, args[i]), args[i + 1])
      <4>1. \A r \in Seq(STRING), a, b \in STRING : r \o <<a, b>> = Append(Append(r, a), b)
        BY TwoMore
      <4>2. s.result \in Seq(STRING)
        BY <1>1
      <4> HIDE DEF i
      <4>3. QED
        BY <3>1, <4>1, <4>2, Zenon
    <3>3. QED
      BY <1>3, <3>2, Zenon
  <2>3. /\ i + 1 \in 1..Len(args) /\ t.i = (i + 1) + 1 /\ i + 1 = one.i
        /\ t.result = Append(one.result, args[i + 1])
    <3>1. t.i = i + 2 /\ t.result = s.result \o <<args[i], args[i + 1]>>
      <4> HIDE DEF t, i
      <4> QED
        BY <2>1
    <3>2. t.result = Append(one.result, args[i + 1])
      BY <2>2, <3>1, Zenon
    <3>3. i + 1 \in 1..Len(args) /\ t.i = (i + 1) + 1 /\ i + 1 = one.i
      <4> HIDE DEF t
      <4> QED
        BY <1>1, <1>3, <1>5, <3>1
    <3>4. QED
      BY <3>2, <3>3
  <2>4. \E q : From(args, t, q)
    <3> HIDE DEF t, n, i
    <3>1. QED
      BY <1>4, <1>5, <2>3, FromAppend
  <2>5. t.i > i
    BY <1>1, <2>3
  <2>6. QED
    BY <2>4, <2>5
<1>6. CASE args[i] \notin SpiFileArgs /\ args[i] = "--offset" /\ s.pending /\ i < n
  <2>1. t = [i |-> i + 2, result |-> Append(s.result, args[i + 1]), pending |-> FALSE]
    BY <1>1, <1>6 DEF Turn
  <2>2. i + 1 \in 1..Len(args) /\ t.i = (i + 1) + 1 /\ t.result = Append(s.result, args[i + 1])
        /\ ~t.pending
    BY <1>1, <1>6, <2>1
  <2>3. \E q : From(args, t, q)
    <3> HIDE DEF t, n
    <3>1. QED
      BY <1>6, <2>2, FromAppend
  <2>4. t.i > i
    BY <1>1, <2>2
  <2>5. QED
    BY <2>3, <2>4
<1>7. CASE args[i] \notin SpiFileArgs /\ args[i] = "--offset" /\ s.pending /\ i = n
  <2>1. t = [i |-> n + 1, result |-> s.result, pending |-> FALSE]
    BY <1>1, <1>7 DEF Turn
  <2>2. From(args, t, m)
    <3>1. t.i = n + 1 /\ t.result = s.result /\ ~t.pending
      BY <2>1
    <3>2. \A k \in 1..Len(m) : m[k] \in 1..(t.i - 1) /\ t.result[k] = args[m[k]]
      BY <1>1, <1>7, <3>1 DEF From
    <3>3. \A j \in 1..(t.i - 1) : args[j] = "--offset" \/ \E k \in 1..Len(m) : m[k] = j
      <4>1. \A j \in 1..(t.i - 1) : j = i \/ j \in 1..(i - 1)
        BY <1>1, <1>7, <3>1
      <4>2. QED
        BY <1>7, <4>1 DEF From
    <3> HIDE DEF t
    <3>4. QED
      BY <1>1, <1>7, <3>1, <3>2, <3>3 DEF From
  <2>3. QED
    BY <1>1, <1>7, <2>1, <2>2
<1>8. CASE \/ args[i] \in SpiFileArgs /\ ~(i < n /\ ~IsFlag(args[i + 1]))
           \/ args[i] \notin SpiFileArgs /\ ~(args[i] = "--offset" /\ s.pending)
  <2>1. t = one
    BY <1>1, <1>2, <1>8 DEF Turn
  <2>2. QED
    BY <1>1, <1>3, <1>4, <2>1
<1>9. QED
  BY <1>1, <1>5, <1>6, <1>7, <1>8

\* preprocess_argv goes through the whole command line.
LEMMA Preprocessed ==
  ASSUME NEW args \in Seq(STRING)
  PROVE  \E s, m : /\ From(args, s, m) /\ s.i = Len(args) + 1
                   /\ s.result = PreprocessArgv(args)
<1> DEFINE n == Len(args)
           l == Turns(args)
           Good(k) == (\E m : From(args, l[k], m)) /\ l[k].i > k
           T == {k \in 0..n : ~Good(k)}
<1>1. n \in Nat /\ TurnLoop(args, l, n)
  BY TurnsLoop
<1>2. T = {}
  <2>1. SUFFICES ASSUME T # {} PROVE FALSE
    OBVIOUS
  <2>2. PICK k \in T : \A h \in T : k <= h
    <3>1. T \subseteq Nat
      BY <1>1
    <3> HIDE DEF T
    <3> QED
      BY <2>1, <3>1, Least
  <2>3. CASE k = 0
    <3>1. l[0] = FirstTurn
      BY <1>1 DEF TurnLoop
    <3>2. From(args, FirstTurn, <<>>)
      BY <1>1 DEF From, FirstTurn
    <3>3. FirstTurn.i > 0
      BY DEF FirstTurn
    <3> HIDE DEF l
    <3>4. Good(0)
      BY <3>1, <3>2, <3>3
    <3>5. QED
      BY <2>2, <2>3, <3>4
  <2>4. CASE k # 0
    <3>1. k - 1 \in 0..n /\ k \in 1..n /\ Good(k - 1)
      <4>1. k \in 0..n /\ k - 1 \notin T
        BY <1>1, <2>2, <2>4
      <4>2. QED
        BY <1>1, <2>4, <4>1
    <3>2. l[k] = Turn(args, l[k - 1])
      BY <1>1, <2>4, <3>1 DEF TurnLoop
    <3> HIDE DEF l
    <3>3. PICK m : From(args, l[k - 1], m)
      BY <3>1
    <3>4. CASE l[k - 1].i > n
      <4>1. l[k] = l[k - 1]
        BY <3>2, <3>4 DEF Turn
      <4>2. l[k].i > k
        BY <1>1, <3>1, <3>3, <3>4, <4>1 DEF From
      <4>3. QED
        BY <2>2, <3>3, <4>1, <4>2
    <3>5. CASE l[k - 1].i <= n
      <4>1. (\E q : From(args, l[k], q)) /\ l[k].i > l[k - 1].i
        BY <3>2, <3>3, <3>5, TurnKeeps
      <4>2. l[k].i > k
        BY <1>1, <3>1, <3>3, <4>1 DEF From
      <4>3. QED
        BY <2>2, <4>1, <4>2
    <3>6. l[k - 1].i \in Nat
      BY <3>3 DEF From
    <3>7. QED
      BY <1>1, <3>4, <3>5, <3>6
  <2>5. QED
    BY <2>3, <2>4
<1>3. Good(n)
  BY <1>1, <1>2
<1> HIDE DEF l
<1>4. PICK m : From(args, l[n], m)
  BY <1>3
<1>5. l[n].i = n + 1
  BY <1>1, <1>3, <1>4 DEF From
<1>6. l[n].result = PreprocessArgv(args)
  BY DEF PreprocessArgv, l
<1>7. QED
  BY <1>4, <1>5, <1>6

\* update-fpga.py:100-142, 222-310: what argparse makes of a command line that
\* went through preprocess_argv is what the command line says of each file.
LEMMA FilesAsSaid ==
  ASSUME argv \in Seq(STRING), ~UsageError(PreprocessArgv(argv))
  PROVE  LET files == ParseArguments(PreprocessArgv(argv))
         IN  /\ DOMAIN files = {f \in SpiFileArgs : \E i \in DOMAIN argv : argv[i] = f}
             /\ \A f \in DOMAIN files : files[f] = Said(f)
<1>1. PICK s, m : From(argv, s, m) /\ s.i = Len(argv) + 1 /\ s.result = PreprocessArgv(argv)
  BY Preprocessed
<1>2. PICK R : R = PreprocessArgv(argv)
  OBVIOUS
<1>3. PICK n \in Nat, N \in Nat :
        /\ n = Len(R) /\ N = Len(argv) /\ DOMAIN R = 1..n /\ DOMAIN argv = 1..N
        /\ R \in Seq(STRING)
        /\ \A k \in 1..n : m[k] \in 1..N /\ R[k] = argv[m[k]]
        /\ \A k, l \in 1..n : k < l => m[k] < m[l]
        /\ \A k \in 2..n : Follows(argv, m[k - 1], m[k])
        /\ \A j \in 1..N : argv[j] = "--offset" \/ \E k \in 1..n : m[k] = j
  <2>1. Len(argv) \in Nat /\ s.i - 1 = Len(argv) /\ DOMAIN argv = 1..Len(argv)
    BY <1>1
  <2>2. R \in Seq(STRING) /\ Len(m) = Len(R) /\ s.result = R
    BY <1>1, <1>2 DEF From
  <2>3. Len(R) \in Nat /\ DOMAIN R = 1..Len(R)
    BY <2>2
  <2>4. /\ \A k \in 1..Len(m) : m[k] \in 1..(s.i - 1) /\ s.result[k] = argv[m[k]]
        /\ \A k, l \in 1..Len(m) : k < l => m[k] < m[l]
        /\ \A k \in 2..Len(m) : Follows(argv, m[k - 1], m[k])
        /\ \A j \in 1..(s.i - 1) : argv[j] = "--offset" \/ \E k \in 1..Len(m) : m[k] = j
    BY <1>1 DEF From
  <2>5. /\ \A k \in 1..Len(R) : m[k] \in 1..Len(argv) /\ R[k] = argv[m[k]]
        /\ \A k, l \in 1..Len(R) : k < l => m[k] < m[l]
        /\ \A k \in 2..Len(R) : Follows(argv, m[k - 1], m[k])
        /\ \A j \in 1..Len(argv) : argv[j] = "--offset" \/ \E k \in 1..Len(R) : m[k] = j
    BY <2>1, <2>2, <2>4, Zenon
  <2>6. QED
    BY <2>1, <2>2, <2>3, <2>5, Zenon
<1> DEFINE Uses(f) == {i \in DOMAIN R : R[i] = f}
           Named(f) == {i \in DOMAIN argv : argv[i] = f}
           last(f) == CHOOSE i \in Uses(f) : \A j \in Uses(f) : j <= i
           told(f) == CHOOSE i \in Named(f) : \A j \in Named(f) : j <= i
<1>4. ASSUME NEW f \in SpiFileArgs PROVE Uses(f) # {} <=> Named(f) # {}
  <2>1. ASSUME NEW k \in Uses(f) PROVE m[k] \in Named(f)
    BY <1>3
  <2>2. ASSUME NEW j \in Named(f) PROVE \E k \in 1..n : m[k] = j /\ k \in Uses(f)
    <3>1. argv[j] # "--offset" /\ j \in 1..N /\ argv[j] = f
      BY <1>3, <1>4 DEF SpiFileArgs
    <3>2. PICK k \in 1..n : m[k] = j
      BY <1>3, <3>1
    <3>3. QED
      BY <1>3, <3>1, <3>2
  <2>3. QED
    BY <2>1, <2>2
<1>5. ParseArguments(R) =
        [f \in {g \in SpiFileArgs : Uses(g) # {}} |-> <<R[last(f) + 1], R[last(f) + 2]>>]
  BY DEF ParseArguments
<1>6. ASSUME NEW f \in SpiFileArgs, Uses(f) # {}
      PROVE  <<R[last(f) + 1], R[last(f) + 2]>> = Said(f)
  <2>1. PICK k : k = last(f)
    OBVIOUS
  <2>2. PICK j : j = told(f)
    OBVIOUS
  <2>3. k \in Uses(f) /\ \A l \in Uses(f) : l <= k
    <3>1. PICK U : U = Uses(f)
      OBVIOUS
    <3>2. U = {i \in DOMAIN R : R[i] = f} /\ U # {} /\ R \in Seq(STRING)
      BY <1>3, <1>6, <3>1
    <3>3. k = CHOOSE i \in U : \A l \in U : l <= i
      BY <2>1, <3>1
    <3>4. \E i \in U : \A l \in U : l <= i
      BY <1>3, <3>2, LastPlace
    <3>5. k \in U /\ \A l \in U : l <= k
      <4> HIDE DEF Uses, Named, last, told
      <4> QED
        BY <3>3, <3>4, Zenon
    <3>6. QED
      BY <3>1, <3>5
  <2>4. j \in Named(f) /\ \A l \in Named(f) : l <= j
    <3>1. PICK U : U = Named(f)
      OBVIOUS
    <3>2. U = {i \in DOMAIN argv : argv[i] = f} /\ U # {}
      BY <1>4, <1>6, <3>1
    <3>3. j = CHOOSE i \in U : \A l \in U : l <= i
      BY <2>2, <3>1
    <3>4. \E i \in U : \A l \in U : l <= i
      BY <1>3, <3>2, LastPlace
    <3>5. j \in U /\ \A l \in U : l <= j
      <4> HIDE DEF Uses, Named, last, told
      <4> QED
        BY <3>3, <3>4, Zenon
    <3>6. QED
      BY <3>1, <3>5
  <2>5. Said(f) = <<argv[j + 1], IF argv[j + 2] = "--offset" THEN argv[j + 3] ELSE argv[j + 2]>>
    BY <2>2 DEF Said
  <2>6. k \in 1..n /\ R[k] = f /\ j \in 1..N /\ argv[j] = f
    BY <1>3, <2>3, <2>4
  <2>7. j = m[k]
    <3>1. m[k] \in 1..N /\ argv[m[k]] = f
      BY <1>3, <2>6
    <3>2. m[k] <= j
      BY <1>3, <2>4, <3>1
    <3>3. PICK l \in 1..n : m[l] = j
      BY <1>3, <1>6, <2>6 DEF SpiFileArgs
    <3>4. l \in Uses(f)
      BY <1>3, <2>6, <3>3
    <3>5. l <= k
      BY <2>3, <3>4
    <3>6. CASE l = k
      BY <3>3, <3>6
    <3>7. CASE l < k
      <4>1. m[l] < m[k]
        BY <1>3, <2>6, <3>7
      <4>2. QED
        BY <2>6, <3>1, <3>2, <3>3, <4>1
    <3>8. QED
      BY <2>6, <3>5, <3>6, <3>7
  <2>8. /\ k + 2 <= n
        /\ ~IsFlag(R[k + 1]) /\ ~IsFlag(R[k + 2])
        /\ IsFlag(R[k])
    <3>1. IsFlag(R[k]) /\ Nargs(R[k]) = 2
      BY <1>6, <2>6 DEF IsFlag, Nargs
    <3>2. k \in DOMAIN R
      BY <1>3, <2>6
    <3>3. \A h \in 1..2 : ~(k + h > Len(R) \/ IsFlag(R[k + h]))
      BY <1>2, <3>1, <3>2 DEF UsageError
    <3>4. QED
      BY <1>3, <2>6, <3>1, <3>3
  <2>9. m[k + 1] = j + 1 /\ argv[j + 1] = R[k + 1]
    <3>1. k + 1 \in 2..n /\ (k + 1) - 1 = k /\ k + 1 \in 1..n
      BY <2>6, <2>8
    <3>2. Follows(argv, m[k], m[k + 1])
      BY <1>3, <3>1
    <3>3. m[k + 1] = j + 1
      BY <2>6, <2>7, <2>8, <3>2 DEF Follows
    <3>4. QED
      BY <1>3, <3>1, <3>3
  <2>10. R[k + 2] = IF argv[j + 2] = "--offset" THEN argv[j + 3] ELSE argv[j + 2]
    <3>1. k + 2 \in 2..n /\ (k + 2) - 1 = k + 1 /\ k + 2 \in 1..n
      BY <2>6, <2>8
    <3>2. Follows(argv, m[k + 1], m[k + 2]) /\ R[k + 2] = argv[m[k + 2]]
      BY <1>3, <3>1
    <3>3. CASE m[k + 2] = (j + 1) + 1
      <4>1. (j + 1) + 1 = j + 2 /\ R[k + 2] = argv[j + 2]
        BY <2>6, <3>2, <3>3
      <4>2. argv[j + 2] # "--offset"
        BY <2>8, <4>1 DEF IsFlag
      <4>3. QED
        BY <4>1, <4>2
    <3>4. CASE m[k + 2] = (j + 1) + 2 /\ argv[(j + 1) + 1] = "--offset"
      <4>1. (j + 1) + 1 = j + 2 /\ (j + 1) + 2 = j + 3
        BY <2>6
      <4>2. QED
        BY <3>2, <3>4, <4>1
    <3>5. QED
      BY <2>9, <3>2, <3>3, <3>4 DEF Follows
  <2>11. QED
    BY <2>1, <2>5, <2>9, <2>10
<1>7. {g \in SpiFileArgs : Uses(g) # {}} = {f \in SpiFileArgs : \E i \in DOMAIN argv : argv[i] = f}
  <2>1. \A f : Named(f) # {} <=> \E i \in DOMAIN argv : argv[i] = f
    OBVIOUS
  <2>2. QED
    BY <1>4, <2>1
<1> HIDE DEF Uses, last
<1>8. QED
  BY <1>2, <1>5, <1>6, <1>7

------------------------------------------------------------------------------
(* update-fpga: the runs.                                                   *)

\* A run that got past its command line knows its files.
Checked == argv \in Seq(STRING) /\ ~UsageError(PreprocessArgv(argv))

\* Where a run stands it has made what a success would need: the copy is fresh
\* until the updated image replaces the one in it, and a tool that was not
\* silent has left this run's output.
RunInv ==
  /\ run \in Nat
  /\ step # "idle" => status = Unset /\ Checked
  /\ step \in {"find", "configure", "compile"} => work = [dir |-> dir, image |-> 0]
  /\ step \in {"replace", "bootgen", "spi", "spi pdi"} /\ ~silent =>
       out = [run |-> run, base |-> 0]
  /\ step = "spi pdi" /\ ~silent => pdi = run
  /\ UpdateTruthful

LEMMA RunStarts == FpgaInit => RunInv
BY UnsetAssumption DEF FpgaInit, RunInv, UpdateTruthful

LEMMA RunKeeps == RunInv /\ [FpgaNext]_fpgaVars => RunInv'
<1>1. SUFFICES ASSUME RunInv, [FpgaNext]_fpgaVars PROVE RunInv'
  OBVIOUS
<1>2. CASE Invoke
  <2>1. CASE UsageError(PreprocessArgv(argv'))
    BY <1>1, <1>2, <2>1 DEF Invoke, Exit, RunInv, UpdateTruthful, Products
  <2>2. CASE ~UsageError(PreprocessArgv(argv'))
    <3>1. Checked'
      BY <1>2, <2>2, ArgvsAssumption DEF Invoke, Checked
    <3>2. step' = "check" /\ status' = Unset /\ run' \in Nat
      BY <1>1, <1>2, <2>2 DEF Invoke, RunInv
    <3>3. QED
      BY <3>1, <3>2, UnsetAssumption DEF RunInv, UpdateTruthful
  <2>3. QED
    BY <2>1, <2>2
\* An end that is no success, or a step towards one.
<1>3. ASSUME Exit(1), UNCHANGED run PROVE RunInv'
  <2>1. step' = "idle" /\ status' # 0 /\ run' \in Nat
    <3>1. step' = "idle" /\ status' = 1
      BY <1>3 DEF Exit
    <3>2. run' = run /\ run \in Nat
      BY <1>1, <1>3 DEF RunInv
    <3>3. QED
      BY <3>1, <3>2
  <2>2. UpdateTruthful'
    BY <2>1 DEF UpdateTruthful
  <2>3. QED
    BY <2>1, <2>2 DEF RunInv
<1>4. ASSUME step # "idle", UNCHANGED Input, UNCHANGED status PROVE Checked' /\ status' = Unset
             /\ run' \in Nat /\ UpdateTruthful'
  <2>1. /\ Checked /\ status = Unset /\ run \in Nat
        /\ argv' = argv /\ run' = run /\ status' = status
    BY <1>1, <1>4 DEF RunInv, Input
  <2>2. Checked'
    BY <2>1 DEF Checked
  <2>3. status' # 0
    BY <2>1, UnsetAssumption
  <2>4. UpdateTruthful'
    BY <2>3 DEF UpdateTruthful
  <2>5. QED
    BY <2>1, <2>2, <2>4
<1>5. CASE CheckUpdatememAvailable
  BY <1>1, <1>3, <1>4, <1>5 DEF CheckUpdatememAvailable, Goto, Input, RunInv
<1>6. CASE CopyArtifactsDir
  BY <1>1, <1>3, <1>4, <1>6 DEF CopyArtifactsDir, Goto, Input, RunInv
<1>7. CASE FindInputs
  BY <1>1, <1>3, <1>4, <1>7 DEF FindInputs, Goto, Input, RunInv
<1>8. CASE Configure
  BY <1>1, <1>3, <1>4, <1>8 DEF Configure, Goto, Input, RunInv
<1>9. CASE CompileBitstream
  <2>1. step = "compile" /\ UNCHANGED Input /\ UNCHANGED run
    BY <1>9 DEF CompileBitstream, Input
  <2>2. work.image = 0
    BY <1>1, <2>1 DEF RunInv
  <2>3. CASE Exit(1)
    BY <1>3, <2>1, <2>3
  <2>4. CASE /\ Goto("replace")
             /\ silent' = TRUE \/ out' = [run |-> run, base |-> work.image]
    BY <1>1, <1>4, <2>1, <2>2, <2>4 DEF Goto, RunInv
  <2>5. QED
    BY <1>9, <2>3, <2>4 DEF CompileBitstream
<1>10. CASE CopyRcdo
  <2>1. /\ step = "replace" /\ UNCHANGED Input /\ UNCHANGED <<run, out, silent>>
        /\ Goto("bootgen") \/ Goto("spi")
    BY <1>10 DEF CopyRcdo, Input, Products
  <2>2. QED
    BY <1>1, <1>4, <2>1 DEF Goto, RunInv
<1>11. CASE RunBootgen
  <2>1. step = "bootgen" /\ UNCHANGED Input /\ UNCHANGED <<run, out>>
    BY <1>11 DEF RunBootgen, Input
  <2>2. \/ Goto("spi") /\ UNCHANGED silent
        \/ Goto("spi pdi") /\ UNCHANGED silent /\ pdi' = run
        \/ (Goto("spi") \/ Goto("spi pdi")) /\ silent' = TRUE
    BY <1>11 DEF RunBootgen
  <2>3. QED
    BY <1>1, <1>4, <2>1, <2>2 DEF Goto, RunInv
<1>12. CASE GenerateSpiImageTcl
  <2>1. /\ step \in {"spi", "spi pdi"} /\ UNCHANGED Input
        /\ UNCHANGED <<run, argv, spi, out, pdi, silent>>
    BY <1>12 DEF GenerateSpiImageTcl, Input
  <2>2. CASE Exit(1)
    BY <1>3, <2>1, <2>2
  <2>3. CASE Exit(0) /\ spi = "none"
    BY <1>1, <2>1, <2>3 DEF Exit, RunInv, UpdateTruthful
  <2>4. CASE /\ Exit(0)
             /\ flash' = [run   |-> run,
                          load  |-> IF step = "spi pdi" THEN pdi ELSE out.run,
                          files |-> ParseArguments(PreprocessArgv(argv))]
    <3>1. PICK files : files = ParseArguments(PreprocessArgv(argv))
      OBVIOUS
    <3>2. /\ DOMAIN files = {f \in SpiFileArgs : \E i \in DOMAIN argv : argv[i] = f}
          /\ \A f \in DOMAIN files : files[f] = Said(f)
      BY <1>1, <2>1, <3>1, FilesAsSaid DEF RunInv, Checked
    <3>3. /\ DOMAIN files = {f \in SpiFileArgs : \E i \in DOMAIN argv' : argv'[i] = f}
          /\ \A f \in DOMAIN files : files[f] = Said(f)'
      <4>1. argv' = argv
        BY <2>1
      <4>2. ASSUME NEW f PROVE Said(f)' = Said(f)
        BY <4>1 DEF Said
      <4>3. QED
        BY <3>2, <4>1, <4>2
    <3>4. flash'.files = files /\ flash'.run = run
          /\ flash'.load = IF step = "spi pdi" THEN pdi ELSE out.run
      BY <2>4, <3>1
    <3>5. ~silent => out = [run |-> run, base |-> 0] /\ (step = "spi pdi" => pdi = run)
      BY <1>1, <2>1 DEF RunInv
    <3>6. ~silent => flash'.load = run
      <4>1. ASSUME ~silent PROVE out.run = run
        <5>1. out = [run |-> run, base |-> 0]
          BY <3>5, <4>1
        <5>2. [run |-> run, base |-> 0].run = run
          OBVIOUS
        <5>3. QED
          BY <5>1, <5>2, Zenon
      <4>2. QED
        BY <3>4, <3>5, <4>1
    <3>7. UpdateTruthful'
      BY <2>1, <3>3, <3>4, <3>5, <3>6 DEF UpdateTruthful
    <3>8. QED
      BY <1>1, <2>1, <2>4, <3>7 DEF Exit, RunInv
  <2>5. QED
    BY <1>12, <2>2, <2>3, <2>4 DEF GenerateSpiImageTcl
<1>13. CASE Kill
  BY <1>3, <1>13 DEF Kill, Input
<1>14. CASE UNCHANGED fpgaVars
  <2>1. /\ UNCHANGED <<run, step, argv, dir>> /\ UNCHANGED <<spi, status, work, out>>
        /\ UNCHANGED <<pdi, flash, silent>>
    BY <1>14 DEF fpgaVars
  <2>2. Checked' <=> Checked
    BY <2>1 DEF Checked
  <2>3. ASSUME NEW f PROVE Said(f)' = Said(f)
    BY <2>1 DEF Said
  <2>4. UpdateTruthful'
    BY <1>1, <2>1, <2>3 DEF RunInv, UpdateTruthful
  <2>5. QED
    BY <1>1, <2>1, <2>2, <2>4 DEF RunInv
<1>15. QED
  BY <1>1, <1>2, <1>5, <1>6, <1>7, <1>8, <1>9, <1>10, <1>11, <1>12, <1>13, <1>14 DEF FpgaNext

\* update-fpga.py:642-802: however many runs there were before, whatever they
\* left and wherever they were interrupted, a run that exits with 0 has made its
\* outputs of fresh artifacts, and loaded each file where its command line says.
THEOREM ExitZeroIsTrue == FpgaSpec => []UpdateTruthful
<1>1. RunInv => UpdateTruthful
  BY DEF RunInv
<1>2. QED
  BY <1>1, RunStarts, RunKeeps, PTL DEF FpgaSpec
=============================================================================
