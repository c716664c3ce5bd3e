-------------------------- MODULE SparseCopy_proofs --------------------------
(***************************************************************************)
(* sparse_copy copies exactly what it was asked for, for any source file,  *)
(* any skip, seek and length, any of the three file maps, and any sizes of *)
(* the blocks, the chunks and the FIEMAP answers.  The invariant says of   *)
(* every data byte that it is copied, in the range under way, or still     *)
(* ahead in the file map; and that what is ahead lies behind the range, so *)
(* that stopping at the length asked for loses nothing.                    *)
(*                                                                         *)
(* wic's commands on an image and a medium, at the end: for any image and  *)
(* medium, and any number of commands at once, a partition holds what the  *)
(* commands that put it back make of it one after the other, unless two    *)
(* had it out together, and wic write leaves every partition on the        *)
(* medium, whole and in its room.                                          *)
(***************************************************************************)
EXTENDS SparseCopy, WicDisk, FiniteSetTheorems, WellFoundedInduction, TLAPS

------------------------------------------------------------------------------
(* Numbers.                                                                 *)

\* A set of naturals has a least member.
LEMMA LeastMember ==
  ASSUME NEW T, T \subseteq Nat, T # {}
  PROVE  \E n \in T : \A m \in T : n <= m
<1> DEFINE R == {ss \in Nat \X Nat : ss[1] < ss[2]}
<1>1. IsWellFoundedOn(R, Nat)
  BY NatLessThanWellFounded DEF OpToRel
<1>2. PICK x \in T : \A y \in T : <<y, x>> \notin R
  <2> HIDE DEF R
  <2> QED
    BY <1>1, WFMin
<1>3. \A y \in T : ~(y < x)
  BY <1>2
<1>4. QED
  BY <1>3

LEMMA MinOf ==
  ASSUME NEW T, T \subseteq Nat, T # {}
  PROVE  Min(T) \in T /\ Min(T) \in Nat /\ \A m \in T : Min(T) <= m
<1>1. \E n \in T : \A m \in T : n <= m
  BY LeastMember
<1>2. Min(T) \in T /\ \A m \in T : Min(T) <= m
  BY <1>1 DEF Min
<1>3. QED
  BY <1>2

LEMMA MinPair ==
  ASSUME NEW a \in Int, NEW b \in Int
  PROVE  Min({a, b}) = IF a <= b THEN a ELSE b
<1>1. \E n \in {a, b} : \A m \in {a, b} : n <= m
  BY DEF Min
<1>2. Min({a, b}) \in {a, b} /\ \A m \in {a, b} : Min({a, b}) <= m
  BY <1>1 DEF Min
<1>3. QED
  BY <1>2

LEMMA MaxPair ==
  ASSUME NEW a \in Int, NEW b \in Int
  PROVE  Max({a, b}) = IF a >= b THEN a ELSE b
<1>1. \E n \in {a, b} : \A m \in {a, b} : n >= m
  BY DEF Max
<1>2. Max({a, b}) \in {a, b} /\ \A m \in {a, b} : Max({a, b}) >= m
  BY <1>1 DEF Max
<1>3. QED
  BY <1>2

LEMMA Quotient ==
  ASSUME NEW a \in Nat, NEW b \in Nat \ {0}
  PROVE  /\ a \div b \in Nat
         /\ (a \div b) * b <= a /\ a < (a \div b + 1) * b
         /\ (a % b) = 0 => a = (a \div b) * b
<1>1. a \div b \in Nat /\ a % b \in Nat /\ a % b < b
  OBVIOUS
<1>2. a = b * (a \div b) + (a % b)
  OBVIOUS
<1> DEFINE q == a \div b
           r == a % b
<1>3. q \in Nat /\ r \in Nat /\ r < b /\ a = b * q + r
  BY <1>1, <1>2
<1> HIDE DEF q, r
<1>4. q * b <= a /\ a < (q + 1) * b /\ (r = 0 => a = q * b)
  BY <1>3
<1>5. QED
  BY <1>1, <1>4 DEF q, r

LEMMA TimesMonotone ==
  ASSUME NEW a \in Int, NEW b \in Int, NEW c \in Nat, a <= b
  PROVE  a * c <= b * c
OBVIOUS

LEMMA TimesCancel ==
  ASSUME NEW a \in Int, NEW b \in Int, NEW c \in Nat \ {0}, a * c < b * c
  PROVE  a < b
<1>1. a >= b => a * c >= b * c
  OBVIOUS
<1>2. QED
  BY <1>1

LEMMA TimesNatural ==
  ASSUME NEW a \in Nat, NEW b \in Nat
  PROVE  a * b \in Nat
OBVIOUS

LEMMA QuotientIs ==
  ASSUME NEW a \in Nat, NEW b \in Nat \ {0}, NEW k \in Nat,
         k * b <= a, a < (k + 1) * b
  PROVE  a \div b = k
<1> DEFINE q == a \div b
<1>1. q \in Nat /\ q * b <= a /\ a < (q + 1) * b
  BY Quotient
<1> HIDE DEF q
<1>2. k * b < (q + 1) * b /\ q * b < (k + 1) * b
  BY <1>1
<1>3. k < q + 1 /\ q < k + 1
  BY <1>1, <1>2, TimesCancel
<1>4. QED
  BY <1>1, <1>3 DEF q

------------------------------------------------------------------------------
(* Blocks and extents.                                                      *)

\* The file's blocks: host blocks are made of them, and they cover the file.
LEMMA Blocks ==
  ASSUME SourcesAssumption, NEW f \in SourceFiles
  PROVE  /\ BlockSize(f) \in Nat \ {0} /\ BlocksCnt(f) \in Nat
         /\ f.fsblock \div BlockSize(f) \in Nat \ {0}
         /\ f.fsblock = (f.fsblock \div BlockSize(f)) * BlockSize(f)
         /\ f.size <= BlocksCnt(f) * BlockSize(f)
         /\ f.size \in Nat /\ f.fsblock \in Nat \ {0}
<1> DEFINE bs == BlockSize(f)
           w == f.fsblock \div bs
           n == BlocksCnt(f)
<1>1. /\ f.size \in Nat /\ f.fsblock \in Nat \ {0} /\ MaxBlock \in Nat \ {0}
      /\ (f.fsblock % bs) = 0
  BY DEF SourcesAssumption
<1>2. bs \in Nat \ {0}
  BY <1>1, MinPair DEF BlockSize
<1> HIDE DEF bs
<1>3. w \in Nat /\ f.fsblock = w * bs
  BY <1>1, <1>2, Quotient
<1>4. w # 0
  <2> HIDE DEF w
  <2>1. QED
    BY <1>1, <1>2, <1>3
<1>5. f.size + bs - 1 \in Nat
  BY <1>1, <1>2
<1>6. n \in Nat /\ f.size + bs - 1 < (n + 1) * bs
  BY <1>2, <1>5, Quotient DEF BlocksCnt, bs
<1>7. f.size <= n * bs
  <2> HIDE DEF n
  <2>1. (n + 1) * bs = n * bs + bs
    BY <1>2, <1>6
  <2>2. n * bs \in Nat
    BY <1>2, <1>6, TimesNatural
  <2>3. QED
    BY <1>1, <1>2, <1>6, <2>1, <2>2
<1>8. QED
  BY <1>1, <1>2, <1>3, <1>4, <1>6, <1>7 DEF bs

\* Data byte q lies in a run of mapped host blocks.
LEMMA RunOf ==
  ASSUME SourcesAssumption, NEW f \in SourceFiles, NEW k \in f.mapped
  PROVE  \E r \in Runs(f) : r[1] <= k /\ k <= r[2]
<1>1. PICK m \in f.mapped \cup {0} : f.mapped \subseteq 0..m
  BY DEF SourcesAssumption
<1>2. m \in Nat /\ k \in Nat /\ k <= m
  BY <1>1
<1> DEFINE Joint(a, b) == a..b \subseteq f.mapped /\ \A y \in (a + 1)..b : y \notin f.starts
           A == {x \in 0..k : Joint(x, k)}
           B == {d \in 0..m : d <= m - k /\ Joint(k, m - d)}
<1>3. k \in A
  BY <1>2
<1>4. PICK a \in A : \A x \in A : a <= x
  <2>1. A \subseteq Nat
    BY <1>2
  <2> HIDE DEF A
  <2>2. QED
    BY <1>3, <2>1, LeastMember
<1>5. m - k \in B
  BY <1>2
<1>6. PICK d \in B : \A x \in B : d <= x
  <2>1. B \subseteq Nat
    BY <1>2
  <2> HIDE DEF B
  <2>2. QED
    BY <1>5, <2>1, LeastMember
<1> DEFINE b == m - d
<1>7. /\ a \in Nat /\ a <= k /\ Joint(a, k)
      /\ b \in Nat /\ k <= b /\ b <= m /\ Joint(k, b)
  BY <1>2, <1>4, <1>6
<1>8. Joint(a, b) /\ a <= b /\ a \in f.mapped /\ b \in f.mapped
  BY <1>2, <1>7
<1>9. a - 1 \notin f.mapped \/ a \in f.starts
  <2> SUFFICES ASSUME a - 1 \in f.mapped, a \notin f.starts PROVE FALSE
    OBVIOUS
  <2>1. a - 1 \in 0..k
    BY <1>1, <1>2, <1>7
  <2>2. Joint(a - 1, k)
    BY <1>2, <1>7
  <2>3. a - 1 \in A
    BY <2>1, <2>2
  <2>4. QED
    BY <1>4, <1>7, <2>3
<1>10. b + 1 \notin f.mapped \/ b + 1 \in f.starts
  <2> SUFFICES ASSUME b + 1 \in f.mapped, b + 1 \notin f.starts PROVE FALSE
    OBVIOUS
  <2>1. b + 1 <= m
    BY <1>1, <1>2, <1>7
  <2>2. Joint(k, b + 1)
    BY <1>2, <1>7
  <2>3. d - 1 \in B
    <3>1. d - 1 \in 0..m /\ d - 1 <= m - k /\ m - (d - 1) = b + 1
      BY <1>2, <1>6, <1>7, <2>1
    <3>2. QED
      BY <2>2, <3>1
  <2>4. QED
    BY <1>2, <1>6, <2>3
<1> HIDE DEF A, B
<1>11. <<a, b>> \in Runs(f)
  BY <1>8, <1>9, <1>10 DEF Runs
<1>12. QED
  BY <1>7, <1>11

\* Two runs do not meet.
LEMMA RunsApart ==
  ASSUME SourcesAssumption, NEW f \in SourceFiles, NEW r \in Runs(f), NEW s \in Runs(f)
  PROVE  /\ r[1] \in Nat /\ r[2] \in Nat /\ r[1] <= r[2]
         /\ r[1] < s[1] => r[2] < s[1]
         /\ r[1] = s[1] => r[2] = s[2]
<1>1. PICK m \in f.mapped \cup {0} : f.mapped \subseteq 0..m
  BY DEF SourcesAssumption
<1>2. /\ r[1] \in f.mapped /\ r[2] \in f.mapped /\ s[1] \in f.mapped /\ s[2] \in f.mapped
      /\ r[1] <= r[2] /\ s[1] <= s[2]
      /\ r[1]..r[2] \subseteq f.mapped /\ s[1]..s[2] \subseteq f.mapped
      /\ \A k \in (r[1] + 1)..r[2] : k \notin f.starts
      /\ \A k \in (s[1] + 1)..s[2] : k \notin f.starts
      /\ s[1] - 1 \notin f.mapped \/ s[1] \in f.starts
      /\ r[2] + 1 \notin f.mapped \/ r[2] + 1 \in f.starts
      /\ s[2] + 1 \notin f.mapped \/ s[2] + 1 \in f.starts
  BY DEF Runs
<1>3. r[1] \in Nat /\ r[2] \in Nat /\ s[1] \in Nat /\ s[2] \in Nat
  BY <1>1, <1>2
<1>4. r[1] < s[1] => r[2] < s[1]
  <2> SUFFICES ASSUME r[1] < s[1], s[1] <= r[2] PROVE FALSE
    BY <1>3
  <2>1. s[1] \in (r[1] + 1)..r[2] /\ s[1] - 1 \in r[1]..r[2]
    BY <1>3
  <2>2. QED
    BY <1>2, <2>1
<1>5. r[1] = s[1] => r[2] = s[2]
  <2> SUFFICES ASSUME r[1] = s[1] PROVE ~(r[2] < s[2]) /\ ~(s[2] < r[2])
    BY <1>3
  <2>1. ~(r[2] < s[2])
    <3> SUFFICES ASSUME r[2] < s[2] PROVE FALSE
      OBVIOUS
    <3>1. r[2] + 1 \in (s[1] + 1)..s[2] /\ r[2] + 1 \in s[1]..s[2]
      BY <1>2, <1>3
    <3>2. QED
      BY <1>2, <3>1
  <2>2. ~(s[2] < r[2])
    <3> SUFFICES ASSUME s[2] < r[2] PROVE FALSE
      OBVIOUS
    <3>1. s[2] + 1 \in (r[1] + 1)..r[2] /\ s[2] + 1 \in r[1]..r[2]
      BY <1>2, <1>3
    <3>2. QED
      BY <1>2, <3>1
  <2>3. QED
    BY <2>1, <2>2
<1>6. QED
  BY <1>2, <1>3, <1>4, <1>5

\* The extents of the source are disjoint, and one is where its block says.
LEMMA ExtentsApart ==
  ASSUME SourcesAssumption, src \in SourceFiles,
         NEW e \in Extents(src), NEW h \in Extents(src)
  PROVE  /\ e.block \in Nat /\ e.count \in Nat \ {0}
         /\ e.block < h.block => AskAgain(e) <= h.block
         /\ e.block = h.block => e = h
<1> DEFINE w == src.fsblock \div BlockSize(src)
<1>1. w \in Nat \ {0}
  BY Blocks
<1>2. PICK r \in Runs(src) : e = [block |-> r[1] * w, count |-> (r[2] - r[1] + 1) * w]
  BY DEF Extents
<1>3. PICK s \in Runs(src) : h = [block |-> s[1] * w, count |-> (s[2] - s[1] + 1) * w]
  BY DEF Extents
<1> HIDE DEF w
<1>4. /\ r[1] \in Nat /\ r[2] \in Nat /\ r[1] <= r[2]
      /\ s[1] \in Nat /\ s[2] \in Nat /\ s[1] <= s[2]
      /\ r[1] < s[1] => r[2] < s[1]
      /\ r[1] = s[1] => r[2] = s[2]
  BY RunsApart
<1>5. /\ e.block = r[1] * w /\ e.count = (r[2] - r[1] + 1) * w /\ h.block = s[1] * w
      /\ AskAgain(e) = r[1] * w + (r[2] - r[1] + 1) * w
  BY <1>2, <1>3 DEF AskAgain
<1>6. e.block \in Nat /\ e.count \in Nat \ {0}
  <2>1. r[2] - r[1] + 1 \in Nat /\ r[2] - r[1] + 1 >= 1
    BY <1>4
  <2>2. (r[2] - r[1] + 1) * w >= 1 * w
    BY <1>1, <2>1, TimesMonotone
  <2>3. (r[2] - r[1] + 1) * w \in Nat
    BY <1>1, <2>1, TimesNatural
  <2>4. QED
    BY <1>1, <1>4, <1>5, <2>2, <2>3, TimesNatural
<1>7. e.block < h.block => AskAgain(e) <= h.block
  <2> SUFFICES ASSUME e.block < h.block PROVE AskAgain(e) <= h.block
    OBVIOUS
  <2>1. r[1] < s[1]
    BY <1>1, <1>4, <1>5, TimesCancel
  <2>2. r[2] + 1 <= s[1]
    BY <1>4, <2>1
  <2>3. (r[2] + 1) * w <= s[1] * w
    BY <1>1, <1>4, <2>2, TimesMonotone
  <2>4. r[1] * w + (r[2] - r[1] + 1) * w = (r[2] + 1) * w
    BY <1>1, <1>4
  <2>5. QED
    BY <1>5, <2>3, <2>4
<1>8. e.block = h.block => e = h
  <2> SUFFICES ASSUME e.block = h.block PROVE e = h
    OBVIOUS
  <2>0. r[1] * w = s[1] * w
    BY <1>5
  <2>1. ~(r[1] < s[1])
    <3> DEFINE n == r[1] * w
    <3>1. r[1] + 1 <= s[1] => (r[1] + 1) * w <= s[1] * w
      BY <1>1, <1>4, TimesMonotone
    <3>2. (r[1] + 1) * w = n + w
      BY <1>1, <1>4
    <3>3. n \in Nat
      BY <1>1, <1>4, TimesNatural
    <3>4. s[1] * w = n
      BY <1>5, <2>0
    <3> HIDE DEF n
    <3>5. ~(r[1] + 1 <= s[1])
      BY <1>1, <3>1, <3>2, <3>3, <3>4
    <3>6. QED
      BY <1>4, <3>5
  <2>2. ~(s[1] < r[1])
    <3> DEFINE n == s[1] * w
    <3>1. s[1] + 1 <= r[1] => (s[1] + 1) * w <= r[1] * w
      BY <1>1, <1>4, TimesMonotone
    <3>2. (s[1] + 1) * w = n + w
      BY <1>1, <1>4
    <3>3. n \in Nat
      BY <1>1, <1>4, TimesNatural
    <3>4. r[1] * w = n
      BY <1>5, <2>0
    <3> HIDE DEF n
    <3>5. ~(s[1] + 1 <= r[1])
      BY <1>1, <3>1, <3>2, <3>3, <3>4
    <3>6. QED
      BY <1>4, <3>5
  <2>3. r[1] = s[1] /\ r[2] = s[2]
    BY <1>4, <2>1, <2>2
  <2>4. QED
    BY <1>2, <1>3, <2>3
<1>9. QED
  BY <1>6, <1>7, <1>8

LEMMA ExtentsFinite ==
  ASSUME SourcesAssumption, src \in SourceFiles
  PROVE  IsFiniteSet(Extents(src))
<1>1. PICK m \in src.mapped \cup {0} : src.mapped \subseteq 0..m
  BY DEF SourcesAssumption
<1>2. IsFiniteSet(src.mapped)
  <2>1. IsFiniteSet(0..m)
    BY <1>1, FS_Interval
  <2>2. QED
    BY <1>1, <2>1, FS_Subset
<1>3. IsFiniteSet(src.mapped \X src.mapped)
  BY <1>2, FS_Product
<1>4. IsFiniteSet(Runs(src))
  <2>1. Runs(src) \subseteq src.mapped \X src.mapped
    BY DEF Runs
  <2>2. QED
    BY <1>3, <2>1, FS_Subset
<1> DEFINE w == src.fsblock \div BlockSize(src)
           g == [r \in Runs(src) |-> [block |-> r[1] * w, count |-> (r[2] - r[1] + 1) * w]]
<1>5. g \in Surjection(Runs(src), Extents(src))
  <2>1. g \in [Runs(src) -> Extents(src)]
    BY DEF Extents
  <2>2. \A e \in Extents(src) : \E r \in Runs(src) : g[r] = e
    BY DEF Extents
  <2> HIDE DEF g
  <2>3. QED
    BY <2>1, <2>2 DEF Surjection
<1> HIDE DEF g
<1>6. QED
  BY <1>4, <1>5, FS_Surjection

------------------------------------------------------------------------------
(* The invariant.                                                           *)

\* Byte q of the source is data, and in the piece that was asked for.
Data(q) == q \in Nat /\ q < src.size /\ IsData(src, q)
InPiece(q) == q >= call.skip /\ (call.length > 0 => q < call.skip + call.length)

\* Byte q is in the range of blocks, or in the extent.
Within(q, first, last) == first * BlockSize(src) <= q /\ q < (last + 1) * BlockSize(src)
Reaches(e, q) == Within(q, e.block, e.block + e.count - 1)

\* FIEMAP's generator has still to take extent e.
ToCome(e) == IF batch = {} THEN e.block >= pos ELSE \E h \in batch : h.block <= e.block

\* The file map has still to yield byte q.
Ahead(q) ==
    \/ prev # Nothing /\ Within(q, prev[1], prev[2])
    \/ /\ ~ended
       /\ Api = "seek" => pos <= q
       /\ Api = "fiemap" => \E e \in Extents(src) : Reaches(e, q) /\ ToCome(e)

\* Byte q is in the rest of the range that is being copied.
InCur(q) == cur # idle /\ cur.start + cur.read <= q /\ q < cur.start + cur.to_read

Copied(q) ==
    LET b == call.seek + q - call.skip
    IN  b < Len(dst) /\ dst[b + 1] = SourceByte(src, q)

Types ==
    /\ SourcesAssumption
    /\ src \in SourceFiles /\ call \in CopyCalls /\ call.skip <= src.size
    /\ pos \in Nat /\ batch \subseteq Extents(src) /\ ended \in BOOLEAN
    /\ prev = Nothing \/ (prev \in Nat \X Nat /\ prev[1] <= prev[2])
    /\ cur \in [start : Nat, to_read : Nat, read : Nat]
    /\ copied \in Nat /\ dst \in Seq(Int)
    /\ outcome \in {"open", "copy", "done", "RuntimeError"}
    /\ outcome = "open" =>
           /\ pos = 0 /\ batch = {} /\ prev = Nothing /\ ~ended /\ cur = idle
           /\ dst = IF call.old = 0 THEN Absent ELSE [i \in 1..call.old |-> Old]

\* Where FIEMAP's generator is: between two extents, with nothing left out of
\* what it holds.
MapSound ==
    /\ Api # "fiemap" => batch = {} /\ prev = Nothing
    /\ ended => batch = {} /\ prev = Nothing
    /\ Api = "fiemap" => pos = 0 \/ \E e \in Extents(src) : pos = AskAgain(e)
    /\ \A g, h \in batch : \A e \in Extents(src) :
           g.block <= e.block /\ e.block <= h.block => e \in batch
    /\ \A h \in batch : h.block >= pos /\ (prev # Nothing => prev[2] < h.block)
    /\ batch = {} /\ prev # Nothing => prev[2] < pos

CurSound == cur # idle =>
    /\ cur.read < cur.to_read /\ cur.start >= call.skip
    /\ copied = cur.start + cur.read - call.skip
    /\ call.length > 0 => copied < call.length
    /\ \A q \in 0..(src.size - 1) : Data(q) /\ Ahead(q) => q >= cur.start + cur.to_read

\* What the target holds outside the piece, at any moment.
TargetSound == outcome # "open" =>
    /\ call.old = 0 => \A i \in DOMAIN dst :
           dst[i] = 0 \/ (Asked(i - 1) /\ dst[i] = FromSource(i - 1))
    /\ call.old > 0 => /\ Len(dst) >= call.old
                       /\ \A b \in 0..(call.old - 1) : ~Asked(b) => dst[b + 1] = Old

\* No data byte of the piece is lost.
Arrived ==
    outcome \in {"copy", "done"} =>
        \A q \in 0..(src.size - 1) : Data(q) /\ InPiece(q) =>
            Copied(q) \/ (outcome = "copy" /\ (Ahead(q) \/ InCur(q)))

CopyInv == Types /\ MapSound /\ CurSound /\ TargetSound /\ Arrived

------------------------------------------------------------------------------
(* What the file maps find.                                                 *)

\* Every data byte lies in an extent, which begins before the file ends.
LEMMA ExtentOf ==
  ASSUME SourcesAssumption, src \in SourceFiles, NEW q \in Nat, Data(q)
  PROVE  \E e \in Extents(src) : Reaches(e, q) /\ e.block < BlocksCnt(src)
<1> DEFINE bs == BlockSize(src)
           w == src.fsblock \div bs
           k == q \div src.fsblock
<1>1. /\ bs \in Nat \ {0} /\ w \in Nat \ {0} /\ src.fsblock = w * bs
      /\ src.fsblock \in Nat \ {0} /\ src.size <= BlocksCnt(src) * bs
      /\ BlocksCnt(src) \in Nat /\ src.size \in Nat
  BY Blocks
<1>2. k \in src.mapped /\ k \in Nat /\ k * src.fsblock <= q /\ q < (k + 1) * src.fsblock
  BY <1>1, Quotient DEF Data, IsData
<1>3. PICK r \in Runs(src) : r[1] <= k /\ k <= r[2]
  BY <1>2, RunOf
<1>4. r[1] \in Nat /\ r[2] \in Nat
  BY RunsApart
<1> DEFINE e == [block |-> r[1] * w, count |-> (r[2] - r[1] + 1) * w]
<1>5. e \in Extents(src)
  BY DEF Extents
<1>6. e.block = r[1] * w /\ e.block + e.count - 1 + 1 = (r[2] + 1) * w
  <2> HIDE DEF w
  <2>1. e.block = r[1] * w /\ e.count = (r[2] - r[1] + 1) * w
    OBVIOUS
  <2> HIDE DEF e
  <2>2. r[1] * w + (r[2] - r[1] + 1) * w = (r[2] + 1) * w
    BY <1>1, <1>4
  <2>3. e.block \in Int /\ e.count \in Int
    BY <1>1, <1>4, <2>1
  <2>4. e.block + e.count - 1 + 1 = e.block + e.count
    BY <2>3
  <2>5. QED
    BY <2>1, <2>2, <2>4
<1> HIDE DEF e, w, k, bs
<1>7. /\ (r[1] * w) * bs = r[1] * src.fsblock
      /\ ((r[2] + 1) * w) * bs = (r[2] + 1) * src.fsblock
  BY <1>1, <1>4
<1>8. /\ r[1] * src.fsblock <= k * src.fsblock
      /\ (k + 1) * src.fsblock <= (r[2] + 1) * src.fsblock
  BY <1>1, <1>2, <1>3, <1>4, TimesMonotone
<1>9. e.block * bs <= q /\ q < (e.block + e.count - 1 + 1) * bs
  <2>1. /\ r[1] * src.fsblock \in Nat /\ k * src.fsblock \in Nat
        /\ (k + 1) * src.fsblock \in Nat /\ (r[2] + 1) * src.fsblock \in Nat
    BY <1>1, <1>2, <1>4, TimesNatural
  <2>2. QED
    BY <1>2, <1>6, <1>7, <1>8, <2>1
<1>10. e.block < BlocksCnt(src)
  <2>1. e.block \in Nat
    BY <1>5, ExtentsApart
  <2>2. e.block * bs \in Nat /\ BlocksCnt(src) * bs \in Nat
    BY <1>1, <2>1, TimesNatural
  <2>3. e.block * bs < BlocksCnt(src) * bs
    BY <1>1, <1>9, <2>2 DEF Data
  <2>4. QED
    BY <1>1, <2>1, <2>3, TimesCancel
<1>11. QED
  BY <1>5, <1>9, <1>10 DEF Reaches, Within, bs

\* A FIEMAP answer holds the first extents that reach into the blocks asked for,
\* and one at least if there is any.
LEMMA AnswerFirst ==
  ASSUME SourcesAssumption, src \in SourceFiles, pos \in Nat
  PROVE  /\ \A e \in Answer :
              e \in Extents(src) /\ AskAgain(e) > pos /\ e.block < pos + BlocksCnt(src)
         /\ \A e \in Extents(src) : e.block < pos + BlocksCnt(src) /\ AskAgain(e) > pos =>
              /\ \E g \in Answer : g.block <= e.block
              /\ \A g \in Answer : e.block <= g.block => e \in Answer
<1> DEFINE H == {e \in Extents(src) : e.block < pos + BlocksCnt(src)
                                      /\ e.block + e.count > pos}
           Before(e) == {h \in H : h.block < e.block}
<1>1. Answer = {e \in H : Cardinality(Before(e)) < ExtentCnt}
  BY DEF Answer, InvokeFiemap
<1>2. \A e \in H : e \in Extents(src) /\ e.block \in Nat
  BY ExtentsApart
<1>3. IsFiniteSet(H)
  <2>1. H \subseteq Extents(src)
    OBVIOUS
  <2> HIDE DEF H
  <2>2. QED
    BY <2>1, ExtentsFinite, FS_Subset
<1>4. ExtentCnt \in Nat \ {0}
  BY DEF SourcesAssumption
<1>5. ASSUME NEW e \in H PROVE \E g \in Answer : g.block <= e.block
  <2> DEFINE T == {h.block : h \in H}
  <2>1. T \subseteq Nat /\ e.block \in T
    BY <1>2
  <2>2. PICK n \in T : \A m \in T : n <= m
    <3> HIDE DEF T
    <3>1. QED
      BY <2>1, LeastMember
  <2>3. PICK g \in H : g.block = n
    BY <2>2
  <2>4. \A h \in H : g.block <= h.block
    BY <2>2, <2>3
  <2> HIDE DEF H
  <2>5. Before(g) = {}
    BY <1>2, <2>4
  <2>6. Cardinality(Before(g)) = 0
    BY <2>5, FS_EmptySet
  <2>7. QED
    BY <1>1, <1>4, <2>4, <2>6
<1>6. ASSUME NEW e \in H, NEW g \in Answer, e.block <= g.block PROVE e \in Answer
  <2>1. g \in H /\ Cardinality(Before(g)) < ExtentCnt
    BY <1>1
  <2> HIDE DEF H
  <2>2. Before(e) \subseteq Before(g)
    BY <1>2, <1>6, <2>1
  <2>3. IsFiniteSet(Before(g))
    <3>1. Before(g) \subseteq H
      OBVIOUS
    <3>2. QED
      BY <1>3, <3>1, FS_Subset
  <2> HIDE DEF Before
  <2>4. Cardinality(Before(e)) <= Cardinality(Before(g))
    BY <2>2, <2>3, FS_Subset
  <2>5. Cardinality(Before(e)) \in Nat /\ Cardinality(Before(g)) \in Nat
    BY <2>2, <2>3, FS_Subset, FS_CardinalityType
  <2>6. Cardinality(Before(e)) < ExtentCnt
    BY <1>4, <2>1, <2>4, <2>5
  <2>7. QED
    BY <1>1, <2>6
<1>7. \A e \in Extents(src) :
        AskAgain(e) > pos /\ e.block < pos + BlocksCnt(src) <=> e \in H
  BY DEF AskAgain
<1>8. QED
  BY <1>1, <1>5, <1>6, <1>7

\* The definitions about the source and the arguments do not change.
LEMMA Frame ==
  ASSUME UNCHANGED <<src, call>>, NEW q
  PROVE  /\ (Data(q)' <=> Data(q)) /\ (InPiece(q)' <=> InPiece(q))
         /\ (Asked(q)' <=> Asked(q)) /\ FromSource(q)' = FromSource(q)
         /\ Api' = Api /\ BlockSize(src)' = BlockSize(src) /\ BlocksCnt(src)' = BlocksCnt(src)
         /\ Extents(src)' = Extents(src)
BY DEF Data, InPiece, Asked, FromSource, Api

------------------------------------------------------------------------------
(* The head of the for loop.                                                *)

\* A range whose data is taken up, skipped because it lies before the piece, or
\* answered with the end because it lies behind the piece.
LEMMA VisitTakes ==
  ASSUME Types, outcome = "copy", cur = idle,
         NEW first \in Nat, NEW last \in Int, (first <= last) \/ (last = -1),
         Visit(first, last)
  PROVE  /\ cur' \in [start : Nat, to_read : Nat, read : Nat]
         /\ copied' \in Nat /\ outcome' \in {"copy", "done"}
         /\ outcome' = "done" =>
              /\ cur' = idle
              /\ \A q \in Nat : q >= first * BlockSize(src) => ~InPiece(q)
         /\ outcome' = "copy" =>
              \A q \in Nat : InPiece(q) /\ Within(q, first, last) => InCur(q)'
         /\ cur' # idle =>
              /\ cur'.read = 0 /\ cur'.to_read > 0 /\ cur'.start >= call.skip
              /\ cur'.start + cur'.to_read = (last + 1) * BlockSize(src)
              /\ copied' = cur'.start - call.skip
              /\ call.length > 0 => copied' < call.length
<1> DEFINE bs == BlockSize(src)
           begin == first * bs
           end == (last + 1) * bs
           start == IF begin < call.skip /\ call.skip < end THEN call.skip ELSE begin
           reached == call.length > 0 /\ start - call.skip >= call.length
<1>1. bs \in Nat \ {0} /\ call.skip \in Nat /\ call.length \in Nat
  BY Blocks DEF Types, SourcesAssumption
<1>2. /\ idle = [start |-> 0, to_read |-> 0, read |-> 0]
      /\ idle \in [start : Nat, to_read : Nat, read : Nat] /\ copied \in Nat
  BY DEF Types, idle
<1>3. IF call.skip >= end
      THEN cur' = idle /\ copied' = copied /\ outcome' = "copy"
      ELSE /\ copied' = start - call.skip
           /\ outcome' = IF reached THEN "done" ELSE "copy"
           /\ cur' = IF reached THEN idle
                     ELSE [start |-> start, to_read |-> end - start, read |-> 0]
  BY DEF Visit
<1> HIDE DEF bs
<1>4. begin \in Nat /\ end \in Nat
  BY <1>1, TimesNatural
<1>5. call.skip < end => begin < end
  <2>1. last = -1 => end = 0
    BY <1>1
  <2>2. first <= last => begin + bs <= end
    <3>1. first <= last => first * bs <= last * bs
      BY <1>1, TimesMonotone
    <3>2. end = last * bs + bs
      BY <1>1
    <3>3. last * bs \in Int
      BY <1>1
    <3>4. QED
      BY <1>1, <1>4, <3>1, <3>2, <3>3
  <2>3. QED
    BY <1>1, <1>4, <2>1, <2>2
<1>6. \A q : Within(q, first, last) <=> begin <= q /\ q < end
  BY DEF Within, bs
<1>7. \A q \in Nat : InCur(q)' <=>
        cur' # idle /\ cur'.start + cur'.read <= q /\ q < cur'.start + cur'.to_read
  BY DEF InCur, idle
<1>8. \A q : InPiece(q) <=> q >= call.skip /\ (call.length > 0 => q < call.skip + call.length)
  BY DEF InPiece
<1> HIDE DEF begin, end
<1>9. CASE call.skip >= end
  BY <1>1, <1>2, <1>3, <1>4, <1>6, <1>8, <1>9
<1>10. CASE call.skip < end
  <2>1. start \in Nat /\ start >= call.skip /\ start < end /\ (start = call.skip \/ start = begin)
    BY <1>1, <1>4, <1>5, <1>10
  <2>2. start >= begin
    BY <1>1, <1>4, <1>5, <1>10
  <2>3. /\ copied' = start - call.skip
        /\ outcome' = IF reached THEN "done" ELSE "copy"
        /\ cur' = IF reached THEN idle
                  ELSE [start |-> start, to_read |-> end - start, read |-> 0]
    BY <1>1, <1>3, <1>4, <1>10
  <2>4. CASE reached
    <3>1. cur' = idle /\ outcome' = "done" /\ copied' \in Nat
      BY <1>1, <2>1, <2>3, <2>4
    <3>2. start = begin
      BY <1>1, <2>1, <2>4
    <3>3. \A q \in Nat : q >= begin => ~InPiece(q)
      BY <1>1, <1>4, <1>8, <2>4, <3>2
    <3>4. QED
      BY <1>2, <3>1, <3>3 DEF begin, bs
  <2>5. CASE ~reached
    <3> HIDE DEF start
    <3>1. /\ outcome' = "copy" /\ copied' = start - call.skip
          /\ cur' = [start |-> start, to_read |-> end - start, read |-> 0]
      BY <2>3, <2>5
    <3>2. cur'.start = start /\ cur'.to_read = end - start /\ cur'.read = 0
      BY <3>1
    <3>3. end - start \in Nat /\ end - start > 0
      BY <1>4, <2>1
    <3>4. cur' \in [start : Nat, to_read : Nat, read : Nat] /\ cur' # idle
      BY <1>2, <2>1, <3>1, <3>3
    <3>5. start + (end - start) = end
      BY <1>4, <2>1
    <3>6. \A q \in Nat : InPiece(q) /\ Within(q, first, last) => InCur(q)'
      <4> SUFFICES ASSUME NEW q \in Nat, InPiece(q), begin <= q, q < end
                   PROVE  start <= q
        BY <1>6, <1>7, <2>1, <3>2, <3>4, <3>5
      <4>1. QED
        BY <1>1, <1>4, <1>8, <2>1
    <3>7. copied' \in Nat /\ (call.length > 0 => copied' < call.length)
      BY <1>1, <2>1, <2>5, <3>1
    <3>8. QED
      BY <2>1, <3>1, <3>2, <3>3, <3>4, <3>5, <3>6, <3>7 DEF end, bs
  <2>6. QED
    BY <2>4, <2>5
<1>11. QED
  BY <1>1, <1>4, <1>9, <1>10

\* A step of the generator that yields a range: what was ahead is in the range,
\* or still ahead, behind the range.
LEMMA Yields ==
  ASSUME CopyInv, outcome = "copy", cur = idle, UNCHANGED <<src, call, dst>>,
         NEW first \in Nat, NEW last \in Int, (first <= last) \/ (last = -1),
         Visit(first, last),
         \A q \in Nat : Data(q) /\ Ahead(q) =>
             /\ q >= first * BlockSize(src)
             /\ Ahead(q)' \/ Within(q, first, last),
         \A q \in Nat : Data(q) /\ Ahead(q)' => q >= (last + 1) * BlockSize(src)
  PROVE  /\ cur' \in [start : Nat, to_read : Nat, read : Nat]
         /\ copied' \in Nat /\ outcome' \in {"copy", "done"}
         /\ CurSound' /\ TargetSound' /\ Arrived'
<1>1. Types /\ TargetSound /\ Arrived
  BY DEF CopyInv
<1>2. /\ cur' \in [start : Nat, to_read : Nat, read : Nat]
      /\ copied' \in Nat /\ outcome' \in {"copy", "done"}
  BY <1>1, VisitTakes
<1>3. outcome' = "done" => \A q \in Nat : q >= first * BlockSize(src) => ~InPiece(q)
  BY <1>1, VisitTakes
<1>4. outcome' = "copy" => \A q \in Nat : InPiece(q) /\ Within(q, first, last) => InCur(q)'
  BY <1>1, VisitTakes
<1>5. cur' # idle =>
              /\ cur'.read = 0 /\ cur'.to_read > 0 /\ cur'.start >= call.skip
              /\ cur'.start + cur'.to_read = (last + 1) * BlockSize(src)
              /\ copied' = cur'.start - call.skip
              /\ call.length > 0 => copied' < call.length
  BY <1>1, VisitTakes
<1>6. \A q : (Data(q)' <=> Data(q)) /\ (InPiece(q)' <=> InPiece(q))
  BY Frame
<1>7. src.size \in Nat /\ call.skip \in Nat
  BY <1>1 DEF Types, SourcesAssumption
<1>8. CurSound'
  <2> SUFFICES ASSUME cur' # idle
               PROVE  /\ cur'.read < cur'.to_read /\ cur'.start >= call.skip
                      /\ copied' = cur'.start + cur'.read - call.skip
                      /\ call.length > 0 => copied' < call.length
                      /\ \A q \in 0..(src.size - 1) : Data(q)' /\ Ahead(q)' =>
                           q >= cur'.start + cur'.to_read
    BY DEF CurSound, idle
  <2>1. cur'.start \in Nat
    BY <1>2
  <2>2. QED
    BY <1>5, <1>6, <1>7, <2>1
<1>9. TargetSound'
  <2>1. \A q : (Asked(q)' <=> Asked(q)) /\ FromSource(q)' = FromSource(q)
    BY Frame
  <2>2. QED
    BY <1>1, <2>1 DEF TargetSound
<1>10. Arrived'
  <2> SUFFICES ASSUME NEW q \in 0..(src.size - 1), Data(q), InPiece(q)
               PROVE  Copied(q)' \/ (outcome' = "copy" /\ (Ahead(q)' \/ InCur(q)'))
    BY <1>6 DEF Arrived
  <2>1. q \in Nat
    BY <1>7
  <2>2. Copied(q) \/ Ahead(q)
    BY <1>1 DEF Arrived, InCur
  <2>3. CASE Copied(q)
    BY <2>3 DEF Copied
  <2>4. CASE Ahead(q)
    BY <1>2, <1>3, <1>4, <2>1, <2>4
  <2>5. QED
    BY <2>2, <2>3, <2>4
<1>11. QED
  BY <1>2, <1>8, <1>9, <1>10

\* A step of the generator that yields nothing.
LEMMA Quiet ==
  ASSUME CopyInv, outcome = "copy", cur = idle, UNCHANGED <<src, call, copyVars>>,
         \A q \in Nat : Data(q) /\ Ahead(q) => Ahead(q)'
  PROVE  CurSound' /\ TargetSound' /\ Arrived'
<1>1. Types /\ TargetSound /\ Arrived
  BY DEF CopyInv
<1>2. \A q : /\ (Data(q)' <=> Data(q)) /\ (InPiece(q)' <=> InPiece(q))
             /\ (Asked(q)' <=> Asked(q)) /\ FromSource(q)' = FromSource(q)
  BY Frame
<1>3. CurSound'
  BY DEF CurSound, copyVars, idle
<1>4. TargetSound'
  BY <1>1, <1>2 DEF TargetSound, copyVars
<1>5. Arrived'
  <2> SUFFICES ASSUME NEW q \in 0..(src.size - 1), Data(q), InPiece(q)
               PROVE  Copied(q)' \/ (outcome' = "copy" /\ (Ahead(q)' \/ InCur(q)'))
    BY <1>2 DEF Arrived
  <2>1. q \in Nat
    BY <1>1 DEF Data
  <2>2. Copied(q) \/ Ahead(q)
    BY <1>1 DEF Arrived, InCur
  <2>3. Copied(q) => Copied(q)'
    BY DEF Copied, copyVars
  <2>4. QED
    BY <2>1, <2>2, <2>3 DEF copyVars
<1>6. QED
  BY <1>3, <1>4, <1>5

------------------------------------------------------------------------------
(* The whole file as one range, and SEEK_DATA and SEEK_HOLE.                *)

LEMMA NobmapStep ==
  ASSUME CopyInv, NobmapRange
  PROVE  CopyInv'
<1> DEFINE bs == BlockSize(src)
           n == BlocksCnt(src)
<1>1. Types /\ MapSound
  BY DEF CopyInv
<1>2. /\ outcome = "copy" /\ cur = idle /\ Api = "nobmap" /\ ~ended
      /\ Visit(0, n - 1) /\ ended' = TRUE
      /\ UNCHANGED <<src, call, pos, batch, prev, dst>>
  BY DEF NobmapRange, Wanted
<1>3. /\ SourcesAssumption /\ src \in SourceFiles /\ bs \in Nat \ {0} /\ n \in Nat
      /\ src.size <= n * bs /\ src.size \in Nat
  BY <1>1, Blocks DEF Types
<1>4. prev = Nothing /\ batch = {}
  BY <1>1, <1>2 DEF MapSound
<1>5. \A q : ~Ahead(q)'
  BY <1>2, <1>4 DEF Ahead
<1>6. \A q \in Nat : Data(q) => q >= 0 * bs /\ Within(q, 0, n - 1)
  <2> HIDE DEF bs, n
  <2>1. 0 * bs = 0 /\ n - 1 + 1 = n /\ n * bs \in Nat
    BY <1>3, TimesNatural
  <2>2. \A q : Within(q, 0, n - 1) <=> 0 * bs <= q /\ q < (n - 1 + 1) * bs
    BY DEF Within, bs
  <2>3. QED
    BY <1>3, <2>1, <2>2 DEF Data
<1>7. n - 1 \in Int /\ (0 <= n - 1 \/ n - 1 = -1)
  BY <1>3
<1>8. /\ cur' \in [start : Nat, to_read : Nat, read : Nat]
      /\ copied' \in Nat /\ outcome' \in {"copy", "done"}
      /\ CurSound' /\ TargetSound' /\ Arrived'
  <2> HIDE DEF n
  <2>1. QED
    BY <1>2, <1>5, <1>6, <1>7, Yields
<1>9. Types'
  BY <1>1, <1>2, <1>4, <1>8 DEF Types
<1>10. MapSound'
  <2>1. Api' = Api
    BY <1>2, Frame
  <2>2. QED
    BY <1>2, <1>4, <2>1 DEF MapSound
<1>11. QED
  BY <1>8, <1>9, <1>10 DEF CopyInv

\* Data found: the least data byte from "at" on.
LEMMA SeekDataIs ==
  ASSUME Types
  PROVE  /\ (DataAhead = -1 /\ \A q \in Nat : Data(q) => q < pos)
            \/ (/\ DataAhead \in Nat /\ Data(DataAhead) /\ DataAhead >= pos
                /\ \A q \in Nat : Data(q) /\ q >= pos => q >= DataAhead)
<1> DEFINE T == {b \in pos..(src.size - 1) : IsData(src, b)}
<1>1. pos \in Nat /\ src.size \in Nat
  BY DEF Types, SourcesAssumption
<1>2. T \subseteq Nat /\ \A q \in Nat : (q \in T <=> q >= pos /\ Data(q))
  BY <1>1 DEF Data
<1>3. DataAhead = IF T = {} THEN -1 ELSE Min(T)
  BY DEF DataAhead, SeekData
<1> HIDE DEF T
<1>4. CASE T = {}
  BY <1>1, <1>2, <1>3, <1>4 DEF Data
<1>5. CASE T # {}
  <2>1. Min(T) \in T /\ Min(T) \in Nat /\ \A m \in T : Min(T) <= m
    BY <1>2, <1>5, MinOf
  <2>2. QED
    BY <1>2, <1>3, <1>5, <2>1
<1>6. QED
  BY <1>4, <1>5

\* A byte where the data ends begins a block of the host.
LEMMA EndsOnBlock ==
  ASSUME SourcesAssumption, src \in SourceFiles, NEW h \in Nat, h > 0,
         IsData(src, h - 1), ~IsData(src, h)
  PROVE  \E c \in Nat : h = c * BlockSize(src)
<1> DEFINE fs == src.fsblock
           bs == BlockSize(src)
           w == fs \div bs
           k == h \div fs
<1>1. fs \in Nat \ {0} /\ bs \in Nat \ {0} /\ w \in Nat \ {0} /\ fs = w * bs
  BY Blocks
<1>2. k \in Nat /\ k * fs <= h /\ h < (k + 1) * fs
  BY <1>1, Quotient
<1>3. (h - 1) \div fs # h \div fs
  BY DEF IsData
<1> HIDE DEF fs, bs, w
<1>4. h = k * fs
  <2> SUFFICES ASSUME h # k * fs PROVE FALSE
    OBVIOUS
  <2> HIDE DEF k
  <2>1. k * fs \in Nat /\ (k + 1) * fs \in Nat
    BY <1>1, <1>2, TimesNatural
  <2>2. h - 1 \in Nat /\ k * fs <= h - 1 /\ h - 1 < (k + 1) * fs
    BY <1>2, <2>1
  <2>3. (h - 1) \div fs = k
    BY <1>1, <1>2, <2>2, QuotientIs
  <2>4. QED
    BY <1>3, <2>3 DEF k
<1> HIDE DEF k
<1>5. h = (k * w) * bs
  BY <1>1, <1>2, <1>4
<1>6. k * w \in Nat
  BY <1>1, <1>2, TimesNatural
<1>7. QED
  BY <1>5, <1>6 DEF bs

\* The range that SEEK_HOLE closes: whole blocks, and the data is in it.
LEMMA HoleAheadIs ==
  ASSUME Types, ~SeekEnds
  PROVE  \E c \in Nat : /\ HoleAhead = c * BlockSize(src)
                        /\ DataAhead < HoleAhead
<1> DEFINE bs == BlockSize(src)
           n == BlocksCnt(src)
           d == DataAhead
           T == {b \in d..(src.size - 1) : ~IsData(src, b)} \cup {src.size}
           hole == SeekHole(src, d)
<1>1. /\ SourcesAssumption /\ src \in SourceFiles /\ bs \in Nat \ {0} /\ n \in Nat
      /\ src.size \in Nat
  BY Blocks DEF Types
<1>2. d \in Nat /\ Data(d)
  BY SeekDataIs DEF SeekEnds
<1>3. Limit = n * bs /\ Limit \in Nat
  BY <1>1, TimesNatural DEF Limit
<1>4. d < Limit /\ d < src.size
  BY <1>1, <1>2, <1>3 DEF SeekEnds, Data
<1>5. hole = Min(T)
  BY <1>1, <1>2, <1>4 DEF SeekHole
<1>6. T \subseteq Nat /\ T # {}
  BY <1>1, <1>2
<1>7. hole \in T /\ hole \in Nat /\ \A m \in T : hole <= m
  <2> HIDE DEF T, hole
  <2>1. QED
    BY <1>5, <1>6, MinOf
<1> HIDE DEF bs, n, d, hole
<1>8. HoleAhead = Min({IF hole \in {-1, src.size} THEN Limit ELSE hole, Limit})
  BY DEF HoleAhead, hole, d
<1>9. CASE hole = src.size
  <2>1. HoleAhead = Limit
    BY <1>3, <1>8, <1>9, MinPair
  <2>2. QED
    BY <1>1, <1>3, <1>4, <2>1 DEF bs, n, d
<1>10. CASE hole # src.size
  <2>1. hole \in d..(src.size - 1) /\ ~IsData(src, hole)
    BY <1>7, <1>10
  <2>2. IsData(src, d)
    BY <1>2 DEF Data
  <2>3. hole > d
    BY <1>2, <1>7, <2>1, <2>2
  <2>4. IsData(src, hole - 1)
    <3> SUFFICES ASSUME ~IsData(src, hole - 1) PROVE FALSE
      OBVIOUS
    <3>1. hole - 1 \in T
      BY <1>1, <1>2, <1>7, <2>1, <2>3
    <3>2. QED
      BY <1>7, <3>1
  <2>5. PICK c \in Nat : hole = c * bs
    <3>1. hole > 0
      BY <1>2, <1>7, <2>3
    <3>2. QED
      BY <1>1, <1>7, <2>1, <2>4, <3>1, EndsOnBlock DEF bs
  <2>6. HoleAhead = IF hole <= Limit THEN hole ELSE Limit
    BY <1>3, <1>7, <1>8, <1>10, MinPair
  <2>7. QED
    BY <1>1, <1>2, <1>3, <1>4, <2>3, <2>5, <2>6 DEF bs, n, d
<1>11. QED
  BY <1>9, <1>10

LEMMA SeekStep ==
  ASSUME CopyInv, SeekRange
  PROVE  CopyInv'
<1> DEFINE bs == BlockSize(src)
           d == DataAhead
           first == d \div bs
<1>1. Types /\ MapSound
  BY DEF CopyInv
<1>2. /\ outcome = "copy" /\ cur = idle /\ Api = "seek" /\ ~ended /\ ~SeekEnds
      /\ Visit(first, HoleAhead \div bs - 1) /\ pos' = HoleAhead
      /\ UNCHANGED <<src, call, batch, prev, ended, dst>>
  BY DEF SeekRange, Wanted
<1>3. /\ SourcesAssumption /\ src \in SourceFiles /\ bs \in Nat \ {0}
  BY <1>1, Blocks DEF Types
<1>4. prev = Nothing /\ batch = {}
  BY <1>1, <1>2 DEF MapSound
<1>5. PICK c \in Nat : HoleAhead = c * bs /\ d < HoleAhead
  BY <1>1, <1>2, HoleAheadIs
<1>6. d \in Nat /\ \A q \in Nat : Data(q) /\ q >= pos => q >= d
  BY <1>1, <1>2, SeekDataIs DEF SeekEnds
<1> HIDE DEF bs, d
<1>7. first \in Nat /\ first * bs <= d
  BY <1>3, <1>6, Quotient
<1>8. HoleAhead \div bs = c /\ HoleAhead \in Nat
  <2>1. c * bs \in Nat /\ (c + 1) * bs = c * bs + bs
    BY <1>3, <1>5, TimesNatural
  <2>2. c * bs < (c + 1) * bs
    BY <1>3, <2>1
  <2>3. QED
    BY <1>3, <1>5, <2>1, <2>2, QuotientIs
<1>9. first < c
  <2> HIDE DEF first
  <2>1. first * bs < c * bs
    BY <1>3, <1>5, <1>6, <1>7, <1>8, TimesNatural
  <2>2. QED
    BY <1>3, <1>7, <2>1, TimesCancel
<1> HIDE DEF first
<1>10. \A q : Within(q, first, c - 1) <=> first * bs <= q /\ q < HoleAhead
  <2>1. c - 1 + 1 = c
    OBVIOUS
  <2>2. QED
    BY <1>5, <2>1 DEF Within, bs
<1>11. \A q : (Ahead(q) <=> pos <= q) /\ (Ahead(q)' <=> HoleAhead <= q)
  <2>1. Api' = Api
    BY <1>2, Frame
  <2>2. QED
    BY <1>2, <1>4, <2>1 DEF Ahead
<1>12. \A q \in Nat : Data(q) /\ Ahead(q) =>
           q >= first * bs /\ (Ahead(q)' \/ Within(q, first, c - 1))
  <2>1. first * bs \in Nat /\ pos \in Nat
    BY <1>1, <1>3, <1>7, TimesNatural DEF Types
  <2>2. \A q \in Nat : Data(q) /\ Ahead(q) => q >= first * bs
    BY <1>6, <1>7, <1>11, <2>1
  <2>3. QED
    BY <1>8, <1>10, <1>11, <2>1, <2>2
<1>13. \A q \in Nat : Data(q) /\ Ahead(q)' => q >= (c - 1 + 1) * bs
  <2>1. c - 1 + 1 = c
    OBVIOUS
  <2>2. QED
    BY <1>5, <1>8, <1>11, <2>1
<1>14. /\ cur' \in [start : Nat, to_read : Nat, read : Nat]
       /\ copied' \in Nat /\ outcome' \in {"copy", "done"}
       /\ CurSound' /\ TargetSound' /\ Arrived'
  <2>1. c - 1 \in Int /\ first <= c - 1
    BY <1>7, <1>9
  <2>2. Visit(first, c - 1)
    BY <1>2, <1>8 
  <2>3. QED
    BY <1>2, <1>7, <1>12, <1>13, <2>1, <2>2, Yields DEF bs
<1>15. Types'
  BY <1>1, <1>2, <1>4, <1>8, <1>14 DEF Types
<1>16. MapSound'
  <2>1. Api' = Api
    BY <1>2, Frame
  <2>2. QED
    BY <1>2, <1>4, <2>1 DEF MapSound
<1>17. QED
  BY <1>14, <1>15, <1>16 DEF CopyInv

LEMMA SeekEndStep ==
  ASSUME CopyInv, SeekEnd
  PROVE  CopyInv'
<1>1. Types /\ MapSound
  BY DEF CopyInv
<1>2. /\ outcome = "copy" /\ cur = idle /\ Api = "seek" /\ ~ended /\ SeekEnds
      /\ ended' = TRUE /\ UNCHANGED <<src, call, pos, batch, prev, copyVars>>
  BY DEF SeekEnd, Wanted
<1>3. prev = Nothing /\ batch = {}
  BY <1>1, <1>2 DEF MapSound
<1>4. \A q \in Nat : Data(q) => q < pos
  <2>1. /\ src.size \in Nat /\ src.size <= Limit
    BY <1>1, Blocks DEF Types, Limit
  <2>2. Limit \in Nat
    BY <1>1, Blocks, TimesNatural DEF Types, Limit
  <2>3. ~(DataAhead \in Nat /\ Data(DataAhead))
    BY <1>2, <2>1, <2>2 DEF SeekEnds, Data
  <2>4. QED
    BY <1>1, <2>3, SeekDataIs
<1>5. \A q \in Nat : Data(q) => ~Ahead(q)
  BY <1>1, <1>2, <1>3, <1>4 DEF Ahead, Types
<1>6. CurSound' /\ TargetSound' /\ Arrived'
  BY <1>2, <1>5, Quiet
<1>7. Types'
  BY <1>1, <1>2, <1>3 DEF Types, copyVars
<1>8. MapSound'
  <2>1. Api' = Api
    BY <1>2, Frame
  <2>2. QED
    BY <1>2, <1>3, <2>1 DEF MapSound
<1>9. QED
  BY <1>6, <1>7, <1>8 DEF CopyInv

------------------------------------------------------------------------------
(* FIEMAP.                                                                  *)

\* An extent that a data byte lies in begins inside the file.
LEMMA DataExtent ==
  ASSUME SourcesAssumption, src \in SourceFiles, NEW q \in Nat, Data(q),
         NEW x \in Extents(src), Reaches(x, q)
  PROVE  x.block < BlocksCnt(src) /\ x.block * BlockSize(src) <= q
<1> DEFINE bs == BlockSize(src)
           n == BlocksCnt(src)
<1>1. /\ bs \in Nat \ {0} /\ n \in Nat /\ src.size <= n * bs /\ src.size \in Nat
      /\ x.block \in Nat
  BY Blocks, ExtentsApart
<1>2. x.block * bs <= q /\ q < src.size
  BY DEF Reaches, Within, Data
<1> HIDE DEF bs, n
<1>3. x.block * bs \in Nat /\ n * bs \in Nat
  BY <1>1, TimesNatural
<1>4. x.block * bs < n * bs
  BY <1>1, <1>2, <1>3
<1>5. x.block < n
  BY <1>1, <1>4, TimesCancel
<1>6. QED
  BY <1>2, <1>5 DEF bs, n

\* No extent that is asked for begins before "at", and none is cut by it.
LEMMA AnswerBehind ==
  ASSUME Types, pos = 0 \/ \E e \in Extents(src) : pos = AskAgain(e),
         NEW h \in Extents(src), AskAgain(h) > pos
  PROVE  h.block >= pos
<1>1. SourcesAssumption /\ src \in SourceFiles /\ pos \in Nat
  BY DEF Types
<1>2. h.block \in Nat /\ h.count \in Nat \ {0}
  BY <1>1, ExtentsApart
<1>3. CASE pos = 0
  BY <1>2, <1>3
<1>4. CASE \E e \in Extents(src) : pos = AskAgain(e)
  <2>1. PICK x \in Extents(src) : pos = AskAgain(x)
    BY <1>4
  <2>2. /\ x.block \in Nat /\ x.count \in Nat \ {0}
        /\ x.block < h.block => AskAgain(x) <= h.block
        /\ x.block = h.block => x = h
        /\ h.block < x.block => AskAgain(h) <= x.block
    BY <1>1, ExtentsApart
  <2>3. AskAgain(x) > x.block /\ AskAgain(x) \in Nat /\ AskAgain(h) \in Nat
    BY <1>2, <2>2 DEF AskAgain
  <2>4. QED
    BY <1>1, <1>2, <2>1, <2>2, <2>3
<1>5. QED
  BY <1>3, <1>4

LEMMA AskStep ==
  ASSUME CopyInv, AskFiemap
  PROVE  CopyInv'
<1> DEFINE n == BlocksCnt(src)
<1>1. Types /\ MapSound
  BY DEF CopyInv
<1>2. /\ outcome = "copy" /\ cur = idle /\ Api = "fiemap" /\ ~ended
      /\ batch = {} /\ pos < n /\ Answer # {} /\ batch' = Answer
      /\ UNCHANGED <<src, call, pos, prev, ended, copyVars>>
  BY DEF AskFiemap, Wanted
<1>3. SourcesAssumption /\ src \in SourceFiles /\ pos \in Nat /\ n \in Nat
  BY <1>1, Blocks DEF Types
<1>4. \A e \in Answer : e \in Extents(src) /\ AskAgain(e) > pos /\ e.block < pos + n
  BY <1>3, AnswerFirst
<1>5. \A e \in Extents(src) : e.block < pos + n /\ AskAgain(e) > pos =>
              /\ \E g \in Answer : g.block <= e.block
              /\ \A g \in Answer : e.block <= g.block => e \in Answer
  BY <1>3, AnswerFirst
<1>6. pos = 0 \/ \E e \in Extents(src) : pos = AskAgain(e)
  BY <1>1, <1>2 DEF MapSound
<1>7. \A h \in Answer : h.block >= pos
  BY <1>1, <1>4, <1>6, AnswerBehind
<1>8. \A e \in Extents(src) : e.block \in Nat /\ e.count \in Nat \ {0}
  BY <1>3, ExtentsApart
<1>9. Api' = Api /\ Extents(src)' = Extents(src) /\ \A q : Data(q)' <=> Data(q)
  BY <1>2, Frame
<1>10. ASSUME NEW q \in Nat, Data(q), Ahead(q) PROVE Ahead(q)'
  <2>1. CASE prev # Nothing /\ Within(q, prev[1], prev[2])
    BY <1>2, <2>1 DEF Ahead, Within
  <2>2. CASE \E e \in Extents(src) : Reaches(e, q) /\ ToCome(e)
    <3>1. PICK e \in Extents(src) : Reaches(e, q) /\ ToCome(e)
      BY <2>2
    <3>2. e.block >= pos
      BY <1>2, <3>1 DEF ToCome
    <3>3. e.block < n
      BY <1>3, <1>10, <3>1, DataExtent
    <3>4. AskAgain(e) > pos /\ e.block < pos + n
      BY <1>3, <1>8, <3>1, <3>2, <3>3 DEF AskAgain
    <3>5. \E g \in Answer : g.block <= e.block
      BY <1>5, <3>1, <3>4
    <3>6. ToCome(e)'
      BY <1>2, <3>5 DEF ToCome
    <3>7. Reaches(e, q)'
      BY <1>2, <3>1 DEF Reaches, Within
    <3>8. QED
      BY <1>2, <1>9, <3>6, <3>7 DEF Ahead
  <2>3. QED
    BY <1>2, <1>10, <2>1, <2>2 DEF Ahead
<1>11. CurSound' /\ TargetSound' /\ Arrived'
  BY <1>2, <1>10, Quiet
<1>12. Types'
  BY <1>1, <1>2, <1>4, <1>9 DEF Types, copyVars
<1>13. MapSound'
  <2>1. \A g, h \in Answer : \A e \in Extents(src) :
           g.block <= e.block /\ e.block <= h.block => e \in Answer
    <3> SUFFICES ASSUME NEW g \in Answer, NEW h \in Answer, NEW e \in Extents(src),
                        g.block <= e.block, e.block <= h.block
                 PROVE  e \in Answer
      OBVIOUS
    <3>1. g \in Extents(src) /\ h \in Extents(src) /\ AskAgain(g) > pos /\ h.block < pos + n
      BY <1>4
    <3>2. g.block < e.block => AskAgain(g) <= e.block
      BY <1>3, <3>1, ExtentsApart
    <3>3. e.block < pos + n
      BY <1>3, <1>8, <3>1
    <3>4. e.block >= pos
      BY <1>3, <1>7, <1>8, <3>1
    <3>5. AskAgain(e) > pos
      BY <1>3, <1>8, <3>4 DEF AskAgain
    <3>6. QED
      BY <1>5, <3>3, <3>5
  <2>2. \A h \in Answer : h.block >= pos /\ (prev # Nothing => prev[2] < h.block)
    <3> SUFFICES ASSUME NEW h \in Answer, prev # Nothing PROVE prev[2] < h.block
      BY <1>7
    <3>1. prev[2] \in Nat /\ prev[2] < pos
      BY <1>1, <1>2 DEF Types, MapSound
    <3>2. h.block \in Nat /\ h.block >= pos
      BY <1>4, <1>7, <1>8
    <3>3. QED
      BY <1>3, <3>1, <3>2
  <2>3. /\ (Api # "fiemap" => batch = {} /\ prev = Nothing)'
        /\ (ended => batch = {} /\ prev = Nothing)'
    BY <1>2, <1>9
  <2>4. (Api = "fiemap" => pos = 0 \/ \E e \in Extents(src) : pos = AskAgain(e))'
    BY <1>2, <1>6, <1>9 DEF AskAgain
  <2>5. (batch = {} /\ prev # Nothing => prev[2] < pos)'
    BY <1>2
  <2>6. (\A g, h \in batch : \A e \in Extents(src) :
             g.block <= e.block /\ e.block <= h.block => e \in batch)'
    BY <1>2, <1>9, <2>1
  <2>7. (\A h \in batch : h.block >= pos /\ (prev # Nothing => prev[2] < h.block))'
    BY <1>2, <2>2
  <2>8. QED
    BY <2>3, <2>4, <2>5, <2>6, <2>7 DEF MapSound
<1>14. QED
  BY <1>11, <1>12, <1>13 DEF CopyInv

LEMMA FiemapEndStep ==
  ASSUME CopyInv, FiemapEnd
  PROVE  CopyInv'
<1> DEFINE n == BlocksCnt(src)
<1>1. Types /\ MapSound
  BY DEF CopyInv
<1>2. /\ outcome = "copy" /\ cur = idle /\ Api = "fiemap" /\ ~ended
      /\ IF batch = {} THEN pos >= n \/ Answer = {} ELSE \A e \in batch : e.block >= n
      /\ ended' = TRUE /\ batch' = {} /\ prev' = Nothing
      /\ UNCHANGED <<src, call, pos, dst>>
  BY DEF FiemapEnd, FiemapReturns, Wanted
<1>3. IF prev = Nothing
      THEN outcome' = "RuntimeError" /\ UNCHANGED <<cur, copied>>
      ELSE Visit(prev[1], prev[2])
  BY DEF FiemapEnd, FiemapReturns
<1>4. /\ SourcesAssumption /\ src \in SourceFiles /\ pos \in Nat /\ n \in Nat
      /\ BlockSize(src) \in Nat \ {0}
      /\ prev # Nothing => prev[1] \in Nat /\ prev[2] \in Nat /\ prev[1] <= prev[2]
  BY <1>1, Blocks DEF Types
<1>5. Api' = Api /\ Extents(src)' = Extents(src)
  BY <1>2, Frame
<1>6. ASSUME NEW q \in Nat, Data(q), Ahead(q)
      PROVE  prev # Nothing /\ Within(q, prev[1], prev[2])
  <2> SUFFICES ASSUME NEW x \in Extents(src), Reaches(x, q), ToCome(x) PROVE FALSE
    BY <1>2, <1>6 DEF Ahead
  <2>1. x.block < n /\ x.block \in Nat /\ x.count \in Nat \ {0}
    BY <1>4, <1>6, DataExtent, ExtentsApart
  <2>2. CASE batch = {}
    <3>1. x.block >= pos
      BY <2>2 DEF ToCome
    <3>2. AskAgain(x) > pos /\ x.block < pos + n
      BY <1>4, <2>1, <3>1 DEF AskAgain
    <3>3. \E g \in Answer : g.block <= x.block
      BY <1>4, <3>2, AnswerFirst
    <3>4. pos >= n
      BY <1>2, <2>2, <3>3
    <3>5. QED
      BY <1>4, <2>1, <3>1, <3>4
  <2>3. CASE batch # {}
    <3>1. PICK h \in batch : h.block <= x.block
      BY <2>3 DEF ToCome
    <3>2. h.block >= n /\ h.block \in Nat
      BY <1>1, <1>2, <1>4, <2>3, ExtentsApart DEF Types
    <3>3. QED
      BY <1>4, <2>1, <3>1, <3>2
  <2>4. QED
    BY <2>2, <2>3
<1>7. \A q : ~Ahead(q)'
  BY <1>2 DEF Ahead
<1>8. MapSound'
  <2>1. (Api = "fiemap" => pos = 0 \/ \E e \in Extents(src) : pos = AskAgain(e))'
    BY <1>1, <1>2, <1>5 DEF MapSound, AskAgain
  <2>2. QED
    BY <1>2, <2>1 DEF MapSound
<1>9. CASE prev = Nothing
  <2>1. outcome' = "RuntimeError" /\ UNCHANGED <<cur, copied>>
    BY <1>3, <1>9
  <2>2. Types'
    BY <1>1, <1>2, <2>1 DEF Types
  <2>3. CurSound' /\ Arrived'
    BY <1>2, <2>1 DEF CurSound, Arrived, idle
  <2>4. TargetSound'
    <3>1. \A q : (Asked(q)' <=> Asked(q)) /\ FromSource(q)' = FromSource(q)
      BY <1>2, Frame
    <3>2. QED
      BY <1>2, <3>1 DEF CopyInv, TargetSound
  <2>5. QED
    BY <1>8, <2>2, <2>3, <2>4 DEF CopyInv
<1>10. CASE prev # Nothing
  <2> DEFINE first == prev[1]
             last == prev[2]
  <2>1. Visit(first, last) /\ first \in Nat /\ last \in Nat /\ first <= last
    BY <1>3, <1>4, <1>10
  <2>2. \A q \in Nat : Data(q) /\ Ahead(q) => Within(q, first, last)
    BY <1>6
  <2> HIDE DEF first, last
  <2>3. \A q \in Nat : Data(q) /\ Ahead(q) => q >= first * BlockSize(src) /\ Within(q, first, last)
    <3>1. first * BlockSize(src) \in Nat
      BY <1>4, <2>1, TimesNatural
    <3>2. QED
      BY <2>2, <3>1 DEF Within
  <2>4. /\ cur' \in [start : Nat, to_read : Nat, read : Nat]
        /\ copied' \in Nat /\ outcome' \in {"copy", "done"}
        /\ CurSound' /\ TargetSound' /\ Arrived'
    <3>1. last \in Int
      BY <2>1
    <3>2. QED
      BY <1>2, <1>7, <2>1, <2>3, <3>1, Yields
  <2>5. Types'
    BY <1>1, <1>2, <2>4 DEF Types
  <2>6. QED
    BY <1>8, <2>4, <2>5 DEF CopyInv
<1>11. QED
  BY <1>9, <1>10

\* Taking the least extent of the answer: what was ahead is in the range held
\* back, in the extent, or still to come; and what is still to come lies behind
\* the extent.
LEMMA TakeOrder ==
  ASSUME Types, MapSound, Api = "fiemap", ~ended, UNCHANGED <<src, call, ended>>,
         NEW e \in batch, \A h \in batch : e.block <= h.block,
         batch' = batch \ {e}, pos' = IF batch' = {} THEN AskAgain(e) ELSE pos
  PROVE  /\ \A x \in Extents(src) : ToCome(x) => x.block >= e.block
         /\ \A x \in Extents(src) : ToCome(x) => x = e \/ ToCome(x)'
         /\ \A x \in Extents(src) : ToCome(x)' => x.block > e.block
<1>1. SourcesAssumption /\ src \in SourceFiles /\ batch \subseteq Extents(src) /\ pos \in Nat
  BY DEF Types
<1>2. \A x \in Extents(src) :
          /\ x.block \in Nat /\ x.count \in Nat \ {0}
          /\ AskAgain(x) \in Nat /\ AskAgain(x) > x.block
          /\ e.block < x.block => AskAgain(e) <= x.block
          /\ e.block = x.block => e = x
  BY <1>1, ExtentsApart DEF AskAgain
<1>3. e \in Extents(src)
  BY <1>1
<1>4. ASSUME NEW x \in Extents(src), ToCome(x) PROVE x.block >= e.block
  <2>1. PICK h \in batch : h.block <= x.block
    BY <1>4 DEF ToCome
  <2>2. QED
    BY <1>1, <1>2, <2>1
<1>5. ASSUME NEW x \in Extents(src), ToCome(x), x # e PROVE ToCome(x)'
  <2>1. x.block > e.block
    BY <1>2, <1>3, <1>4, <1>5
  <2>2. CASE batch' = {}
    <3>1. pos' = AskAgain(e) /\ AskAgain(e) <= x.block
      BY <1>2, <2>1, <2>2
    <3>2. QED
      BY <1>2, <1>3, <2>2, <3>1 DEF ToCome
  <2>3. CASE batch' # {}
    <3>1. PICK g \in batch' : TRUE
      BY <2>3
    <3>2. g \in batch /\ g.block \in Nat
      BY <1>1, <1>2, <3>1
    <3>3. CASE g.block <= x.block
      BY <2>3, <3>1, <3>3 DEF ToCome
    <3>4. CASE x.block <= g.block
      <4>1. e.block <= x.block
        BY <1>2, <1>3, <2>1
      <4>2. x \in batch
        BY <3>2, <3>4, <4>1 DEF MapSound
      <4>3. x \in batch' /\ x.block <= x.block
        BY <1>2, <1>5, <4>2
      <4>4. QED
        BY <2>3, <4>3 DEF ToCome
    <3>5. QED
      BY <1>2, <3>2, <3>3, <3>4
  <2>4. QED
    BY <2>2, <2>3
<1>6. ASSUME NEW x \in Extents(src), ToCome(x)' PROVE x.block > e.block
  <2>1. CASE batch' = {}
    <3>1. x.block >= AskAgain(e)
      BY <1>6, <2>1 DEF ToCome
    <3>2. QED
      BY <1>2, <1>3, <3>1
  <2>2. CASE batch' # {}
    <3>1. PICK h \in batch' : h.block <= x.block
      BY <1>6, <2>2 DEF ToCome
    <3>2. h \in batch /\ h # e /\ h \in Extents(src) /\ e.block <= h.block
      BY <1>1, <3>1
    <3>3. QED
      BY <1>2, <1>3, <3>1, <3>2
  <2>3. QED
    BY <2>1, <2>2
<1>7. QED
  BY <1>4, <1>5, <1>6

LEMMA TakeMap ==
  ASSUME Types, MapSound, Api = "fiemap", ~ended, UNCHANGED <<src, call, ended>>,
         NEW e \in batch, \A h \in batch : e.block <= h.block,
         batch' = batch \ {e}, pos' = IF batch' = {} THEN AskAgain(e) ELSE pos,
         NEW last \in Nat, last < AskAgain(e), prev' # Nothing, prev'[2] = last
  PROVE  MapSound' /\ pos' \in Nat
<1>1. SourcesAssumption /\ src \in SourceFiles /\ batch \subseteq Extents(src) /\ pos \in Nat
  BY DEF Types
<1>2. \A x \in Extents(src) :
          /\ x.block \in Nat /\ x.count \in Nat \ {0} /\ AskAgain(x) \in Nat
          /\ e.block < x.block => AskAgain(e) <= x.block
          /\ e.block = x.block => e = x
  BY <1>1, ExtentsApart DEF AskAgain
<1>3. e \in Extents(src)
  BY <1>1
<1>4. Api' = Api /\ Extents(src)' = Extents(src)
  BY Frame
<1>5. \A g, h \in batch : \A x \in Extents(src) :
           g.block <= x.block /\ x.block <= h.block => x \in batch
  BY DEF MapSound
<1>6. \A g, h \in batch' : \A x \in Extents(src) :
           g.block <= x.block /\ x.block <= h.block => x \in batch'
  <2> SUFFICES ASSUME NEW g \in batch', NEW h \in batch', NEW x \in Extents(src),
                      g.block <= x.block, x.block <= h.block
               PROVE  x \in batch'
    OBVIOUS
  <2>1. g \in batch /\ h \in batch /\ g # e /\ g \in Extents(src)
    BY <1>1
  <2>2. x \in batch
    BY <1>5, <2>1
  <2>3. e.block <= g.block /\ e.block # g.block
    BY <1>2, <2>1
  <2>4. x # e
    BY <1>2, <1>3, <2>1, <2>3
  <2>5. QED
    BY <2>2, <2>4
<1>7. \A h \in batch' : h.block >= pos' /\ prev'[2] < h.block
  <2> SUFFICES ASSUME NEW h \in batch' PROVE h.block >= pos' /\ last < h.block
    OBVIOUS
  <2>1. h \in batch /\ h # e /\ h \in Extents(src) /\ e.block <= h.block
    BY <1>1
  <2>2. pos' = pos /\ h.block >= pos
    BY <2>1 DEF MapSound
  <2>3. AskAgain(e) <= h.block
    BY <1>2, <1>3, <2>1
  <2>4. QED
    BY <1>2, <1>3, <2>1, <2>2, <2>3
<1>8. pos' = 0 \/ \E x \in Extents(src) : pos' = AskAgain(x)
  BY <1>3 DEF MapSound
<1>9. batch' = {} => last < pos'
  OBVIOUS
<1>10. pos' \in Nat
  BY <1>1, <1>2, <1>3
<1>11. MapSound'
  <2>1. /\ (Api # "fiemap" => batch = {} /\ prev = Nothing)'
        /\ (ended => batch = {} /\ prev = Nothing)'
    BY <1>4
  <2>2. (Api = "fiemap" => pos = 0 \/ \E x \in Extents(src) : pos = AskAgain(x))'
    BY <1>4, <1>8 DEF AskAgain
  <2>3. (\A g, h \in batch : \A x \in Extents(src) :
             g.block <= x.block /\ x.block <= h.block => x \in batch)'
    BY <1>4, <1>6
  <2>4. (\A h \in batch : h.block >= pos /\ (prev # Nothing => prev[2] < h.block))'
    BY <1>7
  <2>5. (batch = {} /\ prev # Nothing => prev[2] < pos)'
    BY <1>9
  <2>6. QED
    BY <2>1, <2>2, <2>3, <2>4, <2>5 DEF MapSound
<1>12. QED
  BY <1>10, <1>11

LEMMA TakeStep ==
  ASSUME CopyInv, TakeExtent
  PROVE  CopyInv'
<1> DEFINE n == BlocksCnt(src)
           bs == BlockSize(src)
<1>1. Types /\ MapSound
  BY DEF CopyInv
<1>2. /\ outcome = "copy" /\ cur = idle /\ Api = "fiemap" /\ ~ended
      /\ UNCHANGED <<src, call, ended, dst>>
  BY DEF TakeExtent, Wanted
<1>3. PICK e \in batch :
        /\ \A h \in batch : e.block <= h.block
        /\ e.block < n
        /\ LET first == Max({e.block, pos})
               last  == Min({e.block + e.count, n}) - 1
           IN  IF prev # Nothing /\ prev[2] = first - 1
               THEN prev' = <<prev[1], last>> /\ UNCHANGED <<cur, copied, outcome>>
               ELSE /\ prev' = <<first, last>>
                    /\ IF prev = Nothing THEN UNCHANGED <<cur, copied, outcome>>
                       ELSE Visit(prev[1], prev[2])
        /\ batch' = batch \ {e}
        /\ pos' = IF batch' = {} THEN AskAgain(e) ELSE pos
  BY DEF TakeExtent
<1>4. /\ SourcesAssumption /\ src \in SourceFiles /\ pos \in Nat /\ n \in Nat /\ bs \in Nat \ {0}
      /\ batch \subseteq Extents(src) /\ src.size \in Nat /\ src.size <= n * bs
      /\ prev # Nothing => prev[1] \in Nat /\ prev[2] \in Nat /\ prev[1] <= prev[2]
  BY <1>1, Blocks DEF Types
<1>5. e \in Extents(src) /\ e.block \in Nat /\ e.count \in Nat \ {0} /\ e.block >= pos
  BY <1>1, <1>4, ExtentsApart DEF MapSound
<1> DEFINE first == e.block
           last == Min({e.block + e.count, n}) - 1
<1>6. Max({e.block, pos}) = first
  BY <1>4, <1>5, MaxPair
<1>7. last = IF e.block + e.count <= n THEN e.block + e.count - 1 ELSE n - 1
  <2>1. Min({e.block + e.count, n}) = IF e.block + e.count <= n THEN e.block + e.count ELSE n
    <3>1. e.block + e.count \in Int
      BY <1>5
    <3>2. QED
      BY <1>4, <3>1, MinPair
  <2>2. QED
    BY <1>4, <1>5, <2>1
<1>8. /\ IF prev # Nothing /\ prev[2] = first - 1
         THEN prev' = <<prev[1], last>> /\ UNCHANGED <<cur, copied, outcome>>
         ELSE /\ prev' = <<first, last>>
              /\ IF prev = Nothing THEN UNCHANGED <<cur, copied, outcome>>
                 ELSE Visit(prev[1], prev[2])
      /\ batch' = batch \ {e} /\ pos' = IF batch' = {} THEN AskAgain(e) ELSE pos
  BY <1>3, <1>6
<1> HIDE DEF n, bs, last
<1>9. /\ first \in Nat /\ last \in Nat /\ first <= last /\ last < AskAgain(e) /\ last < n
  BY <1>3, <1>4, <1>5, <1>7 DEF AskAgain
<1>10. prev # Nothing => prev[2] < first
  BY <1>1 DEF MapSound
<1>11. /\ \A x \in Extents(src) : ToCome(x) => x.block >= e.block
       /\ \A x \in Extents(src) : ToCome(x) => x = e \/ ToCome(x)'
       /\ \A x \in Extents(src) : ToCome(x)' => x.block > e.block
  BY <1>1, <1>2, <1>3, <1>8, TakeOrder
<1>12. /\ prev' \in Nat \X Nat /\ prev' # Nothing /\ prev'[2] = last /\ prev'[1] <= last
       /\ prev'[1] = IF prev # Nothing /\ prev[2] = first - 1 THEN prev[1] ELSE first
  <2>1. CASE prev # Nothing /\ prev[2] = first - 1
    <3> DEFINE p == prev[1]
    <3>1. prev' = <<p, last>>
      BY <1>8, <2>1
    <3>2. p \in Nat /\ p <= last
      BY <1>4, <1>9, <1>10, <2>1
    <3>3. IF prev # Nothing /\ prev[2] = first - 1 THEN prev[1] = p ELSE first = p
      BY <2>1
    <3> HIDE DEF p
    <3>4. prev' \in Nat \X Nat /\ prev'[1] = p /\ prev'[2] = last /\ prev' # Nothing
      BY <1>9, <3>1, <3>2 DEF Nothing
    <3>5. QED
      BY <2>1, <3>2, <3>3, <3>4
  <2>2. CASE ~(prev # Nothing /\ prev[2] = first - 1)
    BY <1>4, <1>8, <1>9, <2>2 DEF Nothing
  <2>3. QED
    BY <2>1, <2>2
<1>13. MapSound' /\ pos' \in Nat
  BY <1>1, <1>2, <1>3, <1>8, <1>9, <1>12, TakeMap
<1>14. Api' = Api /\ Extents(src)' = Extents(src) /\ \A q : Data(q)' <=> Data(q)
  BY <1>2, Frame
<1>15. \A q, a, b : (Within(q, a, b) <=> a * bs <= q /\ q < (b + 1) * bs)
                    /\ (Within(q, a, b)' <=> Within(q, a, b))
  BY <1>2 DEF Within, bs
<1>16. \A q, x : Reaches(x, q)' <=> Reaches(x, q)
  BY <1>2 DEF Reaches, Within
\* A byte of the extent is in the part of it that is taken.
<1>17. ASSUME NEW q \in Nat, Data(q), Reaches(e, q) PROVE Within(q, first, last)
  <2>1. first * bs <= q /\ q < (e.block + e.count - 1 + 1) * bs
    BY <1>15, <1>17 DEF Reaches
  <2>2. q < n * bs
    <3>1. n * bs \in Nat
      BY <1>4, TimesNatural
    <3>2. QED
      BY <1>4, <1>17, <3>1 DEF Data, n, bs
  <2>3. q < (last + 1) * bs
    <3>1. last + 1 = n \/ last + 1 = e.block + e.count - 1 + 1
      BY <1>4, <1>5, <1>7
    <3>2. QED
      BY <2>1, <2>2, <3>1
  <2>4. QED
    BY <1>15, <2>1, <2>3
\* What the generator holds back is larger than before, or starts at the extent.
<1>18. ASSUME NEW q \in Nat, Within(q, first, last) PROVE Ahead(q)'
  <2>1. prev'[1] <= first
    BY <1>4, <1>9, <1>10, <1>12
  <2>2. prev'[1] * bs <= first * bs /\ prev'[1] * bs \in Int /\ first * bs \in Int
    BY <1>4, <1>9, <1>12, <2>1, TimesMonotone
  <2>3. Within(q, prev'[1], prev'[2])
    BY <1>12, <1>15, <1>18, <2>2
  <2>4. QED
    BY <1>12, <1>15, <2>3 DEF Ahead
<1>19. ASSUME NEW q \in Nat, Data(q), NEW x \in Extents(src), Reaches(x, q), ToCome(x)
       PROVE  Ahead(q)'
  <2>1. CASE x = e
    BY <1>17, <1>18, <1>19, <2>1
  <2>2. CASE ToCome(x)'
    BY <1>2, <1>14, <1>16, <1>19, <2>2 DEF Ahead
  <2>3. QED
    BY <1>11, <1>19, <2>1, <2>2
<1>20. Types' <=> /\ cur' \in [start : Nat, to_read : Nat, read : Nat]
                  /\ copied' \in Nat
                  /\ outcome' \in {"open", "copy", "done", "RuntimeError"}
                  /\ outcome' = "open" =>
                      /\ pos' = 0 /\ batch' = {} /\ prev' = Nothing /\ ~ended' /\ cur' = idle
                      /\ dst' = IF call.old = 0 THEN Absent ELSE [i \in 1..call.old |-> Old]
  <2>1. batch' \subseteq Extents(src)' /\ src' \in SourceFiles /\ call' \in CopyCalls
    BY <1>1, <1>2, <1>4, <1>8, <1>14 DEF Types
  <2>2. /\ call'.skip <= src'.size /\ pos' \in Nat /\ ended' \in BOOLEAN /\ dst' \in Seq(Int)
        /\ prev' \in Nat \X Nat /\ prev'[1] <= prev'[2]
    BY <1>1, <1>2, <1>12, <1>13 DEF Types
  <2>3. QED
    BY <1>1, <1>2, <2>1, <2>2 DEF Types, SourcesAssumption, idle
<1>21. CASE prev = Nothing \/ prev[2] = first - 1
  <2>1. UNCHANGED <<src, call, copyVars>>
    BY <1>2, <1>8, <1>21 DEF copyVars
  <2>2. ASSUME NEW q \in Nat, Data(q), Ahead(q) PROVE Ahead(q)'
    <3>1. CASE prev # Nothing /\ Within(q, prev[1], prev[2])
      <4>1. prev'[1] = prev[1] /\ prev[2] + 1 <= last + 1
        BY <1>4, <1>9, <1>10, <1>12, <1>21, <3>1
      <4>2. (prev[2] + 1) * bs <= (last + 1) * bs
        BY <1>4, <1>9, <3>1, <4>1, TimesMonotone
      <4>3. (prev[2] + 1) * bs \in Int /\ (last + 1) * bs \in Int
        BY <1>4, <1>9, <3>1
      <4>4. Within(q, prev'[1], prev'[2])
        BY <1>12, <1>15, <3>1, <4>1, <4>2, <4>3
      <4>5. QED
        BY <1>12, <1>15, <4>4 DEF Ahead
    <3>2. CASE \E x \in Extents(src) : Reaches(x, q) /\ ToCome(x)
      BY <1>19, <2>2, <3>2
    <3>3. QED
      BY <1>2, <2>2, <3>1, <3>2 DEF Ahead
  <2>3. CurSound' /\ TargetSound' /\ Arrived'
    BY <1>2, <2>1, <2>2, Quiet
  <2>4. Types'
    BY <1>1, <1>2, <1>20, <2>1 DEF Types, copyVars
  <2>5. QED
    BY <1>13, <2>3, <2>4 DEF CopyInv
<1>22. CASE prev # Nothing /\ prev[2] # first - 1
  <2> DEFINE from == prev[1]
             to == prev[2]
  <2>1. /\ Visit(from, to) /\ from \in Nat /\ to \in Nat /\ from <= to /\ to < first
        /\ prev' = <<first, last>>
    BY <1>4, <1>8, <1>10, <1>22
  <2>2. \A q : Ahead(q) <=>
           \/ Within(q, from, to)
           \/ \E x \in Extents(src) : Reaches(x, q) /\ ToCome(x)
    BY <1>2, <1>22 DEF Ahead
  <2>3. \A q : Ahead(q)' <=>
           \/ Within(q, first, last)
           \/ \E x \in Extents(src) : Reaches(x, q) /\ ToCome(x)'
    BY <1>2, <1>12, <1>14, <1>15, <1>16, <2>1 DEF Ahead
  <2> HIDE DEF from, to
  <2>4. /\ from * bs \in Nat /\ (to + 1) * bs \in Nat /\ first * bs \in Nat
        /\ from * bs <= (to + 1) * bs /\ (to + 1) * bs <= first * bs
    <3>1. from <= to + 1 /\ to + 1 <= first /\ to + 1 \in Nat
      BY <1>9, <2>1
    <3>2. QED
      BY <1>4, <1>9, <2>1, <3>1, TimesMonotone, TimesNatural
  <2>5. ASSUME NEW q \in Nat, Data(q), NEW x \in Extents(src), Reaches(x, q),
               x.block >= first
        PROVE  q >= first * bs
    <3>1. x.block * bs <= q
      BY <1>4, <2>5, DataExtent DEF bs
    <3>2. x.block \in Nat
      BY <1>4, ExtentsApart
    <3>3. first * bs <= x.block * bs /\ x.block * bs \in Nat
      BY <1>4, <1>9, <2>5, <3>2, TimesMonotone, TimesNatural
    <3>4. QED
      BY <2>4, <3>1, <3>3
  <2>6. ASSUME NEW q \in Nat, Data(q), Ahead(q)
        PROVE  q >= from * bs /\ (Ahead(q)' \/ Within(q, from, to))
    <3>1. CASE Within(q, from, to)
      BY <1>15, <3>1
    <3>2. CASE \E x \in Extents(src) : Reaches(x, q) /\ ToCome(x)
      <4>1. PICK x \in Extents(src) : Reaches(x, q) /\ ToCome(x)
        BY <3>2
      <4>2. Ahead(q)'
        BY <1>19, <2>6, <4>1
      <4>3. q >= first * bs
        BY <1>11, <2>5, <2>6, <4>1
      <4>4. QED
        BY <2>4, <4>2, <4>3
    <3>3. QED
      BY <2>2, <2>6, <3>1, <3>2
  <2>7. ASSUME NEW q \in Nat, Data(q), Ahead(q)' PROVE q >= (to + 1) * bs
    <3>1. CASE Within(q, first, last)
      BY <1>15, <2>4, <3>1
    <3>2. CASE \E x \in Extents(src) : Reaches(x, q) /\ ToCome(x)'
      <4>1. PICK x \in Extents(src) : Reaches(x, q) /\ ToCome(x)'
        BY <3>2
      <4>2. x.block > first /\ x.block \in Nat
        BY <1>4, <1>11, <4>1, ExtentsApart
      <4>3. q >= first * bs
        BY <1>5, <2>5, <2>7, <4>1, <4>2
      <4>4. QED
        BY <2>4, <4>3
    <3>3. QED
      BY <2>3, <2>7, <3>1, <3>2
  <2>8. /\ cur' \in [start : Nat, to_read : Nat, read : Nat]
        /\ copied' \in Nat /\ outcome' \in {"copy", "done"}
        /\ CurSound' /\ TargetSound' /\ Arrived'
    <3>1. to \in Int
      BY <2>1
    <3>2. QED
      BY <1>2, <2>1, <2>6, <2>7, <3>1, Yields DEF bs
  <2>9. Types'
    BY <1>20, <2>8
  <2>10. QED
    BY <1>13, <2>8, <2>9 DEF CopyInv
<1>23. QED
  BY <1>21, <1>22

------------------------------------------------------------------------------
(* The copy itself.                                                         *)

\* What a pass reads: the bytes of the source, up to its end.
LEMMA ReadIs ==
  ASSUME src.size \in Nat, NEW off \in Nat, NEW size \in Nat
  PROVE  /\ ReadAt(src, off, size) \in Seq(Nat)
         /\ Len(ReadAt(src, off, size)) =
              IF off >= src.size THEN 0 ELSE IF off + size <= src.size THEN size ELSE src.size - off
         /\ \A i \in 1..Len(ReadAt(src, off, size)) :
              ReadAt(src, off, size)[i] = SourceByte(src, off + i - 1)
<1> DEFINE m == Max({Min({off + size, src.size}), off}) - off
<1>1. Min({off + size, src.size}) = IF off + size <= src.size THEN off + size ELSE src.size
  <2>1. off + size \in Int
    OBVIOUS
  <2>2. QED
    BY <2>1, MinPair
<1>2. Min({off + size, src.size}) \in Int
  BY <1>1
<1>3. m = IF off >= src.size THEN 0 ELSE IF off + size <= src.size THEN size ELSE src.size - off
  <2> DEFINE top == Min({off + size, src.size})
  <2> HIDE DEF top
  <2>1. top \in Int /\ top = IF off + size <= src.size THEN off + size ELSE src.size
    BY <1>1, <1>2 DEF top
  <2>2. Max({top, off}) = IF top >= off THEN top ELSE off
    BY <2>1, MaxPair
  <2>3. m = Max({top, off}) - off
    BY DEF top
  <2> HIDE DEF m
  <2>4. QED
    BY <2>1, <2>2, <2>3
<1>4. m \in Nat
  BY <1>3
<1>5. ReadAt(src, off, size) = [i \in 1..m |-> SourceByte(src, off + i - 1)]
  BY DEF ReadAt
<1> HIDE DEF m
<1>6. \A i \in 1..m : SourceByte(src, off + i - 1) \in Nat
  BY <1>4 DEF SourceByte
<1>7. QED
  BY <1>3, <1>4, <1>5, <1>6

\* What a write leaves: the bytes in their place, and everything else as it was.
LEMMA WriteIs ==
  ASSUME NEW t \in Seq(Int), NEW off \in Nat, NEW bytes \in Seq(Nat),
         NEW out, out = WriteAt(t, off, bytes)
  PROVE  /\ out \in Seq(Int) /\ Len(out) >= Len(t)
         /\ Len(bytes) > 0 => Len(out) >= off + Len(bytes)
<1> DEFINE n == Max({Len(t), off + Len(bytes)})
<1>1. Len(t) \in Nat /\ Len(bytes) \in Nat
  OBVIOUS
<1>2. CASE bytes = <<>>
  <2>1. out = t /\ Len(bytes) = 0
    BY <1>2 DEF WriteAt
  <2>2. QED
    BY <1>1, <2>1
<1>3. CASE bytes # <<>>
  <2>1. n = IF Len(t) >= off + Len(bytes) THEN Len(t) ELSE off + Len(bytes)
    <3>1. off + Len(bytes) \in Int
      BY <1>1
    <3>2. QED
      BY <1>1, <3>1, MaxPair
  <2>2. n \in Nat /\ n >= Len(t) /\ n >= off + Len(bytes)
    BY <1>1, <2>1
  <2>3. out = [i \in 1..n |->
                 IF i > off /\ i <= off + Len(bytes) THEN bytes[i - off]
                 ELSE IF i <= Len(t) THEN t[i] ELSE 0]
    BY <1>3 DEF WriteAt
  <2> HIDE DEF n
  <2>4. \A i \in 1..n : i > off /\ i <= off + Len(bytes) => bytes[i - off] \in Nat
    <3> SUFFICES ASSUME NEW i \in 1..n, i > off, i <= off + Len(bytes)
                 PROVE  bytes[i - off] \in Nat
      OBVIOUS
    <3>1. i - off \in 1..Len(bytes)
      BY <1>1, <2>2
    <3>2. QED
      BY <3>1
  <2>5. \A i \in 1..n : i <= Len(t) => t[i] \in Int
    BY <1>1, <2>2
  <2>6. out \in Seq(Int) /\ Len(out) = n
    BY <2>2, <2>3, <2>4, <2>5
  <2>7. QED
    BY <2>2, <2>3, <2>6
<1>4. QED
  BY <1>2, <1>3

LEMMA WriteElement ==
  ASSUME NEW t \in Seq(Int), NEW off \in Nat, NEW bytes \in Seq(Nat),
         NEW out, out = WriteAt(t, off, bytes), NEW i \in 1..Len(out)
  PROVE  \/ /\ i > off /\ i <= off + Len(bytes) /\ out[i] = bytes[i - off]
         \/ /\ ~(i > off /\ i <= off + Len(bytes))
            /\ out[i] = IF i <= Len(t) THEN t[i] ELSE 0
<1>1. CASE bytes = <<>>
  <2>1. out = t /\ Len(bytes) = 0
    BY <1>1 DEF WriteAt
  <2>2. Len(t) \in Nat /\ i <= Len(t)
    BY <2>1
  <2>3. QED
    BY <2>1, <2>2
<1>2. CASE bytes # <<>>
  <2> DEFINE n == Max({Len(t), off + Len(bytes)})
  <2>1. out = [j \in 1..n |->
                 IF j > off /\ j <= off + Len(bytes) THEN bytes[j - off]
                 ELSE IF j <= Len(t) THEN t[j] ELSE 0]
    BY <1>2 DEF WriteAt
  <2> HIDE DEF n
  <2>2. i \in 1..n
    <3>1. out \in Seq(Int)
      BY WriteIs
    <3>2. DOMAIN out = 1..Len(out)
      BY <3>1
    <3>3. DOMAIN out = 1..n
      BY <2>1
    <3>4. QED
      BY <3>2, <3>3
  <2>3. out[i] = IF i > off /\ i <= off + Len(bytes) THEN bytes[i - off]
                 ELSE IF i <= Len(t) THEN t[i] ELSE 0
    BY <2>1, <2>2
  <2>4. QED
    BY <2>3
<1>3. QED
  BY <1>1, <1>2

\* Where byte i of the target, counted from 1, comes from.
LEMMA PlaceInSource ==
  ASSUME NEW seek \in Nat, NEW skip \in Nat, NEW from \in Nat, from >= skip,
         NEW off, off = seek + from - skip, NEW i \in Int
  PROVE  /\ off \in Nat
         /\ from + (i - off) - 1 = i - 1 - seek + skip
         /\ i > off => i - 1 >= seek
         /\ \A n \in Nat : i <= off + n =>
              i - 1 - seek + skip < from + n /\ i - 1 < seek + (from - skip + n)
OBVIOUS

\* One pass of the while loop: it puts bytes of the piece, each in its place.
LEMMA ChunkStep ==
  ASSUME CopyInv, CopyChunk
  PROVE  CopyInv'
<1> DEFINE size == ChunkSize(cur.to_read - cur.read)
           from == cur.start + cur.read
           end  == cur.start + cur.to_read
<1>1. Types /\ MapSound /\ CurSound /\ TargetSound /\ Arrived
  BY DEF CopyInv
<1>2. /\ outcome = "copy" /\ cur # idle
      /\ dst' = WriteAt(dst, call.seek + from - call.skip, ReadAt(src, from, size))
      /\ copied' = copied + size
      /\ IF copied' = call.length
         THEN outcome' = "done" /\ cur' = idle
         ELSE /\ outcome' = "copy"
              /\ cur' = AfterChunk(cur, size)
      /\ UNCHANGED <<src, call, mapVars>>
  BY DEF CopyChunk
<1>3. /\ SourcesAssumption /\ call \in CopyCalls /\ src \in SourceFiles
      /\ cur \in [start : Nat, to_read : Nat, read : Nat] /\ copied \in Nat
  BY <1>1 DEF Types
<1>4. /\ call.skip \in Nat /\ call.seek \in Nat /\ call.length \in Nat /\ src.size \in Nat
      /\ Chunk \in Nat \ {0}
  BY <1>3 DEF SourcesAssumption
<1>0. cur.start \in Nat /\ cur.to_read \in Nat /\ cur.read \in Nat
  BY <1>3
<1>5. /\ cur.read < cur.to_read /\ cur.start >= call.skip
      /\ copied = from - call.skip
      /\ call.length > 0 => copied < call.length
      /\ \A q \in 0..(src.size - 1) : Data(q) /\ Ahead(q) => q >= end
  <2>1. cur # idle
    BY <1>2
  <2>2. /\ cur.read < cur.to_read /\ cur.start >= call.skip
        /\ copied = cur.start + cur.read - call.skip
        /\ call.length > 0 => copied < call.length
        /\ \A q \in 0..(src.size - 1) : Data(q) /\ Ahead(q) => q >= end
    BY <1>1, <2>1 DEF CurSound
  <2>3. copied = from - call.skip
    BY <1>0, <1>4, <2>2
  <2>4. QED
    BY <2>2, <2>3
<1>6. cur.start \in Nat /\ cur.to_read \in Nat /\ cur.read \in Nat
  BY <1>3
<1>7. /\ size \in Nat /\ size >= 1 /\ size <= cur.to_read - cur.read
      /\ call.length > 0 => copied + size <= call.length
  <2> DEFINE left == cur.to_read - cur.read
  <2>1. left \in Nat /\ left >= 1
    BY <1>5, <1>6
  <2> HIDE DEF left
  <2>2. Min({Chunk, left}) = IF Chunk <= left THEN Chunk ELSE left
    BY <1>4, <2>1, MinPair
  <2>3. size = IF call.length > 0 /\ copied + Min({Chunk, left}) > call.length
               THEN call.length - copied ELSE Min({Chunk, left})
    BY DEF ChunkSize, left
  <2>4. Min({Chunk, left}) \in Nat /\ Min({Chunk, left}) >= 1 /\ Min({Chunk, left}) <= left
    BY <1>4, <2>1, <2>2
  <2>5. QED
    BY <1>3, <1>4, <1>5, <2>1, <2>3, <2>4 DEF left
<1> HIDE DEF size
<1>8. from \in Nat /\ end \in Nat /\ from >= call.skip /\ from < end /\ from + size <= end
  BY <1>4, <1>5, <1>6, <1>7
<1>9. call.length > 0 => from - call.skip + size <= call.length
  BY <1>5, <1>7
<1>10. /\ dst' \in Seq(Int) /\ Len(dst') >= Len(dst)
       /\ \A i \in 1..Len(dst') :
              \/ Asked(i - 1) /\ dst'[i] = FromSource(i - 1)
              \/ dst'[i] = IF i <= Len(dst) THEN dst[i] ELSE 0
       /\ \A q \in Nat : from <= q /\ q < from + size /\ q < src.size =>
              /\ call.seek + q - call.skip < Len(dst')
              /\ dst'[call.seek + q - call.skip + 1] = SourceByte(src, q)
  <2> DEFINE off == call.seek + from - call.skip
             bytes == ReadAt(src, from, size)
             seek == call.seek
             skip == call.skip
             length == call.length
             L == Len(bytes)
             D == Len(dst')
  <2>1. skip \in Nat /\ seek \in Nat /\ length \in Nat /\ src.size \in Nat /\ dst \in Seq(Int)
    BY <1>1, <1>4 DEF Types
  <2>2. dst' = WriteAt(dst, off, bytes) /\ off = seek + from - skip
    BY <1>2
  <2>3. from >= skip /\ (length > 0 => from - skip + size <= length)
    BY <1>8, <1>9
  <2>4. /\ \A b : Asked(b) <=> /\ b >= seek /\ b - seek + skip < src.size
                               /\ length > 0 => b < seek + length
        /\ \A b : FromSource(b) = SourceByte(src, b - seek + skip)
    BY DEF Asked, FromSource
  <2> HIDE DEF from
  <2>5. /\ bytes \in Seq(Nat)
        /\ L = IF from >= src.size THEN 0
               ELSE IF from + size <= src.size THEN size ELSE src.size - from
    BY <1>7, <1>8, <2>1, ReadIs
  <2>6. \A i \in 1..L : bytes[i] = SourceByte(src, from + i - 1)
    BY <1>7, <1>8, <2>1, ReadIs
  <2> HIDE DEF off, bytes, seek, skip, length
  <2>7. off \in Nat
    BY <1>8, <2>1, <2>2, <2>3
  <2>8. dst' \in Seq(Int) /\ D >= Len(dst) /\ (L > 0 => D >= off + L)
    BY <2>1, <2>2, <2>5, <2>7, WriteIs
  <2>9. \A i \in 1..D :
              \/ /\ i > off /\ i <= off + L /\ dst'[i] = bytes[i - off]
              \/ /\ ~(i > off /\ i <= off + L)
                 /\ dst'[i] = IF i <= Len(dst) THEN dst[i] ELSE 0
    <3>1. dst' = WriteAt(dst, off, bytes)
      BY <2>2
    <3>2. QED
      BY <2>1, <2>5, <2>7, <3>1, WriteElement
  <2>10. L \in Nat /\ D \in Nat /\ L <= size /\ (L > 0 => from + L <= src.size)
    BY <1>7, <1>8, <2>1, <2>5, <2>8
  <2> HIDE DEF L
  <2>11. ASSUME NEW i \in Int, i > off, i <= off + L
         PROVE  Asked(i - 1) /\ FromSource(i - 1) = bytes[i - off]
    <3>1. i - off \in 1..L
      BY <2>7, <2>10, <2>11
    <3>2. /\ from + (i - off) - 1 = i - 1 - seek + skip /\ i - 1 >= seek
          /\ i - 1 - seek + skip < from + L /\ i - 1 < seek + (from - skip + L)
      BY <1>8, <2>1, <2>2, <2>3, <2>10, <2>11, PlaceInSource
    <3>3. bytes[i - off] = SourceByte(src, i - 1 - seek + skip)
      BY <2>6, <3>1, <3>2
    <3>4. L > 0
      BY <2>10, <3>1
    <3>5. i - 1 - seek + skip < src.size
      BY <1>8, <2>1, <2>10, <3>2, <3>4
    <3>6. length > 0 => i - 1 < seek + length
      BY <1>7, <1>8, <2>1, <2>3, <2>10, <3>2
    <3>7. QED
      BY <2>4, <3>2, <3>3, <3>5, <3>6
  <2>12. \A i \in 1..D :
           \/ Asked(i - 1) /\ dst'[i] = FromSource(i - 1)
           \/ dst'[i] = IF i <= Len(dst) THEN dst[i] ELSE 0
    BY <2>9, <2>10, <2>11
  <2>13. ASSUME NEW q \in Nat, from <= q, q < from + size, q < src.size
         PROVE  /\ seek + q - skip < D
                /\ dst'[seek + q - skip + 1] = SourceByte(src, q)
    <3> DEFINE i == seek + q - skip + 1
    <3>1. q < from + L
      BY <1>7, <1>8, <2>1, <2>5, <2>13
    <3>2. i \in Int /\ i > off /\ i <= off + L /\ i - 1 - seek + skip = q
      BY <1>8, <2>1, <2>2, <2>3, <2>10, <2>13, <3>1
    <3>3. i - 1 = seek + q - skip
      BY <2>1
    <3> HIDE DEF i
    <3>4. i \in 1..D /\ i - 1 < D
      BY <2>7, <2>8, <2>10, <3>2
    <3>5. dst'[i] = bytes[i - off]
      BY <2>9, <3>2, <3>4
    <3>6. FromSource(i - 1) = bytes[i - off]
      BY <2>11, <3>2
    <3>7. FromSource(i - 1) = SourceByte(src, q)
      BY <2>4, <3>2
    <3>8. QED
      BY <3>3, <3>4, <3>5, <3>6, <3>7 DEF i
  <2>14. QED
    BY <2>8, <2>12, <2>13 DEF seek, skip
<1>11. copied' = call.length => call.length > 0
  BY <1>2, <1>3, <1>4, <1>7
<1>12. outcome' \in {"copy", "done"}
  BY <1>2
<1>13. outcome' = "done" => cur' = idle /\ \A q \in Nat : q >= from + size => ~InPiece(q)
  <2> SUFFICES ASSUME outcome' = "done"
               PROVE  cur' = idle /\ \A q \in Nat : q >= from + size => ~InPiece(q)
    OBVIOUS
  <2>1. copied' = call.length /\ cur' = idle
    BY <1>2
  <2>2. call.length > 0 /\ call.length = from - call.skip + size
    BY <1>2, <1>5, <1>11, <2>1
  <2>3. ASSUME NEW q \in Nat, q >= from + size PROVE ~InPiece(q)
    BY <1>4, <1>7, <1>8, <2>2, <2>3 DEF InPiece
  <2>4. QED
    BY <2>1, <2>3
<1>14. outcome' = "copy" =>
         /\ call.length > 0 => copied' < call.length
         /\ cur' = IF cur.read + size < cur.to_read
                   THEN [start |-> cur.start, to_read |-> cur.to_read, read |-> cur.read + size]
                   ELSE idle
  <2> SUFFICES ASSUME outcome' = "copy"
               PROVE  /\ call.length > 0 => copied' < call.length
                      /\ AfterChunk(cur, size) =
                          IF cur.read + size < cur.to_read
                          THEN [start |-> cur.start, to_read |-> cur.to_read,
                                read |-> cur.read + size]
                          ELSE idle
    BY <1>2
  <2>1. call.length > 0 => copied' < call.length
    BY <1>2, <1>3, <1>4, <1>7
  <2>2. [cur EXCEPT !.read = @ + size] =
          [start |-> cur.start, to_read |-> cur.to_read, read |-> cur.read + size]
    BY <1>3
  <2>3. QED
    BY <2>1, <2>2 DEF AfterChunk
<1>15. cur' \in [start : Nat, to_read : Nat, read : Nat]
  <2>1. idle \in [start : Nat, to_read : Nat, read : Nat]
    BY DEF idle
  <2>2. cur.read + size \in Nat
    BY <1>6, <1>7
  <2>3. QED
    BY <1>6, <1>12, <1>13, <1>14, <2>1, <2>2
<1>16. /\ \A q : /\ (Data(q)' <=> Data(q)) /\ (InPiece(q)' <=> InPiece(q))
                 /\ (Asked(q)' <=> Asked(q)) /\ FromSource(q)' = FromSource(q)
       /\ Api' = Api /\ BlockSize(src)' = BlockSize(src) /\ Extents(src)' = Extents(src)
  BY <1>2, Frame
<1>17. \A q : Ahead(q)' <=> Ahead(q)
  BY <1>2, <1>16 DEF Ahead, Within, Reaches, ToCome, mapVars
<1>18. ASSUME cur' # idle
       PROVE  /\ outcome' = "copy" /\ cur.read + size < cur.to_read
              /\ cur'.start = cur.start /\ cur'.to_read = cur.to_read
              /\ cur'.read = cur.read + size
  BY <1>12, <1>13, <1>14, <1>18
<1>19. CurSound'
  <2> SUFFICES ASSUME cur' # idle
               PROVE  /\ cur'.read < cur'.to_read /\ cur'.start >= call.skip
                      /\ copied' = cur'.start + cur'.read - call.skip
                      /\ call.length > 0 => copied' < call.length
                      /\ \A q \in 0..(src.size - 1) : Data(q) /\ Ahead(q) =>
                           q >= cur'.start + cur'.to_read
    BY <1>2, <1>16, <1>17 DEF CurSound, idle
  <2>1. copied' = cur.start + (cur.read + size) - call.skip
    BY <1>2, <1>4, <1>5, <1>6, <1>7
  <2>2. QED
    BY <1>5, <1>14, <1>18, <2>1
<1>20. TargetSound'
  <2>1. call.old \in Nat /\ dst \in Seq(Int)
    BY <1>1 DEF Types, SourcesAssumption
  <2>2. ASSUME call.old = 0, NEW i \in 1..Len(dst')
        PROVE  dst'[i] = 0 \/ (Asked(i - 1) /\ dst'[i] = FromSource(i - 1))
    <3>1. i <= Len(dst) => i \in DOMAIN dst
      BY <2>1
    <3>2. \A j \in DOMAIN dst : dst[j] = 0 \/ (Asked(j - 1) /\ dst[j] = FromSource(j - 1))
      BY <1>1, <1>2, <2>2 DEF TargetSound
    <3>3. QED
      BY <1>10, <3>1, <3>2
  <2>3. ASSUME call.old > 0
        PROVE  /\ Len(dst') >= call.old
               /\ \A b \in 0..(call.old - 1) : ~Asked(b) => dst'[b + 1] = Old
    <3>1. /\ Len(dst) >= call.old
          /\ \A b \in 0..(call.old - 1) : ~Asked(b) => dst[b + 1] = Old
      BY <1>1, <1>2, <2>3 DEF TargetSound
    <3>2. Len(dst) \in Nat /\ Len(dst') \in Nat
      BY <1>10, <2>1
    <3>3. Len(dst') >= call.old
      BY <1>10, <2>1, <3>1, <3>2
    <3>4. ASSUME NEW b \in 0..(call.old - 1), ~Asked(b) PROVE dst'[b + 1] = Old
      <4>1. b + 1 \in 1..Len(dst') /\ b + 1 <= Len(dst) /\ b + 1 - 1 = b
        BY <2>1, <3>1, <3>2, <3>3
      <4>2. QED
        BY <1>10, <3>1, <3>4, <4>1
    <3>5. QED
      BY <3>3, <3>4
  <2>4. DOMAIN dst' = 1..Len(dst')
    BY <1>10
  <2>5. QED
    BY <1>2, <1>16, <2>2, <2>3, <2>4 DEF TargetSound
<1>21. ASSUME NEW q \in Nat, InPiece(q), Copied(q) PROVE Copied(q)'
  <2> DEFINE b == call.seek + q - call.skip
  <2>1. b \in Nat /\ b - call.seek + call.skip = q
    BY <1>4, <1>21 DEF InPiece
  <2>2. b < Len(dst) /\ dst[b + 1] = SourceByte(src, q)
    BY <1>21 DEF Copied
  <2>3. Len(dst) \in Nat /\ Len(dst') \in Nat
    BY <1>1, <1>10 DEF Types
  <2>4. FromSource(b) = SourceByte(src, q)
    BY <2>1 DEF FromSource
  <2> HIDE DEF b
  <2>5. b + 1 \in 1..Len(dst') /\ b + 1 <= Len(dst) /\ b + 1 - 1 = b
    BY <1>10, <2>1, <2>2, <2>3
  <2>6. dst'[b + 1] = SourceByte(src, q)
    <3> DEFINE i == b + 1
    <3>1. i \in 1..Len(dst') /\ i <= Len(dst) /\ dst[i] = SourceByte(src, q)
      BY <2>2, <2>5
    <3>2. FromSource(i - 1) = SourceByte(src, q)
      <4>1. i - 1 = b
        BY <2>1
      <4>2. QED
        BY <2>4, <4>1
    <3> HIDE DEF i
    <3>3. dst'[i] = SourceByte(src, q)
      BY <1>10, <3>1, <3>2
    <3>4. QED
      BY <3>3 DEF i
  <2>7. b < Len(dst')
    BY <2>1, <2>3, <2>5
  <2>8. QED
    BY <1>2, <2>6, <2>7 DEF Copied, b
<1>22. ASSUME NEW q \in Nat, q < src.size, InPiece(q), InCur(q)
       PROVE  Copied(q)' \/ (outcome' = "copy" /\ InCur(q)')
  <2>1. from <= q /\ q < end
    BY <1>22 DEF InCur
  <2>2. CASE q < from + size
    <3>1. /\ call.seek + q - call.skip < Len(dst')
          /\ dst'[call.seek + q - call.skip + 1] = SourceByte(src, q)
      BY <1>10, <1>22, <2>1, <2>2
    <3>2. QED
      BY <1>2, <3>1 DEF Copied
  <2>3. CASE q >= from + size
    <3>1. outcome' = "copy"
      BY <1>12, <1>13, <1>22, <2>3
    <3>2. cur.read + size < cur.to_read
      BY <1>6, <1>7, <2>1, <2>3
    <3>3. cur' = [start |-> cur.start, to_read |-> cur.to_read, read |-> cur.read + size]
      BY <1>14, <3>1, <3>2
    <3>4. /\ cur' # idle /\ cur'.start = cur.start /\ cur'.to_read = cur.to_read
          /\ cur'.read = cur.read + size
      <4>1. cur.read + size # 0
        BY <1>6, <1>7
      <4>2. QED
        BY <3>3, <4>1 DEF idle
    <3>5. cur'.start + cur'.read <= q /\ q < cur'.start + cur'.to_read
      BY <1>6, <1>7, <2>1, <2>3, <3>4
    <3>6. QED
      BY <3>1, <3>4, <3>5 DEF InCur, idle
  <2>4. QED
    BY <1>7, <1>8, <2>2, <2>3
<1>23. Arrived'
  <2> SUFFICES ASSUME NEW q \in 0..(src.size - 1), Data(q), InPiece(q)
               PROVE  Copied(q)' \/ (outcome' = "copy" /\ (Ahead(q)' \/ InCur(q)'))
    BY <1>2, <1>16 DEF Arrived
  <2>1. q \in Nat /\ q < src.size
    BY <1>4
  <2>2. Copied(q) \/ Ahead(q) \/ InCur(q)
    BY <1>1, <1>2 DEF Arrived
  <2>3. CASE Ahead(q)
    <3>1. q >= from + size
      BY <1>5, <1>7, <1>8, <2>1, <2>3
    <3>2. outcome' = "copy"
      BY <1>12, <1>13, <2>1, <3>1
    <3>3. QED
      BY <1>17, <2>3, <3>2
  <2>4. QED
    BY <1>21, <1>22, <2>1, <2>2, <2>3
<1>24. MapSound'
  BY <1>1, <1>2, <1>16 DEF MapSound, mapVars, AskAgain
<1>25. Types'
  <2>1. copied' \in Nat
    BY <1>2, <1>3, <1>7
  <2>2. QED
    BY <1>1, <1>2, <1>10, <1>12, <1>15, <1>16, <2>1 DEF Types, mapVars
<1>26. QED
  BY <1>19, <1>20, <1>23, <1>24, <1>25 DEF CopyInv

\* The loop comes to its end: nothing is ahead.
LEMMA FinishStep ==
  ASSUME CopyInv, Finish
  PROVE  CopyInv'
<1>1. Types /\ MapSound /\ TargetSound /\ Arrived
  BY DEF CopyInv
<1>2. /\ outcome = "copy" /\ cur = idle /\ ended /\ outcome' = "done"
      /\ UNCHANGED <<src, call, mapVars, cur, copied, dst>>
  BY DEF Finish
<1>3. /\ \A q : /\ (Data(q)' <=> Data(q)) /\ (InPiece(q)' <=> InPiece(q))
                /\ (Asked(q)' <=> Asked(q)) /\ FromSource(q)' = FromSource(q)
      /\ Api' = Api /\ Extents(src)' = Extents(src)
  BY <1>2, Frame
<1>4. \A q : ~Ahead(q) /\ ~InCur(q)
  BY <1>1, <1>2 DEF Ahead, InCur, MapSound
<1>5. Arrived'
  <2> SUFFICES ASSUME NEW q \in 0..(src.size - 1), Data(q), InPiece(q) PROVE Copied(q)'
    BY <1>2, <1>3 DEF Arrived
  <2>1. Copied(q)
    BY <1>1, <1>2, <1>4 DEF Arrived
  <2>2. QED
    BY <1>2, <2>1 DEF Copied
<1>6. CurSound'
  BY <1>2 DEF CurSound, idle
<1>7. TargetSound'
  BY <1>1, <1>2, <1>3 DEF TargetSound
<1>8. MapSound'
  BY <1>1, <1>2, <1>3 DEF MapSound, mapVars, AskAgain
<1>9. Types'
  BY <1>1, <1>2, <1>3 DEF Types, mapVars
<1>10. QED
  BY <1>5, <1>6, <1>7, <1>8, <1>9 DEF CopyInv

\* The target opened: all of the source is ahead.
LEMMA OpenStep ==
  ASSUME CopyInv, Open
  PROVE  CopyInv'
<1> DEFINE n == call.seek + (IF call.length > 0 THEN call.length ELSE src.size - call.skip)
<1>1. Types /\ MapSound
  BY DEF CopyInv
<1>2. /\ outcome = "open" /\ outcome' = "copy"
      /\ dst' = IF dst # Absent THEN dst ELSE [i \in 1..n |-> 0]
      /\ UNCHANGED <<src, call, mapVars, cur, copied>>
  BY DEF Open
<1>3. /\ SourcesAssumption /\ src \in SourceFiles /\ call \in CopyCalls
      /\ pos = 0 /\ batch = {} /\ prev = Nothing /\ ~ended /\ cur = idle
      /\ dst = IF call.old = 0 THEN Absent ELSE [i \in 1..call.old |-> Old]
      /\ call.skip <= src.size
  BY <1>1, <1>2 DEF Types
<1>4. /\ call.skip \in Nat /\ call.seek \in Nat /\ call.length \in Nat /\ call.old \in Nat
      /\ src.size \in Nat
  BY <1>3 DEF SourcesAssumption
<1>5. n \in Nat
  BY <1>3, <1>4
<1> HIDE DEF n
<1>6. /\ call.old = 0 => dst' = [i \in 1..n |-> 0]
      /\ call.old > 0 => dst' = [i \in 1..call.old |-> Old]
  <2>1. ASSUME call.old > 0 PROVE dst # Absent
    <3>1. dst = [i \in 1..call.old |-> Old]
      BY <1>3, <1>4, <2>1
    <3>2. DOMAIN dst = 1..call.old /\ 1 \in 1..call.old
      BY <1>4, <2>1, <3>1
    <3>3. 1 \notin DOMAIN Absent
      BY DEF Absent
    <3>4. QED
      BY <3>2, <3>3
  <2>2. QED
    BY <1>2, <1>3, <1>4, <2>1
<1>7. dst' \in Seq(Int)
  <2>1. [i \in 1..n |-> 0] \in Seq(Int) /\ [i \in 1..call.old |-> Old] \in Seq(Int)
    BY <1>4, <1>5 DEF Old
  <2>2. call.old = 0 \/ call.old > 0
    BY <1>4
  <2>3. QED
    BY <1>6, <2>1, <2>2
<1>8. /\ \A q : /\ (Data(q)' <=> Data(q)) /\ (InPiece(q)' <=> InPiece(q))
                /\ (Asked(q)' <=> Asked(q)) /\ FromSource(q)' = FromSource(q)
      /\ Api' = Api /\ Extents(src)' = Extents(src)
  BY <1>2, Frame
<1>9. ASSUME NEW q \in Nat, Data(q) PROVE Ahead(q)'
  <2>1. PICK e \in Extents(src) : Reaches(e, q)
    BY <1>3, <1>9, ExtentOf
  <2>2. e.block >= 0
    BY <1>3, ExtentsApart
  <2>3. Reaches(e, q)' /\ ToCome(e)'
    BY <1>2, <1>3, <2>1, <2>2 DEF Reaches, Within, ToCome, mapVars
  <2>4. QED
    BY <1>2, <1>3, <1>8, <2>3 DEF Ahead, mapVars
<1>10. Arrived'
  <2> SUFFICES ASSUME NEW q \in 0..(src.size - 1), Data(q) PROVE Ahead(q)'
    BY <1>2, <1>8 DEF Arrived
  <2>1. QED
    BY <1>4, <1>9
<1>11. CurSound'
  BY <1>2, <1>3 DEF CurSound, idle
<1>12. TargetSound'
  <2>1. call.old = 0 => \A i \in DOMAIN dst' : dst'[i] = 0
    BY <1>6
  <2>2. call.old > 0 => /\ Len(dst') >= call.old
                        /\ \A b \in 0..(call.old - 1) : dst'[b + 1] = Old
    <3> SUFFICES ASSUME call.old > 0
                 PROVE  /\ Len(dst') >= call.old
                        /\ \A b \in 0..(call.old - 1) : dst'[b + 1] = Old
      OBVIOUS
    <3>1. dst' = [i \in 1..call.old |-> Old]
      BY <1>6
    <3>2. \A b \in 0..(call.old - 1) : b + 1 \in 1..call.old
      BY <1>4
    <3>3. Len(dst') = call.old
      BY <1>4, <1>7, <3>1
    <3>4. QED
      BY <1>4, <3>1, <3>2, <3>3
  <2>3. QED
    BY <1>2, <1>8, <2>1, <2>2 DEF TargetSound
<1>13. MapSound'
  BY <1>1, <1>2, <1>8 DEF MapSound, mapVars, AskAgain
<1>14. Types'
  BY <1>1, <1>2, <1>7, <1>8 DEF Types, mapVars
<1>15. QED
  BY <1>10, <1>11, <1>12, <1>13, <1>14 DEF CopyInv

------------------------------------------------------------------------------
(* The theorem.                                                             *)

LEMMA CopyStarts ==
  ASSUME SourcesAssumption, CopyInit
  PROVE  CopyInv
<1>1. /\ src \in SourceFiles /\ call \in CopyCalls /\ call.skip <= src.size
      /\ pos = 0 /\ batch = {} /\ prev = Nothing /\ ended = FALSE
      /\ cur = idle /\ copied = 0 /\ outcome = "open"
      /\ dst = IF call.old = 0 THEN Absent ELSE [i \in 1..call.old |-> Old]
  BY DEF CopyInit
<1>2. dst \in Seq(Int)
  <2>1. call.old \in Nat
    BY <1>1 DEF SourcesAssumption
  <2>2. [i \in 1..call.old |-> Old] \in Seq(Int) /\ Absent \in Seq(Int)
    BY <2>1 DEF Old, Absent
  <2>3. QED
    BY <1>1, <2>2
<1>3. idle \in [start : Nat, to_read : Nat, read : Nat]
  BY DEF idle
<1>4. Types
  BY <1>1, <1>2, <1>3 DEF Types
<1>5. MapSound /\ CurSound /\ TargetSound /\ Arrived
  BY <1>1 DEF MapSound, CurSound, TargetSound, Arrived
<1>6. QED
  BY <1>4, <1>5 DEF CopyInv

LEMMA CopyKept ==
  ASSUME CopyInv, [CopyNext]_sparseVars
  PROVE  CopyInv'
<1>1. CASE CopyNext
  BY <1>1, OpenStep, NobmapStep, SeekStep, SeekEndStep, AskStep, TakeStep, FiemapEndStep,
     ChunkStep, FinishStep DEF CopyNext
<1>2. CASE UNCHANGED sparseVars
  <2>1. UNCHANGED <<src, call>> /\ UNCHANGED <<mapVars, copyVars>>
    BY <1>2 DEF sparseVars
  <2>2. UNCHANGED <<pos, batch, prev, ended, cur, copied, dst, outcome>>
    BY <2>1 DEF mapVars, copyVars
  <2>3. /\ \A q : /\ (Data(q)' <=> Data(q)) /\ (InPiece(q)' <=> InPiece(q))
                  /\ (Asked(q)' <=> Asked(q)) /\ FromSource(q)' = FromSource(q)
        /\ Api' = Api /\ Extents(src)' = Extents(src)
        /\ BlockSize(src)' = BlockSize(src)
    BY <2>1, Frame
  <2>4. \A q : /\ (Ahead(q)' <=> Ahead(q)) /\ (InCur(q)' <=> InCur(q))
               /\ (Copied(q)' <=> Copied(q))
    BY <2>1, <2>2, <2>3 DEF Ahead, Within, Reaches, ToCome, InCur, Copied
  <2>5. Types' /\ MapSound'
    BY <2>1, <2>2, <2>3 DEF CopyInv, Types, MapSound, AskAgain
  <2>6. CurSound' /\ TargetSound' /\ Arrived'
    BY <2>1, <2>2, <2>3, <2>4 DEF CopyInv, CurSound, TargetSound, Arrived, idle
  <2>7. QED
    BY <2>5, <2>6 DEF CopyInv
<1>3. QED
  BY <1>1, <1>2

\* An asked byte of the target stands for a byte of the piece; when the copy is
\* done a data byte is there.
LEMMA AskedArrives ==
  ASSUME CopyInv, outcome = "done", NEW b \in Nat, Asked(b)
  PROVE  FromSource(b) = 0 \/ (b < Len(dst) /\ dst[b + 1] = FromSource(b))
<1> DEFINE q == b - call.seek + call.skip
<1>1. /\ call.skip \in Nat /\ call.seek \in Nat /\ call.length \in Nat /\ src.size \in Nat
  BY DEF CopyInv, Types, SourcesAssumption
<1>2. /\ q \in Nat /\ q < src.size /\ q >= call.skip
      /\ call.length > 0 => q < call.skip + call.length
      /\ call.seek + q - call.skip = b
  BY <1>1 DEF Asked
<1>3. FromSource(b) = SourceByte(src, q)
  BY DEF FromSource
<1> HIDE DEF q
<1>4. InPiece(q) /\ q \in 0..(src.size - 1)
  BY <1>1, <1>2 DEF InPiece
<1>5. CASE Data(q)
  <2>1. Copied(q)
    BY <1>4, <1>5 DEF CopyInv, Arrived
  <2>2. QED
    BY <1>2, <1>3, <2>1 DEF Copied
<1>6. CASE ~Data(q)
  <2>1. SourceByte(src, q) = 0
    BY <1>2, <1>6 DEF Data, SourceByte
  <2>2. QED
    BY <1>3, <2>1
<1>7. QED
  BY <1>5, <1>6

LEMMA CopyIsExact ==
  ASSUME CopyInv
  PROVE  CopyExact
<1>1. /\ call.skip \in Nat /\ call.seek \in Nat /\ call.length \in Nat /\ src.size \in Nat
      /\ call.old \in Nat /\ dst \in Seq(Int)
  BY DEF CopyInv, Types, SourcesAssumption
<1>2. FreshCopyIsSource
  <2> SUFFICES ASSUME outcome = "done", call.old = 0, NEW i \in DOMAIN dst
               PROVE  dst[i] = IF Asked(i - 1) THEN FromSource(i - 1) ELSE 0
    BY DEF FreshCopyIsSource
  <2>1. dst[i] = 0 \/ (Asked(i - 1) /\ dst[i] = FromSource(i - 1))
    BY DEF CopyInv, TargetSound
  <2>2. i - 1 \in Nat /\ i - 1 + 1 = i
    BY <1>1
  <2>3. Asked(i - 1) => FromSource(i - 1) = 0 \/ dst[i] = FromSource(i - 1)
    BY <2>2, AskedArrives
  <2>4. QED
    BY <2>1, <2>3
<1>3. NeighboursUntouched
  <2> SUFFICES ASSUME call.old > 0
               PROVE  /\ \A b \in 0..(call.old - 1) : ~Asked(b) => dst[b + 1] = Old
                      /\ outcome = "done" =>
                           \A b \in 0..(call.seek + src.size) :
                              Asked(b) /\ FromSource(b) > 0 =>
                                b < Len(dst) /\ dst[b + 1] = FromSource(b)
    BY DEF NeighboursUntouched
  <2>1. \A b \in 0..(call.old - 1) : ~Asked(b) => dst[b + 1] = Old
    <3>1. CASE outcome = "open"
      <4>1. dst = [i \in 1..call.old |-> Old]
        BY <1>1, <3>1 DEF CopyInv, Types
      <4>2. \A b \in 0..(call.old - 1) : b + 1 \in 1..call.old
        BY <1>1
      <4>3. QED
        BY <4>1, <4>2
    <3>2. CASE outcome # "open"
      BY <3>2 DEF CopyInv, TargetSound
    <3>3. QED
      BY <3>1, <3>2
  <2>2. ASSUME outcome = "done", NEW b \in 0..(call.seek + src.size), Asked(b), FromSource(b) > 0
        PROVE  b < Len(dst) /\ dst[b + 1] = FromSource(b)
    <3>1. b \in Nat
      BY <1>1
    <3>2. FromSource(b) = 0 \/ (b < Len(dst) /\ dst[b + 1] = FromSource(b))
      BY <2>2, <3>1, AskedArrives
    <3>3. QED
      BY <2>2, <3>2
  <2>3. QED
    BY <2>1, <2>2
<1>4. QED
  BY <1>2, <1>3 DEF CopyExact

\* The invariant of sparse_copy and of the three file maps: every data byte of
\* the piece is copied, in the range under way, or still ahead in the map, and
\* what is ahead lies behind the range (filemap.py, sparse_copy and the
\* get_mapped_ranges generators).
THEOREM NothingLost == CopySpec => []CopyInv
<1>1. CopyInit => CopyInv
  BY CopyStarts, HostAssumption
<1>2. CopyInv /\ [CopyNext]_sparseVars => CopyInv'
  BY CopyKept
<1>3. QED
  BY <1>1, <1>2, PTL DEF CopySpec

\* A copy into a new target reads exactly as the piece of the source that was
\* asked for, a copy into an image arrives whole and touches no byte outside its
\* window, whichever file map the host offers (filemap.py, sparse_copy).
THEOREM CopiesExactly == CopySpec => []CopyExact
<1>1. CopyInv => CopyExact
  BY CopyIsExact
<1>2. QED
  BY NothingLost, <1>1, PTL

------------------------------------------------------------------------------
(* wic ls, cp, rm and write on an image and a medium.                      *)

Stages == {"start", "table", "image", "tool", "put", "copy", "done", "failed"}

\* The functions keep their domains.
DiskTypes ==
    /\ table \in Tables
    /\ cmd \in [Procs -> Commands] /\ stage \in [Procs -> Stages]
    /\ next \in [Procs -> Nat] /\ base \in [Procs -> Nat]
    /\ version \in [Numbers -> Nat]
    /\ DOMAIN image = Numbers /\ DOMAIN serial = Numbers
    /\ DOMAIN cache = Procs /\ DOMAIN sizes = Procs /\ DOMAIN target = Procs
    /\ image = [n \in Numbers |-> image[n]] /\ serial = [n \in Numbers |-> serial[n]]
    /\ cache = [p \in Procs |-> cache[p]] /\ sizes = [p \in Procs |-> sizes[p]]
    /\ target = [p \in Procs |-> target[p]]

\* What each command is at.
KindOf(p) ==
    /\ stage[p] \in {"start", "table"} => next[p] = 1
    /\ stage[p] \in {"table", "copy"} => cmd[p].kind = "write"
    /\ stage[p] \in {"image", "tool", "put"} =>
           cmd[p].kind # "write" /\ cmd[p].part \in Numbers

\* A process that has a partition out has it as it is in the image, or what its
\* command makes of that, unless the partition was put back in between.
FreshOut(p) ==
    stage[p] \in {"tool", "put"} =>
        LET n == cmd[p].part
        IN  /\ base[p] <= version[n] /\ n \in DOMAIN cache[p]
            /\ base[p] = version[n] =>
                   /\ stage[p] = "tool" => cache[p][n] = image[n]
                   /\ stage[p] = "put" => /\ After(cmd[p], image[n]) # None
                                          /\ cache[p][n] = After(cmd[p], image[n])

\* Partition n is on the medium of p, in the room that is its own there.
Delivered(p, n) ==
    /\ n \in DOMAIN target[p] /\ n \in DOMAIN cache[p]
    /\ target[p][n].holds # cache[p][n] => Part(n).fs = "swap"
    /\ \/ target[p][n].size <= sizes[p][n]
       \/ Part(n).fs = "fat" /\ sizes[p][n] # Part(n).size

\* How far wic write has come.
CopiedSoFar(p) ==
    stage[p] = "copy" =>
        /\ sizes[p] \in [DOMAIN table -> Nat \ {0}] /\ FitsMedium(sizes[p])
        /\ cmd[p].expand # None
        /\ \A n \in 1..(next[p] - 1) :
               n \in Numbers /\ (Supported(cmd[p], n) => Delivered(p, n))

\* What WriteKeepsAll says of one process.
WriteKept(p) ==
    stage[p] = "done" /\ cmd[p].kind = "write" =>
        /\ FitsMedium(sizes[p])
        /\ \A n \in Numbers : Supported(cmd[p], n) =>
               /\ n \in DOMAIN target[p]
               /\ cmd[p].expand # None /\ target[p][n].holds # cache[p][n] => Part(n).fs = "swap"
               /\ \/ target[p][n].size <= sizes[p][Position(n)]
                  \/ Part(n).fs = "fat" /\ sizes[p][Position(n)] # Part(n).size

Step(p) ==
    \/ OpenDisk(p) \/ GetPartImage(p) \/ RunTool(p) \/ PutPartImage(p)
    \/ WriteTable(p) \/ CopyPart(p) \/ EndWrite(p)

DiskInv ==
    /\ DiskTypes /\ SerialUnlessRace
    /\ \A p \in Procs : KindOf(p) /\ FreshOut(p) /\ CopiedSoFar(p) /\ WriteKept(p)

------------------------------------------------------------------------------
(* Helpers.                                                                *)

\* A set of naturals has a least member.
LEMMA Least ==
  ASSUME NEW T, T \subseteq Nat, T # {}
  PROVE  \E n \in T : \A m \in T : n <= m
<1> DEFINE R == {ss \in Nat \X Nat : ss[1] < ss[2]}
<1>1. IsWellFoundedOn(R, Nat)
  BY NatLessThanWellFounded DEF OpToRel
<1>2. PICK x \in T : \A y \in T : <<y, x>> \notin R
  <2> HIDE DEF R
  <2> QED
    BY <1>1, WFMin
<1>3. \A y \in T : ~(y < x)
  BY <1>2
<1>4. QED
  BY <1>3

\* An entry added in front of a function.
LEMMA Added ==
  ASSUME NEW n, NEW x, NEW f
  PROVE  /\ DOMAIN With(f, n, x) = DOMAIN f \cup {n}
         /\ With(f, n, x)[n] = x
         /\ \A m \in DOMAIN f : m # n => With(f, n, x)[m] = f[m]
  BY DEF With

\* The elements of a sequence.
LEMMA ElementOf ==
  ASSUME NEW S, NEW s \in Seq(S), NEW i \in DOMAIN s
  PROVE  s[i] \in S
  OBVIOUS

\* The table of an image.
LEMMA TableIs ==
  ASSUME table \in Tables
  PROVE  /\ table \in Seq([num : Nat \ {0}, size : Nat, fs : {"ext", "fat", "swap", "raw"}])
         /\ DOMAIN table = 1..Len(table) /\ Len(table) \in Nat
         /\ \A i \in DOMAIN table : table[i].num \in Nat \ {0} /\ table[i].size \in Nat
         /\ \A i, j \in DOMAIN table : i < j => table[i].num < table[j].num
<1>1. table \in Seq([num : Nat \ {0}, size : Nat, fs : {"ext", "fat", "swap", "raw"}])
  BY TablesAssumption
<1>2. DOMAIN table = 1..Len(table) /\ Len(table) \in Nat
  BY <1>1
<1>3. \A i \in DOMAIN table : table[i].num \in Nat \ {0} /\ table[i].size \in Nat
  <2> TAKE i \in DOMAIN table
  <2>1. table[i] \in [num : Nat \ {0}, size : Nat, fs : {"ext", "fat", "swap", "raw"}]
    BY <1>1, ElementOf
  <2>2. QED
    BY <2>1
<1>4. \A i, j \in DOMAIN table : i < j => table[i].num < table[j].num
  BY TablesAssumption
<1>5. QED
  BY <1>1, <1>2, <1>3, <1>4

\* No two entries have one number.
LEMMA NumbersDiffer ==
  ASSUME table \in Tables, NEW i \in DOMAIN table, NEW j \in DOMAIN table,
         table[i].num = table[j].num
  PROVE  i = j
<1>1. /\ i \in Nat /\ j \in Nat /\ table[i].num \in Nat
      /\ \A k, m \in DOMAIN table : k < m => table[k].num < table[m].num
  BY TableIs
<1>2. ~(i < j) /\ ~(j < i)
  BY <1>1
<1>3. QED
  BY <1>1, <1>2

\* Where a partition lies.
LEMMA PositionOf ==
  ASSUME table \in Tables, NEW n \in Numbers
  PROVE  /\ Position(n) \in DOMAIN table /\ table[Position(n)].num = n
         /\ Part(n) = table[Position(n)] /\ Part(n).size \in Nat
<1>1. \E i \in DOMAIN table : table[i].num = n
  BY DEF Numbers
<1>2. Position(n) \in DOMAIN table /\ table[Position(n)].num = n
  BY <1>1 DEF Position
<1>3. Part(n) = table[Position(n)]
  BY DEF Part, Position
<1>4. QED
  BY <1>2, <1>3, TableIs

\* Numbers grow along the table, so that numbers without a gap are positions.
LEMMA NumbersArePositions ==
  ASSUME table \in Tables, DOMAIN table \subseteq Numbers, NEW i \in DOMAIN table
  PROVE  table[i].num = i /\ Position(i) = i
<1> DEFINE T == {k \in DOMAIN table : table[k].num # k}
<1>1. T = {}
  <2> SUFFICES ASSUME T # {} PROVE FALSE
    OBVIOUS
  <2>1. T \subseteq Nat
    BY TableIs
  <2>2. PICK k \in T : \A j \in T : k <= j
    <3> HIDE DEF T
    <3> QED
      BY <2>1, Least
  <2>3. /\ k \in 1..Len(table) /\ Len(table) \in Nat /\ table[k].num # k
        /\ table[k].num \in Nat \ {0}
        /\ \A j \in 1..Len(table) : table[j].num \in Nat \ {0}
    BY TableIs
  <2>4. \A j \in 1..Len(table) : j < k => table[j].num = j
    <3> SUFFICES ASSUME NEW j \in 1..Len(table), j < k, table[j].num # j PROVE FALSE
      OBVIOUS
    <3>1. j \in T
      BY TableIs
    <3>2. k <= j
      BY <2>2, <3>1
    <3> QED
      BY <2>3, <3>2
  <2>5. table[k].num > k
    <3>1. CASE k = 1
      BY <2>3, <3>1
    <3>2. CASE k # 1
      <4> HIDE DEF T
      <4>a. DOMAIN table = 1..Len(table)
        BY TableIs
      <4>1. k - 1 \in 1..Len(table) /\ k - 1 < k
        BY <2>3, <3>2
      <4>b. k - 1 \in DOMAIN table /\ k \in DOMAIN table
        BY <2>3, <4>a, <4>1
      <4>2. table[k - 1].num = k - 1 /\ table[k - 1].num < table[k].num
        BY <4>1, <4>b, <2>4, TableIs
      <4>3. QED
        BY <4>2, <2>3
    <3>3. QED
      BY <3>1, <3>2
  <2>6. PICK j \in 1..Len(table) : table[j].num = k
    <3>1. k \in Numbers
      OBVIOUS
    <3>2. QED
      BY <3>1, TableIs DEF Numbers
  <2>7. CASE j < k
    BY <2>7, <2>6, <2>4, <2>3
  <2>8. CASE j = k
    BY <2>8, <2>6, <2>3
  <2>9. CASE j > k
    <3>1. table[k].num < table[j].num
      BY <2>9, <2>3, TableIs
    <3>2. QED
      BY <3>1, <2>5, <2>6, <2>3
  <2>10. QED
    BY <2>7, <2>8, <2>9, <2>3
<1>2. table[i].num = i
  BY <1>1
<1>3. i \in Numbers
  OBVIOUS
<1>4. Position(i) = i
  BY <1>2, <1>3, PositionOf, NumbersDiffer
<1>5. QED
  BY <1>2, <1>4

------------------------------------------------------------------------------
(* The invariant.  Steps of wic write leave what the other commands are    *)
(* judged by alone, and theirs leave the medium of wic write alone.        *)

\* The table is read once: what is known of its entries stays.
LEMMA TableKept ==
  ASSUME UNCHANGED <<table, device>>
  PROVE  /\ Numbers' = Numbers
         /\ \A n : Part(n)' = Part(n)
         /\ \A c, n : Supported(c, n)' = Supported(c, n)
         /\ \A c, t : After(c, t)' = After(c, t)
         /\ \A ss : FitsMedium(ss)' = FitsMedium(ss)
         /\ \A n : Position(n)' = Position(n)
<1>1. Numbers' = Numbers /\ (\A n : Part(n)' = Part(n)) /\ (\A n : Position(n)' = Position(n))
  BY DEF Numbers, Part, Position
<1>2. \A c, n : Supported(c, n)' = Supported(c, n)
  BY <1>1 DEF Supported
<1>3. \A c, t : After(c, t)' = After(c, t)
  BY <1>1 DEF After, IsExt
<1>4. \A ss : FitsMedium(ss)' = FitsMedium(ss)
  BY DEF FitsMedium
<1>5. QED
  BY <1>1, <1>2, <1>3, <1>4

\* The commands start with nothing read.
LEMMA DiskStarts ==
  ASSUME DiskInit
  PROVE  DiskInv
<1>1. DiskTypes
  BY DEF DiskInit, DiskTypes, Stages
<1>2. \A p \in Procs : KindOf(p) /\ FreshOut(p) /\ CopiedSoFar(p) /\ WriteKept(p)
  BY DEF DiskInit, KindOf, FreshOut, CopiedSoFar, WriteKept
<1>3. SerialUnlessRace
  BY DEF DiskInit, SerialUnlessRace
<1>4. QED
  BY <1>1, <1>2, <1>3 DEF DiskInv

\* A step is of one process: it changes nothing of the others, and neither the
\* table, the medium nor any command.
LEMMA OneMoves ==
  ASSUME DiskTypes, NEW p \in Procs, Step(p)
  PROVE  /\ table' = table /\ device' = device /\ cmd' = cmd
         /\ \A q \in Procs : q # p =>
                /\ stage'[q] = stage[q] /\ cache'[q] = cache[q] /\ sizes'[q] = sizes[q]
                /\ next'[q] = next[q] /\ target'[q] = target[q] /\ base'[q] = base[q]
<1>1. CASE OpenDisk(p)
  BY <1>1 DEF OpenDisk, Fail, DiskTypes
<1>2. CASE GetPartImage(p)
  BY <1>2 DEF GetPartImage, Fail, DiskTypes
<1>3. CASE RunTool(p)
  BY <1>3 DEF RunTool, Fail, DiskTypes
<1>4. CASE PutPartImage(p)
  BY <1>4 DEF PutPartImage, DiskTypes
<1>5. CASE WriteTable(p)
  BY <1>5 DEF WriteTable, Fail, DiskTypes
<1>6. CASE CopyPart(p)
  BY <1>6 DEF CopyPart, Fail, DiskTypes
<1>7. CASE EndWrite(p)
  BY <1>7 DEF EndWrite, DiskTypes
<1>8. QED
  BY <1>1, <1>2, <1>3, <1>4, <1>5, <1>6, <1>7 DEF Step

\* Only PutPartImage touches the image.
LEMMA ImageStays ==
  ASSUME NEW p \in Procs, Step(p), ~PutPartImage(p)
  PROVE  UNCHANGED <<image, serial, version, mixed>>
  BY DEF Step, OpenDisk, GetPartImage, RunTool, WriteTable, CopyPart, EndWrite, Fail

\* What becomes of one partition in wic write: it ends the command, is passed
\* over, or is copied.
Passed(p) ==
    /\ next[p] <= Len(table) /\ next[p] \in Numbers /\ ~Supported(cmd[p], next[p])
    /\ next' = [next EXCEPT ![p] = @ + 1]
    /\ UNCHANGED <<table, image, device, cmd, stage, cache, sizes, target, serial, version, base,
                   mixed>>

DiskCopied(p) ==
    /\ next[p] <= Len(table) /\ next[p] \in Numbers
    /\ target' = [target EXCEPT ![p] = With(@, next[p], NewContent(p, next[p]))]
    /\ cache' = [cache EXCEPT ![p] = With(@, next[p], image[next[p]])]
    /\ next' = [next EXCEPT ![p] = @ + 1]
    /\ UNCHANGED <<table, image, device, cmd, stage, sizes, serial, version, base, mixed>>

LEMMA CopyPartDoes ==
  ASSUME NEW p, CopyPart(p)
  PROVE  Fail(p) \/ Passed(p) \/ DiskCopied(p)
  BY DEF CopyPart, Passed, DiskCopied

\* The functions keep their domains.
LEMMA TypesKept ==
  ASSUME DiskTypes, NEW p \in Procs, KindOf(p), Step(p)
  PROVE  DiskTypes'
<1>1. table' = table /\ cmd' = cmd /\ Numbers' = Numbers
  BY OneMoves, TableKept
<1>2. CASE OpenDisk(p)
  BY <1>1, <1>2 DEF OpenDisk, Fail, DiskTypes, Stages
<1>3. CASE GetPartImage(p)
  <2>1. cmd[p].part \in Numbers /\ version[cmd[p].part] \in Nat
    BY <1>3 DEF GetPartImage, DiskTypes, KindOf
  <2>2. base' \in [Procs -> Nat] /\ stage' \in [Procs -> Stages]
    BY <1>3, <2>1 DEF GetPartImage, Fail, DiskTypes, Stages
  <2>3. DOMAIN cache' = Procs /\ cache' = [q \in Procs |-> cache'[q]]
    BY <1>3 DEF GetPartImage, Fail, DiskTypes
  <2>4. UNCHANGED <<image, sizes, next, target, serial, version>>
    BY <1>3 DEF GetPartImage, Fail
  <2>5. QED
    BY <1>1, <2>2, <2>3, <2>4 DEF DiskTypes
<1>4. CASE RunTool(p)
  BY <1>1, <1>4 DEF RunTool, Fail, DiskTypes, Stages
<1>5. CASE PutPartImage(p)
  <2>1. /\ DOMAIN image' = Numbers /\ image' = [n \in Numbers |-> image'[n]]
        /\ DOMAIN serial' = Numbers /\ serial' = [n \in Numbers |-> serial'[n]]
    BY <1>5 DEF PutPartImage, DiskTypes
  <2>2. version' \in [Numbers -> Nat]
    <3>1. cmd[p].part \in Numbers /\ version[cmd[p].part] \in Nat
      BY <1>5 DEF PutPartImage, DiskTypes, KindOf
    <3>2. version[cmd[p].part] + 1 \in Nat
      BY <3>1
    <3>3. QED
      BY <1>5, <3>1, <3>2 DEF PutPartImage, DiskTypes
  <2>3. stage' \in [Procs -> Stages] /\ UNCHANGED <<cache, sizes, next, target, base>>
    BY <1>5 DEF PutPartImage, DiskTypes, Stages
  <2>4. QED
    BY <1>1, <2>1, <2>2, <2>3 DEF DiskTypes
<1>6. CASE WriteTable(p)
  BY <1>1, <1>6 DEF WriteTable, Fail, DiskTypes, Stages
<1>7. CASE CopyPart(p)
  <2>1. CASE Fail(p)
    BY <1>1, <2>1 DEF Fail, DiskTypes, Stages
  <2>2. CASE Passed(p)
    BY <1>1, <2>2 DEF Passed, DiskTypes, Stages
  <2>3. CASE DiskCopied(p)
    <3>1. /\ DOMAIN cache' = Procs /\ cache' = [q \in Procs |-> cache'[q]]
          /\ DOMAIN target' = Procs /\ target' = [q \in Procs |-> target'[q]]
      BY <2>3 DEF DiskCopied, DiskTypes
    <3>2. next' \in [Procs -> Nat]
      BY <2>3 DEF DiskCopied, DiskTypes
    <3>3. QED
      BY <1>1, <2>3, <3>1, <3>2 DEF DiskCopied, DiskTypes
  <2>4. QED
    BY <1>7, <2>1, <2>2, <2>3, CopyPartDoes
<1>8. CASE EndWrite(p)
  BY <1>1, <1>8 DEF EndWrite, DiskTypes, Stages
<1>9. QED
  BY <1>2, <1>3, <1>4, <1>5, <1>6, <1>7, <1>8 DEF Step

\* Nothing of what is known of another process is touched, but that a partition
\* it has out may be put back.
LEMMA OthersKept ==
  ASSUME DiskTypes, NEW p \in Procs, Step(p), NEW q \in Procs, q # p,
         KindOf(q), FreshOut(q), CopiedSoFar(q), WriteKept(q), KindOf(p)
  PROVE  KindOf(q)' /\ FreshOut(q)' /\ CopiedSoFar(q)' /\ WriteKept(q)'
<1>1. /\ table' = table /\ device' = device /\ cmd' = cmd
      /\ stage'[q] = stage[q] /\ cache'[q] = cache[q] /\ sizes'[q] = sizes[q]
      /\ next'[q] = next[q] /\ target'[q] = target[q] /\ base'[q] = base[q]
  BY OneMoves
<1>2. /\ Numbers' = Numbers
      /\ \A n : Part(n)' = Part(n) /\ Position(n)' = Position(n)
      /\ \A c, n : Supported(c, n)' = Supported(c, n)
      /\ \A c, t : After(c, t)' = After(c, t)
      /\ \A ss : FitsMedium(ss)' = FitsMedium(ss)
  BY <1>1, TableKept
<1>3. KindOf(q)'
  BY <1>1, <1>2 DEF KindOf
<1>4. CopiedSoFar(q)'
  <2>1. \A n : Delivered(q, n)' = Delivered(q, n)
    BY <1>1, <1>2 DEF Delivered
  <2>2. QED
    BY <1>1, <1>2, <2>1 DEF CopiedSoFar
<1>5. WriteKept(q)'
  BY <1>1, <1>2 DEF WriteKept
<1>6. FreshOut(q)'
  <2> DEFINE n == cmd[q].part
  <2> SUFFICES ASSUME stage[q] \in {"tool", "put"} PROVE FreshOut(q)'
    BY <1>1 DEF FreshOut
  <2>1. n \in Numbers /\ base[q] \in Nat /\ version[n] \in Nat /\ base[q] <= version[n]
    BY DEF FreshOut, KindOf, DiskTypes
  <2>2. CASE ~PutPartImage(p) \/ cmd[p].part # n
    <3>1. image'[n] = image[n] /\ version'[n] = version[n]
      <4>1. CASE PutPartImage(p)
        BY <2>2, <4>1, <2>1 DEF PutPartImage, DiskTypes
      <4>2. CASE ~PutPartImage(p)
        BY <4>2, ImageStays
      <4>3. QED
        BY <4>1, <4>2
    <3>2. QED
      BY <1>1, <1>2, <3>1 DEF FreshOut
  <2>3. CASE PutPartImage(p) /\ cmd[p].part = n
    <3>1. version'[n] = version[n] + 1
      BY <2>1, <2>3 DEF PutPartImage, DiskTypes
    <3>2. base[q] <= version'[n] /\ base[q] # version'[n]
      BY <2>1, <3>1
    <3>3. QED
      BY <1>1, <3>2 DEF FreshOut
  <2>4. QED
    BY <2>2, <2>3
<1>7. QED
  BY <1>3, <1>4, <1>5, <1>6

\* A command that fails has nothing to answer for.
LEMMA Failed ==
  ASSUME DiskTypes, NEW p \in Procs, Fail(p)
  PROVE  KindOf(p)' /\ FreshOut(p)' /\ CopiedSoFar(p)' /\ WriteKept(p)'
<1>1. stage'[p] = "failed"
  BY DEF Fail, DiskTypes
<1>2. QED
  BY <1>1 DEF KindOf, FreshOut, CopiedSoFar, WriteKept

LEMMA OpenKept ==
  ASSUME DiskTypes, NEW p \in Procs, KindOf(p), OpenDisk(p)
  PROVE  KindOf(p)' /\ FreshOut(p)' /\ CopiedSoFar(p)' /\ WriteKept(p)'
<1>1. CASE Fail(p)
  BY <1>1, Failed
<1>2. CASE ~Fail(p)
  <2>1. /\ stage'[p] = IF cmd[p].kind = "write" THEN "table" ELSE "image"
        /\ cmd[p].kind # "write" => cmd[p].part \in Numbers
        /\ cmd' = cmd /\ table' = table /\ next'[p] = 1
    BY <1>2 DEF OpenDisk, DiskTypes, KindOf
  <2>2. Numbers' = Numbers
    BY <2>1 DEF Numbers
  <2>3. QED
    BY <2>1, <2>2 DEF KindOf, FreshOut, CopiedSoFar, WriteKept
<1>3. QED
  BY <1>1, <1>2

\* The copy is the partition as it is.
LEMMA GetKept ==
  ASSUME DiskTypes, NEW p \in Procs, KindOf(p), GetPartImage(p)
  PROVE  KindOf(p)' /\ FreshOut(p)' /\ CopiedSoFar(p)' /\ WriteKept(p)'
<1>1. CASE Fail(p)
  BY <1>1, Failed
<1>2. CASE ~Fail(p)
  <2> DEFINE n == cmd[p].part
  <2>1. /\ stage'[p] = "tool" /\ base'[p] = version[n]
        /\ cache'[p] = With(cache[p], n, image[n])
        /\ UNCHANGED <<table, image, cmd, version>>
    BY <1>2 DEF GetPartImage, DiskTypes
  <2>2. n \in Numbers /\ version[n] \in Nat /\ cmd[p].kind # "write"
    BY DEF GetPartImage, KindOf, DiskTypes
  <2>3. Numbers' = Numbers
    BY <2>1 DEF Numbers
  <2>4. n \in DOMAIN cache'[p] /\ cache'[p][n] = image[n]
    BY <2>1 DEF With
  <2>5. version[n] <= version[n]
    BY <2>2
  <2>6. FreshOut(p)'
    BY <2>1, <2>4, <2>5 DEF FreshOut
  <2>7. QED
    BY <2>1, <2>2, <2>3, <2>6 DEF KindOf, CopiedSoFar, WriteKept
<1>3. QED
  BY <1>1, <1>2

\* The tool works on the copy; what it makes of a fresh one it would make of the
\* partition.
LEMMA RunKept ==
  ASSUME DiskTypes, NEW p \in Procs, KindOf(p), FreshOut(p), RunTool(p)
  PROVE  KindOf(p)' /\ FreshOut(p)' /\ CopiedSoFar(p)' /\ WriteKept(p)'
<1>1. CASE Fail(p)
  BY <1>1, Failed
<1>2. CASE ~Fail(p)
  <2> DEFINE n == cmd[p].part
             t == After(cmd[p], cache[p][n])
  <2>1. /\ t # None /\ stage[p] = "tool"
        /\ stage'[p] = IF cmd[p].kind = "ls" THEN "done" ELSE "put"
        /\ cache'[p] = [cache[p] EXCEPT ![n] = t]
        /\ UNCHANGED <<table, image, device, cmd, version, base>>
    BY <1>2 DEF RunTool, ToolFailed, DiskTypes
  <2>2. /\ cmd[p].kind # "write" /\ n \in Numbers
        /\ base[p] <= version[n] /\ n \in DOMAIN cache[p]
        /\ base[p] = version[n] => cache[p][n] = image[n]
    BY <2>1 DEF KindOf, FreshOut
  <2>3. Numbers' = Numbers /\ \A c, x : After(c, x)' = After(c, x)
    BY <2>1, TableKept
  <2>4. n \in DOMAIN cache'[p] /\ cache'[p][n] = t
    BY <2>1, <2>2
  <2>5. base[p] = version[n] => t = After(cmd[p], image[n])
    BY <2>2
  <2> HIDE DEF t
  <2>6. FreshOut(p)'
    BY <2>1, <2>2, <2>3, <2>4, <2>5 DEF FreshOut
  <2>7. QED
    BY <2>1, <2>2, <2>3, <2>6 DEF KindOf, CopiedSoFar, WriteKept
<1>3. QED
  BY <1>1, <1>2

LEMMA PutKept ==
  ASSUME DiskTypes, NEW p \in Procs, KindOf(p), PutPartImage(p)
  PROVE  KindOf(p)' /\ FreshOut(p)' /\ CopiedSoFar(p)' /\ WriteKept(p)'
<1>1. stage'[p] = "done" /\ cmd' = cmd /\ cmd[p].kind # "write"
  BY DEF PutPartImage, DiskTypes, KindOf
<1>2. QED
  BY <1>1 DEF KindOf, FreshOut, CopiedSoFar, WriteKept

\* A partition that was not changed while it was out is what the command makes of it.
LEMMA SerialKept ==
  ASSUME DiskTypes, NEW p \in Procs, KindOf(p), FreshOut(p), SerialUnlessRace, PutPartImage(p)
  PROVE  SerialUnlessRace'
<1> DEFINE n == cmd[p].part
<1>1. /\ n \in Numbers /\ stage[p] = "put" /\ table' = table
      /\ image' = [image EXCEPT ![n] = cache[p][n]]
      /\ serial' = [serial EXCEPT ![n] = IF After(cmd[p], @) = None THEN @ ELSE After(cmd[p], @)]
      /\ mixed' = IF version[n] = base[p] THEN mixed ELSE mixed \cup {n}
  BY DEF PutPartImage, KindOf
<1>2. /\ image'[n] = cache[p][n]
      /\ serial'[n] = IF After(cmd[p], serial[n]) = None THEN serial[n]
                      ELSE After(cmd[p], serial[n])
      /\ \A m \in Numbers : m # n => image'[m] = image[m] /\ serial'[m] = serial[m]
  BY <1>1 DEF DiskTypes
<1>3. base[p] = version[n] => /\ After(cmd[p], image[n]) # None
                              /\ cache[p][n] = After(cmd[p], image[n])
  BY <1>1 DEF FreshOut
<1>4. Numbers' = Numbers
  BY <1>1 DEF Numbers
<1>5. SUFFICES ASSUME NEW m \in Numbers, m \notin mixed' PROVE image'[m] = serial'[m]
  BY <1>4 DEF SerialUnlessRace
<1>6. image[m] = serial[m]
  BY <1>1, <1>5 DEF SerialUnlessRace
<1>7. CASE m # n
  BY <1>2, <1>6, <1>7
<1>8. CASE m = n
  <2>1. version[n] = base[p]
    BY <1>1, <1>5, <1>8
  <2>2. QED
    BY <1>2, <1>3, <1>6, <1>8, <2>1
<1>9. QED
  BY <1>7, <1>8

\* What wic write knows of sizes: without any to change, the table is copied as it is.
LEMMA TableKeptAsIs ==
  ASSUME DiskTypes, NEW p \in Procs, KindOf(p), WriteTable(p)
  PROVE  KindOf(p)' /\ FreshOut(p)' /\ CopiedSoFar(p)' /\ WriteKept(p)'
<1> DEFINE ss == Resized(cmd[p].expand)
<1>1. /\ stage[p] = "table" /\ cmd[p].kind = "write"
  BY DEF WriteTable, KindOf
<1>2. CASE Fail(p)
  BY <1>2, Failed
<1>3. CASE ~Fail(p) /\ cmd[p].expand = None
  <2>1. /\ FitsMedium(TableSizes)
        /\ stage'[p] = "done" /\ sizes'[p] = TableSizes
        /\ target'[p] = [n \in Numbers |-> [holds |-> image[n], size |-> Part(n).size]]
        /\ table' = table /\ cmd' = cmd /\ device' = device
    BY <1>3 DEF WriteTable, DiskTypes
  <2>2. /\ Numbers' = Numbers
        /\ \A n : Part(n)' = Part(n) /\ Position(n)' = Position(n)
        /\ \A s : FitsMedium(s)' = FitsMedium(s)
    BY <2>1, TableKept
  <2>3. \A n \in Numbers : /\ n \in DOMAIN target'[p]
                           /\ target'[p][n].size <= sizes'[p][Position(n)]
    <3> TAKE n \in Numbers
    <3>1. /\ Position(n) \in DOMAIN table /\ Part(n) = table[Position(n)] /\ Part(n).size \in Nat
      BY PositionOf DEF DiskTypes
    <3>2. sizes'[p][Position(n)] = Part(n).size
      BY <2>1, <3>1 DEF TableSizes
    <3>3. target'[p][n].size = Part(n).size /\ n \in DOMAIN target'[p]
      BY <2>1
    <3>4. QED
      BY <3>1, <3>2, <3>3
  <2>4. WriteKept(p)'
    BY <1>3, <2>1, <2>2, <2>3 DEF WriteKept
  <2>5. QED
    BY <2>1, <2>4 DEF KindOf, FreshOut, CopiedSoFar
<1>4. CASE ~Fail(p) /\ cmd[p].expand # None
  <2>1. /\ ss \in Seq(Nat \ {0}) /\ FitsMedium(ss)
        /\ stage'[p] = "copy" /\ sizes'[p] = ss
        /\ table' = table /\ cmd' = cmd /\ device' = device /\ next' = next
    BY <1>4 DEF WriteTable, DiskTypes
  <2>2. /\ Numbers' = Numbers /\ \A s : FitsMedium(s)' = FitsMedium(s)
    BY <2>1, TableKept
  <2>3. DOMAIN ss = DOMAIN table
    BY DEF Resized
  <2> HIDE DEF ss
  <2>4. ss \in [DOMAIN table -> Nat \ {0}]
    BY <2>1, <2>3
  <2>5. 1..(next'[p] - 1) = {}
    BY <1>1, <2>1 DEF KindOf
  <2>6. CopiedSoFar(p)'
    BY <1>4, <2>1, <2>2, <2>4, <2>5 DEF CopiedSoFar
  <2>7. QED
    BY <1>1, <2>1, <2>6 DEF KindOf, FreshOut, WriteKept
<1>5. QED
  BY <1>2, <1>3, <1>4

\* A partition is copied whole, or to a file system that is made anew in its room.
LEMMA ContentFits ==
  ASSUME DiskTypes, NEW p \in Procs, stage[p] = "copy", CopiedSoFar(p), DiskCopied(p),
         NEW n, n = next[p]
  PROVE  Delivered(p, n)'
<1>1. /\ n \in Numbers /\ table' = table /\ sizes' = sizes
      /\ target'[p] = With(target[p], n, NewContent(p, n))
      /\ cache'[p] = With(cache[p], n, image[n])
  BY DEF DiskCopied, DiskTypes
<1>2. /\ n \in DOMAIN target'[p] /\ target'[p][n] = NewContent(p, n)
      /\ n \in DOMAIN cache'[p] /\ cache'[p][n] = image[n]
  BY <1>1 DEF With
<1>3. NewContent(p, n).holds # image[n] => Part(n).fs = "swap"
  BY DEF NewContent
<1>4. \/ NewContent(p, n).size <= sizes[p][n]
      \/ (Part(n).fs = "fat" /\ sizes[p][n] # Part(n).size)
  <2>1. Part(n).size \in Nat
    BY <1>1, PositionOf DEF DiskTypes
  <2>2. sizes[p][n] \in Nat
    <3>1. n \in DOMAIN table
      <4>1. n \in Nat \ {0} /\ n <= Len(table)
        BY <1>1, PositionOf, TableIs DEF DiskTypes, DiskCopied
      <4>2. QED
        BY <4>1, TableIs DEF DiskTypes
    <3>2. QED
      BY <3>1 DEF CopiedSoFar
  <2>3. CASE sizes[p][n] = Part(n).size
    <3>1. NewContent(p, n).size = sizes[p][n]
      BY <2>3 DEF NewContent, Unchanged
    <3>2. QED
      BY <3>1, <2>2
  <2>4. CASE sizes[p][n] # Part(n).size /\ Part(n).fs # "fat"
    <3>1. NewContent(p, n).size = sizes[p][n]
      BY <2>4 DEF NewContent, Unchanged
    <3>2. QED
      BY <3>1, <2>2
  <2>5. QED
    BY <2>3, <2>4
<1>5. \A m : Part(m)' = Part(m)
  BY <1>1 DEF Part
<1>6. QED
  BY <1>1, <1>2, <1>3, <1>4, <1>5 DEF Delivered

\* What wic write has copied stays as it goes on, entry by entry.
LEMMA DiskCopyKept ==
  ASSUME DiskTypes, NEW p \in Procs, KindOf(p), CopiedSoFar(p), CopyPart(p)
  PROVE  KindOf(p)' /\ FreshOut(p)' /\ CopiedSoFar(p)' /\ WriteKept(p)'
<1>0. PICK k : k = next[p]
  OBVIOUS
<1>1. CASE Fail(p)
  BY <1>1, Failed
<1>2. CASE Passed(p) \/ DiskCopied(p)
  <2>1. /\ stage[p] = "copy" /\ stage' = stage /\ sizes' = sizes /\ k \in Nat /\ k \in Numbers
        /\ next'[p] = k + 1 /\ UNCHANGED <<table, device, cmd>>
    BY <1>0, <1>2 DEF CopyPart, Passed, DiskCopied, DiskTypes
  <2>2. /\ Numbers' = Numbers /\ \A s : FitsMedium(s)' = FitsMedium(s)
        /\ \A n : Part(n)' = Part(n)
        /\ \A c, n : Supported(c, n)' = Supported(c, n)
    BY <2>1, TableKept
  <2>3. \A m \in 1..(k - 1) : Delivered(p, m) => Delivered(p, m)'
    <3> SUFFICES ASSUME NEW m \in 1..(k - 1), Delivered(p, m) PROVE Delivered(p, m)'
      OBVIOUS
    <3>1. m # k
      BY <2>1
    <3>2. /\ m \in DOMAIN target'[p] /\ target'[p][m] = target[p][m]
          /\ m \in DOMAIN cache'[p] /\ cache'[p][m] = cache[p][m]
      <4>1. CASE Passed(p)
        BY <4>1 DEF Passed, Delivered
      <4>2. CASE DiskCopied(p)
        <5>1. /\ target'[p] = With(target[p], k, NewContent(p, k))
              /\ cache'[p] = With(cache[p], k, image[k])
          BY <1>0, <4>2 DEF DiskCopied, DiskTypes
        <5>2. m \in DOMAIN target[p] /\ m \in DOMAIN cache[p]
          BY DEF Delivered
        <5>3. QED
          BY <3>1, <5>1, <5>2 DEF With
      <4>3. QED
        BY <1>2, <4>1, <4>2
    <3>3. QED
      BY <2>1, <2>2, <3>2 DEF Delivered
  <2>4. Supported(cmd[p], k) => Delivered(p, k)'
    <3>1. CASE Passed(p)
      BY <1>0, <3>1 DEF Passed
    <3>2. CASE DiskCopied(p)
      BY <1>0, <2>1, <3>2, ContentFits
    <3>3. QED
      BY <1>2, <3>1, <3>2
  <2>5. \A m \in 1..(next'[p] - 1) :
            m \in Numbers /\ (Supported(cmd[p], m) => Delivered(p, m)')
    <3> TAKE m \in 1..(next'[p] - 1)
    <3>1. m = k \/ m \in 1..(k - 1)
      BY <2>1
    <3>2. CASE m = k
      BY <2>1, <2>4, <3>2
    <3>3. CASE m \in 1..(k - 1)
      BY <1>0, <2>1, <2>3, <3>3 DEF CopiedSoFar
    <3>4. QED
      BY <3>1, <3>2, <3>3
  <2>6. CopiedSoFar(p)'
    BY <2>1, <2>2, <2>5 DEF CopiedSoFar
  <2>7. QED
    BY <2>1, <2>2, <2>6 DEF KindOf, FreshOut, WriteKept
<1>3. QED
  BY <1>1, <1>2, CopyPartDoes

\* When every entry of the table was some partition's number, the numbers are the
\* positions, and each partition lies where its number says.
LEMMA EndKept ==
  ASSUME DiskTypes, NEW p \in Procs, KindOf(p), CopiedSoFar(p), EndWrite(p)
  PROVE  KindOf(p)' /\ FreshOut(p)' /\ CopiedSoFar(p)' /\ WriteKept(p)'
<1>1. /\ stage[p] = "copy" /\ stage'[p] = "done" /\ next[p] > Len(table) /\ next[p] \in Nat
      /\ UNCHANGED <<table, device, cmd, cache, sizes, target>>
  BY DEF EndWrite, DiskTypes
<1>2. /\ Numbers' = Numbers /\ \A s : FitsMedium(s)' = FitsMedium(s)
      /\ \A n : Part(n)' = Part(n) /\ Position(n)' = Position(n)
      /\ \A c, n : Supported(c, n)' = Supported(c, n)
  BY <1>1, TableKept
<1>3. \A n \in DOMAIN table : n \in 1..(next[p] - 1)
  BY <1>1, TableIs DEF DiskTypes
<1>4. DOMAIN table \subseteq Numbers
  BY <1>1, <1>3 DEF CopiedSoFar
<1>5. \A n \in Numbers : n \in DOMAIN table /\ Position(n) = n
  <2> TAKE n \in Numbers
  <2>1. Position(n) \in DOMAIN table /\ table[Position(n)].num = n
    BY PositionOf DEF DiskTypes
  <2>2. table[Position(n)].num = Position(n)
    BY <1>4, <2>1, NumbersArePositions DEF DiskTypes
  <2>3. QED
    BY <2>1, <2>2
<1>6. \A n \in Numbers : Supported(cmd[p], n) => Delivered(p, n)
  BY <1>1, <1>3, <1>5 DEF CopiedSoFar
<1>7. FitsMedium(sizes[p]) /\ cmd[p].kind = "write"
  BY <1>1 DEF CopiedSoFar, KindOf
<1>8. WriteKept(p)'
  BY <1>1, <1>2, <1>5, <1>6, <1>7 DEF WriteKept, Delivered
<1>9. QED
  BY <1>1, <1>8 DEF KindOf, FreshOut, CopiedSoFar

\* One step of one process.
LEMMA OwnKept ==
  ASSUME DiskInv, NEW p \in Procs, Step(p)
  PROVE  KindOf(p)' /\ FreshOut(p)' /\ CopiedSoFar(p)' /\ WriteKept(p)'
<1>1. DiskTypes /\ KindOf(p) /\ FreshOut(p) /\ CopiedSoFar(p) /\ WriteKept(p)
  BY DEF DiskInv
<1>2. QED
  BY <1>1, OpenKept, GetKept, RunKept, PutKept, TableKeptAsIs, DiskCopyKept, EndKept DEF Step

\* The invariant is one.
LEMMA DiskKept ==
  ASSUME DiskInv, [DiskNext]_diskVars
  PROVE  DiskInv'
<1>1. CASE UNCHANGED diskVars
  <2>1. /\ table' = table /\ device' = device /\ image' = image /\ cmd' = cmd
        /\ stage' = stage /\ cache' = cache /\ sizes' = sizes /\ next' = next
        /\ target' = target /\ serial' = serial /\ version' = version
        /\ base' = base /\ mixed' = mixed
    BY <1>1 DEF diskVars
  <2>2. /\ Numbers' = Numbers /\ \A s : FitsMedium(s)' = FitsMedium(s)
        /\ \A n : Part(n)' = Part(n) /\ Position(n)' = Position(n)
        /\ \A c, n : Supported(c, n)' = Supported(c, n)
        /\ \A c, t : After(c, t)' = After(c, t)
    BY <2>1, TableKept
  <2>3. DiskTypes' /\ SerialUnlessRace'
    BY <2>1, <2>2 DEF DiskInv, DiskTypes, SerialUnlessRace
  <2>4. \A p \in Procs : KindOf(p)' /\ FreshOut(p)' /\ WriteKept(p)'
    BY <2>1, <2>2 DEF DiskInv, KindOf, FreshOut, WriteKept
  <2>5. \A p \in Procs : CopiedSoFar(p)'
    <3>1. \A p, n : Delivered(p, n)' = Delivered(p, n)
      BY <2>1, <2>2 DEF Delivered
    <3>2. QED
      BY <2>1, <2>2, <3>1 DEF DiskInv, CopiedSoFar
  <2>6. QED
    BY <2>3, <2>4, <2>5 DEF DiskInv
<1>2. CASE DiskNext
  <2>1. PICK p \in Procs : Step(p)
    BY <1>2 DEF DiskNext, Step
  <2>2. DiskTypes'
    BY <2>1, TypesKept DEF DiskInv
  <2>3. \A q \in Procs : KindOf(q)' /\ FreshOut(q)' /\ CopiedSoFar(q)' /\ WriteKept(q)'
    <3> TAKE q \in Procs
    <3>1. CASE q = p
      BY <2>1, <3>1, OwnKept
    <3>2. CASE q # p
      BY <2>1, <3>2, OthersKept DEF DiskInv
    <3>3. QED
      BY <3>1, <3>2
  <2>4. SerialUnlessRace'
    <3>1. CASE PutPartImage(p)
      BY <3>1, SerialKept DEF DiskInv
    <3>2. CASE ~PutPartImage(p)
      <4>1. UNCHANGED <<image, serial, mixed>> /\ Numbers' = Numbers
        BY <2>1, <3>2, ImageStays, OneMoves, TableKept DEF DiskInv
      <4>2. QED
        BY <4>1 DEF DiskInv, SerialUnlessRace
    <3>3. QED
      BY <3>1, <3>2
  <2>5. QED
    BY <2>2, <2>3, <2>4 DEF DiskInv
<1>3. QED
  BY <1>1, <1>2

------------------------------------------------------------------------------
\* What every wic command at work has of the image: a copy that is fresh unless
\* the partition was put back meanwhile, and of a medium what it has copied so
\* far (engine.py, class Disk).
THEOREM DiskInvariant == DiskSpec => []DiskInv
<1>1. DiskInit => DiskInv
  BY DiskStarts
<1>2. DiskInv /\ [DiskNext]_diskVars => DiskInv'
  BY DiskKept
<1>3. QED
  BY <1>1, <1>2, PTL DEF DiskSpec

\* However many wic cp, rm, ls and write run at once on an image: a partition that
\* no two of them had out together holds what they make of it one after the other,
\* and a finished wic write has every partition it knows on the medium, whole, in
\* its own room (engine.py, class Disk).
THEOREM CommandsKeepPartitions == DiskSpec => []DiskSound
<1>1. DiskInv => DiskSound
  BY DEF DiskInv, DiskSound, WriteKeepsAll, WriteKept
<1>2. QED
  BY DiskInvariant, <1>1, PTL
==============================================================================
