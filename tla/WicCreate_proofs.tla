--------------------------- MODULE WicCreate_proofs --------------------------
(***************************************************************************)
(* Proofs about WicCreate, for any kickstart files, trees, lists of boot   *)
(* files and command lines: every partition of a finished image holds what *)
(* was made for it, the new fstab where it belongs, no more than it has    *)
(* room for, and unified kernels whose sections do not overlap.            *)
(***************************************************************************)
EXTENDS WicCreate, FiniteSetTheorems, TLAPS

------------------------------------------------------------------------------
(* Unified kernels.                                                         *)

\* The next aligned address is a multiple of the alignment, and further on.
LEMMA NextAlignedBehind ==
    ASSUME NEW off \in Nat, NEW align \in Nat \ {0}
    PROVE  /\ NextAligned(off, align) \in Nat
           /\ NextAligned(off, align) > off
           /\ NextAligned(off, align) % align = 0
<1>1. /\ off % align \in 0..(align - 1)
      /\ off = align * (off \div align) + (off % align)
  BY SMT
<1>2. off + align - (off % align) = align * ((off \div align) + 1)
  BY <1>1, SMT
<1>3. (off \div align) + 1 \in Int
  BY SMT
<1>4. \A k \in Int : (align * k) % align = 0
  BY SMT
<1>5. (off + align - (off % align)) % align = 0
  BY <1>2, <1>3, <1>4, Zenon
<1>6. off + align - (off % align) \in Nat /\ off + align - (off % align) > off
  BY <1>1, SMT
<1> QED BY <1>5, <1>6, Zenon DEF NextAligned

\* bootimg-efi.py:341-366: for every stub, alignment and size, each section is
\* aligned and lies behind the end of the one before it.
THEOREM SectionsNeverOverlap ==
    ASSUME NEW u \in Uki
    PROVE  Apart(Sections(u), u.stub, u.align)
<1>1. /\ u.stub \in Nat /\ u.align \in Nat \ {0} /\ u.osrel \in Nat
      /\ u.cmdline \in Nat /\ u.linux \in Nat /\ u.initrd \in Nat
  BY DEF Uki
<1>2. /\ osrel_off(u) \in Nat /\ osrel_off(u) > u.stub /\ osrel_off(u) % u.align = 0
  BY <1>1, NextAlignedBehind DEF osrel_off
<1>3. /\ cmdline_off(u) \in Nat /\ cmdline_off(u) > osrel_off(u) + u.osrel
      /\ cmdline_off(u) % u.align = 0
  BY <1>1, <1>2, NextAlignedBehind, osrel_off(u) + u.osrel \in Nat DEF cmdline_off
<1>4. /\ linux_off(u) \in Nat /\ linux_off(u) > cmdline_off(u) + u.cmdline
      /\ linux_off(u) % u.align = 0
  BY <1>1, <1>3, NextAlignedBehind, cmdline_off(u) + u.cmdline \in Nat DEF linux_off
<1>5. /\ initrd_off(u) \in Nat /\ initrd_off(u) > linux_off(u) + u.linux
      /\ initrd_off(u) % u.align = 0
  BY <1>1, <1>4, NextAlignedBehind, linux_off(u) + u.linux \in Nat DEF initrd_off
<1>6. DOMAIN Sections(u) = 1..4
  BY DEF Sections
<1>7. /\ Sections(u)[1] = [off |-> osrel_off(u), size |-> u.osrel]
      /\ Sections(u)[2] = [off |-> cmdline_off(u), size |-> u.cmdline]
      /\ Sections(u)[3] = [off |-> linux_off(u), size |-> u.linux]
      /\ Sections(u)[4] = [off |-> initrd_off(u), size |-> u.initrd]
  BY DEF Sections, Section
<1>8. ASSUME NEW k \in 1..4
      PROVE  /\ Sections(u)[k].off % u.align = 0
             /\ Sections(u)[k].off > (IF k = 1 THEN u.stub
                                      ELSE Sections(u)[k - 1].off + Sections(u)[k - 1].size)
  <2>1. CASE k = 1 BY <2>1, <1>2, <1>7
  <2>2. CASE k = 2 BY <2>2, <1>3, <1>7
  <2>3. CASE k = 3 BY <2>3, <1>4, <1>7
  <2>4. CASE k = 4 BY <2>4, <1>5, <1>7
  <2> QED BY <2>1, <2>2, <2>3, <2>4
<1> QED BY <1>6, <1>8 DEF Apart

------------------------------------------------------------------------------
(* Finite sets, and sequences.                                              *)

\* What a function makes of a finite set is finite.
LEMMA FiniteImage ==
  ASSUME NEW S, IsFiniteSet(S), NEW f, DOMAIN f = S
  PROVE  IsFiniteSet({f[x] : x \in S})
<1> DEFINE T == {f[x] : x \in S}
           g == [x \in S |-> f[x]]
<1>1. g \in Surjection(S, T)
  BY DEF Surjection
<1>2. QED
  BY <1>1, FS_Surjection

LEMMA FiniteUnion ==
  ASSUME NEW S, NEW T, IsFiniteSet(S), IsFiniteSet(T)
  PROVE  IsFiniteSet(S \cup T)
BY FS_Union

LEMMA MaxPair ==
  ASSUME NEW a \in Int, NEW b \in Int
  PROVE  Max({a, b}) = IF a >= b THEN a ELSE b
<1>1. \E n \in {a, b} : \A m \in {a, b} : n >= m
  OBVIOUS
<1>2. Max({a, b}) \in {a, b} /\ \A m \in {a, b} : Max({a, b}) >= m
  BY <1>1 DEF Max
<1>3. QED
  BY <1>2

\* A function on 1..n is a sequence.
LEMMA SequenceIs ==
  ASSUME NEW s, NEW n \in Nat, s = [i \in 1..n |-> s[i]], NEW S, \A i \in 1..n : s[i] \in S
  PROVE  s \in Seq(S) /\ Len(s) = n
<1>1. s \in [1..n -> S]
  OBVIOUS
<1>2. s \in Seq(S)
  BY <1>1
<1>3. QED
  BY <1>1, <1>2

LEMMA FunctionIs ==
  ASSUME NEW S, NEW s \in Seq(S)
  PROVE  Len(s) \in Nat /\ DOMAIN s = 1..Len(s) /\ s = [i \in 1..Len(s) |-> s[i]]
<1>1. Len(s) \in Nat /\ DOMAIN s = 1..Len(s)
  OBVIOUS
<1>2. s \in [1..Len(s) -> S]
  OBVIOUS
<1>3. QED
  BY <1>1, <1>2

LEMMA AppendIs ==
  ASSUME NEW s, Len(s) \in Nat, s = [i \in 1..Len(s) |-> s[i]], NEW x
  PROVE  /\ Len(Append(s, x)) = Len(s) + 1
         /\ Append(s, x) = [i \in 1..(Len(s) + 1) |-> IF i = Len(s) + 1 THEN x ELSE s[i]]
<1> DEFINE S == {s[i] : i \in 1..Len(s)} \cup {x}
<1>1. s \in Seq(S)
  <2>1. \A i \in 1..Len(s) : s[i] \in S
    OBVIOUS
  <2>2. QED
    <3> HIDE DEF S
    <3> QED
      BY <2>1, SequenceIs
<1>2. x \in S
  OBVIOUS
<1> HIDE DEF S
<1>3. /\ Append(s, x) \in Seq(S) /\ Len(Append(s, x)) = Len(s) + 1
      /\ \A i \in 1..Len(s) : Append(s, x)[i] = s[i]
      /\ Append(s, x)[Len(s) + 1] = x
  BY <1>1, <1>2
<1>4. Append(s, x) = [i \in 1..(Len(s) + 1) |-> Append(s, x)[i]]
  <2> DEFINE a == Append(s, x)
  <2>1. a \in Seq(S) /\ Len(a) = Len(s) + 1
    BY <1>3
  <2>2. a = [i \in 1..Len(a) |-> a[i]]
    <3> HIDE DEF a
    <3> QED
      BY <2>1, FunctionIs
  <2>3. QED
    BY <2>1, <2>2
<1>5. \A i \in 1..(Len(s) + 1) : Append(s, x)[i] = IF i = Len(s) + 1 THEN x ELSE s[i]
  BY <1>3
<1>6. QED
  BY <1>3, <1>4, <1>5

\* Du counts.
LEMMA DuIs ==
  ASSUME NEW files, IsFiniteSet(files)
  PROVE  Du(files) \in Nat
<1>1. Cardinality(files) \in Nat /\ FileKb \in Nat
  BY FS_CardinalityType, FilesAssumption
<1>2. FileKb * Cardinality(files) \in Nat
  BY <1>1
<1>3. QED
  BY <1>2 DEF Du

\* The files a list of boot files asks for.
LEMMA TaskFinite ==
  ASSUME NEW lists \in {BootFiles, EfiBootFiles}, NEW k \in DOMAIN lists
  PROVE  IsFiniteSet(InstallTask(lists[k]))
<1> DEFINE e == lists[k]
           Entry == [src : [name : STRING, group : STRING], dst : STRING, glob : BOOLEAN]
           F(i) == {[at |-> i, src |-> f, dst |-> e[i].dst] : f \in EntryFiles(e[i])}
           G == [i \in DOMAIN e |-> F(i)]
<1>1. e \in Seq(Entry)
  BY BootFilesAssumption
<1>2. IsFiniteSet(DOMAIN e)
  <2> HIDE DEF e, Entry
  <2>1. DOMAIN e = 1..Len(e) /\ Len(e) \in Nat
    BY <1>1, FunctionIs
  <2>2. IsFiniteSet(1..Len(e))
    BY <2>1, FS_Interval
  <2>3. QED
    BY <2>1, <2>2
<1>3. ASSUME NEW i \in DOMAIN e PROVE IsFiniteSet(F(i))
  <2>1. IsFiniteSet(EntryFiles(e[i]))
    <3>1. IsFiniteSet({f \in KernelDir : f.group = e[i].src.group})
      BY FilesAssumption, FS_Subset
    <3>2. IsFiniteSet({e[i].src})
      BY FS_Singleton
    <3>3. QED
      BY <3>1, <3>2 DEF EntryFiles
  <2> DEFINE h == [f \in EntryFiles(e[i]) |-> [at |-> i, src |-> f, dst |-> e[i].dst]]
  <2>2. IsFiniteSet({h[f] : f \in EntryFiles(e[i])})
    <3>1. DOMAIN h = EntryFiles(e[i])
      OBVIOUS
    <3>2. QED
      <4> HIDE DEF h
      <4> QED
        BY <2>1, <3>1, FiniteImage
  <2>3. {h[f] : f \in EntryFiles(e[i])} = F(i)
    OBVIOUS
  <2>4. QED
    BY <2>2, <2>3
<1>4. IsFiniteSet({G[i] : i \in DOMAIN e})
  <2>1. DOMAIN G = DOMAIN e
    OBVIOUS
  <2>2. QED
    <3> HIDE DEF G
    <3> QED
      BY <1>2, <2>1, FiniteImage
<1>5. \A T \in {G[i] : i \in DOMAIN e} : IsFiniteSet(T)
  BY <1>3
<1>6. InstallTask(e) = UNION {G[i] : i \in DOMAIN e}
  BY DEF InstallTask
<1>7. QED
  <2> HIDE DEF G
  <2> QED
    BY <1>4, <1>5, <1>6, FS_UNION

LEMMA InstalledFinite ==
  ASSUME NEW tasks, IsFiniteSet(tasks)
  PROVE  IsFiniteSet(Installed(tasks))
<1> DEFINE h == [task \in tasks |-> BootFile(task.dst, task.src.name)]
<1>1. IsFiniteSet({h[task] : task \in tasks})
  <2>1. DOMAIN h = tasks
    OBVIOUS
  <2>2. QED
    <3> HIDE DEF h
    <3> QED
      BY <2>1, FiniteImage
<1>2. Installed(tasks) = {h[task] : task \in tasks}
  BY DEF Installed
<1>3. QED
  BY <1>1, <1>2

\* The files a set of entries is known by in the boot directory.
LEMMA BootNamesFinite ==
  ASSUME NEW S, IsFiniteSet(S)
  PROVE  IsFiniteSet({Boot(f.name) : f \in S})
<1> DEFINE h == [f \in S |-> Boot(f.name)]
<1>1. IsFiniteSet({h[f] : f \in S})
  <2>1. DOMAIN h = S
    OBVIOUS
  <2>2. QED
    <3> HIDE DEF h
    <3> QED
      BY <2>1, FiniteImage
<1>2. {Boot(f.name) : f \in S} = {h[f] : f \in S}
  OBVIOUS
<1>3. QED
  BY <1>1, <1>2

\* The files of several trees.
LEMMA TreesFinite ==
  ASSUME NEW S, IsFiniteSet(S), S \subseteq DOMAIN Trees
  PROVE  IsFiniteSet(UNION {Trees[t].files : t \in S})
<1> DEFINE h == [t \in S |-> Trees[t].files]
<1>1. IsFiniteSet({h[t] : t \in S})
  <2>1. DOMAIN h = S
    OBVIOUS
  <2>2. QED
    <3> HIDE DEF h
    <3> QED
      BY <2>1, FiniteImage
<1>2. {Trees[t].files : t \in S} = {h[t] : t \in S}
  OBVIOUS
<1>3. \A T \in {h[t] : t \in S} : IsFiniteSet(T)
  BY FilesAssumption
<1>4. QED
  <2> HIDE DEF h
  <2> QED
    BY <1>1, <1>2, <1>3, FS_UNION

------------------------------------------------------------------------------
(* What a preparation makes of a partition.                                 *)

\* The fields of a partition that its preparation may set.
Worked == {"size", "source_file", "has_fstab", "updated_fstab", "update_fstab_in_rootfs",
           "rootfs_dir"}

\* A parsed partition, the i-th of its file.
ParsedPart(p, i) ==
  /\ DOMAIN p = PartOptions
  /\ p.lineno = i
  /\ p.size \in Nat /\ p.fixed_size \in Nat
  /\ p.fixed_size = 0 => p.overhead \in Nat /\ p.extra_space \in Nat
  /\ IsFiniteSet(p.include) /\ p.include \subseteq DOMAIN Trees
  /\ IsFiniteSet(p.initrd) /\ IsFiniteSet(p.dtb)
  /\ p.unified => p.uki \in Uki

\* The names a partition's file may have.
RootfsFile(p) == <<"rootfs", p.label, p.lineno, p.fstype>>
EmptyFile(p) == <<"fs", p.label, p.lineno, p.fstype>>
SwapFile == <<"fs", "swap">>
BootImg == <<"boot.img">>
Names(p) == {RootfsFile(p), EmptyFile(p), SwapFile, BootImg}

\* What a boot partition is to hold.
ExtlinuxFiles(p, configfile, tasks) ==
  CASE p.loader # "u-boot" -> {}
    [] p.loader = "u-boot" /\ configfile = None -> {Extlinux(tasks)}
    [] OTHER -> {BootFile("extlinux", "custom")}
BootTasks(p) == InstallTask(BootFiles[BootFilesKey(BootFiles, p.uuid, p.label, {})])

\* What f holds is what p asks for, with the bootloader line b; updated says
\* whether a new fstab was written.
Content(p, f, b, updated) ==
  /\ f.by = p.lineno
  /\ p.source = "rootfs" /\ f.fstab # "none" =>
       (f.fstab = "new" <=> updated /\ ~p.no_fstab_update)
  /\ p.source = "bootimg-partition" =>
       f.holds = Installed(BootTasks(p)) \cup ExtlinuxFiles(p, b.configfile, BootTasks(p))
  /\ f.uki # <<>> =>
       Apart(f.uki, p.uki.stub, p.uki.align) /\ p.source_file = BootImg

\* f is a file that was made for p.
Made(p, f, b, updated) ==
  /\ f.kb \in Int /\ (UncheckedSwap(p) \/ f.kb <= DiskSize(p))
  /\ Content(p, f, b, updated)

------------------------------------------------------------------------------
(* The invariant: whose each file of the work directory is.                 *)

MadeFor(j, f) == Made(parts[j], f, boot[1], fstab # None)

\* The file named as partition i's is i's, or that of a later partition that
\* took the name; only swaps do.
Mine(i, f) ==
  /\ f.by \in DOMAIN parts /\ i <= f.by
  /\ parts[f.by].source_file = parts[i].source_file
  /\ MadeFor(f.by, f)
  /\ f.by # i => f.uki = <<>>

HasFile(i) == parts[i].source_file # <<>>

\* A partition that was prepared.
Ready(i) == IF HasFile(i) THEN parts[i].source_file \in Names(parts[i])
                          ELSE parts[i].source = None

Typed ==
  /\ pc \in {"parse", "create", "prepare", "assemble", "cleanup", "end"}
  /\ next \in Nat /\ Len(parts) \in Nat /\ parts = [i \in 1..Len(parts) |-> parts[i]]
  /\ todo \in Seq(WksLines)
  /\ st.err = None => \A i \in DOMAIN parts : ParsedPart(parts[i], i)
  /\ DOMAIN image = {"mbr", "at"} /\ DOMAIN st = {"work", "hdd", "err", "tasks", "staged"}

Parsing ==
  pc \in {"parse", "create"} =>
    /\ \A i \in DOMAIN parts : ~HasFile(i)

Preparing ==
  pc \in {"parse", "create", "prepare"} =>
    /\ st.err = None /\ IsFiniteSet(st.hdd) /\ IsFiniteSet(st.tasks)
    /\ image.at = Empty

Prepared ==
  pc = "prepare" =>
    /\ next \in 1..(Len(parts) + 1)
    /\ \A i \in DOMAIN parts : i >= next => ~HasFile(i)
    /\ \A i \in DOMAIN parts : i < next =>
         /\ Ready(i)
         /\ HasFile(i) => /\ parts[i].source_file \in DOMAIN st.work
                          /\ Mine(i, st.work[parts[i].source_file])
                          /\ st.work[parts[i].source_file].by < next

\* The copy of partition i beside the image.
Beside(i, files) ==
  Num(i) # 0 => Partimage(i) \in DOMAIN files /\ files[Partimage(i)] = image.at[i]

Assembling ==
  pc = "assemble" =>
    /\ st.err = None
    /\ next \in 1..(Len(parts) + 1)
    /\ \A i \in DOMAIN parts :
         /\ Ready(i)
         /\ i >= next /\ HasFile(i) /\ parts[i].source_file \in DOMAIN st.work =>
              Mine(i, st.work[parts[i].source_file])
         /\ i < next /\ HasFile(i) => i \in DOMAIN image.at
    /\ \A i \in DOMAIN image.at :
         /\ i \in DOMAIN parts /\ i < next /\ HasFile(i)
         /\ Mine(i, image.at[i])
         /\ image.at[i].by # i =>
              image.at[i].by >= next /\ parts[i].source_file \notin DOMAIN st.work
         /\ Beside(i, st.work)

\* When nothing went wrong.
Complete ==
  pc \in {"cleanup", "end"} /\ st.err = None =>
    /\ \A i \in DOMAIN parts : Ready(i) /\ (HasFile(i) => i \in DOMAIN image.at)
    /\ \A i \in DOMAIN image.at :
         /\ i \in DOMAIN parts
         /\ MadeFor(i, image.at[i])
         /\ Beside(i, IF pc = "end" THEN outdir ELSE st.work)

CreateInv ==
  /\ Typed /\ Parsing /\ Preparing /\ Prepared /\ Assembling /\ Complete
  /\ UkiSectionsApart

------------------------------------------------------------------------------
(* A preparation keeps what the line says.                                  *)

PrepFields == {"work", "hdd", "err", "tasks", "staged", "part"}

\* q is p but for what a preparation may set.
Same(p, q) == DOMAIN q = PartOptions /\ \A o \in PartOptions \ Worked : q[o] = p[o]

LEMMA SameIs ==
  ASSUME NEW p, NEW q, Same(p, q)
  PROVE  /\ q.lineno = p.lineno /\ q.fstype = p.fstype /\ q.source = p.source
         /\ q.label = p.label /\ q.uuid = p.uuid /\ q.fixed_size = p.fixed_size
         /\ q.extra_space = p.extra_space /\ q.overhead = p.overhead
         /\ q.no_table = p.no_table /\ q.loader = p.loader
         /\ q.no_fstab_update = p.no_fstab_update
         /\ q.include = p.include /\ q.initrd = p.initrd /\ q.dtb = p.dtb
         /\ q.unified = p.unified /\ q.uki = p.uki
<1>1. \A o \in {"lineno", "fstype", "source", "label", "uuid", "fixed_size", "extra_space",
               "overhead", "no_table", "loader", "no_fstab_update", "include", "initrd",
               "dtb", "unified", "uki"} : o \in PartOptions \ Worked
  BY DEF PartOptions, Worked
<1>2. QED
  BY <1>1 DEF Same

LEMMA SameParsed ==
  ASSUME NEW p, NEW q, NEW i, Same(p, q), ParsedPart(p, i), q.size \in Nat
  PROVE  ParsedPart(q, i)
<1>1. DOMAIN q = PartOptions
  BY DEF Same
<1>2. QED
  BY <1>1, SameIs DEF ParsedPart

LEMMA SameNames ==
  ASSUME NEW p, NEW q, Same(p, q)
  PROVE  /\ RootfsFile(q) = RootfsFile(p) /\ EmptyFile(q) = EmptyFile(p)
         /\ Names(q) = Names(p)
BY SameIs DEF RootfsFile, EmptyFile, Names

LEMMA SameTwice ==
  ASSUME NEW p, NEW q, NEW r, Same(p, q), Same(q, r)
  PROVE  Same(p, r)
BY DEF Same

\* Setting a field a preparation may set.
LEMMA SameSet ==
  ASSUME NEW p, DOMAIN p = PartOptions, NEW o \in Worked, NEW v
  PROVE  /\ Same(p, [p EXCEPT ![o] = v]) /\ [p EXCEPT ![o] = v][o] = v
         /\ \A k \in PartOptions \ {o} : [p EXCEPT ![o] = v][k] = p[k]
<1>1. o \in PartOptions
  BY DEF Worked, PartOptions
<1>2. QED
  BY <1>1 DEF Same

LEMMA SizeIs ==
  ASSUME NEW p, NEW i, ParsedPart(p, i), NEW actual \in Nat
  PROVE  GetRootfsSize(p, actual) \in Int
<1>1. CASE p.fixed_size > 0
  BY <1>1 DEF GetRootfsSize, ParsedPart
<1>2. CASE ~(p.fixed_size > 0)
  <2>1. p.fixed_size = 0 /\ p.overhead \in Nat /\ p.extra_space \in Nat /\ p.size \in Nat
    BY <1>2 DEF ParsedPart
  <2> DEFINE blocks == GetExtraBlockCount(p, actual)
             extra == Max({blocks, p.extra_space})
  <2>2. blocks \in Nat
    BY <2>1 DEF GetExtraBlockCount
  <2>3. extra \in Nat
    <3> HIDE DEF blocks
    <3> QED
      BY <2>1, <2>2, MaxPair
  <2>4. (actual + extra) * p.overhead \in Nat
    <3> HIDE DEF extra
    <3>1. actual + extra \in Nat
      BY <2>3
    <3> DEFINE a == actual + extra
    <3> HIDE DEF a
    <3>2. a * p.overhead \in Nat
      BY <2>1, <3>1 DEF a
    <3>3. QED
      BY <3>2 DEF a
  <2>5. ((actual + extra) * p.overhead) \div 10 \in Int
    <3> DEFINE a == (actual + extra) * p.overhead
    <3> HIDE DEF a
    <3>1. a \div 10 \in Int
      BY <2>4 DEF a
    <3>2. QED
      BY <3>1 DEF a
  <2>6. GetRootfsSize(p, actual) = ((actual + extra) * p.overhead) \div 10
    BY <1>2 DEF GetRootfsSize
  <2>7. QED
    BY <2>5, <2>6
<1>3. QED
  BY <1>1, <1>2

\* A failure is one.
LEMMA Failed ==
  ASSUME NEW s, DOMAIN s = PrepFields, NEW kind \in Errors
  PROVE  Fail(s, kind).err # None /\ DOMAIN Fail(s, kind) = PrepFields
BY NoneAssumption DEF Fail, PrepFields

------------------------------------------------------------------------------
(* A file system made from a tree.                                          *)



LEMMA SizedIs ==
  ASSUME NEW p, NEW i, ParsedPart(p, i), NEW tree, IsFiniteSet(tree.files), NEW real
  PROVE  /\ Same(p, SizedFor(p, tree, real)) /\ ParsedPart(SizedFor(p, tree, real), i)
         /\ FstabWritten(SizedFor(p, tree, real)) = FstabWritten(p)
<1> DEFINE v == IF ROOTFS_SIZE > 0 /\ tree.original THEN ROOTFS_SIZE ELSE Du(tree.files)
           q == SizedFor(p, tree, real)
<1>1. v \in Nat
  BY DuIs, FilesAssumption
<1>2. DOMAIN p = PartOptions /\ p.size \in Nat
  BY DEF ParsedPart
<1>3. CASE p.size = 0 /\ real
  <2>1. q = [p EXCEPT !["size"] = v]
    BY <1>3 DEF SizedFor
  <2> HIDE DEF v, q
  <2>2. /\ Same(p, [p EXCEPT !["size"] = v]) /\ [p EXCEPT !["size"] = v]["size"] = v
        /\ \A k \in PartOptions \ {"size"} : [p EXCEPT !["size"] = v][k] = p[k]
    <3>1. "size" \in Worked
      BY DEF Worked
    <3>2. QED
      BY <1>2, <3>1, SameSet
  <2>3. Same(p, q) /\ q.size \in Nat /\ \A k \in PartOptions \ {"size"} : q[k] = p[k]
    BY <1>1, <2>1, <2>2
  <2>4. /\ q.updated_fstab = p.updated_fstab /\ q.has_fstab = p.has_fstab
        /\ q.no_fstab_update = p.no_fstab_update
    BY <2>3 DEF PartOptions
  <2>5. ParsedPart(q, i)
    BY <2>3, SameParsed
  <2>6. QED
    BY <2>3, <2>4, <2>5 DEF FstabWritten, q
<1>4. CASE ~(p.size = 0 /\ real)
  <2>1. q = p
    BY <1>4 DEF SizedFor
  <2>2. Same(p, p)
    BY <1>2 DEF Same
  <2>3. QED
    BY <2>1, <2>2
<1>5. QED
  BY <1>3, <1>4

LEMMA FileSystemIs ==
  ASSUME NEW p, NEW i, ParsedPart(p, i), NEW tree, IsFiniteSet(tree.files)
  PROVE  /\ FileSystem(p, tree).by = p.lineno /\ FileSystem(p, tree).holds = tree.files
         /\ FileSystem(p, tree).uki = <<>> /\ FileSystem(p, tree).kb \in Int
         /\ FileSystem(p, tree).fstab =
              IF (IsExt(p.fstype) \/ IsFat(p.fstype)) /\ FstabWritten(p)
              THEN "new" ELSE tree.fstab
<1> DEFINE f == FileSystem(p, tree)
<1>1. Du(tree.files) \in Int /\ GetRootfsSize(p, Du(tree.files)) \in Int
  BY DuIs, SizeIs
<1>2. CASE IsExt(p.fstype) \/ IsFat(p.fstype)
  <2>1. f = PrepareRootfsExt(p, tree)
    BY <1>2 DEF FileSystem, PrepareRootfsMsdos, IsExt, IsFat
  <2>2. QED
    <3> HIDE DEF f
    <3>1. f = File(p, tree.files, IF FstabWritten(p) THEN "new" ELSE tree.fstab,
                   GetRootfsSize(p, Du(tree.files)))
      BY <2>1 DEF PrepareRootfsExt
    <3>2. /\ f.by = p.lineno /\ f.holds = tree.files /\ f.uki = <<>> /\ f.kb \in Int
          /\ f.fstab = IF FstabWritten(p) THEN "new" ELSE tree.fstab
      BY <1>1, <3>1 DEF File
    <3>3. QED
      BY <1>2, <3>2 DEF f
<1>3. CASE ~(IsExt(p.fstype) \/ IsFat(p.fstype))
  <2>1. f = PrepareRootfsBtrfs(p, tree) \/ f = PrepareRootfsPacked(p, tree)
    <3>1. CASE p.fstype = "btrfs"
      BY <1>3, <3>1 DEF FileSystem, IsExt, IsFat
    <3>2. CASE p.fstype # "btrfs"
      BY <1>3, <3>2 DEF FileSystem, IsExt, IsFat
    <3>3. QED
      BY <3>1, <3>2
  <2> HIDE DEF f
  <2>2. /\ f.by = p.lineno /\ f.holds = tree.files /\ f.uki = <<>> /\ f.kb \in Int
        /\ f.fstab = tree.fstab
    BY <1>1, <2>1 DEF PrepareRootfsBtrfs, PrepareRootfsPacked, File
  <2>3. QED
    BY <1>3, <2>2 DEF f
<1>4. QED
  BY <1>2, <1>3

\* The partition q and its file f that prepare_rootfs leaves.
RootfsLeaves(s, t, tree, f, q) ==
  /\ t = [s EXCEPT !.work = With(@, RootfsFile(s.part), f), !.part = q]
  /\ Same(s.part, q) /\ q.source_file = RootfsFile(s.part)
  /\ q.size \in Nat /\ f.kb = q.size
  /\ f.by = s.part.lineno /\ f.holds = tree.files /\ f.uki = <<>>
  /\ f.fstab = IF (IsExt(s.part.fstype) \/ IsFat(s.part.fstype)) /\ FstabWritten(s.part)
               THEN "new" ELSE tree.fstab

\* prepare_rootfs, when it does not raise.
LEMMA RootfsMade ==
  ASSUME NEW s, DOMAIN s = PrepFields, NEW i, ParsedPart(s.part, i),
         NEW tree, IsFiniteSet(tree.files), NEW real,
         Ok(PrepareRootfs(s, tree, real))
  PROVE  \E f, q : RootfsLeaves(s, PrepareRootfs(s, tree, real), tree, f, q)
<1> DEFINE p == SizedFor(s.part, tree, real)
           f == FileSystem(p, tree)
           name == RootfsName(p)
           q == [p EXCEPT !.source_file = name, !.size = f.kb]
           t == PrepareRootfs(s, tree, real)
           out == [s EXCEPT !.work = With(@, name, f), !.part = q]
<1>1. /\ Same(s.part, p) /\ ParsedPart(p, i) /\ FstabWritten(p) = FstabWritten(s.part)
      /\ p.fstype = s.part.fstype /\ p.lineno = s.part.lineno
  <2>1. Same(s.part, p) /\ ParsedPart(p, i) /\ FstabWritten(p) = FstabWritten(s.part)
    BY SizedIs
  <2> HIDE DEF p
  <2>2. QED
    BY <2>1, SameIs
<1>2. /\ p.fstype \in {"swap", "none"} => t = Fail(s, "AttributeError")
      /\ p.fstype \notin {"swap", "none"} /\ f.kb < 0 => t = Fail(s, "WicError")
      /\ p.fstype \notin {"swap", "none"} /\ ~(f.kb < 0) => t = out
  <2>1. CASE p.fstype \in {"swap", "none"}
    BY <2>1 DEF PrepareRootfs
  <2>2. CASE p.fstype \notin {"swap", "none"} /\ f.kb < 0
    BY <2>2 DEF PrepareRootfs
  <2>3. CASE p.fstype \notin {"swap", "none"} /\ ~(f.kb < 0)
    BY <2>3 DEF PrepareRootfs
  <2>4. QED
    <3> HIDE DEF t, out, f, p
    <3> QED
      BY <2>1, <2>2, <2>3
<1> HIDE DEF p
<1>3. /\ f.by = p.lineno /\ f.holds = tree.files /\ f.uki = <<>> /\ f.kb \in Int
      /\ f.fstab = IF (IsExt(p.fstype) \/ IsFat(p.fstype)) /\ FstabWritten(p)
                   THEN "new" ELSE tree.fstab
  BY <1>1, FileSystemIs
<1> HIDE DEF f
<1>4. /\ Same(p, q) /\ q.source_file = name /\ q.size = f.kb
  <2>1. DOMAIN p = PartOptions
    BY <1>1 DEF ParsedPart
  <2>2. "size" \in PartOptions /\ "source_file" \in PartOptions
    BY DEF PartOptions
  <2>3. QED
    BY <2>1, <2>2 DEF Same, Worked
<1>5. name = RootfsFile(s.part)
  <2>1. name = RootfsFile(p)
    BY DEF RootfsName, RootfsFile
  <2>2. QED
    BY <1>1, <2>1, SameNames
<1> HIDE DEF q, name
<1>6. t = out /\ ~(f.kb < 0)
  <2>1. Fail(s, "AttributeError").err # None /\ Fail(s, "WicError").err # None
    BY Failed DEF Errors
  <2>2. t.err = None
    BY DEF Ok
  <2> HIDE DEF out, t
  <2>3. QED
    BY <1>2, <2>1, <2>2
<1>7. Same(s.part, q)
  BY <1>1, <1>4, SameTwice
<1>8. q.size \in Nat
  BY <1>3, <1>4, <1>6
<1>9. PrepareRootfs(s, tree, real) =
        [s EXCEPT !.work = With(@, RootfsFile(s.part), f), !.part = q]
  BY <1>5, <1>6
<1>10. QED
  BY <1>1, <1>3, <1>4, <1>5, <1>7, <1>8, <1>9 DEF RootfsLeaves

------------------------------------------------------------------------------
(* Configuring the plugins.                                                 *)

\* The state a preparation works on, whether it failed or not.
Prep(s) == DOMAIN s = PrepFields /\ IsFiniteSet(s.hdd) /\ IsFiniteSet(s.tasks)

\* What every configuration leaves alone.
Keeps(s, t) == Prep(t) /\ t.work = s.work /\ t.part = s.part

LEMMA FailKeeps ==
  ASSUME NEW s, Prep(s), NEW kind \in Errors
  PROVE  Keeps(s, Fail(s, kind)) /\ Fail(s, kind).err # None
BY Failed DEF Prep, Keeps, Fail, PrepFields

LEMMA HddKeeps ==
  ASSUME NEW s, Prep(s), NEW more, IsFiniteSet(more)
  PROVE  Keeps(s, [s EXCEPT !.hdd = @ \cup more])
<1>1. IsFiniteSet(s.hdd \cup more)
  BY FiniteUnion DEF Prep
<1>2. QED
  BY <1>1 DEF Prep, Keeps, PrepFields

LEMMA KeepsTwice ==
  ASSUME NEW r, NEW s, NEW t, Keeps(r, s), Keeps(s, t)
  PROVE  Keeps(r, t)
BY DEF Keeps

LEMMA AdditionalFinite ==
  ASSUME NEW p, IsFiniteSet(p.initrd), IsFiniteSet(p.dtb)
  PROVE  IsFiniteSet({Boot(f.name) : f \in AdditionalFiles(p)})
<1>1. IsFiniteSet(AdditionalFiles(p))
  BY FiniteUnion DEF AdditionalFiles
<1>2. QED
  BY <1>1, BootNamesFinite

LEMMA GrubEfiKeeps ==
  ASSUME NEW s, Prep(s), IsFiniteSet(s.part.initrd), IsFiniteSet(s.part.dtb), NEW b
  PROVE  Keeps(s, GrubEfi(s, b))
<1> DEFINE more == {Boot(f.name) : f \in AdditionalFiles(s.part)}
           all == {Boot("grub.cfg")} \cup more
<1>1. IsFiniteSet(all)
  <2>1. IsFiniteSet(more)
    BY AdditionalFinite
  <2> HIDE DEF more
  <2>2. QED
    BY <2>1, FS_Singleton, FiniteUnion
<1>2. CASE b.configfile = "missing" \/ AdditionalMissing(s.part)
  <2>1. GrubEfi(s, b) = Fail(s, "WicError")
    BY <1>2 DEF GrubEfi
  <2>2. QED
    BY <2>1, FailKeeps DEF Errors
<1>3. CASE ~(b.configfile = "missing" \/ AdditionalMissing(s.part))
  <2>1. GrubEfi(s, b) = [s EXCEPT !.hdd = (@ \cup {Boot("grub.cfg")}) \cup more]
    BY <1>3 DEF GrubEfi
  <2>2. GrubEfi(s, b) = [s EXCEPT !.hdd = @ \cup all]
    <3> HIDE DEF more
    <3>1. (s.hdd \cup {Boot("grub.cfg")}) \cup more = s.hdd \cup all
      OBVIOUS
    <3>2. QED
      BY <2>1, <3>1
  <2> HIDE DEF all
  <2>3. QED
    BY <1>1, <2>2, HddKeeps
<1>4. QED
  BY <1>2, <1>3

LEMMA SystemdBootKeeps ==
  ASSUME NEW s, Prep(s), IsFiniteSet(s.part.initrd), IsFiniteSet(s.part.dtb), NEW b
  PROVE  Keeps(s, SystemdBoot(s, b))
<1> DEFINE names == {Boot(f.name) : f \in AdditionalFiles(s.part)}
           more == IF s.part.unified THEN {} ELSE {Boot("boot.conf")} \cup names
           all == {Boot("loader.conf")} \cup more
           bad == b.configfile = "missing" \/ (~s.part.unified /\ AdditionalMissing(s.part))
<1>1. IsFiniteSet(all)
  <2>1. IsFiniteSet(names)
    BY AdditionalFinite
  <2> HIDE DEF names
  <2>2. IsFiniteSet({Boot("boot.conf")} \cup names)
    BY <2>1, FS_Singleton, FiniteUnion
  <2>3. IsFiniteSet(more)
    BY <2>2, FS_EmptySet
  <2> HIDE DEF more
  <2>4. QED
    BY <2>3, FS_Singleton, FiniteUnion
<1>2. CASE b.timeout = None
  <2>1. SystemdBoot(s, b) = Fail(s, "TypeError")
    BY <1>2 DEF SystemdBoot
  <2>2. QED
    BY <2>1, FailKeeps DEF Errors
<1>3. CASE b.timeout # None /\ bad
  <2>1. SystemdBoot(s, b) = Fail(s, "WicError")
    BY <1>3 DEF SystemdBoot
  <2>2. QED
    BY <2>1, FailKeeps DEF Errors
<1>4. CASE b.timeout # None /\ ~bad
  <2>1. SystemdBoot(s, b) = [s EXCEPT !.hdd = (@ \cup {Boot("loader.conf")}) \cup more]
    BY <1>4 DEF SystemdBoot
  <2>2. SystemdBoot(s, b) = [s EXCEPT !.hdd = @ \cup all]
    <3> HIDE DEF more
    <3>1. (s.hdd \cup {Boot("loader.conf")}) \cup more = s.hdd \cup all
      OBVIOUS
    <3>2. QED
      BY <2>1, <3>1
  <2> HIDE DEF all
  <2>3. QED
    BY <1>1, <2>2, HddKeeps
<1>5. QED
  BY <1>2, <1>3, <1>4

LEMMA EfiTasksKeeps ==
  ASSUME NEW s, Prep(s)
  PROVE  Keeps(s, EfiTasks(s))
<1> DEFINE key == BootFilesKey(EfiBootFiles, s.part.uuid, s.part.label, {<<>>})
           tasks == IF key = None THEN {} ELSE InstallTask(EfiBootFiles[key])
<1>1. CASE ~Ok(s) \/ <<"plain">> \notin DOMAIN EfiBootFiles
  <2>1. EfiTasks(s) = s
    BY <1>1 DEF EfiTasks
  <2>2. QED
    BY <2>1 DEF Keeps
<1>2. CASE ~(~Ok(s) \/ <<"plain">> \notin DOMAIN EfiBootFiles)
  <2>1. EfiTasks(s) = [s EXCEPT !.tasks = tasks]
    BY <1>2 DEF EfiTasks
  <2>2. IsFiniteSet(tasks)
    <3>1. CASE key = None
      BY <3>1, FS_EmptySet
    <3>2. CASE key # None
      <4>1. key \in DOMAIN EfiBootFiles
        BY <3>2 DEF BootFilesKey
      <4> HIDE DEF key
      <4>2. IsFiniteSet(InstallTask(EfiBootFiles[key]))
        BY <4>1, TaskFinite
      <4>3. QED
        BY <3>2, <4>2
    <3>3. QED
      BY <3>1, <3>2
  <2> HIDE DEF tasks
  <2>3. QED
    BY <2>1, <2>2 DEF Prep, Keeps, PrepFields
<1>3. QED
  BY <1>1, <1>2

LEMMA EfiConfigureKeeps ==
  ASSUME NEW s, Prep(s), IsFiniteSet(s.part.initrd), IsFiniteSet(s.part.dtb), NEW b
  PROVE  Keeps(s, EfiConfigure(s, b))
<1> DEFINE t == CASE s.part.loader = "grub-efi"     -> GrubEfi(s, b)
                  [] s.part.loader = "systemd-boot" -> SystemdBoot(s, b)
                  [] s.part.loader = "uefi-kernel"  -> s
                  [] OTHER -> Fail(s, "WicError")
<1>1. t \in {GrubEfi(s, b), SystemdBoot(s, b), s, Fail(s, "WicError")}
  OBVIOUS
<1>2. EfiConfigure(s, b) = EfiTasks(t)
  BY DEF EfiConfigure
<1> HIDE DEF t
<1>3. Keeps(s, t)
  <2>1. Keeps(s, GrubEfi(s, b)) /\ Keeps(s, SystemdBoot(s, b))
    BY GrubEfiKeeps, SystemdBootKeeps
  <2>2. Keeps(s, Fail(s, "WicError"))
    BY FailKeeps DEF Errors
  <2>3. Keeps(s, s)
    BY DEF Keeps
  <2>4. QED
    BY <1>1, <2>1, <2>2, <2>3
<1>4. Keeps(t, EfiTasks(t))
  BY <1>3, EfiTasksKeeps DEF Keeps
<1>5. QED
  BY <1>2, <1>3, <1>4, KeepsTwice

LEMMA AmdConfigureKeeps ==
  ASSUME NEW s, Prep(s), IsFiniteSet(s.part.initrd), IsFiniteSet(s.part.dtb), NEW b
  PROVE  Keeps(s, AmdConfigure(s, b))
<1> DEFINE t == CASE s.part.loader = "grub-efi" -> GrubEfi(s, b)
                  [] s.part.loader \in {"systemd-boot", "uefi-kernel"} -> s
                  [] OTHER -> Fail(s, "WicError")
<1>1. t \in {GrubEfi(s, b), s, Fail(s, "WicError")}
  OBVIOUS
<1>2. AmdConfigure(s, b) = EfiTasks(t)
  BY DEF AmdConfigure
<1> HIDE DEF t
<1>3. Keeps(s, t)
  <2>1. Keeps(s, GrubEfi(s, b))
    BY GrubEfiKeeps
  <2>2. Keeps(s, Fail(s, "WicError"))
    BY FailKeeps DEF Errors
  <2>3. Keeps(s, s)
    BY DEF Keeps
  <2>4. QED
    BY <1>1, <2>1, <2>2, <2>3
<1>4. Keeps(t, EfiTasks(t))
  BY <1>3, EfiTasksKeeps DEF Keeps
<1>5. QED
  BY <1>2, <1>3, <1>4, KeepsTwice

LEMMA PcbiosConfigureKeeps ==
  ASSUME NEW s, Prep(s), NEW b
  PROVE  Keeps(s, PcbiosConfigure(s, b))
<1>1. Keeps(s, s)
  BY DEF Keeps
<1>2. Keeps(s, Fail(s, "WicError"))
  BY FailKeeps DEF Errors
<1>3. Keeps(s, [s EXCEPT !.hdd = @ \cup {Boot("syslinux.cfg")}])
  BY HddKeeps, FS_Singleton
<1>4. QED
  BY <1>1, <1>2, <1>3 DEF PcbiosConfigure

\* bootimg-partition, which also fills the list and the staging directory.
LEMMA BootimgPartitionConfigureDoes ==
  ASSUME NEW s, Prep(s), NEW b
  PROVE  /\ Keeps(s, BootimgPartitionConfigure(s, b))
         /\ Ok(BootimgPartitionConfigure(s, b)) =>
              /\ BootimgPartitionConfigure(s, b).tasks = BootTasks(s.part)
              /\ BootimgPartitionConfigure(s, b).staged
                   = ExtlinuxFiles(s.part, b.configfile, BootTasks(s.part))
<1> DEFINE key == BootFilesKey(BootFiles, s.part.uuid, s.part.label, {})
           tasks == InstallTask(BootFiles[key])
           uboot == s.part.loader = "u-boot"
           bad == \/ key = None
                  \/ uboot /\ b.configfile = "missing"
                  \/ uboot /\ b.configfile = None /\ ExtlinuxKernels(tasks) = {}
           staged == IF ~uboot THEN {}
                     ELSE IF b.configfile = None THEN {Extlinux(tasks)}
                     ELSE {BootFile("extlinux", "custom")}
           t == BootimgPartitionConfigure(s, b)
<1>1. CASE bad
  <2>1. t = Fail(s, "WicError")
    BY <1>1 DEF BootimgPartitionConfigure
  <2>2. Keeps(s, Fail(s, "WicError")) /\ Fail(s, "WicError").err # None
    BY FailKeeps DEF Errors
  <2> HIDE DEF t
  <2>3. QED
    BY <2>1, <2>2 DEF Ok, t
<1>2. CASE ~bad
  <2>1. t = [s EXCEPT !.tasks = tasks, !.staged = staged]
    BY <1>2 DEF BootimgPartitionConfigure
  <2>2. key \in DOMAIN BootFiles
    BY <1>2 DEF BootFilesKey
  <2>3. IsFiniteSet(tasks)
    <3> HIDE DEF key
    <3> QED
      BY <2>2, TaskFinite
  <2>4. tasks = BootTasks(s.part)
    BY DEF BootTasks
  <2>5. staged = ExtlinuxFiles(s.part, b.configfile, tasks)
    BY DEF ExtlinuxFiles
  <2> HIDE DEF t, tasks, staged
  <2>6. /\ DOMAIN t = PrepFields /\ t.work = s.work /\ t.part = s.part /\ t.hdd = s.hdd
        /\ t.tasks = tasks /\ t.staged = staged
    BY <2>1 DEF Prep, PrepFields
  <2>7. QED
    BY <2>3, <2>4, <2>5, <2>6 DEF Prep, Keeps, t
<1>3. QED
  BY <1>1, <1>2

\* What a preparation finds when the plugin was configured.
LEMMA ConfigureDoes ==
  ASSUME NEW s, Prep(s), IsFiniteSet(s.part.initrd), IsFiniteSet(s.part.dtb), NEW b
  PROVE  /\ Keeps(s, Configure(s, b))
         /\ s.part.source = "bootimg-partition" /\ Ok(Configure(s, b)) =>
              /\ Configure(s, b).tasks = BootTasks(s.part)
              /\ Configure(s, b).staged
                   = ExtlinuxFiles(s.part, b.configfile, BootTasks(s.part))
<1> DEFINE t == Configure(s, b)
<1>1. /\ s.part.source = "bootimg-partition" => t = BootimgPartitionConfigure(s, b)
      /\ t \in {BootimgPartitionConfigure(s, b), EfiConfigure(s, b), AmdConfigure(s, b),
                PcbiosConfigure(s, b), PcbiosConfigure(EfiConfigure(s, b), b), s}
  BY DEF Configure
<1> HIDE DEF t
<1>2. Keeps(s, EfiConfigure(s, b)) /\ Keeps(s, AmdConfigure(s, b))
  BY EfiConfigureKeeps, AmdConfigureKeeps
<1>3. Keeps(s, PcbiosConfigure(s, b)) /\ Keeps(s, s)
  BY PcbiosConfigureKeeps DEF Keeps
<1>4. Keeps(s, PcbiosConfigure(EfiConfigure(s, b), b))
  <2>1. Prep(EfiConfigure(s, b))
    BY <1>2 DEF Keeps
  <2>2. QED
    BY <1>2, <2>1, PcbiosConfigureKeeps, KeepsTwice
<1>5. /\ Keeps(s, BootimgPartitionConfigure(s, b))
      /\ Ok(BootimgPartitionConfigure(s, b)) =>
              /\ BootimgPartitionConfigure(s, b).tasks = BootTasks(s.part)
              /\ BootimgPartitionConfigure(s, b).staged
                   = ExtlinuxFiles(s.part, b.configfile, BootTasks(s.part))
  BY BootimgPartitionConfigureDoes
<1>6. Keeps(s, t)
  BY <1>1, <1>2, <1>3, <1>4, <1>5
<1>7. QED
  BY <1>1, <1>5, <1>6 DEF t

------------------------------------------------------------------------------
(* The plugins' preparations.                                               *)

\* A preparation that left a file for the partition of s.
Filled(s, t, b, updated) ==
  /\ Prep(t)
  /\ Same(s.part, t.part) /\ t.part.size \in Nat
  /\ t.part.source_file \in Names(s.part)
  /\ \E f : /\ t.work = With(s.work, t.part.source_file, f)
            /\ f.kb = t.part.size
            /\ Content(t.part, f, b, updated)
            /\ t.part.source_file = BootImg => BootImg \notin DOMAIN s.work

\* The file names are no two things at once.
LEMMA NamesDiffer ==
  ASSUME NEW p
  PROVE  RootfsFile(p) # BootImg /\ EmptyFile(p) # BootImg /\ SwapFile # BootImg
BY DEF RootfsFile, EmptyFile, SwapFile, BootImg

\* What prepare_rootfs left is the partition's file, once its content is right.
LEMMA RootfsFills ==
  ASSUME NEW s, NEW r, Prep(r), r.work = s.work, Same(s.part, r.part),
         NEW i, ParsedPart(r.part, i),
         NEW tree, IsFiniteSet(tree.files), NEW real, NEW b, NEW u,
         Ok(PrepareRootfs(r, tree, real)),
         \A f, q : /\ Same(r.part, q) /\ f.by = q.lineno /\ f.holds = tree.files
                   /\ f.uki = <<>>
                   /\ f.fstab = IF /\ IsExt(r.part.fstype) \/ IsFat(r.part.fstype)
                                   /\ FstabWritten(r.part)
                                THEN "new" ELSE tree.fstab
                   => Content(q, f, b, u)
  PROVE  Filled(s, PrepareRootfs(r, tree, real), b, u)
<1> DEFINE t == PrepareRootfs(r, tree, real)
           name == RootfsFile(r.part)
<1>1. PICK f, q : RootfsLeaves(r, t, tree, f, q)
  <2>1. DOMAIN r = PrepFields
    BY DEF Prep
  <2>2. QED
    BY <2>1, RootfsMade
<1> HIDE DEF t
<1>2. /\ DOMAIN t = PrepFields /\ t.work = With(r.work, name, f) /\ t.part = q
      /\ t.hdd = r.hdd /\ t.tasks = r.tasks
  <2>1. t = [r EXCEPT !.work = With(@, name, f), !.part = q]
    BY <1>1 DEF RootfsLeaves
  <2> HIDE DEF name
  <2>2. QED
    BY <2>1 DEF Prep, PrepFields
<1>3. /\ Content(q, f, b, u) /\ Same(r.part, q) /\ q.source_file = name
      /\ q.size \in Nat /\ f.kb = q.size
  BY <1>1, SameIs DEF RootfsLeaves
<1>4. name \in Names(s.part) /\ name # BootImg
  BY SameNames, NamesDiffer DEF Names
<1>5. Same(s.part, q)
  BY <1>3, SameTwice
<1> HIDE DEF name
<1>6. Prep(t)
  BY <1>2 DEF Prep
<1>7. QED
  BY <1>2, <1>3, <1>4, <1>5, <1>6 DEF Filled, t

LEMMA BootimgPartitionFills ==
  ASSUME NEW s, Prep(s), NEW i, ParsedPart(s.part, i), NEW b, NEW u,
         s.part.source = "bootimg-partition", s.tasks = BootTasks(s.part),
         s.staged = ExtlinuxFiles(s.part, b.configfile, BootTasks(s.part)),
         Ok(BootimgPartitionPrepare(s))
  PROVE  Filled(s, BootimgPartitionPrepare(s), b, u)
<1> DEFINE tree == [files |-> s.staged \cup Installed(s.tasks), original |-> FALSE,
                    fstab |-> "none"]
<1>1. BootimgPartitionPrepare(s) = PrepareRootfs(s, tree, FALSE)
  <2>1. CASE AllDeployed(s.tasks)
    BY <2>1 DEF BootimgPartitionPrepare
  <2>2. CASE ~AllDeployed(s.tasks)
    <3>1. BootimgPartitionPrepare(s) = Fail(s, "WicError")
      BY <2>2 DEF BootimgPartitionPrepare
    <3>2. Fail(s, "WicError").err # None
      BY FailKeeps DEF Errors
    <3>3. QED
      BY <3>1, <3>2 DEF Ok
  <2>3. QED
    BY <2>1, <2>2
<1>2. tree.files = s.staged \cup Installed(s.tasks) /\ tree.fstab = "none"
  OBVIOUS
<1> HIDE DEF tree
<1>3. IsFiniteSet(tree.files)
  <2>1. IsFiniteSet(s.staged)
    <3> DEFINE e == ExtlinuxFiles(s.part, b.configfile, BootTasks(s.part))
               x == Extlinux(BootTasks(s.part))
               y == BootFile("extlinux", "custom")
    <3>1. e = {} \/ e = {x} \/ e = {y}
      BY DEF ExtlinuxFiles
    <3>2. IsFiniteSet({x}) /\ IsFiniteSet({y})
      BY FS_Singleton
    <3> HIDE DEF e, x, y
    <3>3. IsFiniteSet(e)
      BY <3>1, <3>2, FS_EmptySet
    <3>4. QED
      BY <3>3 DEF e
  <2>2. IsFiniteSet(Installed(s.tasks))
    BY InstalledFinite DEF Prep
  <2>3. QED
    BY <1>2, <2>1, <2>2, FiniteUnion
<1>4. ASSUME NEW f, NEW q, Same(s.part, q), f.by = q.lineno, f.holds = tree.files,
             f.uki = <<>>
      PROVE  Content(q, f, b, u)
  <2>1. q.source = "bootimg-partition" /\ q.uuid = s.part.uuid /\ q.label = s.part.label
        /\ q.loader = s.part.loader
    BY <1>4, SameIs
  <2>2. BootTasks(q) = BootTasks(s.part)
    BY <2>1 DEF BootTasks
  <2>3. ExtlinuxFiles(q, b.configfile, BootTasks(q))
          = ExtlinuxFiles(s.part, b.configfile, BootTasks(s.part))
    BY <2>1, <2>2 DEF ExtlinuxFiles
  <2>4. f.holds = Installed(BootTasks(q)) \cup ExtlinuxFiles(q, b.configfile, BootTasks(q))
    BY <1>2, <1>4, <2>2, <2>3
  <2>5. QED
    BY <1>4, <2>1, <2>4 DEF Content
<1>5. Same(s.part, s.part)
  BY DEF Same, ParsedPart
<1>6. QED
  BY <1>1, <1>3, <1>4, <1>5, RootfsFills

\* A copied tree.
LEMMA CopiedIs ==
  ASSUME NEW p, NEW i, ParsedPart(p, i), NEW tree, IsFiniteSet(tree.files)
  PROVE  /\ IsFiniteSet(Copied(p, tree).files)
         /\ Copied(p, tree).fstab \in {"none", "new", "old"}
         /\ Copied(p, tree).fstab = "new" =>
              p.updated_fstab /\ p.update_fstab_in_rootfs /\ ~p.no_fstab_update
         /\ /\ Copied(p, tree).fstab = "old"
            /\ p.updated_fstab /\ p.update_fstab_in_rootfs
            => p.no_fstab_update
<1> DEFINE cd == IF p.change_dir THEN {f \in tree.files : f.dir = "sub"} ELSE tree.files
           added == cd \cup UNION {Trees[t].files : t \in p.include}
           left == {f \in added : f.dir \notin p.exclude}
           now == p.updated_fstab /\ p.update_fstab_in_rootfs /\ ~p.no_fstab_update
           c == Copied(p, tree)
<1>1. IsFiniteSet(left)
  <2>1. IsFiniteSet(cd)
    BY FS_Subset
  <2>2. IsFiniteSet(UNION {Trees[t].files : t \in p.include})
    BY TreesFinite DEF ParsedPart
  <2> HIDE DEF cd
  <2>3. IsFiniteSet(added)
    BY <2>1, <2>2, FiniteUnion
  <2> HIDE DEF added
  <2>4. QED
    BY <2>3, FS_Subset
<1>2. /\ c.files = left
      /\ c.fstab = IF ~HasFstab(left) THEN "none" ELSE IF now THEN "new" ELSE "old"
  BY DEF Copied
<1> HIDE DEF c, left
<1>3. IsFiniteSet(c.files)
  BY <1>1, <1>2
<1>4. c.fstab \in {"none", "new", "old"}
  BY <1>2
<1>5. c.fstab = "new" => now
  BY <1>2
<1>6. c.fstab = "old" => ~now
  BY <1>2
<1>7. QED
  BY <1>3, <1>4, <1>5, <1>6 DEF c

\* The rootfs plugin: the new fstab is in the file system whenever there was
\* one and the line does not refuse it, put in before the file system is made
\* or afterwards.
LEMMA RootfsPrepareFills ==
  ASSUME NEW s, Prep(s), NEW i, ParsedPart(s.part, i), NEW b, NEW u \in BOOLEAN,
         s.part.source = "rootfs", s.part.updated_fstab = u,
         s.part.update_fstab_in_rootfs
           = (u /\ ~(IsExt(s.part.fstype) \/ s.part.fstype = "msdos")),
         Ok(RootfsPrepare(s))
  PROVE  Filled(s, RootfsPrepare(s), b, u)
<1> DEFINE p == s.part
           name == RootfsTree(p)
           tree == [files |-> Trees[name].files,
                    original |-> name = RootfsDirs["ROOTFS_DIR"],
                    fstab |-> IF HasFstab(Trees[name].files) THEN "old" ELSE "none"]
           copy == \/ p.exclude # {} \/ p.include # {} \/ p.change_dir
                   \/ p.update_fstab_in_rootfs
           used == IF copy THEN Copied(p, tree) ELSE tree
           has == used.fstab # "none"
           r == [s EXCEPT !.part.has_fstab = has, !.part.rootfs_dir = name]
           late == u /\ ~(IsExt(p.fstype) \/ p.fstype = "msdos")
<1>1. name \in DOMAIN Trees /\ RootfsPrepare(s) = PrepareRootfs(r, used, TRUE)
  <2>1. CASE name \in DOMAIN Trees
    BY <2>1 DEF RootfsPrepare
  <2>2. CASE name \notin DOMAIN Trees
    <3>1. RootfsPrepare(s) = Fail(s, "TypeError")
      BY <2>2 DEF RootfsPrepare
    <3>2. Fail(s, "TypeError").err # None
      BY FailKeeps DEF Errors
    <3>3. QED
      BY <3>1, <3>2 DEF Ok
  <2>3. QED
    BY <2>1, <2>2
<1>2. IsFiniteSet(tree.files) /\ tree.fstab \in {"none", "old"}
  <2>1. IsFiniteSet(Trees[name].files)
    BY <1>1, FilesAssumption
  <2> HIDE DEF name
  <2>2. QED
    BY <2>1
<1>3. /\ IsFiniteSet(used.files)
      /\ used.fstab \in {"none", "new", "old"}
      /\ used.fstab = "new" => u /\ late /\ ~p.no_fstab_update
      /\ used.fstab = "old" /\ u /\ late => p.no_fstab_update
  <2>1. p.updated_fstab = u /\ p.update_fstab_in_rootfs = late
    OBVIOUS
  <2>2. CASE copy
    <3>1. used = Copied(p, tree)
      BY <2>2
    <3> HIDE DEF used, tree, p, late
    <3>2. /\ IsFiniteSet(Copied(p, tree).files)
          /\ Copied(p, tree).fstab \in {"none", "new", "old"}
          /\ Copied(p, tree).fstab = "new" =>
               p.updated_fstab /\ p.update_fstab_in_rootfs /\ ~p.no_fstab_update
          /\ /\ Copied(p, tree).fstab = "old"
             /\ p.updated_fstab /\ p.update_fstab_in_rootfs
             => p.no_fstab_update
      BY <1>2, CopiedIs DEF p
    <3>3. QED
      BY <2>1, <3>1, <3>2
  <2>3. CASE ~copy
    <3>1. used = tree /\ ~late
      BY <2>1, <2>3
    <3> HIDE DEF used, tree, late
    <3>2. QED
      BY <1>2, <3>1
  <2>4. QED
    BY <2>2, <2>3
<1> HIDE DEF used, tree, copy
<1>4. r = [s EXCEPT !.part = [[p EXCEPT !["has_fstab"] = has] EXCEPT !["rootfs_dir"] = name]]
  BY DEF Prep, PrepFields
<1> DEFINE p1 == [p EXCEPT !["has_fstab"] = has]
           p2 == [p1 EXCEPT !["rootfs_dir"] = name]
<1> HIDE DEF r, name
<1>5. /\ Prep(r) /\ r.work = s.work /\ r.part = p2
  BY <1>4 DEF Prep, PrepFields
<1> HIDE DEF has
<1>6. /\ Same(p, p1) /\ p1.has_fstab = has
      /\ \A k \in PartOptions \ {"has_fstab"} : p1[k] = p[k]
  <2>1. DOMAIN p = PartOptions /\ "has_fstab" \in Worked
    BY DEF ParsedPart, Worked
  <2> HIDE DEF p
  <2>2. QED
    BY <2>1, SameSet
<1>7. /\ Same(p1, p2) /\ \A k \in PartOptions \ {"rootfs_dir"} : p2[k] = p1[k]
  <2>1. DOMAIN p1 = PartOptions /\ "rootfs_dir" \in Worked
    BY <1>6 DEF Same, Worked
  <2> HIDE DEF p1
  <2>2. QED
    BY <2>1, SameSet
<1> HIDE DEF p1, p2
<1>8. /\ Same(p, p2) /\ p2.size = p.size /\ p2.has_fstab = has
      /\ p2.updated_fstab = p.updated_fstab /\ p2.no_fstab_update = p.no_fstab_update
      /\ p2.fstype = p.fstype /\ p2.source = p.source
  <2>1. Same(p, p2)
    BY <1>6, <1>7, SameTwice
  <2>2. {"size", "has_fstab", "updated_fstab", "no_fstab_update", "fstype", "source"}
          \subseteq PartOptions \ {"rootfs_dir"}
    BY DEF PartOptions
  <2>3. {"size", "updated_fstab", "no_fstab_update", "fstype", "source"}
          \subseteq PartOptions \ {"has_fstab"}
    BY DEF PartOptions
  <2>4. /\ p2.size = p1.size /\ p2.has_fstab = p1.has_fstab
        /\ p2.updated_fstab = p1.updated_fstab
        /\ p2.no_fstab_update = p1.no_fstab_update
        /\ p2.fstype = p1.fstype /\ p2.source = p1.source
    BY <1>7, <2>2
  <2>5. /\ p1.size = p.size /\ p1.updated_fstab = p.updated_fstab
        /\ p1.no_fstab_update = p.no_fstab_update
        /\ p1.fstype = p.fstype /\ p1.source = p.source
    BY <1>6, <2>3
  <2>6. QED
    BY <1>6, <2>1, <2>4, <2>5
<1>9. ParsedPart(p2, i)
  <2>1. ParsedPart(p, i) /\ p2.size \in Nat
    BY <1>8 DEF ParsedPart
  <2> HIDE DEF p
  <2>2. QED
    BY <1>8, <2>1, SameParsed
<1>10. ASSUME NEW f, NEW q, Same(p2, q), f.by = q.lineno, f.uki = <<>>,
              f.fstab = IF (IsExt(p2.fstype) \/ IsFat(p2.fstype)) /\ FstabWritten(p2)
                        THEN "new" ELSE used.fstab
       PROVE  Content(q, f, b, u)
  <2>1. q.source = "rootfs" /\ q.no_fstab_update = p.no_fstab_update
    BY <1>8, <1>10, SameIs
  <2>2. FstabWritten(p2) <=> u /\ has /\ ~p.no_fstab_update
    BY <1>8 DEF FstabWritten
  <2>3. late <=> u /\ ~(IsExt(p.fstype) \/ p.fstype = "msdos")
    OBVIOUS
  <2>4. f.fstab # "none" => (f.fstab = "new" <=> u /\ ~q.no_fstab_update)
    <3> DEFINE fat == IsExt(p2.fstype) \/ IsFat(p2.fstype)
    <3>1. ~fat => ~(IsExt(p.fstype) \/ p.fstype = "msdos")
      BY <1>8 DEF IsFat
    <3>2. f.fstab = IF fat /\ FstabWritten(p2) THEN "new" ELSE used.fstab
      BY <1>10
    <3> DEFINE no == p.no_fstab_update
    <3>3. q.no_fstab_update = no
      BY <2>1
    <3> HIDE DEF fat, late, p, p2, no
    <3>4. CASE fat /\ FstabWritten(p2)
      BY <2>2, <3>2, <3>3, <3>4 DEF no
    <3>5. CASE ~(fat /\ FstabWritten(p2))
      <4>1. f.fstab = used.fstab
        BY <3>2, <3>5
      <4>2. used.fstab = "new" => u /\ ~no
        BY <1>3 DEF no
      <4>3. used.fstab = "old" => ~(u /\ ~no)
        <5>1. CASE fat
          <6>1. used.fstab = "old" => has
            BY DEF has
          <6>2. QED
            BY <2>2, <3>5, <5>1, <6>1 DEF no
        <5>2. CASE ~fat
          BY <1>3, <2>3, <3>1, <5>2 DEF no
        <5>3. QED
          BY <5>1, <5>2
      <4>4. QED
        BY <1>3, <3>3, <4>1, <4>2, <4>3
    <3>6. QED
      BY <3>4, <3>5
  <2>5. QED
    BY <1>10, <2>1, <2>4 DEF Content
<1>11. Ok(PrepareRootfs(r, used, TRUE))
  BY <1>1
<1>12. Filled(s, PrepareRootfs(r, used, TRUE), b, u)
  <2>1. Same(s.part, r.part) /\ ParsedPart(r.part, i)
    BY <1>5, <1>8, <1>9
  <2>2. \A f, q : /\ Same(r.part, q) /\ f.by = q.lineno /\ f.holds = used.files
                  /\ f.uki = <<>>
                  /\ f.fstab = IF /\ IsExt(r.part.fstype) \/ IsFat(r.part.fstype)
                                  /\ FstabWritten(r.part)
                               THEN "new" ELSE used.fstab
                  => Content(q, f, b, u)
    BY <1>5, <1>10
  <2>3. QED
    BY <1>3, <1>5, <1>11, <2>1, <2>2, RootfsFills
<1>13. QED
  BY <1>1, <1>12

\* How large the FAT image of a boot partition is made.
LEMMA EfiBlocksIs ==
  ASSUME NEW p, NEW i, ParsedPart(p, i), NEW files, IsFiniteSet(files)
  PROVE  EfiBlocks(p, files) \in Nat
<1> DEFINE used == Du(files)
           extra == GetExtraBlockCount(p, used)
           more == Max({extra, BOOTDD_EXTRA_SPACE})
<1>1. used \in Nat /\ p.size \in Nat /\ p.fixed_size \in Nat /\ BOOTDD_EXTRA_SPACE \in Nat
  BY DuIs, FilesAssumption DEF ParsedPart
<1> HIDE DEF used
<1>2. extra \in Nat
  BY <1>1 DEF GetExtraBlockCount
<1> HIDE DEF extra
<1>3. more \in Nat
  BY <1>1, <1>2, MaxPair
<1> HIDE DEF more
<1>4. Max({used + more, p.fixed_size}) \in Nat
  <2>1. used + more \in Nat
    BY <1>1, <1>3
  <2> DEFINE a == used + more
  <2> HIDE DEF a
  <2>2. Max({a, p.fixed_size}) \in Nat
    BY <1>1, <2>1, MaxPair DEF a
  <2>3. QED
    BY <2>2 DEF a
<1>5. QED
  BY <1>4 DEF EfiBlocks, used, extra, more

\* The file the EFI plugins make.
EfiFiles(s) ==
  s.hdd \cup EfiKernel(s.part) \cup Installed(EfiInstalls(s)) \cup LoaderFiles(s.part)
    \cup UNION {Trees[t].files : t \in s.part.include}
EfiImage(s) ==
  [File(s.part, EfiFiles(s), "none", EfiBlocks(s.part, EfiFiles(s))) EXCEPT
     !.uki = IF s.part.unified THEN Sections(s.part.uki) ELSE <<>>]

LEMMA EfiFilesFinite ==
  ASSUME NEW s, Prep(s), NEW i, ParsedPart(s.part, i)
  PROVE  IsFiniteSet(EfiFiles(s))
<1>1. IsFiniteSet(s.hdd) /\ IsFiniteSet(s.tasks)
  BY DEF Prep
<1>2. IsFiniteSet(EfiKernel(s.part))
  <2>1. \/ EfiKernel(s.part) = {Boot("linux.efi")}
        \/ EfiKernel(s.part) = {Boot("kernel")}
        \/ EfiKernel(s.part) = {}
    BY DEF EfiKernel
  <2>2. IsFiniteSet({Boot("linux.efi")}) /\ IsFiniteSet({Boot("kernel")})
    BY FS_Singleton
  <2>3. QED
    BY <2>1, <2>2, FS_EmptySet
<1>3. IsFiniteSet(Installed(EfiInstalls(s)))
  <2>1. IsFiniteSet(EfiInstalls(s))
    BY <1>1, FS_EmptySet DEF EfiInstalls
  <2>2. QED
    BY <2>1, InstalledFinite
<1>4. IsFiniteSet(LoaderFiles(s.part))
  <2>1. IsFiniteSet({g \in KernelDir : g.group = s.part.loader})
    BY FilesAssumption, FS_Subset
  <2>2. QED
    BY <2>1, BootNamesFinite DEF LoaderFiles
<1>5. IsFiniteSet(UNION {Trees[t].files : t \in s.part.include})
  BY TreesFinite DEF ParsedPart
<1> DEFINE a == s.hdd
           c == EfiKernel(s.part)
           d == Installed(EfiInstalls(s))
           e == LoaderFiles(s.part)
           g == UNION {Trees[t].files : t \in s.part.include}
<1>6. EfiFiles(s) = a \cup c \cup d \cup e \cup g
  BY DEF EfiFiles
<1> HIDE DEF a, c, d, e, g
<1>7. IsFiniteSet(a \cup c)
  BY <1>1, <1>2, FiniteUnion DEF a, c
<1>8. IsFiniteSet(a \cup c \cup d)
  BY <1>7, <1>3, FiniteUnion DEF d
<1>9. IsFiniteSet(a \cup c \cup d \cup e)
  BY <1>8, <1>4, FiniteUnion DEF e
<1>10. IsFiniteSet(a \cup c \cup d \cup e \cup g)
  BY <1>9, <1>5, FiniteUnion DEF g
<1>11. QED
  BY <1>6, <1>10

\* Its kernel's sections do not overlap, and no image of that name was there.
LEMMA EfiPrepareFills ==
  ASSUME NEW s, Prep(s), NEW i, ParsedPart(s.part, i), NEW b, NEW u,
         s.part.source \in {"bootimg-efi", "bootimg-efi-amd"}, Ok(EfiPrepare(s))
  PROVE  Filled(s, EfiPrepare(s), b, u)
<1> DEFINE p == s.part
           files == EfiFiles(s)
           f == EfiImage(s)
           bad == \/ p.unified /\ (p.initrd = {} \/ p.dtb # {} \/ AdditionalMissing(p))
                  \/ ~AllDeployed(EfiInstalls(s))
           t == EfiPrepare(s)
           out == [Put(s, BootImg, f) EXCEPT !.hdd = files, !.part.size = f.kb]
<1>1. Fail(s, "WicError").err # None /\ Fail([s EXCEPT !.hdd = files], "WicError").err # None
  <2>1. DOMAIN s = PrepFields /\ DOMAIN [s EXCEPT !.hdd = files] = PrepFields
    BY DEF Prep
  <2> DEFINE s1 == [s EXCEPT !.hdd = files]
  <2> HIDE DEF s1
  <2>2. Fail(s, "WicError").err # None /\ Fail(s1, "WicError").err # None
    BY <2>1, Failed DEF Errors, s1
  <2>3. QED
    BY <2>2 DEF s1
<1>2. BootImg \notin DOMAIN s.work /\ t = out
  <2>1. CASE bad
    <3>1. t = Fail(s, "WicError")
      BY <2>1 DEF EfiPrepare
    <3>2. QED
      BY <1>1, <3>1 DEF Ok
  <2>2. CASE ~bad /\ BootImg \in DOMAIN s.work
    <3>1. t = Fail([s EXCEPT !.hdd = files], "WicError")
      BY <2>2 DEF EfiPrepare, BootImg, EfiFiles
    <3>2. QED
      BY <1>1, <3>1 DEF Ok
  <2>3. CASE ~bad /\ BootImg \notin DOMAIN s.work
    <3>1. t = out
      BY <2>3 DEF EfiPrepare, BootImg, EfiFiles, EfiImage
    <3>2. QED
      BY <2>3, <3>1
  <2>4. QED
    BY <2>1, <2>2, <2>3
<1>3. IsFiniteSet(files)
  BY EfiFilesFinite
<1> HIDE DEF files, t
<1>4. /\ f.by = p.lineno /\ f.kb = EfiBlocks(p, files)
      /\ f.fstab = "none"
      /\ f.uki = IF p.unified THEN Sections(p.uki) ELSE <<>>
  BY DEF EfiImage, File, files
<1> HIDE DEF f
<1>5. f.kb \in Nat
  BY <1>3, <1>4, EfiBlocksIs
<1> DEFINE q == [[p EXCEPT !["source_file"] = BootImg] EXCEPT !["size"] = f.kb]
<1>6. /\ out = [[s EXCEPT !.work = With(@, BootImg, f)] EXCEPT !.hdd = files, !.part = q]
  BY DEF Put, Prep, PrepFields
<1>7. /\ DOMAIN t = PrepFields /\ t.work = With(s.work, BootImg, f) /\ t.part = q
      /\ t.hdd = files /\ t.tasks = s.tasks
  <2>1. t = [[s EXCEPT !.work = With(@, BootImg, f)] EXCEPT !.hdd = files, !.part = q]
    BY <1>2, <1>6
  <2> HIDE DEF q
  <2>2. QED
    BY <2>1 DEF Prep, PrepFields
<1>8. Same(p, q) /\ q.source_file = BootImg /\ q.size = f.kb
  <2>1. DOMAIN p = PartOptions
    BY DEF ParsedPart
  <2>2. "size" \in PartOptions /\ "source_file" \in PartOptions
    BY DEF PartOptions
  <2> HIDE DEF p
  <2>3. QED
    BY <2>1, <2>2 DEF Same, Worked
<1> HIDE DEF q
<1>9. Content(q, f, b, u)
  <2>1. /\ q.lineno = p.lineno /\ q.source = p.source /\ q.uki = p.uki
        /\ q.unified = p.unified
    BY <1>8, SameIs
  <2>2. f.uki # <<>> => p.uki \in Uki /\ f.uki = Sections(p.uki)
    BY <1>4 DEF ParsedPart
  <2>3. f.uki # <<>> => Apart(f.uki, q.uki.stub, q.uki.align)
    BY <2>1, <2>2, SectionsNeverOverlap
  <2>4. QED
    BY <1>4, <1>8, <2>1, <2>3 DEF Content
<1>10. Prep(t)
  BY <1>3, <1>7 DEF Prep
<1>11. BootImg \in Names(s.part)
  BY DEF Names
<1>12. QED
  BY <1>2, <1>5, <1>7, <1>8, <1>9, <1>10, <1>11 DEF Filled, t

LEMMA AmdPrepareFills ==
  ASSUME NEW s, Prep(s), NEW i, ParsedPart(s.part, i), NEW b, NEW u,
         s.part.source = "bootimg-efi-amd", Ok(AmdPrepare(s))
  PROVE  Filled(s, AmdPrepare(s), b, u)
<1>1. AmdPrepare(s) \in {Fail(s, "TypeError"), Fail(s, "WicError"), EfiPrepare(s)}
  BY DEF AmdPrepare
<1>2. Fail(s, "TypeError").err # None /\ Fail(s, "WicError").err # None
  BY FailKeeps DEF Errors
<1>3. AmdPrepare(s) = EfiPrepare(s)
  <2> DEFINE t == AmdPrepare(s)
  <2>1. t.err = None /\ t \in {Fail(s, "TypeError"), Fail(s, "WicError"), EfiPrepare(s)}
    BY <1>1 DEF Ok
  <2> HIDE DEF t
  <2>2. t = EfiPrepare(s)
    BY <1>2, <2>1
  <2>3. QED
    BY <2>2 DEF t
<1>4. QED
  BY <1>3, EfiPrepareFills

------------------------------------------------------------------------------
(* Partition.prepare.                                                       *)

\* What a preparation that does not fail leaves: the partition's file, or, for
\* a partition without a source, perhaps none.
Supplied(s, t, b, updated) ==
  /\ Prep(t)
  /\ Same(s.part, t.part) /\ t.part.size \in Nat
  /\ \/ /\ t.part.source_file = <<>> /\ t.work = s.work
        /\ t.part.source = None
     \/ /\ t.part.source_file \in Names(t.part)
        /\ \E f : /\ t.work = With(s.work, t.part.source_file, f)
                  /\ Made(t.part, f, b, updated)
                  /\ t.part.source_file = BootImg => BootImg \notin DOMAIN s.work

\* A file made for a partition without a source.
LEMMA PutSupplies ==
  ASSUME NEW s, Prep(s), NEW i, ParsedPart(s.part, i), s.part.source = None,
         NEW name \in {SwapFile, EmptyFile(s.part)}, NEW kb \in Int,
         UncheckedSwap(s.part) \/ kb <= DiskSize(s.part), NEW b, NEW u
  PROVE  Supplied(s, Put(s, name, File(s.part, {}, "none", kb)), b, u)
<1> DEFINE p == s.part
           f == File(p, {}, "none", kb)
           q == [p EXCEPT !["source_file"] = name]
           t == Put(s, name, f)
<1>1. t = [s EXCEPT !.work = With(@, name, f), !.part = q]
  BY DEF Put
<1>2. f.by = p.lineno /\ f.kb = kb /\ f.uki = <<>>
  BY DEF File
<1> HIDE DEF f, t
<1>3. /\ Same(p, q) /\ q.source_file = name
      /\ \A k \in PartOptions \ {"source_file"} : q[k] = p[k]
  <2>1. DOMAIN p = PartOptions /\ "source_file" \in Worked
    BY DEF ParsedPart, Worked
  <2> HIDE DEF p
  <2>2. QED
    BY <2>1, SameSet
<1> HIDE DEF q
<1>4. /\ DOMAIN t = PrepFields /\ t.work = With(s.work, name, f) /\ t.part = q
      /\ t.hdd = s.hdd /\ t.tasks = s.tasks
  BY <1>1 DEF Prep, PrepFields
<1>5. q.size = p.size
  BY <1>3 DEF PartOptions
<1>6. /\ q.lineno = p.lineno /\ q.source = None /\ q.fstype = p.fstype
      /\ q.fixed_size = p.fixed_size
  BY <1>3, SameIs
<1>7. Made(q, f, b, u)
  <2>1. q.source # "rootfs" /\ q.source # "bootimg-partition"
    BY <1>6, NoneAssumption DEF Sources
  <2>2. Content(q, f, b, u)
    BY <1>2, <1>6, <2>1 DEF Content
  <2>3. UncheckedSwap(q) \/ f.kb <= DiskSize(q)
    BY <1>2, <1>5, <1>6 DEF UncheckedSwap, DiskSize
  <2>4. QED
    BY <1>2, <2>2, <2>3 DEF Made
<1>8. name \in Names(q) /\ name # BootImg
  BY <1>3, SameNames, NamesDiffer DEF Names
<1>9. Prep(t) /\ q.size \in Nat
  BY <1>4, <1>5 DEF Prep, ParsedPart
<1>10. QED
  BY <1>3, <1>4, <1>7, <1>8, <1>9 DEF Supplied, t, f

LEMMA PrepareSourcelessSupplies ==
  ASSUME NEW s, Prep(s), NEW i, ParsedPart(s.part, i), s.part.source = None,
         s.part.source_file = <<>>, NEW b, NEW u, Ok(PrepareSourceless(s))
  PROVE  Supplied(s, PrepareSourceless(s), b, u)
<1> DEFINE p == s.part
           t == PrepareSourceless(s)
           swap == Put(s, SwapFile, File(p, {}, "none", p.size))
           empty == Put(s, EmptyFile(p), File(p, {}, "none", DiskSize(p)))
<1>1. p.size \in Nat /\ p.fixed_size \in Nat
  BY DEF ParsedPart
<1>2. \/ t = s
      \/ t = Fail(s, "WicError")
      \/ p.fstype = "swap" /\ t = swap
      \/ t = empty
  <2>1. \/ t \in {s, Fail(s, "WicError"), PrepareEmpty(s)}
        \/ p.fstype = "swap" /\ t = PrepareSwap(s)
    BY DEF PrepareSourceless
  <2>2. PrepareEmpty(s) \in {Fail(s, "WicError"), empty}
    BY DEF PrepareEmpty, EmptyFile
  <2>3. PrepareSwap(s) \in {Fail(s, "WicError"), swap}
    BY DEF PrepareSwap, SwapFile
  <2> HIDE DEF t, swap, empty
  <2>4. QED
    BY <2>1, <2>2, <2>3
<1>3. t.err = None /\ Fail(s, "WicError").err # None
  BY FailKeeps DEF Errors, Ok
<1>4. Supplied(s, s, b, u)
  <2>1. Same(p, p)
    BY DEF Same, ParsedPart
  <2>2. QED
    BY <1>1, <2>1 DEF Supplied
<1>5. p.fstype = "swap" => Supplied(s, swap, b, u)
  <2>1. SUFFICES ASSUME p.fstype = "swap" PROVE Supplied(s, swap, b, u)
    OBVIOUS
  <2>2. UncheckedSwap(p) \/ p.size <= DiskSize(p)
    BY <1>1, <2>1 DEF UncheckedSwap, DiskSize
  <2>3. p.size \in Int /\ SwapFile \in {SwapFile, EmptyFile(p)}
    BY <1>1
  <2>4. QED
    BY <2>2, <2>3, PutSupplies
<1>6. Supplied(s, empty, b, u)
  <2>1. DiskSize(p) \in Int /\ DiskSize(p) <= DiskSize(p)
    BY <1>1 DEF DiskSize
  <2>2. EmptyFile(p) \in {SwapFile, EmptyFile(p)}
    OBVIOUS
  <2>3. QED
    BY <2>1, <2>2, PutSupplies
<1> HIDE DEF t, swap, empty
<1>7. Supplied(s, t, b, u)
  BY <1>2, <1>3, <1>4, <1>5, <1>6
<1>8. QED
  BY <1>7 DEF t

\* The call of the plugin's do_prepare_partition.
LEMMA CallPrepareFills ==
  ASSUME NEW s, Prep(s), NEW i, ParsedPart(s.part, i), NEW b, NEW u \in BOOLEAN,
         s.part.updated_fstab = u,
         s.part.update_fstab_in_rootfs
           = (u /\ ~(IsExt(s.part.fstype) \/ s.part.fstype = "msdos")),
         s.part.source = "bootimg-partition" /\ Ok(s) =>
           /\ s.tasks = BootTasks(s.part)
           /\ s.staged = ExtlinuxFiles(s.part, b.configfile, BootTasks(s.part)),
         Ok(CallPrepare(s))
  PROVE  Filled(s, CallPrepare(s), b, u)
<1> DEFINE t == CallPrepare(s)
           source == s.part.source
<1>1. Ok(s)
  BY DEF CallPrepare
<1>2. source \in TakesSectorSize
  <2>1. CASE source \notin TakesSectorSize
    <3>1. t = Fail(s, "TypeError")
      BY <1>1, <2>1 DEF CallPrepare, TakesSectorSize
    <3>2. Fail(s, "TypeError").err # None
      BY FailKeeps DEF Errors
    <3>3. QED
      BY <3>1, <3>2 DEF Ok
  <2>2. QED
    BY <2>1
<1>3. CASE source = "rootfs"
  <2>1. t = RootfsPrepare(s)
    BY <1>1, <1>3 DEF CallPrepare, TakesSectorSize
  <2>2. QED
    BY <1>3, <2>1, RootfsPrepareFills
<1>4. CASE source = "bootimg-partition"
  <2>1. t = BootimgPartitionPrepare(s)
    BY <1>1, <1>4 DEF CallPrepare, TakesSectorSize
  <2>2. QED
    BY <1>1, <1>4, <2>1, BootimgPartitionFills
<1>5. CASE source = "bootimg-efi"
  <2>1. t = EfiPrepare(s)
    BY <1>1, <1>5 DEF CallPrepare, TakesSectorSize
  <2>2. QED
    BY <1>5, <2>1, EfiPrepareFills
<1>6. CASE source = "bootimg-efi-amd"
  <2>1. t = AmdPrepare(s)
    BY <1>1, <1>6 DEF CallPrepare, TakesSectorSize
  <2>2. QED
    BY <1>6, <2>1, AmdPrepareFills
<1>7. QED
  BY <1>2, <1>3, <1>4, <1>5, <1>6 DEF TakesSectorSize

\* The check at the end, without which a file may be too large.
LEMMA CheckedSupplies ==
  ASSUME NEW s, Prep(s), NEW i, ParsedPart(s.part, i), NEW b, NEW u,
         NEW t, Filled(s, t, b, u), Ok(CheckFixed(t))
  PROVE  CheckFixed(t) = t /\ Supplied(s, t, b, u)
<1>1. CASE Ok(t) /\ t.part.fixed_size > 0 /\ t.part.size > t.part.fixed_size
  <2>1. CheckFixed(t) = Fail(t, "WicError")
    BY <1>1 DEF CheckFixed
  <2>2. Fail(t, "WicError").err # None
    BY FailKeeps DEF Errors, Filled
  <2>3. QED
    BY <2>1, <2>2 DEF Ok
<1>2. CASE ~(Ok(t) /\ t.part.fixed_size > 0 /\ t.part.size > t.part.fixed_size)
  <2>1. CheckFixed(t) = t
    BY <1>2 DEF CheckFixed
  <2>2. Ok(t)
    BY <2>1
  <2>3. /\ Prep(t) /\ Same(s.part, t.part) /\ t.part.size \in Nat
        /\ t.part.source_file \in Names(s.part)
    BY DEF Filled
  <2>4. PICK f : /\ t.work = With(s.work, t.part.source_file, f)
                 /\ f.kb = t.part.size
                 /\ Content(t.part, f, b, u)
                 /\ t.part.source_file = BootImg => BootImg \notin DOMAIN s.work
    BY DEF Filled
  <2>5. t.part.fixed_size \in Nat
    BY <2>3, SameIs DEF ParsedPart
  <2>6. f.kb <= DiskSize(t.part)
    BY <1>2, <2>2, <2>3, <2>4, <2>5 DEF DiskSize
  <2>7. Made(t.part, f, b, u)
    BY <2>3, <2>4, <2>6 DEF Made
  <2>8. t.part.source_file \in Names(t.part)
    BY <2>3, SameNames
  <2>9. QED
    BY <2>1, <2>3, <2>4, <2>7, <2>8 DEF Supplied
<1>3. QED
  BY <1>1, <1>2

\* All of it.
LEMMA PrepareSupplies ==
  ASSUME NEW s, Prep(s), NEW i, ParsedPart(s.part, i), s.part.source_file = <<>>,
         NEW b, NEW u \in BOOLEAN, Ok(Prepare(s, b, u))
  PROVE  Supplied(s, Prepare(s, b, u), b, u)
<1> DEFINE p == s.part
           late == u /\ ~(IsExt(p.fstype) \/ p.fstype = "msdos")
           p1 == [p EXCEPT !["updated_fstab"] = u]
           p2 == [p1 EXCEPT !["update_fstab_in_rootfs"] = late]
           r == [s EXCEPT !.part.updated_fstab = u, !.part.update_fstab_in_rootfs = late]
           c == Configure(r, b)
           t == Prepare(s, b, u)
<1>1. r = [s EXCEPT !.part = p2]
  BY DEF Prep, PrepFields
<1>2. \/ r.part.source = None /\ t = PrepareSourceless(r)
      \/ t = Fail(r, "WicError")
      \/ r.part.source # None /\ t = CheckFixed(CallPrepare(c))
  BY DEF Prepare
<1> HIDE DEF r
<1>3. Prep(r) /\ r.part = p2 /\ r.work = s.work
  BY <1>1 DEF Prep, PrepFields
<1>4. /\ Same(p, p1) /\ p1.updated_fstab = u
      /\ \A k \in PartOptions \ {"updated_fstab"} : p1[k] = p[k]
  <2>1. DOMAIN p = PartOptions /\ "updated_fstab" \in Worked
    BY DEF ParsedPart, Worked
  <2> HIDE DEF p
  <2>2. QED
    BY <2>1, SameSet
<1>5. /\ Same(p1, p2) /\ p2.update_fstab_in_rootfs = late
      /\ \A k \in PartOptions \ {"update_fstab_in_rootfs"} : p2[k] = p1[k]
  <2>1. DOMAIN p1 = PartOptions /\ "update_fstab_in_rootfs" \in Worked
    BY <1>4 DEF Same, Worked
  <2> HIDE DEF p1, late
  <2>2. QED
    BY <2>1, SameSet
<1> HIDE DEF p1, p2, late
<1>6. /\ Same(p, p2) /\ p2.size = p.size /\ p2.source_file = p.source_file
      /\ p2.updated_fstab = u /\ p2.fstype = p.fstype /\ p2.source = p.source
  <2>1. Same(p, p2)
    BY <1>4, <1>5, SameTwice
  <2>2. {"size", "source_file", "updated_fstab"}
          \subseteq PartOptions \ {"update_fstab_in_rootfs"}
    BY DEF PartOptions
  <2>3. {"size", "source_file"} \subseteq PartOptions \ {"updated_fstab"}
    BY DEF PartOptions
  <2>4. /\ p2.size = p1.size /\ p2.source_file = p1.source_file
        /\ p2.updated_fstab = p1.updated_fstab
    BY <1>5, <2>2
  <2>5. p1.size = p.size /\ p1.source_file = p.source_file
    BY <1>4, <2>3
  <2>6. QED
    BY <1>4, <2>1, <2>4, <2>5, SameIs
<1>7. ParsedPart(p2, i)
  <2>1. ParsedPart(p, i) /\ p2.size \in Nat
    BY <1>6 DEF ParsedPart
  <2> HIDE DEF p
  <2>2. QED
    BY <1>6, <2>1, SameParsed
<1>8. /\ p2.updated_fstab = u
      /\ p2.update_fstab_in_rootfs = (u /\ ~(IsExt(p2.fstype) \/ p2.fstype = "msdos"))
  BY <1>5, <1>6 DEF late
<1>9. Supplied(r, t, b, u)
  <2>1. CASE r.part.source = None /\ t = PrepareSourceless(r)
    <3>1. Supplied(r, PrepareSourceless(r), b, u)
      <4>1. ParsedPart(r.part, i) /\ r.part.source_file = <<>> /\ Ok(PrepareSourceless(r))
        BY <1>3, <1>6, <1>7, <2>1
      <4>2. QED
        BY <1>3, <2>1, <4>1, PrepareSourcelessSupplies
    <3>2. QED
      BY <2>1, <3>1
  <2>2. CASE t = Fail(r, "WicError")
    <3>1. Fail(r, "WicError").err # None
      BY <1>3, FailKeeps DEF Errors
    <3>2. QED
      BY <2>2, <3>1 DEF Ok
  <2>3. CASE t = CheckFixed(CallPrepare(c))
    <3>1. IsFiniteSet(r.part.initrd) /\ IsFiniteSet(r.part.dtb)
      BY <1>3, <1>7 DEF ParsedPart
    <3>2. /\ Keeps(r, c)
          /\ r.part.source = "bootimg-partition" /\ Ok(c) =>
               /\ c.tasks = BootTasks(r.part)
               /\ c.staged = ExtlinuxFiles(r.part, b.configfile, BootTasks(r.part))
      BY <1>3, <3>1, ConfigureDoes
    <3> HIDE DEF c
    <3>3. Prep(c) /\ c.part = p2 /\ c.work = r.work
      BY <1>3, <3>2 DEF Keeps
    <3> DEFINE d == CallPrepare(c)
    <3>4. Ok(CheckFixed(d))
      BY <2>3
    <3>5. Ok(d)
      BY <3>4 DEF CheckFixed, Ok
    <3>6. Filled(c, d, b, u)
      <4>1. ParsedPart(c.part, i)
        BY <1>7, <3>3
      <4>2. /\ c.part.updated_fstab = u
            /\ c.part.update_fstab_in_rootfs
                 = (u /\ ~(IsExt(c.part.fstype) \/ c.part.fstype = "msdos"))
        BY <1>8, <3>3
      <4>3. c.part.source = "bootimg-partition" /\ Ok(c) =>
              /\ c.tasks = BootTasks(c.part)
              /\ c.staged = ExtlinuxFiles(c.part, b.configfile, BootTasks(c.part))
        BY <1>3, <3>2, <3>3
      <4>4. QED
        BY <3>3, <3>5, <4>1, <4>2, <4>3, CallPrepareFills
    <3> HIDE DEF d
    <3>7. CheckFixed(d) = d /\ Supplied(c, d, b, u)
      BY <1>7, <3>3, <3>4, <3>6, CheckedSupplies
    <3>8. Supplied(r, d, b, u)
      BY <1>3, <3>3, <3>7 DEF Supplied
    <3>9. QED
      BY <2>3, <3>7, <3>8 DEF d
  <2>4. QED
    BY <1>2, <2>1, <2>2, <2>3
<1> HIDE DEF t
<1>10. Same(p, t.part)
  BY <1>3, <1>6, <1>9, SameTwice DEF Supplied
<1>11. QED
  BY <1>3, <1>9, <1>10 DEF Supplied, t

------------------------------------------------------------------------------
(* The parser.                                                              *)

\* A size that was not refused.
LEMMA SizeOfIs ==
  ASSUME NEW arg \in [num : Nat, suffix : STRING], SizeOf(arg) # None
  PROVE  SizeOf(arg) \in Nat
<1> DEFINE suffix == IF arg.suffix = "" THEN "M" ELSE arg.suffix
<1>1. arg # None => SizeOf(arg) = IF suffix \in DOMAIN UnitFactor
                                  THEN arg.num * UnitFactor[suffix] * 1 ELSE None
  BY DEF SizeOf, SizeType
<1>2. SizeOf(arg) = IF suffix \in DOMAIN UnitFactor
                    THEN arg.num * UnitFactor[suffix] * 1 ELSE None
  <2>1. arg # None
    BY DEF SizeOf
  <2>2. QED
    BY <1>1, <2>1
<1> HIDE DEF suffix
<1>3. suffix \in DOMAIN UnitFactor
  BY <1>2
<1>4. suffix \in {"k", "K", "M", "G"}
  BY <1>3 DEF UnitFactor
<1>5. UnitFactor[suffix] \in Nat
  BY <1>4 DEF UnitFactor
<1>6. arg.num \in Nat
  OBVIOUS
<1>7. arg.num * UnitFactor[suffix] * 1 \in Nat
  <2> DEFINE a == arg.num
             c == UnitFactor[suffix]
  <2> HIDE DEF a, c
  <2>1. a * c * 1 \in Nat
    BY <1>5, <1>6 DEF a, c
  <2>2. QED
    BY <2>1 DEF a, c
<1>8. QED
  BY <1>2, <1>3, <1>7

\* A part line that was not refused.
LEMMA LineParsed ==
  ASSUME NEW line, PartLine(line), ~Refused(line), NEW n,
         NEW p, p = [WithDefaults(Converted(line)) EXCEPT !.lineno = n]
  PROVE  ParsedPart(p, n) /\ p.source_file = <<>>
<1> DEFINE c == Converted(line)
           d == WithDefaults(c)
<1>1. /\ DOMAIN c = PartOptions
      /\ c.size = IF line.size = None THEN 0 ELSE SizeOf(line.size)
      /\ c.fixed_size = IF line.fixed_size = None THEN 0 ELSE SizeOf(line.fixed_size)
      /\ c.extra_space = SizeOf(line.extra_space)
      /\ \A o \in PartOptions \ SizeOptions : c[o] = line[o]
  <2>1. DOMAIN line = PartOptions
    BY DEF PartLine
  <2>2. {"size", "fixed_size", "extra_space"} \subseteq PartOptions
    BY DEF PartOptions
  <2>3. QED
    BY <2>1, <2>2 DEF Converted, SizeOptions
<1>2. ASSUME NEW o \in SizeOptions, line[o] # None
      PROVE  SizeOf(line[o]) \in Nat
  <2>1. line[o] \in [num : Nat, suffix : STRING]
    BY <1>2 DEF PartLine
  <2>2. SizeOf(line[o]) # None
    BY <1>2 DEF Refused, BadSize
  <2>3. QED
    BY <2>1, <2>2, SizeOfIs
<1>3. c.size \in Nat /\ c.fixed_size \in Nat /\ (c.extra_space # None => c.extra_space \in Nat)
  <2>1. {"size", "fixed_size", "extra_space"} = SizeOptions
    BY DEF SizeOptions
  <2>2. line.extra_space = None => c.extra_space = None
    BY <1>1 DEF SizeOf
  <2>3. QED
    BY <1>1, <1>2, <2>1, <2>2
<1>4. c.overhead # None => c.overhead \in Nat
  <2>1. "overhead" \in PartOptions \ SizeOptions
    BY DEF PartOptions, SizeOptions
  <2>2. QED
    BY <1>1, <2>1 DEF PartLine
<1> HIDE DEF c
<1>5. /\ DOMAIN d = PartOptions
      /\ \A o \in PartOptions \ {"overhead", "extra_space"} : d[o] = c[o]
      /\ c.fixed_size = 0 => d.overhead \in Nat /\ d.extra_space \in Nat
  <2>1. CASE c.fixed_size > 0
    <3>1. d = c
      BY <2>1 DEF WithDefaults
    <3>2. QED
      BY <1>1, <1>3, <2>1, <3>1
  <2>2. CASE ~(c.fixed_size > 0)
    <3> DEFINE a == IF Unset(c, "overhead") THEN DEFAULT_OVERHEAD_FACTOR ELSE c.overhead
               e == IF Unset(c, "extra_space") THEN DEFAULT_EXTRA_SPACE ELSE c.extra_space
    <3>1. d = [c EXCEPT !.overhead = a, !.extra_space = e]
      BY <2>2 DEF WithDefaults
    <3>2. a \in Nat
      BY <1>4 DEF Unset, DEFAULT_OVERHEAD_FACTOR
    <3>3. e \in Nat
      BY <1>3 DEF Unset, DEFAULT_EXTRA_SPACE
    <3> HIDE DEF a, e, d
    <3>4. "overhead" \in PartOptions /\ "extra_space" \in PartOptions
      BY DEF PartOptions
    <3>5. QED
      BY <1>1, <3>1, <3>2, <3>3, <3>4
  <2>3. QED
    BY <2>1, <2>2
<1>6. /\ DOMAIN p = PartOptions /\ p.lineno = n
      /\ \A o \in PartOptions \ {"lineno"} : p[o] = d[o]
  <2>1. "lineno" \in PartOptions
    BY DEF PartOptions
  <2> HIDE DEF d
  <2>2. p = [d EXCEPT !["lineno"] = n]
    BY DEF d, c
  <2>3. QED
    BY <1>5, <2>1, <2>2
<1> HIDE DEF d
<1>7. /\ p.size = c.size /\ p.fixed_size = c.fixed_size
      /\ p.overhead = d.overhead /\ p.extra_space = d.extra_space
      /\ p.include = line.include /\ p.initrd = line.initrd /\ p.dtb = line.dtb
      /\ p.unified = line.unified /\ p.uki = line.uki
      /\ p.source_file = line.source_file
  <2>1. {"include", "initrd", "dtb", "unified", "uki", "source_file"}
          \subseteq PartOptions \ SizeOptions
    BY DEF PartOptions, SizeOptions
  <2>2. {"include", "initrd", "dtb", "unified", "uki", "source_file", "size", "fixed_size"}
          \subseteq PartOptions \ {"overhead", "extra_space"}
    BY DEF PartOptions
  <2>3. {"include", "initrd", "dtb", "unified", "uki", "source_file", "size", "fixed_size",
         "overhead", "extra_space"} \subseteq PartOptions \ {"lineno"}
    BY DEF PartOptions
  <2>4. /\ p.size = d.size /\ p.fixed_size = d.fixed_size
        /\ p.overhead = d.overhead /\ p.extra_space = d.extra_space
        /\ p.include = d.include /\ p.initrd = d.initrd /\ p.dtb = d.dtb
        /\ p.unified = d.unified /\ p.uki = d.uki
        /\ p.source_file = d.source_file
    BY <1>6, <2>3
  <2>5. /\ d.size = c.size /\ d.fixed_size = c.fixed_size
        /\ d.include = c.include /\ d.initrd = c.initrd /\ d.dtb = c.dtb
        /\ d.unified = c.unified /\ d.uki = c.uki
        /\ d.source_file = c.source_file
    BY <1>5, <2>2
  <2>6. /\ c.include = line.include /\ c.initrd = line.initrd /\ c.dtb = line.dtb
        /\ c.unified = line.unified /\ c.uki = line.uki
        /\ c.source_file = line.source_file
    BY <1>1, <2>1
  <2>7. QED
    BY <2>4, <2>5, <2>6
<1>8. QED
  BY <1>3, <1>5, <1>6, <1>7 DEF ParsedPart, PartLine

------------------------------------------------------------------------------
(* Each action keeps the invariant.                                         *)

StFields == {"work", "hdd", "err", "tasks", "staged"}

\* Once an error is set nothing more is claimed than of the image.
LEMMA RaisedKeeps ==
  ASSUME pc' \in {"cleanup", "end"}, st'.err # None, DOMAIN st' = StFields,
         next' \in Nat, Len(parts') \in Nat,
         parts' = [i \in 1..Len(parts') |-> parts'[i]],
         todo' \in Seq(WksLines), DOMAIN image' = {"mbr", "at"}, UkiSectionsApart'
  PROVE  CreateInv'
<1>1. Typed'
  BY DEF Typed, StFields
<1>2. Parsing' /\ Preparing' /\ Prepared' /\ Assembling' /\ Complete'
  BY DEF Parsing, Preparing, Prepared, Assembling, Complete
<1>3. QED
  BY <1>1, <1>2 DEF CreateInv

\* An image without a partition in it has no sections to overlap.
LEMMA EmptyImage ==
  ASSUME image'.at = Empty
  PROVE  UkiSectionsApart'
BY DEF UkiSectionsApart, Empty

LEMMA RefuseKeeps ==
  ASSUME CreateInv, pc = "parse", Refuse, todo' \in Seq(WksLines)
  PROVE  CreateInv'
<1>1. DOMAIN st = StFields
  BY DEF CreateInv, Typed, StFields
<1>2. pc' = "end" /\ st' = [st EXCEPT !.err = "KickStartError"]
      /\ UNCHANGED <<parts, next, image>>
  BY DEF Refuse
<1>3. st'.err = "KickStartError" /\ DOMAIN st' = StFields
  BY <1>1, <1>2 DEF StFields
<1>4. st'.err # None
  BY <1>3, NoneAssumption DEF Errors
<1>5. image'.at = Empty
  BY <1>2 DEF CreateInv, Preparing
<1>6. UkiSectionsApart'
  BY <1>5, EmptyImage
<1>7. QED
  BY <1>2, <1>3, <1>4, <1>6, RaisedKeeps DEF CreateInv, Typed

\* What the parser leaves alone, and what holds of the partitions it has.
LEMMA ParsedKeeps ==
  ASSUME CreateInv, pc \in {"parse", "create"}, pc' \in {"parse", "create"},
         UNCHANGED <<st, next, image>>, todo' \in Seq(WksLines),
         Len(parts') \in Nat, parts' = [i \in 1..Len(parts') |-> parts'[i]],
         \A i \in DOMAIN parts' : ParsedPart(parts'[i], i) /\ parts'[i].source_file = <<>>
  PROVE  CreateInv'
<1>1. Typed'
  BY DEF CreateInv, Typed
<1>2. Parsing'
  BY DEF Parsing, HasFile
<1>3. Preparing' /\ image'.at = Empty
  BY DEF CreateInv, Preparing
<1>4. Prepared' /\ Assembling' /\ Complete'
  BY DEF Prepared, Assembling, Complete
<1>5. UkiSectionsApart'
  BY <1>3, EmptyImage
<1>6. QED
  BY <1>1, <1>2, <1>3, <1>4, <1>5 DEF CreateInv

\* The lines to come.
LEMMA LinesAhead ==
  ASSUME Typed, todo # <<>>
  PROVE  Head(todo) \in WksLines /\ Tail(todo) \in Seq(WksLines)
BY DEF Typed

LEMMA ParsePartKeeps ==
  ASSUME CreateInv, ParsePart
  PROVE  CreateInv'
<1> DEFINE line == Head(todo)
           n == Len(parts) + 1
           p == [WithDefaults(Converted(line)) EXCEPT !.lineno = Partnum(Len(parts))]
<1>1. pc = "parse" /\ todo # <<>> /\ line.kind = "part" /\ todo' = Tail(todo)
  BY DEF ParsePart
<1>2. line \in WksLines /\ todo' \in Seq(WksLines)
  BY <1>1, LinesAhead DEF CreateInv
<1>3. PartLine(line)
  BY <1>1, <1>2, WksAssumption
<1>4. CASE Refused(line)
  <2>1. Refuse
    BY <1>4 DEF ParsePart
  <2>2. QED
    BY <1>1, <1>2, <2>1, RefuseKeeps
<1>5. CASE ~Refused(line)
  <2>1. parts' = Append(parts, p) /\ UNCHANGED <<pc, st, next, image>>
    BY <1>5 DEF ParsePart
  <2>2. ParsedPart(p, n) /\ p.source_file = <<>>
    <3>1. p = [WithDefaults(Converted(line)) EXCEPT !.lineno = n]
      BY DEF Partnum
    <3> HIDE DEF p, n, line
    <3>2. QED
      BY <1>3, <1>5, <3>1, LineParsed
  <2> HIDE DEF p
  <2>3. /\ Len(parts) \in Nat /\ parts = [i \in 1..Len(parts) |-> parts[i]]
        /\ \A i \in 1..Len(parts) : ParsedPart(parts[i], i) /\ parts[i].source_file = <<>>
    <3>1. Len(parts) \in Nat /\ parts = [i \in 1..Len(parts) |-> parts[i]]
      BY DEF CreateInv, Typed
    <3>2. DOMAIN parts = 1..Len(parts)
      BY <3>1
    <3>3. st.err = None
      BY <1>1 DEF CreateInv, Preparing
    <3>4. \A i \in DOMAIN parts : ParsedPart(parts[i], i)
      BY <3>3 DEF CreateInv, Typed
    <3>5. \A i \in DOMAIN parts : parts[i].source_file = <<>>
      BY <1>1 DEF CreateInv, Parsing, HasFile
    <3>6. QED
      BY <3>1, <3>2, <3>4, <3>5
  <2>4. /\ Len(parts') = n
        /\ parts' = [i \in 1..n |-> IF i = n THEN p ELSE parts[i]]
    <3>1. /\ Len(Append(parts, p)) = Len(parts) + 1
          /\ Append(parts, p) = [i \in 1..(Len(parts) + 1) |->
                                   IF i = Len(parts) + 1 THEN p ELSE parts[i]]
      BY <2>3, AppendIs
    <3>2. QED
      BY <2>1, <3>1
  <2>5. n \in Nat /\ \A i \in 1..n : i = n \/ i \in 1..Len(parts)
    BY <2>3
  <2>6. DOMAIN parts' = 1..n /\ parts' = [i \in 1..n |-> parts'[i]]
        /\ \A i \in 1..n : parts'[i] = IF i = n THEN p ELSE parts[i]
    <3> HIDE DEF n
    <3> QED
      BY <2>4
  <2>7. \A i \in DOMAIN parts' : ParsedPart(parts'[i], i) /\ parts'[i].source_file = <<>>
    <3> HIDE DEF n
    <3> QED
      BY <2>2, <2>3, <2>5, <2>6
  <2>8. Len(parts') \in Nat /\ parts' = [i \in 1..Len(parts') |-> parts'[i]]
    BY <2>4, <2>5, <2>6
  <2>9. pc \in {"parse", "create"} /\ pc' \in {"parse", "create"}
    BY <1>1, <2>1
  <2>10. QED
    BY <1>2, <2>1, <2>7, <2>8, <2>9, ParsedKeeps
<1>6. QED
  BY <1>4, <1>5

\* The steps of the parser that add no partition.
LEMMA SamePartsKeep ==
  ASSUME CreateInv, pc \in {"parse", "create"}, pc' \in {"parse", "create"},
         UNCHANGED <<parts, st, next, image>>, todo' \in Seq(WksLines)
  PROVE  CreateInv'
<1>1. Len(parts) \in Nat /\ parts = [i \in 1..Len(parts) |-> parts[i]]
  BY DEF CreateInv, Typed
<1>2. st.err = None
  BY DEF CreateInv, Preparing
<1>3. \A i \in DOMAIN parts : ParsedPart(parts[i], i) /\ parts[i].source_file = <<>>
  BY <1>2 DEF CreateInv, Typed, Parsing, HasFile
<1>4. /\ Len(parts') \in Nat /\ parts' = [i \in 1..Len(parts') |-> parts'[i]]
      /\ \A i \in DOMAIN parts' : ParsedPart(parts'[i], i) /\ parts'[i].source_file = <<>>
  BY <1>1, <1>3
<1>5. QED
  BY <1>4, ParsedKeeps

LEMMA ParseIncludeKeeps ==
  ASSUME CreateInv, ParseInclude
  PROVE  CreateInv'
<1> DEFINE path == Head(todo).path
<1>1. pc = "parse" /\ todo # <<>> /\ Typed
  BY DEF ParseInclude, CreateInv
<1>2. Tail(todo) \in Seq(WksLines)
  BY <1>1, LinesAhead
<1>3. CASE path \in DOMAIN Included
  <2>1. todo' = Included[path] \o Tail(todo) /\ UNCHANGED <<parts, pc, st, next, image>>
    BY <1>3 DEF ParseInclude
  <2>2. Included[path] \in Seq(WksLines)
    BY <1>3, WksAssumption DEF WksFiles
  <2> HIDE DEF path
  <2>3. Included[path] \o Tail(todo) \in Seq(WksLines)
    BY <1>2, <2>2
  <2>4. todo' \in Seq(WksLines) /\ pc \in {"parse", "create"} /\ pc' \in {"parse", "create"}
    BY <1>1, <2>1, <2>3
  <2>5. QED
    BY <2>1, <2>4, SamePartsKeep
<1>4. CASE path \notin DOMAIN Included
  <2>1. todo' = Tail(todo) /\ Refuse
    BY <1>4 DEF ParseInclude
  <2>2. QED
    BY <1>1, <1>2, <2>1, RefuseKeeps
<1>5. QED
  BY <1>3, <1>4

LEMMA ParseBootloaderKeeps ==
  ASSUME CreateInv, ParseBootloader
  PROVE  CreateInv'
<1>1. pc = "parse" /\ todo # <<>> /\ todo' = Tail(todo) /\ Typed
  BY DEF ParseBootloader, CreateInv
<1>2. todo' \in Seq(WksLines)
  BY <1>1, LinesAhead
<1>3. CASE boot # <<>>
  <2>1. Refuse
    BY <1>3 DEF ParseBootloader
  <2>2. QED
    BY <1>1, <1>2, <2>1, RefuseKeeps
<1>4. CASE ~(boot # <<>>)
  <2>1. UNCHANGED <<parts, pc, st, next, image>>
    BY <1>4 DEF ParseBootloader
  <2>2. pc \in {"parse", "create"} /\ pc' \in {"parse", "create"}
    BY <1>1, <2>1
  <2>3. QED
    BY <1>2, <2>1, <2>2, SamePartsKeep
<1>5. QED
  BY <1>3, <1>4

LEMMA ParsedActionKeeps ==
  ASSUME CreateInv, Parsed
  PROVE  CreateInv'
<1>1. pc = "parse" /\ UNCHANGED <<todo, parts, next, image>>
  BY DEF Parsed
<1>2. todo' \in Seq(WksLines)
  BY <1>1 DEF CreateInv, Typed
<1>3. CASE parts = <<>>
  <2>1. pc' = "end" /\ st' = [st EXCEPT !.err = "IndexError"]
    BY <1>3 DEF Parsed
  <2>2. DOMAIN st = StFields /\ next \in Nat /\ Len(parts) \in Nat
        /\ parts = [i \in 1..Len(parts) |-> parts[i]] /\ DOMAIN image = {"mbr", "at"}
    BY DEF CreateInv, Typed, StFields
  <2>3. st'.err = "IndexError" /\ DOMAIN st' = StFields
    BY <2>1, <2>2 DEF StFields
  <2>4. st'.err # None
    BY <2>3, NoneAssumption DEF Errors
  <2>5. UkiSectionsApart'
    <3>1. image'.at = Empty
      BY <1>1 DEF CreateInv, Preparing
    <3>2. QED
      BY <3>1, EmptyImage
  <2>6. QED
    BY <1>1, <1>2, <2>1, <2>2, <2>3, <2>4, <2>5, RaisedKeeps
<1>4. CASE parts # <<>>
  <2>1. pc' = "create" /\ UNCHANGED st
    BY <1>4 DEF Parsed
  <2>2. pc \in {"parse", "create"} /\ pc' \in {"parse", "create"}
    BY <1>1, <2>1
  <2>3. QED
    BY <1>1, <1>2, <2>1, <2>2, SamePartsKeep
<1>5. QED
  BY <1>3, <1>4

\* The numbers of the partitions there are.
LEMMA PartNumbers ==
  ASSUME Typed
  PROVE  Len(parts) \in Nat /\ DOMAIN parts = 1..Len(parts)
<1>1. Len(parts) \in Nat /\ parts = [i \in 1..Len(parts) |-> parts[i]]
  BY DEF Typed
<1>2. QED
  BY <1>1

LEMMA SizeFromImageIs ==
  ASSUME NEW p, NEW i, ParsedPart(p, i), p.source_file = <<>>
  PROVE  ParsedPart(SizeFromImage(p), i) /\ SizeFromImage(p).source_file = <<>>
<1> DEFINE v == ImageSizes[RootfsDirs[p.rootfs_dir]]
           q == [p EXCEPT !["size"] = v]
<1>1. \/ SizeFromImage(p) = p
      \/ SizeFromImage(p) = q /\ RootfsDirs[p.rootfs_dir] \in DOMAIN ImageSizes
  BY DEF SizeFromImage
<1>2. CASE SizeFromImage(p) = p
  BY <1>2
<1>3. CASE SizeFromImage(p) = q /\ RootfsDirs[p.rootfs_dir] \in DOMAIN ImageSizes
  <2>1. v \in Nat
    BY <1>3, FilesAssumption
  <2>2. DOMAIN p = PartOptions /\ "size" \in Worked
    BY DEF ParsedPart, Worked
  <2> HIDE DEF v
  <2>3. /\ Same(p, q) /\ q["size"] = v
        /\ \A k \in PartOptions \ {"size"} : q[k] = p[k]
    BY <2>2, SameSet
  <2> HIDE DEF q
  <2>4. ParsedPart(q, i)
    BY <2>1, <2>3, SameParsed
  <2>5. "source_file" \in PartOptions \ {"size"}
    BY DEF PartOptions
  <2>6. QED
    BY <1>3, <2>3, <2>4, <2>5
<1>4. QED
  BY <1>1, <1>2, <1>3

LEMMA BeginCreateKeeps ==
  ASSUME CreateInv, BeginCreate
  PROVE  CreateInv'
<1> DEFINE n == Len(parts)
           S == {SizeFromImage(parts[i]) : i \in 1..n}
<1>1. /\ pc = "create" /\ pc' = "prepare" /\ next' = 1
      /\ parts' = [i \in DOMAIN parts |-> SizeFromImage(parts[i])]
      /\ UNCHANGED <<todo, st, image>>
  BY DEF BeginCreate
<1>2. n \in Nat /\ DOMAIN parts = 1..n
  BY PartNumbers DEF CreateInv
<1>3. st.err = None /\ IsFiniteSet(st.hdd) /\ IsFiniteSet(st.tasks) /\ image.at = Empty
  BY <1>1 DEF CreateInv, Preparing
<1>4. \A i \in 1..n : ParsedPart(parts[i], i) /\ parts[i].source_file = <<>>
  BY <1>1, <1>2, <1>3 DEF CreateInv, Typed, Parsing, HasFile
<1> HIDE DEF n
<1>5. /\ parts' = [i \in 1..n |-> parts'[i]] /\ DOMAIN parts' = 1..n
      /\ \A i \in 1..n : parts'[i] = SizeFromImage(parts[i])
  BY <1>1, <1>2
<1>6. Len(parts') = n
  <2>1. \A i \in 1..n : parts'[i] \in S
    BY <1>5
  <2> HIDE DEF S
  <2>2. QED
    BY <1>2, <1>5, <2>1, SequenceIs
<1>7. \A i \in 1..n : ParsedPart(parts'[i], i) /\ parts'[i].source_file = <<>>
  BY <1>4, <1>5, SizeFromImageIs
<1>8. Typed'
  <2>1. /\ todo' \in Seq(WksLines) /\ DOMAIN image' = {"mbr", "at"}
        /\ DOMAIN st' = {"work", "hdd", "err", "tasks", "staged"}
    BY <1>1 DEF CreateInv, Typed
  <2>2. Len(parts') \in Nat /\ parts' = [i \in 1..Len(parts') |-> parts'[i]]
    BY <1>2, <1>5, <1>6
  <2>3. \A i \in DOMAIN parts' : ParsedPart(parts'[i], i)
    BY <1>5, <1>7
  <2>4. QED
    BY <1>1, <2>1, <2>2, <2>3 DEF Typed
<1>9. Preparing'
  BY <1>1, <1>3 DEF Preparing
<1>10. Prepared'
  <2>1. next' \in 1..(Len(parts') + 1)
    BY <1>1, <1>2, <1>6
  <2>2. \A i \in DOMAIN parts' : i >= next' => parts'[i].source_file = <<>>
    BY <1>5, <1>7
  <2>3. \A i \in DOMAIN parts' : ~(i < next')
    BY <1>1, <1>5
  <2>4. QED
    BY <2>1, <2>2, <2>3 DEF Prepared, HasFile
<1>11. Parsing' /\ Assembling' /\ Complete'
  BY <1>1 DEF Parsing, Assembling, Complete
<1>12. UkiSectionsApart'
  BY <1>1, <1>3, EmptyImage
<1>13. QED
  BY <1>8, <1>9, <1>10, <1>11, <1>12 DEF CreateInv

\* No name is the empty one.
LEMMA NamesNotEmpty ==
  ASSUME NEW p, NEW name \in Names(p)
  PROVE  name # <<>>
BY DEF Names, RootfsFile, EmptyFile, SwapFile, BootImg

LEMMA PreparePartKeeps ==
  ASSUME CreateInv, PreparePart
  PROVE  CreateInv'
<1>0. PICK k : k = next
  OBVIOUS
<1> DEFINE n == Len(parts)
           s == WithPart(parts[next])
           b == boot[1]
           u == fstab # None
           after == Prepare(s, b, u)
           q == after.part
<1>1. /\ pc = "prepare" /\ k <= n
      /\ parts' = [parts EXCEPT ![k] = q]
      /\ st' = [work |-> after.work, hdd |-> after.hdd, err |-> after.err,
                tasks |-> after.tasks, staged |-> after.staged]
      /\ pc' = IF after.err = None THEN "prepare" ELSE "cleanup"
      /\ next' = k + 1
      /\ UNCHANGED <<todo, boot, fstab, image>>
  BY <1>0 DEF PreparePart
<1>2. /\ n \in Nat /\ DOMAIN parts = 1..n /\ k \in 1..(n + 1)
      /\ parts = [i \in 1..n |-> parts[i]]
  <2>1. Typed /\ Prepared
    BY DEF CreateInv
  <2>2. QED
    BY <1>0, <1>1, <2>1, PartNumbers DEF Typed, Prepared
<1>3. k \in 1..n
  BY <1>1, <1>2
<1>4. /\ st.err = None /\ IsFiniteSet(st.hdd) /\ IsFiniteSet(st.tasks) /\ image.at = Empty
      /\ \A i \in 1..n : ParsedPart(parts[i], i)
  BY <1>1, <1>2 DEF CreateInv, Preparing, Typed
<1>5. Prep(s) /\ s.part = parts[k] /\ s.work = st.work
  BY <1>0, <1>4 DEF WithPart, Prep, PrepFields
<1>6. parts[k].source_file = <<>>
  BY <1>0, <1>1, <1>2, <1>3 DEF CreateInv, Prepared, HasFile
<1> HIDE DEF s, after
<1>7. after.err = None => Supplied(s, after, b, u)
  <2>1. SUFFICES ASSUME after.err = None PROVE Supplied(s, after, b, u)
    OBVIOUS
  <2>2. ParsedPart(s.part, k) /\ s.part.source_file = <<>> /\ u \in BOOLEAN
    BY <1>3, <1>4, <1>5, <1>6
  <2>3. Ok(Prepare(s, b, u))
    BY <2>1 DEF Ok, after
  <2> HIDE DEF u, b
  <2>4. Supplied(s, Prepare(s, b, u), b, u)
    BY <1>5, <2>2, <2>3, PrepareSupplies
  <2>5. QED
    BY <2>4 DEF after
<1> HIDE DEF q, n
<1>8. /\ parts' = [i \in 1..n |-> parts'[i]] /\ DOMAIN parts' = 1..n
      /\ parts'[k] = q /\ \A i \in 1..n : i # k => parts'[i] = parts[i]
  BY <1>1, <1>2, <1>3
<1>9. Len(parts') = n
  <2> DEFINE S == {parts'[i] : i \in 1..n}
  <2>1. \A i \in 1..n : parts'[i] \in S
    OBVIOUS
  <2> HIDE DEF S
  <2>2. QED
    BY <1>2, <1>8, <2>1, SequenceIs
<1>10. DOMAIN st' = StFields /\ st'.err = after.err /\ st'.hdd = after.hdd
       /\ st'.tasks = after.tasks /\ st'.work = after.work
  BY <1>1 DEF StFields
<1>11. /\ todo' \in Seq(WksLines) /\ DOMAIN image' = {"mbr", "at"}
       /\ Len(parts') \in Nat /\ parts' = [i \in 1..Len(parts') |-> parts'[i]]
       /\ next' \in Nat
  BY <1>1, <1>2, <1>8, <1>9 DEF CreateInv, Typed
<1>12. image'.at = Empty /\ UkiSectionsApart'
  BY <1>1, <1>4, EmptyImage
<1>13. CASE after.err # None
  <2>1. pc' = "cleanup" /\ st'.err # None
    BY <1>1, <1>10, <1>13
  <2>2. QED
    BY <1>10, <1>11, <1>12, <2>1, RaisedKeeps
<1>14. CASE after.err = None
  <2>1. pc' = "prepare" /\ st'.err = None
    BY <1>1, <1>10, <1>14
  <2>2. Prep(after) /\ Same(parts[k], q) /\ q.size \in Nat
    BY <1>5, <1>7, <1>14 DEF Supplied, q
  <2>3. ParsedPart(q, k)
    BY <1>3, <1>4, <2>2, SameParsed
  <2>4. \A i \in 1..n : ParsedPart(parts'[i], i)
    BY <1>4, <1>8, <2>3
  <2>5. Typed'
    BY <1>8, <1>10, <1>11, <2>1, <2>4 DEF Typed, StFields
  <2>6. Preparing'
    BY <1>10, <1>12, <2>1, <2>2 DEF Preparing, Prep
  <2>7. q.lineno = k
    BY <2>3 DEF ParsedPart
  <2>8. ASSUME NEW i \in 1..n, i < k
        PROVE  /\ Ready(i) /\ parts'[i] = parts[i]
               /\ HasFile(i) => /\ parts[i].source_file \in DOMAIN st.work
                                /\ Mine(i, st.work[parts[i].source_file])
                                /\ st.work[parts[i].source_file].by < k
    BY <1>0, <1>1, <1>2, <1>8, <2>8 DEF CreateInv, Prepared
  <2>9. \/ q.source_file = <<>> /\ after.work = st.work /\ q.source = None
        \/ /\ q.source_file \in Names(q)
           /\ \E f : /\ after.work = With(st.work, q.source_file, f)
                     /\ Made(q, f, b, u)
                     /\ q.source_file = BootImg => BootImg \notin DOMAIN st.work
    BY <1>5, <1>7, <1>14 DEF Supplied, q
  <2>10. ASSUME NEW i \in 1..n, i < k, parts[i].source_file # <<>>,
                NEW g, Mine(i, g), g.by < k
         PROVE  Mine(i, g)'
    <3>1. g.by \in 1..n /\ g.by # k /\ i <= g.by
      BY <1>2, <1>3, <2>10 DEF Mine
    <3>2. parts'[g.by] = parts[g.by] /\ parts'[i] = parts[i]
      BY <1>3, <1>8, <2>10, <3>1
    <3>3. MadeFor(g.by, g)'
      BY <1>1, <2>10, <3>2 DEF Mine, MadeFor
    <3>4. QED
      BY <1>8, <2>10, <3>1, <3>2, <3>3 DEF Mine
  <2>11. \A i \in 1..n : i >= next' => parts'[i].source_file = <<>>
    <3>1. \A i \in 1..n : i >= k + 1 => i >= k /\ i # k
      BY <1>3
    <3>2. \A i \in 1..n : i >= k => parts[i].source_file = <<>>
      BY <1>0, <1>1, <1>2 DEF CreateInv, Prepared, HasFile
    <3>3. QED
      BY <1>1, <1>8, <3>1, <3>2
  <2>12. next' \in 1..(Len(parts') + 1)
    BY <1>1, <1>2, <1>3, <1>9
  <2>13. ASSUME NEW i \in 1..n, i < next'
         PROVE  /\ Ready(i)'
                /\ parts'[i].source_file # <<>> =>
                     /\ parts'[i].source_file \in DOMAIN st'.work
                     /\ \E g : g = st'.work[parts'[i].source_file] /\ Mine(i, g)'
                     /\ st'.work[parts'[i].source_file].by < next'
    <3>1. i = k \/ i < k
      BY <1>1, <1>2, <1>3, <2>13
    <3>2. CASE q.source_file = <<>> /\ after.work = st.work /\ q.source = None
      <4>1. CASE i = k
        BY <1>8, <3>2, <4>1 DEF Ready, HasFile
      <4>2. CASE i < k
        <5>1. Ready(i)' /\ st'.work = st.work /\ parts'[i] = parts[i]
          BY <1>10, <2>8, <3>2, <4>2 DEF Ready, HasFile
        <5>2. CASE HasFile(i)
          <6>1. PICK g : g = st.work[parts[i].source_file]
            OBVIOUS
          <6>2. /\ Mine(i, g) /\ g.by < k /\ parts[i].source_file \in DOMAIN st.work
            BY <2>8, <4>2, <5>2, <6>1
          <6>3. Mine(i, g)'
            BY <2>10, <4>2, <5>2, <6>2 DEF HasFile
          <6>4. g.by < next'
            <7>1. g.by \in 1..n
              BY <1>2, <6>2 DEF Mine
            <7>2. QED
              BY <1>1, <1>2, <6>2, <7>1
          <6>5. /\ st'.work[parts'[i].source_file] = g
                /\ parts'[i].source_file \in DOMAIN st'.work
            BY <5>1, <6>1, <6>2
          <6>6. Ready(i)'
            BY <5>1
          <6>7. QED
            BY <6>3, <6>4, <6>5, <6>6
        <5>3. CASE ~HasFile(i)
          BY <5>1, <5>3 DEF HasFile
        <5>4. QED
          BY <5>2, <5>3
      <4>3. QED
        BY <3>1, <4>1, <4>2
    <3>3. CASE /\ q.source_file \in Names(q)
               /\ \E f : /\ after.work = With(st.work, q.source_file, f)
                         /\ Made(q, f, b, u)
                         /\ q.source_file = BootImg => BootImg \notin DOMAIN st.work
      <4> DEFINE name == q.source_file
      <4>1. PICK f : /\ after.work = With(st.work, name, f)
                     /\ Made(q, f, b, u)
                     /\ name = BootImg => BootImg \notin DOMAIN st.work
        BY <3>3
      <4>2. f.by = k /\ (f.uki # <<>> => name = BootImg)
        BY <2>7, <4>1 DEF Made, Content
      <4>3. /\ DOMAIN st'.work = DOMAIN st.work \cup {name} /\ st'.work[name] = f
            /\ \A m \in DOMAIN st.work : m # name => st'.work[m] = st.work[m]
        <5>1. st'.work = With(st.work, name, f)
          BY <1>10, <4>1
        <5>2. /\ DOMAIN With(st.work, name, f) = DOMAIN st.work \cup {name}
              /\ With(st.work, name, f)[name] = f
              /\ \A m \in DOMAIN st.work : m # name =>
                    With(st.work, name, f)[m] = st.work[m]
          <6> HIDE DEF name
          <6> QED
            BY DEF With
        <5>3. QED
          BY <5>1, <5>2
      <4>4. MadeFor(k, f)'
        BY <1>1, <1>8, <4>1 DEF MadeFor
      <4>5. k < next'
        BY <1>1, <1>2
      <4>6. CASE i = k
        <5>1. parts'[i].source_file = name /\ name \in Names(parts'[i])
          BY <1>8, <3>3, <4>6
        <5>2. Mine(i, f)'
          BY <1>2, <1>3, <1>8, <4>2, <4>4, <4>6 DEF Mine
        <5>3. Ready(i)'
          BY <5>1, NamesNotEmpty DEF Ready, HasFile
        <5>4. QED
          BY <4>2, <4>3, <4>5, <5>1, <5>2, <5>3
      <4>7. CASE i < k /\ parts[i].source_file = name /\ HasFile(i)
        <5>1. Ready(i)' /\ parts'[i].source_file = name
          BY <2>8, <4>7 DEF Ready, HasFile
        <5>2. name \in DOMAIN st.work
          BY <2>8, <4>7
        <5>3. Mine(i, f)'
          <6>1. f.uki = <<>>
            BY <4>1, <4>2, <5>2
          <6>2. f.by \in DOMAIN parts' /\ i <= f.by /\ parts'[f.by].source_file = name
            BY <1>2, <1>3, <1>8, <4>2, <4>7
          <6>3. QED
            BY <4>2, <4>4, <5>1, <6>1, <6>2 DEF Mine
        <5>4. QED
          BY <4>2, <4>3, <4>5, <5>1, <5>3
      <4>8. CASE i < k /\ parts[i].source_file # name /\ HasFile(i)
        <5>1. PICK g : g = st.work[parts[i].source_file]
          OBVIOUS
        <5>2. /\ Mine(i, g) /\ g.by < k /\ parts[i].source_file \in DOMAIN st.work
              /\ parts'[i] = parts[i]
          BY <2>8, <4>8, <5>1
        <5>3. Mine(i, g)'
          BY <2>10, <4>8, <5>2 DEF HasFile
        <5>4. /\ st'.work[parts'[i].source_file] = g
              /\ parts'[i].source_file \in DOMAIN st'.work
          BY <4>3, <4>8, <5>1, <5>2
        <5>5. g.by < next'
          <6>1. g.by \in 1..n
            BY <1>2, <5>2 DEF Mine
          <6>2. QED
            BY <1>1, <1>2, <5>2, <6>1
        <5>6. Ready(i)'
          BY <2>8, <4>8, <5>2 DEF Ready, HasFile
        <5>7. QED
          BY <5>3, <5>4, <5>5, <5>6
      <4>9. CASE i < k /\ ~HasFile(i)
        <5>1. parts'[i].source_file = <<>> /\ Ready(i)'
          BY <2>8, <4>9 DEF Ready, HasFile
        <5>2. QED
          BY <5>1
      <4>10. QED
        BY <3>1, <4>6, <4>7, <4>8, <4>9
    <3>4. QED
      BY <2>9, <3>2, <3>3
  <2>14. Prepared'
    BY <1>8, <2>11, <2>12, <2>13 DEF Prepared, HasFile
  <2>15. Parsing' /\ Assembling' /\ Complete'
    BY <2>1 DEF Parsing, Assembling, Complete
  <2>16. QED
    BY <1>12, <2>5, <2>6, <2>14, <2>15 DEF CreateInv
<1>15. QED
  BY <1>13, <1>14

\* The imager's own names are none of a partition's.
LEMMA NamesApart ==
  ASSUME NEW p, NEW name \in Names(p), NEW m
  PROVE  name \notin {<<"direct">>, <<"direct.mbr">>, <<"direct.gz">>, <<"direct.p", m>>}
<1>1. SwapFile \notin {<<"direct">>, <<"direct.mbr">>, <<"direct.gz">>, <<"direct.p", m>>}
  BY DEF SwapFile
<1>2. BootImg \notin {<<"direct">>, <<"direct.mbr">>, <<"direct.gz">>, <<"direct.p", m>>}
  BY DEF BootImg
<1>3. RootfsFile(p) \notin {<<"direct">>, <<"direct.mbr">>, <<"direct.gz">>, <<"direct.p", m>>}
  BY DEF RootfsFile
<1>4. EmptyFile(p) \notin {<<"direct">>, <<"direct.mbr">>, <<"direct.gz">>, <<"direct.p", m>>}
  BY DEF EmptyFile
<1>5. QED
  BY <1>1, <1>2, <1>3, <1>4 DEF Names

LEMMA CreateImageKeeps ==
  ASSUME CreateInv, CreateImage
  PROVE  CreateInv'
<1> DEFINE n == Len(parts)
           work == [m \in DOMAIN st.work \cup DiskFiles |->
                      IF m \in DiskFiles THEN DiskFile ELSE st.work[m]]
<1>1. /\ pc = "prepare" /\ next > n /\ pc' = "assemble" /\ next' = 1
      /\ image' = [NoImage EXCEPT !.mbr = boot[1].ptable]
      /\ st' = [st EXCEPT !.work = work]
      /\ UNCHANGED <<todo, parts, boot, fstab>>
  BY DEF CreateImage
<1>2. /\ n \in Nat /\ DOMAIN parts = 1..n /\ next \in 1..(n + 1)
  <2>1. Typed /\ Prepared
    BY DEF CreateInv
  <2>2. QED
    BY <1>1, <2>1, PartNumbers DEF Prepared
<1>3. \A i \in 1..n : i < next
  BY <1>1, <1>2
<1>4. st.err = None /\ DOMAIN st = StFields
  BY <1>1 DEF CreateInv, Preparing, Typed, StFields
<1>5. DOMAIN st' = StFields /\ st'.err = None /\ st'.work = work
  <2> HIDE DEF work
  <2> QED
    BY <1>1, <1>4 DEF StFields
<1>6. image'.at = Empty /\ DOMAIN image' = {"mbr", "at"}
  BY <1>1 DEF NoImage
<1>7. DOMAIN image'.at = {}
  BY <1>6 DEF Empty
<1>8. Typed'
  BY <1>1, <1>5, <1>6 DEF CreateInv, Typed, StFields
<1>9. ASSUME NEW i \in 1..n
      PROVE  /\ Ready(i)'
             /\ parts'[i].source_file # <<>> /\ parts'[i].source_file \in DOMAIN st'.work =>
                  Mine(i, st.work[parts[i].source_file])'
  <2>1. /\ Ready(i)
        /\ HasFile(i) => /\ parts[i].source_file \in DOMAIN st.work
                         /\ Mine(i, st.work[parts[i].source_file])
    BY <1>1, <1>2, <1>3 DEF CreateInv, Prepared
  <2>2. Ready(i)'
    BY <1>1, <2>1 DEF Ready, HasFile
  <2>3. SUFFICES ASSUME HasFile(i)
                 PROVE  Mine(i, st.work[parts[i].source_file])'
    BY <1>1, <2>2 DEF HasFile
  <2>4. PICK name : name = parts[i].source_file
    OBVIOUS
  <2>5. name \in Names(parts[i]) /\ name \in DOMAIN st.work
    BY <2>1, <2>3, <2>4 DEF Ready
  <2>6. name \notin DiskFiles
    BY <2>5, NamesApart DEF DiskFiles
  <2>7. PICK g : g = st.work[name]
    OBVIOUS
  <2>8. st'.work[parts'[i].source_file] = g
    BY <1>1, <1>5, <2>4, <2>5, <2>6, <2>7
  <2>9. Mine(i, g)
    BY <2>1, <2>3, <2>4, <2>7
  <2>10. Mine(i, g)'
    BY <1>1, <2>9 DEF Mine, MadeFor
  <2>11. QED
    BY <2>8, <2>10 DEF Mine, MadeFor
<1>10. Assembling'
  <2>1. next' \in 1..(Len(parts') + 1) /\ \A i \in DOMAIN parts' : ~(i < next')
    BY <1>1, <1>2
  <2>2. DOMAIN parts' = 1..n
    BY <1>1, <1>2
  <2>3. \A i \in DOMAIN parts' :
          /\ Ready(i)'
          /\ HasFile(i)' /\ parts'[i].source_file \in DOMAIN st'.work =>
               Mine(i, st.work[parts[i].source_file])'
    BY <1>9, <2>2 DEF HasFile
  <2>4. QED
    BY <1>5, <1>7, <2>1, <2>3 DEF Assembling
<1>11. Parsing' /\ Preparing' /\ Prepared' /\ Complete'
  BY <1>1 DEF Parsing, Preparing, Prepared, Complete
<1>12. UkiSectionsApart'
  BY <1>6, EmptyImage
<1>13. QED
  BY <1>8, <1>10, <1>11, <1>12 DEF CreateInv

\* Two partitions of the table never have the same number.
LEMMA NumDiffers ==
  ASSUME Typed, NEW i \in DOMAIN parts, NEW k \in DOMAIN parts, i < k, Num(i) # 0
  PROVE  Num(i) # Num(k)
<1> DEFINE A(m) == {j \in 1..m : ~parts[j].no_table}
<1>1. i \in Nat /\ k \in Nat
  BY PartNumbers
<1>2. IsFiniteSet(1..i) /\ IsFiniteSet(1..k)
  BY <1>1, FS_Interval
<1>3. IsFiniteSet(A(k)) /\ IsFiniteSet(A(i))
  BY <1>2, FS_Subset
<1>4. CASE parts[k].no_table
  <2>1. Num(k) = 0
    BY <1>4 DEF Num
  <2>2. QED
    BY <2>1
<1>5. CASE ~parts[k].no_table
  <2>1. k \in A(k) /\ k \notin A(i) /\ A(i) \in SUBSET A(k)
    BY <1>1, <1>5
  <2>2. Num(k) = Cardinality(A(k)) /\ Num(i) = Cardinality(A(i))
    BY <1>5 DEF Num
  <2> HIDE DEF A
  <2>3. Cardinality(A(k)) = Cardinality(A(i)) => A(k) = A(i)
    BY <1>3, <2>1, FS_Subset
  <2>4. QED
    BY <2>1, <2>2, <2>3
<1>6. QED
  BY <1>4, <1>5

\* The next partition has no file.
LEMMA SkipKeeps ==
  ASSUME CreateInv, pc = "assemble", next <= Len(parts), parts[next].source_file = <<>>,
         next' = next + 1,
         UNCHANGED <<image, st, pc, todo, parts, boot, fstab>>
  PROVE  CreateInv'
<1>1. PICK k : k = next
  OBVIOUS
<1>2. Len(parts) \in Nat /\ DOMAIN parts = 1..Len(parts) /\ k \in 1..Len(parts)
  BY <1>1, PartNumbers DEF CreateInv, Assembling
<1>3. Typed'
  <2>1. next' \in Nat
    BY <1>1, <1>2
  <2>2. QED
    BY <2>1 DEF CreateInv, Typed
<1>4. Assembling'
  <2>1. next' \in 1..(Len(parts') + 1) /\ st'.err = None
    BY <1>1, <1>2 DEF CreateInv, Assembling
  <2>2. ASSUME NEW i \in DOMAIN parts
        PROVE  /\ Ready(i)'
               /\ i >= next' /\ HasFile(i)' /\ parts'[i].source_file \in DOMAIN st'.work =>
                    Mine(i, st.work[parts[i].source_file])'
               /\ i < next' /\ HasFile(i)' => i \in DOMAIN image'.at
    <3>1. /\ Ready(i)
          /\ i >= next /\ HasFile(i) /\ parts[i].source_file \in DOMAIN st.work =>
               Mine(i, st.work[parts[i].source_file])
          /\ i < next /\ HasFile(i) => i \in DOMAIN image.at
      BY DEF CreateInv, Assembling
    <3>2. i >= k + 1 => i >= k
      BY <1>2
    <3>3. i < k + 1 => i < k \/ i = k
      BY <1>2
    <3>4. Ready(i)' /\ (HasFile(i)' <=> HasFile(i))
      BY <3>1 DEF Ready, HasFile
    <3>5. Mine(i, st.work[parts[i].source_file])
            => Mine(i, st.work[parts[i].source_file])'
      BY DEF Mine, MadeFor
    <3>6. ~HasFile(k)
      BY <1>1 DEF HasFile
    <3>7. QED
      BY <1>1, <3>1, <3>2, <3>3, <3>4, <3>5, <3>6
  <2>3. ASSUME NEW i \in DOMAIN image.at
        PROVE  /\ i \in DOMAIN parts' /\ i < next' /\ HasFile(i)'
               /\ Mine(i, image.at[i])'
               /\ image'.at[i].by # i =>
                    /\ image'.at[i].by >= next'
                    /\ parts'[i].source_file \notin DOMAIN st'.work
               /\ Beside(i, st.work)'
    <3>1. /\ i \in DOMAIN parts /\ i < next /\ HasFile(i)
          /\ Mine(i, image.at[i])
          /\ image.at[i].by # i =>
               image.at[i].by >= next /\ parts[i].source_file \notin DOMAIN st.work
          /\ Beside(i, st.work)
      BY DEF CreateInv, Assembling
    <3>2. i < k + 1
      BY <1>1, <1>2, <3>1
    <3>3. image.at[i].by # i => image.at[i].by >= k + 1
      <4>1. image.at[i].by \in 1..Len(parts) /\ image.at[i].by # k
        BY <1>1, <1>2, <3>1 DEF Mine, HasFile
      <4>2. QED
        BY <1>1, <1>2, <3>1, <4>1
    <3>4. Mine(i, image.at[i])'
      BY <3>1 DEF Mine, MadeFor
    <3>5. Beside(i, st.work)'
      BY <3>1 DEF Beside, Num, Partimage
    <3>6. HasFile(i)'
      BY <3>1 DEF HasFile
    <3>7. QED
      BY <1>1, <3>1, <3>2, <3>3, <3>4, <3>5, <3>6
  <2>4. QED
    BY <2>1, <2>2, <2>3 DEF Assembling
<1>5. Parsing' /\ Preparing' /\ Prepared' /\ Complete'
  BY DEF Parsing, Preparing, Prepared, Complete
<1>6. UkiSectionsApart'
  BY DEF CreateInv, UkiSectionsApart
<1>7. QED
  BY <1>3, <1>4, <1>5, <1>6 DEF CreateInv

\* The next partition's file is copied into the image and renamed: the files of
\* the later partitions stay, and a partition whose name it took has been
\* copied before.
LEMMA CopyKeeps ==
  ASSUME CreateInv, pc = "assemble", next <= Len(parts),
         parts[next].source_file # <<>>, parts[next].source_file \in DOMAIN st.work,
         next' = next + 1,
         image' = [image EXCEPT !.at = [m \in DOMAIN @ \cup {next} |->
                      IF m = next THEN st.work[parts[next].source_file] ELSE @[m]]],
         st' = [st EXCEPT !.work = Renamed(@, parts[next].source_file, Partimage(next))],
         UNCHANGED <<pc, todo, parts, boot, fstab>>
  PROVE  CreateInv'
<1>1. PICK k, name, to, f : /\ k = next /\ name = parts[k].source_file
                            /\ to = Partimage(k) /\ f = st.work[name]
  OBVIOUS
<1>2. Len(parts) \in Nat /\ DOMAIN parts = 1..Len(parts) /\ k \in 1..Len(parts)
  BY <1>1, PartNumbers DEF CreateInv, Assembling
<1>3. /\ DOMAIN image = {"mbr", "at"} /\ DOMAIN st = StFields /\ st.err = None
  BY DEF CreateInv, Typed, Assembling, StFields
<1>4. ASSUME NEW i \in DOMAIN parts
      PROVE  /\ Ready(i)
             /\ i >= k /\ HasFile(i) /\ parts[i].source_file \in DOMAIN st.work =>
                  Mine(i, st.work[parts[i].source_file])
             /\ i < k /\ HasFile(i) => i \in DOMAIN image.at
  BY <1>1 DEF CreateInv, Assembling
<1>5. ASSUME NEW i \in DOMAIN image.at
      PROVE  /\ i \in DOMAIN parts /\ i < k /\ HasFile(i)
             /\ Mine(i, image.at[i])
             /\ image.at[i].by # i =>
                  image.at[i].by >= k /\ parts[i].source_file \notin DOMAIN st.work
             /\ Beside(i, st.work)
  BY <1>1 DEF CreateInv, Assembling
<1>6. name \in Names(parts[k]) /\ name # <<>> /\ name \in DOMAIN st.work
  BY <1>1, <1>2, <1>4 DEF Ready, HasFile
<1>7. \A p, m : \A other \in Names(p) : other # <<"direct.p", m>>
  BY NamesApart
<1>8. to = <<"direct.p", Num(k)>> /\ name # to
  <2>1. to = <<"direct.p", Num(k)>>
    BY <1>1 DEF Partimage
  <2>2. QED
    BY <1>6, <1>7, <2>1
<1>9. /\ DOMAIN st' = StFields /\ st'.err = None
      /\ DOMAIN st'.work = (DOMAIN st.work \ {name}) \cup {to}
      /\ st'.work[to] = f
      /\ \A m \in DOMAIN st.work \ {name, to} : st'.work[m] = st.work[m]
  <2>1. st'.work = Renamed(st.work, name, to) /\ DOMAIN st' = StFields /\ st'.err = None
    BY <1>1, <1>3 DEF StFields
  <2>2. /\ DOMAIN Renamed(st.work, name, to) = (DOMAIN st.work \ {name}) \cup {to}
        /\ Renamed(st.work, name, to)[to] = st.work[name]
        /\ \A m \in DOMAIN st.work \ {name, to} :
             Renamed(st.work, name, to)[m] = st.work[m]
    BY DEF Renamed
  <2>3. QED
    BY <1>1, <2>1, <2>2
<1>10. /\ DOMAIN image' = {"mbr", "at"} /\ DOMAIN image'.at = DOMAIN image.at \cup {k}
       /\ image'.at[k] = f /\ \A i \in DOMAIN image.at : i # k => image'.at[i] = image.at[i]
  <2> DEFINE at == [m \in DOMAIN image.at \cup {k} |-> IF m = k THEN f ELSE image.at[m]]
  <2>1. image' = [image EXCEPT !.at = at]
    BY <1>1
  <2>2. DOMAIN image' = {"mbr", "at"} /\ image'.at = at
    <3> HIDE DEF at
    <3> QED
      BY <1>3, <2>1
  <2>3. QED
    BY <2>2
<1>11. Mine(k, f)
  <2>1. Mine(k, st.work[parts[k].source_file])
    BY <1>1, <1>2, <1>4, <1>6 DEF HasFile
  <2>2. QED
    BY <1>1, <2>1
<1>12. \A i, g : Mine(i, g) => Mine(i, g)'
  BY DEF Mine, MadeFor
<1>13. Typed'
  <2>1. next' \in Nat
    BY <1>1, <1>2
  <2>2. QED
    BY <1>9, <1>10, <2>1 DEF CreateInv, Typed, StFields
<1>14. ASSUME NEW i \in DOMAIN parts
       PROVE  /\ Ready(i)'
              /\ i >= next' /\ HasFile(i)' /\ parts'[i].source_file \in DOMAIN st'.work =>
                   Mine(i, st.work[parts[i].source_file])'
              /\ i < next' /\ HasFile(i)' => i \in DOMAIN image'.at
  <2>1. Ready(i)' /\ (HasFile(i)' <=> HasFile(i)) /\ parts'[i].source_file = parts[i].source_file
    BY <1>4 DEF Ready, HasFile
  <2>2. i \in 1..Len(parts)
    BY <1>2
  <2>3. i < next' /\ HasFile(i) => i \in DOMAIN image'.at
    <3>1. i < next' => i < k \/ i = k
      BY <1>1, <1>2, <2>2
    <3>2. QED
      BY <1>4, <1>10, <3>1
  <2>4. ASSUME i >= next', HasFile(i), parts[i].source_file \in DOMAIN st'.work
        PROVE  Mine(i, st.work[parts[i].source_file])'
    <3>1. PICK other : other = parts[i].source_file
      OBVIOUS
    <3>2. other \in Names(parts[i])
      BY <1>4, <2>4, <3>1 DEF Ready
    <3>3. other # to
      BY <1>7, <1>8, <3>2
    <3>4. other \in DOMAIN st.work \ {name, to}
      BY <1>9, <2>4, <3>1, <3>3
    <3>5. PICK g : g = st.work[other]
      OBVIOUS
    <3>6. i >= k
      BY <1>1, <1>2, <2>2, <2>4
    <3>7. Mine(i, g)
      BY <1>4, <2>4, <3>1, <3>4, <3>5, <3>6
    <3>8. Mine(i, g)'
      BY <1>12, <3>7
    <3>9. st'.work[parts'[i].source_file] = g
      BY <1>9, <2>1, <3>1, <3>4, <3>5
    <3>10. QED
      BY <3>8, <3>9 DEF Mine, MadeFor
  <2>5. QED
    BY <2>1, <2>3, <2>4
<1>15. ASSUME NEW i \in DOMAIN image'.at
       PROVE  /\ i \in DOMAIN parts' /\ i < next' /\ HasFile(i)'
              /\ Mine(i, image.at[i])'
              /\ image'.at[i].by # i =>
                   /\ image'.at[i].by >= next'
                   /\ parts'[i].source_file \notin DOMAIN st'.work
              /\ Beside(i, st.work)'
  <2>1. i = k \/ (i \in DOMAIN image.at /\ i # k)
    BY <1>10
  <2>2. CASE i = k
    <3>1. i \in DOMAIN parts' /\ i < next' /\ HasFile(i)'
      BY <1>1, <1>2, <1>6, <2>2 DEF HasFile
    <3>2. Mine(i, f)' /\ image'.at[i] = f
      BY <1>10, <1>11, <1>12, <2>2
    <3>3. f.by # i => f.by >= next'
      <4>1. f.by \in 1..Len(parts) /\ k <= f.by
        BY <1>2, <1>11 DEF Mine
      <4>2. QED
        BY <1>1, <1>2, <2>2, <4>1
    <3>4. parts'[i].source_file \notin DOMAIN st'.work
      BY <1>1, <1>8, <1>9, <2>2
    <3>5. Beside(i, st.work)'
      <4>1. Partimage(i)' = to
        BY <1>1, <2>2 DEF Partimage, Num
      <4>2. QED
        BY <1>9, <3>2, <4>1 DEF Beside
    <3>6. Mine(i, image.at[i])'
      BY <3>2 DEF Mine, MadeFor
    <3>7. QED
      BY <3>1, <3>2, <3>3, <3>4, <3>5, <3>6
  <2>3. CASE i \in DOMAIN image.at /\ i # k
    <3>1. PICK g : g = image.at[i]
      OBVIOUS
    <3>2. /\ i \in DOMAIN parts /\ i < k /\ HasFile(i) /\ Mine(i, g)
          /\ g.by # i => g.by >= k /\ parts[i].source_file \notin DOMAIN st.work
          /\ Beside(i, st.work)
      BY <1>5, <2>3, <3>1
    <3>3. image'.at[i] = g
      BY <1>10, <2>3, <3>1
    <3>4. i \in DOMAIN parts' /\ i < next' /\ HasFile(i)'
      BY <1>1, <1>2, <3>2 DEF HasFile
    <3>5. Mine(i, image.at[i])'
      <4>1. Mine(i, g)'
        BY <1>12, <3>2
      <4>2. QED
        BY <3>3, <4>1 DEF Mine, MadeFor
    <3>6. parts[i].source_file # to
      <4>1. parts[i].source_file \in Names(parts[i])
        BY <1>4, <3>2 DEF Ready
      <4>2. QED
        BY <1>7, <1>8, <4>1
    <3>7. g.by # i => g.by >= next' /\ parts'[i].source_file \notin DOMAIN st'.work
      <4>1. g.by \in 1..Len(parts) /\ parts[g.by].source_file = parts[i].source_file
        BY <1>2, <3>2 DEF Mine
      <4>2. g.by # i => g.by # k
        BY <1>1, <1>6, <3>2, <4>1
      <4>3. g.by # i => g.by >= next'
        BY <1>1, <1>2, <3>2, <4>1, <4>2
      <4>4. QED
        BY <1>9, <3>2, <3>6, <4>3
    <3>8. Beside(i, st.work)'
      <4>1. PICK m, side : m = Num(i) /\ side = Partimage(i)
        OBVIOUS
      <4>2. m = Num(i)' /\ side = Partimage(i)' /\ side = <<"direct.p", m>>
        BY <4>1 DEF Partimage, Num
      <4>3. SUFFICES ASSUME m # 0 PROVE side \in DOMAIN st'.work /\ st'.work[side] = g
        BY <3>3, <4>2 DEF Beside
      <4>4. side \in DOMAIN st.work /\ st.work[side] = g
        BY <3>1, <3>2, <4>1, <4>3 DEF Beside
      <4>5. side # to
        <5>1. m # Num(k)
          BY <1>2, <3>2, <4>1, <4>3, NumDiffers DEF CreateInv
        <5>2. QED
          BY <1>8, <4>2, <5>1
      <4>6. side # name
        BY <1>6, <1>7, <4>2
      <4>7. QED
        BY <1>9, <4>4, <4>5, <4>6
    <3>9. QED
      BY <3>3, <3>4, <3>5, <3>7, <3>8
  <2>4. QED
    BY <2>1, <2>2, <2>3
<1>16. Assembling'
  <2>1. next' \in 1..(Len(parts') + 1) /\ st'.err = None
    BY <1>1, <1>2, <1>9
  <2>2. QED
    BY <1>14, <1>15, <2>1 DEF Assembling
<1>17. Parsing' /\ Preparing' /\ Prepared' /\ Complete'
  BY DEF Parsing, Preparing, Prepared, Complete
<1>18. UkiSectionsApart'
  <2>1. SUFFICES ASSUME NEW i \in DOMAIN image'.at, image'.at[i].uki # <<>>
                 PROVE  Apart(image'.at[i].uki, parts[i].uki.stub, parts[i].uki.align)
    BY DEF UkiSectionsApart
  <2>2. CASE i = k
    <3>1. f.uki # <<>> /\ f.by = k
      BY <1>10, <1>11, <2>1, <2>2 DEF Mine
    <3>2. MadeFor(k, f)
      BY <1>11, <3>1 DEF Mine
    <3>3. QED
      BY <1>10, <2>2, <3>1, <3>2 DEF MadeFor, Made, Content
  <2>3. CASE i # k
    <3>1. i \in DOMAIN image.at /\ image'.at[i] = image.at[i]
      BY <1>10, <2>3
    <3>2. QED
      BY <2>1, <3>1 DEF CreateInv, UkiSectionsApart
  <2>4. QED
    BY <2>2, <2>3
<1>19. QED
  BY <1>13, <1>16, <1>17, <1>18 DEF CreateInv

LEMMA AssemblePartKeeps ==
  ASSUME CreateInv, AssemblePart
  PROVE  CreateInv'
<1> DEFINE source == parts[next].source_file
<1>1. /\ pc = "assemble" /\ next <= Len(parts) /\ next' = next + 1
      /\ UNCHANGED <<todo, parts, boot, fstab>>
  BY DEF AssemblePart
<1>2. CASE source = <<>>
  <2>1. UNCHANGED <<image, st, pc>>
    BY <1>2 DEF AssemblePart
  <2>2. QED
    BY <1>1, <1>2, <2>1, SkipKeeps
<1>3. CASE source # <<>> /\ source \notin DOMAIN st.work
  <2>1. st' = Fail(st, "FileNotFoundError") /\ pc' = "cleanup" /\ UNCHANGED image
    BY <1>3 DEF AssemblePart
  <2>2. DOMAIN st = StFields /\ next \in Nat /\ Len(parts) \in Nat
        /\ parts = [i \in 1..Len(parts) |-> parts[i]] /\ DOMAIN image = {"mbr", "at"}
        /\ todo \in Seq(WksLines)
    BY DEF CreateInv, Typed, StFields
  <2>3. st'.err = "FileNotFoundError" /\ DOMAIN st' = StFields
    BY <2>1, <2>2 DEF Fail, StFields
  <2>4. st'.err # None
    BY <2>3, NoneAssumption DEF Errors
  <2>5. UkiSectionsApart'
    BY <1>1, <2>1 DEF CreateInv, UkiSectionsApart
  <2>6. next' \in Nat
    BY <1>1, <2>2
  <2>7. QED
    BY <1>1, <2>1, <2>2, <2>3, <2>4, <2>5, <2>6, RaisedKeeps
<1>4. CASE source # <<>> /\ source \in DOMAIN st.work
  <2>1. /\ image' = [image EXCEPT !.at = [m \in DOMAIN @ \cup {next} |->
                        IF m = next THEN st.work[source] ELSE @[m]]]
        /\ st' = [st EXCEPT !.work = Renamed(@, source, Partimage(next))]
        /\ UNCHANGED pc
    BY <1>4 DEF AssemblePart
  <2>2. QED
    BY <1>1, <1>4, <2>1, CopyKeeps
<1>5. QED
  BY <1>2, <1>3, <1>4

\* Once all are copied, what the image holds of a partition was made for it.
LEMMA Assembled ==
  ASSUME CreateInv, pc = "assemble", next > Len(parts)
  PROVE  /\ \A i \in DOMAIN parts : Ready(i) /\ (HasFile(i) => i \in DOMAIN image.at)
         /\ \A i \in DOMAIN image.at :
              i \in DOMAIN parts /\ MadeFor(i, image.at[i]) /\ Beside(i, st.work)
<1>1. Len(parts) \in Nat /\ DOMAIN parts = 1..Len(parts) /\ next \in 1..(Len(parts) + 1)
  BY PartNumbers DEF CreateInv, Assembling
<1>2. \A i \in DOMAIN parts : i < next
  BY <1>1
<1>3. \A i \in DOMAIN parts : Ready(i) /\ (HasFile(i) => i \in DOMAIN image.at)
  BY <1>2 DEF CreateInv, Assembling
<1>4. ASSUME NEW i \in DOMAIN image.at
      PROVE  i \in DOMAIN parts /\ MadeFor(i, image.at[i]) /\ Beside(i, st.work)
  <2>1. PICK g : g = image.at[i]
    OBVIOUS
  <2>2. /\ i \in DOMAIN parts /\ Mine(i, g) /\ Beside(i, st.work)
        /\ g.by # i => g.by >= next
    BY <2>1 DEF CreateInv, Assembling
  <2>3. g.by \in DOMAIN parts /\ MadeFor(g.by, g)
    BY <2>2 DEF Mine
  <2>4. g.by = i
    BY <1>1, <2>2, <2>3
  <2>5. QED
    BY <2>1, <2>2, <2>3, <2>4
<1>5. QED
  BY <1>3, <1>4

LEMMA FinalizeKeeps ==
  ASSUME CreateInv, Finalize
  PROVE  CreateInv'
<1> DEFINE failed == InstallDisk(boot[1].source, boot[1].ptable)
<1>1. /\ pc = "assemble" /\ next > Len(parts) /\ pc' = "cleanup"
      /\ image' = IF failed = None /\ InstallsMbr(boot[1].source)
                  THEN [image EXCEPT !.mbr = "syslinux"] ELSE image
      /\ st' = IF failed # None THEN Fail(st, failed)
               ELSE IF options.compress
               THEN [st EXCEPT !.work = Renamed(@, <<"direct">>, <<"direct.gz">>)] ELSE st
      /\ UNCHANGED <<todo, parts, boot, options, next, fstab, outdir>>
  BY DEF Finalize
<1>2. /\ DOMAIN st = StFields /\ next \in Nat /\ Len(parts) \in Nat
      /\ parts = [i \in 1..Len(parts) |-> parts[i]] /\ DOMAIN image = {"mbr", "at"}
      /\ todo \in Seq(WksLines) /\ st.err = None
  BY <1>1 DEF CreateInv, Typed, StFields, Assembling
<1> HIDE DEF failed
<1>3. DOMAIN image' = {"mbr", "at"} /\ image'.at = image.at
  <2>1. image' = image \/ image' = [image EXCEPT !.mbr = "syslinux"]
    BY <1>1
  <2>2. QED
    BY <1>2, <2>1
<1>4. UkiSectionsApart'
  BY <1>1, <1>3 DEF CreateInv, UkiSectionsApart
<1>5. CASE failed # None
  <2>1. DOMAIN st' = StFields /\ st'.err # None
    BY <1>1, <1>2, <1>5 DEF Fail, StFields
  <2>2. QED
    BY <1>1, <1>2, <1>3, <1>4, <2>1, RaisedKeeps
<1>6. CASE failed = None
  <2>1. /\ DOMAIN st' = StFields /\ st'.err = None
        /\ st'.work = st.work \/ st'.work = Renamed(st.work, <<"direct">>, <<"direct.gz">>)
    <3>1. st' = st \/ st' = [st EXCEPT !.work = Renamed(@, <<"direct">>, <<"direct.gz">>)]
      BY <1>1, <1>6
    <3>2. CASE st' = st
      BY <1>2, <3>2
    <3>3. CASE st' = [st EXCEPT !.work = Renamed(@, <<"direct">>, <<"direct.gz">>)]
      <4> DEFINE work == Renamed(st.work, <<"direct">>, <<"direct.gz">>)
      <4>1. st' = [st EXCEPT !.work = work]
        BY <3>3
      <4> HIDE DEF work
      <4>2. DOMAIN st' = StFields /\ st'.err = None /\ st'.work = work
        BY <1>2, <4>1 DEF StFields
      <4>3. QED
        BY <4>2 DEF work
    <3>4. QED
      BY <3>1, <3>2, <3>3
  <2>2. \A m : <<"direct.p", m>> \in DOMAIN st.work =>
                 /\ <<"direct.p", m>> \in DOMAIN st'.work
                 /\ st'.work[<<"direct.p", m>>] = st.work[<<"direct.p", m>>]
    <3>1. CASE st'.work = st.work
      BY <3>1
    <3>2. CASE st'.work = Renamed(st.work, <<"direct">>, <<"direct.gz">>)
      <4>1. \A m : <<"direct.p", m>> # <<"direct">> /\ <<"direct.p", m>> # <<"direct.gz">>
        OBVIOUS
      <4>2. QED
        BY <3>2, <4>1 DEF Renamed
    <3>3. QED
      BY <2>1, <3>1, <3>2
  <2>3. /\ \A i \in DOMAIN parts : Ready(i) /\ (HasFile(i) => i \in DOMAIN image.at)
        /\ \A i \in DOMAIN image.at :
             i \in DOMAIN parts /\ MadeFor(i, image.at[i]) /\ Beside(i, st.work)
    BY <1>1, Assembled
  <2>4. \A i \in DOMAIN parts : Ready(i)' /\ (HasFile(i)' => i \in DOMAIN image'.at)
    BY <1>1, <1>3, <2>3 DEF Ready, HasFile
  <2>5. ASSUME NEW i \in DOMAIN image'.at
        PROVE  /\ i \in DOMAIN parts' /\ MadeFor(i, image.at[i])'
               /\ Beside(i, st.work)'
    <3>1. i \in DOMAIN parts /\ MadeFor(i, image.at[i]) /\ Beside(i, st.work)
      BY <1>3, <2>3
    <3>2. MadeFor(i, image.at[i])'
      BY <1>1, <1>3, <3>1 DEF MadeFor
    <3>3. Beside(i, st.work)'
      <4>1. PICK m : m = Num(i)
        OBVIOUS
      <4>2. m = Num(i)' /\ Partimage(i)' = <<"direct.p", m>> /\ Partimage(i) = <<"direct.p", m>>
        BY <1>1, <4>1 DEF Partimage, Num
      <4>3. m # 0 => /\ <<"direct.p", m>> \in DOMAIN st.work
                     /\ st.work[<<"direct.p", m>>] = image.at[i]
        BY <3>1, <4>1, <4>2 DEF Beside
      <4>4. m # 0 => /\ <<"direct.p", m>> \in DOMAIN st'.work
                     /\ st'.work[<<"direct.p", m>>] = image'.at[i]
        BY <1>3, <2>2, <4>3
      <4>5. QED
        BY <4>2, <4>4 DEF Beside
    <3>4. QED
      BY <1>1, <3>1, <3>2, <3>3
  <2>6. Complete'
    BY <1>1, <2>4, <2>5 DEF Complete
  <2>7. Typed'
    BY <1>1, <1>2, <1>3, <2>1 DEF CreateInv, Typed, StFields
  <2>8. Parsing' /\ Preparing' /\ Prepared' /\ Assembling'
    BY <1>1 DEF Parsing, Preparing, Prepared, Assembling
  <2>9. QED
    BY <1>4, <2>6, <2>7, <2>8 DEF CreateInv
<1>7. QED
  BY <1>5, <1>6

LEMMA CleanupKeeps ==
  ASSUME CreateInv, Cleanup
  PROVE  CreateInv'
<1>1. /\ pc = "cleanup" /\ pc' = "end" /\ outdir' = st.work
      /\ st' = [st EXCEPT !.work = Empty]
      /\ UNCHANGED <<todo, parts, boot, next, fstab, image>>
  BY DEF Cleanup
<1>2. DOMAIN st = StFields
  BY DEF CreateInv, Typed, StFields
<1>3. DOMAIN st' = StFields /\ st'.err = st.err
  BY <1>1, <1>2 DEF StFields
<1>4. Typed'
  BY <1>1, <1>3 DEF CreateInv, Typed, StFields
<1>5. Parsing' /\ Preparing' /\ Prepared' /\ Assembling'
  BY <1>1 DEF Parsing, Preparing, Prepared, Assembling
<1>6. UkiSectionsApart'
  BY <1>1 DEF CreateInv, UkiSectionsApart
<1>7. ASSUME st.err = None
      PROVE  /\ \A i \in DOMAIN parts : Ready(i)' /\ (HasFile(i)' => i \in DOMAIN image'.at)
             /\ \A i \in DOMAIN image.at :
                  i \in DOMAIN parts /\ MadeFor(i, image.at[i])' /\ Beside(i, outdir)'
  <2>1. /\ \A i \in DOMAIN parts : Ready(i) /\ (HasFile(i) => i \in DOMAIN image.at)
        /\ \A i \in DOMAIN image.at :
             i \in DOMAIN parts /\ MadeFor(i, image.at[i]) /\ Beside(i, st.work)
    BY <1>1, <1>7 DEF CreateInv, Complete
  <2>2. \A i \in DOMAIN parts : Ready(i)' /\ (HasFile(i)' => i \in DOMAIN image'.at)
    BY <1>1, <2>1 DEF Ready, HasFile
  <2>3. ASSUME NEW i \in DOMAIN image.at
        PROVE  i \in DOMAIN parts /\ MadeFor(i, image.at[i])' /\ Beside(i, outdir)'
    <3>1. MadeFor(i, image.at[i])'
      BY <1>1, <2>1 DEF MadeFor
    <3>2. Beside(i, outdir)'
      BY <1>1, <2>1 DEF Beside, Num, Partimage
    <3>3. QED
      BY <2>1, <3>1, <3>2
  <2>4. QED
    BY <2>2, <2>3
<1>8. Complete'
  BY <1>1, <1>3, <1>7 DEF Complete
<1>9. QED
  BY <1>4, <1>5, <1>6, <1>8 DEF CreateInv

LEMMA InitCreate ==
  ASSUME Init
  PROVE  CreateInv
<1>1. /\ todo \in KickStarts /\ parts = <<>> /\ pc = "parse" /\ next = 1
      /\ st = [work |-> Empty, hdd |-> {}, err |-> None, tasks |-> {}, staged |-> {}]
      /\ image = NoImage
  BY DEF Init
<1>2. todo \in Seq(WksLines)
  BY <1>1, WksAssumption DEF WksFiles
<1>3. Len(parts) = 0 /\ DOMAIN parts = {} /\ parts = [i \in 1..0 |-> parts[i]]
  BY <1>1
<1>4. image.at = Empty /\ DOMAIN image = {"mbr", "at"}
  BY <1>1 DEF NoImage
<1>5. Typed
  BY <1>1, <1>2, <1>3, <1>4 DEF Typed
<1>6. Parsing /\ Preparing
  BY <1>1, <1>3, <1>4, FS_EmptySet DEF Parsing, Preparing
<1>7. Prepared /\ Assembling /\ Complete
  BY <1>1 DEF Prepared, Assembling, Complete
<1>8. UkiSectionsApart
  BY <1>4 DEF UkiSectionsApart, Empty
<1>9. QED
  BY <1>5, <1>6, <1>7, <1>8 DEF CreateInv

\* direct.py: throughout wic create, every file of the work directory and of
\* the image is known to be some partition's, and what was made for it.
THEOREM CreateInvariant == Spec => []CreateInv
<1>1. Init => CreateInv
  BY InitCreate
<1>2. CreateInv /\ [Next]_vars => CreateInv'
  <2>1. SUFFICES ASSUME CreateInv, [Next]_vars PROVE CreateInv'
    OBVIOUS
  <2>2. CASE ParsePart BY <2>1, <2>2, ParsePartKeeps
  <2>3. CASE ParseInclude BY <2>1, <2>3, ParseIncludeKeeps
  <2>4. CASE ParseBootloader BY <2>1, <2>4, ParseBootloaderKeeps
  <2>5. CASE Parsed BY <2>1, <2>5, ParsedActionKeeps
  <2>6. CASE BeginCreate BY <2>1, <2>6, BeginCreateKeeps
  <2>7. CASE PreparePart BY <2>1, <2>7, PreparePartKeeps
  <2>8. CASE CreateImage BY <2>1, <2>8, CreateImageKeeps
  <2>9. CASE AssemblePart BY <2>1, <2>9, AssemblePartKeeps
  <2>10. CASE Finalize BY <2>1, <2>10, FinalizeKeeps
  <2>11. CASE Cleanup BY <2>1, <2>11, CleanupKeeps
  <2>12. CASE UNCHANGED vars
    <3>1. UNCHANGED <<todo, parts, boot, pc, next, st, fstab, image, outdir>>
      BY <2>12 DEF vars
    <3>2. Typed'
      BY <2>1, <3>1 DEF CreateInv, Typed
    <3>3. Parsing' /\ Preparing'
      BY <2>1, <3>1 DEF CreateInv, Parsing, Preparing, HasFile
    <3>4. Prepared'
      BY <2>1, <3>1 DEF CreateInv, Prepared, Ready, HasFile, Mine, MadeFor
    <3>5. Assembling'
      <4>1. \A i : (Ready(i)' <=> Ready(i)) /\ (HasFile(i)' <=> HasFile(i))
        BY <3>1 DEF Ready, HasFile
      <4>2. \A i, g : Mine(i, g)' <=> Mine(i, g)
        BY <3>1 DEF Mine, MadeFor
      <4>3. \A i, files : Beside(i, files)' <=> Beside(i, files)
        BY <3>1 DEF Beside, Partimage, Num
      <4>4. QED
        BY <2>1, <3>1, <4>1, <4>2, <4>3 DEF CreateInv, Assembling
    <3>6. Complete'
      <4>1. \A i : (Ready(i)' <=> Ready(i)) /\ (HasFile(i)' <=> HasFile(i))
        BY <3>1 DEF Ready, HasFile
      <4>2. \A i, g : MadeFor(i, g)' <=> MadeFor(i, g)
        BY <3>1 DEF MadeFor
      <4>3. \A i, files : Beside(i, files)' <=> Beside(i, files)
        BY <3>1 DEF Beside, Partimage, Num
      <4>4. QED
        BY <2>1, <3>1, <4>1, <4>2, <4>3 DEF CreateInv, Complete
    <3>7. UkiSectionsApart'
      BY <2>1, <3>1 DEF CreateInv, UkiSectionsApart
    <3>8. QED
      BY <3>2, <3>3, <3>4, <3>5, <3>6, <3>7 DEF CreateInv
  <2>13. QED
    BY <2>1, <2>2, <2>3, <2>4, <2>5, <2>6, <2>7, <2>8, <2>9, <2>10, <2>11, <2>12 DEF Next
<1>3. QED
  BY <1>1, <1>2, PTL DEF Spec

------------------------------------------------------------------------------
(* The properties.                                                          *)

\* A finished image, by the invariant.
LEMMA FinishedIs ==
  ASSUME CreateInv, Finished
  PROVE  /\ \A i \in DOMAIN parts :
              /\ ParsedPart(parts[i], i) /\ Ready(i)
              /\ HasFile(i) => i \in DOMAIN image.at
         /\ \A i \in DOMAIN image.at :
              /\ i \in DOMAIN parts /\ MadeFor(i, image.at[i])
              /\ image.at[i].by = i /\ Beside(i, outdir)
<1>1. pc = "end" /\ st.err = None
  BY DEF Finished
<1>2. /\ \A i \in DOMAIN parts : Ready(i) /\ (HasFile(i) => i \in DOMAIN image.at)
      /\ \A i \in DOMAIN image.at :
           i \in DOMAIN parts /\ MadeFor(i, image.at[i]) /\ Beside(i, outdir)
  BY <1>1 DEF CreateInv, Complete
<1>3. \A i \in DOMAIN parts : ParsedPart(parts[i], i)
  BY <1>1 DEF CreateInv, Typed
<1>4. \A i \in DOMAIN image.at : image.at[i].by = i
  BY <1>2, <1>3 DEF MadeFor, Made, Content, ParsedPart
<1>5. QED
  BY <1>2, <1>3, <1>4

LEMMA OwnFilesFollow ==
  ASSUME CreateInv
  PROVE  OwnFiles
<1>1. OwnContent
  <2>1. SUFFICES ASSUME Finished, NEW i \in DOMAIN parts
                 PROVE  /\ parts[i].source_file # <<>> =>
                             i \in DOMAIN image.at /\ image.at[i].by = i
                        /\ i \in DOMAIN image.at /\ Num(i) # 0 =>
                             /\ Partimage(i) \in DOMAIN outdir
                             /\ outdir[Partimage(i)] = image.at[i]
    BY DEF OwnContent
  <2>2. QED
    BY <2>1, FinishedIs DEF HasFile, Beside
<1>2. OwnBootFiles
  <2>1. SUFFICES ASSUME Finished, NEW i \in DOMAIN parts,
                        parts[i].source = "bootimg-partition"
                 PROVE  /\ i \in DOMAIN image.at
                        /\ image.at[i].holds = Installed(BootTasks(parts[i])) \cup
                             ExtlinuxFiles(parts[i], boot[1].configfile, BootTasks(parts[i]))
    BY DEF OwnBootFiles, BootTasks, ExtlinuxFiles
  <2>2. HasFile(i)
    <3>1. Ready(i)
      BY <2>1, FinishedIs
    <3>2. parts[i].source # None
      BY <2>1, NoneAssumption DEF Sources
    <3>3. QED
      BY <3>1, <3>2 DEF Ready
  <2>3. i \in DOMAIN image.at /\ MadeFor(i, image.at[i])
    BY <2>1, <2>2, FinishedIs
  <2>4. QED
    BY <2>1, <2>3 DEF MadeFor, Made, Content
<1>3. QED
  BY <1>1, <1>2 DEF OwnFiles

\* direct.py:679-692: the image wic create finishes holds in each partition the
\* file made for it, boot partitions their own list and configuration, and the
\* copy of every file beside the image bears its partition's number.
THEOREM EachItsOwn == Spec => []OwnFiles
<1>1. CreateInv => OwnFiles
  BY OwnFilesFollow
<1>2. QED
  BY <1>1, CreateInvariant, PTL

LEMMA FstabFollows ==
  ASSUME CreateInv
  PROVE  FstabArrives
<1>1. SUFFICES ASSUME Finished, NEW i \in DOMAIN image.at,
                      parts[i].source = "rootfs", image.at[i].fstab # "none"
               PROVE  image.at[i].fstab = "new"
                        <=> fstab # None /\ ~parts[i].no_fstab_update
  BY DEF FstabArrives
<1>2. MadeFor(i, image.at[i])
  BY <1>1, FinishedIs
<1>3. QED
  BY <1>1, <1>2 DEF MadeFor, Made, Content

\* partition.py:135-136,302-338,411-412: whichever file system a root file
\* system is put in, the fstab in it is the new one exactly when one was
\* written and the line does not refuse it.
THEOREM NewFstabArrives == Spec => []FstabArrives
<1>1. CreateInv => FstabArrives
  BY FstabFollows
<1>2. QED
  BY <1>1, CreateInvariant, PTL

LEMMA FitsFollows ==
  ASSUME CreateInv
  PROVE  ImageFits
<1>1. SUFFICES ASSUME Finished, NEW i \in DOMAIN image.at
               PROVE  UncheckedSwap(parts[i]) \/ image.at[i].kb <= DiskSize(parts[i])
  BY DEF ImageFits
<1>2. MadeFor(i, image.at[i])
  BY <1>1, FinishedIs
<1>3. QED
  BY <1>2 DEF MadeFor, Made

\* partition.py:202-206: no file is longer than the partition it is copied
\* into, whatever its tree, size options and overhead; the swap partition that
\* is never checked is the exception.
THEOREM FilesFit == Spec => []ImageFits
<1>1. CreateInv => ImageFits
  BY FitsFollows
<1>2. QED
  BY <1>1, CreateInvariant, PTL

\* bootimg-efi.py:341-366: in the unified kernels of an image, at every moment
\* it is put together, no section lies over another.
THEOREM UkiSectionsStayApart == Spec => []UkiSectionsApart
<1>1. CreateInv => UkiSectionsApart
  BY DEF CreateInv
<1>2. QED
  BY <1>1, CreateInvariant, PTL
=============================================================================
