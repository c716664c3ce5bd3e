----------------------------- MODULE WicSources -----------------------------
(***************************************************************************)
(* What fills the partitions of a wic image: Partition.prepare             *)
(* (scripts/lib/wic/partition.py) and the source plugins it calls          *)
(* (scripts/lib/wic/plugins/source).  Every operator takes the state a     *)
(* preparation works on,                                                   *)
(*    [work, hdd, part, err, tasks, staged]                                *)
(* the files of the work directory, the shared staging directory hdd/boot, *)
(* the partition, the error, the plugin's list of files to install and     *)
(* what it staged for this partition alone, and returns it changed.  Once  *)
(* err is set nothing more happens, as behind a Python exception.          *)
(*                                                                         *)
(* A file is [by, holds, fstab, kb, uki]: the partition it was made for,   *)
(* the files inside it, the fstab inside it ("none", "old" or "new"), its  *)
(* size and the sections of a unified kernel.  Every file of a root or     *)
(* boot tree counts FileKb kB.                                             *)
(***************************************************************************)
EXTENDS KickStart, UkiImage, FiniteSetsExt

CONSTANTS
    Trees,       \* root file systems: name -> [files, fstab]
    RootfsDirs,  \* the connections of the command line: name -> tree
    ImageSizes,  \* the trees given as image names: tree -> its ROOTFS_SIZE
    ROOTFS_SIZE, \* the size bitbake computed for ROOTFS_DIR's tree, or 0
    BootFiles,   \* IMAGE_BOOT_FILES and its variants: <<suffix kind, id>> -> entries
    EfiBootFiles,\* IMAGE_EFI_BOOT_FILES and its variants
    KernelDir,   \* files of DEPLOY_DIR_IMAGE
    FileKb, BOOTDD_EXTRA_SPACE

\* The plugins, and the exceptions the code raises.
Sources == {"rootfs", "bootimg-partition", "bootimg-efi", "bootimg-efi-amd", "bootimg-pcbios",
            "bootimg-biosplusefi", "isoimage-isohybrid", "rawcopy", "empty"}
Errors == {"WicError", "TypeError", "AttributeError", "KickStartError", "IndexError",
           "FileNotFoundError", "KeyError"}

\* What stands for an option not given is no option's value, and no error.
ASSUME NoneAssumption == None \notin Nat \cup Sources \cup Errors

ASSUME FilesAssumption ==
    /\ FileKb \in Nat /\ BOOTDD_EXTRA_SPACE \in Nat /\ ROOTFS_SIZE \in Nat
    /\ IsFiniteSet(KernelDir)
    /\ \A t \in DOMAIN Trees : IsFiniteSet(Trees[t].files)
    /\ \A d \in DOMAIN ImageSizes : ImageSizes[d] \in Nat

\* The entries of a list of boot files.
ASSUME BootFilesAssumption ==
    \A vars \in {BootFiles, EfiBootFiles} : \A k \in DOMAIN vars :
        /\ k # None
        /\ vars[k] \in Seq([src : [name : STRING, group : STRING], dst : STRING,
                            glob : BOOLEAN])

\* A "part" line, with the fields its preparation adds.  The paths that
\* --include-path names exist: with another one cp fails and wic ends.
PartOptions ==
    {"kind", "lineno", "mountpoint", "fstype", "source", "label", "uuid", "size", "fixed_size",
     "extra_space", "overhead", "joined", "no_table", "rootfs_dir", "include", "exclude",
     "change_dir", "no_fstab_update", "use_label", "use_uuid", "fsuuid", "system_id", "loader",
     "unified", "no_kernel", "rootfs_uuid", "initrd", "dtb", "uki", "source_file", "has_fstab",
     "updated_fstab", "update_fstab_in_rootfs"}
PartLine(line) ==
    /\ DOMAIN line = PartOptions
    /\ \A o \in SizeOptions : line[o] \in {None} \cup [num : Nat, suffix : STRING]
    /\ line.overhead \in {None} \cup Nat
    /\ IsFiniteSet(line.include) /\ line.include \subseteq DOMAIN Trees
    /\ IsFiniteSet(line.initrd) /\ IsFiniteSet(line.dtb)
    /\ line.unified => line.uki \in Uki
    /\ line.source_file = <<>>

Du(files) == FileKb * Cardinality(files)
File(p, holds, fstab, kb) ==
    [by |-> p.lineno, holds |-> holds, fstab |-> fstab, kb |-> kb, uki |-> <<>>]
With(work, name, file) ==
    [n \in DOMAIN work \cup {name} |-> IF n = name THEN file ELSE work[n]]
Fail(s, kind) == [s EXCEPT !.err = kind]
Ok(s) == s.err = None
HasFstab(files) == \E f \in files : f.dir = "etc" /\ f.name = "fstab"

-----------------------------------------------------------------------------
(* Sizes.                                                                  *)

GetExtraBlockCount(p, current) == IF p.size > current THEN p.size - current ELSE 0

\* None when the tree is larger than a --fixed-size partition.
GetRootfsSize(p, actual) ==
    IF p.fixed_size > 0
    THEN IF actual > p.fixed_size THEN -1 ELSE p.fixed_size
    ELSE LET extra == Max({GetExtraBlockCount(p, actual), p.extra_space})
         IN  ((actual + extra) * p.overhead) \div 10

DiskSize(p) == IF p.fixed_size > 0 THEN p.fixed_size ELSE p.size

IsExt(fstype) == fstype \in {"ext2", "ext3", "ext4"}
IsFat(fstype) == fstype \in {"msdos", "vfat"}

-----------------------------------------------------------------------------
(* File systems.                                                           *)

\* Mutant: --no-fstab-update of the line is not looked at.
FstabWritten_Always(p) == p.updated_fstab /\ p.has_fstab

\* The updated fstab goes into an ext or FAT image once it is made; the other
\* file systems are made from a tree that holds it already.
FstabWritten(p) == p.updated_fstab /\ p.has_fstab /\ ~p.no_fstab_update

PrepareRootfsExt(p, tree) ==
    File(p, tree.files, IF FstabWritten(p) THEN "new" ELSE tree.fstab,
         GetRootfsSize(p, Du(tree.files)))
PrepareRootfsMsdos(p, tree) == PrepareRootfsExt(p, tree)
PrepareRootfsBtrfs(p, tree) ==
    File(p, tree.files, tree.fstab, GetRootfsSize(p, Du(tree.files)))
\* squashfs and erofs take the room the tree needs.
PrepareRootfsPacked(p, tree) == File(p, tree.files, tree.fstab, Du(tree.files))

RootfsName(p) == <<"rootfs", p.label, p.lineno, p.fstype>>

\* A --size that was not given is what the tree takes, or bitbake's figure for
\* it.  real is FALSE for a staged boot directory.
SizedFor(p, tree, real) ==
    IF p.size = 0 /\ real
    THEN [p EXCEPT !.size = IF ROOTFS_SIZE > 0 /\ tree.original THEN ROOTFS_SIZE
                            ELSE Du(tree.files)]
    ELSE p

FileSystem(p, tree) ==
    CASE IsExt(p.fstype) -> PrepareRootfsExt(p, tree)
      [] IsFat(p.fstype) -> PrepareRootfsMsdos(p, tree)
      [] p.fstype = "btrfs" -> PrepareRootfsBtrfs(p, tree)
      [] OTHER -> PrepareRootfsPacked(p, tree)

\* prepare_rootfs: the image is made from tree, and the partition's size is
\* what the image came out as.
PrepareRootfs(s, tree, real) ==
    LET p     == SizedFor(s.part, tree, real)
        name  == RootfsName(p)
        image == FileSystem(p, tree)
    IN  IF p.fstype \in {"swap", "none"} THEN Fail(s, "AttributeError")
        ELSE IF image.kb < 0 THEN Fail(s, "WicError")
        ELSE [s EXCEPT !.work = With(@, name, image),
                       !.part = [p EXCEPT !.source_file = name, !.size = image.kb]]

-----------------------------------------------------------------------------
(* Partitions without a source.                                            *)

Put(s, name, file) == [s EXCEPT !.work = With(@, name, file), !.part.source_file = name]

\* All swap partitions share one file name.  mkswap of a --fixed-size
\* partition finds an empty file, since only --size is asked for.
PrepareSwap(s) ==
    IF s.part.size = 0 THEN Fail(s, "WicError")
    ELSE Put(s, <<"fs", "swap">>,
             File(s.part, {}, "none", s.part.size))

\* mkfs.btrfs is told --size too, and refuses the zero of --fixed-size.
PrepareEmpty(s) ==
    LET p == s.part
    IN  IF p.fstype \in {"squashfs", "erofs"} \/ (p.fstype = "btrfs" /\ p.size = 0)
        THEN Fail(s, "WicError")
        ELSE Put(s, <<"fs", p.label, p.lineno, p.fstype>>,
                 File(p, {}, "none", DiskSize(p)))

PrepareSourceless(s) ==
    LET p == s.part
    IN  IF p.fstype = "none" \/ p.no_table THEN s
        ELSE IF DiskSize(p) = 0 THEN Fail(s, "WicError")
        ELSE IF p.fstype = "swap" THEN PrepareSwap(s) ELSE PrepareEmpty(s)

-----------------------------------------------------------------------------
(* The rootfs plugin.                                                      *)

\* The tree a --rootfs-dir names: a connection, a path, or the ROOTFS_DIR.
\* An image that bitbake does not know has no IMAGE_ROOTFS to look for.
RootfsTree(p) ==
    LET name == IF p.rootfs_dir = None THEN "ROOTFS_DIR" ELSE p.rootfs_dir
    IN  IF name \in DOMAIN RootfsDirs THEN RootfsDirs[name] ELSE name

\* A copy to change: --change-directory picks a subtree, --include-path adds,
\* --exclude-path removes afterwards, and at last the updated fstab is put
\* in for the file systems that do not take it later.
Copied(p, tree) ==
    LET cd    == IF p.change_dir THEN {f \in tree.files : f.dir = "sub"} ELSE tree.files
        added == cd \cup UNION {Trees[t].files : t \in p.include}
        left  == {f \in added : f.dir \notin p.exclude}
    IN  [files |-> left, original |-> FALSE,
         fstab |-> IF ~HasFstab(left) THEN "none"
                   ELSE IF p.updated_fstab /\ p.update_fstab_in_rootfs /\ ~p.no_fstab_update
                   THEN "new" ELSE "old"]

RootfsPrepare(s) ==
    LET p    == s.part
        name == RootfsTree(p)
        tree == [files |-> Trees[name].files, original |-> name = RootfsDirs["ROOTFS_DIR"],
                 fstab |-> IF HasFstab(Trees[name].files) THEN "old" ELSE "none"]
        copy == \/ p.exclude # {} \/ p.include # {} \/ p.change_dir
                \/ p.update_fstab_in_rootfs
        used == IF copy THEN Copied(p, tree) ELSE tree
    IN  IF name \notin DOMAIN Trees THEN Fail(s, "TypeError")
        ELSE PrepareRootfs([s EXCEPT !.part.has_fstab = used.fstab # "none",
                                     !.part.rootfs_dir = name], used, TRUE)
-----------------------------------------------------------------------------
(* The boot partition plugins.                                             *)

\* The variable for the partition's UUID, for its label, or the plain one: the
\* first that is defined (bootimg-partition) or not empty (bootimg-efi).
BootFilesKey(vars, uuid, label, unusable) ==
    LET usable(k) == k \in DOMAIN vars /\ vars[k] \notin unusable
    IN  IF usable(<<"uuid", uuid>>) THEN <<"uuid", uuid>>
        ELSE IF usable(<<"label", label>>) THEN <<"label", label>>
        ELSE IF usable(<<"plain">>) THEN <<"plain">> ELSE None

\* The files an entry src, src;dst or a pattern stands for.
EntryFiles(e) == IF e.glob THEN {f \in KernelDir : f.group = e.src.group} ELSE {e.src}

\* The list of files to install: the entry each comes from, in whose order they
\* are, and the directory it goes to.  What order a pattern's files come in,
\* glob does not say.
InstallTask(entries) ==
    UNION {{[at |-> i, src |-> f, dst |-> entries[i].dst] : f \in EntryFiles(entries[i])} :
              i \in DOMAIN entries}

BootFile(dir, name) == [dir |-> dir, name |-> name]
Boot(name) == BootFile("boot", name)
Installed(tasks) == {BootFile(task.dst, task.src.name) : task \in tasks}
AllDeployed(tasks) == \A task \in tasks : task.src \in KernelDir

\* U-Boot's extlinux.conf names the first installed kernel of the best type.
KernelTypes == <<"zImage", "Image", "fitImage", "uImage", "vmlinux">>
ExtlinuxKernels(tasks) ==
    {task \in tasks : \E k \in DOMAIN KernelTypes : task.src.group = KernelTypes[k]}
Preferred(a, b) ==
    \E k \in DOMAIN KernelTypes :
        /\ a.src.group = KernelTypes[k]
        /\ \A l \in 1..k : b.src.group = KernelTypes[l] => l = k /\ a.at <= b.at
Extlinux(tasks) ==
    LET kernels == ExtlinuxKernels(tasks)
        named   == CHOOSE a \in kernels : \A b \in kernels : Preferred(a, b)
    IN  BootFile("extlinux", named.src.name)

\* bootimg-partition: do_configure_partition stages the file list and the
\* extlinux.conf in a directory of the partition's own.
BootimgPartitionConfigure(s, boot) ==
    LET key   == BootFilesKey(BootFiles, s.part.uuid, s.part.label, {})
        tasks == InstallTask(BootFiles[key])
        uboot == s.part.loader = "u-boot"
    IN  IF \/ key = None
           \/ uboot /\ boot.configfile = "missing"
           \/ uboot /\ boot.configfile = None /\ ExtlinuxKernels(tasks) = {}
        THEN Fail(s, "WicError")
        ELSE [s EXCEPT !.tasks = tasks,
                       !.staged = IF ~uboot THEN {}
                                  ELSE IF boot.configfile = None THEN {Extlinux(tasks)}
                                  ELSE {BootFile("extlinux", "custom")}]

BootimgPartitionPrepare(s) ==
    IF ~AllDeployed(s.tasks) THEN Fail(s, "WicError")
    ELSE PrepareRootfs(s, [files |-> s.staged \cup Installed(s.tasks), original |-> FALSE,
                           fstab |-> "none"], FALSE)

\* _copy_additional_files: every initrd, and the one device tree.
AdditionalFiles(p) == p.initrd \cup p.dtb
AdditionalMissing(p) == ~(AdditionalFiles(p) \subseteq KernelDir) \/ Cardinality(p.dtb) > 1

\* The loader's configuration goes into hdd/boot, a directory that all
\* partitions of the image share.
GrubEfi(s, boot) ==
    IF boot.configfile = "missing" \/ AdditionalMissing(s.part) THEN Fail(s, "WicError")
    ELSE [s EXCEPT !.hdd = @ \cup {Boot("grub.cfg")}
                              \cup {Boot(f.name) : f \in AdditionalFiles(s.part)}]

\* Without a --timeout there is nothing to put in place of %d.
SystemdBoot(s, boot) ==
    IF boot.timeout = None THEN Fail(s, "TypeError")
    ELSE IF boot.configfile = "missing" \/ (~s.part.unified /\ AdditionalMissing(s.part))
    THEN Fail(s, "WicError")
    ELSE [s EXCEPT !.hdd = @ \cup {Boot("loader.conf")} \cup
              IF s.part.unified THEN {}
              ELSE {Boot("boot.conf")} \cup {Boot(f.name) : f \in AdditionalFiles(s.part)}]

\* The file list: none without IMAGE_EFI_BOOT_FILES, even when the variable
\* for the partition's label or UUID exists.
EfiTasks(s) ==
    LET key == BootFilesKey(EfiBootFiles, s.part.uuid, s.part.label, {<<>>})
    IN  IF ~Ok(s) \/ <<"plain">> \notin DOMAIN EfiBootFiles THEN s
        ELSE [s EXCEPT !.tasks = IF key = None THEN {} ELSE InstallTask(EfiBootFiles[key])]

EfiConfigure(s, boot) ==
    LET t == CASE s.part.loader = "grub-efi"     -> GrubEfi(s, boot)
               [] s.part.loader = "systemd-boot" -> SystemdBoot(s, boot)
               [] s.part.loader = "uefi-kernel"  -> s
               [] OTHER -> Fail(s, "WicError")
    IN  EfiTasks(t)

\* bootimg-efi-amd leaves systemd-boot's configuration to the boot files.
AmdConfigure(s, boot) ==
    LET t == CASE s.part.loader = "grub-efi" -> GrubEfi(s, boot)
               [] s.part.loader \in {"systemd-boot", "uefi-kernel"} -> s
               [] OTHER -> Fail(s, "WicError")
    IN  EfiTasks(t)

\* do_prepare_partition: the kernel, or a unified image of it; the file list,
\* once more only with IMAGE_EFI_BOOT_FILES; the loader's own files and
\* --include-path; then a FAT image named boot.img, whatever the partition,
\* which mkdosfs -C refuses to make twice.  The option for a device tree is
\* glued to the one before it, and objcopy refuses that.
EfiKernel(p) == IF p.unified THEN {Boot("linux.efi")}
                ELSE IF p.no_kernel THEN {} ELSE {Boot("kernel")}
EfiInstalls(s) == IF <<"plain">> \in DOMAIN EfiBootFiles /\ EfiBootFiles[<<"plain">>] # <<>>
                  THEN s.tasks ELSE {}
LoaderFiles(p) == {Boot(f.name) : f \in {g \in KernelDir : g.group = p.loader}}
EfiBlocks(p, files) ==
    LET used == Du(files)
    IN  Max({used + Max({GetExtraBlockCount(p, used), BOOTDD_EXTRA_SPACE}), p.fixed_size})

EfiPrepare(s) ==
    LET p == s.part
        files == s.hdd \cup EfiKernel(p) \cup Installed(EfiInstalls(s)) \cup LoaderFiles(p)
                   \cup UNION {Trees[t].files : t \in p.include}
        image == [File(p, files, "none", EfiBlocks(p, files)) EXCEPT
                     !.uki = IF p.unified THEN Sections(p.uki) ELSE <<>>]
    IN  IF \/ p.unified /\ (p.initrd = {} \/ p.dtb # {} \/ AdditionalMissing(p))
           \/ ~AllDeployed(EfiInstalls(s))
        THEN Fail(s, "WicError")
        ELSE IF <<"boot.img">> \in DOMAIN s.work
        THEN Fail([s EXCEPT !.hdd = files], "WicError")
        ELSE [Put(s, <<"boot.img">>, image) EXCEPT !.hdd = files, !.part.size = image.kb]

\* bootimg-efi-amd fills the root file system's UUID in for @@ROOTFS_UUID@@ in
\* the boot files that go below loader/, and wants the loader's files to exist.
AmdPrepare(s) ==
    IF s.part.rootfs_uuid = None /\ AllDeployed(EfiInstalls(s))
         /\ \E task \in EfiInstalls(s) : task.dst = "loader"
    THEN Fail(s, "TypeError")
    ELSE IF LoaderFiles(s.part) = {} THEN Fail(s, "WicError") ELSE EfiPrepare(s)

\* bootimg-pcbios: syslinux.cfg in the shared directory.
PcbiosConfigure(s, boot) ==
    IF ~Ok(s) THEN s
    ELSE IF boot.configfile = "missing" THEN Fail(s, "WicError")
    ELSE [s EXCEPT !.hdd = @ \cup {Boot("syslinux.cfg")}]

-----------------------------------------------------------------------------
(* Partition.prepare.                                                      *)

\* What each plugin does when it is configured; the base class does nothing.
Configure(s, boot) ==
    CASE s.part.source = "bootimg-partition"   -> BootimgPartitionConfigure(s, boot)
      [] s.part.source = "bootimg-efi"         -> EfiConfigure(s, boot)
      [] s.part.source = "bootimg-efi-amd"     -> AmdConfigure(s, boot)
      [] s.part.source = "bootimg-pcbios"      -> PcbiosConfigure(s, boot)
      [] s.part.source = "bootimg-biosplusefi" ->
             PcbiosConfigure(EfiConfigure(s, boot), boot)
      [] OTHER -> s

\* The plugins whose do_prepare_partition has the parameter sector_size, which
\* prepare always passes.
TakesSectorSize == {"rootfs", "bootimg-partition", "bootimg-efi", "bootimg-efi-amd"}

CallPrepare(s) ==
    IF ~Ok(s) THEN s
    ELSE CASE s.part.source \notin TakesSectorSize -> Fail(s, "TypeError")
      [] s.part.source = "rootfs"            -> RootfsPrepare(s)
      [] s.part.source = "bootimg-partition" -> BootimgPartitionPrepare(s)
      [] s.part.source = "bootimg-efi"       -> EfiPrepare(s)
      [] s.part.source = "bootimg-efi-amd"   -> AmdPrepare(s)

\* Mutant: the check at the end of prepare is not made.
CheckFixed_Off(s) == s

\* The image must not be larger than --fixed-size allows.
CheckFixed(s) ==
    IF Ok(s) /\ s.part.fixed_size > 0 /\ s.part.size > s.part.fixed_size THEN Fail(s, "WicError") ELSE s

Prepare(s0, boot, updated) ==
    LET late == updated /\ ~(IsExt(s0.part.fstype) \/ s0.part.fstype = "msdos")
        s == [s0 EXCEPT !.part.updated_fstab = updated, !.part.update_fstab_in_rootfs = late]
    IN  IF s.part.source = None THEN PrepareSourceless(s)
        ELSE IF s.part.source \notin Sources THEN Fail(s, "WicError")
        ELSE CheckFixed(CallPrepare(Configure(s, boot)))

\* do_install_disk of the plugin the bootloader line names: bootimg-pcbios
\* has a boot sector for the plain tables only, and isohybrid wants an ISO
\* image where the first partition's file is.
InstallsMbr(source) == source \in {"bootimg-pcbios", "bootimg-biosplusefi"}
InstallDisk(source, ptable) ==
    CASE InstallsMbr(source) -> IF ptable = "gpt-hybrid" THEN "WicError" ELSE None
      [] source = "isoimage-isohybrid" -> "WicError"
      [] source \notin Sources \cup {None} -> "KeyError"
      [] OTHER -> None
=============================================================================
