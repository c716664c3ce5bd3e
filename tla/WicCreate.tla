------------------------------ MODULE WicCreate ------------------------------
(***************************************************************************)
(* wic create with the direct imager (scripts/lib/wic/plugins/imager/      *)
(* direct.py), from the kickstart file to the output directory: the file   *)
(* is parsed (KickStart), every partition is filled (WicSources), the      *)
(* partitions' files are copied into the image, the boot loader is         *)
(* installed and whatever lies in the work directory is moved out.  Where  *)
(* in the image a partition lies is WicLayout's matter: here the image is  *)
(* the partitions' contents, at most four of them, so that with every      *)
(* kind of table the numbers in it are those of the order.                 *)
(***************************************************************************)
EXTENDS WicSources

CONSTANTS KickStarts,  \* the .wks files tried: sequences of lines
          Included,    \* canned .wks files for "include": name -> lines
          APPEND,      \* bitbake's variable, or None
          Options      \* command lines tried: [no_fstab_update, compress]

\* The lines that the files tried are made of.
LinesOf(ks) == {ks[i] : i \in DOMAIN ks}
WksFiles == KickStarts \cup {Included[p] : p \in DOMAIN Included}
WksLines == UNION {LinesOf(ks) : ks \in WksFiles}

ASSUME WksAssumption ==
    /\ WksFiles \subseteq Seq(WksLines)
    /\ \A line \in WksLines : line.kind = "part" => PartLine(line)

VARIABLES todo,        \* the lines still to be parsed
          given, parts, boot,
          options,
          pc, next,    \* the step, and the partition it is at
          st,          \* what WicSources works on, without the partition
          fstab,       \* the lines the new /etc/fstab gets, None when it is not written
          image,       \* the file copied into each partition, and the boot sector
          outdir

vars == <<todo, given, parts, boot, options, pc, next, st, fstab, image, outdir>>

Empty == [n \in {} |-> None]
NoImage == [mbr |-> None, at |-> Empty]

Init ==
    /\ todo \in KickStarts /\ options \in Options
    /\ given = <<>> /\ parts = <<>> /\ boot = <<>>
    /\ pc = "parse" /\ next = 1
    /\ st = [work |-> Empty, hdd |-> {}, err |-> None, tasks |-> {}, staged |-> {}]
    /\ fstab = None /\ image = NoImage /\ outdir = Empty

-----------------------------------------------------------------------------
(* KickStart._parse: one line after the other, an included file in place.  *)

Refuse == /\ pc' = "end" /\ st' = [st EXCEPT !.err = "KickStartError"]
          /\ UNCHANGED <<given, parts, boot, options, next, fstab, image, outdir>>

\* The partition's number among the lines, counted before the partition is made.
Partnum(n) == n + 1

ParsePart ==
    LET line == Head(todo)
    IN  /\ pc = "parse" /\ todo # <<>> /\ line.kind = "part"
        /\ todo' = Tail(todo)
        /\ IF Refused(line) THEN Refuse
           ELSE /\ parts' = Append(parts, [WithDefaults(Converted(line)) EXCEPT
                                             !.lineno = Partnum(Len(parts))])
                /\ given' = Append(given, line)
                /\ UNCHANGED <<boot, options, pc, next, st, fstab, image, outdir>>

ParseInclude ==
    /\ pc = "parse" /\ todo # <<>> /\ Head(todo).kind = "include"
    /\ IF Head(todo).path \in DOMAIN Included
       THEN /\ todo' = Included[Head(todo).path] \o Tail(todo)
            /\ UNCHANGED <<given, parts, boot, options, pc, next, st, fstab, image, outdir>>
       ELSE todo' = Tail(todo) /\ Refuse

ParseBootloader ==
    /\ pc = "parse" /\ todo # <<>> /\ Head(todo).kind = "bootloader"
    /\ todo' = Tail(todo)
    /\ IF boot # <<>> THEN Refuse
       ELSE /\ boot' = <<Bootloader(Head(todo), APPEND)>>
            /\ UNCHANGED <<given, parts, options, pc, next, st, fstab, image, outdir>>

\* The boot partition's source is the boot loader's, unless the line says.
BootSource(b) ==
    LET at == {i \in DOMAIN parts : parts[i].mountpoint = "/boot"}
    IN  IF b.source # None \/ at = {} THEN b
        ELSE [b EXCEPT !.source = parts[Min(at)].source]

\* The end of the constructor.  A file without partitions has no parts[0].
Parsed ==
    /\ pc = "parse" /\ todo = <<>>
    /\ boot' = <<BootSource(IF boot = <<>> THEN DefaultBootloader ELSE boot[1])>>
    /\ IF parts = <<>>
       THEN pc' = "end" /\ st' = [st EXCEPT !.err = "IndexError"]
       ELSE pc' = "create" /\ UNCHANGED st
    /\ UNCHANGED <<todo, given, parts, options, next, fstab, image, outdir>>

-----------------------------------------------------------------------------
(* create.                                                                 *)

\* The number in the partition table, 0 for a partition outside of it.
Num(i) == IF parts[i].no_table THEN 0
          ELSE Cardinality({j \in 1..i : ~parts[j].no_table})

\* update_fstab: a line for every partition of the table that is mounted
\* elsewhere than on /, named by its file system's id, its label or its number.
FstabParts ==
    {i \in DOMAIN parts : /\ Num(i) # 0
                          /\ parts[i].mountpoint \notin {None, "/"}
                          /\ parts[i].mountpoint \in {"swap", "/boot", "/data"}}
FstabDevice(i) == CASE parts[i].use_uuid  -> "UUID"
                    [] parts[i].use_label -> "LABEL"
                    [] OTHER              -> "/dev"
FstabLines == {[dev |-> FstabDevice(i), part |-> i] : i \in FstabParts}

\* Only with an fstab in the tree of the ROOTFS_DIR connection, and that must
\* be a path.
FstabUpdated ==
    /\ ~options.no_fstab_update
    /\ RootfsDirs["ROOTFS_DIR"] \notin DOMAIN ImageSizes
    /\ HasFstab(Trees[RootfsDirs["ROOTFS_DIR"]].files)
    /\ FstabLines # {}

\* The size of a partition without one, when its connection names an image.
SizeFromImage(p) ==
    IF p.size = 0 /\ p.rootfs_dir \in DOMAIN RootfsDirs
         /\ RootfsDirs[p.rootfs_dir] \in DOMAIN ImageSizes
         /\ ImageSizes[RootfsDirs[p.rootfs_dir]] > 0
    THEN [p EXCEPT !.size = ImageSizes[RootfsDirs[p.rootfs_dir]]] ELSE p

BeginCreate ==
    /\ pc = "create"
    /\ fstab' = IF FstabUpdated THEN FstabLines ELSE None
    /\ parts' = [i \in DOMAIN parts |-> SizeFromImage(parts[i])]
    /\ pc' = "prepare" /\ next' = 1
    /\ UNCHANGED <<todo, given, boot, options, st, image, outdir>>

WithPart(p) == [work |-> st.work, hdd |-> st.hdd, err |-> st.err, tasks |-> st.tasks,
                staged |-> {}, part |-> p]

PreparePart ==
    /\ pc = "prepare" /\ next <= Len(parts)
    /\ LET after == Prepare(WithPart(parts[next]), boot[1], fstab # None)
       IN  /\ parts' = [parts EXCEPT ![next] = after.part]
           /\ st' = [work |-> after.work, hdd |-> after.hdd, err |-> after.err,
                     tasks |-> after.tasks, staged |-> after.staged]
           /\ pc' = IF after.err = None THEN "prepare" ELSE "cleanup"
    /\ next' = next + 1
    /\ UNCHANGED <<todo, given, boot, options, fstab, image, outdir>>

\* The empty image, and beside it the one whose boot sector becomes the hybrid
\* one; both are files of the work directory.
DiskFiles == {<<"direct">>} \cup (IF boot[1].ptable = "gpt-hybrid" THEN {<<"direct.mbr">>} ELSE {})
DiskFile == [by |-> 0, holds |-> {}, fstab |-> "none", kb |-> 0, uki |-> <<>>]
CreateImage ==
    /\ pc = "prepare" /\ next > Len(parts)
    /\ image' = [NoImage EXCEPT !.mbr = boot[1].ptable]
    /\ st' = [st EXCEPT !.work = [n \in DOMAIN @ \cup DiskFiles |->
                                     IF n \in DiskFiles THEN DiskFile ELSE @[n]]]
    /\ pc' = "assemble" /\ next' = 1
    /\ UNCHANGED <<todo, given, parts, boot, options, fstab, outdir>>

-----------------------------------------------------------------------------
(* assemble: the partition's file is copied and then renamed.              *)

Partimage(i) == <<"direct.p", Num(i)>>
\* Mutant: the partition's file is copied beside the image, not renamed.
Renamed_Copies(work, from, to) ==
    [n \in DOMAIN work \cup {to} |-> IF n = to THEN work[from] ELSE work[n]]

Renamed(work, from, to) ==
    [n \in (DOMAIN work \ {from}) \cup {to} |-> IF n = to THEN work[from] ELSE work[n]]

AssemblePart ==
    LET source == parts[next].source_file
    IN  /\ pc = "assemble" /\ next <= Len(parts)
        /\ next' = next + 1
        /\ IF source = <<>> THEN UNCHANGED <<image, st, pc>>
           ELSE IF source \notin DOMAIN st.work
           THEN /\ st' = Fail(st, "FileNotFoundError") /\ pc' = "cleanup"
                /\ UNCHANGED image
           ELSE /\ image' = [image EXCEPT !.at = [n \in DOMAIN @ \cup {next} |->
                                   IF n = next THEN st.work[source] ELSE @[n]]]
                /\ st' = [st EXCEPT !.work = Renamed(@, source, Partimage(next))]
                /\ UNCHANGED pc
        /\ UNCHANGED <<todo, given, parts, boot, options, fstab, outdir>>

\* do_install_disk and the compressor.
Finalize ==
    LET failed == InstallDisk(boot[1].source, boot[1].ptable)
    IN  /\ pc = "assemble" /\ next > Len(parts)
        /\ image' = IF failed = None /\ InstallsMbr(boot[1].source)
                    THEN [image EXCEPT !.mbr = "syslinux"] ELSE image
        /\ st' = IF failed # None THEN Fail(st, failed)
                 ELSE IF options.compress
                 THEN [st EXCEPT !.work = Renamed(@, <<"direct">>, <<"direct.gz">>)] ELSE st
        /\ pc' = "cleanup"
        /\ UNCHANGED <<todo, given, parts, boot, options, next, fstab, outdir>>

\* The finally clause: every file moves out, after a failure too.
Cleanup ==
    /\ pc = "cleanup"
    /\ outdir' = st.work
    /\ st' = [st EXCEPT !.work = Empty]
    /\ pc' = "end"
    /\ UNCHANGED <<todo, given, parts, boot, options, next, fstab, image>>

Next == \/ ParsePart \/ ParseInclude \/ ParseBootloader \/ Parsed
        \/ BeginCreate \/ PreparePart \/ CreateImage
        \/ AssemblePart \/ Finalize \/ Cleanup

Spec == Init /\ [][Next]_vars

-----------------------------------------------------------------------------
(* Properties.                                                             *)

Finished == pc = "end" /\ st.err = None

\* Every partition of a finished image holds the file system made for it
\* (direct.py:679-692, the names given by partition.py:146,231), and beside the
\* image lies a copy of it under the partition's number.
OwnContent ==
    Finished => \A i \in DOMAIN parts :
        /\ parts[i].source_file # <<>> => i \in DOMAIN image.at /\ image.at[i].by = i
        /\ i \in DOMAIN image.at /\ Num(i) # 0 =>
               Partimage(i) \in DOMAIN outdir /\ outdir[Partimage(i)] = image.at[i]

UncheckedSwap(p) == p.source = None /\ p.fstype = "swap" /\ p.fixed_size > 0

\* A root file system with an fstab is in the image with the new one, whatever
\* file system it is, and only without --no-fstab-update (partition.py:135-136,
\* 302-338, 411-412, rootfs.py:224-231).
FstabArrives ==
    Finished => \A i \in DOMAIN image.at :
        parts[i].source = "rootfs" /\ image.at[i].fstab # "none" =>
            (image.at[i].fstab = "new" <=> fstab # None /\ ~parts[i].no_fstab_update)

\* What is copied into a partition is no longer than the partition, the
\* assumption WicLayout makes of the source plugins (partition.py:202-206);
\* prepare returns before its check when there is none, so a --fixed-size swap
\* whose --rootfs-dir names an image is as large as that image (164).
ImageFits ==
    Finished => \A i \in DOMAIN image.at :
        UncheckedSwap(parts[i]) \/ image.at[i].kb <= DiskSize(parts[i])

\* A boot partition holds the files of its own list and its own loader's
\* configuration, though the list is kept in the plugin class
\* (bootimg-partition.py:82) between partitions.
OwnBootFiles ==
    Finished => \A i \in DOMAIN parts :
        parts[i].source = "bootimg-partition" =>
            /\ i \in DOMAIN image.at
            /\ LET key   == BootFilesKey(BootFiles, parts[i].uuid, parts[i].label, {})
                   tasks == InstallTask(BootFiles[key])
               IN  image.at[i].holds =
                     Installed(tasks) \cup
                       CASE parts[i].loader # "u-boot"  -> {}
                         [] parts[i].loader = "u-boot" /\ boot[1].configfile = None ->
                              {Extlinux(tasks)}
                         [] OTHER -> {BootFile("extlinux", "custom")}

\* Nothing of one partition is taken for another's.
OwnFiles == OwnContent /\ OwnBootFiles

\* The sections of a unified kernel in the image do not overlap
\* (bootimg-efi.py:341-366).
UkiSectionsApart ==
    \A i \in DOMAIN image.at :
        image.at[i].uki # <<>> =>
            Apart(image.at[i].uki, parts[i].uki.stub, parts[i].uki.align)
=============================================================================
