----------------------------- MODULE MCWicCreate -----------------------------
(* Instances of WicCreate for TLC: the kickstart files of the layer and of   *)
(* wic's canned ones, and all files of up to two lines from a small set.     *)
EXTENDS WicCreate, TLC

F(dir, name) == [dir |-> dir, name |-> name]
K(name, group) == [name |-> name, group |-> group]

MCTrees == [root  |-> {F("etc", "fstab"), F("boot", "Image"), F("usr", "sh"), F("sub", "a")},
            data  |-> {F("usr", "db")},
            other |-> {F("etc", "fstab"), F("usr", "sh")}]
TreeRecords == [t \in DOMAIN MCTrees |-> [files |-> MCTrees[t]]]
MCRootfsDirs == [ROOTFS_DIR |-> "root", rootfs2 |-> "other"]
MCImageSizes == [other |-> 40]

MCKernelDir == {K("Image", "Image"), K("soc.dtb", "dtb"), K("uImage", "uImage"),
                K("initrd", "initrd"), K("grub-efi-bootx64.efi", "grub-efi"),
                K("systemd-bootx64.efi", "systemd-boot"), K("entry.conf", "conf")}
E(src, dst) == [src |-> src, dst |-> dst, glob |-> FALSE]
G(group, dst) == [src |-> K("*", group), dst |-> dst, glob |-> TRUE]
MCBootFiles == (<<"plain">> :> <<E(K("uImage", "uImage"), "boot"), E(K("Image", "Image"), "boot"),
                                 G("dtb", "dtbs")>>)
               @@ (<<"label", "boot2">> :> <<G("dtb", "boot")>>)
               @@ (<<"label", "bad">> :> <<E(K("gone", "gone"), "boot")>>)
MCEfiBootFiles == (<<"plain">> :> <<E(K("soc.dtb", "dtb"), "boot")>>)
                  @@ (<<"label", "esp">> :> <<E(K("entry.conf", "conf"), "loader")>>)

S(num, suffix) == [num |-> num, suffix |-> suffix]
Plain == [kind |-> "part", lineno |-> 0, mountpoint |-> None, fstype |-> "vfat", source |-> None,
          label |-> None, uuid |-> None, size |-> None, fixed_size |-> None,
          extra_space |-> S(0, "k"), overhead |-> None, joined |-> {}, no_table |-> FALSE,
          rootfs_dir |-> None, include |-> {}, exclude |-> {}, change_dir |-> FALSE,
          no_fstab_update |-> FALSE, use_label |-> FALSE, use_uuid |-> FALSE, fsuuid |-> None,
          system_id |-> None, loader |-> None, unified |-> FALSE, no_kernel |-> FALSE,
          rootfs_uuid |-> None, initrd |-> {}, dtb |-> {}, uki |-> None,
          source_file |-> <<>>, has_fstab |-> FALSE, updated_fstab |-> FALSE,
          update_fstab_in_rootfs |-> FALSE]
Part(mountpoint, source, fstype) ==
    [Plain EXCEPT !.mountpoint = mountpoint, !.source = source, !.fstype = fstype]
Loader(ptable) == [kind |-> "bootloader", ptable |-> ptable, source |-> None, append |-> "rw",
                   configfile |-> None, timeout |-> 5]
Inc(path) == [kind |-> "include", path |-> path]

Rootfs == Part("/", "rootfs", "ext4")
BootPart == [Part("/boot", "bootimg-partition", "vfat") EXCEPT !.label = "boot"]
Esp(source, loader) == [Part("/boot", source, "vfat") EXCEPT !.label = "esp", !.loader = loader,
                          !.use_uuid = TRUE]
Unified(n) == [Esp("bootimg-efi", "systemd-boot") EXCEPT !.unified = TRUE,
                 !.initrd = {K("initrd", "initrd")},
                 !.uki = [stub |-> n, align |-> 4, osrel |-> 4, cmdline |-> 3, linux |-> 9,
                          initrd |-> n]]

\* The lines of which every file of up to two lines is tried.
Lines ==
    {Rootfs, BootPart, Esp("bootimg-efi", "grub-efi"),
     [Rootfs EXCEPT !.exclude = {"boot"}, !.label = "root", !.use_label = TRUE],
     [Part("/data", "rootfs", "btrfs") EXCEPT !.rootfs_dir = "rootfs2"],
     [Part("/data", "rootfs", "squashfs") EXCEPT !.use_uuid = TRUE],
     [Part("/data", "rootfs", "squashfs") EXCEPT !.fixed_size = S(20, "k")],
     [Part("/", "rootfs", "ext4") EXCEPT !.overhead = 15, !.no_fstab_update = TRUE],
     [Part("/boot", "rootfs", "vfat") EXCEPT !.change_dir = TRUE, !.fixed_size = S(60, "k")],
     [Part("/data", "rootfs", "msdos") EXCEPT !.include = {"data"}, !.size = S(90, "k")],
     [Part("/data", "rootfs", "erofs") EXCEPT !.rootfs_dir = "data"],
     [BootPart EXCEPT !.label = "boot2", !.loader = "u-boot"],
     [BootPart EXCEPT !.label = None, !.loader = "u-boot"],
     Unified(6), Loader("gpt"),
     [Part("swap", None, "swap") EXCEPT !.size = S(44, "k")],
     [Part("/data", None, "ext4") EXCEPT !.size = S(8, "K")],
     [Plain EXCEPT !.no_table = TRUE]}

\* Lines that are refused or fail, each behind a good one.
BadLines ==
    {[Rootfs EXCEPT !.size = S(4, "s")], [Rootfs EXCEPT !.overhead = 9],
     [Rootfs EXCEPT !.size = S(4, "M"), !.fixed_size = S(4, "M")],
     [Rootfs EXCEPT !.use_label = TRUE], [Rootfs EXCEPT !.system_id = 256],
     [Part("/", "rootfs", "squashfs") EXCEPT !.label = "root"],
     [Part("/", "rootfs", "vfat") EXCEPT !.fsuuid = [digits |-> 9, hex |-> FALSE]],
     [Rootfs EXCEPT !.fixed_size = S(8, "k")], [Rootfs EXCEPT !.rootfs_dir = "unknown"],
     [Rootfs EXCEPT !.fixed_size = S(99, "k"), !.extra_space = S(1, "k")],
     Part("/", "rootfs", "swap"), Part("/", "nowhere", "ext4"), Part("/data", None, "ext4"),
     [Part("/data", None, "squashfs") EXCEPT !.size = S(8, "k")],
     [Part("swap", None, "swap") EXCEPT !.fixed_size = S(8, "k")],
     [BootPart EXCEPT !.label = "bad"], Esp("bootimg-efi", "lilo"),
     Esp("bootimg-efi-amd", "systemd-boot"), Esp("bootimg-efi-amd", "uefi-kernel"),
     Inc("missing.wks.inc"),
     [Unified(3) EXCEPT !.dtb = {K("soc.dtb", "dtb")}]}

Swap == [Part("swap", None, "swap") EXCEPT !.size = S(44, "k")]
\* The layer's xilinx-default-sd and -efi, and wic's own files.
Shipped ==
    {<<[Part("/boot", "rootfs", "vfat") EXCEPT !.change_dir = TRUE, !.fixed_size = S(512, "M"),
          !.use_label = TRUE, !.label = "boot"],
       [Rootfs EXCEPT !.exclude = {"boot"}, !.use_label = TRUE, !.label = "root"]>>,
     <<[Esp("bootimg-efi", "systemd-boot") EXCEPT !.fixed_size = S(1, "G")],
       [Rootfs EXCEPT !.use_label = TRUE, !.label = "root", !.use_uuid = TRUE],
       Loader("gpt-hybrid")>>,
     <<[Esp("bootimg-efi", "systemd-boot") EXCEPT !.initrd = {K("initrd", "initrd")}],
       [Rootfs EXCEPT !.label = "platform", !.use_uuid = TRUE],
       [Swap EXCEPT !.use_uuid = TRUE], Loader("gpt")>>,
     <<Esp("bootimg-efi-amd", "grub-efi"), Rootfs, Loader("gpt")>>,
     <<[Esp("bootimg-efi-amd", "systemd-boot") EXCEPT !.rootfs_uuid = "uuid"], Rootfs,
       Loader("gpt")>>,
     <<BootPart, Rootfs, Loader("msdos"), Loader("msdos")>>,
     <<Unified(5), Inc("rootfs.wks.inc"), Loader("gpt")>>}
\* An extlinux.conf of the user's own, there or not.
Extlinuxes ==
    {<<[BootPart EXCEPT !.loader = "u-boot", !.label = None], Rootfs,
       [Loader("msdos") EXCEPT !.configfile = c]>> : c \in {"custom", "missing"}}
\* A size taken from the image a connection names.
ImageSized ==
    {<<[l EXCEPT !.rootfs_dir = "rootfs2", !.size = None, !.fixed_size = f], Rootfs>> :
        l \in {Part("/data", "rootfs", "ext4"), Swap}, f \in {None, S(8, "k"), S(99, "k")}}
MCIncluded == "rootfs.wks.inc" :> <<Rootfs>>

\* A boot loader named on the bootloader line.
Named(source, ptable) == [Loader(ptable) EXCEPT !.source = source]
Booted == {<<Rootfs, Named(s, p)>> : s \in {"bootimg-pcbios", "isoimage-isohybrid", "nowhere"},
                                     p \in {"gpt", "gpt-hybrid"}}

AllKickStarts ==
    UNION {[1..n -> Lines] : n \in 0..2} \cup {<<Rootfs, b>> : b \in BadLines}
      \cup Shipped \cup Booted \cup Extlinuxes \cup ImageSized
      \cup {<<BootPart, [BootPart EXCEPT !.label = "boot2"], l>> : l \in Lines}

AllOptions == [no_fstab_update : BOOLEAN, compress : BOOLEAN]
=============================================================================
