------------------------------ MODULE UkiImage ------------------------------
(***************************************************************************)
(* The unified kernel image that bootimg-efi builds (do_prepare_partition, *)
(* scripts/lib/wic/plugins/source/bootimg-efi.py): objcopy adds the        *)
(* release, the command line, the kernel and the initial RAM disk to the   *)
(* EFI stub, each section at an aligned address behind the one before it.  *)
(* u holds the end of the stub, its SectionAlignment and the sizes.        *)
(***************************************************************************)
EXTENDS Integers

Uki == [stub : Nat, align : Nat \ {0}, osrel : Nat, cmdline : Nat, linux : Nat, initrd : Nat]

\* The next aligned address, a whole align further when off is aligned itself.
NextAligned(off, align) == off + align - (off % align)

osrel_off(u)   == NextAligned(u.stub, u.align)
cmdline_off(u) == NextAligned(osrel_off(u) + u.osrel, u.align)

\* Mutant: the kernel follows the command line unaligned.
linux_off_Unaligned(u) == cmdline_off(u) + u.cmdline

linux_off(u)   == NextAligned(cmdline_off(u) + u.cmdline, u.align)

initrd_off(u)  == NextAligned(linux_off(u) + u.linux, u.align)

Section(off, size) == [off |-> off, size |-> size]
Sections(u) == <<Section(osrel_off(u), u.osrel), Section(cmdline_off(u), u.cmdline),
                 Section(linux_off(u), u.linux), Section(initrd_off(u), u.initrd)>>

\* Every section starts at a multiple of the alignment, and behind the end of
\* the one before it: the firmware maps them by address.
Apart(sections, stub, align) ==
    \A k \in DOMAIN sections :
        /\ (sections[k].off % align) = 0
        /\ sections[k].off > (IF k = 1 THEN stub
                              ELSE sections[k - 1].off + sections[k - 1].size)
=============================================================================
