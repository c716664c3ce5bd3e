----------------------------- MODULE KickStart -----------------------------
(***************************************************************************)
(* What a kickstart (.wks) line means (scripts/lib/wic/ksparser.py): the   *)
(* option values that the parser converts and refuses, the checks between  *)
(* options that argparse cannot make, and the defaults it fills in.  Sizes *)
(* are whole numbers of kB.                                                *)
(*                                                                         *)
(* An option that was not given is None where the code can tell, and 0 or  *)
(* "" where the code's own default hides it; joined are the options that   *)
(* are written --option=value.  An overhead factor is in tenths, so that   *)
(* 13 is the default 1.3.                                                  *)
(***************************************************************************)
EXTENDS Integers, Sequences, FiniteSets

CONSTANT None

DEFAULT_EXTRA_SPACE == 10 * 1024
DEFAULT_OVERHEAD_FACTOR == 13

\* sizetype: a number and a unit suffix, the unit of the option when there is
\* none.  Sectors exist only for the options counted in bytes.
UnitFactor == [k |-> 1, K |-> 1, M |-> 1024, G |-> 1024 * 1024]
SizeType(arg, default, in_bytes) ==
    LET suffix == IF arg.suffix = "" THEN default ELSE arg.suffix
    IN  IF in_bytes /\ suffix \in {"s", "S"} THEN arg.num * 512
        ELSE IF suffix \in DOMAIN UnitFactor
        THEN arg.num * UnitFactor[suffix] * (IF in_bytes THEN 1024 ELSE 1)
        ELSE None

OverheadOk(tenths) == tenths >= 10
SystemIdOk(id) == id > 0 /\ id <= 255

\* The FAT serial number: eight digits, ten characters with its 0x.
FatUuidTooLong(p) ==
    p.fsuuid # None /\ p.fsuuid.digits + (IF p.fsuuid.hex THEN 2 ELSE 0)
                         > (IF p.fsuuid.hex THEN 10 ELSE 8)

\* What _parse refuses in a "part" line that argparse has let through; argparse
\* itself refuses --size together with --fixed-size and a bad value.
PartRefused(p) ==
    \/ p.overhead # None /\ ~OverheadOk(p.overhead)
    \/ p.system_id # None /\ ~SystemIdOk(p.system_id)
    \/ p.fstype = "squashfs" /\ (p.fsuuid # None \/ p.label # None)
    \/ p.fstype = "erofs" /\ p.label # None
    \/ p.fstype \in {"msdos", "vfat"} /\ FatUuidTooLong(p)
    \/ p.use_label /\ p.label = None
    \/ p.fixed_size > 0 /\ (p.overhead \notin {None, 0} \/ p.extra_space \notin {None, 0})

\* The defaults, filled in only without --fixed-size.  Whether an option was
\* given is looked up as a word of the line, so one written --option=value is
\* not found, and the default takes the place of its value.
Unset(p, option) == p[option] = None \/ option \in p.joined
WithDefaults(p) ==
    IF p.fixed_size > 0 THEN p
    ELSE [p EXCEPT
            !.overhead = IF Unset(p, "overhead") THEN DEFAULT_OVERHEAD_FACTOR ELSE @,
            !.extra_space = IF Unset(p, "extra_space") THEN DEFAULT_EXTRA_SPACE ELSE @]

\* A "part" line as argparse converts it, its size options in the unit M
\* unless the line says another; None when it refuses one.
SizeOptions == {"size", "fixed_size", "extra_space"}
SizeOf(arg) == IF arg = None THEN None ELSE SizeType(arg, "M", FALSE)
BadSize(line) == \E o \in SizeOptions : line[o] # None /\ SizeOf(line[o]) = None
Converted(line) ==
    [o \in DOMAIN line |-> IF o \in {"size", "fixed_size"} /\ line[o] = None THEN 0
                           ELSE IF o \in SizeOptions THEN SizeOf(line[o]) ELSE line[o]]
Refused(line) ==
    \/ BadSize(line) \/ (line.size # None /\ line.fixed_size # None)
    \/ PartRefused(Converted(line))

\* The bootloader line a file may have once: APPEND goes behind its own text.
Bootloader(line, append_var) ==
    [line EXCEPT !.append = SelectSeq(<<@, append_var>>, LAMBDA a : a # None)]
DefaultBootloader == [ptable |-> "msdos", source |-> None, append |-> None,
                      configfile |-> None, timeout |-> None]
=============================================================================
