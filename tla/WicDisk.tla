------------------------------- MODULE WicDisk ------------------------------
(***************************************************************************)
(* wic ls, cp, rm and write on a finished disk image (wic/engine.py, class *)
(* Disk): a command copies the partition out of the image, lets mtools or  *)
(* debugfs work on the copy and puts it back.  Nothing locks the image, so *)
(* two commands may run at once.                                           *)
(*                                                                         *)
(* A file system is a function from paths (sequences of names) to contents,*)
(* Dir for a directory.  Sizes count sectors, Grain those sfdisk aligns to.*)
(***************************************************************************)
EXTENDS Integers, Sequences, FiniteSets, FiniteSetsExt, SequencesExt

CONSTANTS
    Tables,    \* partition tables: number -> [size, fs], in the order they lie
    Trees,     \* what a partition may hold
    Commands,  \* [kind, part, dir, name, base, rec, expand]
    Procs,
    Devices,   \* sectors of the medium wic write is given
    Used,      \* sectors a file system with a file in it cannot do without
    Grain,
    Dir, New, None

\* wic numbers the partitions of an image in the order in which they lie.
ASSUME TablesAssumption ==
    \A t \in Tables :
        /\ t \in Seq([num : Nat \ {0}, size : Nat, fs : {"ext", "fat", "swap", "raw"}])
        /\ \A i, j \in DOMAIN t : i < j => t[i].num < t[j].num

VARIABLES
    table,    \* sequence of [num, size, fs]
    image,    \* number -> file system
    device,
    cmd,      \* process -> command
    stage,    \* process -> "start", "table", "image", "tool", "put", "copy", "done" or "failed"
    cache,    \* process -> number -> file system: _partimages
    sizes,    \* process -> sizes of the target's partitions
    next,     \* process -> partition wic write is at
    target,   \* process -> what the medium's partitions hold: number -> file system
    serial,   \* ghost: the image, had each command run at one instant
    version,  \* ghost: number -> how often the partition was put back
    base,     \* ghost: process -> the version its copy was made of
    mixed     \* ghost: partitions put back over a change the copy did not have

diskVars == <<table, image, device, cmd, stage, cache, sizes, next, target, serial, version, base, mixed>>

Numbers == {table[i].num : i \in DOMAIN table}
Part(n) == table[CHOOSE i \in DOMAIN table : table[i].num = n]
IsExt(n) == Part(n).fs = "ext"
Supported(c, n) == Part(n).fs \in {"ext", "fat"} \cup (IF c.kind = "write" THEN {"swap"} ELSE {})

-----------------------------------------------------------------------------
(* What the tools do to a file system; fail when it is not a function.     *)

Exists(t, p) == p = <<>> \/ p \in DOMAIN t
IsDir(t, p) == p = <<>> \/ (p \in DOMAIN t /\ t[p] = Dir)
Below(t, p) == {q \in DOMAIN t : IsPrefix(p, q)}
With(t, p, x) == [q \in DOMAIN t \cup {p} |-> IF q = p THEN x ELSE t[q]]
Less(t, ps) == [q \in DOMAIN t \ ps |-> t[q]]

\* debugfs: cd and write.  A failed cd leaves it at the root, write never
\* replaces a file, the name is the source's, and no error reaches wic.
ExtWrite(t, c) ==
    LET p == (IF IsDir(t, c.dir) THEN c.dir ELSE <<>>) \o <<c.name>>
    IN  IF Exists(t, p) THEN t ELSE With(t, p, New)

\* mcopy: into a directory, or under the name given.
FatWrite(t, c) ==
    LET d == c.dir \o c.base
        p == IF IsDir(t, d) THEN d \o <<c.name>> ELSE d
    IN  IF IsDir(t, p) \/ ~IsDir(t, Front(p)) THEN None ELSE With(t, p, New)

\* remove_ext: directories are emptied first when asked for.
ExtRemove(t, c) ==
    LET p == c.dir \o <<c.name>>
    IN  IF p \notin DOMAIN t \/ (Below(t, p) # {p} /\ ~c.rec) THEN None ELSE Less(t, Below(t, p))

\* mdel; what it does not find or cannot delete is left to mdeltree.
FatRemove(t, c) ==
    LET p == c.dir \o <<c.name>>
    IN  IF p \notin DOMAIN t THEN None ELSE Less(t, Below(t, p))

\* The file system after a command, None if its tool fails.
After(c, t) ==
    CASE c.kind = "in" /\ IsExt(c.part)  -> ExtWrite(t, c)
      [] c.kind = "in" /\ ~IsExt(c.part) -> FatWrite(t, c)
      [] c.kind = "rm" /\ IsExt(c.part)  -> ExtRemove(t, c)
      [] c.kind = "rm" /\ ~IsExt(c.part) -> FatRemove(t, c)
      [] c.kind \in {"out", "ls"}        -> t

-----------------------------------------------------------------------------
DiskInit ==
    /\ table \in Tables /\ device \in Devices
    /\ image \in [Numbers -> Trees]
    /\ cmd \in [Procs -> Commands]
    /\ stage = [p \in Procs |-> "start"]
    /\ cache = [p \in Procs |-> <<>>]
    /\ sizes = [p \in Procs |-> <<>>] /\ next = [p \in Procs |-> 1]
    /\ target = [p \in Procs |-> <<>>]
    /\ serial = image /\ version = [n \in Numbers |-> 0]
    /\ base = [p \in Procs |-> 0] /\ mixed = {}

Fail(p) ==
    /\ stage' = [stage EXCEPT ![p] = "failed"]
    /\ UNCHANGED <<table, image, device, cmd, cache, sizes, next, target, serial, version, base, mixed>>

\* Disk(): the partitions are read; an unknown one ends the command.
OpenDisk(p) ==
    /\ stage[p] = "start"
    /\ IF cmd[p].kind # "write" /\ cmd[p].part \notin Numbers THEN Fail(p)
       ELSE /\ stage' = [stage EXCEPT ![p] = IF cmd[p].kind = "write" THEN "table" ELSE "image"]
            /\ UNCHANGED <<table, image, device, cmd, cache, sizes, next, target, serial, version, base, mixed>>

\* _get_part_image: one copy per partition and process.
GetPartImage(p) ==
    /\ stage[p] = "image"
    /\ LET n == cmd[p].part
       IN  IF ~Supported(cmd[p], n) THEN Fail(p)
           ELSE /\ cache' = [cache EXCEPT ![p] = With(@, n, image[n])]
                /\ base' = [base EXCEPT ![p] = version[n]]
                /\ stage' = [stage EXCEPT ![p] = "tool"]
                /\ UNCHANGED <<table, image, device, cmd, sizes, next, target, serial, version, mixed>>

\* Mutant: an error of the tool does not stop the command.
ToolFailed_Ignored(t) == FALSE

ToolFailed(t) == t = None

RunTool(p) ==
    /\ stage[p] = "tool"
    /\ LET n == cmd[p].part
           t == After(cmd[p], cache[p][n])
       IN  IF ToolFailed(t) THEN Fail(p)
           ELSE /\ cache' = [cache EXCEPT ![p][n] = t]
                /\ stage' = [stage EXCEPT ![p] = IF cmd[p].kind = "ls" THEN "done" ELSE "put"]
                /\ UNCHANGED <<table, image, device, cmd, sizes, next, target, serial, version, base, mixed>>

\* _put_part_image, after a copy out of the image as well.
PutPartImage(p) ==
    /\ stage[p] = "put"
    /\ LET n == cmd[p].part
       IN  /\ image' = [image EXCEPT ![n] = cache[p][n]]
           /\ serial' = [serial EXCEPT ![n] = IF After(cmd[p], @) = None THEN @ ELSE After(cmd[p], @)]
           /\ version' = [version EXCEPT ![n] = @ + 1]
           /\ mixed' = IF version[n] = base[p] THEN mixed ELSE mixed \cup {n}
    /\ stage' = [stage EXCEPT ![p] = "done"]
    /\ UNCHANGED <<table, device, cmd, cache, sizes, next, target, base>>

-----------------------------------------------------------------------------
(* wic write.  expand maps positions in the table to sizes, None copies    *)
(* the image as it is.                                                     *)

AlignUp(s) == ((s + Grain - 1) \div Grain) * Grain

\* Where sfdisk puts partitions of these sizes when no start is given.
StartsOf(ss) ==
    LET start[i \in 1..Len(ss)] ==
            IF i = 1 THEN Grain ELSE AlignUp(start[i - 1] + ss[i - 1])
    IN  [i \in 1..Len(ss) |-> start[i]]

EndOf(ss) == StartsOf(ss)[Len(ss)] + Last(ss)
FitsMedium(ss) == EndOf(ss) <= device
TableSizes == [i \in DOMAIN table |-> table[i].size]

\* Free space to whole grains, less what the given sizes take, in equal shares
\* for the rest; a partition given 0 stays.  Free may be less than nothing.
Resized(expand) ==
    LET room  == device - EndOf(TableSizes)
        given == {i \in DOMAIN expand \cap DOMAIN table : expand[i] # 0}
        auto  == DOMAIN table \ DOMAIN expand
        free  == room - (room % Grain)
                 - MapThenSumSet(LAMBDA i : expand[i] - table[i].size, given)
    IN  [i \in DOMAIN table |->
            IF i \in given THEN expand[i]
            ELSE IF i \in auto THEN table[i].size + free \div Cardinality(auto)
            ELSE table[i].size]

\* sfdisk takes no size that is not positive, and no table the medium is too small for.
WriteTable(p) ==
    /\ stage[p] = "table"
    /\ IF ~FitsMedium(TableSizes) THEN Fail(p)
       ELSE IF cmd[p].expand = None
            THEN /\ sizes' = [sizes EXCEPT ![p] = TableSizes]
                 /\ target' = [target EXCEPT ![p] = [n \in Numbers |-> [holds |-> image[n], size |-> Part(n).size]]]
                 /\ stage' = [stage EXCEPT ![p] = "done"]
                 /\ UNCHANGED <<table, image, device, cmd, cache, next, serial, version, base, mixed>>
       ELSE LET ss == Resized(cmd[p].expand)
            IN  IF ss \notin Seq(Nat \ {0}) \/ ~FitsMedium(ss) THEN Fail(p)
                ELSE /\ sizes' = [sizes EXCEPT ![p] = ss]
                     /\ stage' = [stage EXCEPT ![p] = "copy"]
                     /\ UNCHANGED <<table, image, device, cmd, cache, next, target, serial, version, base, mixed>>

TooSmall(t, s) == t # <<>> /\ s < Used

Unchanged(p, n) == sizes[p][n] = Part(n).size

\* What is written for partition n: [holds, size].  mkdosfs -C counts in KiB what
\* the table counts in sectors, so a FAT made anew believes to be twice as large.
NewContent(p, n) ==
    [holds |-> IF Part(n).fs = "swap" /\ ~Unchanged(p, n) THEN <<>> ELSE image[n],
     size  |-> IF Unchanged(p, n) THEN Part(n).size
               ELSE IF Part(n).fs = "fat" THEN 2 * sizes[p][n] ELSE sizes[p][n]]

\* The n-th entry of the new table is taken for partition number n; a partition of
\* an unknown kind cannot be copied, but is passed over when its size changed.
CopyPart(p) ==
    /\ stage[p] = "copy" /\ next[p] <= Len(table)
    /\ LET n == next[p]
       IN  IF n \notin Numbers THEN Fail(p)
           ELSE IF ~Supported(cmd[p], n)
                THEN IF Unchanged(p, n) THEN Fail(p)
                     ELSE /\ next' = [next EXCEPT ![p] = @ + 1]
                          /\ UNCHANGED <<table, image, device, cmd, stage, cache, sizes, target, serial, version, base, mixed>>
           ELSE IF ~Unchanged(p, n) /\ Part(n).fs # "swap" /\ TooSmall(image[n], sizes[p][n]) THEN Fail(p)
           ELSE /\ target' = [target EXCEPT ![p] = With(@, n, NewContent(p, n))]
                /\ cache' = [cache EXCEPT ![p] = With(@, n, image[n])]
                /\ next' = [next EXCEPT ![p] = @ + 1]
                /\ UNCHANGED <<table, image, device, cmd, stage, sizes, serial, version, base, mixed>>

EndWrite(p) ==
    /\ stage[p] = "copy" /\ next[p] > Len(table)
    /\ stage' = [stage EXCEPT ![p] = "done"]
    /\ UNCHANGED <<table, image, device, cmd, cache, sizes, next, target, serial, version, base, mixed>>

DiskNext ==
  \E p \in Procs :
    \/ OpenDisk(p) \/ GetPartImage(p) \/ RunTool(p) \/ PutPartImage(p)
    \/ WriteTable(p) \/ CopyPart(p) \/ EndWrite(p)

DiskSpec == DiskInit /\ [][DiskNext]_diskVars

-----------------------------------------------------------------------------
\* Every partition holds what the finished commands would have made of it one
\* after the other, in the order in which they put it back, unless two of them
\* had it out at the same time; a command that failed leaves no trace, and the
\* other partitions are as they were.
SerialUnlessRace == \A n \in Numbers \ mixed : image[n] = serial[n]

Position(n) == CHOOSE i \in DOMAIN table : table[i].num = n

\* When wic write has succeeded, every partition wic knows how to copy is on the
\* medium with the content it had when it was read, no larger than its room there
\* (but for a FAT made anew), and without reaching into the next.
WriteKeepsAll ==
    \A p \in Procs : stage[p] = "done" /\ cmd[p].kind = "write" =>
        /\ FitsMedium(sizes[p])
        /\ \A n \in Numbers : Supported(cmd[p], n) =>
               /\ n \in DOMAIN target[p]
               /\ cmd[p].expand # None /\ target[p][n].holds # cache[p][n] => Part(n).fs = "swap"
               /\ \/ target[p][n].size <= sizes[p][Position(n)]
                  \/ Part(n).fs = "fat" /\ sizes[p][Position(n)] # Part(n).size

\* What a user of wic cp, rm and write relies on.
DiskSound == SerialUnlessRace /\ WriteKeepsAll
=============================================================================
