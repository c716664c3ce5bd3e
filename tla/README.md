# Formal models of the programs in meta-xilinx

meta-xilinx is a set of Yocto layers: most of its 3150 files are recipes,
machine configuration, patches and device data, and what runs is a small number
of programs. This directory models the ones that keep state, share it, or
compute something that is hard to test, checks the models with TLC on small
instances, and proves the most important results with TLAPS for all instances.

| Part of the repository | Modules | Proofs |
|---|---|---|
| `fcntl-lock.c` (util-linux recipe) | `FcntlLock`, abstract `LockService` | `FcntlLock_proofs` |
| wic's direct imager, places and tables (`direct.py`) | `WicLayout` | `WicLayout_proofs` |
| `wic create`: parser, partitions, source plugins, work directory | `WicCreate` over `KickStart`, `WicSources`, `UkiImage` | `WicCreate_proofs` |
| `filemap.py` and `sparse_copy` | `SparseCopy` | `SparseCopy_proofs` |
| `wic ls/cp/rm/write` on a finished image (`engine.py`) | `WicDisk` | `SparseCopy_proofs` |
| `fpgautil.c` (fpga-manager-script) | `FpgaUtil` | `FpgaUtil_proofs` |
| `amd-spi-image.bbclass` | `SpiImage` | `FlashTools_proofs` |
| `update-fpga.py` | `UpdateFpga` | `FlashTools_proofs` |
| `lib/oe/package.py` | `OePackage` (strip to dependencies), `OePerms` (fixup_perms) | `OePackage_proofs` (the former) |
| `lib/oe/patch.py` | `OePatch` | `OeLibrary_proofs` |
| `lib/oe/recipeutils.py` | `OeRecipe` (patch_recipe), `OeAppend` (bbappend_recipe) | |
| `lib/oe/sstatesig.py` | `OeSstateSig` (locked signatures), `OeOuthash` (output hash) | `OeLibrary_proofs` |
| `lib/oe/buildhistory_analysis.py` | `OeHistory` | `OeLibrary_proofs` |
| `lib/oe/utils.py`, multiprocess_launch | `OeLaunch`, abstract `WorkPool` | `OeLibrary_proofs` |
| `lib/oe/path.py`, `cachedpath.py`, realpath | `OeRealpath` | |

`MC<module>` modules give TLC its instances and the `.cfg` files choose among
them. `MCBuildTools` runs thirteen tools together: it extends the SPI image,
`SparseCopy`, `WicDisk`, `UpdateFpga`, `OeSstateSig`, `OePatch`, `OeOuthash`,
`OeHistory` and `OePackage`, about which theorems are proved, and instances the others, whose input
sets are in `<module>Cases` modules. `PROJECT.json` lists the
runs, for every definition the source lines it models, for every checked property
a mutated definition that breaks it, the hazards of the code, the findings and the
theorems. Definitions named `X_Something`, commented "Mutant:", are mutated forms
of `X`; no specification uses them.

## Inventory

For each part: its state and operations, what makes it hard, what makes it right.

**fcntl-lock.** The descriptor of the lock file, the process's POSIX lock,
ITIMER_REAL and the SIGALRM handler, `timeout_expired`, the child. Invocations
interact through the kernel's lock table. Hard: the alarm can come at any point;
a POSIX lock falls with any close in its owner; exit statuses must tell the
command's from the program's. Right: commands exclude each other, 0 means the
command succeeded, `-n` never sleeps, `-w` ends the wait, nobody dies of the alarm.

**wic layout.** Partitions with start, size and number, the running offset, the
slots used, the extended partition's size. Hard: two numberings that must agree,
alignment, EBRs, sector sizes other than 512. Right: disjoint partitions on a
disk that holds them, aligned as asked, in a table of at most four slots, with
images copied to their own place.

**wic create.** The parsed lines; the work directory and the staging directory
`hdd/boot`, both shared by the partitions; an attribute of a plugin *class*; the
output directory. Hard: files named by what a line says and not by its number,
an fstab edited in the tree or in the finished file system, sizes settled by four
options. Right: every partition holds what its own line asked for, and no more
than fits.

**sparse_copy.** Block maps from FIEMAP, SEEK_HOLE or neither. Hard: bounded
answers cut anywhere, blocks behind the end, skip, seek and length at chunk and
file boundaries. Right: the target reads like the source, and nothing beside the
window changes.

**wic on existing images.** A partition is copied out, worked on by mtools or
debugfs, and copied back; nothing is locked. Hard: two commands at once, a tool
that fails on the copy, a kill, growing a partition table onto a larger medium.
Right: each partition is what the finished commands make of it.

**fpgautil.** No state of its own: the FPGA manager's registers in sysfs, overlay
folders in configfs, `/lib/firmware`, and `state.txt` in the current directory.
Hard: no lock is taken, every step is a `system()` call that may fail unnoticed.
Right: the report is true as far as no failed command bears it, nothing is left
behind, an overlay in place stays, and invocations that overlap mix up only each
other's values.

**SPI image.** The component list with `max_size` and `size`, the image buffer,
the manifest. Hard: components at several offsets, a manifest embedded in the
image it describes, digests over what is written later. Right: no component
damages another, the manifest is true, the digest covers the content.

**update-fpga.** Work copies, outputs and tool files that survive a run. Hard:
every external tool may fail, silently too; an early return of None means two
things to `main()`. Right: exit 0 means outputs of this run from fresh artifacts.

**Packaging.** The installed tree with hard and symbolic links, the packages'
file lists, the permission tables. Hard: parallel strip processes over hard
links; the order of PACKAGES decides; directories replaced by links while paths
are still to be processed; cached answers about links. Right: a binary is
stripped once and its debug data found, dependencies follow files, no file
vanishes from its path, the last line of a permission table decides.

**Patching.** The tree, the series the tool records, copies in the work
directory, with git HEAD and an `am` in progress, with quilt its own list. Hard:
the task may die between any two of them and is run again; git's four ways to
apply a patch, each over what the one before left.
Right: success means all patches, once, in order; failure means a bad patch.

**Recipe and append editing.** The lines of a class, an include file and a
recipe, or of a bbappend. Hard: a value made of several lines in several files;
data parsed before the last call. Right: the value asked for, nothing else
changed; the build finds the files it was handed.

**Signatures and hashes.** Locked tasks, the recipes unlocked so far; the walk
of an output tree. Hard: decisions depend on the order of hashing; equal outputs
on different hosts. Right: locks reproduce hashes and hide no change; two outputs
hash equally exactly if nothing that matters differs.

**Build history.** Two revisions and the report on them. Hard: additions are
paired with removals to tell moves, and what a move covers is no longer told.
Right: whatever came or went is found in the report.

**multiprocess_launch.** The list of processes, a pipe for each. Hard: children
end, die, or block on a full pipe while the parent polls and edits the list it is
looping over. Right: no result or error is lost, never more than the limit, and
the call returns.

`components` in `PROJECT.json` names every other part, with the reason it is not
modelled; see also *Not modelled* below.

## The models

**FcntlLock, LockService.** One process per invocation; `pc[p]` is the place in
`main`, one action per system call: `Open`, `SetHandler`, `SetTimer`, `Fcntl` and
`Interrupted` (the EINTR loop), `CancelTimer`, `RestoreHandler`, `Fork`,
`ChildExec`, `Wait`. The kernel is `locks`, `timer`, `sigalrm` (`SA_RESETHAND`)
with `Granted` and `Alarm`; `OtherSignal`, `NoLocks`, `OpenFails`, `ForkFails` are
errors, `CommandEnds` and `Kill` the environment. Usage errors, which exit before
anything is opened, are left out. `LockService` is what a user is promised, a
readers-writers lock kept to the invocation's end; the refinement mapping reads
the phase from `pc` and the lock held from the kernel's table.

**WicLayout.** One action per turn of each loop: `LayoutPartition` (or
`LayoutFails`), `CreatePartition` for one `mkpart`, `InstallPartition` for one
copy, and the steps between the loops. The arithmetic is the code's, in sectors.
parted and sfdisk are recorded as requests (`table`, `mbr`).

**WicCreate, KickStart, WicSources, UkiImage.** `KickStart` says what a line
means or why it is refused. `WicSources` is `Partition.prepare` and the plugins
as operators on a record of everything a preparation works on. `WicCreate` is
the state machine: parse a line, prepare a partition, copy it, rename and move
the work directory's files. The image is the sequence of contents; their places
are `WicLayout`'s matter, and `ImageFits` is what `WicLayout` assumes
(`ImageAssumption`).

**SparseCopy.** Bytes carry where they come from. The block map is a generator
that the copy loop draws ranges from, and so is the model: `pos` is where the map
has come to, `batch` the extents of the last FIEMAP answer that are not taken
yet, `prev` the range they are merged into, `ended` that the generator is done.
`AskFiemap`, `TakeExtent`, `FiemapEnd` are `filemap.py`'s FIEMAP loops,
`SeekRange`, `SeekEnd` those of lseek, `NobmapRange` the fallback; a range taken
is then copied by `CopyChunk`, one action per chunk. `Open` makes a new target in
its final size, `Finish` is the end of the generator.

**WicDisk.** One action per external command, with the files a process holds;
a process may be killed between any two.

**FpgaUtil.** One action per `system()` call or block of calls that nothing else
can see in part. The program ignores what `system()` returns, so each command of
an invocation in `Fallible` may also fail: it leaves the register, the folder or
the file as it was (a `cp` may leave half a file, "cut", a `cat` an empty
`state.txt`), and main goes on. `slips[j]` is a history of which did, for the
properties to speak of. `stateTxt[d]` is the first line of `d/state.txt`, all
that `fgets` looks at; an empty file leaves its buffer uninitialised, so the
verdict is then either. The kernel is external: a path write is taken once, may
be rejected before or after the load it asks for. Left out are `mkdir -p
/lib/firmware` and the mount of configfs (357, 373), which are there on a running
board, and the readback's kind and file (`-t`, `-p`), which are read and lead
nowhere near the loader's state. What the properties say of an invocation whose
commands fail:
`ReportTruthful` names the commands the two messages stand and fall with
(`SuccessRests`, `FailureRests`; with a `cat` that failed, fpgautil reads nothing
or another's line); all others may fail, and then the image is still programmed,
with a wrong flag, key or file only where the `echo` or `cp` for it failed.
`OverlapContained` bounds what running without a lock can do: flags, key and
image of a load come from an invocation that ran with it, never from an older
one.

**SpiImage.** A byte of the image is the component and position it comes from,
so that every overwriting shows. A generator's output is its length.

**UpdateFpga, OePackage, OePerms, OePatch, OeRecipe, OeAppend, OeSstateSig,
OeOuthash, OeHistory, OeRealpath.** Each is one state machine whose steps are the
functions of the file or the turns of their loops; the headers say what a path,
a line, a hash or a tree is reduced to. In `OePatch`, `should_apply`'s limits are
compared with the recipe's `Facts`; a patch's way with git is one action for each
thing `_applypatch` tries: `GitDirty` (straight to patch where a subpath leaves
the tree dirty), `GitAm`, `GitAbort` (am --abort, reset, clean), `GitApply`
(whose `--git-dir` names no repository, so that it takes the tree as it is),
then `ApplyPatch` and `GitCommit`; `GitRevert`, `GitUnapply`, `GitUnpatch`,
`GitUncommit` are the same for a patch that Clean takes off. What an am or a user
leaves of a patch that does not fit is one mark in the tree, "rejects". quilt
fails to pop when nothing is applied, and the series then stays (`StaleSeries`,
`CleanQuilt`); it may refuse a series that has a name twice (`Repeats`). Not told
apart are an interruption of `git init` before the first commit, and of
`_commitpatch` between `git add` and `git reset`. External programs (updatemem, bootgen,
strip, objcopy, patch, git, quilt, mtools, the kernel's `stat`) are modelled from
how the code uses them and marked external in the map.

**OeLaunch, WorkPool.** Parent and children step independently; `pipe[i]` holds
nothing, a part of a message or the whole of it; the loop over the list of
processes keeps Python's index, so that removing an element passes one over.
`WorkPool` is what a caller counts on: each item started once, never more than
the limit, all results or the failure.

## The runs

| Run | Shows | Bounds |
|---|---|---|
| `FcntlLock` | exclusion, statuses, the alarm, `LockService`, every timed sleep ends, every invocation ends if its fellows do | two invocations, eight option sets, one may be killed |
| `FcntlLockTimeout` (violation) | `-w` may wait for ever | two invocations |
| `WicLayout` | disjoint, long enough, aligned, numbers and table, extended partition, copies | all files of up to 5 partitions of five kinds, some with six or with refused options; three table formats; sectors of 4096 |
| `WicExtended` (violation) | the extended partition misses gaps | six partitions |
| `WicNumbers` (violation) | `--type logical` breaks `realnum` | three partitions |
| `WicCreate` | own content, fstab, sizes, unified kernels | all files of up to two of eighteen lines, the shipped ones, lines that are refused or fail, an extlinux.conf of the user's own, trees sized by their image's name |
| `FpgaUtil` | truthful reports, overlaps contained, overlay verdicts, clean-up, overlays kept | two invocations, ten commands, two directories, one may be killed, one command of the other may fail |
| `FpgaFalseLoad` (violation) | "loaded" without a load | two loads |
| `OeLaunch` | `WorkPool` implemented, the call returns | three items, two processes, one child that may die |
| `BuildTools` | one property or two of each of thirteen tools | below |
| `UpdateFpgaPdi` (violation) | exit 0 without the `.pdi` | two runs |
| `OeRecipeInc` (violation) | a value lost between include file and recipe | two calls |

`BuildTools` composes tools that share no state: a behaviour picks a tool, runs
its specification and keeps the others' variables still, so its state space (some
713000 states) is the union of theirs and each property speaks of one tool. Their
bounds:

| Tool | Bounds |
|---|---|
| SPI image | three components, six bytes, one or two offsets each |
| sparse_copy | files of 0 and 7 bytes in blocks of 2 and 4, every mapped set, none or two extent boundaries, two extents per answer, chunks of 3 |
| WicDisk | two commands at once, a process that may die, three tables, media with little or much room |
| UpdateFpga | two runs, every command line of up to two tokens and some of six, every shape of artifacts |
| OePackage | two hard-linked binaries, a library with links, every option; two workers |
| OePerms | eight packages, tables of up to two of eleven lines or three of four, two default directories |
| OePatch | three patches of every mix of kinds, two behind an entry with a subpath, entries that are no patches or out of each limit; each tool and resolver, three starts of the task |
| OeRecipe | one line in the include file and up to two in the recipe, two calls |
| OeAppend | two files, with and without parameters, two machines, two calls; a new file or one with a line or two |
| OeSstateSig | five recipes in a chain and a fork, one reached through another task only, rules, one or two multiconfigs |
| OeOuthash | a small tree and one with a change of every kind, two hosts |
| OeHistory | two packages, images with versioned files and directories |
| OeRealpath | 75 trees of links, three steps of asking and changing |

Why the bounds are enough. Lock conflicts and the races of an alarm with a grant
are between two processes. Six partitions use the four slots, open the extended
partition and put a second logical one in it; 4096-byte sectors make kB and
sectors differ in the direction that rounds. Two invocations give every
interleaving of one with another, and one that finds what a killed one left;
that only one may be killed and any one command of the other fail (`Fallible`,
`MaxSlips`) loses no pair of the two, since the invocations get the same command
lines, and two failures of one are for the proof, which has any number. The two
directories are interchangeable, hence the symmetry in that run.
Three items and two places make the pool full, and let the loop pass one over.
A second run, call or start meets the state the first left; a third meets what a
repeated failure leaves. Every input set is listed in its module. Bounded
counters are constants: `MaxRuns`, `MaxSlips`, `MaxStarts`, `MaxCalls`, `MaxBuilds`, `MaxSteps` (how often
a tool is started), `Hops` and `LoopCount` (links followed). Programs end by
themselves, which is why deadlock is not an error.

**Conditions in properties.** Some properties hold under a condition that names
the inputs for which the code is right, stated and commented where it is used:
`ContiguousLogicalsHeld` and `NumbersAgree` beside the two violated forms;
`ReportTruthful` for an invocation of fpgautil that runs alone without a stale
`state.txt`, loading the image of its overlay, and whose few commands that bear
the message did not fail; `OverlayVerdict` for one whose rivals use other
directories and regions and whose `mkdir` and `cat` work; `VerdictEarned`'s first
half, with git and a subpath, for starts after none died between two writes
(`Sound`); `CommandsExclude` without commands
whose fcntl-lock was killed; `DigestCovers` without other sha256 components;
`RealpathTrue` for links without `x/..`; `PermsFixed` where no link's target lies
behind a link and, for modes, where no path is named twice or no line walks;
`ImageFits` without swap partitions that have both a `--fixed-size` and the size
of an image (`UncheckedSwap`). What
lies outside the conditions is under *Known issues*.

**Fairness.** Only `FcntlLock`, `FcntlLockTimeout` and `OeLaunch` use it
(`FairSpec`). In `FcntlLock` each process's own steps, the child up to its exec,
the kernel's grant and the delivery of a running timer are weakly fair: the
scheduler runs runnable processes, the kernel wakes a waiter whose lock stays
free, an itimer expires. Failures, other signals, kills and the end of a command
are not fair: a command may run for ever, and `EveryoneEnds` has the end of
commands as its hypothesis. In `OeLaunch` the parent and each child are weakly
fair; a child's death is not, and a child that died with half a message sent is
the one exception `LaunchReturns` makes.

**Findings.** Six violation runs show disagreements of the code with its own
usage text, comments, docstrings or messages; `findings` quotes them: the alarm
of `-w` can be lost before `fcntl` sleeps; the extended partition is too short
when there is a gap between logical ones; `realnum` ignores `--type logical`;
fpgautil reports a load from the manager's global state; update-fpga exits 0
without the `.pdi`; patch_recipe loses a list value split between files.

## The proofs

All theorems hold for every value of the constants that meets the `ASSUME`s beside them,
which TLC evaluates in the runs.

- **FcntlLock_proofs.** `LockInv`: the kernel's table is compatible at every
  moment, and whoever has a command under way holds what it asked for; exclusion
  alone is not inductive, since it says nothing of a lock lost by a close.
  `TimerInv` ties the timer to the places where the handler is installed, hence
  `AlarmHandled`. `StatusTold` (`StatusTruthful`) needs a local invariant only:
  `StatusIsLocal` shows that others' steps do not touch what a status is judged
  by. `Refinement` maps each action to `Grant`, `Bypass`, `Leave` or a stutter.
- **WicLayout_proofs.** `LayoutInv` adds to typing that every partition ends
  before the running offset and starts behind the one before it; `NoOverlap` and
  `DiskLongEnough` follow. `DetailInv`, proved from it, adds that sizes are the
  lines' in sectors and that copies go by the layout: `AlignedAlways` (the
  arithmetic of multiples is in `PlaceAligned`) and `CopiesKeptApart`, which uses
  `ImageAssumption`.
  `NumbersInv` counts: how many of the partitions so far are in the table, which
  slots are taken, and that the extended partition's size, added up, reaches the
  running offset as long as the logical ones have no gap. `EntriesInv` says what
  parted was asked for is those partitions, in order, with the extended one
  before its first. With both follow `TableSound` (at most four primary entries,
  no number twice, hybrid entries apart, numbers that agree with fstab's) and
  `ExtendedLongEnough`.
- **FlashTools_proofs**, the SPI image: `IInv` keeps what `spi_parse_layout` established together
  with "what is written is no longer than its room". `RegionsApart` shows that a
  byte lies behind one offset only, `PutCorrect` what one write does;
  `TypeCorrect` says the image never grows, `NothingOverwritten` that nothing is
  damaged. `GeneratedInv` adds how far the loop is, what the manifest was made
  of, and that each byte is the component's whose room it lies in; it gives
  `ImageDescribesItself`: manifest and digests are true of the finished image.
- **FlashTools_proofs**, update-fpga: `RunInv` says what a run has made at each
  step if no tool was silent about a failure: the work copy is fresh until the
  updated `.rcdo` goes back into it, the output is this run's own, and a run that
  got past its command line knows its files (`FilesAsSaid`). That lemma is the
  hard part: `From` maps each word `preprocess_argv` keeps to its place on the
  command line, in order, with nothing but an `--offset` left out between two;
  `TurnKeeps` shows that each turn of the loop extends the map, `Preprocessed`
  that the loop gets to the end, and argparse's nargs then take the word the user
  gave right after each file. `ExitZeroIsTrue` follows, for any command lines
  that are lists of words (`ArgvsAssumption`), any artifacts and number of runs.
- **FpgaUtil_proofs.** `SharedInv` says of any number of invocations which copy
  in `/lib/firmware` and which `state.txt` each still has to remove, or failed to
  (`NothingLeftBehind`); `OverlaysStay` is the action property that only a `-R`
  for its region takes an overlay out. `ApartInv` adds what an invocation finds
  unchanged while no other works in its directory and region, hence
  `VerdictRight`; `AloneInv` what one that runs alone has asked of the kernel and
  got, or which of its commands failed, hence `ReportIsTrue`. `OverlapBounded` says
  of the registers and files that each was last set by one who ran with whoever
  reads it, or by nobody since that one's own command failed. That the option loop, a recursive function, leaves
  sensible locals (`AllRead`) is shown with the least number principle.
- **SparseCopy_proofs**, the sparse copy: `CopyInv`: every data byte of the window is copied, or in
  the range under way, or still ahead in the map, and what is ahead lies behind
  that range; what the target holds is the source's, or what it held before.
  The merging of extents is right because no extent lies between two of a batch,
  and the next answer begins where the last one was left (`MapSound`).
  `NothingLost` states the invariant, `CopiesExactly` what a finished copy is, for
  all three ways to read the map, any extents, block sizes, windows and bounds on
  an answer.
- **SparseCopy_proofs**, wic on existing images: `DiskInv`: a partition that a command has out is as it is in
  the image, or what the command makes of that, unless another command put it
  back meanwhile; `wic write` has delivered every partition up to the one it is
  at. `CommandsKeepPartitions` follows. It rests on `TablesAssumption`, that
  numbers grow along the table, as wic writes it: then numbers without a gap are
  positions (`NumbersArePositions`), and `wic write`, which takes a number for a
  place, copies to the right one.
- **WicCreate_proofs.** `CreateInv` has a part for each stage. `Typed` and
  `Parsing`: which lines can still come and what a parsed one looks like.
  `Preparing`: every prepared partition's file is in the work directory and is
  *mine*: made for this line, or by a later swap partition that took the one name
  all of them have. `Prepared` and `Assembling`: whose each file is while the
  image is filled in order and every file filled is renamed to its partition's
  number, so that the first of two swap partitions takes the file away and the
  second ends the run. `Complete`: the image has what each line asked for.
  The four properties follow (`EachItsOwn`, `NewFstabArrives`, `FilesFit`,
  `UkiSectionsStayApart`). What the plugins do is one lemma each: from what
  configuring stages (`ConfigureDoes`) over what every source puts in its file to
  `PrepareSupplies`, which is all the lemmas about the actions use. For unified
  kernels `SectionsNeverOverlap` is the arithmetic of alignment, for all sizes.
  Assumed are what the lines and lists of files are made of (`WksAssumption`,
  `BootFilesAssumption`), finite trees (`FilesAssumption`) and that an option not
  given differs from every value (`NoneAssumption`). The files that
  `--include-path` names exist, since `wic` ends where one does not.
- **OeLibrary_proofs**, multiprocess_launch: `IInv`: what a child and its pipe may say at each stage,
  who is in the list of processes, and where each item is. Its delicate part is
  the list the loop edits (`WithoutOne`, `AtWithout`). `LaunchImplementsPool`:
  for any items, limit and deaths, each step is one of the pool's or none.
- **OeLibrary_proofs**, locked signatures: `SigInv` says what a lock in use
  stands for: the hash the first build dumped, and below it, within the
  multiconfig, only tasks with locks in use. It needs no assumption on the graph
  of tasks, nor on the order in which they are hashed. `LocksAreSound` has what
  follows for the user (`NoStaleLock`, `LocksReproduce`). The proof decided how
  `LocksReproduce` must be put: a recipe comes to be unlocked through any of its
  tasks, so what an unlocked recipe can reach is counted by recipes
  (`SetApart`); by tasks, as the property first said, it is false.
- **OeLibrary_proofs**, do_patch: `PatchInv` has one part for each thing that
  must keep step. `TreeInv`: what patch and git leave in the tree is a first part
  of what is to be applied (`IsStart`), at every step and after every
  interruption, because a patch that is in already is not applied again and only
  the top one comes off; "rejects" are on top of it only where an am is to be
  aborted. `HeadInv`: HEAD keeps up with the loop, so that the reset after a
  failed am takes nothing back, and the first patch of a start aborts what an
  earlier start left of one. `SeriesInv`: unless a start died between a patch
  and its record, the series tells what is in the tree. `CommitsInv`: in a first
  start with git each patch has its commit and each commit its note. `QuiltInv`:
  quilt's list is the tree's, unless the user forced a patch in, and lines an
  earlier start left in the series (`StaleSeries`) are all of the first patch, so
  that the loop does not get past the second. `PatchVerdict`
  follows for any SRC_URI, any number of starts and any place of interruption.
  Assumed is that no two entries have one name (`UrlsAssumption`), the name being
  what the series, the copies and the notes know a patch by.
- **OeLibrary_proofs**, output hash: `HashInv` says that each build came to where
  it is by a walk (`Walked`): a history of directories left and lines fed, each
  from the one before. Along it whatever shows of the tree is fed or lies under a
  directory left (`Told`; `Below` is what one directory does to that), and only
  lines of the tree are fed. From this follows that equal output tells equal
  trees (`OutputTells`). The other way, two walks over trees that agree in what
  matters go in step (`SameWay`), because a directory gives both the same names
  (`AlikeSteps`) in the same order (`InOrderHolds`), whatever the file systems
  list. `HashIsTheOutput` joins them, for any trees, names, options and
  interleaving. Assumed is that paths are made of names and lead through
  directories (`NameOrderAssumption`, `TreesAssumption`, `RootAssumption`).
- **OeLibrary_proofs**, build history: a report told is of the two revisions as
  they are (`HistoryInv`), so the rest is about one report. `Pairing` is the
  invariant of the loop that looks for moves: a file that came is still listed, or
  is covered by a move whose old name is one that went, and the other way round;
  each turn takes files off the two lists in pairs (`PairUpKeeps`). That needs
  `CommonDirIsFirst`, that a path begins with the directory found for it, and
  `RenamedBack`, that a renamed path gets its name back when its directory does.
  Of a package, only directories that came or went are taken for renamed
  (`RenamedDirsGone`), so nothing is hidden in those both revisions have.
  `HistoryIsTold` follows for any revisions, names and order of paths. Assumed
  (`HistoryAssumption`) is that paths are sequences of tokens and in the list
  the build goes through, and that a package has finitely many files.
- **OePackage_proofs**, do_package: `PackInv` says what each step leaves to the
  next. `TreeKept`: until fixup_perms the tree is what was installed, plus debug halves and links
  in `.debug` directories that belong to a file of the tree. `GroupsHold` and
  `InodesHold`: there is one file to strip for every inode, the others of its
  group are its hard links, and once its links are broken an inode is in no other
  group; so no two workers meet (`StripsHold`), in whatever order they are
  started. `HalvesHold` and `DebugLies`: the debug half lies where each link of
  the binary looks for it, first beside the file, then wherever fixup_perms moves
  the directory, which takes the `.debug` directory along. `FilesHold`: the
  packages' lists share no file, and what they hold is of the tree. `DependsHold`:
  what a library, a link or a module made a package depend on is in `.shlibdeps`
  and `.pcdeps` or in RDEPENDS already, and no later step takes it out.
  `BinariesAreKept` and `DepsAreFollowed` follow for any recipe and any number of
  workers. The lists of packages are built by a recursive function (`Once`), whose
  result `OnceHolds` describes: the elements asked for, each once. Assumed
  (`PackAssumption`) is that nothing is installed into a `.debug` directory and no
  path is both file and directory, that hard links have the same contents, and
  that `fs-perms.txt` makes each directory, and each target, part of one link
  only; chains of such links are `OePerms`'s matter.

- **OePackage_proofs**, bbappend_recipe: two descriptions carry the proof. `Tells`
  is what the lines prepared for a call hold after each of its files; `TurnIs` is
  what edit_metadata has after each line of the file: which lines are still to be
  added (those whose name was not met), which words stay, come and go, and that
  the directory is the one named last (`LastDir`). Both loops are recursive
  functions, described by the least number principle (`TurnsExist`,
  `EditAllHolds`). `CallHolds` joins them into what a call does to the words of
  each variable. `AppendInv` then needs three things that one call's outcome does
  not say: `KnownIn`, that a word the recipe data hold, and a call therefore does
  not add, is still written, or a word of that file which the data do not know
  yet is in its place; `InsteadIn`, that what an edited recipe removes for a
  machine was replaced by another word of that file; `CopiesLie`, that all copies
  lie in the directory the file names last, so that a build finds no other copy.
  `AppendIsDelivered` follows for any file to edit, any calls, machines and order
  of parsing. Assumed (`AppendAssumption`) is that a call gets each file once;
  that what one call is to remove no call is given, since with old data a file
  removed and handed in again is taken for listed and lost; and that at the start
  an edited recipe has no `:remove` line and a layer's file at most one for each
  machine, which is as many as bbappend_recipe itself ever writes there.

Where an argument needs induction, it is by the least number that violates the
claim (`Least`, `LeastMember`): the library's induction rules take an operator as
a parameter, which the installed provers cannot instantiate, and well-founded
minima of a set do not.

Only model-checked: liveness (TLAPS 1.4.5 has no fairness); the properties
of three of the OE library's tools: `PermsFixed` of `OePerms` and `RecipeEdited` of
`OeRecipe`, built on recursive functions over lines and trees whose definitions
and results would each need such an induction first, and `RealpathTrue` of `OeRealpath`, which is about small trees: the code
bounds the links of one nesting (`LoopCount`), the reference all links followed
(`Hops`), and the two agree only where neither bound is met; and what the six
violation runs refute.

## Known issues

Behaviour found while modelling that no run of its own shows; each is in the
model, and excluded by a condition or an input set, unless marked *(not
modelled)*.

- *fcntl-lock*: killed while its command runs, it frees the lock and the command
  goes on; a zero or refused `-w` is no limit at all.
- *wic layout and create*: two `--no-table` partitions share the name `.p0`
  (direct.py:690); 4096-byte sectors round kB down (373); two swaps, or two EFI
  partitions, share one file (`fs.swap`, `boot.img`); a failed run moves its
  half-made image to the output; a `--fixed-size` swap without a source whose
  `--rootfs-dir` names an image is made as large as that image, for `prepare`
  returns before its check (partition.py:164, 203); `--overhead-factor=X` written with `=` is
  replaced by the default (ksparser.py:275); five source plugins cannot be
  called, `prepare` passes an argument they lack (partition.py:192); an all-hole
  file under FIEMAP raises (filemap.py:466).
- *wic on images*: the later of two commands undoes the earlier; numbers with
  gaps are taken for positions; FAT `rm` removes directories without `-r`.
- *fpgautil*: no result of `system()` is looked at, so that with a failed `echo`
  of the flags or the key, or a failed `cp` over a file already there, it reports
  success for another load than the one asked for (392); `-f` and `-s` read fixed places of `argv` (288); a file already in
  `/lib/firmware` is deleted (383); the default region is "full", the docs'
  "Full" (352).
- *update-fpga*: two concurrent runs share `tmp-<name>` and `updatemem.conf`
  *(not modelled)*; a missing `--spi-interface` is noticed only after updatemem.
- *package.py*: a symbolic link beside a hard link of one name raises; several
  directories providing one soname yield no dependency; in `fixup_perms` a path
  behind an absolute link is looked up, and changed, on the build host; a line on
  a path named before keeps the earlier line's place, so a walking line may
  override it or not; link targets are sorted as texts, so `run` (relative) comes
  after `/run/lock`; a relative link moved with its directory leads elsewhere.
- *patch.py*: a crash between applying a patch and recording it may fail the next
  start; `git apply` gets a `--git-dir` that is no repository (646), so that it
  works on any tree, and what it applies is not in the series; with a subpath and
  an `am` that was interrupted, patch goes on in the tree it left; `quilt pop`
  fails with nothing applied, and the old series stays (684); `PatchTree.Push(all=True)`
  breaks its own index *(not modelled)*.
- *recipeutils.py*: values are replaced as substrings; comments with a variable's
  name are taken for it; the second bbappend call drops the first's `:remove`;
  get_recipe_upgrade_status uses an undefined name (1165) *(not modelled)*.
- *sstatesig.py*: recipes are looked for as substrings of the unlocked list; the
  order of hashing decides locks; dumps of two multiconfigs keep the last;
  find_siginfo stops at two of three hashes *(not modelled)*.
- *buildhistory_analysis.py*: moves are told by string prefix; two additions may
  be paired with one removal; renamed directories alone print nothing.
- *path.py, cachedpath.py*: a link whose text is "." confuses a later ".."; `x/..`
  ignores that x may be a link; `updatecache` leaves the entries of links to a
  path and of its children.
- *utils.py*: a child killed in the middle of a long message leaves the parent in
  `recv` for good; one that dies silently counts as done.

## Not modelled

- Of `lib/oe`: manifest, rootfs, packagedata, license, cve_check,
  copy_buildsystem, terminal and the like: they call BitBake or external programs
  in a fixed order and keep no state between; find_siginfo and compare_siglists,
  which read hash files the signatures already decide; get_recipe_upgrade_status.
- Of wic: help.py (text), the command line, `wic list`, the bodies of the five
  plugins that cannot be called, parted, sfdisk, mkfs and the boot loaders.
- U-Boot scripts, BIF generation, the image recovery scripts, QEMU and UFS tools:
  sequential text or arithmetic without state. Recipes, machine configuration,
  patches, register tables: data.
- Formatting, logging and the text of messages, except where a finding quotes it.
- Liveness in proofs; see *Only model-checked* above for what else is.

## Plan

Done: (1) `FcntlLock` with its refinement, `WicLayout`, `FpgaUtil`, `SpiImage`;
(2) `SparseCopy`, `WicCreate`, `WicDisk`; (3) `UpdateFpga` and the OE library
copy; (4) `OeLaunch` with its refinement; (5) proofs of alignment, copies and
statuses; (6) proofs of all of `FpgaUtil`, of the table and the extended
partition in `WicLayout`, of manifest and digests in `SpiImage`, of `SparseCopy`,
`WicDisk`, `WicCreate`, `UpdateFpga`, `OeSstateSig`, `OePatch`, `OeOuthash`,
`OeHistory`, `OePackage` and `OeAppend`. Open, in this order: proofs about
`OePerms` and `OeRecipe`; find_siginfo over several hash files; the boot scripts'
fallback order, should it come to keep state.
