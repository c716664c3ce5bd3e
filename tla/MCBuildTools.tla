---------------------------- MODULE MCBuildTools ----------------------------
(***************************************************************************)
(* The tools of the build host, each on the cases of its own module.  They *)
(* share no state: a behaviour is one of one tool, the others keep still,  *)
(* and the state space is the union of theirs.  The tools about which      *)
(* theorems are proved are extended, the others are instances.             *)
(***************************************************************************)
EXTENDS MCSpiImage, SparseCopy, WicDisk, UpdateFpga, OeSstateSig, OePatch, OeOuthash,
        OePackage, OeHistory, OeAppend

CONSTANTS
    BuildTools,      \* the tools to run
    RecipeFiles,     \* what the recipe tool starts from
    RecipeRequests   \* and is asked for

VARIABLES
    tool,  \* the tool that runs
    rc_files, rc_before, rc_asked, rc_again, rc_calls,
    rp_tree, rp_cache, rp_asked, rp_answer, rp_steps,
    pm_package, pm_lines, pm_pc, pm_pkgd, pm_read, pm_perms, pm_links,
    pm_escaped

\* Files of up to 7 bytes in host blocks of 2 bytes, or of 4 bytes seen
\* through the cap as two; every set of mapped blocks, none or two extent
\* boundaries, blocks mapped behind the end.  Two extents per FIEMAP answer
\* and chunks of 3 bytes make the answer and the chunk loop split.
CopyFiles ==
    {[size |-> n, fsblock |-> w, mapped |-> m, starts |-> s] :
        n \in {0, 7}, w \in {2, 4}, m \in SUBSET (0..3), s \in {{}, {1, 3}}}

SomeSources == {f \in CopyFiles : \A k \in f.mapped : k * f.fsblock <= f.size + 3}

\* What wic asks for: whole files (sparse_copy(src, dst), seek), and pieces
\* (skip and length) out of an image; skip is never behind the source's end.
SomeCopies ==
    {[skip |-> k, seek |-> e, length |-> l, old |-> o, fiemap |-> f, seekhole |-> h] :
        k \in {0, 1, 4}, e \in {0, 3}, l \in {0, 2, 4}, o \in {0, 9},
        f \in BOOLEAN, h \in BOOLEAN}

\* Two commands at once on images with a FAT, an ext, a swap and a raw
\* partition, and media with no, little or much room to grow into.
DiskPart(n, s, fs) == [num |-> n, size |-> s, fs |-> fs]

DiskTables ==
    {<<DiskPart(1, 4, "fat"), DiskPart(2, 4, "ext")>>,
     <<DiskPart(1, 4, "ext"), DiskPart(2, 2, "swap"), DiskPart(3, 4, "fat")>>,
     <<DiskPart(1, 4, "raw"), DiskPart(3, 4, "ext")>>}

DiskTrees ==
    {[q \in {<<"f">>} |-> "old"],
     [q \in {<<"d">>, <<"d", "f">>} |-> IF q = <<"d">> THEN Dir ELSE "old"]}

DiskCmd(k, n, d, f, b, r) ==
    [kind |-> k, part |-> n, dir |-> d, name |-> f, base |-> b, rec |-> r, expand |-> None]

WriteCmd(e) ==
    [kind |-> "write", part |-> 0, dir |-> <<>>, name |-> "", base |-> <<>>, rec |-> FALSE,
     expand |-> e]

DiskCommands ==
    {DiskCmd("in", n, <<>>, "f", <<>>, FALSE) : n \in {1, 2}}
    \cup {DiskCmd("in", n, <<"d">>, "g", <<"h">>, FALSE) : n \in {1, 2}}
    \cup {DiskCmd("rm", 1, <<>>, "f", <<>>, FALSE), DiskCmd("rm", 1, <<>>, "d", <<>>, FALSE),
          DiskCmd("rm", 1, <<>>, "d", <<>>, TRUE),
          DiskCmd("out", 3, <<>>, "f", <<>>, FALSE), DiskCmd("ls", 3, <<>>, "", <<>>, FALSE)}
    \cup {WriteCmd(None), WriteCmd([i \in {} |-> 0]), WriteCmd([i \in {1} |-> 6]),
          WriteCmd([i \in {1} |-> 2]), WriteCmd([i \in {2} |-> 0])}

\* Two runs on artifact directories of every shape, with every command line
\* of up to two tokens, and of up to four that begin with a file.
FpgaTokens == {"--u-boot", "--offset", "-v", "1"}

FpgaArgvs ==
  LET Short == UNION {[1..n -> FpgaTokens] : n \in 0..2}
  IN  Short \cup {<<"--u-boot", "f">> \o s : s \in Short}
  \cup {<<"--u-boot", "f", "--offset", "1", "--kernel", "f", "--offset", "2">>,
        <<"--kernel", "f", "1", "--kernel", "g", "--offset", "2">>}

FpgaArtifacts ==
  {[images |-> i, mmi |-> "InstPath", pdi |-> p, bif |-> b] :
     i \in {<<"bit">>, <<"rcdo">>, <<"bit", "rcdo">>}, p \in BOOLEAN, b \in BOOLEAN}
  \cup {[images |-> i, mmi |-> m, pdi |-> FALSE, bif |-> FALSE] :
          i \in {<<>>, <<"bit">>}, m \in {"absent", "no InstPath"}}

PackageCases == INSTANCE OePackageCases

PackageRecipes == PackageCases!AllRecipes

PatchCases == INSTANCE OePatchCases WITH None <- Nil

PatchUrls == PatchCases!PatchUrls

PatchFacts == PatchCases!Now

AllPatchTools == PatchCases!AllTools

PatchResolvers == PatchCases!AllResolvers

RecipeCases == INSTANCE OeRecipeCases

RecipeProgression == RecipeCases!Order

RecipeVariables == RecipeCases!All

RecipeListVars == RecipeCases!Lists

RecipeMetaVars == RecipeCases!Meta

RecipeOverrides == RecipeCases!Machine

Recipe == INSTANCE OeRecipe WITH
    Recipes <- RecipeFiles, Requests <- RecipeRequests,
    Progression <- RecipeProgression, Variables <- RecipeVariables,
    ListVars <- RecipeListVars, MetaVars <- RecipeMetaVars,
    Overrides <- RecipeOverrides, MaxCalls <- 2, files <- rc_files,
    before <- rc_before, asked <- rc_asked, again <- rc_again,
    calls <- rc_calls

rcVars == <<rc_files, rc_before, rc_asked, rc_again, rc_calls>>

BbappendCases == INSTANCE OeAppendCases WITH None <- Unsaid

BbappendStarts == BbappendCases!AllStarts

BbappendCalls == BbappendCases!AllCalls

BbappendMachines == BbappendCases!Two

SigsCases == INSTANCE OeSstateSigCases

SigsGraphs == SigsCases!AllGraphs

OuthashCases == INSTANCE OeOuthashCases WITH Path <- BuildPath, None <- NoColumn

OuthashPairs == OuthashCases!AllPairs

OuthashOptions == OuthashCases!AllOptions

OuthashNameOrder == OuthashCases!Order

RealpathCases == INSTANCE OeRealpathCases

RealpathTrees == RealpathCases!AllTrees

RealpathFiles == RealpathCases!AllFiles

RealpathUpdates == RealpathCases!AllUpdates

Realpath == INSTANCE OeRealpath WITH
    Trees <- RealpathTrees, Files <- RealpathFiles,
    Updates <- RealpathUpdates, LoopCount <- 3, MaxSteps <- 3,
    tree <- rp_tree, cache <- rp_cache, asked <- rp_asked,
    answer <- rp_answer, steps <- rp_steps

rpVars == <<rp_tree, rp_cache, rp_asked, rp_answer, rp_steps>>

PermsCases == INSTANCE OePermsCases

PermsPackages == PermsCases!AllPackages

PermsDefaults == PermsCases!AllDefaults

PermsTables == PermsCases!AllTables

PermsTextOrder == PermsCases!Order

PermsHostDirs == PermsCases!Host

Perms == INSTANCE OePerms WITH
    Packages <- PermsPackages, Defaults <- PermsDefaults,
    Tables <- PermsTables, TextOrder <- PermsTextOrder,
    HostDirs <- PermsHostDirs, package <- pm_package, lines <- pm_lines,
    pc <- pm_pc, pkgd <- pm_pkgd, read <- pm_read, perms <- pm_perms,
    links <- pm_links, escaped <- pm_escaped

pmVars == <<pm_package, pm_lines, pm_pc, pm_pkgd, pm_read, pm_perms, pm_links,
    pm_escaped>>

HistoryCases == INSTANCE OeHistoryCases WITH None <- NotThere

HistoryPathOrder == HistoryCases!AllPaths

HistoryTrees == HistoryCases!AllTrees

HistoryPackages == HistoryCases!AllPackages

HistoryFields == HistoryCases!AllFields

HistoryBases == HistoryCases!AllBases

\* The cases that show what the include file of a recipe is worth.
IncRecipes == RecipeCases!IncRecipes
OneMore == RecipeCases!OneMore
SomeRecipes == RecipeCases!AllRecipes
SomeRequests == RecipeCases!AllRequests

-----------------------------------------------------------------------------

Still(values) == \A i \in DOMAIN values : values[i] = None

\* A copy that never starts.
CopyIdle ==
    /\ src = [size |-> 0, fsblock |-> 2, mapped |-> {}, starts |-> {}]
    /\ call = [skip |-> 0, seek |-> 0, length |-> 0, old |-> 0, fiemap |-> FALSE,
               seekhole |-> FALSE]
    /\ pos = 0 /\ batch = {} /\ prev = Nothing /\ ended = FALSE
    /\ cur = idle /\ copied = 0 /\ dst = Absent /\ outcome = "open"

\* An image of no partition, which nothing is asked of.
DiskIdle ==
    /\ table = <<>> /\ image = <<>> /\ device = 0 /\ cmd = <<>>
    /\ stage = [p \in Procs |-> "start"] /\ cache = <<>> /\ sizes = <<>>
    /\ next = <<>> /\ target = <<>> /\ serial = image /\ version = <<>>
    /\ base = <<>> /\ mixed = {}

FpgaIdle ==
    /\ run = None /\ step = None /\ argv = None /\ dir = None /\ elf = None
    /\ spi = None /\ status = None /\ work = None /\ out = None /\ pdi = None
    /\ flash = None /\ silent = None

PackageIdle ==
    /\ recipe = [outside |-> {}, skip |-> {}] /\ packing = "never" /\ tree = NoneYet
    /\ strippable = [elf |-> {}, static |-> {}, group |-> NoneYet]
    /\ busy = {} /\ strips = NoneYet /\ moved = NoneYet
    /\ packages = <<>> /\ files = NoneYet /\ unshipped = {}
    /\ rdepends = NoneYet /\ libdeps = NoneYet /\ recommends = NoneYet
    /\ ending = "ok"

PatchIdle ==
    /\ urls = None /\ method = None /\ resolver = None /\ applied = None
    /\ series = None /\ copies = None /\ stack = None /\ commits = None
    /\ head = None /\ amdir = None /\ left = None /\ patches = None
    /\ current = None /\ turn = None /\ phase = None /\ starts = None
    /\ torn = None /\ verdict = None

RecipeIdle ==
    /\ rc_files = None /\ rc_before = None /\ rc_asked = None
    /\ rc_again = None /\ rc_calls = None

\* No file, and nobody calls.
BbappendIdle ==
    /\ inRecipe = FALSE /\ recipeUris = <<>> /\ appendFile = <<>>
    /\ laidOut = <<>> /\ rd = <<>> /\ rdm = Unsaid /\ priorLines = <<>>
    /\ lastCall = Unsaid /\ callsMade = 0

SigsIdle ==
    /\ graph = None /\ build = None /\ hash = None /\ unihash = None
    /\ locks = None /\ locked = None /\ unlocked = None
    /\ mismatches = None /\ first = None

OuthashIdle ==
    /\ trees = None /\ option = None /\ listing = None
    /\ todo = None /\ hashed = None

RealpathIdle ==
    /\ rp_tree = None /\ rp_cache = None /\ rp_asked = None
    /\ rp_answer = None /\ rp_steps = None

PermsIdle ==
    /\ pm_package = None /\ pm_lines = None /\ pm_pc = None /\ pm_pkgd = None
    /\ pm_read = None /\ pm_perms = None /\ pm_links = None
    /\ pm_escaped = None

HistoryIdle ==
    /\ revision1 = None /\ revision2 = None /\ builds = None
    /\ reportAll = None /\ told = NotThere

SpiIdle == Init /\ components = <<>>

ToolsInit ==
    /\ tool \in BuildTools
    /\ IF tool = "spi image" THEN Init ELSE SpiIdle
    /\ IF tool = "sparse_copy" THEN CopyInit ELSE CopyIdle
    /\ IF tool = "wic disk" THEN DiskInit ELSE DiskIdle
    /\ IF tool = "update-fpga" THEN FpgaInit ELSE FpgaIdle
    /\ IF tool = "package" THEN PackInit ELSE PackageIdle
    /\ IF tool = "patch" THEN PatchInit ELSE PatchIdle
    /\ IF tool = "recipe" THEN Recipe!Init ELSE RecipeIdle
    /\ IF tool = "append" THEN AppendInit ELSE BbappendIdle
    /\ IF tool = "locked signatures" THEN SigInit ELSE SigsIdle
    /\ IF tool = "output hash" THEN HashInit ELSE OuthashIdle
    /\ IF tool = "realpath" THEN Realpath!Init ELSE RealpathIdle
    /\ IF tool = "perms" THEN Perms!Init ELSE PermsIdle
    /\ IF tool = "history" THEN HistoryInit ELSE HistoryIdle

ToolsNext ==
    \/ /\ tool = "spi image" /\ Next
       /\ UNCHANGED <<tool, sparseVars, diskVars, fpgaVars, packVars, patchVars, rcVars, appendVars, sigVars, hashVars, rpVars, pmVars, historyVars>>
    \/ /\ tool = "sparse_copy" /\ CopyNext
       /\ UNCHANGED <<tool, vars, diskVars, fpgaVars, packVars, patchVars, rcVars, appendVars, sigVars, hashVars, rpVars, pmVars, historyVars>>
    \/ /\ tool = "wic disk" /\ DiskNext
       /\ UNCHANGED <<tool, vars, sparseVars, fpgaVars, packVars, patchVars, rcVars, appendVars, sigVars, hashVars, rpVars, pmVars, historyVars>>
    \/ /\ tool = "update-fpga" /\ FpgaNext
       /\ UNCHANGED <<tool, vars, sparseVars, diskVars, packVars, patchVars, rcVars, appendVars, sigVars, hashVars, rpVars, pmVars, historyVars>>
    \/ /\ tool = "package" /\ PackNext
       /\ UNCHANGED <<tool, vars, sparseVars, diskVars, fpgaVars, patchVars, rcVars, appendVars, sigVars, hashVars, rpVars, pmVars, historyVars>>
    \/ /\ tool = "patch" /\ PatchNext
       /\ UNCHANGED <<tool, vars, sparseVars, diskVars, fpgaVars, packVars, rcVars, appendVars, sigVars, hashVars, rpVars, pmVars, historyVars>>
    \/ /\ tool = "recipe" /\ Recipe!Next
       /\ UNCHANGED <<tool, vars, sparseVars, diskVars, fpgaVars, packVars, patchVars, appendVars, sigVars, hashVars, rpVars, pmVars, historyVars>>
    \/ /\ tool = "append" /\ AppendNext
       /\ UNCHANGED <<tool, vars, sparseVars, diskVars, fpgaVars, packVars, patchVars, rcVars, sigVars, hashVars, rpVars, pmVars, historyVars>>
    \/ /\ tool = "locked signatures" /\ SigNext
       /\ UNCHANGED <<tool, vars, sparseVars, diskVars, fpgaVars, packVars, patchVars, rcVars, appendVars, hashVars, rpVars, pmVars, historyVars>>
    \/ /\ tool = "output hash" /\ HashNext
       /\ UNCHANGED <<tool, vars, sparseVars, diskVars, fpgaVars, packVars, patchVars, rcVars, appendVars, sigVars, rpVars, pmVars, historyVars>>
    \/ /\ tool = "realpath" /\ Realpath!Next
       /\ UNCHANGED <<tool, vars, sparseVars, diskVars, fpgaVars, packVars, patchVars, rcVars, appendVars, sigVars, hashVars, pmVars, historyVars>>
    \/ /\ tool = "perms" /\ Perms!Next
       /\ UNCHANGED <<tool, vars, sparseVars, diskVars, fpgaVars, packVars, patchVars, rcVars, appendVars, sigVars, hashVars, rpVars, historyVars>>
    \/ /\ tool = "history" /\ HistoryNext
       /\ UNCHANGED <<tool, vars, sparseVars, diskVars, fpgaVars, packVars, patchVars, rcVars, appendVars, sigVars, hashVars, rpVars, pmVars>>

toolsVars == <<tool, vars, sparseVars, diskVars, fpgaVars, packVars, patchVars, rcVars, appendVars, sigVars, hashVars, rpVars, pmVars, historyVars>>

ToolsSpec == ToolsInit /\ [][ToolsNext]_toolsVars

-----------------------------------------------------------------------------
(* The properties of the tools, each of the behaviours of its tool; they   *)
(* are stated and explained in the modules.                                *)

\* patch_recipe edits what it was asked for, and nothing else.
RecipeEdited == tool = "recipe" => Recipe!RecipeEdited

\* patch_recipe gives the recipe the value it was asked for.
IncHandled == tool = "recipe" => Recipe!IncHandled

\* A path below a root is resolved as in that root, from the cache as well.
RealpathTrue == tool = "realpath" => Realpath!RealpathTrue

\* fixup_perms loses no file, makes the links and sets the modes its tables ask for.
PermsFixed == tool = "perms" => Perms!PermsFixed

=============================================================================
