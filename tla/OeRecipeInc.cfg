SPECIFICATION ToolsSpec
CONSTANTS
    BuildTools = {"recipe"}
    RecipeFiles <- IncRecipes
    RecipeRequests <- OneMore
    OutputSize = 6
    FlashSize = 8
    Layouts <- SomeLayouts
    SourceFiles <- SomeSources
    CopyCalls <- SomeCopies
    MaxBlock = 2
    ExtentCnt = 2
    Chunk = 3
    Tables <- DiskTables
    Trees <- DiskTrees
    Commands <- DiskCommands
    Procs = {"p", "q"}
    Devices = {12, 21}
    Used = 3
    Grain = 2
    Dir = Dir
    New = New
    Argvs <- FpgaArgvs
    Artifacts <- FpgaArtifacts
    Elves = {"elf", "other"}
    Formats = {"none", "bare", "full"}
    MaxRuns = 2
    Graphs <- SigsGraphs
    Urls <- PatchUrls
    Facts <- PatchFacts
    PatchTools <- AllPatchTools
    Resolvers <- PatchResolvers
    MaxStarts = 3
    Nil = Nil
    Unset = Unset
    TreePairs <- OuthashPairs
    HashOptions <- OuthashOptions
    NameOrder <- OuthashNameOrder
    Epoch = 4
    BuildPath = BuildPath
    NoColumn = NoColumn
    None = None
    Recipes <- PackageRecipes
    Workers = 2
    NoName = NoName
    NotThere = NotThere
    Digits = {"1", "2", "3"}
    PathOrder <- HistoryPathOrder
    FileLists <- HistoryTrees
    Packages <- HistoryPackages
    Fields <- HistoryFields
    Scripts = {"x"}
    Bases <- HistoryBases
    MaxBuilds = 1
    AppendStarts <- BbappendStarts
    AppendCalls <- BbappendCalls
    Machines <- BbappendMachines
    MaxAppends = 2
    Unsaid = Unsaid
CHECK_DEADLOCK FALSE
INVARIANT IncHandled
