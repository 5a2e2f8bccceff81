SPECIFICATION Spec
CONSTANTS
    Nowhere = Nowhere
    NoFacts = NoFacts
    Unstated = Unstated
    ExcludedDirs = {"node_modules"}
    EggDirs = {}
    GeneratedDirs = {}
    FixtureDirs = {}
    TestDirs = {"tests"}
    Supported = {"py", "ts"}
    ScriptSuffixes <- MCSuffixes
    Flagged = {"celery"}
    ColonRunners = {"uvicorn"}
    Interpreters = {"python"}
    MostGroups = 14
    ClientsOf <- MCClientsOf
    StartsWith = {}
    MigrationDirs <- MCMigrationDirs
    Interesting = {"create_index"}
    Hidden = {"node_modules"}
    Kinds <- MCKinds
    MaxPerKind = 25
    MaxCopies = 12
    MaxEnvNames = 40
    LocksFor <- MCLocksFor
    Workloads = {"Deployment"}
    Gates = {"pull_request"}
    Rules <- MCRules
    SecretPaths = {}
    EnoughToConnect = 2
    MostObservations = 5
    Repositories <- MCRepositories
    Concerns <- MCConcerns
    LanguageOf <- MCLanguageOf
    Picks <- MCPicks
    Opinions <- MCOpinions
    Readings <- MCReadings
    Floor = 0
    Ceiling = 10
    WidestBand = 3
    Overlong <- MCOverlong
    LineOf <- MCLineOf
    Deepest = 4
    Sentence <- MCSentence
    Order <- MCOrder
    Window = 10
INVARIANTS
    LookupsPair
    LayersAreHops
    CoverageIsBounded
    AnnouncedIsReported
    WorkersAdviceFits
PROPERTIES
    StagesAdvance
    ReviewSettles
CHECK_DEADLOCK FALSE
