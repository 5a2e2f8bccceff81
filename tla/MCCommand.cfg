CONSTANTS
    m1 = m1
    m2 = m2
    p1 = p1
    p2 = p2
    Procs = {p1, p2}
    f1 = f1
    f2 = f2
    Files = {f1, f2}
    Models = {m1, m2}
    DefaultModel = m1
    Providers = {"groq", "deepseek"}
    DefaultProvider = "groq"
    Answers = {"x1", "y1", "x2"}
    Predicted = {"x1"}
    Off = {"", "0", "false"}
    Unset = Unset
    None = None
    Half = Half
    NoFile = NoFile
    Earlier = Earlier
    Keys <- MCKeys
    By <- MCBy
    KeyOf <- MCKeyOf
    DotenvAllowed <- MCAllowed
    Setups <- MCSetups
    Shipped <- MCShipped
    Services <- MCServices
    Scope <- MCScope
SPECIFICATION Spec
INVARIANTS NoFalseCredit RecordingsDecide TornOnlyByOverlap PaidIsPublished SettlingKeepsFindings
PROPERTIES EveryCommandEnds
CHECK_DEADLOCK FALSE
