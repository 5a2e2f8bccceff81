CONSTANTS
    Runs = {r1, r2, r3}
    AtOnce = 2
    Newline = Newline
    Torn = Torn
SPECIFICATION JournalSpec
SYMMETRY RunSymmetry
INVARIANTS NothingElseLost
PROPERTIES CostsItsOwnLine
CHECK_DEADLOCK FALSE
