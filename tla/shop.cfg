SPECIFICATION Spec
CONSTANTS
    EOL = EOL
    NoText = NoText
    Zeros = Zeros
    t1 = t1
    t2 = t2
    bolt = bolt
    nut = nut
    bruce = bruce
    peter = peter
    tony = tony
    batman = batman
    phone1 = phone1
    phone2 = phone2
    here = here
    there = there
    Words <- SomeWords
    Threads <- TwoThreads
    Commands <- SomeCommands
    NewIds = {4001, 2002}
    InitialFiles <- TwoProducts
    MaxCommands = 4
    MaxCrashes = 1
SYMMETRY Symmetry
CHECK_DEADLOCK FALSE
INVARIANTS
    TypeOK
    RowsReadBack
    LinesHaveBills
    OnlyFirstBillLost
    StockLedger
PROPERTIES
    OthersKeepOut
    LinesSurvive
