SPECIFICATION Spec
CONSTANTS
    EOL = EOL
    NoText = NoText
    Zeros = Zeros
    t1 = t1
    t2 = t2
    bolt = bolt
    nut = nut
    bruce = bruce
    peter = peter
    tony = tony
    batman = batman
    phone1 = phone1
    phone2 = phone2
    here = here
    there = there
    Words <- SomeWords
    Threads <- TwoThreads
    Commands <- OrderCommands
    NewIds = {4001}
    InitialFiles <- TwoProducts
    MaxCommands = 2
    MaxCrashes = 0
CHECK_DEADLOCK FALSE
INVARIANT ConfirmedOrdersAreBilled
