------------------------------ MODULE MCDemos ------------------------------
(* Which demonstration programs are run together, for TLC.                 *)
EXTENDS DemoPrograms

CONSTANTS p1, p2, p3, p4

ThreeProcesses == {p1, p2, p3}
FourThreads    == {p1, p2, p3, p4}

AllLocks == Tables \cup {"KEY"}
AllFiles == Tables \cup {"nuumber", "prod", "bill"}

(* A process that is not there.                                            *)
Installed ==
    [n \in DOMAIN AllPrograms \cup {"none"} |->
        IF n = "none" THEN Model(FALSE, {}) ELSE AllPrograms[n]]
Together(a, b, c) == [p \in Procs |-> CASE p = p1 -> a [] p = p2 -> b [] p = p3 -> c]

(* The demos of each folder, of two or three processes.  Where the program *)
(* that unlinks comes twice, the demo is begun once more.                  *)
Folders ==
    {Together("fileWork", "fileWork", "none"),
     Together("writesBuyerInfo", "readsBuyerInfo", "readsBuyerInfo"),
     Together("writesBuyerInfo", "readsBuyerInfo", "writesBuyerInfo"),
     Together("reader", "writer", "writer"),
     Together("buy", "ret", "none"),
     Together("dlCompOrder", "dlCompOrderNU", "none"),
     Together("fixCompOrder", "fixCompOrderNU", "none"),
     Together("compOrder", "compOrderNU", "readBilling"),
     Together("compOrder", "readOrder", "readProduct"),
     Together("compOrder", "none", "compOrder"),
     Together("anyModel", "anyModelNU", "none")}

(* The code before the fixes broke what the programs keep to now.          *)
ASSUME BeforeTheFixes ==
    /\ \A b \in fileWorkUnlocked.bodies, l \in Locks : ~Guards(l, "nuumber", b)
    /\ \A b \in buyHoldingBoth.bodies : ~LocksMatched(b)

(* ReadWriteDemo with three of its four readers and one of its writers.    *)
FixedReadersWriters ==
    {[p \in Procs |-> IF p = p4 THEN "writer" ELSE "reader"]}
=============================================================================
