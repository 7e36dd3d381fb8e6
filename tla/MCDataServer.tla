---------------------------- MODULE MCDataServer ----------------------------
(* Instances of RWLocks with the handlers of the data server, for TLC.     *)
EXTENDS DataServerHandlers, TLC

CONSTANTS c1, c2, c3

TwoConnections   == {c1, c2}
ThreeConnections == {c1, c2, c3}
Symmetric == Permutations(Threads)

AllCommands == executeTaskOnServer

(* Commands whose ids are all found: no branch of validateID misses.       *)
KnownIds == {p \in executeTaskOnServer : Matched(p)}

(* Readers of each of two tables, and the writer of both.                  *)
OrderTables   == {"BillingInfo", "CustomerOrder"}
OrderRank     == [t \in OrderTables |-> LockOrder[t]]
OrderCommands ==
    buyerViewsOrder \cup {validateHit(t) \o <<Reply>> : t \in OrderTables}
      \cup buyerModifiesOrder
=============================================================================
