------------------------------- MODULE MCShop -------------------------------
(* Small tables and the requests that meet in them, for TLC.               *)
EXTENDS Shop

CONSTANTS t1, t2,
    bolt, nut, bruce, peter, tony, batman, phone1, phone2, here, there

TwoThreads == {t1, t2}
Symmetry   == Permutations(TwoThreads)
SomeWords  == {bolt, nut, bruce, peter, tony, batman, phone1, phone2, here, there}

(* The last line of each file has no line end, as in the repository.       *)
TwoProducts ==
    (Product :> << <<2001, bolt, 11, 12, 3, EOL>>, <<2002, nut, 12, 2, 1>> >>)
      @@ (Billing :> << <<3001, 1001, bruce, 3, EOL>>, <<3002, 1002, peter, 1>> >>)
      @@ (Orders :> << <<3001, 2001, 1, bruce, 3, EOL>>, <<3002, 2002, 1, peter, 1>> >>)
      @@ (Customer :> << <<1001, bruce, phone1, here, EOL>>, <<1002, peter, phone2, there>> >>)
      @@ (Sellers :> << <<11, tony, phone1, here>> >>)

(* TLC evaluates what the proofs ask of the files and the new ids.         *)
ASSUME StartAssumption == IdsGiven /\ OrdersBilled /\ StockGiven /\ LinesGiven

Line(item, n) == [item |-> item, quantity |-> n, price |-> 3]
Order(lines) == [op |-> "COMPLETE_ORDER", buyer |-> 1001, lines |-> lines]

SomeCommands ==
    {Order(<<Line(2001, 1), Line(2002, 2)>>),
     Order(<<Line(2001, 10), Line(2001, 10)>>),
     Order(<<Line(2002, 0)>>),
     [op |-> "MOD_ORDER", order |-> 3001, item |-> 2001],
     [op |-> "MOD_ORDER", order |-> 3001, item |-> 2003],
     [op |-> "EDIT_INFO", buyer |-> 1001, column |-> Name, name |-> batman],
     [op |-> "EDIT_ROW", table |-> Customer, buyer |-> 1002, column |-> Phone,
      name |-> phone1],
     [op |-> "NEW_CLIENT", table |-> Customer, name |-> tony, address |-> here],
     [op |-> "NEW_CLIENT", table |-> Sellers, name |-> peter, address |-> here],
     [op |-> "NEW_PRODUCT", seller |-> 11, name |-> nut, quantity |-> 1, price |-> 2],
     [op |-> "DELETE_PROD", seller |-> 12, item |-> 2002],
     [op |-> "DELETE_PROD", seller |-> 11, item |-> 2002],
     [op |-> "MOD_QUANT", seller |-> 11, item |-> 2001, quantity |-> 10],
     [op |-> "MOD_PRICE", seller |-> 12, item |-> 2002, price |-> 7],
     [op |-> "VIEW", table |-> Sellers]}

(* For longer histories of the orders and their bills.                     *)
OrderCommands ==
    {Order(<<Line(2001, 1)>>),
     [op |-> "EDIT_INFO", buyer |-> 1001, column |-> Name, name |-> batman]}
=============================================================================
