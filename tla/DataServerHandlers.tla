------------------------- MODULE DataServerHandlers -------------------------
(***************************************************************************)
(* What every command handler of Roden.c does to the locks, the files and  *)
(* its connection, as the sequences of steps that RWLocks runs.  A branch  *)
(* of a handler is a sequence of its own; a handler is the set of them.    *)
(*                                                                         *)
(* The data that decides a branch (is the id there, is the order valid) is *)
(* abstracted to the choice of the branch.  Ids in requests that a handler *)
(* searches for without an end test are taken to exist.                    *)
(***************************************************************************)
EXTENDS RWLocks

DatabaseTables ==
    {"CustomerInfo", "SellerInfo", "ProductInfo", "BillingInfo", "CustomerOrder"}

LockOrder ==
    [t \in DatabaseTables |->
        CASE t = "CustomerInfo"  -> 1
          [] t = "SellerInfo"    -> 2
          [] t = "ProductInfo"   -> 3
          [] t = "BillingInfo"   -> 4
          [] t = "CustomerOrder" -> 5]

(* Entering and leaving as a reader, a loader's and a write-back's steps.  *)
Enter(t) == <<Do("arrive", t), Do("admit", t)>>
Exit(t)  == <<Do("leave", t), Do("left", t)>>
Read(t)  == Enter(t) \o <<Do("load", t)>> \o Exit(t)
Save(t)  == <<Do("truncate", t), Do("flush", t)>>
Wait(t)  == <<Do("wait", t)>>
Post(t)  == <<Do("post", t)>>
Get(t)   == <<Do("load", t)>>

----------------------------------------------------------------------------
(* validateID.  The loop over the rows comes after the reader has left; a  *)
(* row that matches returns at once.  When none does, control falls into   *)
(* the exit meant for a failed open, and the reader leaves again.  A name  *)
(* that is no table's reads nothing.                                       *)
validateHit(t)  == Read(t)
validateMiss(t) == Read(t) \o Exit(t)

validateID ==
    {<<Reply>>} \cup
    {v \o <<Reply>> : v \in UNION {{validateHit(t), validateMiss(t)} : t \in DatabaseTables}}

writeNewClientData ==
    {Wait(t) \o Get(t) \o <<Reply>> \o Save(t) \o Post(t) : t \in {"CustomerInfo", "SellerInfo"}}

viewProducts == {Read("ProductInfo") \o <<Reply>>}

(* Three writer locks, in order.  CustomerInfo is loaded without a lock.   *)
completeAnOrder ==
    LET take == Wait("ProductInfo") \o Wait("BillingInfo") \o Wait("CustomerOrder")
                  \o Get("ProductInfo")
        give == Post("ProductInfo") \o Post("BillingInfo") \o Post("CustomerOrder")
        write == Get("CustomerInfo") \o Get("BillingInfo") \o Get("CustomerOrder")
                   \o Save("ProductInfo") \o Save("BillingInfo") \o Save("CustomerOrder")
    IN  {take \o write \o <<Reply>> \o give, take \o <<Reply>> \o give}

buyerViewsOrder == {Read("BillingInfo") \o <<Reply>>}

buyerViewsInfo == {Read("CustomerInfo") \o <<Reply>>}

addNewProduct ==
    {Wait("ProductInfo") \o Get("ProductInfo") \o Save("ProductInfo")
       \o Post("ProductInfo") \o <<Reply>>}

(* deleteProduct, modifyQuantity and modifyPrice: look the product up as a *)
(* reader, then load it again as a writer.  When the seller does not own   *)
(* it, [INVALID] is sent and control still falls into the write-back and   *)
(* the [CONFIRMATION].                                                     *)
editProduct ==
    LET edit(answer) ==
          validateHit("ProductInfo") \o Wait("ProductInfo") \o Get("ProductInfo")
            \o answer \o Save("ProductInfo") \o Post("ProductInfo") \o <<Reply>>
    IN  {validateMiss("ProductInfo") \o <<Reply>>, edit(<<>>), edit(<<Reply>>)}

deleteProduct  == editProduct
modifyQuantity == editProduct
modifyPrice    == editProduct

sellerViewsOrders == {Read("ProductInfo") \o Read("CustomerOrder") \o <<Reply>>}

editOwn(t) == Wait(t) \o Get(t) \o Save(t) \o Post(t)
sellerEditsName    == editOwn("SellerInfo")
sellerEditsNumber  == editOwn("SellerInfo")
sellerEditsAddress == editOwn("SellerInfo")
buyerEditsNumber   == editOwn("CustomerInfo")

(* A buyer's name and address are copied in its bills and its orders.      *)
buyerEditsName ==
    Wait("CustomerInfo") \o Wait("BillingInfo") \o Wait("CustomerOrder")
      \o Get("CustomerInfo") \o Save("CustomerInfo")
      \o Get("BillingInfo") \o Save("BillingInfo")
      \o Get("CustomerOrder") \o Save("CustomerOrder")
      \o Post("CustomerInfo") \o Post("BillingInfo") \o Post("CustomerOrder")
buyerEditsAddress == buyerEditsName

(* An unknown subcommand edits nothing and is confirmed.                   *)
clientEditsInfo ==
    {e \o <<Reply>> : e \in {sellerEditsName, sellerEditsNumber, sellerEditsAddress,
                             buyerEditsName, buyerEditsNumber, buyerEditsAddress, <<>>}}

(* Sends no reply on any path.                                             *)
buyerModifiesOrder ==
    {Wait("BillingInfo") \o Wait("CustomerOrder")
       \o Get("CustomerOrder") \o Get("BillingInfo")
       \o Save("CustomerOrder") \o Save("BillingInfo")
       \o Post("BillingInfo") \o Post("CustomerOrder")}

readOrderDetails == {Read("CustomerOrder") \o Read("ProductInfo") \o <<Reply>>}

(* When the order is in the first row; rowCounter is never incremented, so *)
(* otherwise the thread spins, and holds no lock.                          *)
validateOrderIsBuyers == {Read("BillingInfo") \o <<Reply>>}

(* The branches that end, when the files can be opened.                    *)
executeTaskOnServer ==
    writeNewClientData \cup validateID \cup viewProducts \cup completeAnOrder
      \cup buyerViewsOrder \cup validateOrderIsBuyers \cup readOrderDetails
      \cup buyerModifiesOrder \cup buyerViewsInfo \cup clientEditsInfo
      \cup addNewProduct \cup deleteProduct \cup modifyQuantity \cup modifyPrice
      \cup sellerViewsOrders
=============================================================================
