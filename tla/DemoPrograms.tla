---------------------------- MODULE DemoPrograms ----------------------------
(***************************************************************************)
(* The bodies of the demonstration programs (Demos/), as sequences of      *)
(* steps of module Demos.  The data server model programs all have the     *)
(* text of dsModel_All_Fix.c: a chain of branches on com.command, of which *)
(* a program runs the one its com was set up for.  Every branch is here,   *)
(* under the name of its command; a program is the branch it runs.  What   *)
(* is written into a file is a random number and does not matter.          *)
(***************************************************************************)
EXTENDS Demos

Tables == {"CustomerInfo", "SellerInfo", "ProductInfo", "BillingInfo", "CustomerOrder"}

(* read<table>, write<table>.                                              *)
Get(t) == <<On("read", t)>>
Put(t) == <<On("truncate", t), On("flush", t)>>

Take(t) == <<On("wait", t)>>
Give(t) == <<On("post", t)>>
AsReader(t) == <<On("arrive", t), On("admit", t)>> \o Get(t)
                 \o <<On("leave", t), On("left", t)>>
AsWriter(t) == Take(t) \o Get(t) \o Put(t) \o Give(t)

----------------------------------------------------------------------------
NewClient == {AsWriter("CustomerInfo"), AsWriter("SellerInfo")}

ValidateId == {AsReader(t) : t \in Tables}

ViewProducts == {AsReader("ProductInfo")}

(* 3_DeadLock_Scenarios/dl_compOrderNU.c takes the locks the other way.    *)
CompleteOrderOpposite ==
    {Take("CustomerOrder") \o Take("BillingInfo") \o Take("ProductInfo")
       \o Get("ProductInfo") \o Get("BillingInfo") \o Get("CustomerOrder")
       \o Put("ProductInfo") \o Put("BillingInfo") \o Put("CustomerOrder")
       \o Give("ProductInfo") \o Give("BillingInfo") \o Give("CustomerOrder"), <<>>}

(* com.valid is never set: the branch may do nothing at all.               *)
CompleteOrder ==
    {Take("ProductInfo") \o Take("BillingInfo") \o Take("CustomerOrder")
       \o Get("ProductInfo") \o Get("BillingInfo") \o Get("CustomerOrder")
       \o Put("ProductInfo") \o Put("BillingInfo") \o Put("CustomerOrder")
       \o Give("ProductInfo") \o Give("BillingInfo") \o Give("CustomerOrder"), <<>>}

ViewBuyerOrders == {AsReader("BillingInfo")}
CheckBuyer      == {AsReader("BillingInfo")}
OrderDetails    == {AsReader("CustomerOrder") \o AsReader("ProductInfo")}

ModOrder ==
    {Take("BillingInfo") \o Take("CustomerOrder")
       \o Get("CustomerOrder") \o Get("BillingInfo")
       \o Put("CustomerOrder") \o Put("BillingInfo")
       \o Give("BillingInfo") \o Give("CustomerOrder")}

ViewBilling == {AsReader("CustomerInfo")}

(* A buyer's name and address are changed in three files.                  *)
EditInfo ==
    {Take("CustomerInfo") \o Take("BillingInfo") \o Take("CustomerOrder")
       \o Get("CustomerInfo") \o Put("CustomerInfo")
       \o Get("BillingInfo") \o Put("BillingInfo")
       \o Get("CustomerOrder") \o Put("CustomerOrder")
       \o Give("CustomerInfo") \o Give("BillingInfo") \o Give("CustomerOrder"),
     AsWriter("CustomerInfo"), AsWriter("SellerInfo"), <<>>}

NewProduct == {AsWriter("ProductInfo")}

(* com.valid, com.valid2: the product exists, the seller owns it.          *)
DeleteProd == {<<>>, Take("ProductInfo") \o Get("ProductInfo") \o Give("ProductInfo"),
               AsWriter("ProductInfo")}
ModQuant == DeleteProd
ModPrice == DeleteProd

SellerOrders == {AsReader("ProductInfo") \o AsReader("CustomerOrder")}

AnyCommand ==
    UNION {NewClient, ValidateId, ViewProducts, CompleteOrder, ViewBuyerOrders,
           CheckBuyer, OrderDetails, ModOrder, ViewBilling, EditInfo, NewProduct,
           DeleteProd, ModQuant, ModPrice, SellerOrders}

----------------------------------------------------------------------------
(* The programs.  NU: the unlinking is commented out.                      *)
Model(unlinks, bodies) == [unlinks |-> unlinks, loops |-> TRUE, bodies |-> bodies]

writesBuyerInfo == Model(TRUE, {AsWriter("CustomerInfo")})
readsBuyerInfo  == Model(FALSE, ViewBilling)

dlCompOrder   == Model(TRUE, CompleteOrder)
dlCompOrderNU == Model(FALSE, CompleteOrderOpposite)

fixCompOrder   == Model(TRUE, CompleteOrder)
fixCompOrderNU == Model(FALSE, CompleteOrder)

compOrder   == Model(TRUE, CompleteOrder)
compOrderNU == Model(FALSE, CompleteOrder)
readBilling == Model(FALSE, {AsReader("BillingInfo")})
readOrder   == Model(FALSE, {AsReader("CustomerOrder")})
readProduct == Model(FALSE, {AsReader("ProductInfo")})

(* The text with com set up for any command.                               *)
anyModel   == Model(TRUE, AnyCommand)
anyModelNU == Model(FALSE, AnyCommand)

----------------------------------------------------------------------------
(* The demos on number files: threads that take the semaphore of KEY.      *)
Thread(body) == [unlinks |-> FALSE, loops |-> FALSE, bodies |-> {body}]
Key(body) == <<On("wait", "KEY")>> \o body \o <<On("post", "KEY")>>

(* The code before the fix (RaceConditionDemo.c:65-73).                    *)
fileWorkUnlocked == Thread(Get("nuumber") \o Put("nuumber"))
fileWork == Thread(Key(Get("nuumber") \o Put("nuumber")))

(* KEY2 is KEY: id and id2 are one semaphore.                              *)
(* The code before the fix (DeadlockDemo.c:138-160).                       *)
buyHoldingBoth == Thread(Key(Get("prod") \o Put("prod") \o Key(Get("bill") \o Put("bill"))))
buy == Thread(Key(Get("prod") \o Put("prod")) \o Key(Get("bill") \o Put("bill")))
ret == Thread(Key(Get("bill") \o Put("bill")) \o Key(Get("prod") \o Put("prod")))

reader ==
    Thread(<<Just("count"), Just("counted"), Just("first"),
             On("wait", "KEY"), Just("open"), Just("spin")>>
           \o Get("bill")
           \o <<Just("uncount"), Just("uncounted"), Just("last"),
                On("post", "KEY"), Just("close")>>)
writer == Thread(Key(Get("bill") \o Put("bill")))

AllPrograms ==
    [fileWork |-> fileWork,
     writesBuyerInfo |-> writesBuyerInfo,
     readsBuyerInfo |-> readsBuyerInfo,
     buy |-> buy,
     ret |-> ret,
     dlCompOrder |-> dlCompOrder,
     dlCompOrderNU |-> dlCompOrderNU,
     fixCompOrder |-> fixCompOrder,
     fixCompOrderNU |-> fixCompOrderNU,
     compOrder |-> compOrder,
     compOrderNU |-> compOrderNU,
     readBilling |-> readBilling,
     readOrder |-> readOrder,
     readProduct |-> readProduct,
     anyModel |-> anyModel,
     anyModelNU |-> anyModelNU,
     reader |-> reader,
     writer |-> writer]

----------------------------------------------------------------------------
(* Every program but the one of the deadlock demo takes its locks in the   *)
(* resource lock order (misc/databaseActions.txt); KEY is taken alone.     *)
Rank(l) == CASE l = "SellerInfo" -> 2 [] l = "ProductInfo" -> 3 [] l = "BillingInfo" -> 4
             [] l = "CustomerOrder" -> 5 [] OTHER -> 1
TakesInOrder(b) ==
    \A l \in Locks, i \in 1..Len(b) :
        b[i] \in {On("wait", l), On("arrive", l)} =>
            \A u \in Held(b, i) \cup Entered(b, i) : Rank(u) < Rank(l)

ASSUME OrderAssumption ==
    \A n \in DOMAIN Programs \ {"dlCompOrderNU"} :
        \A b \in Programs[n].bodies : TakesInOrder(b)

(* The processes of a generation all wait for each other only where one of *)
(* them was stopped, or where the program of the deadlock demo runs, which *)
(* takes its locks in the opposite order.  In particular a demo that was   *)
(* stopped and is begun again with the program that unlinks goes on.       *)
NotAllWait ==
    \A g \in Generations :
        LET r == {p \in Of(g) : Running(p)} IN
        (r # {} /\ \A p \in r : Blocked(p)) =>
            \/ Of(g) \cap Killed # {}
            \/ \E p \in r : prog[p] = "dlCompOrderNU"
=============================================================================
