---------------------------- MODULE ClientSession ----------------------------
(***************************************************************************)
(* One client (client.c) and the connection behind it.  The client is a    *)
(* set of menus that call each other and never return, and of functions    *)
(* that compose a message in one global buffer, send it, read one reply    *)
(* and return to the menu they were chosen from; so the menu in use is all *)
(* the control there is.  The data server takes the messages of a          *)
(* connection in order and answers each with one, two or no replies        *)
(* (executeTaskOnServer); the sub-server passes on one reply per message.  *)
(***************************************************************************)
EXTENDS Integers, Sequences

CONSTANTS
    Registered,   \* customer ids in CustomerInfo.txt
    Unknown,      \* other ids a user may type
    MaxTwice      \* bound: messages that are answered twice

ASSUME BoundAssumption == MaxTwice \in Nat

VARIABLES
    at,        \* the menu in use
    buffer,    \* the global buffer: "clear" or "full"
    buyerID,   \* an id as typed, NoId, or FirstChar of one
    sellerID,  \* NoId or FirstChar
    waiting,   \* the message whose reply the client is reading, or Nothing
    requests,  \* messages the data server has not taken up
    replies,   \* replies on their way to the client
    twice      \* history: messages answered twice

conn == <<requests, replies, twice>>
ids  == <<buyerID, sellerID>>
vars == <<at, buffer, buyerID, sellerID, waiting, requests, replies, twice>>

NoId      == "no id"
FirstChar == "first character"
Nothing   == [op |-> "none"]
BuyerIds  == Registered \cup Unknown \cup {NoId, FirstChar}

Ops == {"NEW_CLIENT_BUYER", "NEW_CLIENT_SELLER", "VALIDATE_BUYER", "VALIDATE_SELLER",
        "VALIDATE_BILLING", "VALIDATE_ORDER", "CHECK_BUYER", "ORDER_DETAILS",
        "MOD_ORDER", "VIEW_BUYER_ORDERS", "VIEW_BILLING", "VIEW_PRODUCTS",
        "COMPLETE_ORDER", "NEW_PRODUCT", "DELETE_PROD", "MOD_QUANT", "MOD_PRICE",
        "EDIT_NAME", "EDIT_NUMBER", "EDIT_ADDRESS"}
Messages == [op : Ops, id : BuyerIds, alone : BOOLEAN]
Menus == {"initialMenu", "buyerLogin", "sellerLogin", "buyerMenu", "sellerMenu",
          "makeOrder", "editBuyer", "editSeller"}

Init ==
    /\ at = "initialMenu" /\ buffer = "clear"
    /\ buyerID = NoId /\ sellerID = NoId
    /\ waiting = Nothing /\ requests = <<>> /\ replies = <<>> /\ twice = 0

----------------------------------------------------------------------------
Choosing(menu) == at = menu /\ waiting = Nothing
Stay == UNCHANGED <<buffer, ids, waiting, conn>>

(* Variant: the buffer is not cleared.                                     *)
OpenMenuOnly(menu) == at' = menu /\ Stay

(* A menu function is called; initialMenu clears the buffer.               *)
OpenMenu(menu) ==
    /\ at' = menu
    /\ buffer' = IF menu = "initialMenu" THEN "clear" ELSE buffer
    /\ UNCHANGED <<ids, waiting, conn>>

(* exit(0).                                                                *)
Quit == at' = "exited" /\ Stay

(* clientSend, memset, and the read that clientReceive is about to do.     *)
Send(op, id, alone) ==
    LET message == [op |-> op, id |-> id, alone |-> alone] IN
    /\ requests' = Append(requests, message)
    /\ waiting' = message
    /\ buffer' = "clear"
    /\ UNCHANGED <<at, replies, twice>>

(* strcat onto the buffer as it is, or after it was cleared.               *)
Join(op, id)    == Send(op, id, buffer = "clear") /\ UNCHANGED ids
Compose(op, id) == Send(op, id, TRUE) /\ UNCHANGED ids

----------------------------------------------------------------------------
initialMenu ==
    /\ Choosing("initialMenu")
    /\ \/ OpenMenu("buyerLogin") \/ OpenMenu("sellerLogin") \/ Quit
       \/ OpenMenu("initialMenu")   \* not a valid choice

userRegister(op) == Join(op, NoId)

(* The id is read into buyerID; a seller's is not, it is sent empty.       *)
IDLogin(type) ==
    \E typed \in Registered \cup Unknown :
        /\ buyerID' = typed /\ UNCHANGED sellerID
        /\ IF type = 0 THEN Send("VALIDATE_BUYER", typed, buffer = "clear")
                       ELSE Send("VALIDATE_SELLER", NoId, buffer = "clear")

(* Variant: what sellerLogin does with an invalid choice.                  *)
buyerLoginDefault ==
    /\ Choosing("buyerLogin")
    /\ \/ userRegister("NEW_CLIENT_BUYER") \/ IDLogin(0)
       \/ OpenMenu("initialMenu") \/ Quit \/ OpenMenu("buyerMenu")

buyerLogin ==
    /\ Choosing("buyerLogin")
    /\ \/ userRegister("NEW_CLIENT_BUYER") \/ IDLogin(0)
       \/ OpenMenu("initialMenu") \/ Quit \/ OpenMenu("buyerLogin")

(* An invalid choice opens the seller's menu.                              *)
sellerLogin ==
    /\ Choosing("sellerLogin")
    /\ \/ userRegister("NEW_CLIENT_SELLER") \/ IDLogin(1)
       \/ OpenMenu("initialMenu") \/ Quit \/ OpenMenu("sellerMenu")

viewOrder    == Compose("VIEW_BUYER_ORDERS", buyerID)
modifyOrder  == Compose("VALIDATE_BILLING", NoId)
viewBill     == Compose("VIEW_BILLING", buyerID)

buyerMenu ==
    /\ Choosing("buyerMenu")
    /\ \/ OpenMenu("makeOrder") \/ viewOrder \/ modifyOrder \/ viewBill
       \/ OpenMenu("editBuyer") \/ OpenMenu("initialMenu") \/ Quit
       \/ OpenMenu("buyerMenu")

viewProducts(id) == Compose("VIEW_PRODUCTS", id)
addProduct       == OpenMenu("makeOrder")   \* asks, and sends nothing

(* A fixed order, from a buffer of its own.                                *)
completeOrder == Compose("COMPLETE_ORDER", NoId)

makeOrder ==
    /\ Choosing("makeOrder")
    /\ \/ viewProducts(NoId) \/ addProduct \/ completeOrder
       \/ OpenMenu("buyerMenu") \/ Quit \/ OpenMenu("makeOrder")

addNewProduct  == Compose("NEW_PRODUCT", sellerID)
deleteProduct  == Compose("DELETE_PROD", sellerID)
modifyQuantity == Compose("MOD_QUANT", sellerID)
modifyPrice    == Compose("MOD_PRICE", sellerID)

sellerMenu ==
    /\ Choosing("sellerMenu")
    /\ \/ viewProducts(sellerID) \/ addNewProduct \/ deleteProduct \/ modifyQuantity
       \/ modifyPrice \/ viewOrder \/ OpenMenu("editSeller")
       \/ OpenMenu("initialMenu") \/ Quit \/ OpenMenu("sellerMenu")

editInfo(menu, id, back) ==
    /\ Choosing(menu)
    /\ \/ \E op \in {"EDIT_NAME", "EDIT_NUMBER", "EDIT_ADDRESS"} : Compose(op, id)
       \/ OpenMenu(back) \/ OpenMenu(menu)

----------------------------------------------------------------------------
(* Variant: a short read leaves the rest of the reply behind.              *)
ReadPart == waiting # Nothing /\ replies # <<>> /\ UNCHANGED conn

(* clientReceive.                                                          *)
Read == /\ waiting # Nothing /\ replies # <<>>
        /\ replies' = Tail(replies) /\ UNCHANGED <<requests, twice>>
Reads(ops) == waiting.op \in ops /\ Read
Done(menu) == /\ waiting' = Nothing /\ at' = menu
              /\ buffer' = IF menu = "initialMenu" THEN "clear" ELSE "full"

(* The reply to a registration: its first character is the id.             *)
Registers ==
    \/ /\ Reads({"NEW_CLIENT_BUYER"}) /\ Done("buyerMenu")
       /\ buyerID' = FirstChar /\ UNCHANGED sellerID
    \/ /\ Reads({"NEW_CLIENT_SELLER"}) /\ Done("sellerMenu")
       /\ sellerID' = FirstChar /\ UNCHANGED buyerID

(* if (strcmp(buffer, "[CONFIRMATION]") == 0)                              *)
LogsIn ==
    /\ \/ Reads({"VALIDATE_BUYER"})
            /\ Done(IF Head(replies) = "CONFIRMATION" THEN "buyerMenu" ELSE "initialMenu")
       \/ Reads({"VALIDATE_SELLER"})
            /\ Done(IF Head(replies) = "CONFIRMATION" THEN "sellerMenu" ELSE "initialMenu")
    /\ UNCHANGED ids

(* modifyOrder goes on with its next message; the replies to the first two *)
(* are shown and not looked at.                                            *)
Follows(op, next, id) ==
    /\ waiting.op = op /\ waiting # Nothing /\ replies # <<>>
    /\ LET message == [op |-> next, id |-> id, alone |-> TRUE] IN
       waiting' = message /\ requests' = Append(requests, message)
    /\ replies' = Tail(replies) /\ buffer' = "clear"
    /\ UNCHANGED <<at, ids, twice>>
ModifiesOrder ==
    \/ Follows("VALIDATE_BILLING", "VALIDATE_ORDER", NoId)
    \/ Follows("VALIDATE_ORDER", "CHECK_BUYER", buyerID)
    \/ /\ replies # <<>> /\ Head(replies) = "CONFIRMATION"
       /\ Follows("CHECK_BUYER", "ORDER_DETAILS", NoId)
    \/ Follows("ORDER_DETAILS", "MOD_ORDER", NoId)
    \/ /\ Reads({"CHECK_BUYER"}) /\ Head(replies) # "CONFIRMATION"
       /\ Done(at) /\ UNCHANGED ids

(* The other functions show the reply and return.                          *)
ShowsReply ==
    /\ Reads({"VIEW_BUYER_ORDERS", "VIEW_BILLING", "VIEW_PRODUCTS", "COMPLETE_ORDER",
              "NEW_PRODUCT", "DELETE_PROD", "MOD_QUANT", "MOD_PRICE", "MOD_ORDER",
              "EDIT_NAME", "EDIT_NUMBER", "EDIT_ADDRESS"})
    /\ Done(at) /\ UNCHANGED ids

----------------------------------------------------------------------------
YesOrNo == {<<"CONFIRMATION">>, <<"INVALID">>}

(* Variant: nothing is sent when there is nothing to show.                 *)
AnswersUnlessEmpty(m) ==
    CASE m.op \in {"MOD_ORDER", "VIEW_BUYER_ORDERS"} -> {<<>>}
      [] m.op \in {"VALIDATE_BUYER", "VALIDATE_SELLER"} -> {<<"INVALID">>}
      [] OTHER -> {<<"data">>}

(* executeTaskOnServer: the replies a message may get.  A product that the *)
(* seller does not own is answered [INVALID] and then [CONFIRMATION];      *)
(* [MOD_ORDER] is not answered.  Seller, product and order ids are sent    *)
(* from single characters that no zero byte follows, so which ids arrive   *)
(* is open.                                                                *)
Answers(m) ==
    CASE m.op \in {"NEW_CLIENT_BUYER", "NEW_CLIENT_SELLER", "VIEW_BUYER_ORDERS",
                   "VIEW_BILLING", "VIEW_PRODUCTS", "ORDER_DETAILS"} -> {<<"data">>}
      [] m.op = "VALIDATE_BUYER" ->
           {IF m.id \in Registered THEN <<"CONFIRMATION">> ELSE <<"INVALID">>}
      [] m.op = "VALIDATE_SELLER" -> {<<"INVALID">>}
      [] m.op \in {"VALIDATE_BILLING", "VALIDATE_ORDER", "COMPLETE_ORDER", "CHECK_BUYER"} ->
           YesOrNo
      [] m.op = "NEW_PRODUCT" -> {<<"CONFIRMATION">>}
      [] m.op \in {"DELETE_PROD", "MOD_QUANT", "MOD_PRICE"} ->
           YesOrNo \cup (IF twice < MaxTwice THEN {<<"INVALID", "CONFIRMATION">>} ELSE {})
      [] m.op = "MOD_ORDER" -> {<<>>}
      [] m.op \in {"EDIT_NAME", "EDIT_NUMBER", "EDIT_ADDRESS"} -> {<<"CONFIRMATION">>}

(* [CHECK_BUYER] need not end (validateOrderIsBuyers).  An edit of an id   *)
(* that is not in the table may be the end of the data server, and so may  *)
(* one of an address that the user does not type in four parts; with an    *)
(* empty id the fields shift, and nothing is edited.                       *)
MayFail(m) ==
    \/ m.op = "CHECK_BUYER"
    \/ m.op = "EDIT_ADDRESS" /\ m.id # NoId
    \/ m.op \in {"EDIT_NAME", "EDIT_NUMBER"} /\ m.id \notin Registered \cup {NoId}

executeTaskOnServer ==
    /\ requests # <<>>
    /\ \E r \in Answers(Head(requests)) :
         /\ replies' = replies \o r
         /\ twice' = IF Len(r) = 2 THEN twice + 1 ELSE twice
    /\ requests' = Tail(requests)
    /\ UNCHANGED <<at, buffer, ids, waiting>>

Receive == Registers \/ LogsIn \/ ModifiesOrder \/ ShowsReply
Choose ==
    \/ initialMenu \/ buyerLogin \/ sellerLogin \/ buyerMenu \/ makeOrder \/ sellerMenu
    \/ editInfo("editBuyer", buyerID, "buyerMenu")
    \/ editInfo("editSeller", sellerID, "sellerMenu")

Next == Choose \/ Receive \/ executeTaskOnServer

Spec == Init /\ [][Next]_vars

(* The client reads a reply that is there, and the data server answers     *)
(* what it can.  Nobody has to choose.                                     *)
Takes == executeTaskOnServer /\ ~MayFail(Head(requests))
FairSpec == Spec /\ WF_vars(Receive) /\ WF_vars(Takes)

----------------------------------------------------------------------------
(* The replies are those of the messages sent and no more than the double  *)
(* answers ahead; only a reader has a reply or a message to wait for.      *)
TypeOK ==
    /\ at \in Menus \cup {"exited"} /\ buffer \in {"clear", "full"}
    /\ buyerID \in BuyerIds /\ sellerID \in {NoId, FirstChar}
    /\ waiting \in Messages \cup {Nothing}
    /\ requests \in Seq(Messages)
    /\ replies \in Seq({"CONFIRMATION", "INVALID", "data"})
    /\ twice \in 0..MaxTwice
    /\ waiting = Nothing => Len(replies) + Len(requests) <= twice

(* A message holds one command: what the buffer held before, the reply to  *)
(* the last message, is never sent with it, although userRegister and      *)
(* IDLogin join theirs to the buffer as they find it.                      *)
OneCommandPerMessage == \A i \in DOMAIN requests : requests[i].alone

(* As long as each message has been answered at most once, a buyer who got *)
(* to the buyer's menus with an id is registered with it, or has just been *)
(* given the id that the client keeps the first character of.              *)
LoginsAreChecked ==
    (twice = 0 /\ at \in {"buyerMenu", "makeOrder", "editBuyer"}) =>
        buyerID \in Registered \cup {FirstChar}

(* The client gets back to a menu after every message but those of         *)
(* modifyOrder, the last of which is never answered, and the others that   *)
(* may stay without an answer.                                             *)
MayHang(m) ==
    MayFail(m) \/ m.op \in {"VALIDATE_BILLING", "VALIDATE_ORDER", "ORDER_DETAILS", "MOD_ORDER"}
BackToMenu ==
    (waiting # Nothing /\ ~MayHang(waiting) /\ \A i \in DOMAIN requests : ~MayHang(requests[i]))
        ~> (waiting = Nothing)
=============================================================================
