------------------------ MODULE ClientSessionProofs ------------------------
(***************************************************************************)
(* Theorems about ClientSession, for any customers and any bound.          *)
(***************************************************************************)
EXTENDS ClientSession, TLAPS, SequenceTheorems

Front      == {"initialMenu", "buyerLogin", "sellerLogin"}
BuyerMenus == {"buyerMenu", "makeOrder", "editBuyer"}
LoginOps   == {"NEW_CLIENT_BUYER", "NEW_CLIENT_SELLER", "VALIDATE_BUYER", "VALIDATE_SELLER"}
ReplyKinds == {"CONFIRMATION", "INVALID", "data"}

Types ==
    /\ at \in Menus \cup {"exited"} /\ buffer \in {"clear", "full"}
    /\ buyerID \in BuyerIds /\ sellerID \in {NoId, FirstChar}
    /\ waiting \in Messages \cup {Nothing}
    /\ requests \in Seq(Messages) /\ replies \in Seq(ReplyKinds)
    /\ twice \in 0..MaxTwice

(* What is under way is what is waited for and the second answers.         *)
Balance ==
    Len(replies) + Len(requests) <= twice + (IF waiting = Nothing THEN 0 ELSE 1)

(* Before a login the buffer is clear whenever the user chooses, and only  *)
(* the messages of a login are sent.                                       *)
FrontInv ==
    /\ (waiting = Nothing /\ at \in Front) => buffer = "clear"
    /\ waiting # Nothing => (waiting.op \in LoginOps <=> at \in Front)

(* Until a command is answered twice, the id that is being validated is    *)
(* the one the client keeps, and so is the one a confirmation is about.    *)
LoginInv ==
    twice = 0 =>
        /\ at \in BuyerMenus => buyerID \in Registered \cup {FirstChar}
        /\ waiting # Nothing /\ waiting.op = "VALIDATE_BUYER" =>
             /\ requests # <<>> => Head(requests).op = "VALIDATE_BUYER"
                                   /\ Head(requests).id = buyerID
             /\ replies # <<>> /\ Head(replies) = "CONFIRMATION" => buyerID \in Registered

IInv == Types /\ Balance /\ OneCommandPerMessage /\ FrontInv /\ LoginInv

LEMMA MessageIsOne == \A m \in Messages : m # Nothing /\ m.op \in Ops /\ m.id \in BuyerIds
<1> SUFFICES ASSUME NEW m \in Messages PROVE m # Nothing /\ m.op \in Ops /\ m.id \in BuyerIds
  OBVIOUS
<1>1. m.op \in Ops /\ m.id \in BuyerIds
  BY DEF Messages
<1>2. m.op # "none"
  BY <1>1 DEF Ops
<1>. QED BY <1>1, <1>2 DEF Nothing

LEMMA SeqOps ==
    ASSUME NEW S, NEW s \in Seq(S)
    PROVE  /\ Len(s) \in Nat
           /\ Len(s) = 0 <=> s = <<>>
           /\ \A e \in S : /\ Append(s, e) \in Seq(S) /\ Len(Append(s, e)) = Len(s) + 1
                           /\ Append(s, e) # <<>>
                           /\ s = <<>> => Head(Append(s, e)) = e
           /\ s # <<>> => /\ Head(s) \in S /\ Tail(s) \in Seq(S)
                          /\ Len(s) > 0 /\ Len(Tail(s)) = Len(s) - 1
<1>1. Len(s) \in Nat /\ (Len(s) = 0 <=> s = <<>>)
  BY EmptySeq
<1>2. ASSUME NEW e \in S
      PROVE  /\ Append(s, e) \in Seq(S) /\ Len(Append(s, e)) = Len(s) + 1
             /\ Append(s, e) # <<>>
             /\ s = <<>> => Head(Append(s, e)) = e
  BY AppendProperties
<1>3. s # <<>> => /\ Head(s) \in S /\ Tail(s) \in Seq(S)
                  /\ Len(s) > 0 /\ Len(Tail(s)) = Len(s) - 1
  BY EmptySeq, HeadTailProperties
<1>. QED BY <1>1, <1>2, <1>3

LEMMA InitInv == Init => IInv
<1> SUFFICES ASSUME Init PROVE IInv
  OBVIOUS
<1>1. <<>> \in Seq(Messages) /\ <<>> \in Seq(ReplyKinds) /\ Len(<<>>) = 0
  BY EmptySeq
<1>2. Types
  BY <1>1, BoundAssumption DEF Init, Types, Menus, BuyerIds
<1>3. Balance /\ OneCommandPerMessage
  BY DEF Init, Balance, OneCommandPerMessage
<1>4. FrontInv /\ LoginInv
  BY DEF Init, FrontInv, LoginInv, BuyerMenus
<1>. QED BY <1>2, <1>3, <1>4 DEF IInv

----------------------------------------------------------------------------
(* What a user chooses is a menu or a message                              *)

Opens ==
    /\ waiting = Nothing /\ UNCHANGED <<ids, waiting, conn>>
    /\ at' \in Menus \cup {"exited"} /\ buffer' \in {"clear", "full"}
    /\ at' \in Front => buffer' = "clear"
    /\ at' \in BuyerMenus => at \in BuyerMenus

Sends(op, id) ==
    /\ waiting = Nothing /\ Send(op, id, TRUE)
    /\ op \in Ops /\ id \in BuyerIds
    /\ op \in LoginOps <=> at \in Front
    /\ sellerID' = sellerID /\ buyerID' \in BuyerIds
    /\ buyerID' = buyerID \/ at \in Front
    /\ op = "VALIDATE_BUYER" => id = buyerID'

(* A menu that opens a menu.                                               *)
LEMMA MenuOpens ==
    ASSUME IInv, NEW from \in Menus, Choosing(from), NEW menu \in Menus, OpenMenu(menu),
           menu \in Front => menu = "initialMenu" \/ from \in Front,
           menu \in BuyerMenus => from \in BuyerMenus
    PROVE  Opens
BY DEF IInv, Types, FrontInv, Choosing, OpenMenu, Opens, ids, conn, Front

LEMMA QuitOpens == ASSUME IInv, NEW from, Choosing(from), Quit PROVE Opens
BY DEF IInv, Types, Choosing, Quit, Stay, Opens, ids, conn, Front, BuyerMenus

(* A menu behind a login sends a message about an id the client keeps.     *)
LEMMA ComposeSends ==
    ASSUME IInv, NEW from, Choosing(from), from \notin Front, NEW op \in Ops \ LoginOps,
           NEW id \in {NoId, buyerID, sellerID}, Compose(op, id)
    PROVE  Sends(op, id)
<1>1. id \in BuyerIds
  BY DEF IInv, Types, BuyerIds
<1>2. op # "VALIDATE_BUYER"
  BY DEF LoginOps
<1>. QED BY <1>1, <1>2 DEF IInv, Types, Choosing, Compose, Sends, ids

(* Before a login the buffer that a message is joined to is clear.         *)
LEMMA LoginSends ==
    ASSUME IInv, NEW from \in Front, Choosing(from),
           NEW op \in LoginOps, NEW id \in BuyerIds,
           Send(op, id, buffer = "clear"), sellerID' = sellerID,
           buyerID' \in BuyerIds, op = "VALIDATE_BUYER" => id = buyerID'
    PROVE  Sends(op, id)
<1>1. buffer = "clear" /\ waiting = Nothing /\ at \in Front
  BY DEF IInv, FrontInv, Choosing
<1>2. (buffer = "clear") = TRUE
  BY <1>1
<1>3. Send(op, id, TRUE)
  BY <1>2 DEF Send
<1>4. op \in Ops
  BY DEF LoginOps, Ops
<1>. QED BY <1>1, <1>3, <1>4 DEF Sends

LEMMA ChooseCases ==
    ASSUME IInv, Choose PROVE Opens \/ \E op, id : Sends(op, id)
<1> USE DEF Front, BuyerMenus, Menus
<1>1. CASE initialMenu
  BY <1>1, MenuOpens, QuitOpens DEF initialMenu
<1>2. CASE buyerLogin
  <2>1. Choosing("buyerLogin")
    BY <1>2 DEF buyerLogin
  <2>2. CASE userRegister("NEW_CLIENT_BUYER")
    <3>1. buyerID' = buyerID /\ sellerID' = sellerID
      BY <2>2 DEF userRegister, Join, ids
    <3>2. NoId \in BuyerIds /\ buyerID \in BuyerIds
      BY DEF IInv, Types, BuyerIds
    <3>. QED BY <2>1, <2>2, <3>1, <3>2, LoginSends DEF userRegister, Join, LoginOps
  <2>3. CASE IDLogin(0)
    BY <2>1, <2>3, LoginSends DEF IDLogin, LoginOps, BuyerIds
  <2>. QED BY <1>2, <2>1, <2>2, <2>3, MenuOpens, QuitOpens DEF buyerLogin
<1>3. CASE sellerLogin
  <2>1. Choosing("sellerLogin")
    BY <1>3 DEF sellerLogin
  <2>2. CASE userRegister("NEW_CLIENT_SELLER")
    <3>1. buyerID' = buyerID /\ sellerID' = sellerID
      BY <2>2 DEF userRegister, Join, ids
    <3>2. NoId \in BuyerIds /\ buyerID \in BuyerIds
      BY DEF IInv, Types, BuyerIds
    <3>. QED BY <2>1, <2>2, <3>1, <3>2, LoginSends DEF userRegister, Join, LoginOps
  <2>3. CASE IDLogin(1)
    BY <2>1, <2>3, LoginSends DEF IDLogin, LoginOps, BuyerIds
  <2>. QED BY <1>3, <2>1, <2>2, <2>3, MenuOpens, QuitOpens DEF sellerLogin
<1>4. CASE buyerMenu
  <2>1. Choosing("buyerMenu")
    BY <1>4 DEF buyerMenu
  <2>2. CASE viewOrder \/ modifyOrder \/ viewBill
    BY <2>1, <2>2, ComposeSends DEF viewOrder, modifyOrder, viewBill, Ops, LoginOps
  <2>. QED BY <1>4, <2>1, <2>2, MenuOpens, QuitOpens DEF buyerMenu
<1>5. CASE makeOrder
  <2>1. Choosing("makeOrder")
    BY <1>5 DEF makeOrder
  <2>2. CASE viewProducts(NoId) \/ completeOrder
    BY <2>1, <2>2, ComposeSends DEF viewProducts, completeOrder, Ops, LoginOps
  <2>. QED BY <1>5, <2>1, <2>2, MenuOpens, QuitOpens DEF makeOrder, addProduct
<1>6. CASE sellerMenu
  <2>1. Choosing("sellerMenu")
    BY <1>6 DEF sellerMenu
  <2>2. CASE \/ viewProducts(sellerID) \/ addNewProduct \/ deleteProduct
             \/ modifyQuantity \/ modifyPrice \/ viewOrder
    BY <2>1, <2>2, ComposeSends
       DEF viewProducts, addNewProduct, deleteProduct, modifyQuantity, modifyPrice,
           viewOrder, Ops, LoginOps
  <2>. QED BY <1>6, <2>1, <2>2, MenuOpens, QuitOpens DEF sellerMenu
<1>7. ASSUME NEW menu \in {"editBuyer", "editSeller"}, NEW id \in {buyerID, sellerID},
             NEW back \in Menus \ Front, back \in BuyerMenus => menu \in BuyerMenus,
             editInfo(menu, id, back)
      PROVE  Opens \/ \E op, i : Sends(op, i)
  <2>1. Choosing(menu)
    BY <1>7 DEF editInfo
  <2>2. ASSUME NEW op \in {"EDIT_NAME", "EDIT_NUMBER", "EDIT_ADDRESS"}, Compose(op, id)
        PROVE  Sends(op, id)
    BY <2>1, <2>2, ComposeSends DEF Ops, LoginOps
  <2>. QED BY <1>7, <2>1, <2>2, MenuOpens DEF editInfo
<1>. QED BY <1>1, <1>2, <1>3, <1>4, <1>5, <1>6, <1>7 DEF Choose

LEMMA OpensKeeps == ASSUME IInv, Opens PROVE IInv'
<1>1. Types' /\ Balance' /\ OneCommandPerMessage'
  BY DEF IInv, Opens, Types, Balance, OneCommandPerMessage, ids, conn
<1>2. FrontInv'
  BY DEF IInv, Opens, FrontInv
<1>3. LoginInv'
  BY DEF IInv, Opens, LoginInv, ids, conn
<1>. QED BY <1>1, <1>2, <1>3 DEF IInv

(* One more whole message.                                                 *)
LEMMA AppendAlone ==
    ASSUME OneCommandPerMessage, requests \in Seq(Messages), NEW m \in Messages, m.alone,
           requests' = Append(requests, m)
    PROVE  OneCommandPerMessage'
<1>1. ASSUME NEW i \in DOMAIN requests' PROVE requests'[i].alone
  <2>1. CASE i = Len(requests) + 1
    BY <2>1, AppendProperties
  <2>2. CASE i # Len(requests) + 1
    <3>1. i \in DOMAIN requests /\ requests'[i] = requests[i]
      BY <2>2
    <3>. QED BY <3>1 DEF OneCommandPerMessage
  <2>. QED BY <2>1, <2>2
<1>. QED BY <1>1 DEF OneCommandPerMessage

LEMMA SendsKeeps == ASSUME IInv, NEW op, NEW id, Sends(op, id) PROVE IInv'
<1> DEFINE m == [op |-> op, id |-> id, alone |-> TRUE]
<1>1. /\ requests' = Append(requests, m) /\ waiting' = m /\ waiting = Nothing
      /\ buffer' = "clear" /\ at' = at /\ replies' = replies /\ twice' = twice
  BY DEF Sends, Send
<1>2. m \in Messages /\ m # Nothing
  BY MessageIsOne DEF Sends, Messages
<1>3. Types'
  BY <1>1, <1>2, SeqOps DEF IInv, Types, Sends
<1>4. Balance'
  <2>1. Len(requests') = Len(requests) + 1
    BY <1>1, <1>2, SeqOps DEF IInv, Types
  <2>2. Len(requests) \in Nat /\ Len(replies) \in Nat /\ twice \in Nat
    BY SeqOps, BoundAssumption DEF IInv, Types
  <2>. QED BY <1>1, <1>2, <2>1, <2>2 DEF IInv, Balance
<1>5. OneCommandPerMessage'
  BY <1>1, <1>2, AppendAlone DEF IInv, Types
<1>6. FrontInv'
  BY <1>1, <1>2 DEF FrontInv, Sends
<1>7. LoginInv'
  <2> SUFFICES ASSUME twice' = 0 PROVE LoginInv'
    BY DEF LoginInv
  <2>1. requests = <<>> /\ replies = <<>>
    <3>1. Len(requests) \in Nat /\ Len(replies) \in Nat
      BY SeqOps DEF IInv, Types
    <3>2. Len(requests) + Len(replies) <= 0
      BY <1>1, <3>1 DEF IInv, Balance
    <3>. QED BY <3>1, <3>2, SeqOps DEF IInv, Types
  <2>2. Head(requests') = m /\ replies' = <<>>
    BY <1>1, <1>2, <2>1, SeqOps DEF IInv, Types
  <2>3. at' \in BuyerMenus => buyerID' \in Registered \cup {FirstChar}
    BY <1>1 DEF Sends, Front, BuyerMenus, IInv, LoginInv
  <2>4. op = "VALIDATE_BUYER" => m.id = buyerID'
    BY DEF Sends
  <2>5. m.op = op
    OBVIOUS
  <2>. QED BY <1>1, <2>2, <2>3, <2>4, <2>5 DEF LoginInv
<1>. QED BY <1>3, <1>4, <1>5, <1>6, <1>7 DEF IInv

----------------------------------------------------------------------------
(* The reply that is read                                                  *)

(* The reply is gone; whether or not the client goes on.                   *)
LEMMA ReadFacts ==
    ASSUME IInv, waiting # Nothing, replies # <<>>, replies' = Tail(replies)
    PROVE  /\ replies' \in Seq(ReplyKinds) /\ Len(replies') = Len(replies) - 1
           /\ Len(replies) \in Nat /\ Len(requests) \in Nat /\ twice \in Nat
           /\ Len(replies) + Len(requests) <= twice + 1
           /\ waiting \in Messages
<1>1. replies \in Seq(ReplyKinds) /\ requests \in Seq(Messages) /\ twice \in Nat
  BY BoundAssumption DEF IInv, Types
<1>2. Len(replies) + Len(requests) <= twice + 1
  BY DEF IInv, Balance
<1>. QED BY <1>1, <1>2, SeqOps DEF IInv, Types

(* The client returns to a menu.                                           *)
LEMMA ReturnKeeps ==
    ASSUME IInv, Read, NEW menu \in Menus, Done(menu),
           buyerID' \in BuyerIds, sellerID' \in {NoId, FirstChar},
           menu \in Front => menu = "initialMenu",
           twice = 0 /\ menu \in BuyerMenus => buyerID' \in Registered \cup {FirstChar}
    PROVE  IInv'
<1>1. /\ waiting' = Nothing /\ at' = menu
      /\ buffer' = IF menu = "initialMenu" THEN "clear" ELSE "full"
      /\ requests' = requests /\ twice' = twice /\ replies' = Tail(replies)
      /\ replies # <<>> /\ waiting # Nothing
  BY DEF Read, Done
<1>2. Types'
  BY <1>1, ReadFacts DEF IInv, Types
<1>3. Balance'
  BY <1>1, ReadFacts DEF Balance
<1>4. OneCommandPerMessage'
  BY <1>1 DEF IInv, OneCommandPerMessage
<1>5. FrontInv' /\ LoginInv'
  BY <1>1 DEF FrontInv, LoginInv
<1>. QED BY <1>2, <1>3, <1>4, <1>5 DEF IInv

LEMMA RegistersKeeps == ASSUME IInv, Registers PROVE IInv'
<1>1. CASE Reads({"NEW_CLIENT_BUYER"}) /\ Done("buyerMenu")
           /\ buyerID' = FirstChar /\ UNCHANGED sellerID
  BY <1>1, ReturnKeeps DEF Reads, Menus, BuyerIds, Front, IInv, Types
<1>2. CASE Reads({"NEW_CLIENT_SELLER"}) /\ Done("sellerMenu")
           /\ sellerID' = FirstChar /\ UNCHANGED buyerID
  BY <1>2, ReturnKeeps DEF Reads, Menus, BuyerIds, Front, BuyerMenus, IInv, Types
<1>. QED BY <1>1, <1>2 DEF Registers

LEMMA LogsInKeeps == ASSUME IInv, LogsIn PROVE IInv'
<1>1. buyerID' = buyerID /\ sellerID' = sellerID
      /\ buyerID \in BuyerIds /\ sellerID \in {NoId, FirstChar}
  BY DEF LogsIn, ids, IInv, Types
<1>2. CASE Reads({"VALIDATE_BUYER"})
           /\ Done(IF Head(replies) = "CONFIRMATION" THEN "buyerMenu" ELSE "initialMenu")
  <2> DEFINE menu == IF Head(replies) = "CONFIRMATION" THEN "buyerMenu" ELSE "initialMenu"
  <2>1. Read /\ waiting.op = "VALIDATE_BUYER" /\ waiting # Nothing /\ replies # <<>>
    BY <1>2 DEF Reads, Read
  <2>2. twice = 0 /\ Head(replies) = "CONFIRMATION" => buyerID \in Registered
    BY <2>1 DEF IInv, LoginInv
  <2>3. menu \in Menus /\ (menu \in Front => menu = "initialMenu")
        /\ (menu \in BuyerMenus => Head(replies) = "CONFIRMATION")
    BY DEF Menus, Front, BuyerMenus
  <2>. HIDE DEF menu
  <2>4. Done(menu)
    BY <1>2 DEF menu
  <2>. QED BY <1>1, <2>1, <2>2, <2>3, <2>4, ReturnKeeps
<1>3. CASE Reads({"VALIDATE_SELLER"})
           /\ Done(IF Head(replies) = "CONFIRMATION" THEN "sellerMenu" ELSE "initialMenu")
  <2> DEFINE menu == IF Head(replies) = "CONFIRMATION" THEN "sellerMenu" ELSE "initialMenu"
  <2>1. menu \in Menus /\ (menu \in Front => menu = "initialMenu") /\ menu \notin BuyerMenus
    BY DEF Menus, Front, BuyerMenus
  <2>. HIDE DEF menu
  <2>2. Done(menu) /\ Read
    BY <1>3 DEF menu, Reads
  <2>. QED BY <1>1, <2>1, <2>2, ReturnKeeps
<1>. QED BY <1>2, <1>3 DEF LogsIn

(* A function that leaves the user in the menu he chose it from.           *)
LEMMA BackKeeps ==
    ASSUME IInv, Read, waiting.op \notin LoginOps, Done(at), UNCHANGED ids PROVE IInv'
<1>1. waiting # Nothing /\ at \notin Front
  BY DEF IInv, FrontInv, Read
<1>2. at \in Menus \/ at = "exited"
  BY DEF IInv, Types
<1>3. /\ waiting' = Nothing /\ at' = at /\ buffer' = "full"
      /\ requests' = requests /\ twice' = twice /\ replies' = Tail(replies)
      /\ replies # <<>> /\ buyerID' = buyerID /\ sellerID' = sellerID
  BY <1>1 DEF Read, Done, Front, ids
<1>4. Types'
  BY <1>1, <1>2, <1>3, ReadFacts DEF IInv, Types
<1>5. Balance'
  BY <1>1, <1>3, ReadFacts DEF Balance
<1>6. OneCommandPerMessage'
  BY <1>3 DEF IInv, OneCommandPerMessage
<1>7. FrontInv' /\ LoginInv'
  BY <1>1, <1>3 DEF IInv, FrontInv, LoginInv
<1>. QED BY <1>4, <1>5, <1>6, <1>7 DEF IInv

(* modifyOrder reads a reply and sends its next message.                   *)
LEMMA FollowsKeeps ==
    ASSUME IInv, NEW op \in Ops \ LoginOps, NEW next \in Ops \ LoginOps, NEW id \in BuyerIds,
           Follows(op, next, id)
    PROVE  IInv'
<1> DEFINE m == [op |-> next, id |-> id, alone |-> TRUE]
<1>1. /\ waiting.op = op /\ waiting # Nothing /\ replies # <<>>
      /\ waiting' = m /\ requests' = Append(requests, m) /\ replies' = Tail(replies)
      /\ buffer' = "clear" /\ at' = at /\ twice' = twice
      /\ buyerID' = buyerID /\ sellerID' = sellerID
  BY DEF Follows, ids
<1>2. m \in Messages /\ m # Nothing /\ m.op = next /\ m.alone
  BY MessageIsOne DEF Messages
<1>3. at \notin Front
  BY <1>1 DEF IInv, FrontInv
<1> HIDE DEF m
<1>4. requests' \in Seq(Messages) /\ Len(requests') = Len(requests) + 1
  BY <1>1, <1>2, SeqOps DEF IInv, Types
<1>5. Types'
  BY <1>1, <1>2, <1>4, ReadFacts DEF IInv, Types
<1>6. Balance'
  BY <1>1, <1>2, <1>4, ReadFacts DEF Balance
<1>7. OneCommandPerMessage'
  BY <1>1, <1>2, AppendAlone DEF IInv, Types
<1>8. FrontInv' /\ LoginInv'
  <2>1. m.op # "VALIDATE_BUYER" /\ m.op \notin LoginOps
    BY <1>2 DEF LoginOps
  <2>. QED BY <1>1, <1>2, <1>3, <2>1 DEF IInv, FrontInv, LoginInv
<1>. QED BY <1>5, <1>6, <1>7, <1>8 DEF IInv

LEMMA ReceiveKeeps == ASSUME IInv, Receive PROVE IInv'
<1> USE DEF Ops, LoginOps
<1>1. CASE ModifiesOrder
  <2>1. NoId \in BuyerIds /\ buyerID \in BuyerIds
    BY DEF IInv, Types, BuyerIds
  <2>2. CASE Reads({"CHECK_BUYER"}) /\ Done(at) /\ UNCHANGED ids
    BY <2>2, BackKeeps DEF Reads
  <2>. QED BY <1>1, <2>1, <2>2, FollowsKeeps DEF ModifiesOrder
<1>2. CASE ShowsReply
  BY <1>2, BackKeeps DEF ShowsReply, Reads
<1>. QED BY <1>1, <1>2, RegistersKeeps, LogsInKeeps DEF Receive

----------------------------------------------------------------------------
(* The data server's answers                                               *)

Single == {<<"CONFIRMATION">>, <<"INVALID">>, <<"data">>}

(* None, one or two replies; a login is confirmed only to who is known.    *)
LEMMA AnswerCases ==
    ASSUME NEW m \in Messages, NEW r \in Answers(m)
    PROVE  /\ r \in Single \cup {<<>>, <<"INVALID", "CONFIRMATION">>}
           /\ r = <<"INVALID", "CONFIRMATION">> => twice < MaxTwice
           /\ m.op = "VALIDATE_BUYER" =>
                r = IF m.id \in Registered THEN <<"CONFIRMATION">> ELSE <<"INVALID">>
<1>1. m.op \in Ops
  BY MessageIsOne
<1>2. CASE m.op = "VALIDATE_BUYER"
  BY <1>2 DEF Answers, Single
<1>3. CASE m.op \in {"DELETE_PROD", "MOD_QUANT", "MOD_PRICE"}
  BY <1>3 DEF Answers, YesOrNo, Single
<1>4. CASE m.op \in Ops \ {"VALIDATE_BUYER", "DELETE_PROD", "MOD_QUANT", "MOD_PRICE"}
  BY <1>4 DEF Answers, YesOrNo, Single, Ops
<1>. QED BY <1>1, <1>2, <1>3, <1>4

LEMMA AnswerLengths ==
    ASSUME NEW r \in Single \cup {<<>>, <<"INVALID", "CONFIRMATION">>}
    PROVE  /\ r \in Seq(ReplyKinds) /\ Len(r) \in 0..2
           /\ Len(r) = 2 => r = <<"INVALID", "CONFIRMATION">>
<1>1. \A x \in ReplyKinds : <<x>> \in Seq(ReplyKinds) /\ Len(<<x>>) = 1
  OBVIOUS
<1>2. CASE r \in Single
  <2>1. PICK x \in ReplyKinds : r = <<x>>
    BY <1>2 DEF Single, ReplyKinds
  <2>2. r \in Seq(ReplyKinds) /\ Len(r) = 1
    BY <1>1, <2>1
  <2>. QED BY <2>2
<1>3. CASE r = <<>>
  BY <1>3
<1>4. CASE r = <<"INVALID", "CONFIRMATION">>
  BY <1>4 DEF ReplyKinds
<1>. QED BY <1>2, <1>3, <1>4

(* The second reply is the one that is counted.                            *)
LEMMA SecondReply ==
    ASSUME NEW n \in 0..2, NEW k \in Nat, NEW next, next = IF n = 2 THEN k + 1 ELSE k
    PROVE  next \in Nat /\ n <= 1 + (next - k)
<1>1. CASE n = 2
  BY <1>1
<1>2. CASE n # 2
  BY <1>2
<1>. QED BY <1>1, <1>2

LEMMA ExecuteKeeps == ASSUME IInv, executeTaskOnServer PROVE IInv'
<1>1. PICK r \in Answers(Head(requests)) :
        /\ replies' = replies \o r
        /\ twice' = IF Len(r) = 2 THEN twice + 1 ELSE twice
  BY DEF executeTaskOnServer
<1>2. /\ requests # <<>> /\ requests' = Tail(requests)
      /\ at' = at /\ buffer' = buffer /\ waiting' = waiting
      /\ buyerID' = buyerID /\ sellerID' = sellerID
  BY DEF executeTaskOnServer, ids
<1>3. /\ requests \in Seq(Messages) /\ replies \in Seq(ReplyKinds)
      /\ twice \in Nat /\ twice <= MaxTwice
  BY BoundAssumption DEF IInv, Types
<1>4. /\ Head(requests) \in Messages /\ requests' \in Seq(Messages)
      /\ Len(requests') = Len(requests) - 1
      /\ Len(requests) \in Nat /\ Len(replies) \in Nat
  BY <1>2, <1>3, SeqOps
<1>5. /\ r \in Seq(ReplyKinds) /\ Len(r) \in 0..2
      /\ Len(r) = 2 => twice < MaxTwice
  <2>1. /\ r \in Single \cup {<<>>, <<"INVALID", "CONFIRMATION">>}
        /\ r = <<"INVALID", "CONFIRMATION">> => twice < MaxTwice
    BY <1>4, AnswerCases
  <2>. QED BY <2>1, AnswerLengths
<1>6. /\ replies' \in Seq(ReplyKinds) /\ Len(replies') = Len(replies) + Len(r)
  BY <1>1, <1>3, <1>5, ConcatProperties
<1>7. Types'
  <2>1. twice' \in 0..MaxTwice
    BY <1>1, <1>3, <1>5, BoundAssumption
  <2>. QED BY <1>2, <1>4, <1>6, <2>1 DEF IInv, Types
<1>8. Balance'
  <2>1. Len(replies) + Len(requests) <= twice + (IF waiting = Nothing THEN 0 ELSE 1)
    BY DEF IInv, Balance
  <2>2. Len(r) <= 1 + (twice' - twice) /\ twice' \in Nat
    BY <1>1, <1>3, <1>5, SecondReply
  <2>3. Len(replies') = Len(replies) + Len(r) /\ Len(requests') = Len(requests) - 1
    BY <1>4, <1>6
  <2>. QED BY <1>2, <1>3, <1>4, <1>5, <2>1, <2>2, <2>3 DEF Balance
<1>9. OneCommandPerMessage'
  <2>1. ASSUME NEW i \in DOMAIN requests' PROVE requests'[i].alone
    <3>1. i + 1 \in DOMAIN requests /\ requests'[i] = requests[i + 1]
      BY <1>2, <1>3, HeadTailProperties
    <3>. QED BY <3>1 DEF IInv, OneCommandPerMessage
  <2>. QED BY <2>1 DEF OneCommandPerMessage
<1>10. FrontInv'
  BY <1>2 DEF IInv, FrontInv
<1>11. LoginInv'
  <2> SUFFICES ASSUME twice' = 0 PROVE LoginInv'
    BY DEF LoginInv
  <2>1. twice = 0
    BY <1>1, <1>3
  <2>2. at' \in BuyerMenus => buyerID' \in Registered \cup {FirstChar}
    BY <1>2, <2>1 DEF IInv, LoginInv
  <2>3. ASSUME waiting # Nothing, waiting.op = "VALIDATE_BUYER"
        PROVE  requests' = <<>> /\ (Head(replies') = "CONFIRMATION" => buyerID \in Registered)
    <3>1. Len(requests) <= 1 /\ Len(replies) = 0 /\ Len(requests') = 0
      <4>1. Len(requests) > 0
        BY <1>2, <1>3, SeqOps
      <4>2. Len(replies) + Len(requests) <= 1
        BY <2>1, <2>3 DEF IInv, Balance
      <4>. QED BY <1>4, <4>1, <4>2
    <3>2. requests' = <<>> /\ replies = <<>>
      BY <1>3, <1>4, <3>1, SeqOps
    <3>3. replies' = r
      BY <1>1, <1>5, <3>2, ConcatProperties
    <3>4. Head(requests).op = "VALIDATE_BUYER" /\ Head(requests).id = buyerID
      BY <1>2, <2>1, <2>3 DEF IInv, LoginInv
    <3>5. r = IF buyerID \in Registered THEN <<"CONFIRMATION">> ELSE <<"INVALID">>
      BY <1>4, <3>4, AnswerCases
    <3>6. Head(<<"INVALID">>) # "CONFIRMATION"
      OBVIOUS
    <3>. QED BY <3>2, <3>3, <3>5, <3>6
  <2>. QED BY <1>2, <2>2, <2>3 DEF LoginInv
<1>. QED BY <1>7, <1>8, <1>9, <1>10, <1>11 DEF IInv

----------------------------------------------------------------------------
LEMMA StutterKeeps == ASSUME IInv, UNCHANGED vars PROVE IInv'
<1>1. Types' /\ Balance' /\ OneCommandPerMessage'
  BY DEF vars, IInv, Types, Balance, OneCommandPerMessage
<1>2. FrontInv' /\ LoginInv'
  BY DEF vars, IInv, FrontInv, LoginInv
<1>. QED BY <1>1, <1>2 DEF IInv

LEMMA Inductive == IInv /\ [Next]_vars => IInv'
<1> SUFFICES ASSUME IInv, [Next]_vars PROVE IInv'
  OBVIOUS
<1>1. CASE Choose
  BY <1>1, ChooseCases, OpensKeeps, SendsKeeps
<1>. QED BY <1>1, ReceiveKeeps, ExecuteKeeps, StutterKeeps DEF Next

LEMMA Consequences == IInv => TypeOK /\ LoginsAreChecked
<1> SUFFICES ASSUME IInv PROVE TypeOK /\ LoginsAreChecked
  OBVIOUS
<1>1. Len(replies) \in Nat /\ Len(requests) \in Nat
  BY SeqOps DEF IInv, Types
<1>2. waiting = Nothing => Len(replies) + Len(requests) <= twice
  BY BoundAssumption, <1>1 DEF IInv, Balance, Types
<1>3. TypeOK
  BY <1>2 DEF IInv, Types, TypeOK, ReplyKinds
<1>4. LoginsAreChecked
  BY DEF IInv, LoginInv, LoginsAreChecked, BuyerMenus
<1>. QED BY <1>3, <1>4

(* The variables keep their types, and what is under way is what is waited *)
(* for and the second answers that were sent.                              *)
THEOREM TypeCorrect == Spec => []TypeOK
<1>. QED BY InitInv, Inductive, Consequences, PTL DEF Spec

(* No message carries the reply to an earlier one: the buffer is clear     *)
(* wherever userRegister and IDLogin join a command to it.                 *)
THEOREM MessagesAreWhole == Spec => []OneCommandPerMessage
<1>1. IInv => OneCommandPerMessage
  BY DEF IInv
<1>. QED BY InitInv, Inductive, <1>1, PTL DEF Spec

(* Until a command is answered twice, only customers get to the buyer's    *)
(* menus by logging in.                                                    *)
THEOREM OnlyCustomersLogIn == Spec => []LoginsAreChecked
<1>. QED BY InitInv, Inductive, Consequences, PTL DEF Spec
=============================================================================
