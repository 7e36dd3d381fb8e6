-------------------------------- MODULE Shop --------------------------------
(***************************************************************************)
(* What the data server's commands do to the tables: the threads of        *)
(* executeTaskOnServer change the files of module FlatFile, and the data   *)
(* server may be stopped between any two steps and started again.          *)
(*                                                                         *)
(* The locks are taken and released in one step each: the order in which   *)
(* a command takes them, and its readers, are module RWLocks; here only    *)
(* what may happen to the files meanwhile matters.                         *)
(***************************************************************************)
EXTENDS FlatFile, FiniteSets

CONSTANTS
    Threads,
    Commands,      \* the requests that may arrive
    NewIds,        \* what generateUID may return
    InitialFiles,
    MaxCommands,   \* bound: requests taken
    MaxCrashes     \* bound: stops that no load caused

(* What clients send: fields between commas, so none holds a line end, and *)
(* numbers, which are read with atoi.  The ids of the buyer and the order  *)
(* have been validated, and the client keeps for a seller the first digit  *)
(* of an id that generateUID drew: none is 0 (a client that took a stray   *)
(* reply for its id is left out).  At an item 0 the list of an order ends. *)
Valid == Int \ {0}
Requests ==
    [op : {"COMPLETE_ORDER"}, buyer : Valid,
     lines : Seq([item : Valid, quantity : Int, price : Int])]
      \cup [op : {"MOD_ORDER"}, order : Valid, item : Int]
      \cup [op : {"EDIT_INFO"}, buyer : Valid, column : {Name, Address}, name : Fields]
      \cup [op : {"EDIT_ROW"}, table : {Customer, Sellers}, buyer : Valid,
            column : {Name, Phone, Address}, name : Fields]
      \cup [op : {"NEW_CLIENT"}, table : {Customer, Sellers}, name : Fields, address : Fields]
      \cup [op : {"NEW_PRODUCT"}, seller : Valid, name : Fields, quantity : Int, price : Int]
      \cup [op : {"DELETE_PROD"}, seller : Valid, item : Int]
      \cup [op : {"MOD_QUANT"}, seller : Valid, item : Int, quantity : Int]
      \cup [op : {"MOD_PRICE"}, seller : Valid, item : Int, price : Int]
      \cup [op : {"VIEW"}, table : Tables]

ASSUME CommandsAssumption == Commands \subseteq Requests /\ NewIds \subseteq Int
ASSUME BoundsAssumption == MaxCommands \in Nat /\ MaxCrashes \in Nat
ASSUME FilesAssumption == InitialFiles \in [Tables -> TextFiles]

VARIABLES
    text,          \* per table: the file
    command,       \* per thread: the request it works on
    phase,         \* per thread: "idle", "accepted", "writing" or "open"
    todo,          \* per thread: the tables it has still to write back
    memory,        \* per thread: the tables it writes back
    output,        \* per thread: what it is writing into the open file
    taken,         \* requests taken
    crashes,
    torn,          \* history: the files a stop has left empty, or ahead of another
    confirmed,     \* history: orders answered with [CONFIRMATION]
    ledger,        \* history: per product, the stock it should have
    spoilt         \* history: products whose stock has come to 0 or below,
                   \* or whose number has been drawn for another

files   == <<text, torn, ledger, spoilt>>
threads == <<command, phase, todo, memory, output>>
vars    == <<text, command, phase, todo, memory, output, taken, crashes, torn,
             confirmed, ledger, spoilt>>

NoCommand  == [op |-> "none"]
StockOf(rows) ==
    [p \in {rows[i][Id] : i \in DOMAIN rows} |->
        rows[CHOOSE i \in DOMAIN rows : rows[i][Id] = p][Quantity]]

----------------------------------------------------------------------------
(* The tables a command locks, in no order.  [COMPLETE_ORDER] also reads   *)
(* CustomerInfo, without its lock.                                         *)
ProductOps == {"NEW_PRODUCT", "DELETE_PROD", "MOD_QUANT", "MOD_PRICE"}

(* Variant: a seller's change takes no lock.                               *)
LocksOrdersOnly(cmd) ==
    CASE cmd.op = "COMPLETE_ORDER" -> {Product, Billing, Orders}
      [] cmd.op = "MOD_ORDER" -> {Billing, Orders}
      [] cmd.op = "EDIT_INFO" -> {Customer, Billing, Orders}
      [] OTHER -> {}

Locks(cmd) ==
    CASE cmd.op = "COMPLETE_ORDER" -> {Product, Billing, Orders}
      [] cmd.op = "MOD_ORDER" -> {Billing, Orders}
      [] cmd.op = "EDIT_INFO" -> {Customer, Billing, Orders}
      [] cmd.op \in ProductOps -> {Product}
      [] cmd.op \in {"NEW_CLIENT", "EDIT_ROW"} -> {cmd.table}
      [] OTHER -> {}

(* Variant: the lines of an order are written before its bill.             *)
WritesLinesFirst(cmd) ==
    CASE cmd.op = "COMPLETE_ORDER" -> <<Product, Orders, Billing>>
      [] cmd.op = "MOD_ORDER" -> <<Orders, Billing>>
      [] cmd.op = "EDIT_INFO" -> <<Customer, Billing, Orders>>
      [] cmd.op \in ProductOps -> <<Product>>
      [] OTHER -> <<cmd.table>>

(* The tables a command writes back, in this order.                        *)
Writes(cmd) ==
    CASE cmd.op = "COMPLETE_ORDER" -> <<Product, Billing, Orders>>
      [] cmd.op = "MOD_ORDER" -> <<Orders, Billing>>
      [] cmd.op = "EDIT_INFO" -> <<Customer, Billing, Orders>>
      [] cmd.op \in ProductOps -> <<Product>>
      [] OTHER -> <<cmd.table>>

(* What it loads before it writes anything.                                *)
LoadsFirst(cmd) ==
    CASE cmd.op = "COMPLETE_ORDER" -> Tables \ {Sellers}
      [] cmd.op = "EDIT_INFO" -> {Customer}
      [] OTHER -> Locks(cmd)

----------------------------------------------------------------------------
(* The first row of rows with this id; some commands look for it with no   *)
(* other end to their loop.                                                *)
Has(rows, id) == \E i \in DOMAIN rows : rows[i][Id] = id
RowOf(rows, id) ==
    CHOOSE i \in DOMAIN rows :
        rows[i][Id] = id /\ \A k \in 1..(i - 1) : rows[k][Id] # id

(* validateID: as a reader, before the lock that the change needs.         *)
validateID(t, id) == Has(UpToFree(t, Load(t, text[t])), id)

(* validateBuyerOrder: each line on its own.                               *)
validateBuyerOrder(lines, products) ==
    LET known == UpToFree(Product, products) IN
    \A i \in DOMAIN lines :
        /\ Has(known, lines[i].item)
        /\ \A j \in DOMAIN known :
             known[j][Id] = lines[i].item => lines[i].quantity <= known[j][Quantity]

(* writeNewProductQuantityFromOrder                                        *)
Deducted(lines, products) ==
    FoldLeft(LAMBDA rows, l : [rows EXCEPT ![RowOf(rows, l.item)][Quantity] =
                                   @ - l.quantity],
             products, lines)

(* writeOrderToBillingInfo, writeOrderToCustomerOrder: the price is what   *)
(* the buyer sends.                                                        *)
LineCost(l) == l.quantity * l.price
Bill(cmd, id, who) ==
    <<id, cmd.buyer, who, FoldLeft(LAMBDA sum, l : sum + LineCost(l), 0, cmd.lines)>>
WithLines(cmd, id, who, orders) ==
    LET new == [i \in DOMAIN cmd.lines |->
                  LET l == cmd.lines[i] IN <<id, l.item, l.quantity, who, LineCost(l)>>] IN
    UpToFree(Orders, orders) \o new
        \o SubSeq(orders, FreeRow(Orders, orders) + Len(new), Len(orders))

completeAnOrder(cmd, id, rows) ==
    LET who == rows[Customer][RowOf(rows[Customer], cmd.buyer)][Who[Customer]] IN
    [t \in {Product, Billing, Orders} |->
        CASE t = Product -> Deducted(cmd.lines, rows[t])
          [] t = Billing -> PutRow(t, rows[t], Bill(cmd, id, who))
          [] t = Orders  -> WithLines(cmd, id, who, rows[t])]

(* addNewProduct                                                           *)
NewProduct(cmd, id, rows) ==
    PutRow(Product, rows, <<id, cmd.name, cmd.seller, cmd.quantity, cmd.price>>)

(* deleteProduct, modifyQuantity, modifyPrice: the owner of the first row  *)
(* with the id; if another thread deleted it meanwhile, the loop ends at   *)
(* the free row, whose seller is 0 and not the one who asks.               *)
IsOwner(cmd, rows) ==
    /\ Has(UpToFree(Product, rows), cmd.item)
    /\ rows[RowOf(rows, cmd.item)][Seller] = cmd.seller

(* The list that is written back is filled only for the owner.             *)
deleteProduct(cmd, rows) ==
    IF IsOwner(cmd, rows)
    THEN Without(UpToFree(Product, rows), Id, cmd.item)
    ELSE <<>>
Modified(cmd, rows, column, value) ==
    IF IsOwner(cmd, rows) THEN [rows EXCEPT ![RowOf(rows, cmd.item)][column] = value]
                          ELSE rows

(* buyerEditsName, buyerEditsAddress: in three tables; the orders are      *)
(* those of his bills.                                                     *)
Renamed(t, rows, name, ids, column) ==
    [i \in DOMAIN rows |->
        IF i < FreeRow(t, rows) /\ rows[i][column] \in ids
        THEN [rows[i] EXCEPT ![Who[t]] = name] ELSE rows[i]]
OrdersOf(buyer, bills) ==
    {bills[i][Id] : i \in {k \in 1..(FreeRow(Billing, bills) - 1) : bills[k][Buyer] = buyer}}

buyerEdits(cmd, rows) ==
    [t \in {Customer, Billing, Orders} |->
        CASE t = Customer ->
               [rows[t] EXCEPT ![RowOf(rows[t], cmd.buyer)][cmd.column] = cmd.name]
          [] t = Billing -> Renamed(t, rows[t], cmd.name, {cmd.buyer}, Buyer)
          [] t = Orders ->
               Renamed(t, rows[t], cmd.name, OrdersOf(cmd.buyer, rows[Billing]), Id)]

(* writeNewClientData: the phone number is taken apart and not stored; a   *)
(* seller goes one row behind the first free one.                          *)
NewClient(cmd, id, rows) ==
    IF cmd.table = Customer
    THEN PutRow(Customer, rows, <<id, cmd.name, NoText, cmd.address>>)
    ELSE PutAfterGap(Sellers, rows, <<id, cmd.name, NoText, cmd.address>>)

(* buyerEditsNumber, sellerEditsNumber, sellerEditsName, sellerEditsAddress *)
EditRow(cmd, rows) ==
    [rows EXCEPT ![RowOf(rows, cmd.buyer)][cmd.column] = cmd.name]

(* buyerModifiesOrder: every line of the product goes, of whichever order; *)
(* the bill, if the search for it ends, is reduced by the cost of the      *)
(* order's first line.                                                     *)
buyerModifiesOrder(cmd, rows) ==
    LET first == rows[Orders][RowOf(rows[Orders], cmd.order)] IN
    [t \in {Orders} \cup {b \in {Billing} : Has(rows[b], cmd.order)} |->
        CASE t = Orders ->
               Without(SubSeq(rows[t], 1, FirstZero(t, rows[t], Item) - 1), Item, cmd.item)
          [] t = Billing ->
               [rows[t] EXCEPT ![RowOf(rows[t], cmd.order)][Total] = @ - first[Cost]]]

Changed(cmd, id, rows) ==
    CASE cmd.op = "COMPLETE_ORDER" -> completeAnOrder(cmd, id, rows)
      [] cmd.op = "EDIT_INFO"   -> buyerEdits(cmd, rows)
      [] cmd.op = "MOD_ORDER"   -> buyerModifiesOrder(cmd, rows)
      [] cmd.op = "NEW_PRODUCT" -> [t \in {Product} |-> NewProduct(cmd, id, rows[t])]
      [] cmd.op = "DELETE_PROD" -> [t \in {Product} |-> deleteProduct(cmd, rows[t])]
      [] cmd.op = "MOD_QUANT"   ->
           [t \in {Product} |-> Modified(cmd, rows[t], Quantity, cmd.quantity)]
      [] cmd.op = "MOD_PRICE"   ->
           [t \in {Product} |-> Modified(cmd, rows[t], Price, cmd.price)]
      [] cmd.op = "NEW_CLIENT"  -> [t \in {cmd.table} |-> NewClient(cmd, id, rows[t])]
      [] cmd.op = "EDIT_ROW"    -> [t \in {cmd.table} |-> EditRow(cmd, rows[t])]

(* The searches before the first write-back end in the tables; MOD_ORDER   *)
(* looks for the bill when it has written the lines.                       *)
Found(cmd, rows) ==
    CASE cmd.op \in {"COMPLETE_ORDER", "EDIT_INFO"} -> Has(rows[Customer], cmd.buyer)
      [] cmd.op = "EDIT_ROW" -> Has(rows[cmd.table], cmd.buyer)
      [] cmd.op = "MOD_ORDER" -> Has(rows[Orders], cmd.order)
      [] OTHER -> TRUE

----------------------------------------------------------------------------
Init ==
    /\ text = InitialFiles /\ torn = {} /\ confirmed = 0 /\ spoilt = {}
    /\ ledger = StockOf(Load(Product, InitialFiles[Product]))
    /\ command = [c \in Threads |-> NoCommand]
    /\ phase = [c \in Threads |-> "idle"]
    /\ todo = [c \in Threads |-> <<>>]
    /\ memory = [c \in Threads |-> <<>>]
    /\ output = [c \in Threads |-> <<>>]
    /\ taken = 0 /\ crashes = 0

HasLocks(c) == phase[c] \in {"writing", "open"}
Held == UNION {Locks(command[c]) : c \in {d \in Threads : HasLocks(d)}}
CanRead(t) == t \notin Held

(* Variant: only the first of the semaphores is waited for.                *)
MayLockFirst(cmd) == Head(Writes(cmd)) \notin Held
MayLock(cmd) == Locks(cmd) \cap Held = {}

(* MOD_ORDER writes the lines before the bills, so a stop in between can   *)
(* give the last line end to the lines only; an order then keeps its lines *)
(* and loses its bill.                                                     *)
Ahead ==
    {t \in {Orders} : /\ LineEnds(text[t]) = Len(text[t])
                      /\ LineEnds(text[Billing]) < Len(text[Billing])}

(* main starts the data server again: no thread is left, and the           *)
(* semaphores are new; a file that was open for writing is empty.          *)
Stop ==
    /\ torn' = torn \cup Ahead
                   \cup {Head(todo[c]) : c \in {d \in Threads : phase[d] = "open"}}
    /\ command' = [c \in Threads |-> NoCommand]
    /\ phase' = [c \in Threads |-> "idle"]
    /\ todo' = [c \in Threads |-> <<>>]
    /\ memory' = [c \in Threads |-> <<>>]
    /\ output' = [c \in Threads |-> <<>>]
    /\ UNCHANGED <<text, taken, confirmed, ledger, spoilt>>

Crash == crashes < MaxCrashes /\ crashes' = crashes + 1 /\ Stop

Become(c, p) == phase' = [phase EXCEPT ![c] = p]
Leave(c) == /\ Become(c, "idle") /\ command' = [command EXCEPT ![c] = NoCommand]
            /\ memory' = [memory EXCEPT ![c] = <<>>]

(* executeTaskOnServer reads a request.                                    *)
Take(c) ==
    /\ phase[c] = "idle" /\ taken < MaxCommands
    /\ \E cmd \in Commands : command' = [command EXCEPT ![c] = cmd]
    /\ Become(c, IF command'[c].op \in {"VIEW", "DELETE_PROD", "MOD_QUANT", "MOD_PRICE"}
                 THEN "reading" ELSE "accepted")
    /\ taken' = taken + 1
    /\ UNCHANGED <<files, todo, memory, output, crashes, confirmed>>

(* The commands that only read, and the validateID with which a seller's   *)
(* change begins.                                                          *)
Read(c) ==
    LET cmd == command[c]
        t == IF cmd.op = "VIEW" THEN cmd.table ELSE Product IN
    /\ phase[c] = "reading" /\ CanRead(t)
    /\ \/ ~Readable(t, text[t]) /\ Stop /\ UNCHANGED crashes
       \/ /\ Readable(t, text[t])
          /\ IF cmd.op # "VIEW" /\ validateID(t, cmd.item)
             THEN Become(c, "accepted") /\ UNCHANGED <<command, memory>> ELSE Leave(c)
          /\ UNCHANGED <<files, todo, output, taken, crashes, confirmed>>

(* An order whose lines do not pass is answered [INVALID].                 *)
Refuse(c) ==
    LET cmd == command[c] IN
    /\ phase[c] = "accepted" /\ cmd.op = "COMPLETE_ORDER" /\ MayLock(cmd)
    /\ Readable(Product, text[Product])
    /\ ~validateBuyerOrder(cmd.lines, Load(Product, text[Product]))
    /\ Leave(c)
    /\ UNCHANGED <<files, todo, output, taken, crashes, confirmed>>

(* The locks, the loads and the change in memory.  A table that is loaded  *)
(* or searched after another was written, and cannot be read, or has not   *)
(* the row, is missing until then.                                         *)
Begin(c) ==
    LET cmd == command[c]
        rows == [t \in Tables |-> Load(t, text[t])]
        good == {t \in Tables : Readable(t, text[t])} IN
    /\ phase[c] = "accepted" /\ MayLock(cmd)
    /\ (cmd.op = "COMPLETE_ORDER" /\ Product \in good) =>
            validateBuyerOrder(cmd.lines, rows[Product])
    /\ \/ /\ ~(LoadsFirst(cmd) \subseteq good /\ Found(cmd, rows))
          /\ Stop /\ UNCHANGED crashes
       \/ /\ LoadsFirst(cmd) \subseteq good /\ Found(cmd, rows)
          /\ \E id \in NewIds :
                /\ memory' = [memory EXCEPT ![c] =
                       LET all == Changed(cmd, id, [t \in Tables |->
                                      IF t \in good THEN rows[t] ELSE <<>>]) IN
                       [t \in DOMAIN all \cap good |-> all[t]]]
                /\ spoilt' = IF cmd.op = "NEW_PRODUCT" THEN spoilt \cup ({id} \cap DOMAIN ledger)
                                                       ELSE spoilt
          /\ todo' = [todo EXCEPT ![c] = Writes(cmd)]
          /\ Become(c, "writing")
          /\ UNCHANGED <<text, command, output, taken, crashes, torn, confirmed, ledger>>

(* A write-back counts the line ends of the file and opens it with "w+".   *)
Truncate(c) ==
    LET t == Head(todo[c]) IN
    /\ phase[c] = "writing" /\ todo[c] # <<>>
    /\ \/ t \notin DOMAIN memory[c] /\ Stop /\ UNCHANGED crashes
       \/ /\ t \in DOMAIN memory[c]
          /\ output' = [output EXCEPT ![c] = WriteBack(t, memory[c][t], text[t])]
          /\ text' = [text EXCEPT ![t] = <<>>]
          /\ Become(c, "open")
          /\ UNCHANGED <<command, todo, memory, taken, crashes, torn, confirmed,
                         ledger, spoilt>>

(* The history of a product's stock.                                       *)
Ordered(lines, p) ==
    FoldLeft(LAMBDA sum, l : IF l.item = p THEN sum + l.quantity ELSE sum, 0, lines)
NewLedger(cmd, rows) ==
    CASE cmd.op = "COMPLETE_ORDER" ->
           [p \in DOMAIN ledger |-> ledger[p] - Ordered(cmd.lines, p)]
      [] cmd.op = "MOD_QUANT" /\ cmd.item \in DOMAIN ledger /\ IsOwner(cmd, rows) ->
           [ledger EXCEPT ![cmd.item] = cmd.quantity]
      [] OTHER -> ledger

(* fclose: the text is in the file.                                        *)
Flush(c) ==
    LET t == Head(todo[c]) IN
    /\ phase[c] = "open"
    /\ text' = [text EXCEPT ![t] = output[c]]
    /\ output' = [output EXCEPT ![c] = <<>>]
    /\ todo' = [todo EXCEPT ![c] = Tail(@)]
    /\ ledger' = IF t = Product THEN NewLedger(command[c], memory[c][t]) ELSE ledger
    /\ spoilt' = spoilt \cup {p \in DOMAIN ledger' : ledger'[p] <= 0}
    /\ Become(c, "writing")
    /\ UNCHANGED <<command, memory, taken, crashes, torn, confirmed>>

(* Everything is written: answer, release the locks.                       *)
Answer(c) ==
    /\ phase[c] = "writing" /\ todo[c] = <<>>
    /\ confirmed' = IF command[c].op = "COMPLETE_ORDER" THEN confirmed + 1 ELSE confirmed
    /\ Leave(c)
    /\ UNCHANGED <<files, todo, output, taken, crashes>>

Next ==
    \/ Crash
    \/ \E c \in Threads :
          Take(c) \/ Read(c) \/ Refuse(c) \/ Begin(c) \/ Truncate(c) \/ Flush(c) \/ Answer(c)

Spec == Init /\ [][Next]_vars

----------------------------------------------------------------------------
Whole(t) == t \notin torn /\ ~\E c \in Threads : phase[c] = "open" /\ Head(todo[c]) = t
IdsIn(file) == {file[i][Id] : i \in DOMAIN file} \ Texts
Ids(t) == IdsIn(text[t])

(* Requests in progress hold disjoint locks.                               *)
TypeOK ==
    /\ \A c \in Threads :
         /\ command[c] \in Commands \cup {NoCommand}
         /\ phase[c] \in {"idle", "reading", "accepted", "writing", "open"}
         /\ (phase[c] = "idle") = (command[c] = NoCommand)
         /\ todo[c] # <<>> => HasLocks(c)
         /\ \A d \in Threads \ {c} :
              HasLocks(c) /\ HasLocks(d) => Locks(command[c]) \cap Locks(command[d]) = {}
    /\ DOMAIN text = Tables
    /\ taken \in 0..MaxCommands /\ crashes \in 0..MaxCrashes
    /\ torn \subseteq Tables /\ spoilt \subseteq DOMAIN ledger

(* From its loads to its answer a command has the tables it locked to      *)
(* itself: no other thread writes them, and a crash does not either.       *)
OthersKeepOut ==
    [][\A c \in Threads, t \in Tables :
         (HasLocks(c) /\ t \in Locks(command[c]) /\ phase'[c] = phase[c]) =>
             text'[t] = text[t]]_vars

(* What a command has written a loader reads, until the command is         *)
(* answered: row by row, the numbers and the texts it had in memory, if    *)
(* none of them is left out (a 0, a negative, nothing) and no row before   *)
(* ends in the line end that a loader took for the contents of a column.   *)
FullRow(t, row) ==
    \A j \in DOMAIN Columns[t] :
        row[j] \in IF Columns[t][j] THEN Nat \ {0} ELSE Texts \ {EOL, NoText}
RowsReadBack ==
    \A c \in Threads : \A t \in (Tables \cap DOMAIN memory[c]) \ ToSet(todo[c]) :
        LET rows == memory[c][t] IN
        \A i \in DOMAIN rows \cap DOMAIN text[t] :
            (FullRow(t, rows[i]) /\ \A k \in 1..(i - 1) : Len(LinesOf(rows[k])) = 1) =>
                Load(t, text[t])[i] = rows[i]

(* Every order line in CustomerOrder.txt has its bill in BillingInfo.txt,  *)
(* though the two files are written one after the other: no crash leaves a *)
(* line without its bill, unless it leaves one of the two empty or the     *)
(* lines Ahead.                                                            *)
LinesHaveBills ==
    (Whole(Billing) /\ Orders \notin torn) => Ids(Orders) \subseteq Ids(Billing)

(* Of the orders answered [CONFIRMATION] (completeAnOrder) at most one has *)
(* no bill in the file: the one that meets the file without a line end.    *)
Bills(file) == Cardinality({i \in DOMAIN file : file[i][Id] \notin Texts})
OnlyFirstBillLost ==
    Whole(Billing) => confirmed <= Bills(text[Billing]) - Bills(InitialFiles[Billing]) + 1

(* The quantity in ProductInfo.txt is what the seller set, less what was   *)
(* ordered since, whatever the threads do at the same time, for every      *)
(* product that has never been sold out and whose number is its own.       *)
StockLedger ==
    Whole(Product) =>
        \A i \in DOMAIN text[Product] :
            LET p == text[Product][i][Id] IN
            (p \notin Texts /\ p \in DOMAIN ledger \ spoilt) =>
                text[Product][i][Quantity] = ledger[p]

(* A write-back leaves every line of the file in it that the command is    *)
(* not about.  Not so a delete that is refused: it empties the table; nor  *)
(* is a line kept where a loader finds no number: of the pieces of an      *)
(* order of none, or in what is left of a negative.                        *)
About(c, t, line) ==
    LET cmd == command[c] IN
    \/ t = Product /\ cmd.op = "DELETE_PROD" /\ memory[c][t] = <<>>
    \/ t = Product /\ cmd.op \in ProductOps \ {"NEW_PRODUCT"} /\ line[Id] = cmd.item
    \/ t = Product /\ cmd.op = "COMPLETE_ORDER"
         /\ \E i \in DOMAIN cmd.lines : cmd.lines[i].item = line[Id]
    \/ t = Orders /\ cmd.op = "MOD_ORDER" /\ line[Item] = cmd.item
    \/ t = Billing /\ cmd.op = "MOD_ORDER" /\ line[Id] = cmd.order
    \/ cmd.op = "EDIT_ROW" /\ line[Id] = cmd.buyer
    \/ cmd.op = "EDIT_INFO"
         /\ CASE t = Customer -> line[Id] = cmd.buyer
              [] t = Billing -> line[Buyer] = cmd.buyer
              [] OTHER -> line[Id] \in OrdersOf(cmd.buyer, Load(Billing, text[Billing]))
Ended(line) == IF Last(line) = EOL THEN line ELSE Append(line, EOL)
Misread(t, line) ==
    \/ t = Orders /\ Token(line, Bought) \in Texts
    \/ \E j \in DOMAIN Columns[t] : Columns[t][j] /\ Token(line, j) = Zeros
LinesSurvive ==
    [][\A c \in Threads :
         (phase[c] = "writing" /\ phase'[c] = "open") =>
             LET t == Head(todo[c]) IN
             \A i \in DOMAIN text[t] :
                 \/ About(c, t, text[t][i]) \/ Misread(t, text[t][i])
                 \/ Ended(text[t][i]) \in ToSet(output'[c])]_vars

(* What the proofs ask of the ids, and of the files the server starts      *)
(* with; so it is with the files in the repository.  generateUID never     *)
(* returns 0, and every record starts with its number.                     *)
IdsGiven ==
    /\ NewIds \subseteq Nat \ {0}
    /\ \A t \in {Product, Billing, Orders} : \A i \in DOMAIN InitialFiles[t] :
          InitialFiles[t][i][Id] \in Nat \ {0}

(* The lines there are have their bills, and the last bill ends its line   *)
(* if the last order line does.                                            *)
OrdersBilled ==
    LET bills == InitialFiles[Billing]
        lines == InitialFiles[Orders] IN
    /\ IdsIn(lines) \subseteq IdsIn(bills)
    /\ LineEnds(lines) = Len(lines) => LineEnds(bills) = Len(bills)

(* A product has one line, with a name, a seller and a quantity.           *)
StockGiven ==
    LET file == InitialFiles[Product] IN
    /\ \A i \in DOMAIN file :
         /\ Len(file[i]) >= Quantity
         /\ file[i][Name] \in Fields \ {NoText} /\ file[i][Seller] \in Nat \ {0}
         /\ file[i][Quantity] \in Int
    /\ \A i, j \in DOMAIN file : file[i][Id] = file[j][Id] => i = j

(* Every line of the files has all its fields.                             *)
HasAllFields(t, line) ==
    /\ \A j \in DOMAIN Columns[t] :
          line[j] \in IF Columns[t][j] THEN Nat \ {0} ELSE Fields \ {NoText}
    /\ Len(line) = Len(Columns[t]) + (IF Last(line) = EOL THEN 1 ELSE 0)
LinesGiven ==
    \A t \in Tables : \A i \in DOMAIN InitialFiles[t] : HasAllFields(t, InitialFiles[t][i])

(* Fails.  "the last row doesnt have a \n so this will handle the last     *)
(* line" (JacobWilson.c:139), and an order that is confirmed has its bill.  *)
ConfirmedOrdersAreBilled ==
    Whole(Billing) => confirmed <= Bills(text[Billing]) - Bills(InitialFiles[Billing])
=============================================================================
