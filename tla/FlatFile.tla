------------------------------ MODULE FlatFile ------------------------------
(***************************************************************************)
(* The tables of the data server as text files: how a loader takes a line  *)
(* apart and what a write-back makes of a table (Roden.c, JacobWilson.c).  *)
(* A file is a sequence of lines, a line the sequence of the tokens strtok *)
(* finds in it: "," separates, so an empty field is no token, and the line *)
(* end, which follows the last ",", is one.  Only the last line of a file  *)
(* may lack it.  Columns that are always handled together are one column   *)
(* (a name for first and last name, an address for street, city, state     *)
(* and zip code).                                                          *)
(*                                                                         *)
(* Automatic arrays are taken to start as zeros, which the code relies on  *)
(* (the rows behind the last one, the text a write-back appends to) and C  *)
(* does not promise.                                                       *)
(***************************************************************************)
EXTENDS Integers, SequencesExt

CONSTANTS
    EOL,       \* the token "\n"
    NoText,    \* the empty string
    Zeros,     \* "0", and any more zeros
    Words      \* the other texts a field may hold

Texts  == Words \cup {EOL, NoText, Zeros}
Fields == Texts \ {EOL}
Tokens == Int \cup Texts

(* A number field holds no text.                                           *)
ASSUME TextsAssumption == Texts \cap Int = {} /\ EOL # NoText /\ Zeros \notin {EOL, NoText}

(* The line end is the last token of a line, and every line but the last   *)
(* has one.                                                                *)
FileLines ==
    {l \in Seq(Tokens) :
        l # <<>> /\ \A j \in DOMAIN l : l[j] = EOL => j = Len(l)}
TextFiles ==
    {f \in Seq(FileLines) : \A i \in DOMAIN f : i < Len(f) => Last(f[i]) = EOL}

Product  == "ProductInfo"
Billing  == "BillingInfo"
Orders   == "CustomerOrder"
Customer == "CustomerInfo"
Sellers  == "SellerInfo"
Tables   == {Product, Billing, Orders, Customer, Sellers}

(* The columns; TRUE for those read with atoi.                             *)
Columns ==
    [t \in Tables |->
        CASE t = Product  -> <<TRUE, FALSE, TRUE, TRUE, TRUE>>
          [] t = Billing  -> <<TRUE, TRUE, FALSE, TRUE>>
          [] t = Orders   -> <<TRUE, TRUE, TRUE, FALSE, TRUE>>
          [] t \in {Customer, Sellers} -> <<TRUE, FALSE, FALSE, FALSE>>]
Id == 1                                  \* the first column of every table
Name == 2   Seller == 3  Quantity == 4  Price == 5              \* Product
Who == [t \in Tables |-> CASE t = Billing -> 3 [] t = Orders -> 4 [] OTHER -> 2]
Buyer == 2  Total == 4                                          \* Billing
Item == 2   Bought == 3  Cost == 5                              \* Orders
Phone == 3  Address == 4                                        \* Customer

atoi(x) == IF x \in Texts THEN 0 ELSE x

(* strtok returns NULL when a line has no token left, and strcpy and atoi  *)
(* take it: the data server is stopped by the signal.                      *)
Readable(t, file) == \A i \in DOMAIN file : Len(file[i]) >= Len(Columns[t])

(* loadProductInfo, loadBillingInfo, loadCustomerOrderInfo, loadClientInfo *)
(* of a readable file.                                                     *)
Token(line, j) == IF j \in DOMAIN line THEN line[j] ELSE NoText
Load(t, file) ==
    [i \in DOMAIN file |-> [j \in DOMAIN Columns[t] |->
        IF Columns[t][j] THEN atoi(Token(file[i], j)) ELSE Token(file[i], j)]]

BlankRow(t) == [j \in DOMAIN Columns[t] |-> IF Columns[t][j] THEN 0 ELSE NoText]
RowAt(t, rows, i) == IF i \in DOMAIN rows THEN rows[i] ELSE BlankRow(t)

(* while (table[row].column != 0) row++                                    *)
FirstZero(t, rows, column) ==
    CHOOSE i \in 1..(Len(rows) + 1) :
        /\ RowAt(t, rows, i)[column] = 0
        /\ \A k \in 1..(i - 1) : rows[k][column] # 0
FreeRow(t, rows) == FirstZero(t, rows, Id)
UpToFree(t, rows) == SubSeq(rows, 1, FreeRow(t, rows) - 1)

(* Variant: the new row takes the place of the last one.                   *)
PutRowLast(t, rows, row) ==
    IF rows = <<>> THEN <<row>> ELSE [rows EXCEPT ![Len(rows)] = row]

(* A new row goes where the search for a free one ends.                    *)
PutRow(t, rows, row) ==
    LET i == FreeRow(t, rows) IN
    IF i > Len(rows) THEN Append(rows, row) ELSE [rows EXCEPT ![i] = row]
PutAfterGap(t, rows, row) ==
    LET i == FreeRow(t, rows) + 1 IN
    [k \in 1..(IF i > Len(rows) THEN i ELSE Len(rows)) |->
        IF k = i THEN row ELSE RowAt(t, rows, k)]

(* The rows that are kept when those with this value are left out.         *)
Without(rows, column, value) ==
    FlattenSeq([i \in DOMAIN rows |->
        IF rows[i][column] = value THEN <<>> ELSE <<rows[i]>>])

(* The digits of n, from the last to the first.                            *)
Digits(n) == {k \in 0..9 : 10^k <= n}
Digit(n, k) == (n \div 10^k) % 10

(* Variant: the digits are left in the order in which they are produced.   *)
Unturned(n) ==
    IF n > 0
    THEN << FoldLeft(LAMBDA v, k : IF k \in Digits(n) THEN 10 * v + Digit(n, k) ELSE v,
                     0, [i \in 1..10 |-> i - 1]) >>
    ELSE <<>>

(* Digits are produced while n is not 0, and only those from 0 to 9: of a  *)
(* negative number its zeros.                                              *)
intToCharArray(n) ==
    CASE n > 0 -> <<n>>
      [] n < 0 /\ (\E k \in Digits(-n) : Digit(-n, k) = 0) -> <<Zeros>>
      [] OTHER -> <<>>
Field(x) ==
    IF x \notin Texts THEN intToCharArray(x) ELSE IF x = NoText THEN <<>> ELSE <<x>>

(* One row of a write-back.  A field that holds a line end (it can only be *)
(* the last) ends the line before the row does.                            *)
LinesOf(row) ==
    LET fields == FlattenSeq([j \in DOMAIN row |-> Field(row[j])]) IN
    IF fields # <<>> /\ Last(fields) = EOL THEN <<fields, <<EOL>>>>
                                          ELSE <<Append(fields, EOL)>>

LineEnds(file) == Cardinality({i \in DOMAIN file : Last(file[i]) = EOL})

Written(t, rows, n) ==
    FlattenSeq([i \in 1..n |-> LinesOf(RowAt(t, rows, i))])

(* Variant: as many rows as line ends.                                     *)
WriteBackEnds(t, rows, file) == Written(t, rows, LineEnds(file))

(* writeBackProductStruct and the others: one row more than the file has   *)
(* line ends.                                                              *)
WriteBack(t, rows, file) == Written(t, rows, LineEnds(file) + 1)
=============================================================================
