------------------------- MODULE ShopRecordsProofs -------------------------
(***************************************************************************)
(* What the records in the files of Shop say: that an order line has its   *)
(* bill, that at most one confirmed order has none, and that the stock of  *)
(* a product is what its seller set less what was ordered.                 *)
(*                                                                         *)
(* ShopProofs shows of what kind the rows are that a command writes; here  *)
(* it matters which they are, and how many of them a write-back writes.    *)
(***************************************************************************)
EXTENDS ShopProofs

----------------------------------------------------------------------------
(* The invariants *)

Records == {Product, Billing, Orders}
Numbers == Nat \ {0}

(* A line of a record file starts with its id, or is blank; a row has one. *)
Numbered(file) == \A i \in DOMAIN file : file[i] = <<EOL>> \/ file[i][Id] \in Numbers
HaveIds(rows)  == \A i \in DOMAIN rows : rows[i][Id] \in Numbers

Left(c)     == ToSet(todo[c])
Opens(c, t) == phase[c] = "open" /\ Head(todo[c]) = t

IdsInv ==
    \A t \in Records :
        /\ Numbered(text[t])
        /\ \A c \in Threads :
             /\ t \in DOMAIN memory[c] => HaveIds(memory[c][t])
             /\ Opens(c, t) => Numbered(output[c])

(* What may be left of what a command writes.                              *)
Rests(cmd) ==
    CASE cmd.op = "COMPLETE_ORDER" ->
           {<<Product, Billing, Orders>>, <<Billing, Orders>>, <<Orders>>, <<>>}
      [] cmd.op = "MOD_ORDER" -> {<<Orders, Billing>>, <<Billing>>, <<>>}
      [] cmd.op = "EDIT_INFO" ->
           {<<Customer, Billing, Orders>>, <<Billing, Orders>>, <<Orders>>, <<>>}
      [] cmd.op \in ProductOps -> {<<Product>>, <<>>}
      [] OTHER -> {<<cmd.table>>, <<>>}
TodoOf(c) ==
    HasLocks(c) =>
        /\ todo[c] \in Rests(command[c])
        /\ phase[c] = "open" => Head(todo[c]) \in DOMAIN memory[c]
TodoInv == \A c \in Threads : TodoOf(c)

(* The ids in as many rows as a write-back writes.                         *)
IdsUpTo(rows, n) == {rows[i][Id] : i \in {k \in DOMAIN rows : k <= n}}

(* The ids in a file when the command has written it, if it still has to.  *)
After(c, t) ==
    CASE Opens(c, t) -> IdsIn(output[c])
      [] ~Opens(c, t) /\ t \in Left(c) -> IdsUpTo(memory[c][t], LineEnds(text[t]) + 1)
      [] ~Opens(c, t) /\ t \notin Left(c) -> IdsIn(text[t])
Ready(c, t) == t \in Left(c) => t \in DOMAIN memory[c]

BillOps == {"COMPLETE_ORDER", "MOD_ORDER", "EDIT_INFO"}
OnBills(c) == HasLocks(c) /\ command[c].op \in BillOps
Full(t) == LineEnds(text[t]) = Len(text[t])

(* The bills are there for the lines that are written and for those that   *)
(* will be, and a file of lines takes no more of them than the bills do.   *)
NowBilled ==
    (\A c \in Threads : ~Opens(c, Billing)) => IdsIn(text[Orders]) \subseteq IdsIn(text[Billing])
NowFull ==
    (\A c \in Threads : Billing \notin Left(c)) => (Full(Orders) => Full(Billing))
NextOrders(c) == todo[c] # <<>> /\ Head(todo[c]) = Orders
WillBeBilled(c) ==
    /\ Ready(c, Billing) => IdsIn(text[Orders]) \subseteq After(c, Billing)
    /\ Ready(c, Billing) /\ Ready(c, Orders) => After(c, Orders) \subseteq After(c, Billing)
    /\ NextOrders(c) /\ Ready(c, Orders) => After(c, Orders) \subseteq IdsIn(text[Billing])
    /\ Billing \notin Left(c) => Full(Billing)
BillsStand == NowBilled /\ NowFull /\ \A c \in Threads : OnBills(c) => WillBeBilled(c)
BillsInv ==
    (Billing \notin torn /\ Orders \notin torn) => BillsStand

(* The orders that are billed and not confirmed yet.                       *)
IsOrder(c) == command[c].op = "COMPLETE_ORDER"
Billed(c) == OnBills(c) /\ IsOrder(c) /\ Billing \notin Left(c)
One(p) == IF p THEN 1 ELSE 0

SomeBilled == \E c \in Threads : Billed(c)
Lost(file) == confirmed - (Bills(file) - Bills(InitialFiles[Billing]))

NowCounted ==
    (\A c \in Threads : ~Opens(c, Billing)) =>
        Lost(text[Billing]) + One(SomeBilled) <= One(Full(Billing))
Counts(c) ==
    /\ Opens(c, Billing) => Lost(output[c]) + One(IsOrder(c)) <= 1
    /\ OnBills(c) /\ Billing \in Left(c) /\ ~Opens(c, Billing) /\ Billing \in DOMAIN memory[c] =>
         /\ Bills(text[Billing]) = Len(text[Billing])
         /\ Len(memory[c][Billing]) = Len(text[Billing]) + One(IsOrder(c))
AllCounted == NowCounted /\ \A c \in Threads : Counts(c)
CountInv == confirmed \in Nat /\ (Billing \notin torn => AllCounted)

(* The lines and the rows of the products with a history, but for those    *)
(* that are gone: a quantity that is not positive is not written as it is, *)
(* and a number that is drawn again has two rows.                          *)
Names == Fields \ {NoText}
StockLine(l, book, gone) ==
    l[Id] \in DOMAIN book \ gone =>
        Len(l) >= 4 /\ l[2] \in Names /\ l[3] \in Numbers /\ l[4] = book[l[Id]]
StockRow(r, book, gone) ==
    r[Id] \in DOMAIN book \ gone =>
        r[2] \in Names /\ r[3] \in Numbers /\ r[4] = book[r[Id]]
Apart(s, book, gone) ==
    \A i, j \in DOMAIN s : s[i][Id] = s[j][Id] /\ s[i][Id] \in DOMAIN book \ gone => i = j
Stocked(file, book, gone) ==
    Apart(file, book, gone) /\ \A i \in DOMAIN file : StockLine(file[i], book, gone)
StockedRows(rows, book, gone) ==
    Apart(rows, book, gone) /\ \A i \in DOMAIN rows : StockRow(rows[i], book, gone)

(* The history as it will be when the command has written the products.    *)
Listed == {InitialFiles[Product][i][Id] : i \in DOMAIN InitialFiles[Product]}
Book(c) == NewLedger(command[c], memory[c][Product])
SoldOut(book) == {p \in DOMAIN book : book[p] <= 0}

NowStocked ==
    (\A c \in Threads : ~Opens(c, Product)) => Stocked(text[Product], ledger, spoilt)
KeepsStock(c) ==
    /\ Opens(c, Product) => Stocked(output[c], Book(c), spoilt \cup SoldOut(Book(c)))
    /\ Product \in Left(c) /\ Product \in DOMAIN memory[c] =>
         StockedRows(memory[c][Product], Book(c), spoilt)
AllStocked == NowStocked /\ \A c \in Threads : KeepsStock(c)
StockInv == ledger \in [Listed -> Int] /\ (Product \notin torn => AllStocked)

----------------------------------------------------------------------------
(* Sequences, place by place *)

(* The first parts, when they are of length one, are its first elements.   *)
Starts(seq, ss, k) == Len(seq) >= k /\ \A j \in 1..k : seq[j] = ss[j][1]

Joined(c, a, b) ==
    /\ Len(c) = Len(a) + Len(b)
    /\ \A j \in 1..Len(a) : c[j] = a[j]
    /\ \A j \in 1..Len(b) : c[Len(a) + j] = b[j]

LEMMA Joining == ASSUME NEW S, NEW a \in Seq(S), NEW b \in Seq(S) PROVE Joined(a \o b, a, b)
BY ConcatProperties DEF Joined

IsStart(seq, ss, k) == Len(seq) = k /\ Starts(seq, ss, k)

LEMMA JoinOne ==
    ASSUME NEW S, NEW ss, NEW l \in Nat, NEW m, m = l + 1, NEW a \in Seq(S), NEW b \in Seq(S),
           IsStart(a, ss, l), Len(b) = 1, b = ss[m]
    PROVE  IsStart(a \o b, ss, m)
<1>1. PICK c : c = a \o b
  OBVIOUS
<1>2. Joined(c, a, b)
  BY <1>1, Joining
<1>3. Len(c) = m /\ Len(a) = l
  BY <1>2 DEF IsStart, Joined
<1>4. c[m] = ss[m][1]
  <2>1. 1 \in 1..Len(b) /\ Len(a) + 1 = m
    BY <1>3
  <2>2. c[Len(a) + 1] = b[1]
    BY <1>2, <2>1 DEF Joined
  <2>. QED BY <2>1, <2>2
<1>5. ASSUME NEW j \in 1..l PROVE c[j] = ss[j][1]
  BY <1>2, <1>3 DEF IsStart, Starts, Joined
<1>6. \A j \in 1..m : j = m \/ j \in 1..l
  OBVIOUS
<1>7. \A j \in 1..m : c[j] = ss[j][1]
  BY <1>4, <1>5, <1>6
<1>. QED BY <1>1, <1>3, <1>7 DEF IsStart, Starts

LEMMA JoinMore ==
    ASSUME NEW S, NEW ss, NEW k \in Nat, NEW a \in Seq(S), NEW b \in Seq(S), Starts(a, ss, k)
    PROVE  Starts(a \o b, ss, k)
<1>1. PICK c : c = a \o b
  OBVIOUS
<1>2. Joined(c, a, b) /\ Len(a) \in Nat /\ Len(b) \in Nat
  BY <1>1, Joining
<1>3. Len(c) >= k /\ \A j \in 1..k : j \in 1..Len(a)
  BY <1>2 DEF Starts, Joined
<1>. QED BY <1>1, <1>2, <1>3 DEF Starts, Joined

LEMMA FlattenStarts ==
    ASSUME NEW S, NEW n \in Nat, NEW ss \in [1..n -> Seq(S)], NEW k \in 1..n,
           \A j \in 1..k : Len(ss[j]) = 1
    PROVE  Starts(FlattenSeq(ss), ss, k) /\ (k = n => Len(FlattenSeq(ss)) = n)
<1>1. PICK f : Grows(f, ss, n) /\ FlattenSeq(ss) = f[n]
  BY FlattenSteps
<1> DEFINE Good(m) == /\ f[m] \in Seq(S)
                      /\ m <= k => Len(f[m]) = m /\ Starts(f[m], ss, m)
                      /\ m >= k => Starts(f[m], ss, k)
           G == {m \in 0..n : m = 0 \/ Good(m)}
<1>2. ASSUME NEW m \in 1..n, m - 1 \in G PROVE m \in G
  <2>1. ss[m] \in Seq(S)
    OBVIOUS
  <2>2. CASE m = 1
    <3>1. f[1] = ss[1] /\ Len(ss[1]) = 1
      BY <1>1, <2>2 DEF Grows
    <3>2. Starts(f[1], ss, 1)
      BY <3>1 DEF Starts
    <3>3. k = 1 \/ ~(m >= k)
      BY <2>2
    <3>4. Good(1)
      BY <2>1, <2>2, <3>1, <3>2, <3>3
    <3>. QED BY <2>2, <3>4
  <2>3. CASE m # 1
    <3>1. m \in 2..n /\ m - 1 \in 1..n /\ Good(m - 1)
      BY <1>2, <2>3
    <3>2. f[m] = f[m-1] \o ss[m] /\ f[m-1] \in Seq(S)
      BY <1>1, <3>1 DEF Grows
    <3>. PICK a \in Seq(S) : a = f[m-1]
      BY <3>2
    <3>. PICK b \in Seq(S) : b = ss[m]
      BY <2>1
    <3>3. a \o b \in Seq(S)
      BY ConcatProperties
    <3>4. CASE m <= k
      <4>1. /\ Len(b) = 1 /\ Len(a) = m - 1 /\ Starts(a, ss, m - 1)
            /\ m \in Nat \ {0} /\ b = ss[m] /\ a \in Seq(S) /\ b \in Seq(S)
        BY <3>1, <3>4
      <4>. PICK l \in Nat : l = m - 1 /\ m = l + 1
        BY <4>1
      <4>2. IsStart(a, ss, l)
        BY <4>1 DEF IsStart
      <4>5. IsStart(a \o b, ss, m)
        BY <4>1, <4>2, JoinOne
      <4>3. m >= k => Starts(a \o b, ss, k)
        BY <3>4, <4>5 DEF IsStart
      <4>4. Good(m)
        BY <3>2, <3>3, <4>5, <4>3 DEF IsStart
      <4>. QED BY <4>4
    <3>5. CASE ~(m <= k)
      <4>1. Starts(a, ss, k)
        BY <3>1, <3>5
      <4>2. Starts(a \o b, ss, k)
        BY <4>1, JoinMore
      <4>3. Good(m)
        BY <3>2, <3>3, <3>5, <4>2
      <4>. QED BY <4>3
    <3>. QED BY <3>4, <3>5
  <2>. QED BY <2>2, <2>3
<1>3. n \in G
  <2>1. 0 \in G
    OBVIOUS
  <2> HIDE DEF G
  <2>. QED BY <1>2, <2>1, Upwards
<1>. QED BY <1>1, <1>3

(* Of parts that are all empty nothing is made.                            *)
LEMMA FlattenNothing ==
    ASSUME NEW n \in Nat, NEW ss \in [1..n -> {<<>>}] PROVE FlattenSeq(ss) = <<>>
<1>1. CASE n = 0
  <2>1. ss = <<>> /\ Len(ss) = 0
    BY <1>1
  <2>. QED BY <2>1 DEF FlattenSeq
<1>2. CASE n # 0
  <2>0. ss \in [1..n -> Seq({})]
    <3>1. \A i \in 1..n : ss[i] \in Seq({})
      BY EmptySeq
    <3>. QED BY <3>1
  <2>1. PICK f : Grows(f, ss, n) /\ FlattenSeq(ss) = f[n]
    BY <1>2, <2>0, FlattenSteps
  <2> DEFINE G == {m \in 0..n : m = 0 \/ f[m] = <<>>}
  <2>2. ASSUME NEW m \in 1..n, m - 1 \in G PROVE m \in G
    <3>1. m = 1 \/ m \in 2..n
      OBVIOUS
    <3>2. <<>> \o <<>> = <<>> /\ ss[m] = <<>>
      <4>1. <<>> \in Seq({})
        BY EmptySeq
      <4>. QED BY <4>1, ConcatEmptySeq
    <3>3. CASE m = 1
      BY <2>1, <3>2, <3>3 DEF Grows
    <3>4. CASE m \in 2..n
      <4>1. f[m] = f[m-1] \o ss[m]
        BY <2>1, <3>4 DEF Grows
      <4>2. f[m-1] = <<>>
        BY <2>2, <3>4
      <4>. QED BY <3>2, <4>1, <4>2
    <3>. QED BY <3>1, <3>3, <3>4
  <2>3. n \in G
    <3>1. 0 \in G
      OBVIOUS
    <3> HIDE DEF G
    <3>. QED BY <2>2, <3>1, Upwards
  <2>. QED BY <1>2, <2>1, <2>3
<1>. QED BY <1>1, <1>2

----------------------------------------------------------------------------
(* The lines of the record files *)

LineOf(row) == Append(FlattenSeq([j \in DOMAIN row |-> Field(row[j])]), EOL)

LEMMA RecordTables ==
    ASSUME NEW t \in Records
    PROVE  /\ t \in Tables /\ Width(t) \in {4, 5} /\ Columns[t][Id] /\ Columns[t][Width(t)]
           /\ Id \in 1..Width(t)
<1>1. Columns[t][Width(t)]
  <2>1. CASE t = Product
    BY <2>1, ColumnsAre DEF Width
  <2>2. CASE t = Billing
    BY <2>2, ColumnsAre DEF Width
  <2>3. CASE t = Orders
    BY <2>3, ColumnsAre DEF Width
  <2>. QED BY <2>1, <2>2, <2>3 DEF Records
<1>. QED BY <1>1, Widths, TablesAre DEF Records, Id

(* Their last column is a number, so that each row becomes one line.       *)
LEMMA OneLine ==
    ASSUME NEW t \in Records, NEW row \in Row(t)
    PROVE  /\ LinesOf(row) = <<LineOf(row)>> /\ LineOf(row) \in EndedLines
           /\ FlattenSeq([j \in DOMAIN row |-> Field(row[j])]) \in Seq(Plain)
<1>1. PICK n \in {4, 5} : n = Width(t)
  BY RecordTables
<1>2. DOMAIN row = 1..n /\ \A j \in 1..n : row[j] \in Tokens /\ row[j] # EOL
  <2>1. row[n] \in Int
    BY <1>1, RecordTables DEF Row
  <2>2. row[n] # EOL
    BY <2>1, IntsArePlain DEF Plain
  <2>. QED BY <1>1, <2>2 DEF Row
<1>. PICK ss : ss = [j \in DOMAIN row |-> Field(row[j])]
  OBVIOUS
<1>3. ss \in [1..n -> Seq(Plain)]
  BY <1>2, FieldType
<1>. PICK fields : fields = FlattenSeq(ss)
  OBVIOUS
<1>4. fields \in Seq(Plain)
  BY <1>3, FlattenType
<1>5. fields # <<>> => Last(fields) # EOL
  BY <1>4 DEF Last, Plain
<1>6. LinesOf(row) = <<Append(fields, EOL)>>
  BY <1>5 DEF LinesOf
<1>7. Append(fields, EOL) \in EndedLines
  BY <1>4, PlainLine
<1>. QED BY <1>4, <1>6, <1>7 DEF LineOf

(* A write-back is the rows, line by line, and blank lines behind them.    *)
LEMMA WrittenAre ==
    ASSUME NEW t \in Records, NEW rows \in Seq(Row(t)), NEW n \in Nat
    PROVE  /\ Len(Written(t, rows, n)) = n
           /\ \A i \in 1..n : Written(t, rows, n)[i] = LineOf(RowAt(t, rows, i))
<1>. PICK ss : ss = [i \in 1..n |-> LinesOf(RowAt(t, rows, i))]
  OBVIOUS
<1>1. \A i \in 1..n : ss[i] = <<LineOf(RowAt(t, rows, i))>>
                       /\ LineOf(RowAt(t, rows, i)) \in EndedLines
  BY RecordTables, RowAtType, OneLine
<1>2. ss \in [1..n -> Seq(EndedLines)]
  <2>1. \A i \in 1..n : ss[i] \in Seq(EndedLines)
    BY <1>1, ShortTuples
  <2>. QED BY <2>1
<1>3. CASE n = 0
  <2>2. ss \in [1..n -> {<<>>}]
    BY <1>3
  <2>1. FlattenSeq(ss) = <<>>
    BY <2>2, FlattenNothing
  <2>. QED BY <1>3, <2>1 DEF Written
<1>4. CASE n # 0
  <2>1. n \in 1..n /\ \A j \in 1..n : Len(ss[j]) = 1
    BY <1>1, <1>4
  <2>2. Starts(FlattenSeq(ss), ss, n) /\ Len(FlattenSeq(ss)) = n
    BY <1>2, <2>1, FlattenStarts
  <2>. QED BY <1>1, <2>2 DEF Written, Starts
<1>. QED BY <1>3, <1>4

(* A line starts with the id of its row, a blank row makes a blank line,   *)
(* and the line of a product goes on with what the first columns hold.     *)
LEMMA LineStarts ==
    ASSUME NEW t \in Records, NEW row \in Row(t), row[Id] \in Numbers
    PROVE  LineOf(row)[Id] = row[Id]
<1>1. PICK n \in {4, 5} : n = Width(t)
  BY RecordTables
<1>2. DOMAIN row = 1..n /\ \A j \in 1..n : row[j] \in Tokens
  BY <1>1 DEF Row
<1>. PICK ss : ss = [j \in DOMAIN row |-> Field(row[j])]
  OBVIOUS
<1>3. ss \in [1..n -> Seq(Tokens)]
  BY <1>2, FieldType
<1>4. ss[1] = <<row[1]>>
  <2>1. row[1] \in Nat /\ row[1] > 0 /\ row[1] \notin Texts
    BY TextsAssumption DEF Numbers, Id
  <2>. QED BY <1>2, <2>1 DEF Field, intToCharArray
<1>. PICK fields : fields = FlattenSeq(ss)
  OBVIOUS
<1>5. Starts(fields, ss, 1)
  <2>1. 1 \in 1..n /\ n \in Nat /\ \A j \in 1..1 : Len(ss[j]) = 1
    BY <1>4
  <2>. QED BY <1>3, <2>1, FlattenStarts
<1>6. fields \in Seq(Tokens)
  BY <1>3, FlattenType
<1>7. Len(fields) >= 1 /\ fields[1] = row[1]
  BY <1>4, <1>5 DEF Starts
<1>8. Append(fields, EOL)[1] = fields[1]
  BY <1>6, <1>7, AppendProperties DEF Tokens, Texts
<1>. QED BY <1>7, <1>8 DEF LineOf, Id

LEMMA BlankLine ==
    ASSUME NEW t \in Records PROVE LineOf(BlankRow(t)) = <<EOL>>
<1>1. PICK n \in {4, 5} : n = Width(t) /\ DOMAIN Columns[t] = 1..n
  BY RecordTables, Widths
<1>. PICK row : row = BlankRow(t)
  OBVIOUS
<1>2. DOMAIN row = 1..n /\ \A j \in 1..n : row[j] = 0 \/ row[j] = NoText
  BY <1>1 DEF BlankRow
<1>3. Field(0) = <<>> /\ Field(NoText) = <<>>
  BY TextsAssumption DEF Field, intToCharArray, Texts
<1>4. [j \in DOMAIN row |-> Field(row[j])] \in [1..n -> {<<>>}]
  BY <1>2, <1>3
<1>5. FlattenSeq([j \in DOMAIN row |-> Field(row[j])]) = <<>>
  BY <1>4, FlattenNothing
<1>6. Append(<<>>, EOL) = <<EOL>>
  OBVIOUS
<1>. QED BY <1>5, <1>6 DEF LineOf

(* A number that is not 0 is written as it is.                             *)
LEMMA FieldOfNumber == ASSUME NEW x \in Numbers PROVE Field(x) = <<x>>
<1>1. x \notin Texts /\ x > 0 /\ x \in Int
  BY TextsAssumption DEF Numbers
<1>2. intToCharArray(x) = <<x>>
  BY <1>1 DEF intToCharArray
<1>. QED BY <1>1, <1>2 DEF Field

LEMMA ProductLine ==
    ASSUME NEW row \in Row(Product), row[1] \in Numbers, row[2] \in Names, row[3] \in Numbers
    PROVE  LET l == LineOf(row) IN
           /\ Len(l) >= 4 /\ l[1] = row[1] /\ l[2] = row[2] /\ l[3] = row[3]
           /\ row[4] > 0 => l[4] = row[4]
<1>1. Width(Product) = 5 /\ Columns[Product][4]
  BY ColumnsAre DEF Width
<1>2. DOMAIN row = 1..5 /\ (\A j \in 1..5 : row[j] \in Tokens) /\ row[4] \in Int
  BY <1>1 DEF Row
<1>. PICK ss : ss = [j \in DOMAIN row |-> Field(row[j])]
  OBVIOUS
<1>3. ss \in [1..5 -> Seq(Tokens)]
  BY <1>2, FieldType
<1>4. ss[1] = <<row[1]>> /\ ss[2] = <<row[2]>> /\ ss[3] = <<row[3]>>
  <2>2. row[2] \in Texts /\ row[2] # NoText
    BY DEF Names, Fields
  <2>3. ss[1] = <<row[1]>>
    BY <1>2, FieldOfNumber
  <2>4. ss[2] = <<row[2]>>
    BY <1>2, <2>2 DEF Field
  <2>5. ss[3] = <<row[3]>>
    BY <1>2, FieldOfNumber
  <2>. QED BY <2>3, <2>4, <2>5
<1>5. row[4] > 0 => ss[4] = <<row[4]>>
  <2>1. row[4] > 0 => row[4] \in Numbers
    BY <1>2 DEF Numbers
  <2>. QED BY <1>2, <2>1, FieldOfNumber
<1>. PICK fields : fields = FlattenSeq(ss)
  OBVIOUS
<1>6. fields \in Seq(Tokens) /\ EOL \in Tokens
  <2>1. 5 \in Nat
    OBVIOUS
  <2>. QED BY <1>3, <2>1, FlattenType DEF Tokens, Texts
<1>7. Starts(fields, ss, 3)
  <2>1. 5 \in Nat /\ 3 \in 1..5 /\ \A j \in 1..3 : Len(ss[j]) = 1
    BY <1>4
  <2>. QED BY <1>3, <2>1, FlattenStarts
<1>8. row[4] > 0 => Starts(fields, ss, 4)
  <2>. SUFFICES ASSUME row[4] > 0 PROVE Starts(fields, ss, 4)
    OBVIOUS
  <2>1. 5 \in Nat /\ 4 \in 1..5 /\ \A j \in 1..4 : Len(ss[j]) = 1
    BY <1>4, <1>5
  <2>. QED BY <1>3, <2>1, FlattenStarts
<1>. PICK l : l = Append(fields, EOL)
  OBVIOUS
<1>9. Len(l) = Len(fields) + 1 /\ \A j \in 1..Len(fields) : l[j] = fields[j]
  BY <1>6, AppendProperties
<1>10. /\ Len(fields) >= 3 /\ Len(fields) \in Nat
       /\ fields[1] = row[1] /\ fields[2] = row[2] /\ fields[3] = row[3]
       /\ row[4] > 0 => Len(fields) >= 4 /\ fields[4] = row[4]
  <2>1. Len(fields) >= 3 /\ Len(fields) \in Nat
    BY <1>6, <1>7 DEF Starts
  <2>2. fields[1] = ss[1][1] /\ fields[2] = ss[2][1] /\ fields[3] = ss[3][1]
    BY <1>7 DEF Starts
  <2>3. row[4] > 0 => Len(fields) >= 4 /\ fields[4] = ss[4][1]
    BY <1>8 DEF Starts
  <2>6. \A x : <<x>>[1] = x
    OBVIOUS
  <2>4. ss[1][1] = row[1] /\ ss[2][1] = row[2] /\ ss[3][1] = row[3]
    BY <1>4, <2>6, Zenon
  <2>5. row[4] > 0 => ss[4][1] = row[4]
    BY <1>5, <2>6, Zenon
  <2>. QED BY <2>1, <2>2, <2>3, <2>4, <2>5
<1>11. /\ Len(l) >= 4 /\ l[1] = row[1] /\ l[2] = row[2] /\ l[3] = row[3]
       /\ row[4] > 0 => l[4] = row[4]
  BY <1>9, <1>10
<1>. QED BY <1>11 DEF LineOf

(* What a write-back of rows with ids has in it.                           *)
LEMMA WrittenLines ==
    ASSUME NEW t \in Records, NEW rows \in Seq(Row(t)), HaveIds(rows), NEW n \in Nat
    PROVE  LET new == Written(t, rows, n) IN
           /\ Len(new) = n
           /\ \A i \in 1..n : i <= Len(rows) => new[i] = LineOf(rows[i]) /\ new[i][Id] = rows[i][Id]
           /\ \A i \in 1..n : i > Len(rows) => new[i] = <<EOL>>
<1>. PICK new : new = Written(t, rows, n)
  OBVIOUS
<1>1. Len(new) = n /\ \A i \in 1..n : new[i] = LineOf(RowAt(t, rows, i))
  BY WrittenAre
<1>2. ASSUME NEW i \in 1..n, i <= Len(rows)
      PROVE  new[i] = LineOf(rows[i]) /\ new[i][Id] = rows[i][Id]
  <2>1. i \in 1..Len(rows) /\ rows[i] \in Row(t) /\ rows[i][Id] \in Numbers
    BY <1>2 DEF HaveIds
  <2>2. RowAt(t, rows, i) = rows[i]
    BY <2>1 DEF RowAt
  <2>. QED BY <1>1, <2>1, <2>2, LineStarts
<1>3. ASSUME NEW i \in 1..n, i > Len(rows) PROVE new[i] = <<EOL>>
  <2>1. i \notin DOMAIN rows
    BY <1>3
  <2>2. RowAt(t, rows, i) = BlankRow(t)
    BY <2>1 DEF RowAt
  <2>. QED BY <1>1, <2>2, BlankLine
<1>. QED BY <1>1, <1>2, <1>3

(* Of a readable file with ids every row has its id.                       *)
LEMMA LoadedIds ==
    ASSUME NEW t \in Records, NEW file \in TextFiles, Readable(t, file), Numbered(file)
    PROVE  LET rows == Load(t, file) IN
           /\ rows \in Seq(Row(t)) /\ HaveIds(rows) /\ Len(rows) = Len(file)
           /\ \A i \in DOMAIN file : file[i][Id] \in Numbers /\ rows[i][Id] = file[i][Id]
<1>. PICK rows : rows = Load(t, file)
  OBVIOUS
<1>1. rows \in Seq(Row(t)) /\ Len(rows) = Len(file) /\ DOMAIN rows = DOMAIN file
  <2>1. rows \in Seq(Row(t))
    BY LoadType, RecordTables
  <2>2. DOMAIN rows = DOMAIN file /\ DOMAIN file = 1..Len(file) /\ Len(file) \in Nat
    BY DEF Load, TextFiles
  <2>. QED BY <2>1, <2>2
<1>2. ASSUME NEW i \in DOMAIN file
      PROVE  file[i][Id] \in Numbers /\ rows[i][Id] = file[i][Id]
  <2>1. Len(file[i]) >= Width(t) /\ file[i] \in Seq(Tokens)
    BY DEF Readable, Width, TextFiles, FileLines
  <2>2. file[i] # <<EOL>>
    <3>1. Len(<<EOL>>) = 1
      OBVIOUS
    <3>2. PICK n \in Nat : n = Len(file[i])
      BY <2>1
    <3>3. PICK w \in {4, 5} : w = Width(t)
      BY RecordTables
    <3>4. n >= w
      BY <2>1, <3>2, <3>3
    <3>5. Len(file[i]) # 1
      BY <3>2, <3>4
    <3>. QED BY <3>1, <3>5, Zenon
  <2>3. file[i][Id] \in Numbers
    BY <2>2 DEF Numbered
  <2>4. Token(file[i], Id) = file[i][Id]
    <3>1. Id \in 1..Len(file[i])
      BY <2>1, RecordTables DEF Id
    <3>. QED BY <2>1, <3>1 DEF Token
  <2>5. atoi(file[i][Id]) = file[i][Id]
    BY <2>3, TextsAssumption DEF atoi, Numbers
  <2>6. Id \in DOMAIN Columns[t] /\ Columns[t][Id]
    BY RecordTables, Widths
  <2>7. rows[i][Id] = atoi(Token(file[i], Id))
    BY <2>6 DEF Load
  <2>. QED BY <2>3, <2>4, <2>5, <2>7
<1>3. HaveIds(rows)
  BY <1>1, <1>2 DEF HaveIds
<1>. QED BY <1>1, <1>2, <1>3

(* Rows with ids have no gap: a new row goes behind the last one.          *)
LEMMA NoGap ==
    ASSUME NEW t \in Records, NEW rows \in Seq(Row(t)), HaveIds(rows)
    PROVE  /\ FreeRow(t, rows) = Len(rows) + 1 /\ UpToFree(t, rows) = rows
           /\ \A row : PutRow(t, rows, row) = Append(rows, row)
<1>1. Len(rows) \in Nat /\ DOMAIN rows = 1..Len(rows) /\ Len(rows) + 1 \notin DOMAIN rows
  OBVIOUS
<1>2. RowAt(t, rows, Len(rows) + 1)[Id] = 0
  BY <1>1, RecordTables, Widths DEF RowAt, BlankRow
<1>3. \A i \in 1..Len(rows) : rows[i][Id] # 0 /\ RowAt(t, rows, i)[Id] # 0
  BY DEF HaveIds, Numbers, RowAt
<1>4. FirstZero(t, rows, Id) = Len(rows) + 1
  <2> DEFINE P(i) == /\ RowAt(t, rows, i)[Id] = 0
                     /\ \A k \in 1..(i - 1) : rows[k][Id] # 0
  <2>1. P(Len(rows) + 1) /\ Len(rows) + 1 \in 1..(Len(rows) + 1)
    BY <1>1, <1>2, <1>3
  <2>2. \A i \in 1..(Len(rows) + 1) : P(i) => i = Len(rows) + 1
    BY <1>1, <1>3
  <2> HIDE DEF P
  <2>3. (CHOOSE i \in 1..(Len(rows) + 1) : P(i)) = Len(rows) + 1
    BY <2>1, <2>2
  <2>. QED BY <2>3 DEF FirstZero, P
<1>5. FreeRow(t, rows) = Len(rows) + 1
  BY <1>4 DEF FreeRow
<1>6. UpToFree(t, rows) = rows
  <2>1. SubSeq(rows, 1, Len(rows)) = rows
    OBVIOUS
  <2>2. Len(rows) + 1 - 1 = Len(rows)
    BY <1>1
  <2>. QED BY <1>5, <2>1, <2>2 DEF UpToFree
<1>7. \A row : PutRow(t, rows, row) = Append(rows, row)
  <2>1. Len(rows) + 1 > Len(rows)
    BY <1>1
  <2>. QED BY <1>5, <2>1, Zenon DEF PutRow
<1>. QED BY <1>5, <1>6, <1>7

(* The line ends of a file: all but the last line have one.                *)
LEMMA LineEndsAre ==
    ASSUME NEW file \in TextFiles
    PROVE  /\ LineEnds(file) \in {Len(file), Len(file) - 1} /\ LineEnds(file) \in Nat
           /\ file \in Seq(EndedLines) => LineEnds(file) = Len(file)
<1>. PICK n \in Nat : n = Len(file) /\ DOMAIN file = 1..n
  BY DEF TextFiles
<1>. PICK E : E = {i \in DOMAIN file : Last(file[i]) = EOL}
  OBVIOUS
<1>0. LineEnds(file) = Cardinality(E)
  BY DEF LineEnds
<1>1. \A i \in 1..n : i < n => i \in E
  BY DEF TextFiles
<1>2. E \subseteq 1..n
  OBVIOUS
<1>3. CASE n \in E \/ n = 0
  <2>1. E = 1..n
    <3>1. \A i \in 1..n : i < n \/ i = n
      OBVIOUS
    <3>. QED BY <1>1, <1>2, <1>3, <3>1
  <2>2. Cardinality(1..n) = n
    <3>1. 1 \in Int /\ n \in Int
      OBVIOUS
    <3>2. Cardinality(1..n) = IF 1 > n THEN 0 ELSE n - 1 + 1
      BY <3>1, FS_Interval
    <3>. QED BY <3>2
  <2>. QED BY <1>0, <2>1, <2>2
<1>4. CASE n \notin E /\ n # 0
  <2>1. E = 1..(n-1)
    <3>1. \A i \in 1..n : i < n \/ i = n
      OBVIOUS
    <3>2. \A i \in 1..(n-1) : i \in 1..n /\ i < n
      OBVIOUS
    <3>3. \A i \in 1..n : i < n => i \in 1..(n-1)
      OBVIOUS
    <3>. QED BY <1>1, <1>2, <1>4, <3>1, <3>2, <3>3
  <2>2. Cardinality(1..(n-1)) = n - 1
    <3>1. 1 \in Int /\ n - 1 \in Int
      OBVIOUS
    <3>2. Cardinality(1..(n-1)) = IF 1 > n - 1 THEN 0 ELSE n - 1 - 1 + 1
      BY <3>1, FS_Interval
    <3>. QED BY <1>4, <3>2
  <2>3. file \notin Seq(EndedLines)
    BY <1>4 DEF EndedLines
  <2>4. LineEnds(file) = n - 1
    BY <1>0, <2>1, <2>2, Zenon
  <2>5. n - 1 \in Nat
    BY <1>4
  <2>. QED BY <2>3, <2>4, <2>5
<1>. QED BY <1>3, <1>4

----------------------------------------------------------------------------
(* What the commands do to the ids *)

(* Rows of which one has one column set.                                   *)
IsSet(new, rows, i, j, v, width) ==
    /\ DOMAIN new = DOMAIN rows
    /\ \A k \in DOMAIN rows : \A m \in 1..width :
         new[k][m] = IF k = i /\ m = j THEN v ELSE rows[k][m]

LEMMA SetOne ==
    ASSUME NEW t \in Tables, NEW rows \in Seq(Row(t)), NEW i \in DOMAIN rows,
           NEW j \in 1..Width(t), NEW v
    PROVE  IsSet([rows EXCEPT ![i][j] = v], rows, i, j, v, Width(t))
<1>1. \A k \in DOMAIN rows : DOMAIN rows[k] = 1..Width(t)
  BY DEF Row
<1>. QED BY <1>1 DEF IsSet

(* The same rows, as far as their ids go.                                  *)
SameIds(new, rows) ==
    DOMAIN new = DOMAIN rows /\ \A k \in DOMAIN rows : new[k][Id] = rows[k][Id]

(* To set another column leaves the ids, whether there is the row or not.  *)
LEMMA SetKeepsIds ==
    ASSUME NEW t \in Tables, NEW rows \in Seq(Row(t)), NEW i, NEW j \in {2, 3, 4, 5}, NEW v
    PROVE  SameIds([rows EXCEPT ![i][j] = v], rows)
<1>1. Id \in 1..Width(t) /\ j # Id
  BY Widths DEF Id
<1>2. CASE i \in DOMAIN rows
  <2>2. rows[i] \in Row(t)
    BY <1>2
  <2>1. Id \in DOMAIN rows[i]
    BY <1>1, <2>2 DEF Row
  <2>. QED BY <1>1, <1>2, <2>1 DEF SameIds
<1>3. CASE i \notin DOMAIN rows
  <2>1. [rows EXCEPT ![i][j] = v] = rows
    BY <1>3
  <2>. QED BY <2>1 DEF SameIds
<1>. QED BY <1>2, <1>3

LEMMA RenamedKeepsIds ==
    ASSUME NEW t \in {Billing, Orders}, NEW rows \in Seq(Row(t)), NEW name,
           NEW ids, NEW column
    PROVE  SameIds(Renamed(t, rows, name, ids, column), rows)
<1>1. Who[t] # Id
  BY ColumnsAre DEF Id
<1>2. ASSUME NEW i \in DOMAIN rows PROVE [rows[i] EXCEPT ![Who[t]] = name][Id] = rows[i][Id]
  <2>1. Id \in DOMAIN rows[i]
    BY Widths, RecordTables DEF Row, Records
  <2>. QED BY <1>1, <2>1
<1>. QED BY <1>2 DEF SameIds, Renamed

(* What has the ids of rows with ids has ids.                              *)
LEMMA SameHaveIds ==
    ASSUME NEW rows, NEW new, HaveIds(rows), SameIds(new, rows) PROVE HaveIds(new)
BY DEF HaveIds, SameIds

(* Rows, and then one with this id.                                        *)
OneMore(new, rows, id) ==
    /\ Len(new) = Len(rows) + 1 /\ new[Len(rows) + 1][Id] = id
    /\ \A k \in DOMAIN rows : new[k][Id] = rows[k][Id]

LEMMA AppendOne ==
    ASSUME NEW t \in Records, NEW rows \in Seq(Row(t)), HaveIds(rows),
           NEW row \in Row(t), row[Id] \in Numbers
    PROVE  LET new == PutRow(t, rows, row) IN
           /\ new = Append(rows, row) /\ OneMore(new, rows, row[Id]) /\ HaveIds(new)
<1>. PICK new : new = PutRow(t, rows, row)
  OBVIOUS
<1>1. new = Append(rows, row)
  BY NoGap
<1>2. /\ Len(new) = Len(rows) + 1 /\ new[Len(rows) + 1] = row /\ new \in Seq(Row(t))
      /\ \A k \in 1..Len(rows) : new[k] = rows[k]
  BY <1>1, AppendProperties
<1>3. Len(rows) \in Nat /\ DOMAIN rows = 1..Len(rows) /\ DOMAIN new = 1..(Len(rows) + 1)
  BY <1>2
<1>4. OneMore(new, rows, row[Id])
  BY <1>2, <1>3 DEF OneMore
<1>5. \A k \in 1..(Len(rows) + 1) : k = Len(rows) + 1 \/ k \in 1..Len(rows)
  OBVIOUS
<1>6. HaveIds(new)
  BY <1>2, <1>3, <1>5 DEF HaveIds
<1>. QED BY <1>1, <1>4, <1>6

(* Rows, and then rows with this id.                                       *)
SomeMore(new, rows, id) ==
    /\ Len(new) >= Len(rows)
    /\ \A k \in DOMAIN new : new[k][Id] = IF k \in DOMAIN rows THEN rows[k][Id] ELSE id

(* The lines of an order go behind the others.                             *)
LEMMA WithLinesIds ==
    ASSUME NEW cmd, cmd.lines \in Seq(OrderLine), NEW id \in Numbers, NEW who \in Plain,
           NEW orders \in Seq(Row(Orders)), HaveIds(orders)
    PROVE  LET new == WithLines(cmd, id, who, orders) IN
           HaveIds(new) /\ SomeMore(new, orders, id)
<1>1. PICK new : new = WithLines(cmd, id, who, orders)
  OBVIOUS
<1>2. PICK f : f = FreeRow(Orders, orders)
  OBVIOUS
<1>3. f = Len(orders) + 1
  BY <1>2, NoGap DEF Records
<1>4. id \in Int
  BY DEF Numbers
<1>5. LinesPlaced(new, f, cmd, id, who, orders)
  BY <1>1, <1>2, <1>4, WithLinesPlaces
<1>6. /\ new \in Seq(Row(Orders)) /\ Len(new) >= Len(orders) /\ Len(orders) \in Nat
      /\ DOMAIN new = 1..Len(new) /\ DOMAIN orders = 1..Len(orders)
  BY <1>3, <1>5 DEF LinesPlaced
<1>7. ASSUME NEW k \in DOMAIN new
      PROVE  new[k][Id] = IF k \in DOMAIN orders THEN orders[k][Id] ELSE id
  <2>1. CASE k \in DOMAIN orders /\ new[k] = orders[k]
    BY <2>1
  <2>2. CASE k >= f /\ \E i \in DOMAIN cmd.lines : new[k] = LineRow(cmd.lines[i], id, who)
    <3>1. k \notin DOMAIN orders
      BY <1>3, <1>6, <2>2
    <3>2. new[k][1] = id
      BY <2>2 DEF LineRow
    <3>. QED BY <3>1, <3>2 DEF Id
  <2>. QED BY <1>5, <1>6, <2>1, <2>2 DEF LinesPlaced
<1>8. HaveIds(new)
  BY <1>7 DEF HaveIds
<1>. QED BY <1>1, <1>6, <1>7, <1>8 DEF SomeMore

(* Leaving out rows, row by row.                                           *)
Keeps(g, rows, j, v, n, S) ==
    /\ g[0] = <<>> /\ Without(rows, j, v) = g[n] /\ \A m \in 0..n : g[m] \in Seq(S)
    /\ \A m \in 1..n : g[m] = IF rows[m][j] = v THEN g[m-1] ELSE Append(g[m-1], rows[m])

LEMMA WithoutSteps ==
    ASSUME NEW S, NEW n \in Nat, NEW rows \in [1..n -> S], NEW j, NEW v
    PROVE  \E g : Keeps(g, rows, j, v, n, S)
<1>. PICK ss : ss = [i \in DOMAIN rows |-> IF rows[i][j] = v THEN <<>> ELSE <<rows[i]>>]
  OBVIOUS
<1>1. ss \in [1..n -> Seq(S)] /\ Without(rows, j, v) = FlattenSeq(ss)
  <2>1. \A i \in 1..n : <<>> \in Seq(S) /\ <<rows[i]>> \in Seq(S)
    OBVIOUS
  <2>. QED BY <2>1 DEF Without
<1>2. CASE n = 0
  <2>1. ss = <<>> /\ Len(ss) = 0
    BY <1>1, <1>2
  <2>2. Without(rows, j, v) = <<>>
    BY <1>1, <2>1 DEF FlattenSeq
  <2>3. PICK g : g = [m \in 0..0 |-> <<>>]
    OBVIOUS
  <2>4. g[0] = <<>> /\ Without(rows, j, v) = g[n]
    BY <1>2, <2>2, <2>3
  <2>5. \A m \in 0..n : g[m] \in Seq(S)
    BY <1>2, <2>3
  <2>6. \A m \in 1..n : FALSE
    BY <1>2
  <2>7. Keeps(g, rows, j, v, n, S)
    BY <2>4, <2>5, <2>6 DEF Keeps
  <2>. QED BY <2>7
<1>3. CASE n # 0
  <2>1. PICK f : Grows(f, ss, n) /\ FlattenSeq(ss) = f[n]
    BY <1>1, <1>3, FlattenSteps
  <2>. PICK g : g = [m \in 0..n |-> IF m = 0 THEN <<>> ELSE f[m]]
    OBVIOUS
  <2>2. g[0] = <<>> /\ Without(rows, j, v) = g[n]
    BY <1>1, <1>3, <2>1
  <2> DEFINE G == {m \in 0..n : g[m] \in Seq(S)}
  <2>3. ASSUME NEW m \in 1..n PROVE ss[m] \in Seq(S) /\ (m - 1 \in G => g[m] = g[m-1] \o ss[m])
    <3>1. ss[m] \in Seq(S)
      BY <1>1
    <3>2. CASE m = 1
      <4>1. g[m] = ss[m] /\ g[m-1] = <<>>
        BY <2>1, <3>2 DEF Grows
      <4>. QED BY <3>1, <4>1, ConcatEmptySeq
    <3>3. CASE m # 1
      <4>1. m \in 2..n /\ g[m] = f[m] /\ g[m-1] = f[m-1]
        BY <3>3
      <4>. QED BY <2>1, <3>1, <4>1 DEF Grows
    <3>. QED BY <3>1, <3>2, <3>3
  <2>4. ASSUME NEW m \in 1..n, m - 1 \in G PROVE m \in G
    <3>1. g[m-1] \in Seq(S) /\ m \in 0..n
      BY <2>4
    <3>2. ss[m] \in Seq(S) /\ g[m] = g[m-1] \o ss[m]
      BY <2>3, <2>4
    <3>3. \A a, b \in Seq(S) : a \o b \in Seq(S)
      BY ConcatProperties
    <3>4. g[m] \in Seq(S)
      BY <3>1, <3>2, <3>3, Zenon
    <3>. QED BY <3>1, <3>4
  <2>5. 0 \in G
    BY EmptySeq
  <2>6. ASSUME NEW m \in 0..n PROVE m \in G
    <3>1. \A k \in 1..m : k - 1 \in G => k \in G
      <4>1. \A k \in 1..m : k \in 1..n
        OBVIOUS
      <4>. QED BY <2>4, <4>1
    <3> HIDE DEF G
    <3>. QED BY <2>5, <3>1, Upwards
  <2>7. ASSUME NEW m \in 1..n
        PROVE  g[m] = IF rows[m][j] = v THEN g[m-1] ELSE Append(g[m-1], rows[m])
    <3>1. m - 1 \in 0..n /\ rows[m] \in S /\ m \in DOMAIN rows
      OBVIOUS
    <3>2. g[m-1] \in Seq(S) /\ g[m] = g[m-1] \o ss[m]
      BY <2>3, <2>6, <3>1
    <3>. PICK a \in Seq(S) : a = g[m-1]
      BY <3>2
    <3>. PICK x \in S : x = rows[m]
      BY <3>1
    <3>3. a \o <<>> = a /\ a \o <<x>> = Append(a, x)
      BY ConcatEmptySeq
    <3>4. ss[m] = IF rows[m][j] = v THEN <<>> ELSE <<x>>
      BY <3>1
    <3>. QED BY <3>2, <3>3, <3>4
  <2>8. \A m \in 0..n : g[m] \in Seq(S)
    BY <2>6
  <2>9. Keeps(g, rows, j, v, n, S)
    BY <2>2, <2>7, <2>8 DEF Keeps
  <2>. QED BY <2>9
<1>. QED BY <1>2, <1>3

(* Rows of the first m, in their order.                                    *)
PartOf(new, rows, m) ==
    \E p \in [DOMAIN new -> 1..m] :
        /\ \A k \in DOMAIN new : new[k] = rows[p[k]]
        /\ \A k, l \in DOMAIN new : k < l => p[k] < p[l]

LEMMA WithoutIsPart ==
    ASSUME NEW S, NEW n \in Nat, NEW rows \in [1..n -> S], NEW j, NEW v
    PROVE  PartOf(Without(rows, j, v), rows, n)
<1>1. PICK g : Keeps(g, rows, j, v, n, S)
  BY WithoutSteps
<1> DEFINE G == {m \in 0..n : PartOf(g[m], rows, m)}
<1>2. ASSUME NEW m \in 1..n, m - 1 \in G PROVE m \in G
  <2>1. m - 1 \in 0..n /\ m \in 0..n /\ rows[m] \in S
    OBVIOUS
  <2>2. PICK old \in Seq(S) : old = g[m-1]
    BY <1>1, <2>1 DEF Keeps
  <2>3. PICK p \in [DOMAIN old -> 1..(m-1)] :
          /\ \A k \in DOMAIN old : old[k] = rows[p[k]]
          /\ \A k, l \in DOMAIN old : k < l => p[k] < p[l]
    BY <1>2, <2>2 DEF PartOf
  <2>4. CASE rows[m][j] = v
    <3>1. g[m] = old
      BY <1>1, <2>2, <2>4 DEF Keeps
    <3>2. p \in [DOMAIN old -> 1..m]
      BY <2>3
    <3>3. PartOf(old, rows, m)
      BY <2>3, <3>2 DEF PartOf
    <3>. QED BY <2>1, <3>1, <3>3
  <2>5. CASE rows[m][j] # v
    <3>. PICK new : new = Append(old, rows[m])
      OBVIOUS
    <3>1. g[m] = new
      BY <1>1, <2>2, <2>5 DEF Keeps
    <3>. PICK k0 \in Nat : k0 = Len(old) /\ DOMAIN old = 1..k0
      OBVIOUS
    <3>2. /\ DOMAIN new = 1..(k0 + 1) /\ new[k0 + 1] = rows[m]
          /\ \A k \in 1..k0 : new[k] = old[k]
      BY <2>1, AppendProperties
    <3>. PICK q : q = [k \in 1..(k0 + 1) |-> IF k = k0 + 1 THEN m ELSE p[k]]
      OBVIOUS
    <3>4. ASSUME NEW k \in 1..(k0 + 1), k # k0 + 1
          PROVE  k \in 1..k0 /\ q[k] = p[k] /\ q[k] \in 1..(m-1)
      <4>1. k \in 1..k0
        BY <3>4
      <4>2. p[k] \in 1..(m-1)
        BY <2>3, <4>1
      <4>. QED BY <3>4, <4>1, <4>2
    <3>3. q \in [DOMAIN new -> 1..m]
      BY <3>2, <3>4
    <3>5. q[k0 + 1] = m
      OBVIOUS
    <3>6. \A k \in DOMAIN new : new[k] = rows[q[k]]
      BY <2>3, <3>2, <3>4, <3>5
    <3>7. ASSUME NEW k \in DOMAIN new, NEW l \in DOMAIN new, k < l PROVE q[k] < q[l]
      <4>1. k \in 1..k0 /\ q[k] = p[k] /\ q[k] \in 1..(m-1)
        BY <3>2, <3>4, <3>7
      <4>2. CASE l = k0 + 1
        BY <3>5, <4>1, <4>2
      <4>3. CASE l # k0 + 1
        BY <2>3, <3>2, <3>4, <3>7, <4>1, <4>3
      <4>. QED BY <4>2, <4>3
    <3>8. PartOf(new, rows, m)
      BY <3>3, <3>6, <3>7 DEF PartOf
    <3>. QED BY <2>1, <3>1, <3>8
  <2>. QED BY <2>4, <2>5
<1>3. 0 \in G
  <2>. PICK e : e = <<>>
    OBVIOUS
  <2>1. e \in [DOMAIN e -> 1..0] /\ \A k \in DOMAIN e : FALSE
    OBVIOUS
  <2>2. PartOf(e, rows, 0)
    BY <2>1 DEF PartOf
  <2>. QED BY <1>1, <2>2 DEF Keeps
<1>4. n \in G
  <2> HIDE DEF G
  <2>. QED BY <1>2, <1>3, Upwards
<1>. QED BY <1>1, <1>4 DEF Keeps

(* What is left of rows with ids has ids.                                  *)
LEMMA PartHasIds ==
    ASSUME NEW rows, NEW new, NEW n \in Nat, DOMAIN rows = 1..n, PartOf(new, rows, n)
    PROVE  /\ \A k \in DOMAIN new : \E i \in DOMAIN rows : new[k] = rows[i]
           /\ HaveIds(rows) => HaveIds(new)
<1>1. \A k \in DOMAIN new : \E i \in DOMAIN rows : new[k] = rows[i]
  BY DEF PartOf
<1>2. HaveIds(rows) => HaveIds(new)
  BY <1>1 DEF HaveIds
<1>. QED BY <1>1, <1>2

(* The ids in the products after an order are those before it.             *)
LEMMA DeductedKeepsIds ==
    ASSUME NEW lines \in Seq(OrderLine), NEW products \in Seq(Row(Product))
    PROVE  SameIds(Deducted(lines, products), products)
<1>. PICK n \in Nat : n = Len(lines)
  OBVIOUS
<1>0. PICK g : DeductedUpTo(g, lines, products)
  BY DeductedSteps
<1>1. /\ g[0] = products /\ Deducted(lines, products) = g[n]
      /\ \A m \in 1..n : g[m] = DeductLine(g[m-1], lines[m])
  BY <1>0 DEF DeductedUpTo
<1> DEFINE Good(rows) == rows \in Seq(Row(Product)) /\ SameIds(rows, products)
           G == {m \in 0..n : Good(g[m])}
<1>2. ASSUME NEW m \in 1..n, m - 1 \in G PROVE m \in G
  <2>. PICK rows : rows = g[m-1]
    OBVIOUS
  <2>1. rows \in Seq(Row(Product)) /\ SameIds(rows, products) /\ m \in 0..n
    BY <1>2
  <2>2. PICK l \in OrderLine : l = lines[m]
    OBVIOUS
  <2>. PICK i : i = RowOf(rows, l.item)
    OBVIOUS
  <2>. PICK v : v = rows[i][4] - l.quantity
    OBVIOUS
  <2>3. g[m] = DeductLine(rows, l)
    BY <1>1, <2>2
  <2>4. DeductLine(rows, l) = [rows EXCEPT ![i][4] = v]
    BY DEF DeductLine, Quantity
  <2>5. SameIds([rows EXCEPT ![i][4] = v], rows)
    BY <2>1, SetKeepsIds, TablesAre
  <2>6. SameIds(g[m], products)
    BY <2>1, <2>3, <2>4, <2>5 DEF SameIds
  <2>7. g[m] \in Seq(Row(Product))
    BY <2>1, <2>3, DeductLineType
  <2>. QED BY <2>1, <2>6, <2>7
<1>3. 0 \in G
  BY <1>1 DEF SameIds
<1>4. n \in G
  <2> HIDE DEF G
  <2>. QED BY <1>2, <1>3, Upwards
<1>. QED BY <1>1, <1>4

(* What an order makes of the three tables.                                *)
LEMMA OrderMakes ==
    ASSUME NEW cmd, cmd.op = "COMPLETE_ORDER", NEW id, NEW rows
    PROVE  LET all == Changed(cmd, id, rows)
               who == rows[Customer][RowOf(rows[Customer], cmd.buyer)][Who[Customer]] IN
           /\ DOMAIN all = Records
           /\ all[Product] = Deducted(cmd.lines, rows[Product])
           /\ all[Billing] = PutRow(Billing, rows[Billing], Bill(cmd, id, who))
           /\ all[Orders] = WithLines(cmd, id, who, rows[Orders])
<1>. PICK who : who = rows[Customer][RowOf(rows[Customer], cmd.buyer)][Who[Customer]]
  OBVIOUS
<1>1. Changed(cmd, id, rows) = completeAnOrder(cmd, id, rows)
  BY DEF Changed
<1>2. completeAnOrder(cmd, id, rows) =
        [t \in {Product, Billing, Orders} |->
            CASE t = Product -> Deducted(cmd.lines, rows[t])
              [] t = Billing -> PutRow(t, rows[t], Bill(cmd, id, who))
              [] t = Orders  -> WithLines(cmd, id, who, rows[t])]
  BY DEF completeAnOrder
<1>. QED BY <1>1, <1>2, ColumnsAre DEF Records

(* The products a command makes of products with ids have ids.             *)
LEMMA ProductsHaveIds ==
    ASSUME NEW cmd \in Commands, cmd.op # "VIEW", NEW id \in Numbers,
           NEW rows, RowsOfTables(rows),
           HaveIds(rows[Product]), Product \in DOMAIN Changed(cmd, id, rows)
    PROVE  HaveIds(Changed(cmd, id, rows)[Product])
<1>. PICK old : old = rows[Product]
  OBVIOUS
<1>1. old \in Seq(Row(Product)) /\ HaveIds(old)
  BY TablesAre DEF RowsOfTables, Typed
<1>2. cmd.op \in {"COMPLETE_ORDER", "MOD_ORDER", "EDIT_INFO", "EDIT_ROW", "NEW_CLIENT",
                  "NEW_PRODUCT", "DELETE_PROD", "MOD_QUANT", "MOD_PRICE"}
  BY RequestFields
<1>3. CASE cmd.op = "COMPLETE_ORDER"
  <2>1. Changed(cmd, id, rows)[Product] = Deducted(cmd.lines, old)
    BY <1>3, OrderMakes
  <2>2. cmd.lines \in Seq(OrderLine)
    BY <1>3, RequestFields DEF OrderLine
  <2>. QED BY <1>1, <2>1, <2>2, DeductedKeepsIds, SameHaveIds
<1>4. CASE cmd.op = "NEW_PRODUCT"
  <2>. PICK row : row = <<id, cmd.name, cmd.seller, cmd.quantity, cmd.price>>
    OBVIOUS
  <2>1. Changed(cmd, id, rows)[Product] = PutRow(Product, old, row)
    BY <1>4 DEF Changed, NewProduct
  <2>2. row \in Row(Product) /\ row[Id] = id
    <3>1. id \in Int
      BY DEF Numbers
    <3>. QED BY <1>4, <3>1, RequestFields, RowTuples, IntsArePlain DEF Id
  <2>. QED BY <1>1, <2>1, <2>2, AppendOne DEF Records
<1>5. CASE cmd.op = "DELETE_PROD"
  <2>1. Changed(cmd, id, rows)[Product] = deleteProduct(cmd, old)
    BY <1>5 DEF Changed
  <2>2. CASE ~IsOwner(cmd, old)
    BY <2>1, <2>2 DEF deleteProduct, HaveIds
  <2>3. CASE IsOwner(cmd, old)
    <3>1. deleteProduct(cmd, old) = Without(old, Id, cmd.item)
      BY <1>1, <2>3, NoGap DEF deleteProduct, Records
    <3>. PICK n \in Nat : n = Len(old) /\ DOMAIN old = 1..n
      BY <1>1
    <3>2. PartOf(Without(old, Id, cmd.item), old, n)
      <4>1. old \in [1..n -> Row(Product)]
        BY <1>1
      <4>. QED BY <4>1, WithoutIsPart
    <3>. QED BY <1>1, <2>1, <3>1, <3>2, PartHasIds
  <2>. QED BY <2>2, <2>3
<1>6. CASE cmd.op \in {"MOD_QUANT", "MOD_PRICE"}
  <2>1. PICK j \in {2, 3, 4, 5} : \E v : Changed(cmd, id, rows)[Product] = Modified(cmd, old, j, v)
    BY <1>6 DEF Changed, Quantity, Price
  <2>2. PICK v : Changed(cmd, id, rows)[Product] = Modified(cmd, old, j, v)
    BY <2>1
  <2>3. CASE ~IsOwner(cmd, old)
    BY <1>1, <2>2, <2>3 DEF Modified
  <2>4. CASE IsOwner(cmd, old)
    <3>. PICK i : i = RowOf(old, cmd.item)
      OBVIOUS
    <3>1. Modified(cmd, old, j, v) = [old EXCEPT ![i][j] = v]
      BY <2>4 DEF Modified
    <3>2. SameIds([old EXCEPT ![i][j] = v], old)
      BY <1>1, SetKeepsIds, TablesAre
    <3>. QED BY <1>1, <2>2, <3>1, <3>2, SameHaveIds
  <2>. QED BY <2>3, <2>4
<1>7. CASE cmd.op \in {"MOD_ORDER", "EDIT_INFO", "EDIT_ROW", "NEW_CLIENT"}
  <2>1. CASE cmd.op = "MOD_ORDER"
    <3>1. DOMAIN Changed(cmd, id, rows) \subseteq {Orders, Billing}
      BY <2>1 DEF Changed, buyerModifiesOrder
    <3>. QED BY <3>1, ColumnsAre
  <2>2. CASE cmd.op = "EDIT_INFO"
    <3>1. DOMAIN Changed(cmd, id, rows) = {Customer, Billing, Orders}
      BY <2>2 DEF Changed, buyerEdits
    <3>. QED BY <3>1, ColumnsAre
  <2>3. CASE cmd.op \in {"EDIT_ROW", "NEW_CLIENT"}
    <3>1. DOMAIN Changed(cmd, id, rows) = {cmd.table} /\ cmd.table \in {Customer, Sellers}
      BY <2>3, RequestFields DEF Changed
    <3>. QED BY <3>1, ColumnsAre
  <2>. QED BY <1>7, <2>1, <2>2, <2>3
<1>. QED BY <1>2, <1>3, <1>4, <1>5, <1>6, <1>7

(* The name on a bill is no line end.                                      *)
LEMMA BuyerIsPlain ==
    ASSUME NEW rows \in Seq(Row(Customer)), NEW buyer, Has(rows, buyer)
    PROVE  rows[RowOf(rows, buyer)][Who[Customer]] \in Plain
<1>1. PICK i \in DOMAIN rows : i = RowOf(rows, buyer)
  BY RowOfIs
<1>2. rows[i] \in Row(Customer)
  OBVIOUS
<1>3. Who[Customer] = 2 /\ 2 \in 1..Width(Customer) /\ Width(Customer) # 2
  BY ColumnsAre DEF Width
<1>4. rows[i][2] \in Plain
  BY <1>2, <1>3 DEF Row, Plain
<1>. QED BY <1>1, <1>3, <1>4, Zenon

(* MOD_ORDER changes the bill it found.                                    *)
LEMMA BillIsThere ==
    ASSUME NEW cmd, cmd.op = "MOD_ORDER", NEW id, NEW rows,
           Billing \in DOMAIN Changed(cmd, id, rows)
    PROVE  Has(rows[Billing], cmd.order)
<1>1. Billing \in DOMAIN buyerModifiesOrder(cmd, rows)
  BY DEF Changed
<1>. QED BY <1>1, ColumnsAre DEF buyerModifiesOrder

(* Its bills with the reduced one.                                         *)
LEMMA BillReduced ==
    ASSUME NEW cmd, cmd.op = "MOD_ORDER", NEW id, NEW rows,
           Billing \in DOMAIN Changed(cmd, id, rows), NEW old, old = rows[Billing],
           NEW first, first = rows[Orders][RowOf(rows[Orders], cmd.order)]
    PROVE  Changed(cmd, id, rows)[Billing] =
             [old EXCEPT ![RowOf(old, cmd.order)][Total] = @ - first[Cost]]
<1>1. Changed(cmd, id, rows) = buyerModifiesOrder(cmd, rows)
  BY DEF Changed
<1>. QED BY <1>1, ColumnsAre DEF buyerModifiesOrder

(* An order adds its bill; the other commands keep the bills there are.    *)
LEMMA BillsChanged ==
    ASSUME NEW cmd \in Commands, cmd.op \in BillOps, NEW id \in Numbers,
           NEW rows, RowsOfTables(rows), HaveIds(rows[Billing]),
           Billing \in DOMAIN Changed(cmd, id, rows),
           cmd.op = "COMPLETE_ORDER" => Has(rows[Customer], cmd.buyer)
    PROVE  LET new == Changed(cmd, id, rows)[Billing] IN
           /\ HaveIds(new)
           /\ IF cmd.op = "COMPLETE_ORDER" THEN OneMore(new, rows[Billing], id)
                                           ELSE SameIds(new, rows[Billing])
<1>. PICK old : old = rows[Billing]
  OBVIOUS
<1>. PICK new : new = Changed(cmd, id, rows)[Billing]
  OBVIOUS
<1>1. old \in Seq(Row(Billing)) /\ HaveIds(old) /\ rows[Customer] \in Seq(Row(Customer))
  BY TablesAre DEF RowsOfTables, Typed
<1>2. CASE cmd.op = "COMPLETE_ORDER"
  <2>. PICK who : who = rows[Customer][RowOf(rows[Customer], cmd.buyer)][Who[Customer]]
    OBVIOUS
  <2>. PICK row : row = Bill(cmd, id, who)
    OBVIOUS
  <2>1. new = PutRow(Billing, old, row)
    BY <1>2, OrderMakes
  <2>2. row \in Row(Billing) /\ row[Id] = id
    <3>1. who \in Plain
      BY <1>1, <1>2, BuyerIsPlain
    <3>2. cmd.buyer \in Int /\ cmd.lines \in Seq(OrderLine)
      BY <1>2, RequestFields DEF OrderLine
    <3>3. FoldLeft(LAMBDA sum, l : sum + LineCost(l), 0, cmd.lines) \in Int
      BY <3>2, TotalType
    <3>4. id \in Int
      BY DEF Numbers
    <3>. QED BY <3>1, <3>2, <3>3, <3>4, RowTuples DEF Bill, Id
  <2>. QED BY <1>1, <1>2, <2>1, <2>2, AppendOne DEF Records
<1>3. CASE cmd.op = "EDIT_INFO"
  <2>1. new = Renamed(Billing, old, cmd.name, {cmd.buyer}, Buyer)
    BY <1>3, ColumnsAre DEF Changed, buyerEdits
  <2>. QED BY <1>1, <1>3, <2>1, RenamedKeepsIds, SameHaveIds
<1>4. CASE cmd.op = "MOD_ORDER"
  <2>. PICK first : first = rows[Orders][RowOf(rows[Orders], cmd.order)]
    OBVIOUS
  <2>. PICK i : i = RowOf(old, cmd.order)
    OBVIOUS
  <2>. PICK v : v = old[i][4] - first[Cost]
    OBVIOUS
  <2>1. new = [old EXCEPT ![i][4] = v]
    <3>1. new = [old EXCEPT ![i][Total] = @ - first[Cost]]
      BY <1>4, BillReduced
    <3>. QED BY <3>1 DEF Total
  <2>2. SameIds([old EXCEPT ![i][4] = v], old)
    BY <1>1, SetKeepsIds, TablesAre
  <2>. QED BY <1>1, <1>4, <2>1, <2>2, SameHaveIds
<1>. QED BY <1>2, <1>3, <1>4 DEF BillOps

(* The ids of these rows are ids of those.                                 *)
NoNewIds(new, rows) == \A k \in DOMAIN new : \E i \in DOMAIN rows : new[k][Id] = rows[i][Id]

(* An order adds its lines; the other commands keep lines, or leave lines  *)
(* out.                                                                    *)
LEMMA LinesChanged ==
    ASSUME NEW cmd \in Commands, cmd.op \in BillOps, NEW id \in Numbers,
           NEW rows, RowsOfTables(rows), HaveIds(rows[Orders]),
           cmd.op = "COMPLETE_ORDER" => Has(rows[Customer], cmd.buyer)
    PROVE  LET new == Changed(cmd, id, rows)[Orders] IN
           /\ HaveIds(new)
           /\ IF cmd.op = "COMPLETE_ORDER" THEN SomeMore(new, rows[Orders], id)
                                           ELSE NoNewIds(new, rows[Orders])
<1>. PICK old : old = rows[Orders]
  OBVIOUS
<1>. PICK new : new = Changed(cmd, id, rows)[Orders]
  OBVIOUS
<1>1. old \in Seq(Row(Orders)) /\ HaveIds(old) /\ rows[Customer] \in Seq(Row(Customer))
  BY TablesAre DEF RowsOfTables, Typed
<1>2. CASE cmd.op = "COMPLETE_ORDER"
  <2>. PICK who : who = rows[Customer][RowOf(rows[Customer], cmd.buyer)][Who[Customer]]
    OBVIOUS
  <2>1. new = WithLines(cmd, id, who, old)
    BY <1>2, OrderMakes
  <2>2. who \in Plain
    BY <1>1, <1>2, BuyerIsPlain
  <2>3. cmd.lines \in Seq(OrderLine)
    BY <1>2, RequestFields DEF OrderLine
  <2>. QED BY <1>1, <1>2, <2>1, <2>2, <2>3, WithLinesIds
<1>3. CASE cmd.op = "EDIT_INFO"
  <2>1. new = Renamed(Orders, old, cmd.name, OrdersOf(cmd.buyer, rows[Billing]), Id)
    BY <1>3, ColumnsAre DEF Changed, buyerEdits
  <2>2. SameIds(new, old)
    BY <1>1, <2>1, RenamedKeepsIds
  <2>3. NoNewIds(new, old)
    BY <2>2 DEF NoNewIds, SameIds
  <2>. QED BY <1>1, <1>3, <2>2, <2>3, SameHaveIds
<1>4. CASE cmd.op = "MOD_ORDER"
  <2>a. PICK part : part = SubSeq(old, 1, FirstZero(Orders, old, Item) - 1)
    OBVIOUS
  <2>1. new = Without(part, Item, cmd.item)
    BY <1>4, <2>a, ColumnsAre DEF Changed, buyerModifiesOrder
  <2>2. FirstZero(Orders, old, Item) \in 1..(Len(old) + 1)
    <3>1. 2 \in 1..Width(Orders) /\ Columns[Orders][2]
      BY ColumnsAre DEF Width
    <3>. QED BY <1>1, <3>1, FirstZeroIs, TablesAre DEF Item
  <2>b. PICK n : n = FirstZero(Orders, old, Item) - 1
    OBVIOUS
  <2>3. n \in 0..Len(old) /\ n \in Nat
    BY <1>1, <2>b, <2>2
  <2>4. part \in [1..n -> Row(Orders)] /\ \A i \in 1..n : part[i] = old[i]
    <3>1. part \in Seq(Row(Orders)) /\ Len(part) = n /\ \A i \in 1..n : part[i] = old[i]
      BY <1>1, <2>a, <2>b, <2>3, SubSeqProperties
    <3>2. part \in [1..n -> Row(Orders)]
      BY <2>3, <3>1
    <3>. QED BY <3>1, <3>2
  <2>5. PartOf(new, part, n)
    BY <2>1, <2>3, <2>4, WithoutIsPart
  <2>6. \A k \in DOMAIN new : \E i \in DOMAIN part : new[k] = part[i]
    <3>1. DOMAIN part = 1..n
      BY <2>4
    <3>. QED BY <2>3, <2>5, <3>1, PartHasIds
  <2>7. \A i \in DOMAIN part : i \in DOMAIN old /\ part[i] = old[i]
    BY <1>1, <2>3, <2>4
  <2>8. NoNewIds(new, old)
    BY <2>6, <2>7 DEF NoNewIds
  <2>9. HaveIds(new)
    BY <1>1, <2>6, <2>7 DEF HaveIds
  <2>. QED BY <1>4, <2>8, <2>9
<1>. QED BY <1>2, <1>3, <1>4 DEF BillOps

----------------------------------------------------------------------------
(* The steps, as the invariants see them *)

Same(c) ==
    /\ command'[c] = command[c] /\ phase'[c] = phase[c] /\ todo'[c] = todo[c]
    /\ memory'[c] = memory[c] /\ output'[c] = output[c]
OthersSame(c) == \A d \in Threads : d # c => Same(d)

(* Nothing happens to the files, nor to who is changing them.              *)
Aside(c) ==
    /\ ~HasLocks(c) /\ phase'[c] \notin {"writing", "open"}
    /\ todo'[c] = todo[c] /\ output'[c] = output[c] /\ memory'[c] \in {memory[c], <<>>}
Quiet == UNCHANGED <<files, confirmed>> /\ \A c \in Threads : Same(c) \/ Aside(c)

(* The tables as a command has them in memory before it changes them.      *)
Loaded(cmd, rows) ==
    /\ RowsOfTables(rows)
    /\ \A t \in Tables : Readable(t, text[t]) => rows[t] = Load(t, text[t])
    /\ \A t \in Tables : ~Readable(t, text[t]) => rows[t] = <<>>
    /\ cmd.op \in {"COMPLETE_ORDER", "EDIT_INFO"} => Has(rows[Customer], cmd.buyer)
    /\ cmd.op = "MOD_ORDER" => Has(rows[Orders], cmd.order)
    /\ cmd.op = "EDIT_ROW" => Has(rows[cmd.table], cmd.buyer)
    /\ cmd.op = "COMPLETE_ORDER" => validateBuyerOrder(cmd.lines, rows[Product])

(* The product that loses its history to a new one of its number.          *)
Drawn(cmd, id) == IF cmd.op = "NEW_PRODUCT" THEN {id} \cap DOMAIN ledger ELSE {}
Begins(c, id, rows) ==
    /\ phase[c] = "accepted" /\ MayLock(command[c])
    /\ command[c] \in Commands /\ command[c].op # "VIEW" /\ Loaded(command[c], rows)
    /\ UNCHANGED <<text, torn, ledger, confirmed>> /\ OthersSame(c)
    /\ spoilt' = spoilt \cup Drawn(command[c], id)
    /\ command'[c] = command[c] /\ phase'[c] = "writing"
    /\ todo'[c] = Writes(command[c]) /\ output'[c] = output[c]
    /\ \A t \in Tables : t \in DOMAIN memory'[c] =>
         LET all == Changed(command[c], id, rows) IN
         t \in DOMAIN all /\ memory'[c][t] = all[t] /\ Readable(t, text[t])

Truncates(c, t) ==
    /\ phase[c] = "writing" /\ todo[c] # <<>> /\ t = Head(todo[c])
    /\ t \in Tables /\ t \in DOMAIN memory[c]
    /\ text' = [text EXCEPT ![t] = <<>>] /\ OthersSame(c)
    /\ UNCHANGED <<torn, ledger, spoilt, confirmed>>
    /\ command'[c] = command[c] /\ phase'[c] = "open"
    /\ todo'[c] = todo[c] /\ memory'[c] = memory[c]
    /\ output'[c] = WriteBack(t, memory[c][t], text[t])

Flushes(c, t) ==
    /\ phase[c] = "open" /\ todo[c] # <<>> /\ t = Head(todo[c]) /\ t \in Tables
    /\ text' = [text EXCEPT ![t] = output[c]] /\ OthersSame(c)
    /\ UNCHANGED <<torn, confirmed>>
    /\ ledger' = IF t = Product THEN NewLedger(command[c], memory[c][t]) ELSE ledger
    /\ spoilt' = spoilt \cup {p \in DOMAIN ledger' : ledger'[p] <= 0}
    /\ command'[c] = command[c] /\ phase'[c] = "writing"
    /\ todo'[c] = Tail(todo[c]) /\ memory'[c] = memory[c]

Answers(c) ==
    /\ phase[c] = "writing" /\ todo[c] = <<>>
    /\ UNCHANGED files /\ OthersSame(c)
    /\ confirmed' = IF command[c].op = "COMPLETE_ORDER" THEN confirmed + 1 ELSE confirmed
    /\ phase'[c] = "idle" /\ todo'[c] = todo[c] /\ memory'[c] = <<>> /\ output'[c] = output[c]

LEMMA BeginIs ==
    ASSUME IInv, FilesInv, NEW c \in Threads, Begin(c)
    PROVE  Stop \/ \E id \in NewIds : \E rows : Begins(c, id, rows)
<1> DEFINE cmd == command[c]
           loads == [t \in Tables |-> Load(t, text[t])]
           good == {t \in Tables : Readable(t, text[t])}
<1>1. SUFFICES ASSUME ~Stop PROVE \E id \in NewIds : \E rows : Begins(c, id, rows)
  OBVIOUS
<1>2. /\ phase[c] = "accepted" /\ MayLock(cmd)
      /\ (cmd.op = "COMPLETE_ORDER" /\ Product \in good) =>
            validateBuyerOrder(cmd.lines, loads[Product])
      /\ LoadsFirst(cmd) \subseteq good /\ Found(cmd, loads)
      /\ \E id \in NewIds :
            /\ memory' = [memory EXCEPT ![c] =
                   LET all == Changed(cmd, id, [t \in Tables |->
                                  IF t \in good THEN loads[t] ELSE <<>>]) IN
                   [t \in DOMAIN all \cap good |-> all[t]]]
            /\ spoilt' = IF cmd.op = "NEW_PRODUCT" THEN spoilt \cup ({id} \cap DOMAIN ledger)
                                                   ELSE spoilt
      /\ todo' = [todo EXCEPT ![c] = Writes(cmd)]
      /\ Become(c, "writing")
      /\ UNCHANGED <<text, command, output, taken, crashes, torn, confirmed, ledger>>
  BY <1>1 DEF Begin
<1>3. good \subseteq Tables /\ \A t \in Tables : t \in good <=> Readable(t, text[t])
  OBVIOUS
<1>4. \A t \in Tables : loads[t] = Load(t, text[t])
  OBVIOUS
<1>5. cmd \in Commands /\ cmd.op # "VIEW" /\ cmd = command[c]
  BY <1>2 DEF IInv, Types, Progress
<1> HIDE DEF cmd, loads, good
<1>6. PICK rows : rows = [t \in Tables |-> IF t \in good THEN loads[t] ELSE <<>>]
  OBVIOUS
<1>7. PICK id \in NewIds :
         /\ memory' = [memory EXCEPT ![c] =
                [t \in DOMAIN Changed(cmd, id, rows) \cap good |-> Changed(cmd, id, rows)[t]]]
         /\ spoilt' = IF cmd.op = "NEW_PRODUCT" THEN spoilt \cup ({id} \cap DOMAIN ledger)
                                                ELSE spoilt
  BY <1>2, <1>6
<1>13. spoilt' = spoilt \cup Drawn(cmd, id)
  BY <1>7 DEF Drawn
<1>8. \A t \in Tables : rows[t] = IF t \in good THEN Load(t, text[t]) ELSE <<>>
  BY <1>4, <1>6
<1>9. Loaded(cmd, rows)
  <2>1. RowsOfTables(rows)
    <3>1. \A t \in Tables : t \in good => Load(t, text[t]) \in Seq(Row(t))
      BY <1>3, LoadType DEF FilesInv
    <3>2. \A t \in Tables : rows[t] \in Seq(Row(t))
      BY <1>8, <3>1, EmptySeq
    <3>. QED BY <1>6, <3>2 DEF RowsOfTables, Typed
  <2>2. cmd.op \in {"COMPLETE_ORDER", "EDIT_INFO"} => Has(rows[Customer], cmd.buyer)
    <3>. SUFFICES ASSUME cmd.op \in {"COMPLETE_ORDER", "EDIT_INFO"}
                  PROVE  Has(rows[Customer], cmd.buyer)
      OBVIOUS
    <3>1. Has(loads[Customer], cmd.buyer)
      BY <1>2 DEF Found
    <3>2. Customer \in good
      <4>1. Customer # Sellers
        BY DEF Customer, Sellers
      <4>. QED BY <1>2, <4>1, TablesAre DEF LoadsFirst
    <3>3. rows[Customer] = loads[Customer]
      BY <1>6, <3>2, TablesAre
    <3>. QED BY <3>1, <3>3
  <2>3. cmd.op = "MOD_ORDER" => Has(rows[Orders], cmd.order)
    <3>. SUFFICES ASSUME cmd.op = "MOD_ORDER"
                  PROVE  Has(rows[Orders], cmd.order)
      OBVIOUS
    <3>1. Has(loads[Orders], cmd.order)
      BY <1>2 DEF Found
    <3>2. Orders \in good
      BY <1>2 DEF LoadsFirst, Locks, ProductOps
    <3>3. rows[Orders] = loads[Orders]
      BY <1>6, <3>2, TablesAre
    <3>. QED BY <3>1, <3>3
  <2>5. cmd.op = "EDIT_ROW" => Has(rows[cmd.table], cmd.buyer)
    <3>. SUFFICES ASSUME cmd.op = "EDIT_ROW" PROVE Has(rows[cmd.table], cmd.buyer)
      OBVIOUS
    <3>1. Has(loads[cmd.table], cmd.buyer)
      BY <1>2 DEF Found
    <3>2. cmd.table \in good
      BY <1>2 DEF LoadsFirst, Locks, ProductOps
    <3>3. rows[cmd.table] = loads[cmd.table]
      BY <1>3, <1>6, <3>2
    <3>. QED BY <3>1, <3>3
  <2>4. cmd.op = "COMPLETE_ORDER" => validateBuyerOrder(cmd.lines, rows[Product])
    <3>. SUFFICES ASSUME cmd.op = "COMPLETE_ORDER"
                  PROVE  validateBuyerOrder(cmd.lines, rows[Product])
      OBVIOUS
    <3>1. Product \in good
      <4>1. Product # Sellers
        BY DEF Product, Sellers
      <4>. QED BY <1>2, <4>1, TablesAre DEF LoadsFirst
    <3>2. rows[Product] = loads[Product]
      BY <1>6, <3>1, TablesAre
    <3>3. validateBuyerOrder(cmd.lines, loads[Product])
      BY <1>2, <3>1
    <3>. QED BY <3>2, <3>3
  <2>. QED BY <1>3, <1>8, <2>1, <2>2, <2>3, <2>4, <2>5 DEF Loaded
<1>10. OthersSame(c) /\ command'[c] = cmd /\ phase'[c] = "writing"
       /\ todo'[c] = Writes(cmd) /\ output'[c] = output[c]
  BY <1>2, <1>5, <1>7 DEF OthersSame, Same, Become, IInv, Types, FilesInv
<1>11. ASSUME NEW t \in Tables, t \in DOMAIN memory'[c]
       PROVE  /\ t \in DOMAIN Changed(cmd, id, rows) /\ Readable(t, text[t])
              /\ memory'[c][t] = Changed(cmd, id, rows)[t]
  <2>1. memory'[c] = [u \in DOMAIN Changed(cmd, id, rows) \cap good |-> Changed(cmd, id, rows)[u]]
    BY <1>7 DEF FilesInv
  <2>. QED BY <1>3, <1>11, <2>1
<1>12. Begins(c, id, rows)
  BY <1>2, <1>5, <1>9, <1>10, <1>11, <1>13 DEF Begins, cmd
<1>. QED BY <1>12

LEMMA TruncateIs ==
    ASSUME IInv, FilesInv, NEW c \in Threads, Truncate(c) PROVE Stop \/ \E t : Truncates(c, t)
<1>. SUFFICES ASSUME ~Stop PROVE \E t : Truncates(c, t)
  OBVIOUS
<1>. PICK t : t = Head(todo[c])
  OBVIOUS
<1>1. /\ phase[c] = "writing" /\ todo[c] # <<>> /\ t \in DOMAIN memory[c]
      /\ output' = [output EXCEPT ![c] = WriteBack(t, memory[c][t], text[t])]
      /\ text' = [text EXCEPT ![t] = <<>>] /\ Become(c, "open")
      /\ UNCHANGED <<command, todo, memory, torn, confirmed, ledger, spoilt>>
  BY DEF Truncate
<1>2. t \in Tables
  BY <1>1, NextTable DEF HasLocks
<1>3. /\ OthersSame(c) /\ phase'[c] = "open"
      /\ output'[c] = WriteBack(t, memory[c][t], text[t])
  BY <1>1 DEF OthersSame, Same, Become, IInv, Types, FilesInv
<1>. QED BY <1>1, <1>2, <1>3 DEF Truncates

LEMMA FlushIs ==
    ASSUME IInv, FilesInv, NEW c \in Threads, Flush(c) PROVE \E t : Flushes(c, t)
<1>. PICK t : t = Head(todo[c])
  OBVIOUS
<1>1. /\ phase[c] = "open" /\ text' = [text EXCEPT ![t] = output[c]]
      /\ output' = [output EXCEPT ![c] = <<>>] /\ todo' = [todo EXCEPT ![c] = Tail(@)]
      /\ ledger' = IF t = Product THEN NewLedger(command[c], memory[c][t]) ELSE ledger
      /\ spoilt' = spoilt \cup {p \in DOMAIN ledger' : ledger'[p] <= 0}
      /\ Become(c, "writing") /\ UNCHANGED <<command, memory, torn, confirmed>>
  BY DEF Flush
<1>2. todo[c] # <<>>
  BY <1>1 DEF IInv, Progress
<1>3. t \in Tables
  BY <1>1, <1>2, NextTable DEF HasLocks
<1>4. OthersSame(c) /\ phase'[c] = "writing" /\ todo'[c] = Tail(todo[c])
  BY <1>1 DEF OthersSame, Same, Become, IInv, Types, FilesInv
<1>. QED BY <1>1, <1>2, <1>3, <1>4 DEF Flushes

LEMMA AnswerIs == ASSUME IInv, FilesInv, NEW c \in Threads, Answer(c) PROVE Answers(c)
BY DEF Answer, Answers, Leave, Become, OthersSame, Same, IInv, Types, FilesInv

LEMMA TheSteps ==
    ASSUME IInv, FilesInv, [Next]_vars
    PROVE  \/ Quiet \/ Stop
           \/ \E c \in Threads :
                \/ \E id \in NewIds : \E rows : Begins(c, id, rows)
                \/ \E t : Truncates(c, t) \/ Flushes(c, t)
                \/ Answers(c)
<1>1. CASE UNCHANGED vars
  BY <1>1 DEF vars, files, Quiet, Same
<1>2. ASSUME NEW c \in Threads, ~HasLocks(c), Leave(c),
             UNCHANGED <<files, todo, output, confirmed>>
      PROVE  Quiet
  <2>1. Aside(c)
    BY <1>2 DEF Aside, Leave, Become, IInv, Types, FilesInv
  <2>2. \A d \in Threads : d # c => Same(d)
    BY <1>2 DEF Same, Leave, Become, IInv, Types, FilesInv
  <2>. QED BY <1>2, <2>1, <2>2 DEF Quiet
<1>3. ASSUME NEW c \in Threads, ~HasLocks(c), NEW s, s \notin {"writing", "open"},
             Become(c, s), \A d \in Threads : d # c => command'[d] = command[d],
             UNCHANGED <<files, todo, memory, output, confirmed>>
      PROVE  Quiet
  <2>1. Aside(c)
    BY <1>3 DEF Aside, Become, IInv, Types, FilesInv
  <2>2. \A d \in Threads : d # c => Same(d)
    BY <1>3 DEF Same, Become, IInv, Types, FilesInv
  <2>. QED BY <1>3, <2>1, <2>2 DEF Quiet
<1>4. CASE Crash
  BY <1>4 DEF Crash
<1>5. ASSUME NEW c \in Threads, Take(c) PROVE Quiet
  <2>1. ~HasLocks(c)
    BY <1>5 DEF Take, HasLocks
  <2>2. PICK s \in {"reading", "accepted"} : Become(c, s)
    BY <1>5 DEF Take
  <2>3. \A d \in Threads : d # c => command'[d] = command[d]
    BY <1>5 DEF Take, IInv, Types
  <2>4. UNCHANGED <<files, todo, memory, output, confirmed>>
    BY <1>5 DEF Take
  <2>. QED BY <1>3, <2>1, <2>2, <2>3, <2>4
<1>6. ASSUME NEW c \in Threads, Read(c) PROVE Quiet \/ Stop
  <2>1. ~HasLocks(c)
    BY <1>6 DEF Read, HasLocks
  <2>2. CASE Leave(c) /\ UNCHANGED <<files, todo, output, confirmed>>
    BY <1>2, <2>1, <2>2
  <2>3. CASE Become(c, "accepted") /\ UNCHANGED <<command, memory, files, todo, output, confirmed>>
    BY <1>3, <2>1, <2>3
  <2>. QED BY <1>6, <2>2, <2>3 DEF Read
<1>7. ASSUME NEW c \in Threads, Refuse(c) PROVE Quiet
  <2>1. ~HasLocks(c) /\ Leave(c) /\ UNCHANGED <<files, todo, output, confirmed>>
    BY <1>7 DEF Refuse, HasLocks
  <2>. QED BY <1>2, <2>1
<1>. QED BY <1>1, <1>4, <1>5, <1>6, <1>7, BeginIs, TruncateIs, FlushIs, AnswerIs DEF Next

----------------------------------------------------------------------------
(* The ids, and what is left to write *)

(* A stop forgets all the threads, and the locks.                          *)
LEMMA StopForgets ==
    ASSUME Stop, NEW c \in Threads
    PROVE  /\ ~HasLocks(c)' /\ memory'[c] = <<>> /\ todo'[c] = <<>> /\ phase'[c] = "idle"
           /\ text' = text /\ UNCHANGED <<confirmed, ledger, spoilt>>
BY DEF Stop, HasLocks

LEMMA NothingNumbered ==
    /\ Numbered(<<>>) /\ HaveIds(<<>>) /\ DOMAIN <<>> = {}
BY DEF Numbered, HaveIds

(* What is written of rows with ids is numbered, and whole lines.          *)
LEMMA WriteBackIs ==
    ASSUME NEW t \in Records, NEW rows \in Seq(Row(t)), HaveIds(rows),
           NEW file \in TextFiles
    PROVE  LET new == WriteBack(t, rows, file) IN
           /\ new \in Seq(EndedLines) /\ Len(new) = LineEnds(file) + 1 /\ Numbered(new)
           /\ \A i \in DOMAIN new :
                IF i <= Len(rows) THEN new[i] = LineOf(rows[i]) /\ new[i][Id] = rows[i][Id]
                                  ELSE new[i] = <<EOL>>
<1>. PICK n \in Nat : n = LineEnds(file) + 1
  BY LineEndsAre
<1>. PICK new : new = WriteBack(t, rows, file)
  OBVIOUS
<1>1. new \in Seq(EndedLines)
  BY WriteBackType, RecordTables
<1>2. /\ Len(new) = n
      /\ \A i \in 1..n : i <= Len(rows) => new[i] = LineOf(rows[i]) /\ new[i][Id] = rows[i][Id]
      /\ \A i \in 1..n : i > Len(rows) => new[i] = <<EOL>>
  BY WrittenLines DEF WriteBack
<1>3. DOMAIN new = 1..n /\ \A i \in 1..n : i <= Len(rows) \/ i > Len(rows)
  BY <1>1, <1>2
<1>4. \A i \in DOMAIN new :
        IF i <= Len(rows) THEN new[i] = LineOf(rows[i]) /\ new[i][Id] = rows[i][Id]
                          ELSE new[i] = <<EOL>>
  BY <1>2, <1>3
<1>5. Numbered(new)
  <2>1. \A i \in DOMAIN new : i <= Len(rows) => i \in DOMAIN rows
    BY <1>3
  <2>. QED BY <1>4, <2>1 DEF Numbered, HaveIds
<1>. QED BY <1>1, <1>2, <1>4, <1>5

(* The rows a command is about to change have ids.                         *)
LEMMA LoadedHaveIds ==
    ASSUME FilesInv, IdsInv, NEW cmd, NEW rows, Loaded(cmd, rows), NEW t \in Records
    PROVE  HaveIds(rows[t])
<1>1. t \in Tables /\ text[t] \in TextFiles /\ Numbered(text[t])
  BY RecordTables DEF FilesInv, IdsInv
<1>2. CASE Readable(t, text[t])
  BY <1>1, <1>2, LoadedIds DEF Loaded
<1>3. CASE ~Readable(t, text[t])
  BY <1>1, <1>3, NothingNumbered DEF Loaded
<1>. QED BY <1>2, <1>3

(* Those it has changed have.                                              *)
LEMMA ChangedHaveIds ==
    ASSUME NEW cmd \in Commands, cmd.op # "VIEW", NEW id \in Numbers,
           NEW rows, Loaded(cmd, rows), \A t \in Records : HaveIds(rows[t]),
           NEW t \in Records, t \in DOMAIN Changed(cmd, id, rows)
    PROVE  HaveIds(Changed(cmd, id, rows)[t])
<1>1. CASE t = Product
  BY <1>1, ProductsHaveIds DEF Loaded
<1>2. CASE t \in {Billing, Orders} /\ cmd.op \in BillOps
  <2>1. /\ HaveIds(rows[Billing]) /\ HaveIds(rows[Orders]) /\ RowsOfTables(rows)
        /\ cmd.op = "COMPLETE_ORDER" => Has(rows[Customer], cmd.buyer)
    BY DEF Loaded, Records
  <2>. QED BY <1>2, <2>1, BillsChanged, LinesChanged
<1>3. CASE t \in {Billing, Orders} /\ cmd.op \notin BillOps
  <2>1. cmd.op \in {"EDIT_ROW", "NEW_CLIENT", "NEW_PRODUCT", "DELETE_PROD", "MOD_QUANT", "MOD_PRICE"}
    BY <1>3, RequestFields DEF BillOps
  <2>2. cmd.op \in ProductOps => DOMAIN Changed(cmd, id, rows) = {Product}
    BY DEF Changed, ProductOps
  <2>3. cmd.op \in {"EDIT_ROW", "NEW_CLIENT"} =>
          DOMAIN Changed(cmd, id, rows) = {cmd.table} /\ cmd.table \in {Customer, Sellers}
    BY RequestFields DEF Changed
  <2>. QED BY <1>3, <2>1, <2>2, <2>3, ColumnsAre DEF ProductOps
<1>. QED BY <1>1, <1>2, <1>3 DEF Records

(* What a thread that steps aside or stays says of the ids.                *)
LEMMA SameIdsOf ==
    ASSUME IdsInv, NEW c \in Threads, Same(c) \/ Aside(c), NEW t \in Records
    PROVE  /\ t \in DOMAIN memory'[c] => HaveIds(memory'[c][t])
           /\ Opens(c, t)' => Numbered(output'[c])
<1>1. /\ t \in DOMAIN memory[c] => HaveIds(memory[c][t])
      /\ Opens(c, t) => Numbered(output[c])
  BY DEF IdsInv
<1>2. CASE Same(c)
  BY <1>1, <1>2 DEF Same, Opens
<1>3. CASE Aside(c)
  <2>1. ~Opens(c, t)'
    BY <1>3 DEF Aside, Opens
  <2>2. memory'[c] = memory[c] \/ memory'[c] = <<>>
    BY <1>3 DEF Aside
  <2>. QED BY <1>1, <2>1, <2>2, NothingNumbered
<1>. QED BY <1>2, <1>3

LEMMA IdsNext ==
    ASSUME NewIds \subseteq Numbers, IInv, FilesInv, IdsInv, [Next]_vars PROVE IdsInv'
<1> SUFFICES ASSUME NEW t \in Records
             PROVE  /\ Numbered(text'[t])
                    /\ \A c \in Threads :
                         /\ t \in DOMAIN memory'[c] => HaveIds(memory'[c][t])
                         /\ Opens(c, t)' => Numbered(output'[c])
  BY DEF IdsInv, Numbered, HaveIds
<1>1. /\ Numbered(text[t]) /\ t \in Tables /\ DOMAIN text = Tables
  BY RecordTables DEF IdsInv, FilesInv
<1>2. CASE Quiet
  <2>1. text' = text
    BY <1>2 DEF Quiet, files
  <2>. QED BY <1>1, <1>2, <2>1, SameIdsOf DEF Quiet
<1>3. CASE Stop
  <2>1. \A c \in Threads : ~Opens(c, t)' /\ memory'[c] = <<>>
    BY <1>3, StopForgets DEF Opens
  <2>. QED BY <1>1, <1>3, <2>1, NothingNumbered DEF Stop
<1>4. ASSUME NEW c \in Threads, NEW id \in NewIds, NEW rows, Begins(c, id, rows)
      PROVE  /\ Numbered(text'[t])
             /\ \A d \in Threads :
                  /\ t \in DOMAIN memory'[d] => HaveIds(memory'[d][t])
                  /\ Opens(d, t)' => Numbered(output'[d])
  <2>1. text' = text /\ ~Opens(c, t)'
    BY <1>4 DEF Begins, Opens, files
  <2>2. ASSUME t \in DOMAIN memory'[c] PROVE HaveIds(memory'[c][t])
    <3>1. /\ memory'[c][t] = Changed(command[c], id, rows)[t]
          /\ t \in DOMAIN Changed(command[c], id, rows)
      BY <1>1, <1>4, <2>2 DEF Begins
    <3>2. Loaded(command[c], rows) /\ command[c] \in Commands /\ command[c].op # "VIEW"
      BY <1>4 DEF Begins
    <3>3. \A u \in Records : HaveIds(rows[u])
      BY <3>2, LoadedHaveIds
    <3>. QED BY <3>1, <3>2, <3>3, ChangedHaveIds
  <2>3. \A d \in Threads : d # c => Same(d)
    BY <1>4 DEF Begins, OthersSame
  <2>. QED BY <1>1, <2>1, <2>2, <2>3, SameIdsOf
<1>5. ASSUME NEW c \in Threads, NEW u, Truncates(c, u)
      PROVE  /\ Numbered(text'[t])
             /\ \A d \in Threads :
                  /\ t \in DOMAIN memory'[d] => HaveIds(memory'[d][t])
                  /\ Opens(d, t)' => Numbered(output'[d])
  <2>1. Numbered(text'[t])
    BY <1>1, <1>5, NothingNumbered DEF Truncates
  <2>2. t \in DOMAIN memory'[c] => HaveIds(memory'[c][t])
    BY <1>5 DEF Truncates, IdsInv
  <2>3. ASSUME Opens(c, t)' PROVE Numbered(output'[c])
    <3>1. u = t /\ t \in DOMAIN memory[c] /\ output'[c] = WriteBack(t, memory[c][t], text[t])
      BY <1>5, <2>3 DEF Truncates, Opens
    <3>2. memory[c][t] \in Seq(Row(t)) /\ text[t] \in TextFiles /\ HaveIds(memory[c][t])
      BY <1>1, <3>1 DEF FilesInv, Typed, IdsInv
    <3>. QED BY <3>1, <3>2, WriteBackIs
  <2>4. \A d \in Threads : d # c => Same(d)
    BY <1>5 DEF Truncates, OthersSame
  <2>. QED BY <2>1, <2>2, <2>3, <2>4, SameIdsOf
<1>6. ASSUME NEW c \in Threads, NEW u, Flushes(c, u)
      PROVE  /\ Numbered(text'[t])
             /\ \A d \in Threads :
                  /\ t \in DOMAIN memory'[d] => HaveIds(memory'[d][t])
                  /\ Opens(d, t)' => Numbered(output'[d])
  <2>1. Numbered(text'[t])
    <3>1. u = t => Numbered(output[c])
      BY <1>6 DEF Flushes, IdsInv, Opens
    <3>. QED BY <1>1, <1>6, <3>1 DEF Flushes
  <2>2. (t \in DOMAIN memory'[c] => HaveIds(memory'[c][t])) /\ ~Opens(c, t)'
    BY <1>6 DEF Flushes, IdsInv, Opens
  <2>3. \A d \in Threads : d # c => Same(d)
    BY <1>6 DEF Flushes, OthersSame
  <2>. QED BY <2>1, <2>2, <2>3, SameIdsOf
<1>7. ASSUME NEW c \in Threads, Answers(c)
      PROVE  /\ Numbered(text'[t])
             /\ \A d \in Threads :
                  /\ t \in DOMAIN memory'[d] => HaveIds(memory'[d][t])
                  /\ Opens(d, t)' => Numbered(output'[d])
  <2>1. text' = text /\ memory'[c] = <<>> /\ ~Opens(c, t)'
    BY <1>7 DEF Answers, Opens, files
  <2>2. \A d \in Threads : d # c => Same(d)
    BY <1>7 DEF Answers, OthersSame
  <2>. QED BY <1>1, <2>1, <2>2, SameIdsOf, NothingNumbered
<1>. QED BY <1>2, <1>3, <1>4, <1>5, <1>6, <1>7, TheSteps

(* Tuples of at most three: their first, and the others.                   *)
OneOf(s, a) ==
    s # <<>> /\ Head(s) = a /\ Tail(s) = <<>> /\ ToSet(s) = {a} /\ ToSet(Tail(s)) = {}
TwoOf(s, a, b) ==
    /\ s # <<>> /\ Head(s) = a /\ Tail(s) = <<b>> /\ ToSet(s) = {a, b}
    /\ ToSet(Tail(s)) = {b} /\ Head(Tail(s)) = b
ThreeOf(s, a, b, c) ==
    /\ s # <<>> /\ Head(s) = a /\ Tail(s) = <<b, c>> /\ ToSet(s) = {a, b, c}
    /\ ToSet(Tail(s)) = {b, c} /\ Head(Tail(s)) = b

LEMMA OneLeft == ASSUME NEW a, NEW s, s = <<a>> PROVE OneOf(s, a)
<1>1. Head(s) = a /\ Tail(s) = <<>> /\ DOMAIN s = {1} /\ s[1] = a /\ DOMAIN <<>> = {}
  OBVIOUS
<1>2. ToSet(s) = {s[i] : i \in DOMAIN s} /\ ToSet(<<>>) = {}
  BY <1>1 DEF ToSet
<1>. QED BY <1>1, <1>2 DEF OneOf

LEMMA TwoLeft == ASSUME NEW a, NEW b, NEW s, s = <<a, b>> PROVE TwoOf(s, a, b)
<1>1. Head(s) = a /\ Tail(s) = <<b>> /\ DOMAIN s = {1, 2} /\ s[1] = a /\ s[2] = b
  OBVIOUS
<1>2. ToSet(s) = {s[i] : i \in DOMAIN s}
  BY DEF ToSet
<1>3. OneOf(<<b>>, b)
  BY OneLeft
<1>. QED BY <1>1, <1>2, <1>3 DEF OneOf, TwoOf

LEMMA ThreeLeft ==
    ASSUME NEW a, NEW b, NEW c, NEW s, s = <<a, b, c>> PROVE ThreeOf(s, a, b, c)
<1>1. /\ Head(s) = a /\ Tail(s) = <<b, c>> /\ DOMAIN s = {1, 2, 3}
      /\ s[1] = a /\ s[2] = b /\ s[3] = c
  OBVIOUS
<1>2. ToSet(s) = {s[i] : i \in DOMAIN s}
  BY DEF ToSet
<1>3. TwoOf(<<b, c>>, b, c)
  BY TwoLeft
<1>. QED BY <1>1, <1>2, <1>3 DEF TwoOf, ThreeOf

LEMMA TablesDiffer ==
    /\ Product # Billing /\ Product # Orders /\ Billing # Orders
    /\ Customer \notin Records /\ Sellers \notin Records
BY DEF Records, Product, Billing, Orders, Customer, Sellers

LEMMA RestsAre ==
    ASSUME NEW cmd \in Commands, cmd.op # "VIEW"
    PROVE  /\ cmd.op = "COMPLETE_ORDER" =>
                Rests(cmd) = {<<Product, Billing, Orders>>, <<Billing, Orders>>, <<Orders>>, <<>>}
           /\ cmd.op = "MOD_ORDER" => Rests(cmd) = {<<Orders, Billing>>, <<Billing>>, <<>>}
           /\ cmd.op = "EDIT_INFO" =>
                Rests(cmd) = {<<Customer, Billing, Orders>>, <<Billing, Orders>>, <<Orders>>, <<>>}
           /\ cmd.op \in ProductOps => Rests(cmd) = {<<Product>>, <<>>}
           /\ cmd.op \notin BillOps \cup ProductOps =>
                Rests(cmd) = {<<cmd.table>>, <<>>} /\ cmd.table \in {Customer, Sellers}
           /\ Writes(cmd) \in Rests(cmd)
<1>1. CASE cmd.op = "COMPLETE_ORDER"
  BY <1>1 DEF Rests, Writes, ProductOps, BillOps
<1>2. CASE cmd.op = "MOD_ORDER"
  BY <1>2 DEF Rests, Writes, ProductOps, BillOps
<1>3. CASE cmd.op = "EDIT_INFO"
  BY <1>3 DEF Rests, Writes, ProductOps, BillOps
<1>4. CASE cmd.op \in ProductOps
  BY <1>4 DEF Rests, Writes, ProductOps, BillOps
<1>5. CASE cmd.op \in {"NEW_CLIENT", "EDIT_ROW"}
  BY <1>5, RequestFields DEF Rests, Writes, ProductOps, BillOps
<1>. QED BY <1>1, <1>2, <1>3, <1>4, <1>5, RequestFields DEF ProductOps

(* A table is written once; between the bills and the lines of an order    *)
(* nothing else is.                                                        *)
NextIs(cmd, rest) ==
    /\ Tail(rest) \in Rests(cmd)
    /\ ToSet(rest) = {Head(rest)} \cup ToSet(Tail(rest)) /\ Head(rest) \notin ToSet(Tail(rest))
    /\ Tail(rest) # <<>> /\ Head(Tail(rest)) = Orders => Head(rest) = Billing
    /\ ToSet(rest) \cap {Billing, Orders} # {} => cmd.op \in BillOps

LEMMA NextRest ==
    ASSUME NEW cmd \in Commands, cmd.op # "VIEW", NEW rest \in Rests(cmd), rest # <<>>
    PROVE  NextIs(cmd, rest)
<1>1. CASE cmd.op \in {"COMPLETE_ORDER", "EDIT_INFO"}
  <2>1. PICK t : /\ t \notin {Billing, Orders}
                 /\ Rests(cmd) = {<<t, Billing, Orders>>, <<Billing, Orders>>, <<Orders>>, <<>>}
    BY <1>1, RestsAre, TablesDiffer DEF Records
  <2>2. CASE rest = <<t, Billing, Orders>>
    <3>1. ThreeOf(rest, t, Billing, Orders)
      BY <2>2, ThreeLeft
    <3>2. Tail(rest) \in Rests(cmd)
      BY <2>1, <3>1 DEF ThreeOf
    <3>. QED BY <1>1, <2>1, <3>1, <3>2, TablesDiffer DEF BillOps, NextIs, ThreeOf
  <2>3. CASE rest = <<Billing, Orders>>
    <3>1. TwoOf(rest, Billing, Orders)
      BY <2>3, TwoLeft
    <3>2. Tail(rest) \in Rests(cmd)
      BY <2>1, <3>1 DEF TwoOf
    <3>. QED BY <1>1, <3>1, <3>2, TablesDiffer DEF BillOps, NextIs, TwoOf
  <2>4. CASE rest = <<Orders>>
    <3>1. OneOf(rest, Orders)
      BY <2>4, OneLeft
    <3>2. Tail(rest) \in Rests(cmd)
      BY <2>1, <3>1 DEF OneOf
    <3>. QED BY <1>1, <3>1, <3>2, TablesDiffer DEF BillOps, NextIs, OneOf
  <2>. QED BY <2>1, <2>2, <2>3, <2>4
<1>2. CASE cmd.op = "MOD_ORDER"
  <2>1. Rests(cmd) = {<<Orders, Billing>>, <<Billing>>, <<>>}
    BY <1>2, RestsAre
  <2>2. CASE rest = <<Orders, Billing>>
    <3>1. TwoOf(rest, Orders, Billing)
      BY <2>2, TwoLeft
    <3>2. Tail(rest) \in Rests(cmd)
      BY <2>1, <3>1 DEF TwoOf
    <3>. QED BY <1>2, <3>1, <3>2, TablesDiffer DEF BillOps, NextIs, TwoOf
  <2>3. CASE rest = <<Billing>>
    <3>1. OneOf(rest, Billing)
      BY <2>3, OneLeft
    <3>2. Tail(rest) \in Rests(cmd)
      BY <2>1, <3>1 DEF OneOf
    <3>. QED BY <1>2, <3>1, <3>2, TablesDiffer DEF BillOps, NextIs, OneOf
  <2>. QED BY <2>1, <2>2, <2>3
<1>3. CASE cmd.op \notin BillOps
  <2>1. PICK t : rest = <<t>> /\ <<>> \in Rests(cmd) /\ t \notin {Billing, Orders}
    <3>1. CASE cmd.op \in ProductOps
      BY <3>1, RestsAre, TablesDiffer
    <3>2. CASE cmd.op \notin ProductOps
      <4>1. Rests(cmd) = {<<cmd.table>>, <<>>} /\ cmd.table \in {Customer, Sellers}
        BY <1>3, <3>2, RestsAre
      <4>. QED BY <4>1, TablesDiffer DEF Records
    <3>. QED BY <3>1, <3>2
  <2>2. OneOf(rest, t)
    BY <2>1, OneLeft
  <2>. QED BY <2>1, <2>2 DEF NextIs, OneOf
<1>. QED BY <1>1, <1>2, <1>3 DEF BillOps

(* What a thread that steps aside or stays has left to write.              *)
LEMMA SameTodo ==
    ASSUME TodoInv, NEW c \in Threads, Same(c) \/ Aside(c) PROVE TodoOf(c)'
<1>1. TodoOf(c)
  BY DEF TodoInv
<1>. QED BY <1>1 DEF TodoOf, HasLocks, Same, Aside

LEMMA TodoNext == ASSUME IInv, FilesInv, TodoInv, [Next]_vars PROVE TodoInv'
<1>. SUFFICES ASSUME NEW d \in Threads PROVE TodoOf(d)'
  BY DEF TodoInv
<1>1. CASE Quiet
  BY <1>1, SameTodo DEF Quiet
<1>2. CASE Stop
  BY <1>2, StopForgets DEF TodoOf
<1>3. ASSUME NEW c \in Threads, NEW id \in NewIds, NEW rows, Begins(c, id, rows)
      PROVE  TodoOf(d)'
  <2>1. Writes(command[c]) \in Rests(command[c])
    BY <1>3, RestsAre DEF Begins
  <2>2. TodoOf(c)'
    BY <1>3, <2>1 DEF Begins, TodoOf
  <2>. QED BY <1>3, <2>2, SameTodo DEF Begins, OthersSame
<1>4. ASSUME NEW c \in Threads, NEW t, Truncates(c, t) PROVE TodoOf(d)'
  <2>1. TodoOf(c) /\ HasLocks(c)
    BY <1>4 DEF TodoInv, Truncates, HasLocks
  <2>2. TodoOf(c)'
    BY <1>4, <2>1 DEF Truncates, TodoOf
  <2>. QED BY <1>4, <2>2, SameTodo DEF Truncates, OthersSame
<1>5. ASSUME NEW c \in Threads, NEW t, Flushes(c, t) PROVE TodoOf(d)'
  <2>1. /\ HasLocks(c) /\ todo[c] \in Rests(command[c]) /\ todo[c] # <<>>
        /\ command[c] \in Commands /\ command[c].op # "VIEW"
    BY <1>5 DEF TodoInv, TodoOf, Flushes, HasLocks, IInv, Types, Progress
  <2>2. NextIs(command[c], todo[c])
    BY <2>1, NextRest
  <2>3. TodoOf(c)'
    BY <1>5, <2>2 DEF Flushes, TodoOf, NextIs
  <2>. QED BY <1>5, <2>3, SameTodo DEF Flushes, OthersSame
<1>6. ASSUME NEW c \in Threads, Answers(c) PROVE TodoOf(d)'
  <2>1. TodoOf(c)'
    BY <1>6 DEF Answers, TodoOf, HasLocks
  <2>. QED BY <1>6, <2>1, SameTodo DEF Answers, OthersSame
<1>. QED BY <1>1, <1>2, <1>3, <1>4, <1>5, <1>6, TheSteps

(* The request of a thread with locks, and what it has left to write.      *)
LEMMA Writing ==
    ASSUME IInv, TodoInv, NEW c \in Threads, HasLocks(c)
    PROVE  /\ command[c] \in Commands /\ command[c].op # "VIEW"
           /\ todo[c] \in Rests(command[c])
           /\ phase[c] = "open" => Head(todo[c]) \in DOMAIN memory[c]
           /\ todo[c] # <<>> => NextIs(command[c], todo[c])
<1>1. /\ command[c] \in Commands /\ command[c].op # "VIEW"
      /\ todo[c] \in Rests(command[c])
      /\ phase[c] = "open" => Head(todo[c]) \in DOMAIN memory[c]
  BY DEF TodoInv, TodoOf, HasLocks, IInv, Types, Progress
<1>. QED BY <1>1, NextRest

(* What a thread has to write it holds, and so what it has open.           *)
LEMMA LeftLocked ==
    ASSUME IInv, NEW c \in Threads, NEW t, t \in Left(c) \/ Opens(c, t)
    PROVE  HasLocks(c) /\ t \in Locks(command[c])
<1>1. ToSet(<<>>) = {}
  BY DEF ToSet
<1>2. HasLocks(c) /\ todo[c] \in Seq(Locks(command[c]))
  BY <1>1 DEF Left, Opens, HasLocks, IInv, Progress
<1>3. CASE t \in Left(c)
  BY <1>2, <1>3 DEF Left, ToSet
<1>4. CASE Opens(c, t)
  BY <1>2, <1>4 DEF Opens, IInv, Progress
<1>. QED BY <1>2, <1>3, <1>4

----------------------------------------------------------------------------
(* The lines and their bills *)

(* Whoever writes the bills or the lines has both to itself.               *)
LEMMA OneWriter ==
    ASSUME IInv, TodoInv, NEW c \in Threads, NEW t \in {Billing, Orders}, t \in Left(c)
    PROVE  /\ OnBills(c)
           /\ \A d \in Threads : d # c =>
                /\ ~OnBills(d)
                /\ \A u \in {Billing, Orders} : u \notin Left(d) /\ ~Opens(d, u)
<1>1. \A d \in Threads : Left(d) # {} => HasLocks(d) /\ todo[d] # <<>>
  <2>1. ToSet(<<>>) = {}
    BY DEF ToSet
  <2>. QED BY <2>1 DEF Left, IInv, Progress
<1>2. ASSUME NEW d \in Threads, Left(d) \cap {Billing, Orders} # {} PROVE OnBills(d)
  <2>1. HasLocks(d) /\ todo[d] # <<>>
    BY <1>1, <1>2
  <2>2. NextIs(command[d], todo[d])
    BY <2>1, Writing
  <2>. QED BY <1>2, <2>1, <2>2 DEF NextIs, Left, OnBills
<1>3. OnBills(c)
  BY <1>2
<1>4. ASSUME NEW d \in Threads, d # c PROVE ~OnBills(d)
  <2>1. ASSUME NEW e \in Threads, OnBills(e) PROVE Billing \in Locks(command[e])
    BY <2>1 DEF OnBills, BillOps, Locks, ProductOps
  <2>. QED BY <1>3, <1>4, <2>1 DEF IInv, Exclusive, OnBills
<1>5. ASSUME NEW d \in Threads, NEW u \in {Billing, Orders}, Opens(d, u) PROVE u \in Left(d)
  <2>1. HasLocks(d) /\ todo[d] # <<>> /\ Head(todo[d]) = u
    BY <1>5 DEF Opens, HasLocks, IInv, Progress
  <2>2. NextIs(command[d], todo[d])
    BY <2>1, Writing
  <2>. QED BY <2>1, <2>2 DEF NextIs, Left
<1>. QED BY <1>2, <1>3, <1>4, <1>5

(* What a thread does not touch stays as it will be.                       *)
LEMMA AfterStays ==
    ASSUME NEW c, NEW t, text'[t] = text[t], memory'[c] = memory[c],
           (t \in Left(c))' <=> t \in Left(c), Opens(c, t)' <=> Opens(c, t),
           Opens(c, t) => output'[c] = output[c]
    PROVE  After(c, t)' = After(c, t) /\ (Ready(c, t)' <=> Ready(c, t))
BY DEF After, Ready

LEMMA SameBills ==
    ASSUME NEW c \in Threads, Same(c) \/ Aside(c),
           text'[Billing] = text[Billing], text'[Orders] = text[Orders],
           OnBills(c) => WillBeBilled(c), OnBills(c)'
    PROVE  WillBeBilled(c)'
<1>1. Same(c)
  BY DEF Aside, OnBills, HasLocks
<1>2. OnBills(c)
  BY <1>1 DEF OnBills, Same, HasLocks
<1>3. \A t : /\ Left(c)' = Left(c) /\ (Opens(c, t)' <=> Opens(c, t))
             /\ output'[c] = output[c] /\ memory'[c] = memory[c] /\ todo'[c] = todo[c]
  BY <1>1 DEF Same, Opens, Left
<1>4. After(c, Billing)' = After(c, Billing) /\ (Ready(c, Billing)' <=> Ready(c, Billing))
  BY <1>3, AfterStays
<1>5. After(c, Orders)' = After(c, Orders) /\ (Ready(c, Orders)' <=> Ready(c, Orders))
  BY <1>3, AfterStays
<1>. QED BY <1>2, <1>3, <1>4, <1>5 DEF WillBeBilled, NextOrders, Full

(* The bills and the lines stand as they did.                              *)
LEMMA SameNow ==
    ASSUME text'[Billing] = text[Billing], text'[Orders] = text[Orders], NowBilled, NowFull,
           \A c \in Threads : (Opens(c, Billing)' <=> Opens(c, Billing)),
           \A c \in Threads : (Billing \in Left(c) => (Billing \in Left(c))')
    PROVE  NowBilled' /\ NowFull'
BY DEF NowBilled, NowFull, Full

LEMMA SameOpens ==
    ASSUME NEW c \in Threads, Same(c) \/ Aside(c), NEW t
    PROVE  (Opens(c, t)' <=> Opens(c, t)) /\ Left(c)' = Left(c)
BY DEF Same, Aside, Opens, HasLocks, Left

(* A write-back of these rows leaves the ids of as many as it writes.      *)
LEMMA WrittenIds ==
    ASSUME NEW t \in Records, NEW rows \in Seq(Row(t)), HaveIds(rows),
           NEW file \in TextFiles
    PROVE  IdsIn(WriteBack(t, rows, file)) = IdsUpTo(rows, LineEnds(file) + 1)
<1>. PICK n \in Nat : n = LineEnds(file) + 1
  BY LineEndsAre
<1>. PICK new : new = WriteBack(t, rows, file)
  OBVIOUS
<1>1. /\ new \in Seq(EndedLines) /\ Len(new) = n
      /\ \A i \in DOMAIN new :
           IF i <= Len(rows) THEN new[i] = LineOf(rows[i]) /\ new[i][Id] = rows[i][Id]
                             ELSE new[i] = <<EOL>>
  BY WriteBackIs
<1>2. DOMAIN new = 1..n /\ DOMAIN rows = 1..Len(rows) /\ Len(rows) \in Nat
  BY <1>1
<1>3. <<EOL>>[Id] \in Texts
  BY DEF Id, Texts
<1>4. \A i \in DOMAIN rows : rows[i][Id] \notin Texts
  BY TextsAssumption DEF HaveIds, Numbers
<1>5. ASSUME NEW x \in IdsIn(new) PROVE x \in IdsUpTo(rows, n)
  <2>1. PICK i \in DOMAIN new : x = new[i][Id] /\ x \notin Texts
    BY DEF IdsIn
  <2>2. i <= Len(rows)
    BY <1>1, <1>3, <2>1
  <2>3. i \in DOMAIN rows /\ i <= n /\ x = rows[i][Id]
    BY <1>1, <1>2, <2>1, <2>2
  <2>. QED BY <2>3 DEF IdsUpTo
<1>6. ASSUME NEW x \in IdsUpTo(rows, n) PROVE x \in IdsIn(new)
  <2>1. PICK i \in DOMAIN rows : i <= n /\ x = rows[i][Id]
    BY DEF IdsUpTo
  <2>2. i \in DOMAIN new /\ i <= Len(rows)
    BY <1>2, <2>1
  <2>3. new[i][Id] = x /\ x \notin Texts
    BY <1>1, <1>4, <2>1, <2>2
  <2>. QED BY <2>2, <2>3 DEF IdsIn
<1>. QED BY <1>5, <1>6

(* The step of a thread that leaves the two files to the others.           *)
LEMMA BillsAside ==
    ASSUME IInv, BillsStand, NEW c \in Threads, OthersSame(c),
           text'[Billing] = text[Billing], text'[Orders] = text[Orders],
           Opens(c, Billing)' <=> Opens(c, Billing),
           Billing \in Left(c) => (Billing \in Left(c))',
           OnBills(c)' => WillBeBilled(c)'
    PROVE  BillsStand'
<1>1. \A d \in Threads : d # c => Same(d)
  BY DEF OthersSame
<1>2. \A d \in Threads : Opens(d, Billing)' <=> Opens(d, Billing)
  BY <1>1, SameOpens
<1>3. \A d \in Threads : Billing \in Left(d) => (Billing \in Left(d))'
  BY <1>1, SameOpens
<1>4. NowBilled' /\ NowFull'
  BY <1>2, <1>3, SameNow DEF BillsStand
<1>5. ASSUME NEW d \in Threads, OnBills(d)' PROVE WillBeBilled(d)'
  BY <1>1, <1>5, SameBills DEF BillsStand
<1>. QED BY <1>4, <1>5 DEF BillsStand

LEMMA BillsTruncate ==
    ASSUME IInv, FilesInv, IdsInv, TodoInv, BillsStand,
           NEW c \in Threads, NEW t, Truncates(c, t)
    PROVE  BillsStand'
<1>1. /\ HasLocks(c) /\ todo[c] # <<>> /\ t = Head(todo[c]) /\ t \in Tables
      /\ t \in DOMAIN memory[c] /\ text' = [text EXCEPT ![t] = <<>>] /\ OthersSame(c)
      /\ phase[c] = "writing" /\ phase'[c] = "open" /\ todo'[c] = todo[c]
      /\ command'[c] = command[c] /\ memory'[c] = memory[c]
      /\ output'[c] = WriteBack(t, memory[c][t], text[t])
      /\ DOMAIN text = Tables
  BY DEF Truncates, HasLocks, FilesInv
<1>2. NextIs(command[c], todo[c])
  BY <1>1, Writing
<1>3. t \in Left(c) /\ Left(c)' = Left(c) /\ (OnBills(c)' <=> OnBills(c))
  BY <1>1, <1>2 DEF Left, NextIs, OnBills, HasLocks
<1>4. \A u : ~Opens(c, u) /\ (Opens(c, u)' <=> u = t)
  BY <1>1 DEF Opens
<1>5. \A u \in {Billing, Orders} : u # t => text'[u] = text[u]
  BY <1>1
<1>6. \A u : Ready(c, u)' <=> Ready(c, u)
  BY <1>1, <1>3 DEF Ready
<1>7. ASSUME t \in {Billing, Orders} PROVE After(c, t)' = After(c, t)
  <2>1. memory[c][t] \in Seq(Row(t)) /\ HaveIds(memory[c][t]) /\ text[t] \in TextFiles
    BY <1>1, <1>7 DEF FilesInv, Typed, IdsInv, Records
  <2>2. IdsIn(output'[c]) = IdsUpTo(memory[c][t], LineEnds(text[t]) + 1)
    BY <1>1, <1>7, <2>1, WrittenIds DEF Records
  <2>3. After(c, t) = IdsUpTo(memory[c][t], LineEnds(text[t]) + 1)
    BY <1>3, <1>4 DEF After
  <2>4. After(c, t)' = IdsIn(output'[c])
    BY <1>4 DEF After
  <2>. QED BY <2>2, <2>3, <2>4
<1>8. ASSUME NEW u \in {Billing, Orders}, u # t PROVE After(c, u)' = After(c, u)
  BY <1>1, <1>3, <1>4, <1>5, <1>8, AfterStays
<1>9. CASE t \notin {Billing, Orders}
  <2>1. OnBills(c)' => WillBeBilled(c)'
    <3>1. OnBills(c)' => WillBeBilled(c)
      BY <1>3 DEF BillsStand
    <3>2. /\ text'[Billing] = text[Billing] /\ text'[Orders] = text[Orders]
          /\ After(c, Billing)' = After(c, Billing) /\ After(c, Orders)' = After(c, Orders)
      BY <1>5, <1>8, <1>9
    <3>. QED BY <1>1, <1>3, <1>6, <3>1, <3>2 DEF WillBeBilled, NextOrders, Full
  <2>2. Opens(c, Billing)' <=> Opens(c, Billing)
    BY <1>4, <1>9
  <2>. QED BY <1>1, <1>3, <1>5, <1>9, <2>1, <2>2, BillsAside
<1>10. CASE t \in {Billing, Orders}
  <2>1. /\ OnBills(c) /\ WillBeBilled(c) /\ Ready(c, t)
        /\ \A d \in Threads : d # c => ~OnBills(d) /\ ~Opens(d, Billing) /\ Billing \notin Left(d)
    BY <1>1, <1>3, <1>10, OneWriter DEF BillsStand, Ready
  <2>2. \A d \in Threads : d # c => ~OnBills(d)' /\ ~Opens(d, Billing)' /\ (Billing \notin Left(d))'
    BY <1>1, <2>1 DEF OthersSame, Same, OnBills, HasLocks, Opens, Left
  <2>3. After(c, Billing)' = After(c, Billing) /\ After(c, Orders)' = After(c, Orders)
    BY <1>7, <1>8, <1>10
  <2>4. NextOrders(c)' <=> t = Orders
    BY <1>1 DEF NextOrders
  <2>5. CASE t = Billing
    <3>1. WillBeBilled(c)'
      BY <1>3, <1>5, <1>6, <2>1, <2>3, <2>4, <2>5, TablesDiffer DEF WillBeBilled
    <3>2. NowBilled' /\ NowFull'
      BY <1>3, <1>4, <2>5 DEF NowBilled, NowFull
    <3>. QED BY <2>2, <3>1, <3>2 DEF BillsStand
  <2>6. CASE t = Orders
    <3>1. IdsIn(text'[Orders]) = {}
      BY <1>1, <2>6, TablesAre DEF IdsIn
    <3>2. text'[Billing] = text[Billing]
      BY <1>5, <2>6, TablesDiffer
    <3>3. WillBeBilled(c)'
      BY <1>1, <1>3, <1>6, <2>1, <2>3, <2>6, <3>1, <3>2 DEF WillBeBilled, Full, NextOrders
    <3>4. NowBilled' /\ NowFull'
      BY <1>3, <2>1, <3>1, <3>2 DEF NowBilled, NowFull, WillBeBilled, Full
    <3>. QED BY <2>2, <3>3, <3>4 DEF BillsStand
  <2>. QED BY <1>10, <2>5, <2>6
<1>. QED BY <1>9, <1>10

LEMMA BillsFlush ==
    ASSUME IInv, FilesInv, TodoInv, BillsStand, NEW c \in Threads, NEW t, Flushes(c, t)
    PROVE  BillsStand'
<1>1. /\ HasLocks(c) /\ todo[c] # <<>> /\ t = Head(todo[c]) /\ t \in Tables
      /\ text' = [text EXCEPT ![t] = output[c]] /\ OthersSame(c)
      /\ phase[c] = "open" /\ phase'[c] = "writing" /\ todo'[c] = Tail(todo[c])
      /\ command'[c] = command[c] /\ memory'[c] = memory[c]
      /\ DOMAIN text = Tables /\ output[c] \in Seq(EndedLines)
  BY DEF Flushes, HasLocks, FilesInv
<1>2. NextIs(command[c], todo[c]) /\ t \in DOMAIN memory[c]
  BY <1>1, Writing
<1>3. /\ Left(c) = {t} \cup Left(c)' /\ t \notin Left(c)' /\ (OnBills(c)' <=> OnBills(c))
      /\ NextOrders(c)' => t = Billing
  BY <1>1, <1>2 DEF Left, NextIs, OnBills, HasLocks, NextOrders
<1>4. \A u : ~Opens(c, u)' /\ (Opens(c, u) <=> u = t)
  BY <1>1 DEF Opens
<1>5. \A u \in {Billing, Orders} : u # t => text'[u] = text[u]
  BY <1>1
<1>6. \A u \in {Billing, Orders} : u # t => (Ready(c, u)' <=> Ready(c, u))
  BY <1>1, <1>3 DEF Ready
<1>7. After(c, t)' = After(c, t) /\ IdsIn(text'[t]) = After(c, t) /\ Ready(c, t)
  BY <1>1, <1>2, <1>3, <1>4 DEF After, Ready
<1>8. ASSUME NEW u \in {Billing, Orders}, u # t PROVE After(c, u)' = After(c, u)
  <2>1. (u \in Left(c))' <=> u \in Left(c)
    BY <1>3, <1>8
  <2>. QED BY <1>1, <1>4, <1>5, <1>8, <2>1, AfterStays
<1>9. CASE t \notin {Billing, Orders}
  <2>1. OnBills(c)' => WillBeBilled(c)'
    <3>1. OnBills(c)' => WillBeBilled(c)
      BY <1>3 DEF BillsStand
    <3>2. /\ text'[Billing] = text[Billing] /\ text'[Orders] = text[Orders]
          /\ After(c, Billing)' = After(c, Billing) /\ After(c, Orders)' = After(c, Orders)
      BY <1>5, <1>8, <1>9
    <3>. QED BY <1>3, <1>6, <1>9, <3>1, <3>2 DEF WillBeBilled, Full
  <2>2. Opens(c, Billing)' <=> Opens(c, Billing)
    BY <1>4, <1>9
  <2>3. Billing \in Left(c) => (Billing \in Left(c))'
    BY <1>3, <1>9
  <2>. QED BY <1>1, <1>5, <1>9, <2>1, <2>2, <2>3, BillsAside
<1>10. CASE t \in {Billing, Orders}
  <2>1. /\ OnBills(c) /\ WillBeBilled(c)
        /\ \A d \in Threads : d # c => ~OnBills(d) /\ ~Opens(d, Billing) /\ Billing \notin Left(d)
    BY <1>3, <1>10, OneWriter DEF BillsStand
  <2>2. \A d \in Threads : d # c => ~OnBills(d)'
    BY <1>1, <2>1 DEF OthersSame, Same, OnBills, HasLocks
  <2>3. After(c, Billing)' = After(c, Billing) /\ After(c, Orders)' = After(c, Orders)
    BY <1>7, <1>8, <1>10
  <2>4. Full(t)'
    <3>1. output[c] \in TextFiles
      BY <1>1, EndedFile
    <3>2. LineEnds(output[c]) = Len(output[c])
      BY <1>1, <3>1, LineEndsAre
    <3>. QED BY <1>1, <3>2 DEF Full
  <2>5. CASE t = Billing
    <3>1. text'[Orders] = text[Orders] /\ (Ready(c, Orders)' <=> Ready(c, Orders))
      BY <1>5, <1>6, <2>5, TablesDiffer
    <3>2. WillBeBilled(c)'
      BY <1>7, <2>1, <2>3, <2>4, <2>5, <3>1 DEF WillBeBilled
    <3>3. NowBilled' /\ NowFull'
      BY <1>7, <2>1, <2>4, <2>5, <3>1 DEF NowBilled, NowFull, WillBeBilled
    <3>. QED BY <2>2, <3>2, <3>3 DEF BillsStand
  <2>6. CASE t = Orders
    <3>1. /\ text'[Billing] = text[Billing] /\ (Ready(c, Billing)' <=> Ready(c, Billing))
          /\ NextOrders(c) /\ ~NextOrders(c)'
          /\ (Billing \in Left(c) <=> (Billing \in Left(c))')
      BY <1>1, <1>3, <1>5, <1>6, <2>6, TablesDiffer DEF NextOrders
    <3>2. IdsIn(text'[Orders]) \subseteq IdsIn(text'[Billing])
      BY <1>7, <2>1, <2>6, <3>1 DEF WillBeBilled
    <3>3. WillBeBilled(c)'
      BY <1>7, <2>1, <2>3, <2>6, <3>1 DEF WillBeBilled, Full
    <3>4. NowBilled' /\ NowFull'
      BY <2>1, <3>1, <3>2 DEF NowBilled, NowFull, WillBeBilled, Full
    <3>. QED BY <2>2, <3>3, <3>4 DEF BillsStand
  <2>. QED BY <1>10, <2>5, <2>6
<1>. QED BY <1>9, <1>10

(* The ids that are in a file that can be loaded.                          *)
LEMMA IdsOfLoaded ==
    ASSUME FilesInv, IdsInv, NEW cmd, NEW rows, Loaded(cmd, rows), NEW t \in Records,
           Readable(t, text[t])
    PROVE  /\ rows[t] \in Seq(Row(t)) /\ HaveIds(rows[t]) /\ Len(rows[t]) = Len(text[t])
           /\ IdsIn(text[t]) = {rows[t][i][Id] : i \in DOMAIN rows[t]}
           /\ LineEnds(text[t]) \in Nat /\ Len(rows[t]) \in Nat
           /\ LineEnds(text[t]) \in {Len(rows[t]), Len(rows[t]) - 1}
<1>1. t \in Tables /\ text[t] \in TextFiles /\ Numbered(text[t])
  BY RecordTables DEF FilesInv, IdsInv
<1>2. rows[t] = Load(t, text[t])
  BY <1>1 DEF Loaded
<1>3. /\ rows[t] \in Seq(Row(t)) /\ HaveIds(rows[t]) /\ Len(rows[t]) = Len(text[t])
      /\ \A i \in DOMAIN text[t] :
           text[t][i][Id] \in Numbers /\ rows[t][i][Id] = text[t][i][Id]
  BY <1>1, <1>2, LoadedIds
<1>4. DOMAIN rows[t] = DOMAIN text[t]
  BY <1>2 DEF Load
<1>5. IdsIn(text[t]) = {rows[t][i][Id] : i \in DOMAIN rows[t]}
  BY <1>3, <1>4, TextsAssumption DEF IdsIn, Numbers
<1>6. LineEnds(text[t]) \in Nat /\ LineEnds(text[t]) \in {Len(text[t]), Len(text[t]) - 1}
  BY <1>1, LineEndsAre
<1>7. Len(rows[t]) \in Nat
  BY <1>3
<1>. QED BY <1>3, <1>5, <1>6, <1>7

LEMMA BillsBegin ==
    ASSUME NewIds \subseteq Numbers, IInv, FilesInv, IdsInv, TodoInv, BillsStand,
           NEW c \in Threads, NEW id \in NewIds, NEW rows, Begins(c, id, rows)
    PROVE  BillsStand'
<1>1. PICK cmd : cmd = command[c]
  OBVIOUS
<1>2. /\ phase[c] = "accepted" /\ MayLock(cmd) /\ cmd \in Commands /\ cmd.op # "VIEW"
      /\ Loaded(cmd, rows) /\ text' = text /\ OthersSame(c)
      /\ command'[c] = cmd /\ phase'[c] = "writing" /\ todo'[c] = Writes(cmd)
      /\ \A t \in Tables : t \in DOMAIN memory'[c] =>
           /\ t \in DOMAIN Changed(cmd, id, rows) /\ Readable(t, text[t])
           /\ memory'[c][t] = Changed(cmd, id, rows)[t]
  BY <1>1 DEF Begins, files
<1>3. ~HasLocks(c) /\ todo[c] = <<>> /\ Left(c) = {}
  <2>1. ToSet(<<>>) = {}
    BY DEF ToSet
  <2>. QED BY <1>2, <2>1 DEF HasLocks, IInv, Progress, Left
<1>4. \A t : ~Opens(c, t) /\ ~Opens(c, t)'
  BY <1>2 DEF Opens
<1>5. SUFFICES ASSUME OnBills(c)' PROVE WillBeBilled(c)'
  BY <1>2, <1>3, <1>4, <1>5, BillsAside
<1>6. cmd.op \in BillOps
  BY <1>2, <1>5 DEF OnBills
<1>7. \A d \in Threads : Billing \notin Left(d) /\ ~Opens(d, Billing)
  <2>1. Billing \in Locks(cmd)
    BY <1>6 DEF BillOps, Locks, ProductOps
  <2>2. ASSUME NEW d \in Threads, OnBills(d) PROVE FALSE
    <3>1. Billing \in Locks(command[d]) /\ HasLocks(d)
      BY <2>2 DEF OnBills, BillOps, Locks, ProductOps
    <3>. QED BY <1>2, <2>1, <3>1 DEF MayLock, Held
  <2>3. \A d \in Threads : Billing \notin Left(d)
    BY <2>2, OneWriter
  <2>4. ASSUME NEW d \in Threads, Opens(d, Billing) PROVE Billing \in Left(d)
    <3>1. HasLocks(d) /\ todo[d] # <<>> /\ Head(todo[d]) = Billing
      BY <2>4 DEF Opens, HasLocks, IInv, Progress
    <3>2. NextIs(command[d], todo[d])
      BY <3>1, Writing
    <3>. QED BY <3>1, <3>2 DEF NextIs, Left
  <2>. QED BY <2>3, <2>4
<1>8. IdsIn(text[Orders]) \subseteq IdsIn(text[Billing]) /\ (Full(Orders) => Full(Billing))
  BY <1>7 DEF BillsStand, NowBilled, NowFull
<1>9. /\ Billing \in Left(c)' /\ Orders \in Left(c)'
      /\ cmd.op # "MOD_ORDER" => Head(Writes(cmd)) # Orders
  <2>1. CASE cmd.op = "MOD_ORDER"
    <3>1. Writes(cmd) = <<Orders, Billing>>
      BY <2>1 DEF Writes, ProductOps
    <3>2. TwoOf(Writes(cmd), Orders, Billing)
      BY <3>1, TwoLeft
    <3>. QED BY <1>2, <2>1, <3>2 DEF TwoOf, Left
  <2>2. CASE cmd.op # "MOD_ORDER"
    <3>1. PICK t : t # Orders /\ Writes(cmd) = <<t, Billing, Orders>>
      BY <1>6, <2>2, TablesDiffer DEF Writes, BillOps, ProductOps, Records
    <3>2. ThreeOf(Writes(cmd), t, Billing, Orders)
      BY <3>1, ThreeLeft
    <3>. QED BY <1>2, <3>1, <3>2 DEF ThreeOf, Left
  <2>. QED BY <2>1, <2>2
<1>10. PICK b : b = Changed(cmd, id, rows)[Billing]
  OBVIOUS
<1>11. PICK o : o = Changed(cmd, id, rows)[Orders]
  OBVIOUS
<1>12. /\ RowsOfTables(rows) /\ HaveIds(rows[Billing]) /\ HaveIds(rows[Orders]) /\ id \in Numbers
       /\ cmd.op = "COMPLETE_ORDER" => Has(rows[Customer], cmd.buyer)
       /\ cmd.op = "MOD_ORDER" => Has(rows[Orders], cmd.order)
  BY <1>2, LoadedHaveIds DEF Loaded, Records
<1>13. Billing \in DOMAIN Changed(cmd, id, rows) =>
         IF cmd.op = "COMPLETE_ORDER" THEN OneMore(b, rows[Billing], id) ELSE SameIds(b, rows[Billing])
  BY <1>2, <1>6, <1>10, <1>12, BillsChanged
<1>14. IF cmd.op = "COMPLETE_ORDER" THEN SomeMore(o, rows[Orders], id) ELSE NoNewIds(o, rows[Orders])
  BY <1>2, <1>6, <1>11, <1>12, LinesChanged
<1>15. Typed(Changed(cmd, id, rows))
  BY <1>2, <1>12, ChangedType DEF Numbers
<1>16. ASSUME Ready(c, Billing)'
       PROVE  IdsIn(text[Billing]) \subseteq After(c, Billing)'
              /\ (cmd.op = "COMPLETE_ORDER" /\ Full(Billing) => id \in After(c, Billing)')
  <2>1. memory'[c][Billing] = b /\ Readable(Billing, text[Billing]) /\ b \in Seq(Row(Billing))
        /\ Billing \in DOMAIN Changed(cmd, id, rows)
    <3>1. Billing \in DOMAIN memory'[c]
      BY <1>9, <1>16 DEF Ready
    <3>2. /\ Billing \in DOMAIN Changed(cmd, id, rows) /\ memory'[c][Billing] = b
          /\ Readable(Billing, text[Billing])
      BY <1>2, <1>10, <3>1, TablesAre
    <3>. QED BY <1>15, <1>10, <3>2, TablesAre DEF Typed
  <2>. PICK old : old = rows[Billing]
    OBVIOUS
  <2>. PICK e : e = LineEnds(text[Billing])
    OBVIOUS
  <2>2. /\ IdsIn(text[Billing]) = {old[i][Id] : i \in DOMAIN old}
        /\ e \in Nat /\ Len(old) \in Nat /\ e \in {Len(old), Len(old) - 1}
        /\ Len(text[Billing]) = Len(old) /\ DOMAIN old = 1..Len(old)
    <3>1. old \in Seq(Row(Billing))
      BY <1>12, TablesAre DEF RowsOfTables, Typed
    <3>. QED BY <1>2, <2>1, <3>1, IdsOfLoaded DEF Records
  <2>3. After(c, Billing)' = {b[i][Id] : i \in {k \in DOMAIN b : k <= e + 1}}
    BY <1>2, <1>4, <1>9, <2>1 DEF After, IdsUpTo
  <2>4. DOMAIN b = 1..Len(b) /\ Len(b) \in Nat
    BY <2>1
  <2>5. ASSUME NEW k \in DOMAIN old
        PROVE  k \in DOMAIN b /\ b[k][Id] = old[k][Id] /\ k <= e + 1
    <3>1. k \in 1..Len(old) /\ k <= e + 1
      BY <2>2
    <3>2. CASE cmd.op = "COMPLETE_ORDER"
      <4>1. Len(b) = Len(old) + 1 /\ b[k][Id] = old[k][Id]
        BY <1>13, <2>1, <3>2 DEF OneMore
      <4>. QED BY <2>2, <2>4, <3>1, <4>1
    <3>3. CASE cmd.op # "COMPLETE_ORDER"
      BY <1>13, <2>1, <3>1, <3>3 DEF SameIds
    <3>. QED BY <3>2, <3>3
  <2>6. IdsIn(text[Billing]) \subseteq After(c, Billing)'
    BY <2>2, <2>3, <2>5
  <2>7. ASSUME cmd.op = "COMPLETE_ORDER", Full(Billing) PROVE id \in After(c, Billing)'
    <3>1. e = Len(old)
      BY <2>2, <2>7 DEF Full
    <3>2. Len(b) = Len(old) + 1 /\ b[Len(old) + 1][Id] = id
      BY <1>13, <2>1, <2>7 DEF OneMore
    <3>3. Len(old) + 1 \in DOMAIN b
      BY <2>2, <2>4, <3>2
    <3>. QED BY <2>2, <2>3, <3>1, <3>2, <3>3
  <2>. QED BY <2>6, <2>7
<1>17. ASSUME Ready(c, Orders)'
       PROVE  /\ After(c, Orders)' \subseteq IdsIn(text[Orders]) \cup {id}
              /\ cmd.op # "COMPLETE_ORDER" \/ ~Full(Orders) =>
                    After(c, Orders)' \subseteq IdsIn(text[Orders])
  <2>1. memory'[c][Orders] = o /\ Readable(Orders, text[Orders]) /\ o \in Seq(Row(Orders))
    <3>1. Orders \in DOMAIN memory'[c]
      BY <1>9, <1>17 DEF Ready
    <3>2. /\ Orders \in DOMAIN Changed(cmd, id, rows) /\ memory'[c][Orders] = o
          /\ Readable(Orders, text[Orders])
      BY <1>2, <1>11, <3>1, TablesAre
    <3>. QED BY <1>15, <1>11, <3>2, TablesAre DEF Typed
  <2>. PICK old : old = rows[Orders]
    OBVIOUS
  <2>. PICK e : e = LineEnds(text[Orders])
    OBVIOUS
  <2>2. /\ IdsIn(text[Orders]) = {old[i][Id] : i \in DOMAIN old}
        /\ e \in Nat /\ Len(old) \in Nat /\ e \in {Len(old), Len(old) - 1}
        /\ Len(text[Orders]) = Len(old) /\ DOMAIN old = 1..Len(old)
    <3>1. old \in Seq(Row(Orders))
      BY <1>12, TablesAre DEF RowsOfTables, Typed
    <3>. QED BY <1>2, <2>1, <3>1, IdsOfLoaded DEF Records
  <2>3. After(c, Orders)' = {o[i][Id] : i \in {k \in DOMAIN o : k <= e + 1}}
    BY <1>2, <1>4, <1>9, <2>1 DEF After, IdsUpTo
  <2>4. DOMAIN o = 1..Len(o) /\ Len(o) \in Nat
    BY <2>1
  <2>5. CASE cmd.op = "COMPLETE_ORDER"
    <3>1. \A k \in DOMAIN o : o[k][Id] = IF k \in DOMAIN old THEN old[k][Id] ELSE id
      BY <1>14, <2>5 DEF SomeMore
    <3>2. ~Full(Orders) => \A k \in DOMAIN o : k <= e + 1 => k \in DOMAIN old
      BY <2>2, <2>4 DEF Full
    <3>. QED BY <2>2, <2>3, <2>5, <3>1, <3>2
  <2>6. CASE cmd.op # "COMPLETE_ORDER"
    BY <1>14, <2>2, <2>3, <2>6 DEF NoNewIds
  <2>. QED BY <2>5, <2>6
<1>18. Ready(c, Billing)' => IdsIn(text'[Orders]) \subseteq After(c, Billing)'
  BY <1>2, <1>8, <1>16
<1>19. Ready(c, Billing)' /\ Ready(c, Orders)' => After(c, Orders)' \subseteq After(c, Billing)'
  BY <1>8, <1>16, <1>17
<1>20. NextOrders(c)' /\ Ready(c, Orders)' => After(c, Orders)' \subseteq IdsIn(text'[Billing])
  <2>1. NextOrders(c)' => cmd.op = "MOD_ORDER"
    BY <1>2, <1>9 DEF NextOrders
  <2>. QED BY <1>2, <1>8, <1>17, <2>1
<1>. QED BY <1>9, <1>18, <1>19, <1>20 DEF WillBeBilled

LEMMA BillsQuiet == ASSUME IInv, BillsStand, Quiet PROVE BillsStand'
<1>1. text' = text /\ \A c \in Threads : Same(c) \/ Aside(c)
  BY DEF Quiet, files
<1>2. NowBilled' /\ NowFull'
  <2>1. \A c \in Threads : Opens(c, Billing)' <=> Opens(c, Billing)
    BY <1>1, SameOpens
  <2>2. \A c \in Threads : Billing \in Left(c) => (Billing \in Left(c))'
    BY <1>1, SameOpens
  <2>. QED BY <1>1, <2>1, <2>2, SameNow DEF BillsStand
<1>3. ASSUME NEW c \in Threads, OnBills(c)' PROVE WillBeBilled(c)'
  BY <1>1, <1>3, SameBills DEF BillsStand
<1>. QED BY <1>2, <1>3 DEF BillsStand

(* A stop that does not tear them finds both written.                      *)
LEMMA BillsStop ==
    ASSUME IInv, FilesInv, BillsStand, Stop, Billing \notin torn', Orders \notin torn'
    PROVE  BillsStand'
<1>1. text' = text /\ \A c \in Threads : ~OnBills(c)'
  BY StopForgets DEF Stop, OnBills, HasLocks
<1>2. \A c \in Threads : ~Opens(c, Billing)
  BY DEF Stop, Opens
<1>3. Full(Orders) => Full(Billing)
  <2>1. Orders \notin Ahead
    BY DEF Stop
  <2>2. LineEnds(text[Billing]) \in Nat /\ Len(text[Billing]) \in Nat
        /\ LineEnds(text[Billing]) \in {Len(text[Billing]), Len(text[Billing]) - 1}
    <3>1. text[Billing] \in TextFiles
      BY TablesAre DEF FilesInv
    <3>2. Len(text[Billing]) \in Nat
      BY <3>1 DEF TextFiles
    <3>. QED BY <3>1, <3>2, LineEndsAre
  <2>. QED BY <2>1, <2>2 DEF Ahead, Full
<1>. QED BY <1>1, <1>2, <1>3 DEF BillsStand, NowBilled, NowFull, Full

LEMMA BillsNext ==
    ASSUME NewIds \subseteq Numbers, IInv, FilesInv, IdsInv, TodoInv, BillsInv, [Next]_vars
    PROVE  BillsInv'
<1>. SUFFICES ASSUME Billing \notin torn', Orders \notin torn' PROVE BillsStand'
  BY DEF BillsInv
<1>1. torn \subseteq torn'
  BY TheSteps DEF Quiet, Stop, Begins, Truncates, Flushes, Answers, files
<1>2. BillsStand
  BY <1>1 DEF BillsInv
<1>3. ASSUME NEW c \in Threads, Answers(c) PROVE BillsStand'
  <2>1. text' = text /\ OthersSame(c) /\ Left(c)' = Left(c) /\ Left(c) = {}
        /\ ~OnBills(c)'
    <3>1. ToSet(<<>>) = {}
      BY DEF ToSet
    <3>. QED BY <1>3, <3>1 DEF Answers, files, Left, OnBills, HasLocks
  <2>2. Opens(c, Billing)' <=> Opens(c, Billing)
    BY <1>3 DEF Answers, Opens
  <2>. QED BY <1>2, <2>1, <2>2, BillsAside
<1>. QED BY <1>2, <1>3, TheSteps, BillsQuiet, BillsStop, BillsBegin, BillsTruncate, BillsFlush

(* Where the server starts nothing is being written.                       *)
LEMMA NothingStarted ==
    ASSUME Init, NEW c \in Threads
    PROVE  /\ ~HasLocks(c) /\ memory[c] = <<>> /\ Left(c) = {} /\ \A t : ~Opens(c, t)
<1>1. ToSet(<<>>) = {}
  BY DEF ToSet
<1>. QED BY <1>1 DEF Init, HasLocks, Left, Opens

LEMMA IdsInit == ASSUME IdsGiven, Init PROVE IdsInv
<1>1. \A t \in Records : Numbered(text[t])
  BY DEF Init, IdsGiven, Numbered, Numbers, Records
<1>. QED BY <1>1, NothingStarted, NothingNumbered DEF IdsInv

LEMMA TodoInit == ASSUME Init PROVE TodoInv
BY NothingStarted DEF TodoInv, TodoOf

LEMMA BillsInit == ASSUME OrdersBilled, Init PROVE BillsInv
<1>1. text = InitialFiles
  BY DEF Init
<1>2. NowBilled /\ NowFull
  BY <1>1 DEF OrdersBilled, NowBilled, NowFull, Full
<1>. QED BY <1>2, NothingStarted DEF BillsInv, BillsStand, OnBills

(* Every line of CustomerOrder.txt has its bill in BillingInfo.txt, unless *)
(* a stop has left one of the two files empty or the lines ahead: of any   *)
(* number of orders, changes of them and of names at once, and of their    *)
(* write-backs, which never write both files in one step.                  *)
THEOREM BillsForLines == IdsGiven /\ OrdersBilled => (Spec => []LinesHaveBills)
<1> SUFFICES ASSUME IdsGiven, OrdersBilled PROVE Spec => []LinesHaveBills
  OBVIOUS
<1> DEFINE Inv == IInv /\ FilesInv /\ IdsInv /\ TodoInv /\ BillsInv
<1>1. NewIds \subseteq Numbers
  BY DEF IdsGiven, Numbers
<1>2. Init => Inv
  BY InvInit, FilesInit, IdsInit, TodoInit, BillsInit
<1>3. Inv /\ [Next]_vars => Inv'
  BY <1>1, InvNext, FilesNext, IdsNext, TodoNext, BillsNext
<1>4. Inv => LinesHaveBills
  BY DEF BillsInv, BillsStand, NowBilled, LinesHaveBills, Whole, Opens, Ids
<1>. QED BY <1>2, <1>3, <1>4, PTL DEF Spec

----------------------------------------------------------------------------
(* The bills, counted *)

LEMMA UpToSize == ASSUME NEW n \in Nat PROVE Cardinality(1..n) = n /\ IsFiniteSet(1..n)
<1>1. 1 \in Int /\ n \in Int
  OBVIOUS
<1>2. IsFiniteSet(1..n) /\ Cardinality(1..n) = IF 1 > n THEN 0 ELSE n - 1 + 1
  BY <1>1, FS_Interval
<1>. QED BY <1>2

LEMMA OneIs == \A p : One(p) \in {0, 1} /\ One(p) \in Int /\ (p => One(p) = 1) /\ (~p => One(p) = 0)
BY DEF One

(* No more bills than lines, and as many where every line has one.         *)
LEMMA BillsAre ==
    ASSUME NEW file \in TextFiles
    PROVE  /\ Bills(file) \in Nat
           /\ (\A i \in DOMAIN file : file[i][Id] \notin Texts) => Bills(file) = Len(file)
<1>. PICK n \in Nat : n = Len(file) /\ DOMAIN file = 1..n
  BY DEF TextFiles
<1>1. Cardinality(1..n) = n /\ IsFiniteSet(1..n)
  BY UpToSize
<1>. PICK B : B = {i \in DOMAIN file : file[i][Id] \notin Texts}
  OBVIOUS
<1>2. B \subseteq 1..n /\ Bills(file) = Cardinality(B)
  BY DEF Bills
<1>3. Cardinality(B) \in Nat
  BY <1>1, <1>2, FS_Subset, FS_CardinalityType
<1>4. (\A i \in DOMAIN file : file[i][Id] \notin Texts) => B = 1..n
  OBVIOUS
<1>. QED BY <1>1, <1>2, <1>3, <1>4

(* As many bills are written as there are rows, or places for them.        *)
LEMMA WrittenBills ==
    ASSUME NEW rows \in Seq(Row(Billing)), HaveIds(rows), NEW file \in TextFiles
    PROVE  Bills(WriteBack(Billing, rows, file)) =
             IF LineEnds(file) + 1 <= Len(rows) THEN LineEnds(file) + 1 ELSE Len(rows)
<1>. PICK n \in Nat : n = LineEnds(file) + 1
  BY LineEndsAre
<1>. PICK k \in Nat : k = Len(rows)
  OBVIOUS
<1>. PICK new : new = WriteBack(Billing, rows, file)
  OBVIOUS
<1>1. /\ new \in Seq(EndedLines) /\ Len(new) = n
      /\ \A i \in DOMAIN new :
           IF i <= Len(rows) THEN new[i] = LineOf(rows[i]) /\ new[i][Id] = rows[i][Id]
                             ELSE new[i] = <<EOL>>
  BY WriteBackIs DEF Records
<1>2. DOMAIN new = 1..n /\ DOMAIN rows = 1..k
  BY <1>1
<1>3. <<EOL>>[Id] \in Texts
  BY DEF Id, Texts
<1>4. \A i \in 1..k : rows[i][Id] \notin Texts
  BY <1>2, TextsAssumption DEF HaveIds, Numbers
<1>5. \A i \in DOMAIN new : new[i][Id] \notin Texts <=> i <= k
  BY <1>1, <1>2, <1>3, <1>4
<1>. PICK m \in Nat : m = IF n <= k THEN n ELSE k
  OBVIOUS
<1>6. {i \in DOMAIN new : new[i][Id] \notin Texts} = 1..m
  BY <1>2, <1>5
<1>7. Cardinality(1..m) = m
  BY UpToSize
<1>. QED BY <1>6, <1>7 DEF Bills

LEMMA LostIs ==
    ASSUME FilesInv, confirmed \in Nat, NEW file \in TextFiles
    PROVE  Bills(file) \in Nat /\ Bills(InitialFiles[Billing]) \in Nat /\ Lost(file) \in Int
<1>1. InitialFiles[Billing] \in TextFiles
  BY FilesAssumption, TablesAre
<1>2. Bills(file) \in Nat /\ Bills(InitialFiles[Billing]) \in Nat
  BY <1>1, BillsAre
<1>. QED BY <1>2 DEF Lost

(* A step after which the bills, and who writes them, are as before.       *)
LEMMA CountSame ==
    ASSUME AllCounted, text'[Billing] = text[Billing], confirmed' = confirmed,
           \A d \in Threads : (Opens(d, Billing)' <=> Opens(d, Billing)),
           \A d \in Threads : (Billed(d)' <=> Billed(d)),
           \A d \in Threads : Counts(d) => Counts(d)'
    PROVE  AllCounted'
<1>1. SomeBilled' <=> SomeBilled
  BY DEF SomeBilled
<1>2. One(SomeBilled)' = One(SomeBilled) /\ One(Full(Billing))' = One(Full(Billing))
      /\ Lost(text[Billing])' = Lost(text[Billing])
  BY <1>1 DEF One, Full, Lost
<1>. QED BY <1>2 DEF AllCounted, NowCounted

LEMMA SameCounts ==
    ASSUME NEW c \in Threads, Same(c) \/ Aside(c),
           text'[Billing] = text[Billing], confirmed' = confirmed
    PROVE  (Billed(c)' <=> Billed(c)) /\ (Counts(c) => Counts(c)')
<1>1. CASE Same(c)
  <2>1. (OnBills(c)' <=> OnBills(c)) /\ Left(c)' = Left(c) /\ (Opens(c, Billing)' <=> Opens(c, Billing))
    BY <1>1 DEF Same, OnBills, HasLocks, Left, Opens
  <2>. QED BY <1>1, <2>1 DEF Same, Billed, Counts, IsOrder, Lost
<1>2. CASE Aside(c)
  <2>1. ~OnBills(c) /\ ~OnBills(c)' /\ ~Opens(c, Billing) /\ ~Opens(c, Billing)'
    BY <1>2 DEF Aside, OnBills, HasLocks, Opens
  <2>. QED BY <2>1 DEF Billed, Counts
<1>. QED BY <1>1, <1>2

LEMMA OneOnBills == ASSUME IInv, NEW c \in Threads, OnBills(c) PROVE \A d \in Threads : OnBills(d) => d = c
<1>1. ASSUME NEW e \in Threads, OnBills(e) PROVE Billing \in Locks(command[e])
  BY <1>1 DEF OnBills, BillOps, Locks, ProductOps
<1>. QED BY <1>1 DEF IInv, Exclusive, OnBills

(* The step of a thread that leaves the bills to the others.               *)
LEMMA CountAside ==
    ASSUME AllCounted, NEW c \in Threads, OthersSame(c), confirmed' = confirmed,
           text'[Billing] = text[Billing], Opens(c, Billing)' <=> Opens(c, Billing),
           Billed(c)' <=> Billed(c), Counts(c) => Counts(c)'
    PROVE  AllCounted'
<1>1. \A d \in Threads : d # c => Same(d)
  BY DEF OthersSame
<1>2. \A d \in Threads : (Opens(d, Billing)' <=> Opens(d, Billing))
  BY <1>1, SameOpens
<1>3. \A d \in Threads : (Billed(d)' <=> Billed(d)) /\ (Counts(d) => Counts(d)')
  BY <1>1, SameCounts
<1>. QED BY <1>2, <1>3, CountSame

(* One thread has the bills, and it has taken their file or left it.       *)
LEMMA CountWriter ==
    ASSUME IInv, NEW c \in Threads, OthersSame(c), OnBills(c), OnBills(c)', TodoInv, IInv',
           Billing \in Left(c), Counts(c)',
           ~Opens(c, Billing)' =>
                Lost(text[Billing])' + One(Billed(c))' <= One(Full(Billing))'
    PROVE  AllCounted'
<1>1. \A d \in Threads : d # c => ~OnBills(d) /\ ~Opens(d, Billing) /\ Same(d)
  BY OneWriter DEF OthersSame
<1>2. \A d \in Threads : d # c => ~OnBills(d)' /\ ~Opens(d, Billing)' /\ ~Billed(d)'
  BY <1>1 DEF Same, OnBills, HasLocks, Opens, Billed
<1>3. SomeBilled' <=> Billed(c)'
  BY <1>2 DEF SomeBilled
<1>4. One(SomeBilled)' = One(Billed(c))'
  BY <1>3 DEF One
<1>5. NowCounted'
  BY <1>4 DEF NowCounted
<1>6. \A d \in Threads : Counts(d)'
  BY <1>2 DEF Counts
<1>. QED BY <1>5, <1>6 DEF AllCounted

LEMMA CountTruncate ==
    ASSUME IInv, FilesInv, IdsInv, TodoInv, IInv', confirmed \in Nat, AllCounted,
           NEW c \in Threads, NEW t, Truncates(c, t)
    PROVE  AllCounted'
<1>1. /\ HasLocks(c) /\ todo[c] # <<>> /\ t = Head(todo[c]) /\ t \in Tables
      /\ t \in DOMAIN memory[c] /\ text' = [text EXCEPT ![t] = <<>>] /\ OthersSame(c)
      /\ phase[c] = "writing" /\ phase'[c] = "open" /\ todo'[c] = todo[c]
      /\ command'[c] = command[c] /\ memory'[c] = memory[c] /\ confirmed' = confirmed
      /\ output'[c] = WriteBack(t, memory[c][t], text[t])
      /\ DOMAIN text = Tables
  BY DEF Truncates, HasLocks, FilesInv
<1>2. NextIs(command[c], todo[c])
  BY <1>1, Writing
<1>3. /\ t \in Left(c) /\ Left(c)' = Left(c) /\ (OnBills(c)' <=> OnBills(c))
      /\ (IsOrder(c)' <=> IsOrder(c)) /\ (Billed(c)' <=> Billed(c))
  BY <1>1, <1>2 DEF Left, NextIs, OnBills, HasLocks, IsOrder, Billed
<1>4. ~Opens(c, Billing) /\ (Opens(c, Billing)' <=> Billing = t)
  BY <1>1 DEF Opens
<1>5. CASE t # Billing
  <2>1. text'[Billing] = text[Billing] /\ ~Opens(c, Billing)'
    BY <1>1, <1>4, <1>5
  <2>2. One(IsOrder(c))' = One(IsOrder(c))
    BY <1>3 DEF One
  <2>3. Counts(c) => Counts(c)'
    BY <1>1, <1>3, <1>4, <2>1, <2>2 DEF Counts
  <2>. QED BY <1>1, <1>3, <1>4, <2>1, <2>3, CountAside
<1>6. CASE t = Billing
  <2>1. OnBills(c) /\ \A d \in Threads : d # c => ~OnBills(d) /\ ~Opens(d, Billing)
    BY <1>3, <1>6, OneWriter
  <2>. PICK rows : rows = memory[c][Billing]
    OBVIOUS
  <2>. PICK file \in TextFiles : file = text[Billing]
    BY TablesAre DEF FilesInv
  <2>. PICK new : new = output'[c]
    OBVIOUS
  <2>. PICK one \in {0, 1} : one = One(IsOrder(c))
    BY OneIs
  <2>2. rows \in Seq(Row(Billing)) /\ HaveIds(rows) /\ new = WriteBack(Billing, rows, file)
    BY <1>1, <1>6 DEF FilesInv, Typed, IdsInv, Records
  <2>3. Bills(file) = Len(file) /\ Len(rows) = Len(file) + one
    BY <1>1, <1>3, <1>4, <1>6, <2>1 DEF AllCounted, Counts
  <2>4. Lost(file) <= One(Full(Billing))
    <3>1. ~SomeBilled
      BY <1>3, <1>6, <2>1 DEF SomeBilled, Billed
    <3>2. One(SomeBilled) = 0
      BY <3>1, OneIs
    <3>3. Lost(file) + One(SomeBilled) <= One(Full(Billing))
      BY <1>4, <2>1 DEF AllCounted, NowCounted
    <3>. QED BY <3>2, <3>3, LostIs
  <2>5. Bills(new) = IF LineEnds(file) + 1 <= Len(rows) THEN LineEnds(file) + 1 ELSE Len(rows)
    BY <2>2, WrittenBills
  <2>6. LineEnds(file) \in {Len(file), Len(file) - 1} /\ LineEnds(file) \in Nat
        /\ Len(file) \in Nat
    BY LineEndsAre DEF TextFiles
  <2>7. One(Full(Billing)) = IF LineEnds(file) = Len(file) THEN 1 ELSE 0
    BY DEF One, Full
  <2>8. Lost(new) + one <= 1
    <3>1. PICK bills \in Nat : bills = Bills(InitialFiles[Billing])
      BY LostIs
    <3>2. Lost(file) = confirmed - (Len(file) - bills) /\ Lost(new) = confirmed - (Bills(new) - bills)
      BY <2>3, <3>1 DEF Lost
    <3>3. PICK n \in Nat : n = Len(file)
      BY <2>6
    <3>4. PICK e \in {n, n - 1} : e = LineEnds(file)
      BY <2>6, <3>3
    <3>5. confirmed - (n - bills) <= (IF e = n THEN 1 ELSE 0)
      BY <2>4, <2>7, <3>2, <3>3, <3>4
    <3>6. Bills(new) = IF e + 1 <= n + one THEN e + 1 ELSE n + one
      BY <2>3, <2>5, <3>3, <3>4
    <3>7. confirmed - ((IF e + 1 <= n + one THEN e + 1 ELSE n + one) - bills) + one <= 1
      BY <3>1, <3>5
    <3>. QED BY <3>2, <3>6, <3>7
  <2>9. Lost(new)' = Lost(new) /\ One(IsOrder(c))' = one
    BY <1>1, <1>3 DEF Lost, One
  <2>10. Counts(c)' /\ Opens(c, Billing)'
    <3>1. Opens(c, Billing)'
      BY <1>4, <1>6
    <3>2. (Lost(output[c]) + One(IsOrder(c)))' <= 1
      BY <1>1, <2>8, <2>9 DEF Lost
    <3>. QED BY <3>1, <3>2 DEF Counts
  <2>. QED BY <1>1, <1>3, <1>6, <2>1, <2>10, CountWriter
<1>. QED BY <1>5, <1>6

LEMMA CountFlush ==
    ASSUME IInv, FilesInv, TodoInv, IInv', confirmed \in Nat, AllCounted,
           NEW c \in Threads, NEW t, Flushes(c, t)
    PROVE  AllCounted'
<1>1. /\ HasLocks(c) /\ todo[c] # <<>> /\ t = Head(todo[c]) /\ t \in Tables
      /\ text' = [text EXCEPT ![t] = output[c]] /\ OthersSame(c)
      /\ phase[c] = "open" /\ phase'[c] = "writing" /\ todo'[c] = Tail(todo[c])
      /\ command'[c] = command[c] /\ memory'[c] = memory[c] /\ confirmed' = confirmed
      /\ DOMAIN text = Tables /\ output[c] \in Seq(EndedLines)
  BY DEF Flushes, HasLocks, FilesInv
<1>2. NextIs(command[c], todo[c]) /\ t \in DOMAIN memory[c]
  BY <1>1, Writing
<1>3. /\ Left(c) = {t} \cup Left(c)' /\ t \notin Left(c)' /\ (OnBills(c)' <=> OnBills(c))
      /\ (IsOrder(c)' <=> IsOrder(c))
  BY <1>1, <1>2 DEF Left, NextIs, OnBills, HasLocks, IsOrder
<1>4. ~Opens(c, Billing)' /\ (Opens(c, Billing) <=> Billing = t)
  BY <1>1 DEF Opens
<1>5. CASE t # Billing
  <2>1. text'[Billing] = text[Billing] /\ ~Opens(c, Billing)
    BY <1>1, <1>4, <1>5
  <2>2. One(IsOrder(c))' = One(IsOrder(c))
    BY <1>3 DEF One
  <2>3. Counts(c) => Counts(c)'
    BY <1>1, <1>3, <1>4, <2>1, <2>2 DEF Counts
  <2>4. Billed(c)' <=> Billed(c)
    BY <1>3, <1>5 DEF Billed
  <2>. QED BY <1>1, <1>4, <2>1, <2>3, <2>4, CountAside
<1>6. CASE t = Billing
  <2>1. OnBills(c)
    BY <1>3, <1>6, OneWriter
  <2>2. Lost(output[c]) + One(IsOrder(c)) <= 1
    BY <1>4, <1>6 DEF AllCounted, Counts
  <2>3. Billed(c)' <=> IsOrder(c)
    BY <1>3, <1>6, <2>1 DEF Billed
  <2>4. One(Billed(c))' = One(IsOrder(c)) /\ Lost(text[Billing])' = Lost(output[c])
    BY <1>1, <1>6, <2>3 DEF One, Lost
  <2>5. One(Full(Billing))' = 1
    <3>1. output[c] \in TextFiles
      BY <1>1, EndedFile
    <3>2. LineEnds(output[c]) = Len(output[c])
      BY <1>1, <3>1, LineEndsAre
    <3>. QED BY <1>1, <1>6, <3>2 DEF Full, One
  <2>6. Counts(c)'
    BY <1>3, <1>4, <1>6 DEF Counts
  <2>. QED BY <1>1, <1>3, <1>6, <2>1, <2>2, <2>4, <2>5, <2>6, CountWriter
<1>. QED BY <1>5, <1>6

LEMMA CountBegin ==
    ASSUME NewIds \subseteq Numbers, IInv, FilesInv, IdsInv, AllCounted,
           NEW c \in Threads, NEW id \in NewIds, NEW rows, Begins(c, id, rows)
    PROVE  AllCounted'
<1>1. PICK cmd : cmd = command[c]
  OBVIOUS
<1>2. /\ phase[c] = "accepted" /\ cmd \in Commands /\ cmd.op # "VIEW"
      /\ Loaded(cmd, rows) /\ text' = text /\ OthersSame(c) /\ confirmed' = confirmed
      /\ command'[c] = cmd /\ phase'[c] = "writing" /\ todo'[c] = Writes(cmd)
      /\ \A t \in Tables : t \in DOMAIN memory'[c] =>
           /\ t \in DOMAIN Changed(cmd, id, rows) /\ Readable(t, text[t])
           /\ memory'[c][t] = Changed(cmd, id, rows)[t]
  BY <1>1 DEF Begins, files
<1>3. ~Opens(c, Billing) /\ ~Opens(c, Billing)' /\ ~Billed(c)
  BY <1>2 DEF Opens, Billed, OnBills, HasLocks
<1>4. ~Billed(c)'
  <2>1. CASE cmd.op = "COMPLETE_ORDER"
    <3>1. Writes(cmd) = <<Product, Billing, Orders>>
      BY <2>1 DEF Writes, ProductOps
    <3>2. ThreeOf(Writes(cmd), Product, Billing, Orders)
      BY <3>1, ThreeLeft
    <3>. QED BY <1>2, <3>2 DEF ThreeOf, Left, Billed
  <2>2. CASE cmd.op # "COMPLETE_ORDER"
    BY <1>2, <2>2 DEF Billed, IsOrder
  <2>. QED BY <2>1, <2>2
<1>5. Counts(c)'
  <2>1. SUFFICES ASSUME OnBills(c)', Billing \in DOMAIN memory'[c]
                 PROVE  /\ Bills(text'[Billing]) = Len(text'[Billing])
                        /\ Len(memory'[c][Billing]) = Len(text'[Billing]) + One(IsOrder(c))'
    BY <1>3 DEF Counts
  <2>2. cmd.op \in BillOps
    BY <1>2, <2>1 DEF OnBills
  <2>3. PICK new : new = Changed(cmd, id, rows)[Billing]
    OBVIOUS
  <2>. PICK old : old = rows[Billing]
    OBVIOUS
  <2>4. memory'[c][Billing] = new /\ Readable(Billing, text[Billing])
        /\ Billing \in DOMAIN Changed(cmd, id, rows)
    BY <1>2, <2>1, <2>3, TablesAre
  <2>5. /\ RowsOfTables(rows) /\ HaveIds(old) /\ id \in Numbers
        /\ cmd.op = "COMPLETE_ORDER" => Has(rows[Customer], cmd.buyer)
        /\ cmd.op = "MOD_ORDER" => Has(rows[Orders], cmd.order)
    BY <1>2, LoadedHaveIds DEF Loaded, Records
  <2>6. IF cmd.op = "COMPLETE_ORDER" THEN OneMore(new, old, id) ELSE SameIds(new, old)
    BY <1>2, <2>2, <2>3, <2>4, <2>5, BillsChanged
  <2>7. new \in Seq(Row(Billing))
    <3>1. Typed(Changed(cmd, id, rows))
      BY <1>2, <2>5, ChangedType DEF Numbers
    <3>. QED BY <2>3, <2>4, <3>1, TablesAre DEF Typed
  <2>8. old \in Seq(Row(Billing)) /\ Len(old) = Len(text[Billing])
    BY <1>2, <2>4, IdsOfLoaded DEF Records
  <2>9. Len(new) = Len(old) + One(IsOrder(c))'
    <3>1. IsOrder(c)' <=> cmd.op = "COMPLETE_ORDER"
      BY <1>2 DEF IsOrder
    <3>2. CASE cmd.op = "COMPLETE_ORDER"
      <4>1. One(IsOrder(c))' = 1
        BY <3>1, <3>2 DEF One
      <4>. QED BY <2>6, <3>2, <4>1 DEF OneMore
    <3>3. CASE cmd.op # "COMPLETE_ORDER"
      <4>1. DOMAIN new = DOMAIN old
        BY <2>6, <3>3 DEF SameIds
      <4>2. Len(new) = Len(old) /\ Len(old) \in Nat
        BY <2>7, <2>8, <4>1
      <4>3. One(IsOrder(c))' = 0
        BY <3>1, <3>3 DEF One
      <4>. QED BY <4>2, <4>3
    <3>. QED BY <3>2, <3>3
  <2>10. Bills(text[Billing]) = Len(text[Billing])
    <3>1. text[Billing] \in TextFiles /\ Numbered(text[Billing])
      BY TablesAre DEF FilesInv, IdsInv, Records
    <3>2. \A i \in DOMAIN text[Billing] : text[Billing][i][Id] \in Numbers
      BY <2>4, <3>1, LoadedIds DEF Records
    <3>. QED BY <3>1, <3>2, TextsAssumption, BillsAre DEF Numbers
  <2>. QED BY <1>2, <2>4, <2>8, <2>9, <2>10
<1>. QED BY <1>2, <1>3, <1>4, <1>5, CountAside

LEMMA CountAnswer ==
    ASSUME IInv, FilesInv, TodoInv, confirmed \in Nat, AllCounted, NEW c \in Threads, Answers(c)
    PROVE  AllCounted'
<1>1. /\ phase[c] = "writing" /\ todo[c] = <<>> /\ text' = text /\ OthersSame(c)
      /\ phase'[c] = "idle" /\ HasLocks(c)
      /\ confirmed' = IF IsOrder(c) THEN confirmed + 1 ELSE confirmed
  BY DEF Answers, files, HasLocks, IsOrder
<1>2. /\ ~Opens(c, Billing) /\ ~Opens(c, Billing)' /\ ~OnBills(c)' /\ ~Billed(c)'
      /\ Billing \notin Left(c)
  <2>1. ToSet(<<>>) = {}
    BY DEF ToSet
  <2>. QED BY <1>1, <2>1 DEF Opens, OnBills, HasLocks, Billed, Left
<1>3. Counts(c)'
  BY <1>2 DEF Counts
<1>4. CASE ~IsOrder(c)
  BY <1>1, <1>2, <1>3, <1>4, CountAside DEF Billed
<1>5. CASE IsOrder(c)
  <2>1. OnBills(c) /\ Billed(c)
    BY <1>1, <1>2, <1>5 DEF OnBills, Billed, IsOrder, BillOps
  <2>2. \A d \in Threads : d # c => ~OnBills(d) /\ Same(d)
    BY <1>1, <2>1, OneOnBills DEF OthersSame
  <2>3. \A d \in Threads : d # c => ~OnBills(d)' /\ ~Billed(d)' /\ Left(d)' = Left(d)
                            /\ (Opens(d, Billing)' <=> Opens(d, Billing))
    BY <2>2 DEF Same, OnBills, HasLocks, Billed, Left, Opens
  <2>4. \A d \in Threads : ~Opens(d, Billing)
    <3>1. ASSUME NEW d \in Threads, Opens(d, Billing) PROVE OnBills(d) /\ d # c
      <4>1. HasLocks(d) /\ todo[d] # <<>> /\ Head(todo[d]) = Billing /\ d # c
        BY <1>2, <3>1 DEF Opens, HasLocks, IInv, Progress
      <4>2. NextIs(command[d], todo[d])
        BY <4>1, Writing
      <4>. QED BY <4>1, <4>2 DEF NextIs, OnBills
    <3>. QED BY <2>2, <3>1
  <2>5. ~SomeBilled' /\ SomeBilled
    BY <1>2, <2>1, <2>3 DEF SomeBilled
  <2>6. Lost(text[Billing]) + One(SomeBilled) <= One(Full(Billing))
    BY <2>4 DEF AllCounted, NowCounted
  <2>7. One(SomeBilled) = 1 /\ One(SomeBilled)' = 0 /\ One(Full(Billing))' = One(Full(Billing))
        /\ One(Full(Billing)) \in {0, 1}
    BY <1>1, <2>5 DEF One, Full
  <2>8. Lost(text[Billing])' = Lost(text[Billing]) + 1 /\ Lost(text[Billing]) \in Int
    <3>1. text[Billing] \in TextFiles
      BY TablesAre DEF FilesInv
    <3>2. /\ Bills(text[Billing]) \in Nat /\ Bills(InitialFiles[Billing]) \in Nat
          /\ Lost(text[Billing]) \in Int
      BY <3>1, LostIs
    <3>4. confirmed' = confirmed + 1 /\ text' = text
      BY <1>1, <1>5
    <3>3. Lost(text[Billing])' = confirmed' - (Bills(text[Billing]) - Bills(InitialFiles[Billing]))
      BY <3>4 DEF Lost
    <3>. QED BY <3>2, <3>3, <3>4 DEF Lost
  <2>9. NowCounted'
    BY <2>6, <2>7, <2>8 DEF NowCounted
  <2>10. \A d \in Threads : Counts(d)'
    BY <1>3, <2>3, <2>4 DEF Counts
  <2>. QED BY <2>9, <2>10 DEF AllCounted
<1>. QED BY <1>4, <1>5

LEMMA CountStop ==
    ASSUME FilesInv, confirmed \in Nat, AllCounted, Stop, Billing \notin torn'
    PROVE  AllCounted'
<1>1. /\ text' = text /\ confirmed' = confirmed
      /\ \A c \in Threads : ~OnBills(c)' /\ ~Opens(c, Billing)' /\ ~Billed(c)'
  BY StopForgets DEF Stop, OnBills, Opens, HasLocks, Billed
<1>2. \A c \in Threads : ~Opens(c, Billing)
  BY DEF Stop, Opens
<1>3. Lost(text[Billing]) + One(SomeBilled) <= One(Full(Billing))
  BY <1>2 DEF AllCounted, NowCounted
<1>4. /\ One(SomeBilled)' = 0 /\ One(SomeBilled) \in {0, 1} /\ One(Full(Billing)) \in {0, 1}
      /\ One(Full(Billing))' = One(Full(Billing)) /\ Lost(text[Billing])' = Lost(text[Billing])
  BY <1>1 DEF SomeBilled, One, Full, Lost
<1>5. Lost(text[Billing]) \in Int
  BY TablesAre, LostIs DEF FilesInv
<1>6. NowCounted'
  BY <1>3, <1>4, <1>5 DEF NowCounted
<1>7. \A c \in Threads : Counts(c)'
  BY <1>1 DEF Counts
<1>. QED BY <1>6, <1>7 DEF AllCounted

LEMMA CountNext ==
    ASSUME NewIds \subseteq Numbers, IInv, FilesInv, IdsInv, TodoInv, CountInv, [Next]_vars
    PROVE  CountInv'
<1>1. IInv' /\ confirmed \in Nat
  BY InvNext DEF CountInv
<1>2. confirmed' \in Nat /\ torn \subseteq torn'
  BY <1>1, TheSteps DEF Quiet, Stop, Begins, Truncates, Flushes, Answers, files
<1>3. SUFFICES ASSUME Billing \notin torn' PROVE AllCounted'
  BY <1>2 DEF CountInv
<1>4. AllCounted
  BY <1>2, <1>3 DEF CountInv
<1>5. ASSUME Quiet PROVE AllCounted'
  <2>1. /\ text' = text /\ confirmed' = confirmed
        /\ \A c \in Threads : Same(c) \/ Aside(c)
    BY <1>5 DEF Quiet, files
  <2>2. \A c \in Threads : (Opens(c, Billing)' <=> Opens(c, Billing))
    BY <2>1, SameOpens
  <2>3. \A c \in Threads : (Billed(c)' <=> Billed(c)) /\ (Counts(c) => Counts(c)')
    BY <2>1, SameCounts
  <2>. QED BY <1>4, <2>1, <2>2, <2>3, CountSame
<1>. QED BY <1>1, <1>3, <1>4, <1>5, TheSteps, CountStop, CountBegin, CountTruncate, CountFlush,
            CountAnswer

LEMMA CountInit == ASSUME Init PROVE CountInv
<1>1. text = InitialFiles /\ confirmed = 0
  BY DEF Init
<1>2. Bills(InitialFiles[Billing]) \in Nat
  BY FilesAssumption, TablesAre, BillsAre
<1>3. One(SomeBilled) = 0
  BY NothingStarted, OneIs DEF SomeBilled, Billed, OnBills
<1>4. One(Full(Billing)) \in {0, 1}
  BY OneIs
<1>5. NowCounted
  BY <1>1, <1>2, <1>3, <1>4 DEF NowCounted, Lost
<1>. QED BY <1>1, <1>5, NothingStarted DEF CountInv, AllCounted, Counts, OnBills

(* Of the orders that were confirmed at most one has no bill in the file,  *)
(* however many there are and however often the server was stopped, unless *)
(* a stop left the file empty: the count of line ends is one too low only  *)
(* where the last line has none, and a write-back gives it one.            *)
THEOREM OneBillLost == IdsGiven => (Spec => []OnlyFirstBillLost)
<1> SUFFICES ASSUME IdsGiven PROVE Spec => []OnlyFirstBillLost
  OBVIOUS
<1> DEFINE Inv == IInv /\ FilesInv /\ IdsInv /\ TodoInv /\ CountInv
<1>1. NewIds \subseteq Numbers
  BY DEF IdsGiven, Numbers
<1>2. Init => Inv
  BY InvInit, FilesInit, IdsInit, TodoInit, CountInit
<1>3. Inv /\ [Next]_vars => Inv'
  BY <1>1, InvNext, FilesNext, IdsNext, TodoNext, CountNext
<1>4. Inv => OnlyFirstBillLost
  <2>1. SUFFICES ASSUME Inv, Whole(Billing)
                 PROVE  confirmed <= Bills(text[Billing]) - Bills(InitialFiles[Billing]) + 1
    BY DEF OnlyFirstBillLost
  <2>2. Lost(text[Billing]) + One(SomeBilled) <= One(Full(Billing))
    BY <2>1 DEF CountInv, AllCounted, NowCounted, Whole, Opens
  <2>3. One(SomeBilled) \in {0, 1} /\ One(Full(Billing)) \in {0, 1}
    BY OneIs
  <2>4. /\ Bills(text[Billing]) \in Nat /\ Bills(InitialFiles[Billing]) \in Nat
        /\ confirmed \in Nat
    BY <2>1, TablesAre, LostIs DEF FilesInv, CountInv
  <2>. QED BY <2>2, <2>3, <2>4 DEF Lost
<1>. QED BY <1>2, <1>3, <1>4, PTL DEF Spec

----------------------------------------------------------------------------
(* The stock of the products *)

(* What the lines of an order take of a product, line by line.             *)
OrderMore(sum, l, p) == IF l.item = p THEN sum + l.quantity ELSE sum
IsOrdered(h, lines, p) ==
    h = [s \in SUBSET DOMAIN lines |->
            IF s = {} THEN 0 ELSE OrderMore(h[s \ {Max(s)}], lines[Max(s)], p)]
OrderedUpTo(g, lines, p) ==
    /\ \A m \in 0..Len(lines) : g[m] \in Int
    /\ g[0] = 0 /\ Ordered(lines, p) = g[Len(lines)]
    /\ \A m \in 1..Len(lines) : g[m] = OrderMore(g[m-1], lines[m], p)

LEMMA OrderMoreType ==
    ASSUME NEW sum \in Int, NEW l \in OrderLine, NEW p PROVE OrderMore(sum, l, p) \in Int
BY DEF OrderMore, OrderLine

LEMMA OrderedSteps ==
    ASSUME NEW lines \in Seq(OrderLine), NEW p
    PROVE  \E g : OrderedUpTo(g, lines, p)
<1>1. PICK X : X = Int
  OBVIOUS
<1>2. PICK n \in Nat : n = Len(lines) /\ DOMAIN lines = 1..n
  OBVIOUS
<1>3. \A i \in 1..n : lines[i] \in OrderLine
  BY <1>2
<1>4. PICK G : G = [q \in (1..n) \X X |-> OrderMore(q[2], lines[q[1]], p)]
  OBVIOUS
<1>5. 0 \in X /\ G \in [(1..n) \X X -> X]
  BY <1>1, <1>3, <1>4, OrderMoreType
<1>6. PICK h : Unfolds(h, 0, G, X, n)
  BY <1>5, FoldUnfolds
<1>7. \A s \in SUBSET (1..n) :
        h[s] = IF s = {} THEN 0 ELSE OrderMore(h[s \ {Max(s)}], lines[Max(s)], p)
  BY <1>4, <1>6 DEF Unfolds
<1>8. IsOrdered(h, lines, p)
  BY <1>2, <1>6, <1>7 DEF IsOrdered, Unfolds
<1>9. PICK f : IsOrdered(f, lines, p) /\ Ordered(lines, p) = f[1..n]
  <2> DEFINE f == CHOOSE f : f = [s \in SUBSET DOMAIN lines |->
                IF s = {} THEN 0
                ELSE IF lines[Max(s)].item = p
                     THEN f[s \ {Max(s)}] + lines[Max(s)].quantity
                     ELSE f[s \ {Max(s)}]]
  <2>1. Ordered(lines, p) = f[DOMAIN lines]
    BY DEF Ordered, FoldLeft, MapThenFoldSet
  <2>2. IsOrdered(f, lines, p)
    BY <1>8 DEF IsOrdered, OrderMore
  <2>. QED BY <1>2, <2>1, <2>2
<1>10. f[{}] = 0 /\
       \A m \in 1..n : f[1..m] = OrderMore(f[1..(m-1)], lines[m], p)
  <2>1. \A s \in SUBSET (1..n) :
        f[s] = IF s = {} THEN 0 ELSE OrderMore(f[s \ {Max(s)}], lines[Max(s)], p)
    BY <1>2, <1>9 DEF IsOrdered
  <2>2. \A m \in 1..n : 1..m \in SUBSET (1..n) /\ 1..m # {} /\ Max(1..m) = m
                          /\ (1..m) \ {m} = 1..(m-1)
    BY FirstPlaces
  <2>. QED BY <2>1, <2>2
<1>. PICK g : g = [m \in 0..n |-> f[1..m]]
  OBVIOUS
<1>11. g[0] = 0 /\ g[n] = f[1..n]
  <2>1. 1..0 = {}
    OBVIOUS
  <2>. QED BY <1>10, <2>1
<1>12. ASSUME NEW m \in 1..n PROVE g[m] = OrderMore(g[m-1], lines[m], p)
  <2>1. m \in 0..n /\ m - 1 \in 0..n
    OBVIOUS
  <2>. QED BY <1>10, <2>1
<1>13. ASSUME NEW k \in 0..n PROVE g[k] \in Int
  <2> DEFINE H == {m \in 0..k : g[m] \in Int}
  <2>1. ASSUME NEW m \in 1..k, m - 1 \in H PROVE m \in H
    <3>1. m \in 0..k /\ m \in 1..n /\ g[m-1] \in Int
      BY <2>1
    <3>. QED BY <1>3, <1>12, <3>1, OrderMoreType
  <2>2. 0 \in H /\ k \in Nat
    BY <1>11
  <2>3. k \in H
    <3> HIDE DEF H
    <3>. QED BY <2>1, <2>2, Upwards
  <2>. QED BY <2>3
<1>14. OrderedUpTo(g, lines, p)
  BY <1>2, <1>9, <1>11, <1>12, <1>13 DEF OrderedUpTo
<1>. QED BY <1>14

LEMMA OrderedType ==
    ASSUME NEW lines \in Seq(OrderLine), NEW p PROVE Ordered(lines, p) \in Int
<1>1. PICK g : OrderedUpTo(g, lines, p)
  BY OrderedSteps
<1>2. Len(lines) \in 0..Len(lines)
  OBVIOUS
<1>. QED BY <1>1, <1>2 DEF OrderedUpTo

(* A line of an order takes from the one row of its product.               *)
LEMMA DeductLineIs ==
    ASSUME NEW rows \in Seq(Row(Product)), NEW l \in OrderLine, Has(rows, l.item),
           NEW i \in DOMAIN rows,
           \A j \in DOMAIN rows : rows[j][Id] = rows[i][Id] => j = i
    PROVE  LET new == DeductLine(rows, l) IN
           /\ SameIds(new, rows) /\ new[i][2] = rows[i][2] /\ new[i][3] = rows[i][3]
           /\ new[i][4] = IF l.item = rows[i][Id] THEN rows[i][4] - l.quantity ELSE rows[i][4]
<1>1. PICK k : k = RowOf(rows, l.item)
  OBVIOUS
<1>2. PICK v : v = rows[k][4] - l.quantity
  OBVIOUS
<1>3. PICK new : new = DeductLine(rows, l)
  OBVIOUS
<1>4. new = [rows EXCEPT ![k][4] = v]
  BY <1>1, <1>2, <1>3 DEF DeductLine, Quantity
<1>5. k \in DOMAIN rows /\ rows[k][Id] = l.item
  BY <1>1, RowOfIs
<1>6. Product \in Tables /\ Width(Product) = 5 /\ 4 \in 1..Width(Product)
  BY Widths DEF Tables
<1>7. IsSet([rows EXCEPT ![k][4] = v], rows, k, 4, v, Width(Product))
  BY <1>5, <1>6, SetOne
<1>8. SameIds([rows EXCEPT ![k][4] = v], rows)
  BY <1>6, SetKeepsIds
<1>9. /\ new[i][2] = rows[i][2] /\ new[i][3] = rows[i][3]
      /\ new[i][4] = IF i = k THEN v ELSE rows[i][4]
  BY <1>4, <1>6, <1>7 DEF IsSet
<1>10. i = k <=> l.item = rows[i][Id]
  BY <1>5
<1>. QED BY <1>2, <1>3, <1>4, <1>8, <1>9, <1>10

(* An order takes from the one row of a product what its lines ask for.    *)
Takes(new, products, lines, i) ==
    /\ new[i][2] = products[i][2] /\ new[i][3] = products[i][3]
    /\ new[i][4] = products[i][4] - Ordered(lines, products[i][Id])

LEMMA DeductedIs ==
    ASSUME NEW lines \in Seq(OrderLine), NEW products \in Seq(Row(Product)),
           \A m \in DOMAIN lines : Has(products, lines[m].item),
           NEW i \in DOMAIN products,
           \A j \in DOMAIN products : products[j][Id] = products[i][Id] => j = i
    PROVE  Takes(Deducted(lines, products), products, lines, i)
<1>. PICK n \in Nat : n = Len(lines) /\ DOMAIN lines = 1..n
  OBVIOUS
<1>. PICK p : p = products[i][Id]
  OBVIOUS
<1>0. PICK g : DeductedUpTo(g, lines, products)
  BY DeductedSteps
<1>1. /\ g[0] = products /\ Deducted(lines, products) = g[n]
      /\ \A m \in 1..n : g[m] = DeductLine(g[m-1], lines[m])
  BY <1>0 DEF DeductedUpTo
<1>2. PICK sum : OrderedUpTo(sum, lines, p)
  BY OrderedSteps
<1> DEFINE Good(rows, m) ==
             /\ rows \in Seq(Row(Product)) /\ SameIds(rows, products)
             /\ rows[i][2] = products[i][2] /\ rows[i][3] = products[i][3]
             /\ rows[i][4] = products[i][4] - sum[m]
           G == {m \in 0..n : Good(g[m], m)}
<1>3. products[i][4] \in Int
  <2>1. Product \in Tables /\ Width(Product) = 5 /\ Columns[Product][4]
    BY Widths, ColumnsAre DEF Tables
  <2>2. products[i] \in Row(Product)
    OBVIOUS
  <2>. QED BY <2>1, <2>2 DEF Row
<1>4. ASSUME NEW m \in 1..n, m - 1 \in G PROVE m \in G
  <2>a. PICK rows : rows = g[m-1]
    OBVIOUS
  <2>b. PICK l \in OrderLine : l = lines[m]
    OBVIOUS
  <2>1. /\ rows \in Seq(Row(Product)) /\ SameIds(rows, products)
        /\ rows[i][2] = products[i][2] /\ rows[i][3] = products[i][3]
        /\ rows[i][4] = products[i][4] - sum[m-1]
    BY <1>4, <2>a
  <2>2. Has(rows, l.item)
    <3>1. Has(products, l.item)
      BY <2>b
    <3>. QED BY <2>1, <3>1 DEF Has, SameIds
  <2>3. i \in DOMAIN rows /\ rows[i][Id] = p
        /\ \A j \in DOMAIN rows : rows[j][Id] = rows[i][Id] => j = i
    BY <2>1 DEF SameIds
  <2>4. PICK new : new = DeductLine(rows, l)
    OBVIOUS
  <2>5. /\ SameIds(new, rows) /\ new[i][2] = rows[i][2] /\ new[i][3] = rows[i][3]
        /\ new[i][4] = IF l.item = rows[i][Id] THEN rows[i][4] - l.quantity ELSE rows[i][4]
    BY <2>1, <2>2, <2>3, <2>4, DeductLineIs
  <2>6. new \in Seq(Row(Product)) /\ g[m] = new
    BY <1>1, <2>a, <2>b, <2>1, <2>4, DeductLineType
  <2>7. sum[m] = OrderMore(sum[m-1], l, p) /\ sum[m-1] \in Int
    BY <1>2, <2>b DEF OrderedUpTo
  <2>8. l.quantity \in Int
    BY DEF OrderLine
  <2>9. new[i][4] = products[i][4] - sum[m]
    <3>1. CASE l.item = p
      <4>1. sum[m] = sum[m-1] + l.quantity /\ new[i][4] = rows[i][4] - l.quantity
        BY <2>3, <2>5, <2>7, <3>1 DEF OrderMore
      <4>. QED BY <1>3, <2>1, <2>7, <2>8, <4>1
    <3>2. CASE l.item # p
      BY <2>1, <2>3, <2>5, <2>7, <3>2 DEF OrderMore
    <3>. QED BY <3>1, <3>2
  <2>10. SameIds(new, products)
    BY <2>1, <2>5 DEF SameIds
  <2>11. m \in 0..n
    OBVIOUS
  <2>. QED BY <2>1, <2>5, <2>6, <2>9, <2>10, <2>11
<1>5. 0 \in G
  BY <1>1, <1>2, <1>3 DEF SameIds, OrderedUpTo
<1>6. n \in G
  <2> HIDE DEF G
  <2>. QED BY <1>4, <1>5, Upwards
<1>7. Ordered(lines, p) = sum[n]
  BY <1>2 DEF OrderedUpTo
<1>. QED BY <1>1, <1>6, <1>7 DEF Takes

(* What is said of the products that may be gone is no more of more.       *)
LEMMA MoreGone ==
    ASSUME NEW book, NEW gone, NEW more, gone \subseteq more
    PROVE  /\ \A file : Stocked(file, book, gone) => Stocked(file, book, more)
           /\ \A rows : StockedRows(rows, book, gone) => StockedRows(rows, book, more)
BY DEF Stocked, StockedRows, StockLine, StockRow, Apart

(* The rows of a file that can be loaded are as its lines.                 *)
LEMMA LoadedStock ==
    ASSUME NEW file \in TextFiles, Readable(Product, file), Numbered(file),
           NEW D \in SUBSET Numbers, NEW book \in [D -> Int], NEW gone,
           Stocked(file, book, gone)
    PROVE  StockedRows(Load(Product, file), book, gone)
<1>. PICK rows : rows = Load(Product, file)
  OBVIOUS
<1>1. /\ Columns[Product] = <<TRUE, FALSE, TRUE, TRUE, TRUE>> /\ DOMAIN Columns[Product] = 1..5
  BY ColumnsAre
<1>2. DOMAIN rows = DOMAIN file
  BY DEF Load
<1>3. \A i \in DOMAIN file : rows[i][Id] = file[i][Id]
  BY LoadedIds DEF Records
<1>4. ASSUME NEW i \in DOMAIN file PROVE StockRow(rows[i], book, gone)
  <2>. SUFFICES ASSUME rows[i][Id] \in D \ gone
                PROVE  /\ rows[i][2] \in Names /\ rows[i][3] \in Numbers
                       /\ rows[i][4] = book[rows[i][Id]]
    BY DEF StockRow
  <2>. PICK l : l = file[i]
    OBVIOUS
  <2>1. Len(l) >= 4 /\ l[2] \in Names /\ l[3] \in Numbers /\ l[4] = book[l[Id]]
    BY <1>3 DEF Stocked, StockLine
  <2>2. l \in Seq(Tokens)
    BY DEF TextFiles, FileLines
  <2>3. 2 \in DOMAIN l /\ 3 \in DOMAIN l /\ 4 \in DOMAIN l
    BY <2>1, <2>2
  <2>4. rows[i][2] = l[2] /\ rows[i][3] = atoi(l[3]) /\ rows[i][4] = atoi(l[4])
    <3>1. \A j \in DOMAIN Columns[Product] :
            rows[i][j] = IF Columns[Product][j] THEN atoi(Token(l, j)) ELSE Token(l, j)
      BY DEF Load
    <3>2. 2 \in DOMAIN Columns[Product] /\ 3 \in DOMAIN Columns[Product] /\ 4 \in DOMAIN Columns[Product]
      BY <1>1
    <3>3. ~Columns[Product][2] /\ Columns[Product][3] /\ Columns[Product][4]
      BY <1>1
    <3>4. Token(l, 2) = l[2] /\ Token(l, 3) = l[3] /\ Token(l, 4) = l[4]
      BY <2>3 DEF Token
    <3>. QED BY <3>1, <3>2, <3>3, <3>4
  <2>5. atoi(l[3]) = l[3]
    BY <2>1, TextsAssumption DEF atoi, Numbers
  <2>6. \A x \in Int : atoi(x) = x
    BY TextsAssumption DEF atoi
  <2>7. book[rows[i][Id]] \in Int
    OBVIOUS
  <2>. QED BY <1>3, <2>1, <2>4, <2>5, <2>6, <2>7
<1>5. Apart(rows, book, gone)
  BY <1>2, <1>3 DEF Apart, Stocked
<1>. QED BY <1>2, <1>4, <1>5 DEF StockedRows

(* A write-back has the rows in it, a quantity if it is positive.          *)
LEMMA WrittenStock ==
    ASSUME NEW rows \in Seq(Row(Product)), HaveIds(rows), NEW file \in TextFiles,
           NEW D \in SUBSET Numbers, NEW book \in [D -> Int], NEW gone,
           StockedRows(rows, book, gone)
    PROVE  Stocked(WriteBack(Product, rows, file), book, gone \cup SoldOut(book))
<1>. PICK new : new = WriteBack(Product, rows, file)
  OBVIOUS
<1>. PICK more : more = gone \cup SoldOut(book)
  OBVIOUS
<1>1. /\ new \in Seq(EndedLines)
      /\ \A i \in DOMAIN new :
           IF i <= Len(rows) THEN new[i] = LineOf(rows[i]) /\ new[i][Id] = rows[i][Id]
                             ELSE new[i] = <<EOL>>
  BY WriteBackIs DEF Records
<1>2. <<EOL>>[Id] \notin D
  <2>1. EOL \in Texts /\ <<EOL>>[1] = EOL
    BY DEF Texts
  <2>. QED BY <2>1, TextsAssumption DEF Id, Numbers
<1>3. ASSUME NEW i \in DOMAIN new, new[i][Id] \in D
      PROVE  i \in DOMAIN rows /\ new[i] = LineOf(rows[i]) /\ new[i][Id] = rows[i][Id]
  <2>1. i <= Len(rows)
    BY <1>1, <1>2, <1>3
  <2>2. i \in 1..Len(new) /\ Len(new) \in Nat /\ DOMAIN rows = 1..Len(rows) /\ Len(rows) \in Nat
    BY <1>1
  <2>. QED BY <1>1, <2>1, <2>2
<1>4. ASSUME NEW i \in DOMAIN new PROVE StockLine(new[i], book, more)
  <2>. SUFFICES ASSUME new[i][Id] \in D \ more
                PROVE  /\ Len(new[i]) >= 4 /\ new[i][2] \in Names /\ new[i][3] \in Numbers
                       /\ new[i][4] = book[new[i][Id]]
    BY DEF StockLine
  <2>1. i \in DOMAIN rows /\ new[i] = LineOf(rows[i]) /\ new[i][Id] = rows[i][Id]
    BY <1>3
  <2>. PICK r : r = rows[i]
    OBVIOUS
  <2>2. /\ r \in Row(Product) /\ r[1] \in D \ more /\ r[2] \in Names /\ r[3] \in Numbers
        /\ r[4] = book[r[1]]
    BY <2>1 DEF StockedRows, StockRow, Id
  <2>3. r[1] \in Numbers
    BY <2>2
  <2>4. /\ Len(LineOf(r)) >= 4 /\ LineOf(r)[2] = r[2] /\ LineOf(r)[3] = r[3]
        /\ r[4] > 0 => LineOf(r)[4] = r[4]
    BY <2>2, <2>3, ProductLine
  <2>5. r[4] > 0
    <3>1. book[r[1]] \in Int
      BY <2>2
    <3>2. ~(book[r[1]] <= 0)
      BY <2>2 DEF SoldOut
    <3>. QED BY <2>2, <3>1, <3>2
  <2>. QED BY <2>1, <2>2, <2>4, <2>5 DEF Id
<1>5. Apart(new, book, more)
  <2>1. ASSUME NEW i \in DOMAIN new, NEW j \in DOMAIN new, new[i][Id] = new[j][Id],
               new[i][Id] \in D \ more
        PROVE  i = j
    BY <1>3, <2>1 DEF StockedRows, Apart
  <2>. QED BY <2>1 DEF Apart
<1>. QED BY <1>4, <1>5 DEF Stocked

(* The history after a command is one of the same products.                *)
LEMMA LedgerType ==
    ASSUME NEW cmd \in Commands, NEW rows, ledger \in [Listed -> Int]
    PROVE  NewLedger(cmd, rows) \in [Listed -> Int]
<1>1. CASE cmd.op = "COMPLETE_ORDER"
  <2>1. cmd.lines \in Seq(OrderLine)
    BY <1>1, RequestFields DEF OrderLine
  <2>2. \A p \in Listed : ledger[p] - Ordered(cmd.lines, p) \in Int
    BY <2>1, OrderedType
  <2>3. NewLedger(cmd, rows) = [p \in Listed |-> ledger[p] - Ordered(cmd.lines, p)]
    BY <1>1 DEF NewLedger
  <2>. QED BY <2>2, <2>3
<1>2. CASE cmd.op = "MOD_QUANT"
  <2>1. cmd.quantity \in Int
    BY <1>2, RequestFields
  <2>. QED BY <1>2, <2>1 DEF NewLedger
<1>3. CASE cmd.op \notin {"COMPLETE_ORDER", "MOD_QUANT"}
  BY <1>3 DEF NewLedger
<1>. QED BY <1>1, <1>2, <1>3

(* Whoever is the owner before a change of another column is it after.     *)
LEMMA SameOwner ==
    ASSUME NEW rows \in Seq(Row(Product)), HaveIds(rows), NEW new \in Seq(Row(Product)),
           SameIds(new, rows), NEW cmd, \A i \in DOMAIN rows : new[i][3] = rows[i][3]
    PROVE  IsOwner(cmd, new) <=> IsOwner(cmd, rows)
<1>1. HaveIds(new)
  BY SameHaveIds
<1>2. UpToFree(Product, new) = new /\ UpToFree(Product, rows) = rows
  BY <1>1, NoGap DEF Records
<1>3. Has(new, cmd.item) <=> Has(rows, cmd.item)
  BY DEF Has, SameIds
<1>4. RowOf(new, cmd.item) = RowOf(rows, cmd.item)
  <2>1. DOMAIN rows = 1..Len(rows) /\ Len(rows) \in Nat
    OBVIOUS
  <2>2. \A i \in DOMAIN rows : \A k \in 1..(i - 1) : k \in DOMAIN rows
    BY <2>1
  <2>3. \A i \in DOMAIN rows :
          (new[i][Id] = cmd.item /\ \A k \in 1..(i - 1) : new[k][Id] # cmd.item)
            <=> (rows[i][Id] = cmd.item /\ \A k \in 1..(i - 1) : rows[k][Id] # cmd.item)
    BY <2>2 DEF SameIds
  <2>4. DOMAIN new = DOMAIN rows
    BY DEF SameIds
  <2>. QED BY <2>3, <2>4 DEF RowOf
<1>5. Has(rows, cmd.item) => RowOf(rows, cmd.item) \in DOMAIN rows
  BY RowOfIs
<1>. QED BY <1>2, <1>3, <1>4, <1>5 DEF IsOwner, Seller

(* The rows after a command are as the history after it.                   *)
LEMMA ChangedStock ==
    ASSUME NEW cmd \in Commands, cmd.op # "VIEW", NEW id \in Numbers,
           Listed \subseteq Numbers, ledger \in [Listed -> Int],
           NEW rows, RowsOfTables(rows), HaveIds(rows[Product]),
           cmd.op = "COMPLETE_ORDER" => validateBuyerOrder(cmd.lines, rows[Product]),
           Product \in DOMAIN Changed(cmd, id, rows), NEW gone, Drawn(cmd, id) \subseteq gone,
           StockedRows(rows[Product], ledger, gone)
    PROVE  LET new == Changed(cmd, id, rows)[Product] IN
           StockedRows(new, NewLedger(cmd, new), gone)
<1>. PICK old : old = rows[Product]
  OBVIOUS
<1>1. PICK new : new = Changed(cmd, id, rows)[Product]
  OBVIOUS
<1>2. PICK book : book = NewLedger(cmd, new)
  OBVIOUS
<1>3. /\ old \in Seq(Row(Product)) /\ HaveIds(old) /\ StockedRows(old, ledger, gone)
      /\ DOMAIN old = 1..Len(old) /\ Len(old) \in Nat
  BY TablesAre DEF RowsOfTables, Typed
<1>4. cmd.op \in {"COMPLETE_ORDER", "MOD_ORDER", "EDIT_INFO", "EDIT_ROW", "NEW_CLIENT",
                  "NEW_PRODUCT", "DELETE_PROD", "MOD_QUANT", "MOD_PRICE"}
  BY RequestFields
<1>5. Apart(old, ledger, gone) /\ \A i \in DOMAIN old : StockRow(old[i], ledger, gone)
  BY <1>3 DEF StockedRows
<1>6. CASE cmd.op = "COMPLETE_ORDER"
  <2>1. new = Deducted(cmd.lines, old) /\ cmd.lines \in Seq(OrderLine)
    BY <1>1, <1>6, OrderMakes, RequestFields DEF OrderLine
  <2>2. book = [p \in Listed |-> ledger[p] - Ordered(cmd.lines, p)]
    BY <1>2, <1>6 DEF NewLedger
  <2>3. \A m \in DOMAIN cmd.lines : Has(old, cmd.lines[m].item)
    <3>1. validateBuyerOrder(cmd.lines, old)
      BY <1>6
    <3>2. UpToFree(Product, old) = old
      BY <1>3, NoGap DEF Records
    <3>. QED BY <3>1, <3>2 DEF validateBuyerOrder
  <2>4. SameIds(new, old)
    BY <1>3, <2>1, DeductedKeepsIds
  <2>5. ASSUME NEW i \in DOMAIN old, old[i][Id] \in Listed \ gone
        PROVE  /\ new[i][2] = old[i][2] /\ new[i][3] = old[i][3]
               /\ new[i][4] = old[i][4] - Ordered(cmd.lines, old[i][Id])
    <3>1. \A j \in DOMAIN old : old[j][Id] = old[i][Id] => j = i
      BY <1>5, <2>5 DEF Apart
    <3>. PICK lines \in Seq(OrderLine) : lines = cmd.lines
      BY <2>1
    <3>2. \A m \in DOMAIN lines : Has(old, lines[m].item)
      BY <2>3
    <3>3. Takes(Deducted(lines, old), old, lines, i)
      BY <1>3, <3>1, <3>2, DeductedIs
    <3>. QED BY <2>1, <3>3 DEF Takes
  <2>6. ASSUME NEW i \in DOMAIN new PROVE StockRow(new[i], book, gone)
    <3>. SUFFICES ASSUME new[i][Id] \in Listed \ gone
                  PROVE  /\ new[i][2] \in Names /\ new[i][3] \in Numbers
                         /\ new[i][4] = book[new[i][Id]]
      BY <2>2 DEF StockRow
    <3>1. i \in DOMAIN old /\ new[i][Id] = old[i][Id]
      BY <2>4 DEF SameIds
    <3>2. /\ old[i][2] \in Names /\ old[i][3] \in Numbers
          /\ old[i][4] = ledger[old[i][Id]]
      BY <1>5, <3>1 DEF StockRow
    <3>. QED BY <2>2, <2>5, <3>1, <3>2
  <2>7. Apart(new, book, gone)
    BY <1>5, <2>2, <2>4 DEF Apart, SameIds
  <2>. QED BY <1>1, <1>2, <2>6, <2>7 DEF StockedRows
<1>7. CASE cmd.op = "NEW_PRODUCT"
  <2>1. book = ledger
    BY <1>2, <1>7 DEF NewLedger
  <2>. PICK row : row = <<id, cmd.name, cmd.seller, cmd.quantity, cmd.price>>
    OBVIOUS
  <2>2. new = PutRow(Product, old, row)
    BY <1>1, <1>7 DEF Changed, NewProduct
  <2>3. row \in Row(Product) /\ row[Id] = id
    <3>1. id \in Int
      BY DEF Numbers
    <3>. QED BY <1>7, <3>1, RequestFields, RowTuples, IntsArePlain DEF Id
  <2>4. new = Append(old, row)
    BY <1>3, <2>2, NoGap DEF Records
  <2>5. /\ DOMAIN new = 1..(Len(old) + 1) /\ new[Len(old) + 1][Id] \notin Listed \ gone
        /\ \A k \in DOMAIN old : new[k] = old[k]
    <3>1. id \notin Listed \ gone
      BY <1>7 DEF Drawn
    <3>. QED BY <1>3, <2>3, <2>4, <3>1, AppendProperties
  <2>6. ASSUME NEW i \in DOMAIN new, new[i][Id] \in Listed \ gone
        PROVE  i \in DOMAIN old /\ new[i] = old[i]
    <3>1. i # Len(old) + 1
      BY <2>5, <2>6
    <3>. QED BY <1>3, <2>5, <3>1
  <2>7. ASSUME NEW i \in DOMAIN new PROVE StockRow(new[i], ledger, gone)
    <3>1. CASE new[i][Id] \in Listed \ gone
      BY <1>5, <2>6, <3>1
    <3>2. CASE new[i][Id] \notin Listed \ gone
      BY <3>2 DEF StockRow
    <3>. QED BY <3>1, <3>2
  <2>8. Apart(new, ledger, gone)
    BY <1>5, <2>6 DEF Apart
  <2>. QED BY <1>1, <1>2, <2>1, <2>7, <2>8 DEF StockedRows
<1>8. CASE cmd.op = "DELETE_PROD"
  <2>1. book = ledger
    BY <1>2, <1>8 DEF NewLedger
  <2>2. new = deleteProduct(cmd, old)
    BY <1>1, <1>8 DEF Changed
  <2>3. CASE ~IsOwner(cmd, old)
    <3>1. DOMAIN new = {}
      BY <2>2, <2>3 DEF deleteProduct
    <3>. QED BY <1>1, <1>2, <3>1 DEF StockedRows, Apart
  <2>4. CASE IsOwner(cmd, old)
    <3>1. new = Without(old, Id, cmd.item)
      BY <1>3, <2>2, <2>4, NoGap DEF deleteProduct, Records
    <3>. PICK n \in Nat : n = Len(old) /\ DOMAIN old = 1..n
      BY <1>3
    <3>2. PartOf(new, old, n)
      <4>1. old \in [1..n -> Row(Product)]
        BY <1>3
      <4>. QED BY <3>1, <4>1, WithoutIsPart
    <3>3. PICK p \in [DOMAIN new -> 1..n] :
            /\ \A k \in DOMAIN new : new[k] = old[p[k]]
            /\ \A k, l \in DOMAIN new : k < l => p[k] < p[l]
      BY <3>2 DEF PartOf
    <3>4. DOMAIN new \subseteq Int
      <4>1. new \in Seq(Row(Product))
        BY <1>3, <3>1, WithoutType, TablesAre
      <4>. QED BY <4>1
    <3>5. \A k \in DOMAIN new : StockRow(new[k], ledger, gone)
      BY <1>5, <3>3
    <3>6. ASSUME NEW k \in DOMAIN new, NEW l \in DOMAIN new,
                 new[k][Id] = new[l][Id], new[k][Id] \in Listed \ gone
          PROVE  k = l
      <4>1. p[k] = p[l] /\ p[k] \in Int
        BY <1>5, <3>3, <3>6 DEF Apart
      <4>2. ~(k < l) /\ ~(l < k)
        BY <3>3, <4>1
      <4>. QED BY <3>4, <4>2
    <3>7. Apart(new, ledger, gone)
      BY <3>6 DEF Apart
    <3>. QED BY <1>1, <1>2, <2>1, <3>5, <3>7 DEF StockedRows
  <2>. QED BY <2>3, <2>4
<1>9. CASE cmd.op \in {"MOD_QUANT", "MOD_PRICE"}
  <2>1. PICK j \in {4, 5}, v \in Int :
            /\ new = Modified(cmd, old, j, v)
            /\ cmd.op = "MOD_QUANT" => j = 4 /\ v = cmd.quantity
            /\ cmd.op = "MOD_PRICE" => j = 5
    BY <1>1, <1>9, RequestFields DEF Changed, Quantity, Price
  <2>2. CASE ~IsOwner(cmd, old)
    <3>1. new = old
      BY <2>1, <2>2 DEF Modified
    <3>2. book = ledger
      BY <1>2, <1>9, <2>2, <3>1 DEF NewLedger
    <3>. QED BY <1>1, <1>2, <1>3, <3>1, <3>2
  <2>3. CASE IsOwner(cmd, old)
    <3>. PICK i : i = RowOf(old, cmd.item)
      OBVIOUS
    <3>1. new = [old EXCEPT ![i][j] = v]
      BY <2>1, <2>3 DEF Modified
    <3>2. i \in DOMAIN old /\ old[i][Id] = cmd.item
      <4>1. UpToFree(Product, old) = old
        BY <1>3, NoGap DEF Records
      <4>2. Has(old, cmd.item)
        BY <2>3, <4>1 DEF IsOwner
      <4>. QED BY <1>3, <4>2, RowOfIs
    <3>3. Product \in Tables /\ Width(Product) = 5 /\ j \in 1..5 /\ j \in {2, 3, 4, 5}
      BY Widths DEF Tables
    <3>4. IsSet([old EXCEPT ![i][j] = v], old, i, j, v, Width(Product))
      BY <1>3, <3>2, <3>3, SetOne
    <3>5. SameIds([old EXCEPT ![i][j] = v], old)
      BY <1>3, <3>3, SetKeepsIds
    <3>6. ASSUME NEW k \in DOMAIN old
          PROVE  /\ new[k][2] = old[k][2] /\ new[k][3] = old[k][3] /\ new[k][Id] = old[k][Id]
                 /\ new[k][4] = IF k = i /\ j = 4 THEN v ELSE old[k][4]
      BY <3>1, <3>3, <3>4, <3>5 DEF IsSet, SameIds
    <3>7. IsOwner(cmd, new)
      <4>1. Typed(Changed(cmd, id, rows))
        <5>1. id \in Int
          BY DEF Numbers
        <5>2. cmd.op # "COMPLETE_ORDER" /\ cmd.op # "MOD_ORDER"
          BY <1>9
        <5>. QED BY <5>1, <5>2, ChangedType
      <4>2. new \in Seq(Row(Product))
        <5>1. PICK changed : changed = Changed(cmd, id, rows)
          OBVIOUS
        <5>2. Typed(changed) /\ Product \in DOMAIN changed /\ new = changed[Product]
          BY <1>1, <4>1, <5>1
        <5>. QED BY <5>2, TablesAre DEF Typed
      <4>. QED BY <1>3, <2>3, <3>1, <3>5, <3>6, <4>2, SameOwner
    <3>8. \A k \in DOMAIN old : old[k][Id] \in Listed \ gone =>
             (k = i <=> old[k][Id] = cmd.item)
      BY <1>5, <3>2 DEF Apart
    <3>9. \A k \in DOMAIN old : old[k][Id] \in Listed \ gone =>
             book[old[k][Id]] = IF k = i /\ j = 4 THEN v ELSE ledger[old[k][Id]]
      <4>1. CASE cmd.op = "MOD_QUANT" /\ cmd.item \in Listed
        <5>1. book = [ledger EXCEPT ![cmd.item] = v] /\ j = 4
          BY <1>2, <2>1, <3>7, <4>1 DEF NewLedger
        <5>. QED BY <3>8, <4>1, <5>1
      <4>2. CASE ~(cmd.op = "MOD_QUANT" /\ cmd.item \in Listed)
        <5>1. book = ledger
          BY <1>2, <1>9, <4>2 DEF NewLedger
        <5>. QED BY <1>9, <2>1, <3>8, <4>2, <5>1
      <4>. QED BY <4>1, <4>2
    <3>10. DOMAIN book = Listed
      BY <1>2, LedgerType
    <3>11. DOMAIN new = DOMAIN old
      BY <3>1, <3>5 DEF SameIds
    <3>12. ASSUME NEW k \in DOMAIN new PROVE StockRow(new[k], book, gone)
      BY <1>5, <3>6, <3>9, <3>10, <3>11 DEF StockRow
    <3>13. Apart(new, book, gone)
      BY <1>5, <3>6, <3>10, <3>11 DEF Apart
    <3>. QED BY <1>1, <1>2, <3>12, <3>13 DEF StockedRows
  <2>. QED BY <2>2, <2>3
<1>10. CASE cmd.op \in {"MOD_ORDER", "EDIT_INFO", "EDIT_ROW", "NEW_CLIENT"}
  <2>1. Product \notin DOMAIN Changed(cmd, id, rows)
    <3>1. CASE cmd.op = "MOD_ORDER"
      <4>1. DOMAIN Changed(cmd, id, rows) \subseteq {Orders, Billing}
        BY <3>1 DEF Changed, buyerModifiesOrder
      <4>. QED BY <4>1, ColumnsAre
    <3>2. CASE cmd.op = "EDIT_INFO"
      <4>1. DOMAIN Changed(cmd, id, rows) = {Customer, Billing, Orders}
        BY <3>2 DEF Changed, buyerEdits
      <4>. QED BY <4>1, ColumnsAre
    <3>3. CASE cmd.op \in {"EDIT_ROW", "NEW_CLIENT"}
      <4>1. DOMAIN Changed(cmd, id, rows) = {cmd.table} /\ cmd.table \in {Customer, Sellers}
        BY <3>3, RequestFields DEF Changed
      <4>. QED BY <4>1, ColumnsAre
    <3>. QED BY <1>10, <3>1, <3>2, <3>3
  <2>. QED BY <2>1
<1>. QED BY <1>4, <1>6, <1>7, <1>8, <1>9, <1>10

(* The products with a history are those the server starts with.           *)
LEMMA ListedAre ==
    ASSUME IdsGiven, StockGiven
    PROVE  Listed \subseteq Numbers /\ NewIds \subseteq Numbers
BY DEF IdsGiven, StockGiven, Listed, Numbers

(* Whoever has the products to write has them to itself.                   *)
LEMMA OneOnProducts ==
    ASSUME IInv, TodoInv, NEW c \in Threads, HasLocks(c), Product \in Locks(command[c])
    PROVE  \A d \in Threads : d # c => Product \notin Left(d) /\ ~Opens(d, Product)
<1>1. ASSUME NEW d \in Threads, d # c, HasLocks(d) PROVE Product \notin Locks(command[d])
  BY <1>1 DEF IInv, Exclusive
<1>2. ASSUME NEW d \in Threads, Product \in Left(d) \/ Opens(d, Product)
      PROVE  HasLocks(d) /\ Product \in Locks(command[d])
  BY <1>2, LeftLocked
<1>. QED BY <1>1, <1>2

(* The products stand as they did, and one thread does what does not       *)
(* concern them, or not yet.                                               *)
LEMMA SameStock ==
    ASSUME IInv, NEW c \in Threads, Same(c) \/ Aside(c), ledger' = ledger, spoilt \subseteq spoilt',
           KeepsStock(c)
    PROVE  KeepsStock(c)'
<1>1. CASE Same(c)
  <2>1. PICK book : book = Book(c)
    OBVIOUS
  <2>2. Book(c)' = book
    BY <1>1, <2>1 DEF Same, Book, NewLedger
  <2>3. /\ (Opens(c, Product)' <=> Opens(c, Product)) /\ Left(c)' = Left(c)
        /\ memory'[c] = memory[c] /\ output'[c] = output[c]
    BY <1>1, SameOpens DEF Same
  <2>4. SoldOut(Book(c))' = SoldOut(book)
    BY <2>2 DEF SoldOut
  <2>5. spoilt \cup SoldOut(book) \subseteq spoilt' \cup SoldOut(book)
    OBVIOUS
  <2>6. Opens(c, Product) => Stocked(output[c], book, spoilt' \cup SoldOut(book))
    BY <2>1, <2>5, MoreGone DEF KeepsStock
  <2>7. Product \in Left(c) /\ Product \in DOMAIN memory[c] =>
            StockedRows(memory[c][Product], book, spoilt')
    BY <2>1, MoreGone DEF KeepsStock
  <2>. QED BY <2>2, <2>3, <2>4, <2>6, <2>7 DEF KeepsStock
<1>2. CASE Aside(c)
  <2>1. ToSet(<<>>) = {}
    BY DEF ToSet
  <2>2. Left(c)' = {}
    BY <1>2, <2>1 DEF Aside, IInv, Progress, Left
  <2>. QED BY <1>2, <2>2 DEF KeepsStock, Opens, Aside
<1>. QED BY <1>1, <1>2

LEMMA StockAside ==
    ASSUME IInv, AllStocked, NEW c \in Threads, OthersSame(c), ledger' = ledger,
           spoilt \subseteq spoilt', text'[Product] = text[Product],
           Opens(c, Product)' <=> Opens(c, Product), KeepsStock(c)'
    PROVE  AllStocked'
<1>1. \A d \in Threads : d # c => Same(d)
  BY DEF OthersSame
<1>2. \A d \in Threads : (Opens(d, Product)' <=> Opens(d, Product))
  BY <1>1, SameOpens
<1>3. \A d \in Threads : KeepsStock(d)'
  BY <1>1, SameStock DEF AllStocked
<1>4. NowStocked'
  <2>1. NowStocked
    BY DEF AllStocked
  <2>. QED BY <1>2, <2>1, MoreGone DEF NowStocked
<1>. QED BY <1>3, <1>4 DEF AllStocked

LEMMA StockQuiet == ASSUME IInv, AllStocked, Quiet PROVE AllStocked'
<1>1. /\ text' = text /\ ledger' = ledger /\ spoilt' = spoilt
      /\ \A c \in Threads : Same(c) \/ Aside(c)
  BY DEF Quiet, files
<1>2. \A c \in Threads : (Opens(c, Product)' <=> Opens(c, Product))
  BY <1>1, SameOpens
<1>3. \A c \in Threads : KeepsStock(c)'
  BY <1>1, SameStock DEF AllStocked
<1>. QED BY <1>1, <1>2, <1>3 DEF AllStocked, NowStocked

LEMMA StockStop == ASSUME AllStocked, Stop, Product \notin torn' PROVE AllStocked'
<1>1. /\ UNCHANGED <<text, ledger, spoilt>>
      /\ \A c \in Threads : ~Opens(c, Product)' /\ Left(c)' = {}
  <2>1. ToSet(<<>>) = {}
    BY DEF ToSet
  <2>. QED BY <2>1, StopForgets DEF Stop, Opens, Left
<1>2. \A c \in Threads : ~Opens(c, Product)
  BY DEF Stop, Opens
<1>. QED BY <1>1, <1>2 DEF AllStocked, NowStocked, KeepsStock

LEMMA StockBegin ==
    ASSUME IdsGiven, StockGiven, IInv, FilesInv, IdsInv, TodoInv, IInv', TodoInv',
           ledger \in [Listed -> Int], AllStocked,
           NEW c \in Threads, NEW id \in NewIds, NEW rows, Begins(c, id, rows)
    PROVE  AllStocked'
<1>1. PICK cmd : cmd = command[c]
  OBVIOUS
<1>2. /\ phase[c] = "accepted" /\ MayLock(cmd) /\ cmd \in Commands /\ cmd.op # "VIEW"
      /\ Loaded(cmd, rows) /\ OthersSame(c) /\ command'[c] = cmd /\ phase'[c] = "writing"
      /\ \A t \in Tables : t \in DOMAIN memory'[c] =>
           /\ t \in DOMAIN Changed(cmd, id, rows) /\ Readable(t, text[t])
           /\ memory'[c][t] = Changed(cmd, id, rows)[t]
  BY <1>1 DEF Begins
<1>3. text' = text /\ ledger' = ledger /\ spoilt' = spoilt \cup Drawn(cmd, id)
  BY <1>1 DEF Begins
<1>4. ~Opens(c, Product) /\ ~Opens(c, Product)'
  BY <1>2 DEF Opens
<1>5. SUFFICES ASSUME (Product \in Left(c))', Product \in DOMAIN memory'[c]
               PROVE  StockedRows(memory'[c][Product], Book(c)', spoilt')
  BY <1>2, <1>3, <1>4, StockAside DEF KeepsStock
<1>6. Product \in Locks(cmd)
  <2>1. (todo[c] \in Seq(Locks(command[c])))'
    BY <1>2 DEF IInv, Progress, HasLocks
  <2>. QED BY <1>2, <1>5, <2>1 DEF Left, ToSet
<1>7. ASSUME NEW d \in Threads PROVE ~Opens(d, Product)
  <2>1. HasLocks(d) => Product \notin Locks(command[d])
    BY <1>2, <1>6 DEF MayLock, Held
  <2>. QED BY <2>1, LeftLocked
<1>8. PICK old : old = rows[Product]
  OBVIOUS
<1>9. PICK new : new = Changed(cmd, id, rows)[Product]
  OBVIOUS
<1>10. /\ memory'[c][Product] = new /\ Readable(Product, text[Product])
       /\ Product \in DOMAIN Changed(cmd, id, rows)
  BY <1>2, <1>5, <1>9, TablesAre
<1>11. /\ Listed \subseteq Numbers /\ id \in Numbers
  BY ListedAre
<1>12. StockedRows(old, ledger, spoilt)
  <2>1. text[Product] \in TextFiles /\ Numbered(text[Product])
    BY TablesAre DEF FilesInv, IdsInv, Records
  <2>2. Stocked(text[Product], ledger, spoilt)
    BY <1>7 DEF AllStocked, NowStocked
  <2>3. old = Load(Product, text[Product])
    BY <1>2, <1>8, <1>10, TablesAre DEF Loaded
  <2>. QED BY <1>10, <1>11, <2>1, <2>2, <2>3, LoadedStock
<1>13. RowsOfTables(rows) /\ HaveIds(old)
       /\ (cmd.op = "COMPLETE_ORDER" => validateBuyerOrder(cmd.lines, old))
  BY <1>2, <1>8, LoadedHaveIds DEF Loaded, Records
<1>16. PICK gone : gone = spoilt \cup Drawn(cmd, id)
  OBVIOUS
<1>17. StockedRows(old, ledger, gone) /\ Drawn(cmd, id) \subseteq gone
  BY <1>12, <1>16, MoreGone
<1>14. StockedRows(new, NewLedger(cmd, new), gone)
  BY <1>2, <1>8, <1>9, <1>10, <1>11, <1>13, <1>17, ChangedStock
<1>15. Book(c)' = NewLedger(cmd, new)
  BY <1>2, <1>3, <1>10 DEF Book, NewLedger
<1>. QED BY <1>3, <1>10, <1>14, <1>15, <1>16

LEMMA StockTruncate ==
    ASSUME IdsGiven, StockGiven, IInv, FilesInv, IdsInv, TodoInv,
           ledger \in [Listed -> Int], AllStocked,
           NEW c \in Threads, NEW t, Truncates(c, t)
    PROVE  AllStocked'
<1>1. /\ HasLocks(c) /\ todo[c] # <<>> /\ t = Head(todo[c]) /\ t \in Tables
      /\ t \in DOMAIN memory[c] /\ text' = [text EXCEPT ![t] = <<>>] /\ OthersSame(c)
      /\ phase[c] = "writing" /\ phase'[c] = "open" /\ todo'[c] = todo[c]
      /\ command'[c] = command[c] /\ memory'[c] = memory[c]
      /\ output'[c] = WriteBack(t, memory[c][t], text[t])
      /\ ledger' = ledger /\ spoilt' = spoilt /\ DOMAIN text = Tables
  BY DEF Truncates, HasLocks, FilesInv
<1>2. NextIs(command[c], todo[c]) /\ command[c] \in Commands
  BY <1>1, Writing
<1>3. t \in Left(c) /\ Left(c)' = Left(c)
  BY <1>1, <1>2 DEF Left, NextIs
<1>4. ~Opens(c, Product) /\ (Opens(c, Product)' <=> Product = t)
  BY <1>1 DEF Opens
<1>5. PICK book : book = Book(c)
  OBVIOUS
<1>6. Book(c)' = book /\ SoldOut(Book(c))' = SoldOut(book)
  BY <1>1, <1>5 DEF Book, NewLedger, SoldOut
<1>7. Product \in Left(c) /\ Product \in DOMAIN memory[c] =>
          StockedRows(memory[c][Product], book, spoilt)
  BY <1>5 DEF AllStocked, KeepsStock
<1>8. CASE t # Product
  <2>1. text'[Product] = text[Product] /\ ~Opens(c, Product)'
    BY <1>1, <1>4, <1>8
  <2>2. KeepsStock(c)'
    BY <1>1, <1>3, <1>6, <1>7, <2>1 DEF KeepsStock
  <2>. QED BY <1>1, <1>4, <2>1, <2>2, StockAside
<1>9. CASE t = Product
  <2>. PICK rows : rows = memory[c][Product]
    OBVIOUS
  <2>1. rows \in Seq(Row(Product)) /\ HaveIds(rows) /\ text[Product] \in TextFiles
    BY <1>1, <1>9, TablesAre DEF FilesInv, Typed, IdsInv, Records
  <2>2. book \in [Listed -> Int] /\ Listed \in SUBSET Numbers
    BY <1>2, <1>5, LedgerType, ListedAre DEF Book
  <2>3. StockedRows(rows, book, spoilt)
    BY <1>1, <1>3, <1>7, <1>9
  <2>4. Stocked(WriteBack(Product, rows, text[Product]), book, spoilt \cup SoldOut(book))
    BY <2>1, <2>2, <2>3, WrittenStock
  <2>5. Stocked(output'[c], book, spoilt \cup SoldOut(book))
    BY <1>1, <1>9, <2>4
  <2>6. KeepsStock(c)'
    BY <1>1, <1>3, <1>6, <1>7, <2>5 DEF KeepsStock
  <2>7. \A d \in Threads : KeepsStock(d)'
    BY <1>1, <2>6, SameStock DEF OthersSame, AllStocked
  <2>8. NowStocked'
    BY <1>4, <1>9 DEF NowStocked
  <2>. QED BY <2>7, <2>8 DEF AllStocked
<1>. QED BY <1>8, <1>9

LEMMA StockFlush ==
    ASSUME IInv, FilesInv, TodoInv, ledger \in [Listed -> Int], AllStocked,
           NEW c \in Threads, NEW t, Flushes(c, t)
    PROVE  AllStocked' /\ ledger' \in [Listed -> Int]
<1>1. /\ HasLocks(c) /\ todo[c] # <<>> /\ t = Head(todo[c]) /\ t \in Tables
      /\ text' = [text EXCEPT ![t] = output[c]] /\ OthersSame(c)
      /\ phase[c] = "open" /\ phase'[c] = "writing" /\ todo'[c] = Tail(todo[c])
      /\ command'[c] = command[c] /\ memory'[c] = memory[c] /\ DOMAIN text = Tables
      /\ ledger' = IF t = Product THEN Book(c) ELSE ledger
      /\ spoilt' = spoilt \cup SoldOut(ledger')
  BY DEF Flushes, HasLocks, FilesInv, Book, SoldOut
<1>2. NextIs(command[c], todo[c]) /\ command[c] \in Commands
  BY <1>1, Writing
<1>3. Left(c) = {t} \cup Left(c)' /\ t \notin Left(c)'
  BY <1>1, <1>2 DEF Left, NextIs
<1>4. ~Opens(c, Product)' /\ (Opens(c, Product) <=> Product = t)
  BY <1>1 DEF Opens
<1>5. CASE t # Product
  <2>1. text'[Product] = text[Product] /\ ledger' = ledger /\ spoilt \subseteq spoilt'
    BY <1>1, <1>5
  <2>2. PICK book : book = Book(c)
    OBVIOUS
  <2>3. Book(c)' = book
    BY <1>1, <2>1, <2>2 DEF Book, NewLedger
  <2>4. Product \in Left(c) /\ Product \in DOMAIN memory[c] =>
            StockedRows(memory[c][Product], book, spoilt)
    BY <2>2 DEF AllStocked, KeepsStock
  <2>5. Product \in Left(c) /\ Product \in DOMAIN memory[c] =>
            StockedRows(memory[c][Product], book, spoilt')
    BY <2>1, <2>4, MoreGone
  <2>6. KeepsStock(c)'
    BY <1>1, <1>3, <1>4, <2>3, <2>5 DEF KeepsStock
  <2>. QED BY <1>1, <1>4, <1>5, <2>1, <2>6, StockAside
<1>6. CASE t = Product
  <2>1. ledger' = Book(c) /\ ledger' \in [Listed -> Int]
    BY <1>1, <1>2, <1>6, LedgerType DEF Book
  <2>2. Stocked(output[c], Book(c), spoilt \cup SoldOut(Book(c)))
    BY <1>4, <1>6 DEF AllStocked, KeepsStock
  <2>3. Stocked(text'[Product], ledger', spoilt')
    BY <1>1, <1>6, <2>1, <2>2
  <2>4. Product \in Locks(command[c])
    BY <1>3, <1>6, LeftLocked
  <2>5. ASSUME NEW d \in Threads, d # c PROVE KeepsStock(d)'
    <3>1. Product \notin Left(d) /\ ~Opens(d, Product)
      BY <1>1, <2>4, <2>5, OneOnProducts
    <3>2. Left(d)' = Left(d) /\ (Opens(d, Product)' <=> Opens(d, Product))
      BY <1>1, <2>5, SameOpens DEF OthersSame
    <3>. QED BY <3>1, <3>2 DEF KeepsStock
  <2>6. KeepsStock(c)'
    BY <1>3, <1>4, <1>6 DEF KeepsStock
  <2>. QED BY <2>1, <2>3, <2>5, <2>6 DEF AllStocked, NowStocked
<1>. QED BY <1>5, <1>6, <1>1

LEMMA StockAnswer ==
    ASSUME IInv, AllStocked, NEW c \in Threads, Answers(c) PROVE AllStocked'
<1>1. /\ text' = text /\ ledger' = ledger /\ spoilt' = spoilt /\ OthersSame(c)
      /\ phase[c] = "writing" /\ phase'[c] = "idle" /\ todo'[c] = <<>>
  BY DEF Answers, files
<1>2. ~Opens(c, Product) /\ ~Opens(c, Product)' /\ Left(c)' = {}
  <2>1. ToSet(<<>>) = {}
    BY DEF ToSet
  <2>. QED BY <1>1, <2>1 DEF Opens, Left
<1>3. KeepsStock(c)'
  BY <1>2 DEF KeepsStock
<1>. QED BY <1>1, <1>2, <1>3, StockAside

LEMMA StockNext ==
    ASSUME IdsGiven, StockGiven, IInv, FilesInv, IdsInv, TodoInv, StockInv, [Next]_vars
    PROVE  StockInv'
<1>1. IInv' /\ TodoInv' /\ ledger \in [Listed -> Int]
  BY InvNext, TodoNext DEF StockInv
<1>2. ledger' \in [Listed -> Int]
  <2>1. ASSUME NEW c \in Threads, NEW t, Flushes(c, t) PROVE ledger' \in [Listed -> Int]
    <3>1. command[c] \in Commands
      BY <2>1, Writing DEF Flushes, HasLocks
    <3>2. NewLedger(command[c], memory[c][t]) \in [Listed -> Int]
      BY <1>1, <3>1, LedgerType
    <3>. QED BY <1>1, <2>1, <3>2 DEF Flushes
  <2>. QED BY <1>1, <2>1, TheSteps DEF Quiet, Stop, Begins, Truncates, Answers, files
<1>3. torn \subseteq torn'
  BY TheSteps DEF Quiet, Stop, Begins, Truncates, Flushes, Answers, files
<1>4. SUFFICES ASSUME Product \notin torn' PROVE AllStocked'
  BY <1>2 DEF StockInv
<1>5. AllStocked
  BY <1>3, <1>4 DEF StockInv
<1>. QED BY <1>1, <1>4, <1>5, TheSteps, StockQuiet, StockStop, StockBegin, StockTruncate,
            StockFlush, StockAnswer

(* The history begins with what the file says.                             *)
LEMMA StockInit == ASSUME IdsGiven, StockGiven, Init PROVE StockInv
<1>. PICK file : file = InitialFiles[Product]
  OBVIOUS
<1>. PICK rows : rows = Load(Product, file)
  OBVIOUS
<1>1. /\ text[Product] = file /\ ledger = StockOf(rows) /\ spoilt = {}
  BY DEF Init
<1>2. ASSUME NEW i \in DOMAIN file
      PROVE  /\ Len(file[i]) >= 4 /\ file[i][1] \in Numbers /\ file[i][2] \in Names
             /\ file[i][3] \in Numbers /\ file[i][4] \in Int
             /\ \A j \in DOMAIN file : file[i][1] = file[j][1] => i = j
  BY DEF IdsGiven, StockGiven, Id, Name, Seller, Quantity, Names, Numbers
<1>3. DOMAIN rows = DOMAIN file
  BY DEF Load
<1>4. ASSUME NEW i \in DOMAIN file PROVE rows[i][1] = file[i][1] /\ rows[i][4] = file[i][4]
  <2>. PICK l : l = file[i]
    OBVIOUS
  <2>1. l \in Seq(Tokens) /\ Len(l) >= 4
    <3>1. file \in TextFiles
      BY FilesAssumption, TablesAre
    <3>2. file \in Seq(FileLines)
      BY <3>1 DEF TextFiles
    <3>3. file[i] \in FileLines
      BY <3>2
    <3>. QED BY <1>2, <3>3 DEF FileLines
  <2>2. 1 \in DOMAIN l /\ 4 \in DOMAIN l
    BY <2>1
  <2>3. /\ Columns[Product] = <<TRUE, FALSE, TRUE, TRUE, TRUE>> /\ DOMAIN Columns[Product] = 1..5
    BY ColumnsAre
  <2>4. rows[i][1] = atoi(Token(l, 1)) /\ rows[i][4] = atoi(Token(l, 4))
    <3>1. \A j \in DOMAIN Columns[Product] :
            rows[i][j] = IF Columns[Product][j] THEN atoi(Token(l, j)) ELSE Token(l, j)
      BY DEF Load
    <3>2. 1 \in DOMAIN Columns[Product] /\ 4 \in DOMAIN Columns[Product]
      BY <2>3
    <3>3. Columns[Product][1] /\ Columns[Product][4]
      BY <2>3
    <3>. QED BY <3>1, <3>2, <3>3
  <2>5. \A x \in Int : atoi(x) = x
    BY TextsAssumption DEF atoi
  <2>. QED BY <1>2, <2>2, <2>4, <2>5 DEF Token, Numbers
<1>5. DOMAIN ledger = Listed
  BY <1>1, <1>3, <1>4 DEF StockOf, Listed, Id
<1>6. ASSUME NEW i \in DOMAIN file PROVE ledger[file[i][1]] = file[i][4] /\ file[i][1] \in Listed
  <2>1. file[i][1] \in Listed
    BY DEF Listed, Id
  <2>2. \A j \in DOMAIN rows : rows[j][Id] = file[i][1] <=> j = i
    BY <1>2, <1>3, <1>4 DEF Id
  <2>3. (CHOOSE j \in DOMAIN rows : rows[j][Id] = file[i][1]) = i
    BY <1>3, <2>2
  <2>4. file[i][1] \in {rows[j][Id] : j \in DOMAIN rows}
    BY <1>3, <2>2
  <2>5. ledger[file[i][1]] = rows[i][Quantity]
    BY <1>1, <2>3, <2>4 DEF StockOf
  <2>. QED BY <1>4, <2>1, <2>5 DEF Quantity
<1>7. ledger \in [Listed -> Int]
  <2>1. \A p \in Listed : ledger[p] \in Int
    BY <1>2, <1>6 DEF Listed, Id
  <2>2. ledger = [p \in Listed |-> ledger[p]]
    BY <1>1, <1>5 DEF StockOf
  <2>. QED BY <2>1, <2>2
<1>8. Stocked(file, ledger, {})
  BY <1>2, <1>6 DEF Stocked, Apart, StockLine, Id
<1>9. NowStocked
  BY <1>1, <1>8 DEF NowStocked
<1>. QED BY <1>7, <1>9, NothingStarted DEF StockInv, AllStocked, KeepsStock

(* The quantity of a product in its file is what the seller set last, or   *)
(* what it was at the start, less all that was ordered since: whatever     *)
(* orders, changes and deletions run at once and wherever the server was   *)
(* stopped, no update is lost and none is counted twice, for a product     *)
(* that has never been sold out and whose number has not been drawn for a  *)
(* new one, in a file that no stop has emptied.                            *)
THEOREM StockIsKept == IdsGiven /\ StockGiven => (Spec => []StockLedger)
<1> SUFFICES ASSUME IdsGiven, StockGiven PROVE Spec => []StockLedger
  OBVIOUS
<1> DEFINE Inv == IInv /\ FilesInv /\ IdsInv /\ TodoInv /\ StockInv
<1>1. NewIds \subseteq Numbers
  BY DEF IdsGiven, Numbers
<1>2. Init => Inv
  BY InvInit, FilesInit, IdsInit, TodoInit, StockInit
<1>3. Inv /\ [Next]_vars => Inv'
  BY <1>1, InvNext, FilesNext, IdsNext, TodoNext, StockNext
<1>4. Inv => StockLedger
  <2>1. SUFFICES ASSUME Inv, Whole(Product), NEW i \in DOMAIN text[Product],
                        text[Product][i][Id] \in DOMAIN ledger \ spoilt
                 PROVE  text[Product][i][Quantity] = ledger[text[Product][i][Id]]
    BY DEF StockLedger
  <2>2. Stocked(text[Product], ledger, spoilt)
    BY <2>1 DEF StockInv, AllStocked, NowStocked, Whole, Opens
  <2>. QED BY <2>1, <2>2 DEF Stocked, StockLine, Quantity
<1>. QED BY <1>2, <1>3, <1>4, PTL DEF Spec
=============================================================================
