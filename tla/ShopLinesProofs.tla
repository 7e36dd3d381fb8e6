--------------------------- MODULE ShopLinesProofs ---------------------------
(***************************************************************************)
(* No line of a file is lost in a write-back.  A line that a loader can    *)
(* read is written as it was read (a round trip through Load and LinesOf), *)
(* and every command leaves the rows in memory alone that it is not about. *)
(* And a loader reads what a command has written as it was in memory: the  *)
(* round trip the other way, through LinesOf and Load.                     *)
(***************************************************************************)
EXTENDS ShopRecordsProofs

(* What is written of a field when it is not left out.                     *)
Kept == Numbers \cup Names

(* A row begins with numbers that are there.  The columns behind the text  *)
(* of a record file are all numbers: so whatever field behind the first is *)
(* left out, no text comes to stand in a number's column, where atoi would *)
(* lose it.  It can in an order line, which has a number before the text.  *)
Firm(t) == CASE t \in {Billing, Orders} -> 2 [] OTHER -> 1
FirmRow(t, row) == \A j \in 1..Firm(t) : row[j] \in Numbers
FirmRows(t, rows) == \A i \in DOMAIN rows : FirmRow(t, rows[i]) \/ rows[i] = BlankRow(t)

(* A line that is long enough to be read has no more than its columns and  *)
(* a line end, begins with its numbers, and has in each column what the    *)
(* column keeps, if it is not misread.                                     *)
InColumn(t, j, x) == x \in IF Columns[t][j] THEN Numbers ELSE Kept
SoundLine(t, line) ==
    Len(line) >= Width(t) =>
        /\ \A j \in DOMAIN line : line[j] = EOL \/ j <= Width(t)
        /\ FirmRow(t, line)
        /\ Misread(t, line) \/ \A j \in DOMAIN line : line[j] = EOL \/ InColumn(t, j, line[j])
SoundFile(t, file) == \A i \in DOMAIN file : SoundLine(t, file[i])

SoundInv ==
    \A t \in Tables :
        /\ SoundFile(t, text[t])
        /\ \A c \in Threads :
             /\ t \in DOMAIN memory[c] => FirmRows(t, memory[c][t])
             /\ Opens(c, t) => SoundFile(t, output[c])

----------------------------------------------------------------------------
(* Columns and fields *)

(* The columns that hold numbers.                                          *)
Shape(t, k, w, numbers) ==
    Firm(t) = k /\ Width(t) = w /\ \A j \in 1..w : Columns[t][j] <=> j \in numbers

LEMMA Shapes ==
    ASSUME NEW t \in Tables
    PROVE  \/ Shape(t, 1, 5, {1, 3, 4, 5}) \/ Shape(t, 2, 4, {1, 2, 4})
           \/ (t = Orders /\ Shape(t, 2, 5, {1, 2, 3, 5})) \/ Shape(t, 1, 4, {1})
<1>1. CASE t = Product
  <2>1. Firm(t) = 1 /\ Width(t) = 5
    BY <1>1, ColumnsAre DEF Width, Firm
  <2>2. Columns[t] = <<TRUE, FALSE, TRUE, TRUE, TRUE>>
    BY <1>1, ColumnsAre
  <2>. QED BY <2>1, <2>2 DEF Shape
<1>2. CASE t = Billing
  <2>1. Firm(t) = 2 /\ Width(t) = 4
    BY <1>2, ColumnsAre DEF Width, Firm
  <2>2. Columns[t] = <<TRUE, TRUE, FALSE, TRUE>>
    BY <1>2, ColumnsAre
  <2>. QED BY <2>1, <2>2 DEF Shape
<1>3. CASE t = Orders
  <2>1. Firm(t) = 2 /\ Width(t) = 5
    BY <1>3, ColumnsAre DEF Width, Firm
  <2>2. Columns[t] = <<TRUE, TRUE, TRUE, FALSE, TRUE>>
    BY <1>3, ColumnsAre
  <2>. QED BY <1>3, <2>1, <2>2 DEF Shape
<1>4. CASE t \in {Customer, Sellers}
  <2>1. Columns[t] = <<TRUE, FALSE, FALSE, FALSE>> /\ t \notin {Product, Billing, Orders}
    BY <1>4, ColumnsAre
  <2>2. Firm(t) = 1 /\ Width(t) = 4
    BY <2>1 DEF Width, Firm
  <2>. QED BY <2>1, <2>2 DEF Shape
<1>. QED BY <1>1, <1>2, <1>3, <1>4 DEF Tables

FirmShape(t, k, w) ==
    /\ k \in 1..2 /\ w \in {4, 5} /\ k < w /\ Firm(t) = k /\ Width(t) = w
    /\ \A j \in 1..k : Columns[t][j]
    /\ \A j \in 1..w : \A q \in j..w :
          Columns[t][j] /\ j > k /\ ~(t = Orders /\ j = 3) => Columns[t][q]

LEMMA FirmColumns == ASSUME NEW t \in Tables PROVE FirmShape(t, Firm(t), Width(t))
<1>1. CASE Shape(t, 1, 5, {1, 3, 4, 5})
  BY <1>1 DEF Shape, FirmShape
<1>2. CASE Shape(t, 2, 4, {1, 2, 4})
  BY <1>2 DEF Shape, FirmShape
<1>3. CASE t = Orders /\ Shape(t, 2, 5, {1, 2, 3, 5})
  BY <1>3 DEF Shape, FirmShape
<1>4. CASE Shape(t, 1, 4, {1})
  BY <1>4 DEF Shape, FirmShape
<1>. QED BY <1>1, <1>2, <1>3, <1>4, Shapes

LEMMA NumbersAre ==
    /\ Numbers \subseteq Int /\ Numbers \cap Texts = {} /\ Names \subseteq Texts /\ EOL \in Texts
    /\ EOL \notin Kept /\ Numbers \subseteq Kept /\ Kept \subseteq Tokens
    /\ EOL \notin Int /\ NoText \in Texts
    /\ Zeros \in Names /\ Zeros \in Kept /\ Zeros \in Texts /\ Zeros # EOL
BY TextsAssumption DEF Numbers, Names, Kept, Fields, Texts, Tokens

(* A field is written, or left out, or only zeros are left of it.          *)
FieldIsOf(x) ==
    /\ \/ Field(x) = <<>>
       \/ Field(x) = <<x>> /\ x \in Kept \cup {EOL} /\ (x \in Int => x \in Numbers)
       \/ Field(x) = <<Zeros>> /\ x \in Int
    /\ x \in Kept \cup {EOL} => Field(x) = <<x>>

LEMMA FieldIs == ASSUME NEW x \in Tokens PROVE FieldIsOf(x)
<1>1. CASE x \in Texts
  <2>1. x = NoText => Field(x) = <<>>
    BY <1>1 DEF Field
  <2>2. x # NoText => Field(x) = <<x>> /\ x \in Kept \cup {EOL}
    BY <1>1 DEF Field, Kept, Names, Fields
  <2>3. x = NoText => x \notin Kept \cup {EOL}
    BY NumbersAre, TextsAssumption DEF Kept, Names
  <2>4. x \notin Int
    BY <1>1, TextsAssumption
  <2>5. <<>> # <<x>>
    OBVIOUS
  <2>. QED BY <2>1, <2>2, <2>3, <2>4, <2>5 DEF FieldIsOf
<1>2. CASE x \notin Texts
  <2>1. x \in Int
    BY <1>2 DEF Tokens
  <2>2. x \in Numbers <=> x > 0
    BY <2>1 DEF Numbers
  <2>3. x \in Kept \cup {EOL} <=> x \in Numbers
    BY <1>2, NumbersAre DEF Kept
  <2>4. x \in Numbers => Field(x) = <<x>>
    BY FieldOfNumber
  <2>5. Field(x) \in {<<x>>, <<Zeros>>, <<>>}
    BY <1>2 DEF Field, intToCharArray
  <2>6. x \notin Numbers => Field(x) # <<x>>
    <3>1. SUFFICES ASSUME ~(x > 0) PROVE Field(x) # <<x>>
      BY <2>2
    <3>2. Field(x) \in {<<Zeros>>, <<>>}
      BY <1>2, <2>1, <3>1 DEF Field, intToCharArray
    <3>3. <<Zeros>> # <<x>> /\ <<>> # <<x>>
      BY <1>2, NumbersAre
    <3>. QED BY <3>2, <3>3
  <2>. QED BY <2>1, <2>3, <2>4, <2>5, <2>6 DEF FieldIsOf
<1>. QED BY <1>1, <1>2

LEMMA FieldZero == Field(0) = <<>>
<1>1. 0 \notin Texts /\ ~(0 > 0) /\ ~(0 < 0)
  BY TextsAssumption
<1>2. intToCharArray(0) = <<>>
  BY <1>1 DEF intToCharArray
<1>. QED BY <1>1, <1>2 DEF Field

----------------------------------------------------------------------------
(* Sequences made of parts *)

(* What holds of nothing, and of a sequence with one more part if it holds *)
(* without it, holds of all the parts together.                            *)
Inductive(P, ss, n, S) ==
    /\ <<0, <<>>>> \in P
    /\ \A m \in 1..n : \A a \in Seq(S) : <<m - 1, a>> \in P => <<m, a \o ss[m]>> \in P

LEMMA FlattenInduct ==
    ASSUME NEW S, NEW n \in Nat, n # 0, NEW ss \in [1..n -> Seq(S)], NEW P,
           Inductive(P, ss, n, S)
    PROVE  <<n, FlattenSeq(ss)>> \in P
<1>1. PICK f : Grows(f, ss, n) /\ FlattenSeq(ss) = f[n]
  BY FlattenSteps
<1>. PICK g : g = [m \in 0..n |-> IF m = 0 THEN <<>> ELSE f[m]]
  OBVIOUS
<1> DEFINE G == {m \in 0..n : g[m] \in Seq(S) /\ <<m, g[m]>> \in P}
<1>2. 0 \in G
  <2>1. g[0] = <<>> /\ 0 \in 0..n
    OBVIOUS
  <2>. QED BY <2>1, EmptySeq DEF Inductive
<1>3. ASSUME NEW m \in 1..n, m - 1 \in G PROVE m \in G
  <2>1. m \in 0..n /\ m - 1 \in 0..n /\ g[m] = f[m] /\ ss[m] \in Seq(S)
    OBVIOUS
  <2>2. g[m] = g[m-1] \o ss[m]
    <3>1. CASE m = 1
      <4>1. g[m-1] = <<>> /\ f[m] = ss[m]
        BY <1>1, <3>1 DEF Grows
      <4>. QED BY <2>1, <4>1, ConcatEmptySeq
    <3>2. CASE m # 1
      <4>1. m \in 2..n /\ g[m-1] = f[m-1]
        BY <3>2
      <4>. QED BY <1>1, <2>1, <4>1 DEF Grows
    <3>. QED BY <3>1, <3>2
  <2>. PICK a : a = g[m-1]
    OBVIOUS
  <2>3. a \in Seq(S) /\ <<m - 1, a>> \in P
    BY <1>3
  <2>4. <<m, a \o ss[m]>> \in P
    BY <2>3 DEF Inductive
  <2>5. a \o ss[m] \in Seq(S)
    BY <2>1, <2>3, ConcatProperties
  <2>. QED BY <2>1, <2>2, <2>4, <2>5
<1>4. n \in G
  <2> HIDE DEF G
  <2>. QED BY <1>2, <1>3, Upwards
<1>5. g[n] = f[n]
  OBVIOUS
<1>. QED BY <1>1, <1>4, <1>5

(* Of parts of length one at most, none comes to stand behind its place.   *)
Shifted(seq, ss, m) ==
    Len(seq) <= m /\ \A p \in DOMAIN seq : \E q \in p..m :
                         Len(ss[q]) = 1 /\ ss[q][1] = seq[p]

LEMMA JoinShifted ==
    ASSUME NEW S, NEW ss, NEW l \in Nat, NEW m, m = l + 1, NEW a \in Seq(S), NEW b \in Seq(S),
           Shifted(a, ss, l), Len(b) \in {0, 1}, b = ss[m]
    PROVE  Shifted(a \o b, ss, m)
<1>1. PICK c : c = a \o b
  OBVIOUS
<1>2. PICK k \in Nat : k = Len(a) /\ DOMAIN a = 1..k
  OBVIOUS
<1>3. k <= l
  BY <1>2 DEF Shifted
<1>4. c \in Seq(S) /\ Joined(c, a, b)
  BY <1>1, Joining, ConcatProperties
<1>5. CASE Len(b) = 0
  <2>1. c = a
    <3>1. b = <<>>
      BY <1>5
    <3>. QED BY <1>1, <3>1, ConcatEmptySeq
  <2>2. Len(a) <= m /\ \A p : p..l \subseteq p..m
    BY <1>2, <1>3
  <2>. QED BY <1>1, <2>1, <2>2 DEF Shifted
<1>6. CASE Len(b) = 1
  <2>1. Len(b) = 1 /\ 1 \in 1..Len(b)
    BY <1>6
  <2>2. Len(c) = k + 1 /\ DOMAIN c = 1..(k + 1) /\ c[k + 1] = b[1]
    BY <1>2, <1>4, <2>1 DEF Joined
  <2>3. \A p \in 1..k : c[p] = a[p]
    BY <1>2, <1>4 DEF Joined
  <2>4. ASSUME NEW p \in 1..k PROVE \E q \in p..m : Len(ss[q]) = 1 /\ ss[q][1] = c[p]
    <3>1. PICK q \in p..l : Len(ss[q]) = 1 /\ ss[q][1] = a[p]
      BY <1>2 DEF Shifted
    <3>2. q \in p..m
      OBVIOUS
    <3>. QED BY <2>3, <3>1, <3>2
  <2>5. Len(ss[m]) = 1 /\ ss[m][1] = c[k + 1] /\ m \in (k + 1)..m
    BY <1>3, <2>1, <2>2
  <2>6. \A p \in 1..(k + 1) : p = k + 1 \/ p \in 1..k
    OBVIOUS
  <2>7. \A p \in 1..(k + 1) : \E q \in p..m : Len(ss[q]) = 1 /\ ss[q][1] = c[p]
    BY <2>4, <2>5, <2>6
  <2>8. Len(c) <= m
    BY <1>3, <2>2
  <2>9. \A p \in DOMAIN c : \E q \in p..m : Len(ss[q]) = 1 /\ ss[q][1] = c[p]
    BY <2>2, <2>7
  <2>. QED BY <1>1, <2>8, <2>9 DEF Shifted
<1>. QED BY <1>5, <1>6

LEMMA FlattenShifts ==
    ASSUME NEW S, NEW n \in Nat, n # 0, NEW ss \in [1..n -> Seq(S)],
           \A j \in 1..n : Len(ss[j]) \in {0, 1}
    PROVE  Shifted(FlattenSeq(ss), ss, n)
<1>. PICK P : P = {p \in (0..n) \X Seq(S) : Shifted(p[2], ss, p[1])}
  OBVIOUS
<1>1. \A m \in 0..n : \A a \in Seq(S) : <<m, a>> \in P <=> Shifted(a, ss, m)
  OBVIOUS
<1>2. <<0, <<>>>> \in P
  <2>1. PICK e \in Seq(S) : e = <<>> /\ Len(e) = 0
    BY EmptySeq
  <2>2. Shifted(e, ss, 0)
    <3>1. \A p \in DOMAIN e : FALSE
      BY <2>1
    <3>. QED BY <2>1, <3>1 DEF Shifted
  <2>3. 0 \in 0..n
    OBVIOUS
  <2>4. <<0, e>> \in P
    BY <1>1, <2>1, <2>2, <2>3
  <2>. QED BY <2>1, <2>4
<1>3. ASSUME NEW m \in 1..n, NEW a \in Seq(S), <<m - 1, a>> \in P
      PROVE  <<m, a \o ss[m]>> \in P
  <2>1. PICK l \in Nat : l = m - 1 /\ m = l + 1 /\ l \in 0..n
    OBVIOUS
  <2>2. ss[m] \in Seq(S) /\ Len(ss[m]) \in {0, 1} /\ m \in 0..n
    OBVIOUS
  <2>3. Shifted(a, ss, l)
    BY <1>1, <1>3, <2>1
  <2>4. Shifted(a \o ss[m], ss, m)
    BY <2>1, <2>2, <2>3, JoinShifted
  <2>5. a \o ss[m] \in Seq(S)
    BY <2>2, ConcatProperties
  <2>. QED BY <1>1, <2>2, <2>4, <2>5
<1>4. Inductive(P, ss, n, S)
  BY <1>2, <1>3 DEF Inductive
<1>5. <<n, FlattenSeq(ss)>> \in P
  BY <1>4, FlattenInduct
<1>6. FlattenSeq(ss) \in Seq(S)
  BY FlattenType
<1>. QED BY <1>1, <1>5, <1>6

(* What is in a part is in the whole.                                      *)
LEMMA FlattenHas ==
    ASSUME NEW S, NEW n \in Nat, n # 0, NEW ss \in [1..n -> Seq(S)], NEW k \in 1..n,
           NEW i \in DOMAIN ss[k]
    PROVE  ss[k][i] \in ToSet(FlattenSeq(ss))
<1>. PICK x : x = ss[k][i]
  OBVIOUS
<1>. PICK P : P = {p \in (0..n) \X Seq(S) : p[1] >= k => x \in ToSet(p[2])}
  OBVIOUS
<1>1. \A m \in 0..n : \A a \in Seq(S) : <<m, a>> \in P <=> (m >= k => x \in ToSet(a))
  OBVIOUS
<1>2. <<0, <<>>>> \in P
  <2>1. PICK e : e = <<>> /\ e \in Seq(S)
    BY EmptySeq
  <2>2. 0 \in 0..n /\ ~(0 >= k)
    OBVIOUS
  <2>3. <<0, e>> \in P
    BY <1>1, <2>1, <2>2
  <2>. QED BY <2>1, <2>3
<1>3. ASSUME NEW m \in 1..n, NEW a \in Seq(S), <<m - 1, a>> \in P
      PROVE  <<m, a \o ss[m]>> \in P
  <2>1. m \in 0..n /\ m - 1 \in 0..n /\ ss[m] \in Seq(S)
    OBVIOUS
  <2>. PICK b \in Seq(S) : b = ss[m]
    BY <2>1
  <2>. PICK c : c = a \o b
    OBVIOUS
  <2>2. c \in Seq(S) /\ Joined(c, a, b)
    BY Joining, ConcatProperties
  <2>3. DOMAIN a = 1..Len(a) /\ DOMAIN b = 1..Len(b) /\ DOMAIN c = 1..Len(c)
        /\ Len(a) \in Nat /\ Len(b) \in Nat /\ Len(c) = Len(a) + Len(b)
    BY <2>2 DEF Joined
  <2>4. \A j \in DOMAIN a : j \in DOMAIN c /\ c[j] = a[j]
    BY <2>2, <2>3 DEF Joined
  <2>5. \A j \in DOMAIN b : Len(a) + j \in DOMAIN c /\ c[Len(a) + j] = b[j]
    BY <2>2, <2>3 DEF Joined
  <2>6. ToSet(a) \subseteq ToSet(c) /\ ToSet(b) \subseteq ToSet(c)
    <3>1. ASSUME NEW j \in DOMAIN a PROVE a[j] \in ToSet(c)
      BY <2>4, <3>1 DEF ToSet
    <3>2. ASSUME NEW j \in DOMAIN b PROVE b[j] \in ToSet(c)
      <4>1. PICK q \in DOMAIN c : q = Len(a) + j /\ c[q] = b[j]
        BY <2>5
      <4>. QED BY <4>1 DEF ToSet
    <3>. QED BY <3>1, <3>2 DEF ToSet
  <2>7. m >= k => x \in ToSet(c)
    <3>1. CASE m = k
      BY <2>6, <3>1 DEF ToSet
    <3>2. CASE m # k
      <4>1. m >= k => m - 1 >= k
        BY <3>2
      <4>. QED BY <1>1, <1>3, <2>1, <2>6, <4>1
    <3>. QED BY <3>1, <3>2
  <2>. QED BY <1>1, <2>1, <2>2, <2>7
<1>4. Inductive(P, ss, n, S)
  BY <1>2, <1>3 DEF Inductive
<1>5. <<n, FlattenSeq(ss)>> \in P
  BY <1>4, FlattenInduct
<1>6. FlattenSeq(ss) \in Seq(S)
  BY FlattenType
<1>7. n >= k /\ n \in 0..n
  OBVIOUS
<1>. QED BY <1>1, <1>5, <1>6, <1>7

----------------------------------------------------------------------------
(* Lines and rows *)

FieldsOf(row) == FlattenSeq([j \in DOMAIN row |-> Field(row[j])])

(* The fields of a row, and what is written of each.                       *)
Parts(row, ss, w) ==
    /\ w \in {4, 5} /\ ss \in [1..w -> Seq(Tokens)] /\ FieldsOf(row) = FlattenSeq(ss)
    /\ \A j \in 1..w : /\ row[j] \in Tokens /\ FieldIsOf(row[j])
                       /\ ss[j] = Field(row[j]) /\ Len(ss[j]) \in {0, 1}
PartsOf(row, ss, w) ==
    Parts(row, ss, w) /\ Shifted(FieldsOf(row), ss, w) /\ FieldsOf(row) \in Seq(Tokens)

LEMMA RowParts ==
    ASSUME NEW t \in Tables, NEW row \in Row(t)
    PROVE  \E ss : PartsOf(row, ss, Width(t))
<1>. PICK w \in {4, 5} : w = Width(t)
  BY Widths
<1>1. DOMAIN row = 1..w /\ \A j \in 1..w : row[j] \in Tokens
  BY DEF Row
<1>. PICK ss : ss = [j \in DOMAIN row |-> Field(row[j])]
  OBVIOUS
<1>2. \A j \in 1..w : FieldIsOf(row[j]) /\ Field(row[j]) \in Seq(Tokens)
  BY <1>1, FieldIs, FieldType
<1>3. \A j \in 1..w : Len(Field(row[j])) \in {0, 1}
  <2>1. \A x : FieldIsOf(x) => Len(Field(x)) \in {0, 1}
    BY DEF FieldIsOf
  <2>. QED BY <1>2, <2>1
<1>4. ss \in [1..w -> Seq(Tokens)] /\ \A j \in 1..w : ss[j] = Field(row[j])
  BY <1>1, <1>2
<1>5. Parts(row, ss, w)
  BY <1>1, <1>2, <1>3, <1>4 DEF Parts, FieldsOf
<1>6. w \in Nat /\ w # 0 /\ \A j \in 1..w : Len(ss[j]) \in {0, 1}
  BY <1>3, <1>4
<1>7. Shifted(FlattenSeq(ss), ss, w) /\ FlattenSeq(ss) \in Seq(Tokens)
  BY <1>4, <1>6, FlattenShifts, FlattenType
<1>. QED BY <1>5, <1>7 DEF PartsOf, FieldsOf

(* The first fields that are written as they are.                          *)
LEMMA FirstParts ==
    ASSUME NEW row, NEW ss, NEW w, PartsOf(row, ss, w), NEW k \in 1..w,
           \A j \in 1..k : row[j] \in Kept \cup {EOL}
    PROVE  /\ Len(FieldsOf(row)) >= k /\ \A j \in 1..k : FieldsOf(row)[j] = row[j]
           /\ k = w => Len(FieldsOf(row)) = w
<1>1. w \in Nat /\ ss \in [1..w -> Seq(Tokens)] /\ FieldsOf(row) = FlattenSeq(ss)
  BY DEF PartsOf, Parts
<1>2. \A j \in 1..k : ss[j] = <<row[j]>>
  <2>1. \A j \in 1..k : j \in 1..w
    BY <1>1
  <2>. QED BY <2>1 DEF PartsOf, Parts, FieldIsOf
<1>3. \A j \in 1..k : Len(ss[j]) = 1 /\ ss[j][1] = row[j]
  BY <1>2
<1>4. Starts(FlattenSeq(ss), ss, k) /\ (k = w => Len(FlattenSeq(ss)) = w)
  BY <1>1, <1>3, FlattenStarts
<1>. QED BY <1>1, <1>3, <1>4 DEF Starts

(* A place in the fields of a row holds what the row holds there or        *)
(* behind, or what is left of it.                                          *)
FieldFrom(x, y) ==
    \/ x = y /\ y \in Kept \cup {EOL} /\ (y \in Int => y \in Numbers)
    \/ x = Zeros /\ y \in Int
From(row, fields, p, w) == \E q \in p..w : FieldFrom(fields[p], row[q]) /\ row[q] # 0

LEMMA PlaceFrom ==
    ASSUME NEW row, NEW ss, NEW w, PartsOf(row, ss, w), NEW p \in DOMAIN FieldsOf(row)
    PROVE  p \in 1..w /\ From(row, FieldsOf(row), p, w)
<1>. PICK fields \in Seq(Tokens) : fields = FieldsOf(row) /\ DOMAIN fields = 1..Len(fields)
                                   /\ Len(fields) \in Nat
  BY DEF PartsOf
<1>1. w \in {4, 5} /\ Len(fields) <= w
  BY DEF PartsOf, Parts, Shifted
<1>2. PICK q \in p..w : Len(ss[q]) = 1 /\ ss[q][1] = fields[p]
  BY DEF PartsOf, Shifted
<1>3. p \in 1..w /\ q \in 1..w
  BY <1>1
<1>4. FieldIsOf(row[q]) /\ ss[q] = Field(row[q])
  BY <1>3 DEF PartsOf, Parts
<1>5. ss[q] # <<>>
  BY <1>2
<1>6. FieldFrom(fields[p], row[q])
  <2>1. ss[q] = <<row[q]>> => fields[p] = row[q]
    BY <1>2
  <2>2. ss[q] = <<Zeros>> => fields[p] = Zeros
    BY <1>2
  <2>. QED BY <1>4, <1>5, <2>1, <2>2 DEF FieldIsOf, FieldFrom
<1>7. row[q] # 0
  BY <1>4, <1>5, FieldZero
<1>. QED BY <1>2, <1>3, <1>6, <1>7 DEF From

(* A sound line, long enough to be read: its columns, and no more than a   *)
(* line end behind them.                                                   *)
Columned(t, l, w) ==
    /\ w = Width(t) /\ w \in {4, 5} /\ l \in Seq(Tokens) /\ Len(l) \in {w, w + 1}
    /\ \A j \in DOMAIN l : l[j] = EOL => j = Len(l)
    /\ \A j \in 1..w : l[j] = EOL \/ InColumn(t, j, l[j])
    /\ Len(l) = w + 1 => l[w + 1] = EOL

LEMMA SoundColumns ==
    ASSUME NEW t \in Tables, NEW l \in FileLines, Len(l) >= Width(t), SoundLine(t, l),
           ~Misread(t, l)
    PROVE  Columned(t, l, Width(t))
<1>. PICK w \in {4, 5} : w = Width(t)
  BY Widths
<1>. PICK n \in Nat : n = Len(l) /\ DOMAIN l = 1..n
  BY DEF FileLines
<1>1. l \in Seq(Tokens) /\ n >= w /\ \A j \in 1..n : l[j] = EOL => j = n
  BY DEF FileLines
<1>2. \A j \in 1..n : l[j] = EOL \/ (j <= w /\ InColumn(t, j, l[j]))
  BY DEF SoundLine
<1>3. n \in {w, w + 1}
  <2>1. SUFFICES ASSUME n > w + 1 PROVE FALSE
    BY <1>1
  <2>2. w + 1 \in 1..n /\ w + 1 # n
    BY <2>1
  <2>3. l[w + 1] # EOL
    BY <1>1, <2>2
  <2>4. w + 1 <= w
    BY <1>2, <2>2, <2>3
  <2>. QED BY <2>4
<1>4. \A j \in 1..w : l[j] = EOL \/ InColumn(t, j, l[j])
  BY <1>1, <1>2
<1>5. n = w + 1 => l[w + 1] = EOL
  <2>1. SUFFICES ASSUME n = w + 1, l[w + 1] # EOL PROVE FALSE
    OBVIOUS
  <2>2. w + 1 \in 1..n
    BY <2>1
  <2>3. w + 1 <= w
    BY <1>2, <2>1, <2>2
  <2>. QED BY <2>3
<1>. QED BY <1>1, <1>3, <1>4, <1>5 DEF Columned

(* What a loader makes of a line, and what becomes of the row: it begins   *)
(* as the line does, and is written as the line.                           *)
LoadsLine(t, l, r) ==
    r \in Row(t) /\ \A j \in 1..Width(t) : r[j] = IF Columns[t][j] THEN atoi(l[j]) ELSE l[j]
Returns(t, l, r) ==
    /\ FirmRow(t, r) /\ \A j \in 1..Firm(t) : r[j] = l[j]
    /\ Misread(t, l) \/ LinesOf(r)[1] = Ended(l)

(* But for a line end in the last column, the row is the line.             *)
RowIsLine(t, l, r, w) ==
    /\ \A j \in 1..w : j # w \/ l[w] # EOL => l[j] # EOL /\ r[j] = l[j] /\ r[j] \in Kept
    /\ l[w] = EOL => r[w] \in {0, EOL}
    /\ FirmRow(t, r) /\ \A j \in 1..Firm(t) : r[j] = l[j]

LEMMA LoadsIt ==
    ASSUME NEW t \in Tables, NEW l, NEW w, Columned(t, l, w), NEW r, LoadsLine(t, l, r)
    PROVE  RowIsLine(t, l, r, w)
<1>. w \in {4, 5} /\ w = Width(t)
  BY DEF Columned
<1>1. ASSUME NEW j \in 1..w, j # w \/ l[w] # EOL
      PROVE  /\ l[j] # EOL /\ r[j] = l[j] /\ r[j] \in Kept
             /\ Columns[t][j] => r[j] \in Numbers
  <2>1. j \in DOMAIN l /\ (j = Len(l) => j = w)
    BY DEF Columned
  <2>2. l[j] # EOL
    BY <1>1, <2>1 DEF Columned
  <2>3. InColumn(t, j, l[j])
    BY <2>2 DEF Columned
  <2>4. r[j] = IF Columns[t][j] THEN atoi(l[j]) ELSE l[j]
    BY DEF LoadsLine
  <2>5. CASE Columns[t][j]
    <3>1. l[j] \in Numbers
      BY <2>3, <2>5 DEF InColumn
    <3>2. l[j] \notin Texts
      BY <3>1, NumbersAre
    <3>3. r[j] = l[j]
      BY <2>4, <2>5, <3>2 DEF atoi
    <3>. QED BY <2>2, <3>1, <3>3, NumbersAre
  <2>6. CASE ~Columns[t][j]
    BY <2>2, <2>3, <2>4, <2>6 DEF InColumn
  <2>. QED BY <2>5, <2>6
<1>2. l[w] = EOL => r[w] \in {0, EOL}
  <2>1. w \in 1..w
    OBVIOUS
  <2>2. atoi(EOL) = 0
    BY DEF atoi, Texts
  <2>. QED BY <2>1, <2>2 DEF LoadsLine
<1>3. FirmRow(t, r) /\ \A j \in 1..Firm(t) : r[j] = l[j]
  <2>1. PICK k \in 1..2 : k = Firm(t) /\ k < w /\ \A j \in 1..k : Columns[t][j]
    BY FirmColumns DEF FirmShape
  <2>2. \A j \in 1..k : j \in 1..w /\ j # w
    BY <2>1
  <2>. QED BY <1>1, <2>1, <2>2 DEF FirmRow
<1>. QED BY <1>1, <1>2, <1>3 DEF RowIsLine

(* The line that is written is the line that was read.                     *)
SameLine(a, b) == Len(a) = Len(b) /\ \A j \in 1..Len(a) : a[j] = b[j]
LEMMA LinesSame ==
    ASSUME NEW a \in Seq(Tokens), NEW b \in Seq(Tokens), SameLine(a, b) PROVE a = b
BY SeqEqual DEF SameLine

(* A sequence and one token behind it.                                     *)
OneBehind(b, s, x) ==
    /\ b \in Seq(Tokens) /\ Len(b) = Len(s) + 1 /\ b[Len(s) + 1] = x
    /\ \A j \in 1..Len(s) : b[j] = s[j]
LEMMA Appended ==
    ASSUME NEW s \in Seq(Tokens), NEW x \in Tokens PROVE OneBehind(Append(s, x), s, x)
BY AppendProperties DEF OneBehind

LEMMA RightLine ==
    ASSUME NEW t \in Tables, NEW l \in FileLines, Len(l) >= Width(t), SoundLine(t, l),
           ~Misread(t, l), NEW r, LoadsLine(t, l, r)
    PROVE  Returns(t, l, r)
<1>. PICK w \in {4, 5} : w = Width(t)
  BY Widths
<1>1. Columned(t, l, w)
  BY SoundColumns
<1>2. RowIsLine(t, l, r, w)
  BY <1>1, LoadsIt
<1>3. PICK ss : PartsOf(r, ss, w)
  BY RowParts DEF LoadsLine
<1>. PICK fields \in Seq(Tokens) : fields = FieldsOf(r) /\ DOMAIN fields = 1..Len(fields)
                                   /\ Len(fields) \in Nat
  BY <1>3 DEF PartsOf
<1>. PICK n \in Nat : n = Len(l) /\ DOMAIN l = 1..n /\ n \in {w, w + 1} /\ l \in Seq(Tokens)
  BY <1>1 DEF Columned
<1>4. EOL \in Tokens /\ EOL \notin Kept
  BY NumbersAre DEF Tokens
<1>5. Last(l) = l[n] /\ (fields # <<>> => Last(fields) = fields[Len(fields)])
  BY DEF Last
<1>a. PICK line : line = Append(fields, EOL)
  OBVIOUS
<1>b. OneBehind(line, fields, EOL)
  BY <1>4, <1>a, Appended
<1>6. /\ line \in Seq(Tokens) /\ line = Append(fields, EOL) /\ Len(line) = Len(fields) + 1
      /\ line[Len(fields) + 1] = EOL /\ \A j \in 1..Len(fields) : line[j] = fields[j]
  BY <1>a, <1>b DEF OneBehind
<1>7. CASE l[w] # EOL
  <2>1. w \in 1..w /\ \A j \in 1..w : r[j] \in Kept \cup {EOL} /\ r[j] = l[j] /\ l[j] # EOL
    BY <1>2, <1>7 DEF RowIsLine
  <2>2. Len(fields) = w /\ \A j \in 1..w : fields[j] = l[j]
    <3>1. \A j \in 1..w : r[j] \in Kept \cup {EOL}
      BY <2>1
    <3>2. w \in 1..w
      OBVIOUS
    <3>. QED BY <1>3, <2>1, <3>1, <3>2, FirstParts
  <2>3. LinesOf(r) = <<line>>
    <3>1. Last(fields) # EOL \/ fields = <<>>
      BY <1>5, <2>1, <2>2
    <3>. QED BY <1>6, <3>1 DEF LinesOf, FieldsOf
  <2>4. line = Ended(l)
    <3>1. CASE n = w
      <4>1. Ended(l) = Append(l, EOL)
        BY <1>5, <1>7, <3>1 DEF Ended
      <4>a. PICK e : e = Append(l, EOL)
        OBVIOUS
      <4>b. OneBehind(e, l, EOL)
        BY <1>4, <4>a, Appended
      <4>2. /\ e \in Seq(Tokens) /\ e = Append(l, EOL) /\ Len(e) = n + 1 /\ e[n + 1] = EOL
            /\ \A j \in 1..n : e[j] = l[j]
        BY <4>a, <4>b DEF OneBehind
      <4>3. SameLine(line, e)
        BY <1>6, <2>2, <3>1, <4>2 DEF SameLine
      <4>. QED BY <1>6, <4>1, <4>2, <4>3, LinesSame
    <3>2. CASE n = w + 1
      <4>1. l[n] = EOL
        BY <1>1, <3>2 DEF Columned
      <4>2. Ended(l) = l
        BY <1>5, <4>1 DEF Ended
      <4>3. SameLine(line, l)
        BY <1>6, <2>2, <3>2, <4>1 DEF SameLine
      <4>. QED BY <1>6, <4>2, <4>3, LinesSame
    <3>. QED BY <3>1, <3>2
  <2>. QED BY <1>2, <2>3, <2>4 DEF Returns, RowIsLine
<1>8. CASE l[w] = EOL
  <2>1. n = w /\ Ended(l) = l
    <3>1. w \in DOMAIN l
      OBVIOUS
    <3>2. n = w
      BY <1>1, <1>8, <3>1 DEF Columned
    <3>. QED BY <1>5, <1>8, <3>2 DEF Ended
  <2>. PICK v \in {3, 4} : v = w - 1
    OBVIOUS
  <2>2. \A j \in 1..v : j \in 1..w /\ j # w
    OBVIOUS
  <2>3. \A j \in 1..v : r[j] \in Kept \cup {EOL} /\ r[j] = l[j] /\ l[j] # EOL
    BY <1>2, <2>2 DEF RowIsLine
  <2>4. Len(fields) >= v /\ \A j \in 1..v : fields[j] = l[j]
    <3>1. v \in 1..w /\ \A j \in 1..v : r[j] \in Kept \cup {EOL}
      BY <2>3
    <3>. QED BY <1>3, <2>3, <3>1, FirstParts
  <2>5. CASE r[w] = 0
    <3>1. Len(fields) = v
      <4>1. SUFFICES ASSUME Len(fields) # v PROVE FALSE
        OBVIOUS
      <4>2. Len(fields) <= w
        BY <1>3 DEF PartsOf, Shifted
      <4>3. w \in DOMAIN FieldsOf(r)
        BY <2>4, <4>1, <4>2
      <4>4. From(r, fields, w, w)
        BY <1>3, <4>3, PlaceFrom
      <4>5. r[w] # 0
        BY <4>4 DEF From
      <4>. QED BY <2>5, <4>5
    <3>2. LinesOf(r) = <<line>>
      <4>1. v \in 1..v
        OBVIOUS
      <4>2. Last(fields) # EOL
        BY <1>5, <2>3, <2>4, <3>1, <4>1
      <4>. QED BY <1>6, <4>2 DEF LinesOf, FieldsOf
    <3>3. SameLine(line, l)
      <4>1. Len(line) = w /\ line[w] = l[w] /\ \A j \in 1..v : line[j] = l[j]
        BY <1>6, <1>8, <2>4, <3>1
      <4>2. \A j \in 1..w : j = w \/ j \in 1..v
        OBVIOUS
      <4>. QED BY <2>1, <4>1, <4>2 DEF SameLine
    <3>4. line = l
      BY <1>6, <3>3, LinesSame
    <3>. QED BY <1>2, <2>1, <3>2, <3>4 DEF Returns, RowIsLine
  <2>6. CASE r[w] = EOL
    <3>1. \A j \in 1..w : r[j] \in Kept \cup {EOL} /\ r[j] = l[j]
      <4>1. \A j \in 1..w : j = w \/ j \in 1..v
        OBVIOUS
      <4>. QED BY <1>8, <2>3, <2>6, <4>1
    <3>2. Len(fields) = w /\ \A j \in 1..w : fields[j] = l[j]
      <4>1. w \in 1..w /\ \A j \in 1..w : r[j] \in Kept \cup {EOL}
        BY <3>1
      <4>. QED BY <1>3, <3>1, <4>1, FirstParts
    <3>3. fields = l
      <4>1. SameLine(fields, l)
        BY <2>1, <3>2 DEF SameLine
      <4>. QED BY <4>1, LinesSame
    <3>4. fields # <<>> /\ Last(fields) = EOL
      BY <1>5, <1>8, <2>1, <3>2
    <3>5. LinesOf(r)[1] = fields
      BY <3>4 DEF LinesOf, FieldsOf
    <3>. QED BY <1>2, <2>1, <3>3, <3>5 DEF Returns, RowIsLine
  <2>. QED BY <1>2, <1>8, <2>5, <2>6 DEF RowIsLine
<1>. QED BY <1>7, <1>8

LEMMA LineReturns ==
    ASSUME NEW t \in Tables, NEW l \in FileLines, Len(l) >= Width(t), SoundLine(t, l),
           NEW r, LoadsLine(t, l, r)
    PROVE  Returns(t, l, r)
<1>1. CASE ~Misread(t, l)
  BY <1>1, RightLine
<1>2. CASE Misread(t, l)
  <2>. PICK k \in 1..2 : k = Firm(t) /\ k < Width(t) /\ Width(t) \in {4, 5}
                         /\ \A j \in 1..k : Columns[t][j]
    BY FirmColumns DEF FirmShape
  <2>1. ASSUME NEW j \in 1..k PROVE r[j] = l[j] /\ r[j] \in Numbers
    <3>1. l[j] \in Numbers
      BY DEF SoundLine, FirmRow
    <3>2. l[j] \notin Texts
      BY <3>1, NumbersAre
    <3>3. j \in 1..Width(t)
      OBVIOUS
    <3>4. r[j] = atoi(l[j])
      BY <3>3 DEF LoadsLine
    <3>. QED BY <3>1, <3>2, <3>4 DEF atoi
  <2>. QED BY <1>2, <2>1 DEF Returns, FirmRow
<1>. QED BY <1>1, <1>2

(* What is written of a firm row, or of a blank one, is sound: a field that *)
(* is left out moves the others, but no text into a number's column, or it *)
(* is misread.                                                             *)
LEMMA SoundFields ==
    ASSUME NEW t \in Tables, NEW r \in Row(t), FirmRow(t, r), NEW p \in DOMAIN FieldsOf(r),
           p > Firm(t), NEW x, x = FieldsOf(r)[p]
    PROVE  /\ p <= Width(t)
           /\ \/ InColumn(t, p, x) \/ x = EOL
              \/ Columns[t][p] /\ x = Zeros
              \/ t = Orders /\ p = 3 /\ x \in Texts
<1>. PICK w \in {4, 5} : w = Width(t)
  BY Widths
<1>1. PICK ss : PartsOf(r, ss, w)
  BY RowParts
<1>. PICK k \in 1..2 :
        /\ k = Firm(t) /\ k < w
        /\ \A j \in 1..w : \A q \in j..w :
              Columns[t][j] /\ j > k /\ ~(t = Orders /\ j = 3) => Columns[t][q]
  BY FirmColumns DEF FirmShape
<1>2. p \in 1..w /\ From(r, FieldsOf(r), p, w)
  BY <1>1, PlaceFrom
<1>3. PICK q \in p..w : FieldFrom(x, r[q])
  BY <1>2 DEF From
<1>4. q \in 1..w /\ (Columns[t][p] /\ ~(t = Orders /\ p = 3) => Columns[t][q])
  BY <1>2
<1>5. Columns[t][q] => r[q] \in Int
  BY <1>4 DEF Row
<1>6. x \in Kept \cup {EOL}
  BY <1>3, NumbersAre DEF FieldFrom
<1>7. CASE ~Columns[t][p]
  BY <1>2, <1>6, <1>7 DEF InColumn
<1>8. CASE Columns[t][p] /\ Columns[t][q]
  <2>1. x \in Numbers \/ x = Zeros
    BY <1>3, <1>5, <1>8 DEF FieldFrom
  <2>. QED BY <1>2, <1>8, <2>1 DEF InColumn
<1>9. CASE Columns[t][p] /\ t = Orders /\ p = 3
  <2>1. x \in Numbers \/ x \in Texts
    BY <1>6, NumbersAre DEF Kept
  <2>. QED BY <1>2, <1>9, <2>1 DEF InColumn
<1>. QED BY <1>4, <1>7, <1>8, <1>9

(* The line of the row, with or without a line end of its own.             *)
LineFrom(line, fields) ==
    /\ line \in Seq(Tokens) /\ Len(line) \in {Len(fields), Len(fields) + 1}
    /\ \A p \in DOMAIN line : line[p] = IF p \in DOMAIN fields THEN fields[p] ELSE EOL

LEMMA SoundLineOf ==
    ASSUME NEW t \in Tables, NEW r \in Row(t), FirmRow(t, r),
           NEW line, LineFrom(line, FieldsOf(r))
    PROVE  SoundLine(t, line)
<1>. PICK w \in {4, 5} : w = Width(t)
  BY Widths
<1>. PICK k \in 1..2 : k = Firm(t) /\ k < w /\ \A j \in 1..k : Columns[t][j]
  BY FirmColumns DEF FirmShape
<1>. PICK fields \in Seq(Tokens) : fields = FieldsOf(r) /\ DOMAIN fields = 1..Len(fields)
                                   /\ Len(fields) \in Nat
  BY RowParts DEF PartsOf
<1>. PICK n \in Nat : n = Len(line) /\ DOMAIN line = 1..n
  BY DEF LineFrom
<1>1. \A j \in 1..k : r[j] \in Numbers /\ r[j] \in Kept \cup {EOL} /\ r[j] # EOL
  BY NumbersAre DEF FirmRow
<1>2. Len(fields) >= k /\ \A j \in 1..k : fields[j] = r[j]
  <2>1. PICK ss : PartsOf(r, ss, w)
    BY RowParts
  <2>2. k \in 1..w /\ \A j \in 1..k : r[j] \in Kept \cup {EOL}
    BY <1>1
  <2>. QED BY <2>1, <2>2, FirstParts
<1>3. SUFFICES ASSUME n >= w
      PROVE  /\ \A j \in 1..n : line[j] = EOL \/ j <= w
             /\ FirmRow(t, line)
             /\ Misread(t, line) \/ \A j \in 1..n : line[j] = EOL \/ InColumn(t, j, line[j])
  BY DEF SoundLine
<1>4. \A j \in 1..n : line[j] = IF j \in DOMAIN fields THEN fields[j] ELSE EOL
  BY DEF LineFrom
<1>5. \A j \in 1..k : j \in 1..n /\ j \in 1..Len(fields)
  BY <1>2, <1>3
<1>6. ASSUME NEW j \in 1..n, line[j] # EOL
      PROVE  /\ j <= w /\ (j > k => j \in DOMAIN fields /\ line[j] = fields[j])
             /\ \/ InColumn(t, j, line[j])
                \/ j \in 1..w /\ Columns[t][j] /\ line[j] = Zeros
                \/ t = Orders /\ j = 3 /\ line[j] \in Texts
  <2>1. j \in DOMAIN fields /\ line[j] = fields[j]
    BY <1>4, <1>6
  <2>2. CASE j \in 1..k
    <3>1. line[j] \in Numbers
      BY <1>1, <1>2, <2>1, <2>2
    <3>. QED BY <2>1, <2>2, <3>1 DEF InColumn
  <2>3. CASE j > k
    <3>1. PICK x : x = FieldsOf(r)[j]
      OBVIOUS
    <3>2. j \in DOMAIN FieldsOf(r) /\ j > Firm(t)
      BY <2>1, <2>3
    <3>3. /\ j <= Width(t)
          /\ \/ InColumn(t, j, x) \/ x = EOL
             \/ Columns[t][j] /\ x = Zeros
             \/ t = Orders /\ j = 3 /\ x \in Texts
      BY <3>1, <3>2, SoundFields
    <3>. QED BY <1>6, <2>1, <3>1, <3>3
  <2>. QED BY <2>2, <2>3
<1>7. ASSUME NEW j \in 1..k PROVE line[j] \in Numbers
  <2>1. j \in 1..n /\ j \in 1..Len(fields) /\ fields[j] = r[j]
    BY <1>2, <1>5
  <2>. QED BY <1>1, <1>4, <2>1
<1>8. FirmRow(t, line)
  BY <1>7 DEF FirmRow
<1>9. ASSUME NEW j \in 1..n, line[j] # EOL, ~InColumn(t, j, line[j])
      PROVE  Misread(t, line)
  <2>1. j \in DOMAIN line /\ Token(line, j) = line[j]
    BY DEF Token
  <2>2. \/ j \in 1..w /\ Columns[t][j] /\ line[j] = Zeros
        \/ t = Orders /\ j = 3 /\ line[j] \in Texts
    BY <1>6, <1>9
  <2>3. DOMAIN Columns[t] = 1..w
    BY Widths
  <2>4. CASE j \in 1..w /\ Columns[t][j] /\ line[j] = Zeros
    BY <2>1, <2>3, <2>4 DEF Misread
  <2>5. CASE t = Orders /\ j = 3 /\ line[j] \in Texts
    BY <2>1, <2>5 DEF Misread, Bought
  <2>. QED BY <2>2, <2>4, <2>5
<1>. QED BY <1>6, <1>8, <1>9

SoundLines(t) == {l \in EndedLines : SoundLine(t, l)}

LEMMA SoundRow ==
    ASSUME NEW t \in Tables, NEW r \in Row(t), FirmRow(t, r) \/ r = BlankRow(t)
    PROVE  LinesOf(r) \in Seq(SoundLines(t))
<1>. PICK w \in {4, 5} : w = Width(t)
  BY Widths
<1>. PICK fields : fields = FieldsOf(r)
  OBVIOUS
<1>1. fields \in Seq(Tokens) /\ DOMAIN fields = 1..Len(fields) /\ Len(fields) \in Nat
  BY RowParts DEF PartsOf
<1>2. LinesOf(r) \in Seq(EndedLines)
  BY LinesOfType
<1>3. EOL \in Tokens
  BY NumbersAre DEF Tokens
<1>. PICK line : line = Append(fields, EOL)
  OBVIOUS
<1>4. OneBehind(line, fields, EOL)
  BY <1>1, <1>3, Appended
<1>5. Len(line) = Len(fields) + 1 /\ DOMAIN line = 1..(Len(fields) + 1)
  BY <1>1, <1>4 DEF OneBehind
<1>6. SoundLine(t, <<EOL>>)
  BY DEF SoundLine
<1>7. SoundLine(t, line) /\ SoundLine(t, fields)
  <2>1. CASE FirmRow(t, r)
    <3>1. LineFrom(fields, fields)
      BY <1>1 DEF LineFrom
    <3>2. LineFrom(line, fields)
      <4>1. \A p \in 1..(Len(fields) + 1) : p = Len(fields) + 1 \/ p \in 1..Len(fields)
        BY <1>1
      <4>2. Len(fields) + 1 \notin 1..Len(fields)
        BY <1>1
      <4>. QED BY <1>1, <1>4, <1>5, <4>1, <4>2 DEF LineFrom, OneBehind
    <3>. QED BY <2>1, <3>1, <3>2, SoundLineOf
  <2>2. CASE r = BlankRow(t)
    <3>1. DOMAIN r = 1..w /\ \A j \in 1..w : Field(r[j]) = <<>>
      <4>1. DOMAIN r = 1..w /\ \A j \in 1..w : r[j] = 0 \/ r[j] = NoText
        BY <2>2, Widths DEF BlankRow
      <4>2. Field(NoText) = <<>>
        BY TextsAssumption DEF Field, Texts
      <4>. QED BY <4>1, <4>2, FieldZero
    <3>2. [j \in DOMAIN r |-> Field(r[j])] \in [1..w -> {<<>>}]
      BY <3>1
    <3>3. fields = <<>>
      BY <3>2, FlattenNothing DEF FieldsOf
    <3>4. Len(fields) = 0
      BY <3>3
    <3>. QED BY <1>5, <3>4 DEF SoundLine
  <2>. QED BY <2>1, <2>2
<1>8. LinesOf(r) = <<fields, <<EOL>>>> \/ LinesOf(r) = <<line>>
  BY DEF LinesOf, FieldsOf
<1>9. CASE LinesOf(r) = <<line>>
  <2>1. line \in EndedLines
    BY <1>2, <1>9
  <2>2. line \in SoundLines(t)
    BY <1>7, <2>1 DEF SoundLines
  <2>. QED BY <1>9, <2>2
<1>10. CASE LinesOf(r) = <<fields, <<EOL>>>>
  <2>1. fields \in EndedLines /\ <<EOL>> \in EndedLines
    BY <1>2, <1>10
  <2>2. fields \in SoundLines(t) /\ <<EOL>> \in SoundLines(t)
    BY <1>6, <1>7, <2>1 DEF SoundLines
  <2>. QED BY <1>10, <2>2
<1>. QED BY <1>8, <1>9, <1>10

(* A write-back is of sound lines, and has the first line of each row that *)
(* it gets to.                                                             *)
LEMMA WrittenSound ==
    ASSUME NEW t \in Tables, NEW rows \in Seq(Row(t)), FirmRows(t, rows), NEW n \in Nat
    PROVE  SoundFile(t, Written(t, rows, n))
<1>. PICK ss : ss = [i \in 1..n |-> LinesOf(RowAt(t, rows, i))]
  OBVIOUS
<1>1. \A i : RowAt(t, rows, i) \in Row(t)
             /\ (FirmRow(t, RowAt(t, rows, i)) \/ RowAt(t, rows, i) = BlankRow(t))
  BY RowAtType DEF RowAt, FirmRows
<1>2. ss \in [1..n -> Seq(SoundLines(t))]
  BY <1>1, SoundRow
<1>3. FlattenSeq(ss) \in Seq(SoundLines(t))
  BY <1>2, FlattenType
<1>4. Written(t, rows, n) \in Seq(SoundLines(t))
  BY <1>3 DEF Written
<1>. QED BY <1>4 DEF SoundFile, SoundLines

LEMMA WrittenHas ==
    ASSUME NEW t \in Tables, NEW rows \in Seq(Row(t)), NEW n \in Nat, n # 0,
           NEW k \in DOMAIN rows, k <= n
    PROVE  LinesOf(rows[k])[1] \in ToSet(Written(t, rows, n))
<1>. PICK ss : ss = [i \in 1..n |-> LinesOf(RowAt(t, rows, i))]
  OBVIOUS
<1>1. ss \in [1..n -> Seq(EndedLines)]
  BY RowAtType, LinesOfType
<1>2. k \in 1..n /\ ss[k] = LinesOf(rows[k])
  BY DEF RowAt
<1>3. 1 \in DOMAIN ss[k]
  <2>1. LinesOf(rows[k]) # <<>>
    BY DEF LinesOf
  <2>2. LinesOf(rows[k]) \in Seq(EndedLines)
    BY LinesOfType
  <2>. QED BY <1>2, <2>1, <2>2
<1>4. ss[k][1] \in ToSet(FlattenSeq(ss))
  BY <1>1, <1>2, <1>3, FlattenHas
<1>. QED BY <1>2, <1>4 DEF Written

----------------------------------------------------------------------------
(* What the commands leave alone *)

AllFirm(t, rows) == \A i \in DOMAIN rows : FirmRow(t, rows[i])

(* A row that a command leaves as it is stays in its place, or moves up.   *)
Stays(new, old, i) == \E k \in DOMAIN new : k <= i /\ new[k] = old[i]

LEMMA FirmIds ==
    ASSUME NEW t \in Tables, NEW rows, AllFirm(t, rows)
    PROVE  HaveIds(rows) /\ FirmRows(t, rows)
<1>1. 1 \in 1..Firm(t)
  BY FirmColumns DEF FirmShape
<1>. QED BY <1>1 DEF AllFirm, FirmRow, FirmRows, HaveIds, Id

(* The searches for a zero go through firm rows to their end.              *)
LEMMA NoZero ==
    ASSUME NEW t \in Tables, NEW rows \in Seq(Row(t)), NEW j \in 1..Width(t), Columns[t][j],
           \A i \in DOMAIN rows : rows[i][j] # 0
    PROVE  FirstZero(t, rows, j) = Len(rows) + 1
<1>1. Len(rows) \in Nat /\ DOMAIN rows = 1..Len(rows) /\ Len(rows) + 1 \notin DOMAIN rows
  OBVIOUS
<1>2. RowAt(t, rows, Len(rows) + 1)[j] = 0
  BY <1>1, Widths DEF RowAt, BlankRow
<1>3. \A i \in 1..Len(rows) : rows[i][j] # 0 /\ RowAt(t, rows, i)[j] # 0
  BY DEF RowAt
<1> DEFINE P(i) == RowAt(t, rows, i)[j] = 0 /\ \A k \in 1..(i - 1) : rows[k][j] # 0
<1>4. P(Len(rows) + 1) /\ Len(rows) + 1 \in 1..(Len(rows) + 1)
  BY <1>1, <1>2, <1>3
<1>5. \A i \in 1..(Len(rows) + 1) : P(i) => i = Len(rows) + 1
  BY <1>1, <1>3
<1> HIDE DEF P
<1>6. (CHOOSE i \in 1..(Len(rows) + 1) : P(i)) = Len(rows) + 1
  BY <1>4, <1>5
<1>. QED BY <1>6 DEF FirstZero, P

LEMMA FirmNoGap ==
    ASSUME NEW t \in Tables, NEW rows \in Seq(Row(t)), AllFirm(t, rows)
    PROVE  /\ FreeRow(t, rows) = Len(rows) + 1 /\ UpToFree(t, rows) = rows
           /\ \A row : PutRow(t, rows, row) = Append(rows, row)
<1>1. Len(rows) \in Nat /\ Len(rows) + 1 - 1 = Len(rows) /\ Len(rows) + 1 > Len(rows)
  OBVIOUS
<1>2. \A i \in DOMAIN rows : rows[i][Id] # 0
  BY FirmIds DEF HaveIds, Numbers
<1>3. Id \in 1..Width(t) /\ Columns[t][Id]
  BY Widths DEF Id
<1>4. FreeRow(t, rows) = Len(rows) + 1
  BY <1>2, <1>3, NoZero DEF FreeRow
<1>5. SubSeq(rows, 1, Len(rows)) = rows
  OBVIOUS
<1>6. UpToFree(t, rows) = rows
  BY <1>1, <1>4, <1>5 DEF UpToFree
<1>7. \A row : PutRow(t, rows, row) = Append(rows, row)
  BY <1>1, <1>4, Zenon DEF PutRow
<1>. QED BY <1>4, <1>6, <1>7

(* A column behind the firm ones is set, in one row.                       *)
AllStayBut(t, new, rows, i) ==
    AllFirm(t, new) /\ \A k \in DOMAIN rows : k # i => Stays(new, rows, k)

LEMMA SetFirm ==
    ASSUME NEW t \in Tables, NEW rows \in Seq(Row(t)), AllFirm(t, rows), NEW i \in DOMAIN rows,
           NEW j, j \notin 1..Firm(t), NEW v
    PROVE  AllStayBut(t, [rows EXCEPT ![i][j] = v], rows, i)
<1>. PICK new : new = [rows EXCEPT ![i][j] = v]
  OBVIOUS
<1>. PICK f \in 1..2 : f = Firm(t) /\ f < Width(t) /\ Width(t) \in Nat
  BY FirmColumns DEF FirmShape
<1>1. DOMAIN new = DOMAIN rows /\ \A k \in DOMAIN rows : k # i => new[k] = rows[k]
  OBVIOUS
<1>2. new[i] = [rows[i] EXCEPT ![j] = v] /\ rows[i] \in Row(t)
  OBVIOUS
<1>3. FirmRow(t, new[i])
  <2>1. ASSUME NEW m \in 1..f PROVE new[i][m] \in Numbers
    <3>1. m \in DOMAIN rows[i] /\ m # j
      BY <1>2 DEF Row
    <3>2. new[i][m] = rows[i][m]
      BY <1>2, <3>1
    <3>. QED BY <3>2 DEF AllFirm, FirmRow
  <2>. QED BY <2>1 DEF FirmRow
<1>4. AllFirm(t, new)
  BY <1>1, <1>3 DEF AllFirm
<1>5. \A k \in DOMAIN rows : k # i => Stays(new, rows, k)
  <2>1. \A k \in DOMAIN rows : k <= k
    OBVIOUS
  <2>. QED BY <1>1, <2>1 DEF Stays
<1>. QED BY <1>4, <1>5 DEF AllStayBut

(* A firm row is put behind the others.                                    *)
LEMMA AddFirm ==
    ASSUME NEW t \in Tables, NEW rows \in Seq(Row(t)), AllFirm(t, rows),
           NEW row \in Row(t), FirmRow(t, row)
    PROVE  LET new == PutRow(t, rows, row) IN
           /\ new \in Seq(Row(t)) /\ AllFirm(t, new) /\ Len(new) = Len(rows) + 1
           /\ \A k \in DOMAIN rows : k \in DOMAIN new /\ new[k] = rows[k]
<1>. PICK new : new = PutRow(t, rows, row)
  OBVIOUS
<1>1. new = Append(rows, row)
  BY FirmNoGap
<1>2. /\ Len(new) = Len(rows) + 1 /\ new[Len(rows) + 1] = row /\ new \in Seq(Row(t))
      /\ \A k \in 1..Len(rows) : new[k] = rows[k]
  BY <1>1, AppendProperties
<1>3. Len(rows) \in Nat /\ DOMAIN rows = 1..Len(rows) /\ DOMAIN new = 1..(Len(rows) + 1)
  BY <1>2
<1>4. \A k \in 1..(Len(rows) + 1) : k = Len(rows) + 1 \/ k \in 1..Len(rows)
  OBVIOUS
<1>5. AllFirm(t, new)
  BY <1>2, <1>3, <1>4 DEF AllFirm
<1>6. \A k \in 1..Len(rows) : k \in 1..(Len(rows) + 1)
  OBVIOUS
<1>. QED BY <1>2, <1>3, <1>5, <1>6

(* Rows that stay are in the same place.                                   *)
LEMMA SamePlace ==
    ASSUME NEW S, NEW rows \in Seq(S), NEW new, NEW i \in DOMAIN rows, i \in DOMAIN new,
           new[i] = rows[i]
    PROVE  Stays(new, rows, i)
<1>1. i <= i
  OBVIOUS
<1>. QED BY <1>1 DEF Stays

(* Of the rows that are kept none moves down.                              *)
LEMMA WithoutStays ==
    ASSUME NEW S, NEW n \in Nat, NEW rows \in [1..n -> S], NEW j, NEW v,
           NEW i \in 1..n, rows[i][j] # v
    PROVE  Stays(Without(rows, j, v), rows, i)
<1>1. PICK g : Keeps(g, rows, j, v, n, S)
  BY WithoutSteps
<1> DEFINE Good(m) == Len(g[m]) <= m /\ (m >= i => Stays(g[m], rows, i))
           G == {m \in 0..n : Good(m)}
<1>2. ASSUME NEW m \in 1..n, m - 1 \in G PROVE m \in G
  <2>1. PICK l \in Nat : l = m - 1 /\ m = l + 1 /\ l \in 0..n /\ m \in 0..n
    OBVIOUS
  <2>2. PICK old \in Seq(S) : old = g[l]
    BY <1>1, <2>1 DEF Keeps
  <2>3. Len(old) <= l /\ (l >= i => Stays(old, rows, i))
    BY <1>2, <2>1, <2>2
  <2>4. CASE rows[m][j] = v
    <3>1. g[m] = old
      BY <1>1, <2>1, <2>2, <2>4 DEF Keeps
    <3>2. m # i
      BY <2>4
    <3>3. Len(old) <= m /\ (m >= i => l >= i)
      BY <2>1, <2>3, <3>2
    <3>. QED BY <2>1, <2>3, <3>1, <3>3
  <2>5. CASE rows[m][j] # v
    <3>. PICK new : new = Append(old, rows[m])
      OBVIOUS
    <3>1. g[m] = new
      BY <1>1, <2>1, <2>2, <2>5 DEF Keeps
    <3>. PICK k0 \in Nat : k0 = Len(old) /\ DOMAIN old = 1..k0
      OBVIOUS
    <3>2. /\ DOMAIN new = 1..(k0 + 1) /\ new[k0 + 1] = rows[m] /\ Len(new) = k0 + 1
          /\ \A k \in 1..k0 : new[k] = old[k]
      BY AppendProperties
    <3>3. Len(new) <= m
      BY <2>1, <2>3, <3>2
    <3>4. ASSUME m >= i PROVE Stays(new, rows, i)
      <4>1. CASE m = i
        <5>1. k0 + 1 \in DOMAIN new /\ k0 + 1 <= i
          BY <2>1, <2>3, <3>2, <4>1
        <5>. QED BY <3>2, <4>1, <5>1 DEF Stays
      <4>2. CASE m # i
        <5>1. l >= i
          BY <2>1, <3>4, <4>2
        <5>2. PICK k \in 1..k0 : k <= i /\ old[k] = rows[i]
          BY <2>3, <5>1 DEF Stays
        <5>3. k \in DOMAIN new /\ new[k] = rows[i]
          BY <3>2, <5>2
        <5>. QED BY <5>2, <5>3 DEF Stays
      <4>. QED BY <4>1, <4>2
    <3>. QED BY <2>1, <3>1, <3>3, <3>4
  <2>. QED BY <2>4, <2>5
<1>3. 0 \in G
  <2>1. g[0] = <<>> /\ Len(<<>>) = 0 /\ 0 \in 0..n /\ ~(0 >= i)
    BY <1>1 DEF Keeps
  <2>. QED BY <2>1
<1>4. n \in G
  <2> HIDE DEF G
  <2>. QED BY <1>2, <1>3, Upwards
<1>5. n >= i
  OBVIOUS
<1>. QED BY <1>1, <1>4, <1>5 DEF Keeps

(* The command is about this row, or a line that begins as it does.        *)
Meant(cmd, t, made, ids, l) ==
    \/ t = Product /\ cmd.op = "DELETE_PROD" /\ made = <<>>
    \/ t = Product /\ cmd.op \in ProductOps \ {"NEW_PRODUCT"} /\ l[Id] = cmd.item
    \/ t = Product /\ cmd.op = "COMPLETE_ORDER"
         /\ \E i \in DOMAIN cmd.lines : cmd.lines[i].item = l[Id]
    \/ t = Orders /\ cmd.op = "MOD_ORDER" /\ l[Item] = cmd.item
    \/ t = Billing /\ cmd.op = "MOD_ORDER" /\ l[Id] = cmd.order
    \/ cmd.op = "EDIT_ROW" /\ l[Id] = cmd.buyer
    \/ cmd.op = "EDIT_INFO" /\ t = Customer /\ l[Id] = cmd.buyer
    \/ cmd.op = "EDIT_INFO" /\ t = Billing /\ l[Buyer] = cmd.buyer
    \/ cmd.op = "EDIT_INFO" /\ t = Orders /\ l[Id] \in ids

(* The others stay, and all are firm, or blank as the row a seller skips.  *)
Careful(cmd, t, new, ids, old) ==
    /\ FirmRows(t, new)
    /\ \A i \in DOMAIN old : Meant(cmd, t, new, ids, old[i]) \/ Stays(new, old, i)

(* One line of an order takes nothing from another product.                *)
LEMMA DeductedStays ==
    ASSUME NEW lines \in Seq(OrderLine), NEW products \in Seq(Row(Product)),
           \A m \in DOMAIN lines : Has(products, lines[m].item),
           NEW i \in DOMAIN products, \A m \in DOMAIN lines : lines[m].item # products[i][Id]
    PROVE  Stays(Deducted(lines, products), products, i)
<1>. PICK n \in Nat : n = Len(lines) /\ DOMAIN lines = 1..n
  OBVIOUS
<1>0. PICK g : DeductedUpTo(g, lines, products)
  BY DeductedSteps
<1>1. /\ g[0] = products /\ Deducted(lines, products) = g[n]
      /\ \A m \in 1..n : g[m] = DeductLine(g[m-1], lines[m])
  BY <1>0 DEF DeductedUpTo
<1> DEFINE Good(rows) == /\ rows \in Seq(Row(Product)) /\ SameIds(rows, products)
                         /\ rows[i] = products[i]
           G == {m \in 0..n : Good(g[m])}
<1>2. ASSUME NEW m \in 1..n, m - 1 \in G PROVE m \in G
  <2>a. PICK rows : rows = g[m-1]
    OBVIOUS
  <2>b. PICK l \in OrderLine : l = lines[m]
    OBVIOUS
  <2>1. rows \in Seq(Row(Product)) /\ SameIds(rows, products) /\ rows[i] = products[i]
    BY <1>2, <2>a
  <2>2. Has(rows, l.item)
    <3>1. Has(products, l.item)
      BY <2>b
    <3>. QED BY <2>1, <3>1 DEF Has, SameIds
  <2>3. PICK k : k = RowOf(rows, l.item)
    OBVIOUS
  <2>4. k \in DOMAIN rows /\ rows[k][Id] = l.item
    BY <2>1, <2>2, <2>3, RowOfIs
  <2>5. k # i
    BY <2>b, <2>1, <2>4
  <2>6. PICK v : v = rows[k][4] - l.quantity
    OBVIOUS
  <2>7. PICK new : new = DeductLine(rows, l)
    OBVIOUS
  <2>8. new = [rows EXCEPT ![k][4] = v]
    BY <2>3, <2>6, <2>7 DEF DeductLine, Quantity
  <2>9. new[i] = rows[i]
    BY <2>1, <2>5, <2>8 DEF SameIds
  <2>10. SameIds(new, rows)
    BY <2>1, <2>8, SetKeepsIds, TablesAre
  <2>11. new \in Seq(Row(Product)) /\ g[m] = new
    BY <1>1, <2>a, <2>b, <2>1, <2>7, DeductLineType
  <2>12. SameIds(new, products)
    BY <2>1, <2>10 DEF SameIds
  <2>13. m \in 0..n
    OBVIOUS
  <2>. QED BY <2>1, <2>9, <2>11, <2>12, <2>13
<1>3. 0 \in G
  BY <1>1 DEF SameIds
<1>4. n \in G
  <2> HIDE DEF G
  <2>. QED BY <1>2, <1>3, Upwards
<1>5. i \in DOMAIN g[n] /\ g[n][i] = products[i]
  BY <1>4 DEF SameIds
<1>. QED BY <1>1, <1>5, SamePlace

(* The lines of an order that passed are of products there are.            *)
LEMMA ItemsAre ==
    ASSUME NEW lines, NEW products \in Seq(Row(Product)), AllFirm(Product, products),
           validateBuyerOrder(lines, products), NEW i \in DOMAIN lines
    PROVE  Has(products, lines[i].item) /\ lines[i].item \in Numbers
<1>1. UpToFree(Product, products) = products
  BY FirmNoGap, TablesAre
<1>2. Has(products, lines[i].item)
  BY <1>1 DEF validateBuyerOrder
<1>3. HaveIds(products)
  BY FirmIds, TablesAre
<1>. QED BY <1>2, <1>3 DEF Has, HaveIds

(* A row of which the id is set nowhere keeps what a firm row of products  *)
(* or of clients needs.                                                    *)
LEMMA OneFirm ==
    ASSUME NEW t \in {Product, Customer, Sellers}, NEW rows, HaveIds(rows)
    PROVE  AllFirm(t, rows) /\ FirmRows(t, rows)
<1>1. Firm(t) = 1
  BY ColumnsAre DEF Firm
<1>2. \A j \in 1..1 : j = 1
  OBVIOUS
<1>. QED BY <1>1, <1>2 DEF HaveIds, AllFirm, FirmRow, FirmRows, Id

LEMMA CarefulProducts ==
    ASSUME NEW cmd \in Commands, cmd.op # "VIEW", NEW id \in Numbers,
           NEW rows, RowsOfTables(rows), AllFirm(Product, rows[Product]),
           cmd.op = "COMPLETE_ORDER" => validateBuyerOrder(cmd.lines, rows[Product]),
           Product \in DOMAIN Changed(cmd, id, rows), NEW ids
    PROVE  Careful(cmd, Product, Changed(cmd, id, rows)[Product], ids, rows[Product])
<1>. PICK old : old = rows[Product]
  OBVIOUS
<1>. PICK new : new = Changed(cmd, id, rows)[Product]
  OBVIOUS
<1>1. old \in Seq(Row(Product)) /\ HaveIds(old) /\ AllFirm(Product, old)
  BY TablesAre, FirmIds DEF RowsOfTables, Typed
<1>2. FirmRows(Product, new)
  BY <1>1, ProductsHaveIds, OneFirm
<1>3. UpToFree(Product, old) = old
  BY <1>1, FirmNoGap, TablesAre
<1>4. cmd.op \in {"COMPLETE_ORDER", "MOD_ORDER", "EDIT_INFO", "EDIT_ROW", "NEW_CLIENT",
                  "NEW_PRODUCT", "DELETE_PROD", "MOD_QUANT", "MOD_PRICE"}
  BY RequestFields
<1>. SUFFICES ASSUME NEW i \in DOMAIN old
              PROVE  Meant(cmd, Product, new, ids, old[i]) \/ Stays(new, old, i)
  BY <1>2 DEF Careful
<1>5. CASE cmd.op = "COMPLETE_ORDER"
  <2>1. new = Deducted(cmd.lines, old) /\ cmd.lines \in Seq(OrderLine)
    BY <1>5, OrderMakes, RequestFields DEF OrderLine
  <2>2. \A m \in DOMAIN cmd.lines : Has(old, cmd.lines[m].item)
    BY <1>1, <1>5, ItemsAre
  <2>3. CASE \E m \in DOMAIN cmd.lines : cmd.lines[m].item = old[i][Id]
    BY <1>5, <2>3 DEF Meant
  <2>4. CASE \A m \in DOMAIN cmd.lines : cmd.lines[m].item # old[i][Id]
    BY <1>1, <2>1, <2>2, <2>4, DeductedStays
  <2>. QED BY <2>3, <2>4
<1>6. CASE cmd.op = "NEW_PRODUCT"
  <2>. PICK row : row = <<id, cmd.name, cmd.seller, cmd.quantity, cmd.price>>
    OBVIOUS
  <2>1. new = PutRow(Product, old, row)
    BY <1>6 DEF Changed, NewProduct
  <2>2. row \in Row(Product) /\ row[1] = id
    <3>1. id \in Int
      BY DEF Numbers
    <3>. QED BY <1>6, <3>1, RequestFields, RowTuples, IntsArePlain
  <2>3. FirmRow(Product, row)
    BY <2>2, ColumnsAre DEF FirmRow, Firm
  <2>4. i \in DOMAIN new /\ new[i] = old[i]
    BY <1>1, <2>1, <2>2, <2>3, AddFirm, TablesAre
  <2>. QED BY <1>1, <2>4, SamePlace
<1>7. CASE cmd.op = "DELETE_PROD"
  <2>1. new = deleteProduct(cmd, old)
    BY <1>7 DEF Changed
  <2>2. CASE ~IsOwner(cmd, old)
    BY <1>7, <2>1, <2>2 DEF deleteProduct, Meant
  <2>3. CASE IsOwner(cmd, old)
    <3>1. new = Without(old, Id, cmd.item)
      BY <1>3, <2>1, <2>3 DEF deleteProduct
    <3>2. CASE old[i][Id] = cmd.item
      BY <1>7, <3>2 DEF Meant, ProductOps
    <3>3. CASE old[i][Id] # cmd.item
      <4>. PICK n \in Nat : n = Len(old) /\ DOMAIN old = 1..n /\ old \in [1..n -> Row(Product)]
        BY <1>1
      <4>. QED BY <3>1, <3>3, WithoutStays
    <3>. QED BY <3>2, <3>3
  <2>. QED BY <2>2, <2>3
<1>8. CASE cmd.op \in {"MOD_QUANT", "MOD_PRICE"}
  <2>1. PICK j \in {4, 5} : \E v : new = Modified(cmd, old, j, v)
    BY <1>8 DEF Changed, Quantity, Price
  <2>2. PICK v : new = Modified(cmd, old, j, v)
    BY <2>1
  <2>3. CASE ~IsOwner(cmd, old)
    BY <1>1, <2>2, <2>3, SamePlace DEF Modified
  <2>4. CASE IsOwner(cmd, old)
    <3>. PICK k : k = RowOf(old, cmd.item)
      OBVIOUS
    <3>1. new = [old EXCEPT ![k][j] = v]
      BY <2>2, <2>4 DEF Modified
    <3>2. Has(old, cmd.item)
      BY <1>3, <2>4 DEF IsOwner
    <3>3. k \in DOMAIN old /\ old[k][Id] = cmd.item
      BY <1>1, <3>2, RowOfIs
    <3>4. CASE i = k
      BY <1>8, <3>3, <3>4 DEF Meant, ProductOps
    <3>5. CASE i # k
      <4>1. i \in DOMAIN new /\ new[i] = old[i]
        BY <3>1, <3>5
      <4>. QED BY <1>1, <4>1, SamePlace
    <3>. QED BY <3>4, <3>5
  <2>. QED BY <2>3, <2>4
<1>9. CASE cmd.op \in {"MOD_ORDER", "EDIT_INFO", "EDIT_ROW", "NEW_CLIENT"}
  <2>1. Product \notin DOMAIN Changed(cmd, id, rows)
    <3>1. cmd.op \in {"EDIT_ROW", "NEW_CLIENT"} => cmd.table \in {Customer, Sellers}
      BY RequestFields
    <3>. QED BY <1>9, <3>1, ColumnsAre DEF Changed, buyerEdits, buyerModifiesOrder
  <2>. QED BY <2>1
<1>. QED BY <1>4, <1>5, <1>6, <1>7, <1>8, <1>9

(* The buyer of an order has a number.                                     *)
LEMMA BuyerIs ==
    ASSUME NEW rows, AllFirm(Customer, rows), NEW buyer, Has(rows, buyer) PROVE buyer \in Numbers
<1>1. HaveIds(rows)
  BY FirmIds, TablesAre
<1>. QED BY <1>1 DEF Has, HaveIds

(* A new name changes no number that a bill or an order line begins with.  *)
LEMMA RenamedStays ==
    ASSUME NEW t \in {Billing, Orders}, NEW rows \in Seq(Row(t)), AllFirm(t, rows), NEW name,
           NEW ids, NEW column
    PROVE  LET new == Renamed(t, rows, name, ids, column) IN
           /\ AllFirm(t, new) /\ DOMAIN new = DOMAIN rows
           /\ \A i \in DOMAIN rows : \A j \in 1..Firm(t) : new[i][j] = rows[i][j]
           /\ \A i \in DOMAIN rows : rows[i][column] \in ids \/ Stays(new, rows, i)
<1>. PICK new : new = Renamed(t, rows, name, ids, column)
  OBVIOUS
<1>1. t \in Tables
  BY TablesAre
<1>. PICK k \in 1..2 : k = Firm(t) /\ k < Width(t) /\ Width(t) \in Nat
  BY <1>1, FirmColumns DEF FirmShape
<1>2. Who[t] \notin 1..k
  BY ColumnsAre DEF Firm
<1>3. DOMAIN new = DOMAIN rows
  BY DEF Renamed
<1>4. ASSUME NEW i \in DOMAIN rows
      PROVE  /\ new[i] = rows[i] \/ new[i] = [rows[i] EXCEPT ![Who[t]] = name]
             /\ rows[i][column] \notin ids => new[i] = rows[i]
  BY DEF Renamed
<1>5. \A i \in DOMAIN rows : \A j \in 1..k : new[i][j] = rows[i][j]
  <2>1. ASSUME NEW i \in DOMAIN rows, NEW j \in 1..k PROVE new[i][j] = rows[i][j]
    <3>1. rows[i] \in Row(t)
      OBVIOUS
    <3>2. j \in DOMAIN rows[i] /\ j # Who[t]
      BY <1>2, <3>1 DEF Row
    <3>. QED BY <1>4, <3>2
  <2>. QED BY <2>1
<1>6. AllFirm(t, new)
  BY <1>3, <1>5 DEF AllFirm, FirmRow
<1>7. \A i \in DOMAIN rows : rows[i][column] \in ids \/ Stays(new, rows, i)
  <2>1. ASSUME NEW i \in DOMAIN rows, rows[i][column] \notin ids PROVE Stays(new, rows, i)
    <3>1. i \in DOMAIN new /\ new[i] = rows[i]
      BY <1>3, <1>4, <2>1
    <3>. QED BY <3>1, SamePlace
  <2>. QED BY <2>1
<1>. QED BY <1>3, <1>5, <1>6, <1>7

LEMMA CarefulBills ==
    ASSUME NEW cmd \in Commands, cmd.op \in BillOps, NEW id \in Numbers,
           NEW rows, RowsOfTables(rows),
           AllFirm(Billing, rows[Billing]), AllFirm(Customer, rows[Customer]),
           cmd.op = "COMPLETE_ORDER" => Has(rows[Customer], cmd.buyer),
           Billing \in DOMAIN Changed(cmd, id, rows), NEW ids
    PROVE  Careful(cmd, Billing, Changed(cmd, id, rows)[Billing], ids, rows[Billing])
<1>. PICK old : old = rows[Billing]
  OBVIOUS
<1>. PICK new : new = Changed(cmd, id, rows)[Billing]
  OBVIOUS
<1>1. old \in Seq(Row(Billing)) /\ AllFirm(Billing, old) /\ rows[Customer] \in Seq(Row(Customer))
  BY TablesAre DEF RowsOfTables, Typed
<1>2. Firm(Billing) = 2
  BY ColumnsAre DEF Firm
<1>3. SUFFICES AllFirm(Billing, new)
               /\ \A i \in DOMAIN old : Meant(cmd, Billing, new, ids, old[i]) \/ Stays(new, old, i)
  BY FirmIds, TablesAre DEF Careful
<1>4. CASE cmd.op = "COMPLETE_ORDER"
  <2>. PICK who : who = rows[Customer][RowOf(rows[Customer], cmd.buyer)][Who[Customer]]
    OBVIOUS
  <2>. PICK row : row = Bill(cmd, id, who)
    OBVIOUS
  <2>1. new = PutRow(Billing, old, row)
    BY <1>4, OrderMakes
  <2>2. row \in Row(Billing) /\ row[1] = id /\ row[2] = cmd.buyer
    <3>1. who \in Plain
      BY <1>1, <1>4, BuyerIsPlain
    <3>2. cmd.buyer \in Int /\ cmd.lines \in Seq(OrderLine)
      BY <1>4, RequestFields DEF OrderLine
    <3>3. FoldLeft(LAMBDA sum, l : sum + LineCost(l), 0, cmd.lines) \in Int
      BY <3>2, TotalType
    <3>4. id \in Int
      BY DEF Numbers
    <3>. QED BY <3>1, <3>2, <3>3, <3>4, RowTuples DEF Bill
  <2>3. cmd.buyer \in Numbers
    BY <1>4, BuyerIs
  <2>4. FirmRow(Billing, row)
    <3>1. \A j \in 1..2 : j = 1 \/ j = 2
      OBVIOUS
    <3>. QED BY <1>2, <2>2, <2>3, <3>1 DEF FirmRow
  <2>5. AllFirm(Billing, new) /\ \A i \in DOMAIN old : i \in DOMAIN new /\ new[i] = old[i]
    BY <1>1, <2>1, <2>2, <2>4, AddFirm, TablesAre
  <2>. QED BY <1>1, <2>5, SamePlace
<1>5. CASE cmd.op = "EDIT_INFO"
  <2>1. new = Renamed(Billing, old, cmd.name, {cmd.buyer}, Buyer)
    BY <1>5, ColumnsAre DEF Changed, buyerEdits
  <2>2. AllFirm(Billing, new) /\ \A i \in DOMAIN old : old[i][Buyer] \in {cmd.buyer} \/ Stays(new, old, i)
    BY <1>1, <2>1, RenamedStays
  <2>. QED BY <1>5, <2>2 DEF Meant
<1>6. CASE cmd.op = "MOD_ORDER"
  <2>. PICK first : first = rows[Orders][RowOf(rows[Orders], cmd.order)]
    OBVIOUS
  <2>. PICK k : k = RowOf(old, cmd.order)
    OBVIOUS
  <2>. PICK v : v = old[k][4] - first[Cost]
    OBVIOUS
  <2>1. new = [old EXCEPT ![k][4] = v]
    <3>1. new = [old EXCEPT ![k][Total] = @ - first[Cost]]
      BY <1>6, BillReduced
    <3>. QED BY <3>1 DEF Total
  <2>2. k \in DOMAIN old /\ old[k][Id] = cmd.order
    BY <1>1, <1>6, BillIsThere, RowOfIs
  <2>3. AllStayBut(Billing, new, old, k)
    <3>1. 4 \notin 1..Firm(Billing) /\ Billing \in Tables
      BY <1>2, TablesAre
    <3>2. AllStayBut(Billing, [old EXCEPT ![k][4] = v], old, k)
      BY <1>1, <2>2, <3>1, SetFirm
    <3>. QED BY <2>1, <3>2
  <2>. QED BY <1>6, <2>2, <2>3 DEF Meant, AllStayBut
<1>. QED BY <1>4, <1>5, <1>6 DEF BillOps

(* The lines of an order go behind the others, with their numbers.         *)
LEMMA WithLinesStays ==
    ASSUME NEW cmd, cmd.lines \in Seq(OrderLine), NEW id \in Numbers, NEW who \in Plain,
           \A i \in DOMAIN cmd.lines : cmd.lines[i].item \in Numbers,
           NEW orders \in Seq(Row(Orders)), AllFirm(Orders, orders)
    PROVE  LET new == WithLines(cmd, id, who, orders) IN
           AllFirm(Orders, new) /\ \A i \in DOMAIN orders : i \in DOMAIN new /\ new[i] = orders[i]
<1>. PICK n \in Nat : n = Len(orders) /\ DOMAIN orders = 1..n
  OBVIOUS
<1>. PICK new : new = WithLines(cmd, id, who, orders)
  OBVIOUS
<1>1. id \in Int
  BY DEF Numbers
<1>2. FreeRow(Orders, orders) = n + 1
  BY FirmNoGap, TablesAre
<1>3. LinesPlaced(new, FreeRow(Orders, orders), cmd, id, who, orders)
  BY <1>1, WithLinesPlaces
<1>4. LinesPlaced(new, n + 1, cmd, id, who, orders)
  BY <1>2, <1>3
<1>. PICK m \in Nat : m = Len(new) /\ DOMAIN new = 1..m /\ m >= n
  BY <1>4 DEF LinesPlaced
<1>5. \A k \in 1..m :
         \/ k \in DOMAIN orders /\ new[k] = orders[k]
         \/ k >= n + 1 /\ \E i \in DOMAIN cmd.lines : new[k] = LineRow(cmd.lines[i], id, who)
  BY <1>4 DEF LinesPlaced
<1>6. ASSUME NEW k \in 1..m PROVE FirmRow(Orders, new[k])
  <2>1. CASE k \in DOMAIN orders /\ new[k] = orders[k]
    BY <2>1 DEF AllFirm
  <2>2. ASSUME NEW i \in DOMAIN cmd.lines, new[k] = LineRow(cmd.lines[i], id, who)
        PROVE  FirmRow(Orders, new[k])
    <3>1. new[k][1] = id /\ new[k][2] = cmd.lines[i].item
      BY <2>2 DEF LineRow
    <3>2. Firm(Orders) = 2 /\ \A j \in 1..2 : j = 1 \/ j = 2
      BY ColumnsAre DEF Firm
    <3>. QED BY <3>1, <3>2 DEF FirmRow
  <2>. QED BY <1>5, <2>1, <2>2
<1>7. \A i \in 1..n : i \in 1..m /\ new[i] = orders[i]
  <2>1. \A i \in 1..n : i \in 1..m /\ ~(i >= n + 1)
    OBVIOUS
  <2>. QED BY <1>5, <2>1
<1>. QED BY <1>6, <1>7 DEF AllFirm

LEMMA CarefulLines ==
    ASSUME NEW cmd \in Commands, cmd.op \in BillOps, NEW id \in Numbers,
           NEW rows, RowsOfTables(rows), \A t \in Tables : AllFirm(t, rows[t]),
           cmd.op = "COMPLETE_ORDER" =>
                Has(rows[Customer], cmd.buyer) /\ validateBuyerOrder(cmd.lines, rows[Product]),
           Orders \in DOMAIN Changed(cmd, id, rows)
    PROVE  Careful(cmd, Orders, Changed(cmd, id, rows)[Orders],
                   OrdersOf(cmd.buyer, rows[Billing]), rows[Orders])
<1>. PICK old : old = rows[Orders]
  OBVIOUS
<1>. PICK new : new = Changed(cmd, id, rows)[Orders]
  OBVIOUS
<1>. PICK ids : ids = OrdersOf(cmd.buyer, rows[Billing])
  OBVIOUS
<1>1. old \in Seq(Row(Orders)) /\ AllFirm(Orders, old) /\ rows[Customer] \in Seq(Row(Customer))
      /\ rows[Product] \in Seq(Row(Product)) /\ AllFirm(Product, rows[Product])
  BY TablesAre DEF RowsOfTables, Typed
<1>2. SUFFICES /\ FirmRows(Orders, new)
               /\ \A i \in DOMAIN old : Meant(cmd, Orders, new, ids, old[i]) \/ Stays(new, old, i)
  BY DEF Careful
<1>3. CASE cmd.op = "COMPLETE_ORDER"
  <2>. PICK who : who = rows[Customer][RowOf(rows[Customer], cmd.buyer)][Who[Customer]]
    OBVIOUS
  <2>1. new = WithLines(cmd, id, who, old)
    BY <1>3, OrderMakes
  <2>2. who \in Plain
    BY <1>1, <1>3, BuyerIsPlain
  <2>3. cmd.lines \in Seq(OrderLine)
    BY <1>3, RequestFields DEF OrderLine
  <2>4. \A i \in DOMAIN cmd.lines : cmd.lines[i].item \in Numbers
    BY <1>1, <1>3, ItemsAre
  <2>5. AllFirm(Orders, new) /\ \A i \in DOMAIN old : i \in DOMAIN new /\ new[i] = old[i]
    BY <1>1, <2>1, <2>2, <2>3, <2>4, WithLinesStays
  <2>. QED BY <1>1, <2>5, SamePlace, FirmIds, TablesAre
<1>4. CASE cmd.op = "EDIT_INFO"
  <2>1. new = Renamed(Orders, old, cmd.name, ids, Id)
    BY <1>4, ColumnsAre DEF Changed, buyerEdits
  <2>2. AllFirm(Orders, new) /\ \A i \in DOMAIN old : old[i][Id] \in ids \/ Stays(new, old, i)
    BY <1>1, <2>1, RenamedStays
  <2>. QED BY <1>4, <2>2, FirmIds, TablesAre DEF Meant
<1>5. CASE cmd.op = "MOD_ORDER"
  <2>1. FirstZero(Orders, old, Item) = Len(old) + 1
    <3>1. 2 \in 1..Width(Orders) /\ Columns[Orders][2] /\ 2 \in 1..Firm(Orders)
      BY ColumnsAre DEF Width, Firm
    <3>2. \A i \in DOMAIN old : old[i][2] # 0
      BY <1>1, <3>1 DEF AllFirm, FirmRow, Numbers
    <3>. QED BY <1>1, <3>1, <3>2, NoZero, TablesAre DEF Item
  <2>. PICK n \in Nat : n = Len(old) /\ DOMAIN old = 1..n /\ old \in [1..n -> Row(Orders)]
    BY <1>1
  <2>2. SubSeq(old, 1, FirstZero(Orders, old, Item) - 1) = old
    <3>1. n + 1 - 1 = n /\ SubSeq(old, 1, n) = old
      BY <1>1
    <3>. QED BY <2>1, <3>1
  <2>3. new = Without(old, Item, cmd.item)
    BY <1>5, <2>2, ColumnsAre DEF Changed, buyerModifiesOrder
  <2>4. \A k \in DOMAIN new : \E i \in DOMAIN old : new[k] = old[i]
    <3>1. PartOf(new, old, n)
      BY <2>3, WithoutIsPart
    <3>. QED BY <3>1, PartHasIds
  <2>5. FirmRows(Orders, new)
    BY <1>1, <2>4 DEF AllFirm, FirmRows
  <2>6. ASSUME NEW i \in DOMAIN old, old[i][Item] # cmd.item PROVE Stays(new, old, i)
    BY <2>3, <2>6, WithoutStays
  <2>. QED BY <1>5, <2>5, <2>6 DEF Meant
<1>. QED BY <1>3, <1>4, <1>5 DEF BillOps

(* The rows of the clients.                                                *)
LEMMA CarefulClients ==
    ASSUME NEW cmd \in Commands, cmd.op # "VIEW", NEW id \in Numbers,
           NEW rows, RowsOfTables(rows), NEW t \in {Customer, Sellers}, AllFirm(t, rows[t]),
           cmd.op = "EDIT_INFO" => Has(rows[Customer], cmd.buyer),
           cmd.op = "EDIT_ROW" => Has(rows[cmd.table], cmd.buyer),
           t \in DOMAIN Changed(cmd, id, rows), NEW ids
    PROVE  Careful(cmd, t, Changed(cmd, id, rows)[t], ids, rows[t])
<1>. PICK old : old = rows[t]
  OBVIOUS
<1>. PICK new : new = Changed(cmd, id, rows)[t]
  OBVIOUS
<1>1. old \in Seq(Row(t)) /\ AllFirm(t, old) /\ t \in Tables /\ t \notin Records
  BY TablesAre, TablesDiffer DEF RowsOfTables, Typed
<1>2. cmd.op \in {"COMPLETE_ORDER", "MOD_ORDER", "EDIT_INFO", "EDIT_ROW", "NEW_CLIENT",
                  "NEW_PRODUCT", "DELETE_PROD", "MOD_QUANT", "MOD_PRICE"}
  BY RequestFields
<1>3. Firm(t) = 1
  BY ColumnsAre DEF Firm
<1>4. CASE cmd.op \in {"EDIT_INFO", "EDIT_ROW"}
  <2>. PICK k : k = RowOf(old, cmd.buyer)
    OBVIOUS
  <2>1. cmd.column \in {2, 3, 4}
    BY <1>4, RequestFields DEF Name, Phone, Address
  <2>2. new = [old EXCEPT ![k][cmd.column] = cmd.name] /\ Has(old, cmd.buyer)
        /\ (cmd.op = "EDIT_INFO" => t = Customer)
    <3>1. CASE cmd.op = "EDIT_INFO"
      <4>1. t \in {Customer, Billing, Orders}
        BY <3>1 DEF Changed, buyerEdits
      <4>2. t = Customer
        BY <1>1, <4>1 DEF Records
      <4>. QED BY <3>1, <4>2, ColumnsAre DEF Changed, buyerEdits
    <3>2. CASE cmd.op = "EDIT_ROW"
      <4>1. t = cmd.table
        BY <3>2 DEF Changed
      <4>. QED BY <3>2, <4>1 DEF Changed, EditRow
    <3>. QED BY <1>4, <3>1, <3>2
  <2>3. k \in DOMAIN old /\ old[k][Id] = cmd.buyer
    BY <1>1, <2>2, RowOfIs
  <2>4. AllStayBut(t, new, old, k)
    <3>. PICK j : j = cmd.column
      OBVIOUS
    <3>. PICK v : v = cmd.name
      OBVIOUS
    <3>1. j \notin 1..Firm(t)
      BY <1>3, <2>1
    <3>2. AllStayBut(t, [old EXCEPT ![k][j] = v], old, k)
      BY <1>1, <2>3, <3>1, SetFirm
    <3>. QED BY <2>2, <3>2
  <2>5. Meant(cmd, t, new, ids, old[k])
    BY <1>4, <2>2, <2>3 DEF Meant
  <2>6. FirmRows(t, new)
    BY <1>1, <2>4, FirmIds DEF AllStayBut
  <2>. QED BY <2>4, <2>5, <2>6 DEF AllStayBut, Careful
<1>5. CASE cmd.op = "NEW_CLIENT"
  <2>. PICK row : row = <<id, cmd.name, NoText, cmd.address>>
    OBVIOUS
  <2>1. t = cmd.table /\ new = NewClient(cmd, id, old)
    BY <1>5 DEF Changed
  <2>2. row \in Row(t) /\ FirmRow(t, row)
    <3>1. id \in Int
      BY DEF Numbers
    <3>2. row \in Row(t)
      BY <1>5, <3>1, RequestFields, RowTuples, IntsArePlain
    <3>3. FirmRow(t, row)
      <4>1. \A j \in 1..1 : j = 1
        OBVIOUS
      <4>. QED BY <1>3, <4>1 DEF FirmRow
    <3>. QED BY <3>2, <3>3
  <2>3. CASE t = Customer
    <3>1. new = PutRow(t, old, row)
      BY <2>1, <2>3 DEF NewClient
    <3>2. AllFirm(t, PutRow(t, old, row))
          /\ \A k \in DOMAIN old : /\ k \in DOMAIN PutRow(t, old, row)
                                   /\ PutRow(t, old, row)[k] = old[k]
      BY <1>1, <2>2, AddFirm
    <3>3. \A k \in DOMAIN old : Stays(new, old, k)
      BY <1>1, <3>1, <3>2, SamePlace
    <3>. QED BY <1>1, <3>1, <3>2, <3>3, FirmIds DEF Careful
  <2>4. CASE t # Customer
    <3>1. new = PutAfterGap(t, old, row)
      BY <2>1, <2>4 DEF NewClient
    <3>. PICK n \in Nat : n = Len(old) /\ DOMAIN old = 1..n
      BY <1>1
    <3>2. FreeRow(t, old) + 1 = n + 2 /\ n + 2 > n
      BY <1>1, FirmNoGap
    <3>3. new = [k \in 1..(n + 2) |-> IF k = n + 2 THEN row ELSE RowAt(t, old, k)]
      BY <3>1, <3>2 DEF PutAfterGap
    <3>4. ASSUME NEW k \in DOMAIN old PROVE k \in DOMAIN new /\ new[k] = old[k]
      <4>1. k \in 1..(n + 2) /\ k # n + 2
        OBVIOUS
      <4>. QED BY <3>3, <4>1 DEF RowAt
    <3>5. FirmRows(t, new)
      <4>1. ASSUME NEW k \in 1..(n + 2) PROVE FirmRow(t, new[k]) \/ new[k] = BlankRow(t)
        BY <1>1, <2>2, <3>3 DEF RowAt, AllFirm
      <4>. QED BY <3>3, <4>1 DEF FirmRows
    <3>6. \A k \in DOMAIN old : Stays(new, old, k)
      BY <1>1, <3>4, SamePlace
    <3>. QED BY <3>5, <3>6 DEF Careful
  <2>. QED BY <2>3, <2>4
<1>6. CASE cmd.op \in {"COMPLETE_ORDER", "MOD_ORDER"} \cup ProductOps
  <2>1. DOMAIN Changed(cmd, id, rows) \subseteq Records
    BY <1>6 DEF Changed, completeAnOrder, buyerModifiesOrder, ProductOps, Records
  <2>. QED BY <1>1, <2>1
<1>. QED BY <1>2, <1>4, <1>5, <1>6 DEF ProductOps

(* Every command is careful, with the rows of each table that it changes.  *)
LEMMA CarefulCommand ==
    ASSUME NEW cmd \in Commands, cmd.op # "VIEW", NEW id \in Numbers,
           NEW rows, Loaded(cmd, rows), \A t \in Tables : AllFirm(t, rows[t]),
           NEW t \in Tables, t \in DOMAIN Changed(cmd, id, rows)
    PROVE  Careful(cmd, t, Changed(cmd, id, rows)[t], OrdersOf(cmd.buyer, rows[Billing]), rows[t])
<1>1. RowsOfTables(rows) /\ rows[Product] \in Seq(Row(Product))
  BY TablesAre DEF Loaded, RowsOfTables, Typed
<1>2. cmd.op = "COMPLETE_ORDER" =>
         Has(rows[Customer], cmd.buyer) /\ validateBuyerOrder(cmd.lines, rows[Product])
  BY DEF Loaded
<1>3. CASE t = Product
  BY <1>1, <1>2, <1>3, CarefulProducts
<1>4. CASE t \in {Billing, Orders}
  <2>1. cmd.op \in BillOps
    <3>1. t \notin {Product, Customer, Sellers}
      BY <1>4, TablesDiffer DEF Records
    <3>2. cmd.op \in {"EDIT_ROW", "NEW_CLIENT"} => cmd.table \in {Customer, Sellers}
      BY RequestFields
    <3>. QED BY <3>1, <3>2, RequestFields DEF Changed, BillOps
  <2>2. CASE t = Billing
    BY <1>1, <1>2, <2>1, <2>2, CarefulBills, TablesAre
  <2>3. CASE t = Orders
    BY <1>1, <1>2, <2>1, <2>3, CarefulLines
  <2>. QED BY <1>4, <2>2, <2>3
<1>5. CASE t \in {Customer, Sellers}
  BY <1>1, <1>5, CarefulClients DEF Loaded
<1>. QED BY <1>3, <1>4, <1>5 DEF Tables

----------------------------------------------------------------------------
(* Every step keeps the lines sound *)

(* Every row that is loaded returns to its line.                           *)
AllReturn(t, file, rows) ==
    DOMAIN rows = DOMAIN file /\ \A i \in DOMAIN file : Returns(t, file[i], rows[i])

LEMMA LoadReturns ==
    ASSUME NEW t \in Tables, NEW file \in TextFiles, Readable(t, file), SoundFile(t, file)
    PROVE  AllReturn(t, file, Load(t, file)) /\ AllFirm(t, Load(t, file))
<1>. PICK rows : rows = Load(t, file)
  OBVIOUS
<1>1. rows \in Seq(Row(t)) /\ DOMAIN rows = DOMAIN file
  BY LoadType DEF Load
<1>2. ASSUME NEW i \in DOMAIN file PROVE Returns(t, file[i], rows[i])
  <2>1. file[i] \in FileLines /\ Len(file[i]) >= Width(t) /\ SoundLine(t, file[i])
    BY DEF TextFiles, Readable, Width, SoundFile
  <2>2. LoadsLine(t, file[i], rows[i])
    <3>1. rows[i] \in Row(t)
      BY <1>1
    <3>2. \A j \in 1..Width(t) : j \in DOMAIN Columns[t] /\ Token(file[i], j) = file[i][j]
      <4>1. DOMAIN file[i] = 1..Len(file[i]) /\ Len(file[i]) \in Nat /\ Width(t) \in Nat
        BY <2>1, Widths DEF FileLines
      <4>. QED BY <2>1, <4>1, Widths DEF Token
    <3>3. \A j \in DOMAIN Columns[t] :
             rows[i][j] = IF Columns[t][j] THEN atoi(Token(file[i], j)) ELSE Token(file[i], j)
      BY DEF Load
    <3>. QED BY <3>1, <3>2, <3>3 DEF LoadsLine
  <2>. QED BY <2>1, <2>2, LineReturns
<1>3. AllFirm(t, rows)
  BY <1>1, <1>2 DEF AllFirm, Returns
<1>. QED BY <1>1, <1>2, <1>3 DEF AllReturn

LEMMA LoadedFirm ==
    ASSUME FilesInv, SoundInv, NEW cmd, NEW rows, Loaded(cmd, rows), NEW t \in Tables
    PROVE  /\ AllFirm(t, rows[t])
           /\ Readable(t, text[t]) => AllReturn(t, text[t], rows[t])
<1>1. text[t] \in TextFiles /\ SoundFile(t, text[t])
  BY DEF FilesInv, SoundInv
<1>2. CASE Readable(t, text[t])
  BY <1>1, <1>2, LoadReturns DEF Loaded
<1>3. CASE ~Readable(t, text[t])
  <2>1. rows[t] = <<>>
    BY <1>3 DEF Loaded
  <2>. QED BY <1>3, <2>1 DEF AllFirm
<1>. QED BY <1>2, <1>3

LEMMA NothingSound == \A t : SoundFile(t, <<>>) /\ FirmRows(t, <<>>)
BY DEF SoundFile, FirmRows

(* What a thread that steps aside or stays says of the lines.              *)
LEMMA SameSound ==
    ASSUME SoundInv, NEW c \in Threads, Same(c) \/ Aside(c), NEW t \in Tables
    PROVE  /\ t \in DOMAIN memory'[c] => FirmRows(t, memory'[c][t])
           /\ Opens(c, t)' => SoundFile(t, output'[c])
<1>1. t \in DOMAIN memory[c] => FirmRows(t, memory[c][t])
  BY DEF SoundInv
<1>2. Opens(c, t) => SoundFile(t, output[c])
  BY DEF SoundInv
<1>3. CASE Same(c)
  BY <1>1, <1>2, <1>3 DEF Same, Opens
<1>4. CASE Aside(c)
  <2>1. ~Opens(c, t)'
    BY <1>4 DEF Aside, Opens
  <2>2. memory'[c] = memory[c] \/ memory'[c] = <<>>
    BY <1>4 DEF Aside
  <2>3. t \notin DOMAIN <<>>
    OBVIOUS
  <2>. QED BY <1>1, <2>1, <2>2, <2>3
<1>. QED BY <1>3, <1>4

LEMMA SoundNext ==
    ASSUME NewIds \subseteq Numbers, IInv, FilesInv, SoundInv, [Next]_vars
    PROVE  SoundInv'
<1> SUFFICES ASSUME NEW t \in Tables
             PROVE  /\ SoundFile(t, text'[t])
                    /\ \A c \in Threads :
                         /\ t \in DOMAIN memory'[c] => FirmRows(t, memory'[c][t])
                         /\ Opens(c, t)' => SoundFile(t, output'[c])
  BY DEF SoundInv
<1>1. SoundFile(t, text[t]) /\ DOMAIN text = Tables
  BY DEF SoundInv, FilesInv
<1>2. CASE Quiet
  <2>1. text' = text
    BY <1>2 DEF Quiet, files
  <2>. QED BY <1>1, <1>2, <2>1, SameSound DEF Quiet
<1>3. CASE Stop
  <2>1. \A c \in Threads : ~Opens(c, t)' /\ memory'[c] = <<>>
    BY <1>3, StopForgets DEF Opens
  <2>2. t \notin DOMAIN <<>>
    OBVIOUS
  <2>. QED BY <1>1, <1>3, <2>1, <2>2 DEF Stop
<1>4. ASSUME NEW c \in Threads, NEW id \in NewIds, NEW rows, Begins(c, id, rows)
      PROVE  /\ SoundFile(t, text'[t])
             /\ \A d \in Threads :
                  /\ t \in DOMAIN memory'[d] => FirmRows(t, memory'[d][t])
                  /\ Opens(d, t)' => SoundFile(t, output'[d])
  <2>1. text' = text /\ ~Opens(c, t)'
    BY <1>4 DEF Begins, Opens, files
  <2>2. ASSUME t \in DOMAIN memory'[c] PROVE FirmRows(t, memory'[c][t])
    <3>1. /\ memory'[c][t] = Changed(command[c], id, rows)[t]
          /\ t \in DOMAIN Changed(command[c], id, rows)
      BY <1>4, <2>2 DEF Begins
    <3>2. Loaded(command[c], rows) /\ command[c] \in Commands /\ command[c].op # "VIEW"
      BY <1>4 DEF Begins
    <3>3. \A u \in Tables : AllFirm(u, rows[u])
      BY <3>2, LoadedFirm
    <3>4. id \in Numbers
      OBVIOUS
    <3>. QED BY <3>1, <3>2, <3>3, <3>4, CarefulCommand DEF Careful
  <2>3. \A d \in Threads : d # c => Same(d)
    BY <1>4 DEF Begins, OthersSame
  <2>. QED BY <1>1, <2>1, <2>2, <2>3, SameSound
<1>5. ASSUME NEW c \in Threads, NEW u, Truncates(c, u)
      PROVE  /\ SoundFile(t, text'[t])
             /\ \A d \in Threads :
                  /\ t \in DOMAIN memory'[d] => FirmRows(t, memory'[d][t])
                  /\ Opens(d, t)' => SoundFile(t, output'[d])
  <2>1. SoundFile(t, text'[t])
    BY <1>1, <1>5, NothingSound DEF Truncates
  <2>2. t \in DOMAIN memory'[c] => FirmRows(t, memory'[c][t])
    BY <1>5 DEF Truncates, SoundInv
  <2>3. ASSUME Opens(c, t)' PROVE SoundFile(t, output'[c])
    <3>1. u = t /\ t \in DOMAIN memory[c] /\ output'[c] = WriteBack(t, memory[c][t], text[t])
      BY <1>5, <2>3 DEF Truncates, Opens
    <3>2. memory[c][t] \in Seq(Row(t)) /\ text[t] \in TextFiles /\ FirmRows(t, memory[c][t])
      BY <3>1 DEF FilesInv, Typed, SoundInv
    <3>. PICK n \in Nat : n = LineEnds(text[t]) + 1
      BY <3>2, LineEndsAre
    <3>3. SoundFile(t, Written(t, memory[c][t], n))
      BY <3>2, WrittenSound
    <3>. QED BY <3>1, <3>3 DEF WriteBack
  <2>4. \A d \in Threads : d # c => Same(d)
    BY <1>5 DEF Truncates, OthersSame
  <2>. QED BY <2>1, <2>2, <2>3, <2>4, SameSound
<1>6. ASSUME NEW c \in Threads, NEW u, Flushes(c, u)
      PROVE  /\ SoundFile(t, text'[t])
             /\ \A d \in Threads :
                  /\ t \in DOMAIN memory'[d] => FirmRows(t, memory'[d][t])
                  /\ Opens(d, t)' => SoundFile(t, output'[d])
  <2>1. SoundFile(t, text'[t])
    <3>1. u = t => SoundFile(t, output[c])
      BY <1>6 DEF Flushes, SoundInv, Opens
    <3>. QED BY <1>1, <1>6, <3>1 DEF Flushes
  <2>2. (t \in DOMAIN memory'[c] => FirmRows(t, memory'[c][t])) /\ ~Opens(c, t)'
    BY <1>6 DEF Flushes, SoundInv, Opens
  <2>3. \A d \in Threads : d # c => Same(d)
    BY <1>6 DEF Flushes, OthersSame
  <2>. QED BY <2>1, <2>2, <2>3, SameSound
<1>7. ASSUME NEW c \in Threads, Answers(c)
      PROVE  /\ SoundFile(t, text'[t])
             /\ \A d \in Threads :
                  /\ t \in DOMAIN memory'[d] => FirmRows(t, memory'[d][t])
                  /\ Opens(d, t)' => SoundFile(t, output'[d])
  <2>1. text' = text /\ memory'[c] = <<>> /\ ~Opens(c, t)'
    BY <1>7 DEF Answers, Opens, files
  <2>2. \A d \in Threads : d # c => Same(d)
    BY <1>7 DEF Answers, OthersSame
  <2>3. t \notin DOMAIN <<>>
    OBVIOUS
  <2>. QED BY <1>1, <2>1, <2>2, <2>3, SameSound
<1>. QED BY <1>2, <1>3, <1>4, <1>5, <1>6, <1>7, TheSteps

(* The files the server starts with have all their fields.                 *)
LEMMA SoundInit == ASSUME LinesGiven, Init PROVE SoundInv
<1>1. ASSUME NEW t \in Tables PROVE SoundFile(t, text[t])
  <2>1. text[t] = InitialFiles[t]
    BY DEF Init
  <2>2. text[t] \in TextFiles
    BY FilesInit DEF FilesInv
  <2>3. ASSUME NEW i \in DOMAIN text[t] PROVE SoundLine(t, text[t][i])
    <3>. PICK l : l = text[t][i]
      OBVIOUS
    <3>. PICK w \in {4, 5} : w = Width(t) /\ DOMAIN Columns[t] = 1..w
      BY Widths
    <3>1. HasAllFields(t, l)
      BY <2>1, <2>3 DEF LinesGiven
    <3>2. l \in FileLines
      BY <2>2 DEF TextFiles
    <3>. PICK n \in Nat : n = Len(l) /\ DOMAIN l = 1..n
      BY <3>2 DEF FileLines
    <3>3. n = w + (IF Last(l) = EOL THEN 1 ELSE 0)
      BY <3>1 DEF HasAllFields, Width
    <3>4. \A j \in 1..w : InColumn(t, j, l[j])
      BY <3>1 DEF HasAllFields, InColumn, Kept, Numbers, Names
    <3>5. \A j \in 1..n : j \in 1..w \/ (j = n /\ Last(l) = EOL)
      BY <3>3
    <3>6. Last(l) = l[n]
      BY DEF Last
    <3>7. FirmRow(t, l)
      <4>1. PICK k \in 1..2 : k = Firm(t) /\ k < w /\ \A j \in 1..k : Columns[t][j]
        BY FirmColumns DEF FirmShape
      <4>2. \A j \in 1..k : j \in 1..w
        BY <4>1
      <4>. QED BY <3>4, <4>1, <4>2 DEF FirmRow, InColumn
    <3>. QED BY <3>4, <3>5, <3>6, <3>7 DEF SoundLine
  <2>. QED BY <2>3 DEF SoundFile
<1>. QED BY <1>1, NothingStarted, NothingNumbered DEF SoundInv

----------------------------------------------------------------------------
(* The orders of a buyer, in the bills that are written *)

(* The search for a free row goes past the rows with ids.                  *)
LEMMA FreeBehind ==
    ASSUME NEW t \in Tables, NEW S, NEW rows \in Seq(S), NEW m \in 0..Len(rows),
           \A i \in 1..m : rows[i][Id] # 0
    PROVE  FreeRow(t, rows) \in (m + 1)..(Len(rows) + 1)
<1>. PICK n \in Nat : n = Len(rows) /\ DOMAIN rows = 1..n
  OBVIOUS
<1>. PICK ZeroRows : ZeroRows = {i \in 1..(n + 1) : RowAt(t, rows, i)[Id] = 0}
  OBVIOUS
<1>1. RowAt(t, rows, n + 1)[Id] = 0
  BY Widths DEF RowAt, BlankRow, Id
<1>2. n + 1 \in ZeroRows /\ ZeroRows \subseteq Nat
  BY <1>1
<1>3. PICK k \in ZeroRows : \A i \in ZeroRows : k <= i
  BY <1>2, LeastNat
<1>4. \A i \in 1..(k - 1) : rows[i][Id] # 0
  <2>1. \A i \in 1..(k - 1) : i \notin ZeroRows /\ i \in 1..n
    BY <1>3
  <2>. QED BY <2>1 DEF RowAt
<1> DEFINE P(i) == RowAt(t, rows, i)[Id] = 0 /\ \A x \in 1..(i - 1) : rows[x][Id] # 0
<1>5. k \in 1..(n + 1) /\ P(k)
  BY <1>3, <1>4
<1>6. \A i \in 1..(n + 1) : P(i) => i > m
  <2>1. \A i \in 1..m : RowAt(t, rows, i)[Id] # 0
    BY DEF RowAt
  <2>. QED BY <2>1
<1> HIDE DEF P
<1>7. PICK f : f = CHOOSE i \in 1..(n + 1) : P(i)
  OBVIOUS
<1>8. f \in 1..(n + 1) /\ P(f)
  BY <1>5, <1>7
<1>9. FreeRow(t, rows) = f
  BY <1>7 DEF FreeRow, FirstZero, P
<1>. QED BY <1>6, <1>8, <1>9

(* The line of a firm row begins with its numbers.                         *)
LEMMA FirmLine ==
    ASSUME NEW t \in Tables, NEW row \in Row(t), FirmRow(t, row), NEW j \in 1..Firm(t)
    PROVE  j \in DOMAIN LineOf(row) /\ LineOf(row)[j] = row[j]
<1>. PICK ss : PartsOf(row, ss, Width(t))
  BY RowParts
<1>. PICK k \in 1..2 : k = Firm(t) /\ k < Width(t) /\ Width(t) \in Nat
  BY FirmColumns DEF FirmShape
<1>. PICK fields : fields = FieldsOf(row)
  OBVIOUS
<1>1. \A i \in 1..k : row[i] \in Kept \cup {EOL}
  BY DEF FirmRow, Kept
<1>2. Len(fields) >= k /\ \A i \in 1..k : fields[i] = row[i]
  BY <1>1, FirstParts
<1>3. fields \in Seq(Tokens) /\ EOL \in Tokens
  BY DEF PartsOf, Tokens, Texts
<1>4. OneBehind(Append(fields, EOL), fields, EOL)
  BY <1>3, Appended
<1>5. LineOf(row) = Append(fields, EOL)
  BY DEF LineOf, FieldsOf
<1>6. Len(fields) \in Nat
  BY <1>3
<1>. QED BY <1>2, <1>4, <1>5, <1>6 DEF OneBehind

(* A loader finds the orders of a buyer again in what was written.         *)
LEMMA BillsReadBack ==
    ASSUME NEW rows \in Seq(Row(Billing)), AllFirm(Billing, rows), NEW file \in TextFiles,
           Len(rows) <= LineEnds(file) + 1, NEW buyer
    PROVE  OrdersOf(buyer, rows) \subseteq
               OrdersOf(buyer, Load(Billing, WriteBack(Billing, rows, file)))
<1>. PICK n \in Nat : n = LineEnds(file) + 1
  BY LineEndsAre
<1>. PICK m \in Nat : m = Len(rows) /\ DOMAIN rows = 1..m /\ m <= n
  OBVIOUS
<1>. PICK new : new = WriteBack(Billing, rows, file)
  OBVIOUS
<1>. PICK back : back = Load(Billing, new)
  OBVIOUS
<1>0. /\ Billing \in Records /\ Billing \in Tables /\ Firm(Billing) = 2 /\ HaveIds(rows)
      /\ DOMAIN Columns[Billing] = 1..4 /\ Columns[Billing][1] /\ Columns[Billing][2]
  BY TablesAre, FirmIds, Widths, ColumnsAre DEF Firm, Records, Tables, Columns
<1>1. /\ DOMAIN new = 1..n
      /\ \A i \in 1..m : new[i] = LineOf(rows[i])
  <2>1. /\ new \in Seq(EndedLines) /\ Len(new) = n
        /\ \A i \in DOMAIN new : i <= m => new[i] = LineOf(rows[i])
    BY <1>0, WriteBackIs
  <2>2. DOMAIN new = 1..n
    BY <2>1
  <2>. QED BY <2>1, <2>2
<1>2. ASSUME NEW i \in 1..m, NEW j \in 1..2
      PROVE  i \in DOMAIN back /\ back[i][j] = rows[i][j]
  <2>1. rows[i] \in Row(Billing) /\ FirmRow(Billing, rows[i])
    BY DEF AllFirm
  <2>2. j \in DOMAIN new[i] /\ new[i][j] = rows[i][j]
    BY <1>0, <1>1, <2>1, FirmLine
  <2>3. rows[i][j] \in Numbers
    BY <1>0, <2>1 DEF FirmRow
  <2>4. atoi(rows[i][j]) = rows[i][j]
    BY <2>3, TextsAssumption DEF atoi, Numbers
  <2>5. Token(new[i], j) = rows[i][j]
    BY <2>2 DEF Token
  <2>6. i \in DOMAIN new
    BY <1>1
  <2>. QED BY <1>0, <2>4, <2>5, <2>6 DEF Load
<1>. PICK S : S = {back[i] : i \in 1..n}
  OBVIOUS
<1>3. back \in Seq(S) /\ Len(back) = n /\ m \in 0..Len(back)
  BY <1>1 DEF Load
<1>4. \A i \in 1..m : back[i][Id] # 0
  <2>1. ASSUME NEW i \in 1..m PROVE back[i][Id] # 0
    BY <1>0, <1>2 DEF Id, HaveIds, Numbers
  <2>. QED BY <2>1
<1>5. FreeRow(Billing, back) \in (m + 1)..(n + 1)
  <2>1. FreeRow(Billing, back) \in (m + 1)..(Len(back) + 1)
    BY <1>0, <1>3, <1>4, FreeBehind
  <2>. QED BY <1>3, <2>1
<1>6. FreeRow(Billing, rows) = m + 1
  BY <1>0, FirmNoGap
<1>7. ASSUME NEW x \in OrdersOf(buyer, rows) PROVE x \in OrdersOf(buyer, back)
  <2>1. PICK i \in 1..m : x = rows[i][Id] /\ rows[i][Buyer] = buyer
    BY <1>6 DEF OrdersOf
  <2>2. x = back[i][Id] /\ back[i][Buyer] = buyer
    BY <1>2, <2>1 DEF Id, Buyer
  <2>3. i \in 1..(FreeRow(Billing, back) - 1)
    BY <1>5
  <2>. QED BY <2>2, <2>3 DEF OrdersOf
<1>. QED BY <1>7

----------------------------------------------------------------------------
(* Every step keeps the lines the command is not about *)

(* A row that is written is this line, with a line end.                    *)
Rewritten(rows, n, l) == \E k \in DOMAIN rows : k <= n /\ LinesOf(rows[k])[1] = Ended(l)
(* The orders of which a buyer's new name changes the lines.               *)
TheirBills(c) == OrdersOf(command[c].buyer, memory[c][Billing])
Survives(c, t) ==
    \A i \in DOMAIN text[t] :
        \/ Meant(command[c], t, memory[c][t], TheirBills(c), text[t][i])
        \/ Misread(t, text[t][i])
        \/ Rewritten(memory[c][t], LineEnds(text[t]) + 1, text[t][i])
(* A table that a command has still to write, and can.                     *)
WillWrite(c, t) ==
    /\ t \in Left(c) /\ t \in DOMAIN memory[c] /\ ~Opens(c, t)
    /\ t = Orders /\ command[c].op = "EDIT_INFO" => Billing \in DOMAIN memory[c]
(* The bills go back with the numbers they were loaded with.               *)
BillsOf(c, file) == TheirBills(c) \subseteq OrdersOf(command[c].buyer, Load(Billing, file))
KeepsBills(c) ==
    HasLocks(c) /\ command[c].op = "EDIT_INFO" =>
        /\ Opens(c, Billing) => BillsOf(c, output[c])
        /\ Billing \notin Left(c) => Billing \in DOMAIN memory[c] /\ BillsOf(c, text[Billing])
        /\ WillWrite(c, Billing) => Len(memory[c][Billing]) <= LineEnds(text[Billing]) + 1
SurviveOf(c) == KeepsBills(c) /\ \A t \in Tables : WillWrite(c, t) => Survives(c, t)
SurviveInv == \A c \in Threads : SurviveOf(c)

(* A thread without locks has nothing to write.                            *)
LEMMA NothingLeft ==
    ASSUME NEW c \in Threads, ~HasLocks(c), Left(c) = {} PROVE SurviveOf(c)
BY DEF SurviveOf, KeepsBills, WillWrite

(* Nothing of what a thread is about has changed.                          *)
LEMMA SurvivesStay ==
    ASSUME NEW c, NEW t, Survives(c, t), command'[c] = command[c], memory'[c] = memory[c],
           text'[t] = text[t]
    PROVE  Survives(c, t)'
<1>1. TheirBills(c)' = TheirBills(c)
  BY DEF TheirBills
<1>. QED BY <1>1 DEF Survives

(* The other threads leave what it has locked.                             *)
LEMMA SurviveAside ==
    ASSUME IInv, NEW c \in Threads, SurviveOf(c), Same(c) \/ Aside(c),
           HasLocks(c) => \A t \in Locks(command[c]) : text'[t] = text[t]
    PROVE  SurviveOf(c)'
<1>1. CASE ~HasLocks(c)
  <2>1. Left(c) = {} /\ Left(c)' = {} /\ ~HasLocks(c)'
    BY <1>1, LeftLocked DEF Same, Aside, HasLocks, Left
  <2>. QED BY <2>1 DEF SurviveOf, KeepsBills, WillWrite
<1>2. CASE HasLocks(c)
  <2>1. /\ command'[c] = command[c] /\ memory'[c] = memory[c] /\ output'[c] = output[c]
        /\ (HasLocks(c)' <=> HasLocks(c)) /\ Left(c)' = Left(c)
        /\ \A t : Opens(c, t)' <=> Opens(c, t)
    BY <1>2 DEF Same, Aside, HasLocks, Left, Opens
  <2>2. \A t : WillWrite(c, t)' <=> WillWrite(c, t)
    BY <2>1 DEF WillWrite
  <2>3. ASSUME NEW t \in Tables, WillWrite(c, t)' PROVE Survives(c, t)'
    <3>1. text'[t] = text[t] /\ Survives(c, t)
      BY <1>2, <2>2, <2>3, LeftLocked DEF WillWrite, SurviveOf
    <3>. QED BY <2>1, <3>1, SurvivesStay
  <2>4. KeepsBills(c)'
    <3>. SUFFICES ASSUME command[c].op = "EDIT_INFO" PROVE KeepsBills(c)'
      BY <2>1 DEF KeepsBills
    <3>1. text'[Billing] = text[Billing]
      BY <1>2 DEF Locks, ProductOps
    <3>2. BillsOf(c, output[c]) => BillsOf(c, output[c])'
      BY <2>1 DEF BillsOf, TheirBills
    <3>3. BillsOf(c, text[Billing]) => BillsOf(c, text[Billing])'
      BY <2>1, <3>1 DEF BillsOf, TheirBills
    <3>. QED BY <1>2, <2>1, <2>2, <3>1, <3>2, <3>3 DEF KeepsBills, SurviveOf
  <2>. QED BY <2>3, <2>4 DEF SurviveOf
<1>. QED BY <1>1, <1>2

(* What a command is about is told by numbers that a row and its line have *)
(* in common.                                                              *)
LEMMA MeantLine ==
    ASSUME NEW t \in Tables, NEW l, NEW r, Returns(t, l, r), NEW cmd, NEW made,
           NEW ids, Meant(cmd, t, made, ids, r), NEW theirs,
           t = Orders /\ cmd.op = "EDIT_INFO" => ids \subseteq theirs
    PROVE  Meant(cmd, t, made, theirs, l)
<1>1. Firm(t) \in 1..2 /\ Firm(Billing) = 2 /\ Firm(Orders) = 2
  BY FirmColumns, ColumnsAre DEF FirmShape, Firm
<1>2. \A j \in 1..Firm(t) : l[j] = r[j]
  BY DEF Returns
<1>3. l[Id] = r[Id]
  BY <1>1, <1>2 DEF Id
<1>4. t = Orders => l[Item] = r[Item]
  BY <1>1, <1>2 DEF Item
<1>5. t = Billing => l[Buyer] = r[Buyer]
  BY <1>1, <1>2 DEF Buyer
<1>. QED BY <1>3, <1>4, <1>5 DEF Meant

(* A buyer's new name leaves him his orders.                               *)
LEMMA SameOrders ==
    ASSUME NEW rows \in Seq(Row(Billing)), AllFirm(Billing, rows), NEW name, NEW ids, NEW buyer
    PROVE  OrdersOf(buyer, rows) = OrdersOf(buyer, Renamed(Billing, rows, name, ids, Buyer))
<1>. PICK new : new = Renamed(Billing, rows, name, ids, Buyer)
  OBVIOUS
<1>. PICK n \in Nat : n = Len(rows) /\ DOMAIN rows = 1..n
  OBVIOUS
<1>1. Billing \in Tables /\ Firm(Billing) = 2
  BY TablesAre, ColumnsAre DEF Firm
<1>2. /\ AllFirm(Billing, new) /\ DOMAIN new = DOMAIN rows
      /\ \A i \in DOMAIN rows : \A j \in 1..2 : new[i][j] = rows[i][j]
  BY <1>1, RenamedStays
<1>3. FreeRow(Billing, rows) = n + 1
  BY <1>1, FirmNoGap
<1>4. FreeRow(Billing, new) = n + 1
  <2>. PICK S : S = {new[i] : i \in 1..n}
    OBVIOUS
  <2>1. new \in Seq(S) /\ Len(new) = n
    BY <1>2 DEF Renamed
  <2>2. \A i \in 1..n : new[i][Id] # 0
    BY <1>1, <1>2, FirmIds DEF HaveIds, Numbers
  <2>3. n \in 0..Len(new)
    BY <2>1
  <2>4. FreeRow(Billing, new) \in (n + 1)..(Len(new) + 1)
    BY <1>1, <2>1, <2>2, <2>3, FreeBehind
  <2>. QED BY <2>1, <2>4
<1>5. \A i \in 1..n : new[i][Id] = rows[i][Id] /\ new[i][Buyer] = rows[i][Buyer]
  BY <1>2 DEF Id, Buyer
<1>6. n + 1 - 1 = n
  OBVIOUS
<1>. QED BY <1>3, <1>4, <1>5, <1>6 DEF OrdersOf

(* What a new name makes of the bills.                                     *)
LEMMA RenamedBills ==
    ASSUME NEW cmd, cmd.op = "EDIT_INFO", NEW id, NEW rows
    PROVE  Changed(cmd, id, rows)[Billing]
               = Renamed(Billing, rows[Billing], cmd.name, {cmd.buyer}, Buyer)
<1>1. Changed(cmd, id, rows) = buyerEdits(cmd, rows)
  BY DEF Changed
<1>. QED BY <1>1, TablesDiffer, TablesAre DEF buyerEdits, Billing, Customer, Orders

LEMMA SurviveBegins ==
    ASSUME NewIds \subseteq Numbers, IInv, FilesInv, FilesInv', SoundInv,
           NEW c \in Threads, NEW id \in NewIds, NEW rows, Begins(c, id, rows)
    PROVE  SurviveOf(c)'
<1>. PICK cmd \in Commands : cmd = command[c] /\ cmd.op # "VIEW"
  BY DEF Begins
<1>1. /\ command'[c] = cmd /\ text' = text /\ Loaded(cmd, rows) /\ ~\E t : Opens(c, t)'
      /\ Left(c)' = ToSet(Writes(cmd))
  BY DEF Begins, files, Opens, Left
<1>2. ASSUME NEW t \in Tables, t \in DOMAIN memory'[c]
      PROVE  /\ t \in DOMAIN Changed(cmd, id, rows) /\ memory'[c][t] = Changed(cmd, id, rows)[t]
             /\ AllReturn(t, text[t], rows[t]) /\ memory'[c][t] \in Seq(Row(t))
  <2>1. /\ t \in DOMAIN Changed(cmd, id, rows) /\ memory'[c][t] = Changed(cmd, id, rows)[t]
        /\ Readable(t, text[t])
    BY <1>2 DEF Begins
  <2>2. AllReturn(t, text[t], rows[t])
    BY <1>1, <2>1, LoadedFirm
  <2>3. memory'[c][t] \in Seq(Row(t))
    BY <1>2 DEF FilesInv, Typed
  <2>. QED BY <2>1, <2>2, <2>3
<1>3. \A t \in Tables : AllFirm(t, rows[t]) /\ rows[t] \in Seq(Row(t))
  BY <1>1, LoadedFirm DEF Loaded, RowsOfTables, Typed
<1>. PICK ids : ids = OrdersOf(cmd.buyer, rows[Billing])
  OBVIOUS
<1>4. ASSUME cmd.op = "EDIT_INFO", Billing \in DOMAIN memory'[c]
      PROVE  ids \subseteq TheirBills(c)' /\ DOMAIN memory'[c][Billing] = DOMAIN text[Billing]
  <2>1. memory'[c][Billing] = Renamed(Billing, rows[Billing], cmd.name, {cmd.buyer}, Buyer)
    <3>1. memory'[c][Billing] = Changed(cmd, id, rows)[Billing]
      BY <1>2, <1>4, TablesAre
    <3>2. Changed(cmd, id, rows)[Billing]
              = Renamed(Billing, rows[Billing], cmd.name, {cmd.buyer}, Buyer)
      BY <1>4, RenamedBills
    <3>. QED BY <3>1, <3>2
  <2>2. ids = OrdersOf(cmd.buyer, memory'[c][Billing])
    BY <1>3, <2>1, SameOrders, TablesAre
  <2>3. DOMAIN memory'[c][Billing] = DOMAIN rows[Billing]
    BY <2>1 DEF Renamed
  <2>4. DOMAIN rows[Billing] = DOMAIN text[Billing]
    BY <1>2, <1>4, TablesAre DEF AllReturn
  <2>. QED BY <1>1, <2>2, <2>3, <2>4 DEF TheirBills
<1>5. ASSUME NEW t \in Tables, WillWrite(c, t)' PROVE Survives(c, t)'
  <2>. PICK file \in TextFiles : file = text[t]
    BY DEF FilesInv
  <2>. PICK new : new = Changed(cmd, id, rows)[t]
    OBVIOUS
  <2>1. t \in DOMAIN memory'[c] /\ (t = Orders /\ cmd.op = "EDIT_INFO" => Billing \in DOMAIN memory'[c])
    BY <1>1, <1>5 DEF WillWrite
  <2>2. /\ t \in DOMAIN Changed(cmd, id, rows) /\ memory'[c][t] = new
        /\ AllReturn(t, file, rows[t])
    BY <1>2, <2>1
  <2>3. Careful(cmd, t, new, ids, rows[t])
    BY <1>1, <1>3, <2>2, CarefulCommand
  <2>4. ASSUME NEW i \in DOMAIN file
        PROVE  \/ Meant(cmd, t, new, TheirBills(c)', file[i])
               \/ Misread(t, file[i])
               \/ Rewritten(new, LineEnds(file) + 1, file[i])
    <3>. PICK r : r = rows[t][i]
      OBVIOUS
    <3>1. i \in DOMAIN rows[t] /\ Returns(t, file[i], r)
      BY <2>2, <2>4 DEF AllReturn
    <3>2. CASE Meant(cmd, t, new, ids, r)
      BY <1>4, <2>1, <3>1, <3>2, MeantLine
    <3>3. CASE Stays(new, rows[t], i) /\ ~Misread(t, file[i])
      <4>1. PICK k \in DOMAIN new : k <= i /\ new[k] = r
        BY <3>3 DEF Stays
      <4>2. LinesOf(new[k])[1] = Ended(file[i])
        BY <3>1, <3>3, <4>1 DEF Returns
      <4>3. i <= LineEnds(file) + 1 /\ i \in Nat /\ LineEnds(file) \in Nat
        BY LineEndsAre DEF TextFiles
      <4>4. k <= LineEnds(file) + 1
        <5>1. new \in Seq(Row(t))
          BY <1>2, <2>1, <2>2
        <5>. QED BY <4>1, <4>3, <5>1
      <4>. QED BY <4>2, <4>4 DEF Rewritten
    <3>. QED BY <2>3, <3>1, <3>2, <3>3 DEF Careful
  <2>. QED BY <1>1, <2>2, <2>4 DEF Survives
<1>6. KeepsBills(c)'
  <2>. SUFFICES ASSUME cmd.op = "EDIT_INFO" PROVE KeepsBills(c)'
    BY <1>1 DEF KeepsBills
  <2>1. Billing \in Left(c)'
    <3>1. Writes(cmd) = <<Customer, Billing, Orders>>
      BY DEF Writes, ProductOps
    <3>. QED BY <1>1, <3>1, ThreeLeft DEF ThreeOf
  <2>2. ASSUME WillWrite(c, Billing)'
        PROVE  Len(memory'[c][Billing]) <= LineEnds(text'[Billing]) + 1
    <3>. PICK file \in TextFiles : file = text[Billing]
      BY TablesAre DEF FilesInv
    <3>. PICK made : made = memory'[c][Billing]
      OBVIOUS
    <3>1. DOMAIN made = DOMAIN file /\ made \in Seq(Row(Billing))
      BY <1>2, <1>4, <2>2, TablesAre DEF WillWrite
    <3>2. Len(made) = Len(file) /\ Len(file) \in Nat
      <4>1. DOMAIN made = 1..Len(made) /\ Len(made) \in Nat
        BY <3>1
      <4>2. DOMAIN file = 1..Len(file) /\ Len(file) \in Nat
        BY DEF TextFiles
      <4>3. PICK n \in Nat, m \in Nat : n = Len(made) /\ m = Len(file)
        BY <4>1, <4>2
      <4>4. (n \in 1..n <=> n \in 1..m) /\ (m \in 1..n <=> m \in 1..m)
        BY <3>1, <4>1, <4>2, <4>3
      <4>. QED BY <4>3, <4>4
    <3>3. Len(file) <= LineEnds(file) + 1
      BY <3>2, LineEndsAre
    <3>. QED BY <1>1, <3>2, <3>3
  <2>. QED BY <1>1, <2>1, <2>2 DEF KeepsBills
<1>. QED BY <1>5, <1>6 DEF SurviveOf

(* A command writes the next table.                                        *)
LEMMA SurviveTruncates ==
    ASSUME IInv, FilesInv, IdsInv, TodoInv, SoundInv,
           NEW c \in Threads, SurviveOf(c), NEW u, Truncates(c, u)
    PROVE  SurviveOf(c)'
<1>1. /\ u \in Tables /\ text' = [text EXCEPT ![u] = <<>>] /\ text \in [Tables -> TextFiles]
      /\ command'[c] = command[c] /\ memory'[c] = memory[c] /\ Left(c)' = Left(c)
      /\ output'[c] = WriteBack(u, memory[c][u], text[u]) /\ u \in DOMAIN memory[c]
      /\ HasLocks(c) /\ HasLocks(c)' /\ \A t : ~Opens(c, t) /\ (Opens(c, t)' <=> t = u)
  BY DEF Truncates, FilesInv, Left, HasLocks, Opens
<1>2. u \in Left(c)
  <2>1. todo[c] # <<>> /\ NextIs(command[c], todo[c]) /\ u = Head(todo[c])
    BY <1>1, Writing DEF Truncates
  <2>. QED BY <2>1 DEF NextIs, Left
<1>3. ASSUME NEW t \in Tables, WillWrite(c, t)' PROVE WillWrite(c, t) /\ t # u
  BY <1>1, <1>3 DEF WillWrite
<1>4. ASSUME NEW t \in Tables, WillWrite(c, t)' PROVE Survives(c, t)'
  <2>1. text'[t] = text[t] /\ Survives(c, t)
    BY <1>1, <1>3, <1>4 DEF SurviveOf
  <2>. QED BY <1>1, <2>1, SurvivesStay
<1>5. KeepsBills(c)'
  <2>. SUFFICES ASSUME command[c].op = "EDIT_INFO" PROVE KeepsBills(c)'
    BY <1>1 DEF KeepsBills
  <2>1. CASE u = Billing
    <3>. PICK rows : rows = memory[c][Billing]
      OBVIOUS
    <3>. PICK file \in TextFiles : file = text[Billing]
      BY TablesAre DEF FilesInv
    <3>1. rows \in Seq(Row(Billing))
      BY <1>1, <2>1 DEF FilesInv, Typed
    <3>2. AllFirm(Billing, rows)
      <4>1. FirmRows(Billing, rows) /\ HaveIds(rows)
        BY <1>1, <2>1 DEF SoundInv, IdsInv, Records
      <4>2. BlankRow(Billing)[Id] = 0
        BY TablesAre, Widths DEF BlankRow, Id
      <4>. QED BY <4>1, <4>2 DEF AllFirm, FirmRows, HaveIds, Numbers
    <3>3. Len(rows) <= LineEnds(file) + 1
      <4>1. WillWrite(c, Billing)
        BY <1>1, <1>2, <2>1, TablesDiffer DEF WillWrite
      <4>. QED BY <1>1, <4>1 DEF SurviveOf, KeepsBills
    <3>4. OrdersOf(command[c].buyer, rows) \subseteq
              OrdersOf(command[c].buyer, Load(Billing, output'[c]))
      BY <1>1, <2>1, <3>1, <3>2, <3>3, BillsReadBack
    <3>5. BillsOf(c, output[c])'
      BY <1>1, <3>4 DEF BillsOf, TheirBills
    <3>. QED BY <1>1, <1>2, <2>1, <3>5 DEF KeepsBills, WillWrite
  <2>2. CASE u # Billing
    <3>1. text'[Billing] = text[Billing]
      BY <1>1, <2>2, TablesAre
    <3>2. BillsOf(c, text[Billing]) => BillsOf(c, text[Billing])'
      BY <1>1, <3>1 DEF BillsOf, TheirBills
    <3>. QED BY <1>1, <1>3, <2>2, <3>1, <3>2, TablesAre DEF KeepsBills, SurviveOf
  <2>. QED BY <2>1, <2>2
<1>. QED BY <1>4, <1>5 DEF SurviveOf

(* The table is in its file.                                               *)
LEMMA SurviveFlushes ==
    ASSUME IInv, FilesInv, TodoInv, NEW c \in Threads, SurviveOf(c), NEW u, Flushes(c, u)
    PROVE  SurviveOf(c)'
<1>1. /\ u \in Tables /\ text' = [text EXCEPT ![u] = output[c]] /\ text \in [Tables -> TextFiles]
      /\ command'[c] = command[c] /\ memory'[c] = memory[c]
      /\ HasLocks(c) /\ HasLocks(c)' /\ \A t : ~Opens(c, t)' /\ (Opens(c, t) <=> t = u)
  BY DEF Flushes, FilesInv, HasLocks, Opens
<1>2. /\ u \in Left(c) /\ u \in DOMAIN memory[c]
      /\ Left(c) = {u} \cup Left(c)' /\ u \notin Left(c)'
  <2>1. /\ todo[c] # <<>> /\ NextIs(command[c], todo[c]) /\ u = Head(todo[c])
        /\ todo'[c] = Tail(todo[c]) /\ u \in DOMAIN memory[c]
    BY <1>1, Writing DEF Flushes
  <2>. QED BY <2>1 DEF NextIs, Left
<1>3. ASSUME NEW t \in Tables, WillWrite(c, t)' PROVE WillWrite(c, t) /\ t # u
  BY <1>1, <1>2, <1>3 DEF WillWrite
<1>4. ASSUME NEW t \in Tables, WillWrite(c, t)' PROVE Survives(c, t)'
  <2>1. text'[t] = text[t] /\ Survives(c, t)
    BY <1>1, <1>3, <1>4 DEF SurviveOf
  <2>. QED BY <1>1, <2>1, SurvivesStay
<1>5. KeepsBills(c)'
  <2>. SUFFICES ASSUME command[c].op = "EDIT_INFO" PROVE KeepsBills(c)'
    BY <1>1 DEF KeepsBills
  <2>1. CASE u = Billing
    <3>1. text'[Billing] = output[c] /\ BillsOf(c, output[c])
      BY <1>1, <2>1 DEF KeepsBills, SurviveOf
    <3>2. BillsOf(c, text[Billing])'
      BY <1>1, <3>1 DEF BillsOf, TheirBills
    <3>. QED BY <1>1, <1>2, <2>1, <3>2 DEF KeepsBills, WillWrite
  <2>2. CASE u # Billing
    <3>1. text'[Billing] = text[Billing]
      BY <1>1, <2>2, TablesAre
    <3>2. BillsOf(c, text[Billing]) => BillsOf(c, text[Billing])'
      BY <1>1, <3>1 DEF BillsOf, TheirBills
    <3>. QED BY <1>1, <1>2, <1>3, <2>2, <3>1, <3>2, TablesAre DEF KeepsBills, SurviveOf
  <2>. QED BY <2>1, <2>2
<1>. QED BY <1>4, <1>5 DEF SurviveOf

LEMMA SurviveNext ==
    ASSUME NewIds \subseteq Numbers, IInv, FilesInv, FilesInv', IdsInv, TodoInv,
           SoundInv, SurviveInv, [Next]_vars
    PROVE  SurviveInv'
<1>. SUFFICES ASSUME NEW d \in Threads PROVE SurviveOf(d)'
  BY DEF SurviveInv
<1>0. SurviveOf(d)
  BY DEF SurviveInv
<1>1. CASE Quiet
  <2>1. text' = text /\ (Same(d) \/ Aside(d))
    BY <1>1 DEF Quiet, files
  <2>. QED BY <1>0, <2>1, SurviveAside
<1>2. CASE Stop
  <2>1. ~HasLocks(d)' /\ todo'[d] = <<>>
    BY <1>2, StopForgets
  <2>2. ToSet(<<>>) = {}
    BY DEF ToSet
  <2>3. Left(d)' = {}
    BY <2>1, <2>2 DEF Left
  <2>. QED BY <2>1, <2>3 DEF SurviveOf, KeepsBills, WillWrite
<1>3. ASSUME NEW c \in Threads, NEW id \in NewIds, NEW rows, Begins(c, id, rows)
      PROVE  SurviveOf(d)'
  <2>1. text' = text /\ (d # c => Same(d))
    BY <1>3 DEF Begins, OthersSame, files
  <2>2. CASE d = c
    BY <1>3, <2>2, SurviveBegins
  <2>3. CASE d # c
    BY <1>0, <2>1, <2>3, SurviveAside
  <2>. QED BY <2>2, <2>3
<1>4. ASSUME NEW c \in Threads, c # d, HasLocks(c), NEW t \in Locks(command[c]), Same(d),
             NEW file, text' = [text EXCEPT ![t] = file]
      PROVE  SurviveOf(d)'
  <2>1. HasLocks(d) => t \notin Locks(command[d])
    BY <1>4 DEF IInv, Exclusive
  <2>2. HasLocks(d) => Locks(command[d]) \subseteq Tables
    <3>1. HasLocks(d) => command[d] \in Commands /\ command[d].op # "VIEW"
      BY Writing
    <3>. QED BY <3>1, WritesItsLocks
  <2>3. HasLocks(d) => \A u \in Locks(command[d]) : text'[u] = text[u]
    BY <1>4, <2>1, <2>2 DEF FilesInv
  <2>. QED BY <1>0, <1>4, <2>3, SurviveAside
<1>5. ASSUME NEW c \in Threads, NEW t, Truncates(c, t) \/ Flushes(c, t) PROVE SurviveOf(d)'
  <2>1. CASE d = c
    BY <1>0, <1>5, <2>1, SurviveTruncates, SurviveFlushes
  <2>2. CASE d # c
    <3>1. Same(d) /\ HasLocks(c) /\ todo[c] # <<>> /\ t = Head(todo[c])
      BY <1>5, <2>2 DEF Truncates, Flushes, OthersSame, HasLocks
    <3>2. t \in Locks(command[c])
      BY <3>1, NextTable
    <3>3. \E file : text' = [text EXCEPT ![t] = file]
      BY <1>5 DEF Truncates, Flushes
    <3>. QED BY <1>4, <2>2, <3>1, <3>2, <3>3
  <2>. QED BY <2>1, <2>2
<1>6. ASSUME NEW c \in Threads, Answers(c) PROVE SurviveOf(d)'
  <2>1. CASE d = c
    <3>1. ToSet(<<>>) = {}
      BY DEF ToSet
    <3>2. ~HasLocks(d)' /\ Left(d)' = {}
      BY <1>6, <2>1, <3>1 DEF Answers, HasLocks, Left
    <3>. QED BY <3>2 DEF SurviveOf, KeepsBills, WillWrite
  <2>2. CASE d # c
    BY <1>0, <1>6, <2>2, SurviveAside DEF Answers, OthersSame, files
  <2>. QED BY <2>1, <2>2
<1>. QED BY <1>1, <1>2, <1>3, <1>5, <1>6, TheSteps

LEMMA SurviveInit == ASSUME Init PROVE SurviveInv
BY NothingStarted, NothingLeft DEF SurviveInv

(* A thread that has opened a file is about to write it.                   *)
LEMMA OpensOne ==
    ASSUME IInv, FilesInv, [Next]_vars, NEW c \in Threads,
           phase[c] = "writing", phase'[c] = "open"
    PROVE  Truncates(c, Head(todo[c]))
<1>1. ~Quiet /\ ~Stop
  BY StopForgets DEF Quiet, Same, Aside
<1>2. ASSUME NEW d \in Threads
      PROVE  /\ \A id \in NewIds : \A rows : ~Begins(d, id, rows)
             /\ \A t : ~Flushes(d, t) /\ (Truncates(d, t) => d = c /\ t = Head(todo[c]))
             /\ ~Answers(d)
  BY DEF Begins, Flushes, Truncates, Answers, OthersSame, Same
<1>. QED BY <1>1, <1>2, TheSteps

(* What a thread writes has the lines in it that it is not about.          *)
LEMMA LineIsWritten ==
    ASSUME IInv, FilesInv, TodoInv, SurviveInv, NEW c \in Threads,
           NEW t, Truncates(c, t), NEW i \in DOMAIN text[t]
    PROVE  \/ About(c, t, text[t][i]) \/ Misread(t, text[t][i])
           \/ Ended(text[t][i]) \in ToSet(output'[c])
<1>. PICK l : l = text[t][i]
  OBVIOUS
<1>1. /\ t \in Tables /\ t \in DOMAIN memory[c] /\ ~Opens(c, t) /\ HasLocks(c)
      /\ todo[c] # <<>> /\ t = Head(todo[c])
      /\ output'[c] = WriteBack(t, memory[c][t], text[t])
  BY DEF Truncates, Opens, HasLocks
<1>2. /\ todo[c] \in Rests(command[c]) /\ NextIs(command[c], todo[c])
      /\ command[c] \in Commands /\ command[c].op # "VIEW"
  BY <1>1, Writing
<1>3. t \in Left(c)
  BY <1>1, <1>2 DEF NextIs, Left
<1>4. ASSUME command[c].op = "EDIT_INFO"
      PROVE  /\ t = Orders => Billing \notin Left(c)
             /\ t \in {Customer, Billing, Orders}
  <2>1. todo[c] \in {<<Customer, Billing, Orders>>, <<Billing, Orders>>, <<Orders>>, <<>>}
    BY <1>2, <1>4, RestsAre
  <2>. QED BY <1>1, <2>1, OneLeft, TwoLeft, ThreeLeft, TablesDiffer, TablesAre
           DEF OneOf, TwoOf, ThreeOf, Left, Records
<1>5. ASSUME command[c].op = "EDIT_INFO", t = Orders
      PROVE  /\ Billing \in DOMAIN memory[c]
             /\ TheirBills(c) \subseteq OrdersOf(command[c].buyer, Load(Billing, text[Billing]))
  BY <1>1, <1>4, <1>5 DEF SurviveInv, SurviveOf, KeepsBills, BillsOf
<1>6. Survives(c, t)
  BY <1>1, <1>3, <1>5 DEF WillWrite, SurviveInv, SurviveOf
<1>7. CASE Meant(command[c], t, memory[c][t], TheirBills(c), l)
  BY <1>4, <1>5, <1>7, TablesDiffer, TablesAre DEF Meant, About, Records
<1>8. CASE Rewritten(memory[c][t], LineEnds(text[t]) + 1, l)
  <2>. PICK rows \in Seq(Row(t)) : rows = memory[c][t]
    BY <1>1 DEF FilesInv, Typed
  <2>. PICK n \in Nat : n = LineEnds(text[t]) + 1 /\ n # 0
    BY <1>1, LineEndsAre DEF FilesInv
  <2>1. PICK k \in DOMAIN rows : k <= n /\ LinesOf(rows[k])[1] = Ended(l)
    BY <1>8 DEF Rewritten
  <2>2. LinesOf(rows[k])[1] \in ToSet(Written(t, rows, n))
    BY <1>1, <2>1, WrittenHas
  <2>. QED BY <1>1, <2>1, <2>2 DEF WriteBack
<1>. QED BY <1>6, <1>7, <1>8 DEF Survives

(* A write-back truncates the file and writes it anew from what the        *)
(* command had loaded: no line that the command is not about, and in which *)
(* every number is one, is lost or changed by it, whatever the other       *)
(* threads do meanwhile and wherever the server was stopped before, though *)
(* a loader takes a line end for the contents of a column, an empty field  *)
(* moves those behind it, and as many rows are written as the file has     *)
(* line ends, and one.                                                     *)
THEOREM NoLineIsLost == IdsGiven /\ LinesGiven => (Spec => LinesSurvive)
<1> SUFFICES ASSUME IdsGiven, LinesGiven PROVE Spec => LinesSurvive
  OBVIOUS
<1> DEFINE Inv == IInv /\ FilesInv /\ IdsInv /\ TodoInv /\ SoundInv /\ SurviveInv
           LinesKept == \A c \in Threads :
                       (phase[c] = "writing" /\ phase'[c] = "open") =>
                           LET t == Head(todo[c]) IN
                           \A i \in DOMAIN text[t] :
                               \/ About(c, t, text[t][i]) \/ Misread(t, text[t][i])
                               \/ Ended(text[t][i]) \in ToSet(output'[c])
<1>1. NewIds \subseteq Numbers
  BY DEF IdsGiven, Numbers
<1>2. Init => Inv
  BY InvInit, FilesInit, IdsInit, TodoInit, SoundInit, SurviveInit
<1>3. Inv /\ [Next]_vars => Inv'
  BY <1>1, InvNext, FilesNext, IdsNext, TodoNext, SoundNext, SurviveNext
<1>4. Inv /\ [Next]_vars => [LinesKept]_vars
  BY OpensOne, LineIsWritten
<1>. QED BY <1>2, <1>3, <1>4, PTL DEF Spec, LinesSurvive

----------------------------------------------------------------------------
(* What was written is read back *)

FirstLines(rows, i) == \A k \in 1..(i - 1) : Len(LinesOf(rows[k])) = 1
ReadsBack(t, rows, file) ==
    \A i \in DOMAIN rows \cap DOMAIN file :
        FullRow(t, rows[i]) /\ FirstLines(rows, i) => Load(t, file)[i] = rows[i]

(* A full row is one line, of its fields.                                  *)
IsFull(r, w) ==
    /\ FieldsOf(r) \in Seq(Tokens) /\ Len(FieldsOf(r)) = w
    /\ \A j \in 1..w : FieldsOf(r)[j] = r[j] /\ r[j] # EOL
    /\ LinesOf(r) = <<Append(FieldsOf(r), EOL)>>

LEMMA FullLine ==
    ASSUME NEW t \in Tables, NEW r \in Row(t), FullRow(t, r)
    PROVE  IsFull(r, Width(t))
<1>. PICK w \in {4, 5} : w = Width(t) /\ DOMAIN Columns[t] = 1..w
  BY Widths
<1>. PICK fields : fields = FieldsOf(r)
  OBVIOUS
<1>1. PICK ss : PartsOf(r, ss, w)
  BY RowParts
<1>2. \A j \in 1..w : r[j] \in Kept /\ r[j] # EOL
  <2>1. Nat \ {0} \subseteq Kept /\ Texts \ {EOL, NoText} \subseteq Kept /\ EOL \notin Kept
    BY NumbersAre DEF Kept, Names, Fields, Numbers
  <2>. QED BY <2>1 DEF FullRow
<1>3. Len(fields) = w /\ \A j \in 1..w : fields[j] = r[j]
  <2>1. w \in 1..w /\ \A j \in 1..w : r[j] \in Kept \cup {EOL}
    BY <1>2
  <2>. QED BY <1>1, <2>1, FirstParts
<1>4. fields \in Seq(Tokens) /\ (fields # <<>> => Last(fields) = fields[Len(fields)])
  BY <1>1 DEF PartsOf, Last
<1>5. Last(fields) # EOL
  <2>1. w \in 1..w /\ fields # <<>>
    BY <1>3
  <2>. QED BY <1>2, <1>3, <1>4, <2>1
<1>6. LinesOf(r) = <<Append(fields, EOL)>>
  BY <1>5 DEF LinesOf, FieldsOf
<1>. QED BY <1>2, <1>3, <1>4, <1>6 DEF IsFull

(* A loader takes its line apart into the row.                             *)
LEMMA LineReadsBack ==
    ASSUME NEW t \in Tables, NEW r \in Row(t), FullRow(t, r),
           NEW file, NEW i \in DOMAIN file, file[i] = LinesOf(r)[1]
    PROVE  Load(t, file)[i] = r
<1>. PICK w \in {4, 5} : w = Width(t) /\ DOMAIN Columns[t] = 1..w
  BY Widths
<1>. PICK fields : fields = FieldsOf(r)
  OBVIOUS
<1>. PICK line : line = Append(fields, EOL)
  OBVIOUS
<1>1. /\ fields \in Seq(Tokens) /\ Len(fields) = w
      /\ \A j \in 1..w : fields[j] = r[j]
      /\ LinesOf(r) = <<line>>
  BY FullLine DEF IsFull
<1>2. EOL \in Tokens
  BY NumbersAre DEF Tokens
<1>3. OneBehind(line, fields, EOL)
  BY <1>1, <1>2, Appended
<1>4. file[i] = line /\ DOMAIN line = 1..(w + 1) /\ \A j \in 1..w : line[j] = r[j]
  BY <1>1, <1>3 DEF OneBehind
<1>5. ASSUME NEW j \in 1..w
      PROVE  (IF Columns[t][j] THEN atoi(Token(file[i], j)) ELSE Token(file[i], j)) = r[j]
  <2>1. Token(file[i], j) = r[j]
    BY <1>4 DEF Token
  <2>2. Columns[t][j] => r[j] \notin Texts
    BY TextsAssumption DEF FullRow
  <2>. QED BY <2>1, <2>2 DEF atoi
<1>6. Load(t, file)[i] = [j \in 1..w |->
                IF Columns[t][j] THEN atoi(Token(file[i], j)) ELSE Token(file[i], j)]
  BY DEF Load
<1>7. Load(t, file)[i] = [j \in 1..w |-> r[j]]
  BY <1>5, <1>6
<1>. QED BY <1>7 DEF Row

(* Behind rows of one line each, every row is in its place.                *)
LEMMA WrittenReadsBack ==
    ASSUME NEW t \in Tables, NEW rows \in Seq(Row(t)), NEW n \in Nat
    PROVE  ReadsBack(t, rows, Written(t, rows, n))
<1>. PICK file : file = Written(t, rows, n)
  OBVIOUS
<1>. PICK ss : ss = [i \in 1..n |-> LinesOf(RowAt(t, rows, i))]
  OBVIOUS
<1>1. ss \in [1..n -> Seq(EndedLines)] /\ file = FlattenSeq(ss)
  BY RowAtType, LinesOfType DEF Written
<1>2. file \in Seq(EndedLines)
  BY <1>1, FlattenType
<1>. SUFFICES ASSUME NEW i \in DOMAIN rows, i \in DOMAIN file,
                     FullRow(t, rows[i]), FirstLines(rows, i)
              PROVE  Load(t, file)[i] = rows[i]
  BY DEF ReadsBack
<1>3. i \in 1..Len(rows) /\ i \in 1..Len(file) /\ Len(rows) \in Nat /\ Len(file) \in Nat
  BY <1>2
<1>4. ASSUME NEW k \in 1..n, k <= i PROVE Len(ss[k]) = 1
  <2>1. k \in DOMAIN rows /\ ss[k] = LinesOf(rows[k])
    BY <1>3, <1>4 DEF RowAt
  <2>2. CASE k = i
    <3>1. PICK line : LinesOf(rows[i]) = <<line>>
      BY FullLine DEF IsFull
    <3>. QED BY <2>1, <2>2, <3>1
  <2>3. CASE k < i
    <3>1. k \in 1..(i - 1)
      BY <1>3, <2>3
    <3>. QED BY <2>1, <3>1 DEF FirstLines
  <2>. QED BY <1>3, <1>4, <2>2, <2>3
<1>5. i <= n
  <2>1. SUFFICES ASSUME i > n PROVE FALSE
    BY <1>3
  <2>2. CASE n = 0
    <3>1. ss \in [1..n -> {<<>>}]
      BY <1>1, <2>2
    <3>2. file = <<>>
      BY <1>1, <3>1, FlattenNothing
    <3>. QED BY <1>3, <3>2
  <2>3. CASE n # 0
    <3>1. n \in 1..n /\ \A k \in 1..n : Len(ss[k]) = 1
      BY <1>3, <1>4, <2>1, <2>3
    <3>2. Len(FlattenSeq(ss)) = n
      BY <1>1, <3>1, FlattenStarts
    <3>. QED BY <1>1, <1>3, <2>1, <3>2
  <2>. QED BY <2>2, <2>3
<1>6. i \in 1..n /\ \A k \in 1..i : Len(ss[k]) = 1
  <2>1. \A k \in 1..i : k \in 1..n /\ k <= i
    BY <1>3, <1>5
  <2>. QED BY <1>3, <1>4, <1>5, <2>1
<1>7. Starts(file, ss, i)
  BY <1>1, <1>6, FlattenStarts
<1>8. file[i] = LinesOf(rows[i])[1]
  <2>1. i \in 1..i /\ ss[i] = LinesOf(rows[i])
    BY <1>3, <1>6 DEF RowAt
  <2>. QED BY <1>7, <2>1 DEF Starts
<1>. QED BY <1>8, LineReadsBack

(* A command changes what it writes, and nothing else.                     *)
LEMMA ChangedWrites ==
    ASSUME NEW cmd \in Commands, cmd.op # "VIEW", NEW id, NEW rows,
           NEW t \in DOMAIN Changed(cmd, id, rows)
    PROVE  t \in ToSet(Writes(cmd))
<1>1. CASE cmd.op = "COMPLETE_ORDER"
  <2>1. Writes(cmd) = <<Product, Billing, Orders>>
    BY <1>1 DEF Writes, ProductOps
  <2>2. t \in {Product, Billing, Orders}
    BY <1>1 DEF Changed, completeAnOrder
  <2>. QED BY <2>1, <2>2, ThreeLeft DEF ThreeOf
<1>2. CASE cmd.op = "EDIT_INFO"
  <2>1. Writes(cmd) = <<Customer, Billing, Orders>>
    BY <1>2 DEF Writes, ProductOps
  <2>2. t \in {Customer, Billing, Orders}
    BY <1>2 DEF Changed, buyerEdits
  <2>. QED BY <2>1, <2>2, ThreeLeft DEF ThreeOf
<1>3. CASE cmd.op = "MOD_ORDER"
  <2>1. Writes(cmd) = <<Orders, Billing>>
    BY <1>3 DEF Writes, ProductOps
  <2>2. t \in {Orders, Billing}
    BY <1>3 DEF Changed, buyerModifiesOrder
  <2>. QED BY <2>1, <2>2, TwoLeft DEF TwoOf
<1>4. CASE cmd.op \in ProductOps
  <2>1. Writes(cmd) = <<Product>>
    BY <1>4 DEF Writes, ProductOps
  <2>2. t \in {Product}
    BY <1>4 DEF Changed, ProductOps
  <2>. QED BY <2>1, <2>2, OneLeft DEF OneOf
<1>5. CASE cmd.op \in {"NEW_CLIENT", "EDIT_ROW"}
  <2>1. Writes(cmd) = <<cmd.table>>
    BY <1>5 DEF Writes, ProductOps
  <2>2. t \in {cmd.table}
    BY <1>5 DEF Changed
  <2>. QED BY <2>1, <2>2, OneLeft DEF OneOf
<1>. QED BY <1>1, <1>2, <1>3, <1>4, <1>5, RequestFields DEF ProductOps

(* What a thread has written reads back while it has the locks; and so     *)
(* does what it is writing.                                                *)
BackOf(c) ==
    /\ ~HasLocks(c) => memory[c] = <<>>
    /\ HasLocks(c) => \A t \in Tables : t \in DOMAIN memory[c] =>
         /\ t \in Locks(command[c])
         /\ Opens(c, t) => ReadsBack(t, memory[c][t], output[c])
         /\ t \notin Left(c) => ReadsBack(t, memory[c][t], text[t])
BackInv == \A c \in Threads : BackOf(c)

LEMMA BackAside ==
    ASSUME NEW c \in Threads, BackOf(c), Same(c) \/ Aside(c),
           HasLocks(c) => \A t \in Locks(command[c]) : text'[t] = text[t]
    PROVE  BackOf(c)'
<1>1. CASE ~HasLocks(c)
  <2>1. ~HasLocks(c)' /\ memory'[c] = <<>>
    BY <1>1 DEF BackOf, Same, Aside, HasLocks
  <2>. QED BY <2>1 DEF BackOf
<1>2. CASE HasLocks(c)
  <2>1. /\ command'[c] = command[c] /\ memory'[c] = memory[c] /\ output'[c] = output[c]
        /\ HasLocks(c)' /\ Left(c)' = Left(c) /\ \A t : Opens(c, t)' <=> Opens(c, t)
    BY <1>2 DEF Same, Aside, HasLocks, Left, Opens
  <2>2. ASSUME NEW t \in Tables, t \in DOMAIN memory'[c]
        PROVE  /\ t \in Locks(command'[c])
               /\ Opens(c, t)' => ReadsBack(t, memory'[c][t], output'[c])
               /\ t \notin Left(c)' => ReadsBack(t, memory'[c][t], text'[t])
    BY <1>2, <2>1, <2>2 DEF BackOf
  <2>. QED BY <2>1, <2>2 DEF BackOf
<1>. QED BY <1>1, <1>2

LEMMA BackBegins ==
    ASSUME NEW c \in Threads, NEW id, NEW rows, Begins(c, id, rows)
    PROVE  BackOf(c)'
<1>. PICK cmd \in Commands : cmd = command[c] /\ cmd.op # "VIEW"
  BY DEF Begins
<1>1. command'[c] = cmd /\ Left(c)' = ToSet(Writes(cmd)) /\ HasLocks(c)' /\ \A t : ~Opens(c, t)'
  BY DEF Begins, Left, HasLocks, Opens
<1>2. ASSUME NEW t \in Tables, t \in DOMAIN memory'[c]
      PROVE  t \in Left(c)' /\ t \in Locks(command'[c])
  <2>1. t \in DOMAIN Changed(cmd, id, rows)
    BY <1>2 DEF Begins
  <2>2. t \in ToSet(Writes(cmd))
    BY <2>1, ChangedWrites
  <2>3. Writes(cmd) \in Seq(Locks(cmd))
    BY WritesItsLocks
  <2>4. t \in Locks(cmd)
    BY <2>2, <2>3 DEF ToSet
  <2>. QED BY <1>1, <2>2, <2>4
<1>. QED BY <1>1, <1>2 DEF BackOf

LEMMA BackTruncates ==
    ASSUME IInv, FilesInv, TodoInv, NEW c \in Threads, BackOf(c), NEW u, Truncates(c, u)
    PROVE  BackOf(c)'
<1>1. /\ u \in Tables /\ text' = [text EXCEPT ![u] = <<>>] /\ text \in [Tables -> TextFiles]
      /\ command'[c] = command[c] /\ memory'[c] = memory[c] /\ Left(c)' = Left(c)
      /\ output'[c] = WriteBack(u, memory[c][u], text[u]) /\ u \in DOMAIN memory[c]
      /\ HasLocks(c) /\ HasLocks(c)' /\ \A t : Opens(c, t)' <=> t = u
  BY DEF Truncates, FilesInv, Left, HasLocks, Opens
<1>2. u \in Left(c)
  <2>1. todo[c] # <<>> /\ NextIs(command[c], todo[c]) /\ u = Head(todo[c])
    BY <1>1, Writing DEF Truncates
  <2>. QED BY <2>1 DEF NextIs, Left
<1>3. ReadsBack(u, memory[c][u], output'[c])
  <2>1. memory[c][u] \in Seq(Row(u)) /\ text[u] \in TextFiles
    BY <1>1 DEF FilesInv, Typed
  <2>. PICK n \in Nat : n = LineEnds(text[u]) + 1
    BY <2>1, LineEndsAre
  <2>2. ReadsBack(u, memory[c][u], Written(u, memory[c][u], n))
    BY <1>1, <2>1, WrittenReadsBack
  <2>. QED BY <1>1, <2>2 DEF WriteBack
<1>4. ASSUME NEW t \in Tables, t \in DOMAIN memory[c]
      PROVE  /\ t \in Locks(command[c])
             /\ Opens(c, t)' => ReadsBack(t, memory[c][t], output'[c])
             /\ t \notin Left(c) => ReadsBack(t, memory[c][t], text'[t])
  BY <1>1, <1>2, <1>3, <1>4 DEF BackOf
<1>. QED BY <1>1, <1>4 DEF BackOf

LEMMA BackFlushes ==
    ASSUME IInv, FilesInv, TodoInv, NEW c \in Threads, BackOf(c), NEW u, Flushes(c, u)
    PROVE  BackOf(c)'
<1>1. /\ u \in Tables /\ text' = [text EXCEPT ![u] = output[c]] /\ text \in [Tables -> TextFiles]
      /\ command'[c] = command[c] /\ memory'[c] = memory[c]
      /\ HasLocks(c) /\ HasLocks(c)' /\ Opens(c, u) /\ \A t : ~Opens(c, t)'
  BY DEF Flushes, FilesInv, HasLocks, Opens
<1>2. Left(c) = {u} \cup Left(c)'
  <2>1. /\ todo[c] # <<>> /\ NextIs(command[c], todo[c]) /\ u = Head(todo[c])
        /\ todo'[c] = Tail(todo[c])
    BY <1>1, Writing DEF Flushes
  <2>. QED BY <2>1 DEF NextIs, Left
<1>3. ASSUME NEW t \in Tables, t \in DOMAIN memory[c]
      PROVE  /\ t \in Locks(command[c])
             /\ t \notin Left(c)' => ReadsBack(t, memory[c][t], text'[t])
  <2>1. CASE t = u
    BY <1>1, <1>3, <2>1 DEF BackOf
  <2>2. CASE t # u
    BY <1>1, <1>2, <1>3, <2>2 DEF BackOf
  <2>. QED BY <2>1, <2>2
<1>. QED BY <1>1, <1>3 DEF BackOf

LEMMA BackNext ==
    ASSUME IInv, FilesInv, TodoInv, BackInv, [Next]_vars
    PROVE  BackInv'
<1>. SUFFICES ASSUME NEW d \in Threads PROVE BackOf(d)'
  BY DEF BackInv
<1>0. BackOf(d)
  BY DEF BackInv
<1>1. CASE Quiet
  <2>1. text' = text /\ (Same(d) \/ Aside(d))
    BY <1>1 DEF Quiet, files
  <2>. QED BY <1>0, <2>1, BackAside
<1>2. CASE Stop
  <2>1. ~HasLocks(d)' /\ memory'[d] = <<>>
    BY <1>2, StopForgets
  <2>. QED BY <2>1 DEF BackOf
<1>3. ASSUME NEW c \in Threads, NEW id \in NewIds, NEW rows, Begins(c, id, rows)
      PROVE  BackOf(d)'
  <2>1. text' = text /\ (d # c => Same(d))
    BY <1>3 DEF Begins, OthersSame
  <2>2. CASE d = c
    BY <1>3, <2>2, BackBegins
  <2>3. CASE d # c
    BY <1>0, <2>1, <2>3, BackAside
  <2>. QED BY <2>2, <2>3
<1>4. ASSUME NEW c \in Threads, NEW t, Truncates(c, t) \/ Flushes(c, t) PROVE BackOf(d)'
  <2>1. CASE d = c
    BY <1>0, <1>4, <2>1, BackTruncates, BackFlushes
  <2>2. CASE d # c
    <3>1. Same(d) /\ HasLocks(c) /\ todo[c] # <<>> /\ t = Head(todo[c])
      BY <1>4, <2>2 DEF Truncates, Flushes, OthersSame, HasLocks
    <3>2. t \in Locks(command[c])
      BY <3>1, NextTable
    <3>3. HasLocks(d) => t \notin Locks(command[d])
      BY <2>2, <3>1, <3>2 DEF IInv, Exclusive
    <3>4. PICK file : text' = [text EXCEPT ![t] = file]
      BY <1>4 DEF Truncates, Flushes
    <3>5. HasLocks(d) => Locks(command[d]) \subseteq Tables
      <4>1. HasLocks(d) => command[d] \in Commands /\ command[d].op # "VIEW"
        BY Writing
      <4>. QED BY <4>1, WritesItsLocks
    <3>6. HasLocks(d) => \A u \in Locks(command[d]) : text'[u] = text[u]
      BY <3>3, <3>4, <3>5 DEF FilesInv
    <3>. QED BY <1>0, <3>1, <3>6, BackAside
  <2>. QED BY <2>1, <2>2
<1>5. ASSUME NEW c \in Threads, Answers(c) PROVE BackOf(d)'
  <2>1. CASE d = c
    <3>1. ~HasLocks(d)' /\ memory'[d] = <<>>
      BY <1>5, <2>1 DEF Answers, HasLocks
    <3>. QED BY <3>1 DEF BackOf
  <2>2. CASE d # c
    BY <1>0, <1>5, <2>2, BackAside DEF Answers, OthersSame, files
  <2>. QED BY <2>1, <2>2
<1>. QED BY <1>1, <1>2, <1>3, <1>4, <1>5, TheSteps

LEMMA BackInit == ASSUME Init PROVE BackInv
BY NothingStarted DEF BackInv, BackOf

LEMMA BackFollows == ASSUME BackInv PROVE RowsReadBack
<1>1. ASSUME NEW c \in Threads, NEW t \in Tables, t \in DOMAIN memory[c], t \notin ToSet(todo[c])
      PROVE  ReadsBack(t, memory[c][t], text[t])
  <2>1. memory[c] # <<>>
    BY <1>1
  <2>. QED BY <1>1, <2>1 DEF BackInv, BackOf, Left
<1>. QED BY <1>1 DEF RowsReadBack, ReadsBack, FirstLines

(* Of what a command has written a loader makes the rows that it had in    *)
(* memory, though fields that hold nothing leave no token, and a row whose *)
(* last column holds a line end becomes two lines; and nothing is written  *)
(* over it before the command is answered.                                 *)
THEOREM RowsAreReadBack == Spec => []RowsReadBack
<1> DEFINE Inv == IInv /\ FilesInv /\ TodoInv /\ BackInv
<1>1. Init => Inv
  BY InvInit, FilesInit, TodoInit, BackInit
<1>2. Inv /\ [Next]_vars => Inv'
  BY InvNext, FilesNext, TodoNext, BackNext
<1>3. Inv => RowsReadBack
  BY BackFollows
<1>. QED BY <1>1, <1>2, <1>3, PTL DEF Spec
=============================================================================
