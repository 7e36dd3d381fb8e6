----------------------------- MODULE ShopProofs -----------------------------
(***************************************************************************)
(* What holds of the files of Shop, for any requests, files and threads.   *)
(*                                                                         *)
(* Their locks: commands that share a table have it one after the other,   *)
(* and nobody writes a table between another command's loads and its       *)
(* answer.  Their text: every file, whatever is written, is made of lines  *)
(* that end behind their last token, only the last of which may lack its   *)
(* end; the proofs of what becomes of the records and lines rest on it.    *)
(*                                                                         *)
(* What a command makes of the rows is computed by folds over sequences    *)
(* and by searches.  The induction they call for is done with the least    *)
(* counterexample (LeastNat); each fold is named, so that the provers need *)
(* not look into it.                                                       *)
(***************************************************************************)
EXTENDS Shop, TLAPS, SequenceTheorems, WellFoundedInduction, FiniteSetTheorems

----------------------------------------------------------------------------
(* The inductive invariant *)

Types ==
    /\ command \in [Threads -> Commands \cup {NoCommand}]
    /\ phase \in [Threads -> {"idle", "reading", "accepted", "writing", "open"}]
    /\ todo \in [Threads -> Seq(Tables)]
    /\ DOMAIN text = Tables
    /\ torn \subseteq Tables /\ spoilt \subseteq DOMAIN ledger
    /\ taken \in 0..MaxCommands /\ crashes \in 0..MaxCrashes

(* Only a request that changes something gets to the locks, and what it    *)
(* has still to write is of the tables it locked.                          *)
Progress(c) ==
    /\ phase[c] = "idle" <=> command[c] = NoCommand
    /\ phase[c] \in {"accepted", "writing", "open"} => command[c].op # "VIEW"
    /\ IF HasLocks(c) THEN todo[c] \in Seq(Locks(command[c])) ELSE todo[c] = <<>>
    /\ phase[c] = "open" => todo[c] # <<>>

Exclusive ==
    \A c, d \in Threads :
        c # d /\ HasLocks(c) /\ HasLocks(d) =>
            Locks(command[c]) \cap Locks(command[d]) = {}

IInv == Types /\ (\A c \in Threads : Progress(c)) /\ Exclusive

----------------------------------------------------------------------------
LEMMA ShortTuples ==
    ASSUME NEW S, NEW x \in S, NEW y \in S, NEW z \in S
    PROVE  <<x>> \in Seq(S) /\ <<x, y>> \in Seq(S) /\ <<x, y, z>> \in Seq(S)
OBVIOUS

(* What is made of some is made of more.                                   *)
LEMMA SeqSubset == ASSUME NEW S, NEW T, S \subseteq T, NEW s \in Seq(S) PROVE s \in Seq(T)
OBVIOUS

(* What a request holds.                                                   *)
LEMMA RequestFields ==
    ASSUME NEW cmd \in Commands
    PROVE  /\ cmd.op \in {"COMPLETE_ORDER", "MOD_ORDER", "EDIT_INFO", "EDIT_ROW", "NEW_CLIENT",
                          "NEW_PRODUCT", "DELETE_PROD", "MOD_QUANT", "MOD_PRICE", "VIEW"}
           /\ cmd.op = "COMPLETE_ORDER" =>
                /\ cmd.buyer \in Int
                /\ cmd.lines \in Seq([item : Int, quantity : Int, price : Int])
           /\ cmd.op \in {"EDIT_INFO", "EDIT_ROW"} =>
                cmd.column \in {Name, Phone, Address} /\ cmd.name \in Fields
           /\ cmd.op \in {"NEW_CLIENT", "EDIT_ROW"} => cmd.table \in {Customer, Sellers}
           /\ cmd.op = "NEW_CLIENT" => cmd.name \in Fields /\ cmd.address \in Fields
           /\ cmd.op = "NEW_PRODUCT" =>
                /\ cmd.name \in Fields
                /\ cmd.seller \in Int /\ cmd.quantity \in Int /\ cmd.price \in Int
           /\ cmd.op = "MOD_QUANT" => cmd.quantity \in Int
           /\ cmd.op = "MOD_PRICE" => cmd.price \in Int
<1>1. cmd \in Requests
  BY CommandsAssumption
<1>2. Valid \subseteq Int
  BY DEF Valid
<1>3. [item : Valid, quantity : Int, price : Int] \subseteq [item : Int, quantity : Int, price : Int]
  BY <1>2
<1>4. cmd.op = "COMPLETE_ORDER" => cmd.lines \in Seq([item : Valid, quantity : Int, price : Int])
  BY <1>1 DEF Requests
<1>5. cmd.op = "COMPLETE_ORDER" => cmd.lines \in Seq([item : Int, quantity : Int, price : Int])
  BY <1>3, <1>4, SeqSubset
<1>. QED BY <1>1, <1>2, <1>5 DEF Requests

(* A command writes only tables it locks, and locks only tables.           *)
LEMMA WritesItsLocks ==
    ASSUME NEW cmd \in Commands, cmd.op # "VIEW"
    PROVE  Writes(cmd) \in Seq(Locks(cmd)) /\ Locks(cmd) \subseteq Tables
<1>1. /\ cmd.op \in {"COMPLETE_ORDER", "MOD_ORDER", "EDIT_INFO", "EDIT_ROW", "NEW_CLIENT",
                     "NEW_PRODUCT", "DELETE_PROD", "MOD_QUANT", "MOD_PRICE"}
      /\ cmd.op \in {"NEW_CLIENT", "EDIT_ROW"} => cmd.table \in {Customer, Sellers}
  BY RequestFields
<1>2. CASE cmd.op = "COMPLETE_ORDER"
  <2>1. Writes(cmd) = <<Product, Billing, Orders>>
    BY <1>2 DEF Writes, ProductOps
  <2>2. Locks(cmd) = {Product, Billing, Orders}
    BY <1>2 DEF Locks, ProductOps
  <2>3. Product \in Locks(cmd) /\ Billing \in Locks(cmd) /\ Orders \in Locks(cmd)
    BY <2>2
  <2>4. Locks(cmd) \subseteq Tables
    BY <2>2 DEF Tables
  <2>. QED BY <2>1, <2>3, <2>4, ShortTuples
<1>3. CASE cmd.op = "MOD_ORDER"
  <2>1. Writes(cmd) = <<Orders, Billing>>
    BY <1>3 DEF Writes, ProductOps
  <2>2. Locks(cmd) = {Billing, Orders}
    BY <1>3 DEF Locks, ProductOps
  <2>3. Billing \in Locks(cmd) /\ Orders \in Locks(cmd)
    BY <2>2
  <2>4. Locks(cmd) \subseteq Tables
    BY <2>2 DEF Tables
  <2>. QED BY <2>1, <2>3, <2>4, ShortTuples
<1>4. CASE cmd.op = "EDIT_INFO"
  <2>1. Writes(cmd) = <<Customer, Billing, Orders>>
    BY <1>4 DEF Writes, ProductOps
  <2>2. Locks(cmd) = {Customer, Billing, Orders}
    BY <1>4 DEF Locks, ProductOps
  <2>3. Customer \in Locks(cmd) /\ Billing \in Locks(cmd) /\ Orders \in Locks(cmd)
    BY <2>2
  <2>4. Locks(cmd) \subseteq Tables
    BY <2>2 DEF Tables
  <2>. QED BY <2>1, <2>3, <2>4, ShortTuples
<1>5. CASE cmd.op \in ProductOps
  <2>1. Locks(cmd) = {Product} /\ Writes(cmd) = <<Product>>
    BY <1>5 DEF Locks, Writes, ProductOps
  <2>. QED BY <2>1, ShortTuples DEF Tables
<1>6. CASE cmd.op \in {"NEW_CLIENT", "EDIT_ROW"}
  <2>1. Locks(cmd) = {cmd.table} /\ Writes(cmd) = <<cmd.table>>
    BY <1>6 DEF Locks, Writes, ProductOps
  <2>. QED BY <1>1, <1>6, <2>1, ShortTuples DEF Tables
<1>. QED BY <1>1, <1>2, <1>3, <1>4, <1>5, <1>6 DEF ProductOps

LEMMA NoCommandIsNone == NoCommand \notin Commands
<1>1. NoCommand.op = "none"
  BY DEF NoCommand
<1>. QED BY <1>1, RequestFields

(* The next table a command writes is one it locked.                       *)
LEMMA NextTable ==
    ASSUME IInv, NEW c \in Threads, HasLocks(c), todo[c] # <<>>
    PROVE  /\ Head(todo[c]) \in Locks(command[c]) /\ Head(todo[c]) \in Tables
           /\ Tail(todo[c]) \in Seq(Locks(command[c])) /\ Tail(todo[c]) \in Seq(Tables)
<1>1. todo[c] \in Seq(Locks(command[c])) /\ todo[c] \in Seq(Tables)
  BY DEF IInv, Types, Progress
<1>. QED BY <1>1, HeadTailProperties

(* A step of one thread leaves the others where they were.                 *)
Others(c) ==
    \A d \in Threads : d # c =>
        command'[d] = command[d] /\ phase'[d] = phase[d] /\ todo'[d] = todo[d]

LEMMA OthersStay ==
    ASSUME IInv, NEW c \in Threads, Others(c), Types', Progress(c)',
           HasLocks(c)' =>
               \/ HasLocks(c) /\ command'[c] = command[c]
               \/ MayLock(command'[c])
    PROVE  IInv'
<1>1. \A d \in Threads : d # c => Progress(d)'
  BY DEF Others, IInv, Progress, HasLocks
<1>2. ASSUME NEW d \in Threads, d # c, HasLocks(c)', HasLocks(d)'
      PROVE  Locks(command'[c]) \cap Locks(command'[d]) = {}
  <2>1. HasLocks(d) /\ command'[d] = command[d]
    BY <1>2 DEF Others, HasLocks
  <2>2. Locks(command[d]) \subseteq Held
    BY <2>1 DEF Held
  <2>3. MayLock(command'[c]) => Locks(command'[c]) \cap Locks(command[d]) = {}
    BY <2>2 DEF MayLock
  <2>. QED BY <1>2, <2>1, <2>3 DEF IInv, Exclusive
<1>3. ASSUME NEW d \in Threads, NEW e \in Threads, d # e, d # c, e # c,
             HasLocks(d)', HasLocks(e)'
      PROVE  Locks(command'[d]) \cap Locks(command'[e]) = {}
  BY <1>3 DEF Others, HasLocks, IInv, Exclusive
<1>4. Exclusive'
  <2> SUFFICES ASSUME NEW d \in Threads, NEW e \in Threads, d # e, HasLocks(d)', HasLocks(e)'
               PROVE  Locks(command'[d]) \cap Locks(command'[e]) = {}
    BY DEF Exclusive, Locks, ProductOps
  <2>1. CASE d = c
    BY <1>2, <2>1
  <2>2. CASE e = c
    BY <1>2, <2>2
  <2>3. CASE d # c /\ e # c
    BY <1>3, <2>3
  <2>. QED BY <2>1, <2>2, <2>3
<1>. QED BY <1>1, <1>4 DEF IInv

----------------------------------------------------------------------------
(* Every step preserves the invariant *)

(* A stop ends all threads; what was open for writing is a table.          *)
LEMMA StopInv ==
    ASSUME IInv, Stop, crashes' \in 0..MaxCrashes PROVE IInv'
<1>1. torn' \subseteq Tables
  <2>1. ASSUME NEW c \in Threads, phase[c] = "open" PROVE Head(todo[c]) \in Tables
    BY <2>1, NextTable DEF IInv, Progress, HasLocks
  <2>2. Ahead \subseteq Tables
    BY DEF Ahead, Tables
  <2>. QED BY <2>1, <2>2 DEF Stop, IInv, Types
<1>2. Types'
  BY <1>1 DEF Stop, IInv, Types
<1>3. \A c \in Threads : command'[c] = NoCommand /\ phase'[c] = "idle" /\ todo'[c] = <<>>
  BY DEF Stop
<1>4. \A c \in Threads : ~HasLocks(c)'
  BY <1>3 DEF HasLocks
<1>. QED BY <1>2, <1>3, <1>4 DEF IInv, Progress, Exclusive

(* A thread that has no locks after its step.                              *)
LEMMA Unlocked ==
    ASSUME IInv, NEW c \in Threads,
           NEW s \in {"idle", "reading", "accepted"}, phase' = [phase EXCEPT ![c] = s],
           NEW cmd \in Commands \cup {NoCommand}, command' = [command EXCEPT ![c] = cmd],
           s = "idle" <=> cmd = NoCommand, s = "accepted" => cmd.op # "VIEW",
           todo' = todo, todo[c] = <<>>, taken' \in 0..MaxCommands,
           UNCHANGED <<text, torn, spoilt, ledger, crashes>>
    PROVE  IInv'
<1>1. Types'
  BY DEF IInv, Types
<1>2. phase'[c] = s /\ command'[c] = cmd /\ todo'[c] = <<>>
  BY DEF IInv, Types
<1>3. Progress(c)' /\ ~HasLocks(c)'
  BY <1>2 DEF Progress, HasLocks
<1>4. Others(c)
  BY DEF Others, IInv, Types
<1>. QED BY <1>1, <1>3, <1>4, OthersStay

LEMMA TakeInv == ASSUME IInv, NEW c \in Threads, Take(c) PROVE IInv'
<1>1. PICK cmd \in Commands : command' = [command EXCEPT ![c] = cmd]
  BY DEF Take
<1>2. command'[c] = cmd /\ cmd # NoCommand /\ phase[c] = "idle"
  BY <1>1, NoCommandIsNone DEF Take, IInv, Types
<1>3. PICK s : s = IF cmd.op \in {"VIEW", "DELETE_PROD", "MOD_QUANT", "MOD_PRICE"}
                   THEN "reading" ELSE "accepted"
  OBVIOUS
<1>4. phase' = [phase EXCEPT ![c] = s]
  BY <1>2, <1>3 DEF Take, Become
<1>5. todo[c] = <<>>
  BY <1>2 DEF IInv, Progress, HasLocks
<1>6. taken' \in 0..MaxCommands
  BY BoundsAssumption DEF Take, IInv, Types
<1>7. s \in {"reading", "accepted"} /\ (s = "accepted" => cmd.op # "VIEW")
  BY <1>3
<1>. QED BY <1>1, <1>2, <1>4, <1>5, <1>6, <1>7, Unlocked DEF Take, files

(* Who has read or was refused has nothing to write.                       *)
LEMMA LeaveInv ==
    ASSUME IInv, NEW c \in Threads, Leave(c), todo[c] = <<>>,
           UNCHANGED <<files, todo, taken, crashes>>
    PROVE  IInv'
<1>1. /\ phase' = [phase EXCEPT ![c] = "idle"]
      /\ command' = [command EXCEPT ![c] = NoCommand]
  BY DEF Leave, Become
<1>2. taken' \in 0..MaxCommands
  BY DEF IInv, Types
<1>. QED BY <1>1, <1>2, Unlocked DEF files

LEMMA ReadInv == ASSUME IInv, NEW c \in Threads, Read(c) PROVE IInv'
<1>1. phase[c] = "reading"
  BY DEF Read
<1>2. todo[c] = <<>> /\ command[c] # NoCommand /\ command[c] \in Commands \cup {NoCommand}
  BY <1>1 DEF IInv, Types, Progress, HasLocks
<1>3. CASE Stop /\ UNCHANGED crashes
  BY <1>3, StopInv DEF IInv, Types
<1>4. CASE Leave(c) /\ UNCHANGED <<files, todo, taken, crashes>>
  BY <1>2, <1>4, LeaveInv
<1>5. CASE /\ Become(c, "accepted") /\ command[c].op # "VIEW"
           /\ UNCHANGED <<files, todo, command, taken, crashes>>
  <2>1. phase' = [phase EXCEPT ![c] = "accepted"]
    BY <1>5 DEF Become
  <2>2. command' = [command EXCEPT ![c] = command[c]]
    BY <1>5 DEF IInv, Types
  <2>3. taken' \in 0..MaxCommands
    BY <1>5 DEF IInv, Types
  <2>. QED BY <1>2, <1>5, <2>1, <2>2, <2>3, Unlocked DEF files
<1>. QED BY <1>3, <1>4, <1>5 DEF Read

LEMMA RefuseInv == ASSUME IInv, NEW c \in Threads, Refuse(c) PROVE IInv'
<1>1. phase[c] = "accepted" /\ Leave(c) /\ UNCHANGED <<files, todo, taken, crashes>>
  BY DEF Refuse
<1>2. todo[c] = <<>>
  BY <1>1 DEF IInv, Progress, HasLocks
<1>. QED BY <1>1, <1>2, LeaveInv

LEMMA BeginInv == ASSUME IInv, NEW c \in Threads, Begin(c) PROVE IInv'
<1>1. CASE Stop /\ UNCHANGED crashes
  BY <1>1, StopInv DEF IInv, Types
<1>2. CASE /\ phase[c] = "accepted" /\ MayLock(command[c])
           /\ todo' = [todo EXCEPT ![c] = Writes(command[c])]
           /\ Become(c, "writing")
           /\ spoilt' = spoilt \/ \E id \in NewIds : spoilt' = spoilt \cup ({id} \cap DOMAIN ledger)
           /\ UNCHANGED <<text, torn, ledger, command, taken, crashes>>
  <2>1. command[c] \in Commands /\ command[c].op # "VIEW" /\ command[c] # NoCommand
    BY <1>2 DEF IInv, Types, Progress
  <2>2. /\ Writes(command[c]) \in Seq(Locks(command[c]))
        /\ Locks(command[c]) \subseteq Tables
    BY <2>1, WritesItsLocks
  <2>3. Writes(command[c]) \in Seq(Tables)
    BY <2>2
  <2>4. phase' = [phase EXCEPT ![c] = "writing"]
    BY <1>2 DEF Become
  <2>5. Types'
    <3>1. spoilt' \subseteq DOMAIN ledger'
      BY <1>2 DEF IInv, Types
    <3>. QED BY <1>2, <2>3, <2>4, <3>1 DEF IInv, Types
  <2>6. phase'[c] = "writing" /\ command'[c] = command[c] /\ todo'[c] = Writes(command[c])
    BY <1>2, <2>4 DEF IInv, Types
  <2>7. Progress(c)'
    BY <2>1, <2>2, <2>6 DEF Progress, HasLocks, Locks, ProductOps
  <2>8. Others(c)
    BY <1>2, <2>4 DEF Others, IInv, Types
  <2>. QED BY <1>2, <2>5, <2>6, <2>7, <2>8, OthersStay
<1>. QED BY <1>1, <1>2 DEF Begin

LEMMA TruncateInv == ASSUME IInv, NEW c \in Threads, Truncate(c) PROVE IInv'
<1>1. CASE Stop /\ UNCHANGED crashes
  BY <1>1, StopInv DEF IInv, Types
<1>2. CASE /\ phase[c] = "writing" /\ todo[c] # <<>> /\ Become(c, "open")
           /\ text' = [text EXCEPT ![Head(todo[c])] = <<>>]
           /\ UNCHANGED <<command, todo, taken, crashes, torn, ledger, spoilt>>
  <2>1. phase' = [phase EXCEPT ![c] = "open"] /\ HasLocks(c)
    BY <1>2 DEF Become, HasLocks
  <2>2. Types'
    BY <1>2, <2>1 DEF IInv, Types
  <2>3. phase'[c] = "open" /\ command'[c] = command[c] /\ todo'[c] = todo[c]
    BY <1>2, <2>1 DEF IInv, Types
  <2>4. Progress(c)'
    BY <1>2, <2>1, <2>3 DEF IInv, Progress, HasLocks
  <2>5. Others(c)
    BY <1>2, <2>1 DEF Others, IInv, Types
  <2>. QED BY <2>1, <2>2, <2>3, <2>4, <2>5, OthersStay
<1>. QED BY <1>1, <1>2 DEF Truncate

(* The history keeps its products.                                         *)
LEMMA LedgerKeeps ==
    ASSUME NEW cmd, NEW rows PROVE DOMAIN NewLedger(cmd, rows) = DOMAIN ledger
<1>1. CASE cmd.op = "COMPLETE_ORDER"
  BY <1>1 DEF NewLedger
<1>2. CASE cmd.op = "MOD_QUANT" /\ cmd.item \in DOMAIN ledger /\ IsOwner(cmd, rows)
  BY <1>2 DEF NewLedger
<1>3. CASE /\ cmd.op # "COMPLETE_ORDER"
           /\ ~(cmd.op = "MOD_QUANT" /\ cmd.item \in DOMAIN ledger /\ IsOwner(cmd, rows))
  BY <1>3 DEF NewLedger
<1>. QED BY <1>1, <1>2, <1>3

LEMMA FlushInv == ASSUME IInv, NEW c \in Threads, Flush(c) PROVE IInv'
<1>1. /\ phase[c] = "open" /\ phase' = [phase EXCEPT ![c] = "writing"]
      /\ todo' = [todo EXCEPT ![c] = Tail(@)] /\ command' = command
      /\ text' = [text EXCEPT ![Head(todo[c])] = output[c]]
      /\ taken' = taken /\ crashes' = crashes /\ torn' = torn
  BY DEF Flush, Become
<1>2. HasLocks(c) /\ todo[c] # <<>>
  BY <1>1 DEF HasLocks, IInv, Progress
<1>3. Tail(todo[c]) \in Seq(Locks(command[c])) /\ Tail(todo[c]) \in Seq(Tables)
  BY <1>2, NextTable
<1>4. spoilt' \subseteq DOMAIN ledger'
  <2>1. DOMAIN ledger' = DOMAIN ledger
    BY LedgerKeeps DEF Flush
  <2>2. spoilt' = spoilt \cup {p \in DOMAIN ledger' : ledger'[p] <= 0}
    BY DEF Flush
  <2>. QED BY <2>1, <2>2 DEF IInv, Types
<1>5. Types'
  BY <1>1, <1>3, <1>4 DEF IInv, Types
<1>6. phase'[c] = "writing" /\ command'[c] = command[c] /\ todo'[c] = Tail(todo[c])
  BY <1>1 DEF IInv, Types
<1>7. Progress(c)'
  BY <1>1, <1>3, <1>6 DEF IInv, Progress, HasLocks, Locks, ProductOps
<1>8. Others(c)
  BY <1>1 DEF Others, IInv, Types
<1>. QED BY <1>2, <1>5, <1>6, <1>7, <1>8, OthersStay

LEMMA AnswerInv == ASSUME IInv, NEW c \in Threads, Answer(c) PROVE IInv'
BY LeaveInv DEF Answer

LEMMA InvNext == ASSUME IInv, [Next]_vars PROVE IInv'
<1>1. CASE UNCHANGED vars
  <2>1. /\ command' = command /\ phase' = phase /\ todo' = todo /\ text' = text
        /\ taken' = taken /\ crashes' = crashes /\ torn' = torn
        /\ spoilt' = spoilt /\ ledger' = ledger
    BY <1>1 DEF vars
  <2>2. Types'
    BY <2>1 DEF IInv, Types
  <2>3. \A c \in Threads : Progress(c)'
    BY <2>1 DEF IInv, Progress, HasLocks
  <2>4. Exclusive'
    BY <2>1 DEF IInv, Exclusive, HasLocks
  <2>. QED BY <2>2, <2>3, <2>4 DEF IInv
<1>2. CASE Crash
  <2>1. crashes' \in 0..MaxCrashes
    BY <1>2, BoundsAssumption DEF Crash, IInv, Types
  <2>. QED BY <1>2, <2>1, StopInv DEF Crash
<1>. QED BY <1>1, <1>2, TakeInv, ReadInv, RefuseInv, BeginInv, TruncateInv, FlushInv, AnswerInv
         DEF Next

LEMMA InvInit == Init => IInv
<1> SUFFICES ASSUME Init PROVE IInv
  OBVIOUS
<1>1. Types
  BY FilesAssumption, BoundsAssumption DEF Init, Types
<1>2. \A c \in Threads : ~HasLocks(c)
  BY DEF Init, HasLocks
<1>. QED BY <1>1, <1>2 DEF Init, IInv, Progress, Exclusive

LEMMA TypeFollows == ASSUME IInv PROVE TypeOK
BY DEF IInv, Types, Progress, Exclusive, TypeOK

(* Threads that are changing tables hold different locks, whatever they    *)
(* are changing, and after a crash and a restart too.                      *)
THEOREM TypeCorrect == Spec => []TypeOK
BY InvInit, InvNext, TypeFollows, PTL DEF Spec

----------------------------------------------------------------------------
(* What one thread has locked, the steps of the others leave alone.        *)
LEMMA StepKeepsOut ==
    ASSUME IInv, [Next]_vars, NEW c \in Threads, NEW t \in Tables,
           HasLocks(c), t \in Locks(command[c]), phase'[c] = phase[c]
    PROVE  text'[t] = text[t]
<1>1. ASSUME NEW d \in Threads, HasLocks(d), todo[d] # <<>>, phase'[d] # phase[d],
             NEW file, text' = [text EXCEPT ![Head(todo[d])] = file]
      PROVE  text'[t] = text[t]
  <2>1. Head(todo[d]) \in Locks(command[d]) /\ d # c
    BY <1>1, NextTable
  <2>2. Head(todo[d]) # t
    BY <1>1, <2>1 DEF IInv, Exclusive
  <2>. QED BY <1>1, <2>2
<1>2. ASSUME NEW d \in Threads, Truncate(d) PROVE text'[t] = text[t]
  <2>1. CASE text' = text
    BY <2>1
  <2>2. CASE /\ phase[d] = "writing" /\ todo[d] # <<>> /\ Become(d, "open")
             /\ text' = [text EXCEPT ![Head(todo[d])] = <<>>]
    <3>1. HasLocks(d) /\ phase'[d] # phase[d]
      BY <2>2 DEF HasLocks, Become, IInv, Types
    <3>. QED BY <1>1, <2>2, <3>1
  <2>. QED BY <1>2, <2>1, <2>2 DEF Truncate, Stop
<1>3. ASSUME NEW d \in Threads, Flush(d) PROVE text'[t] = text[t]
  <2>1. phase[d] = "open" /\ text' = [text EXCEPT ![Head(todo[d])] = output[d]]
    BY <1>3 DEF Flush
  <2>2. HasLocks(d) /\ todo[d] # <<>> /\ phase'[d] # phase[d]
    BY <1>3, <2>1 DEF Flush, HasLocks, Become, IInv, Types, Progress
  <2>. QED BY <1>1, <2>1, <2>2
<1>4. ASSUME NEW d \in Threads, Take(d) \/ Read(d) \/ Refuse(d) \/ Begin(d) \/ Answer(d)
      PROVE  text' = text
  BY <1>4 DEF Take, Read, Refuse, Begin, Answer, Stop, files
<1>5. CASE Crash
  BY <1>5 DEF Crash, Stop
<1>6. CASE UNCHANGED vars
  BY <1>6 DEF vars
<1>. QED BY <1>2, <1>3, <1>4, <1>5, <1>6 DEF Next

(* From its loads to its answer a command has the tables it locked to      *)
(* itself, so that no write-back puts back what another has changed.       *)
THEOREM TablesAreHeld == Spec => OthersKeepOut
<1>1. IInv /\ [Next]_vars =>
        [\A c \in Threads, t \in Tables :
           (HasLocks(c) /\ t \in Locks(command[c]) /\ phase'[c] = phase[c]) =>
               text'[t] = text[t]]_vars
  BY StepKeepsOut
<1>2. IInv /\ [Next]_vars => IInv'
  BY InvNext
<1>. QED BY <1>1, <1>2, InvInit, PTL DEF Spec, OthersKeepOut
----------------------------------------------------------------------------
(* Sequences and folds, place by place *)

(* Induction over places is done with the least counterexample.            *)
LEMMA LeastNat == ASSUME NEW T, T \subseteq Nat, T # {} PROVE \E m \in T : \A k \in T : m <= k
<1>1. IsWellFoundedOn(OpToRel(<,Nat), Nat)
  BY NatLessThanWellFounded
<1>2. PICK m \in T : \A k \in T : ~(<<k, m>> \in OpToRel(<,Nat))
  BY <1>1, WFMin
<1>3. \A k \in T : ~(k < m)
  BY <1>2 DEF OpToRel
<1>. QED BY <1>3

(* What holds at 0 and of each place if of the one before holds of the     *)
(* last.                                                                   *)
LEMMA Upwards ==
    ASSUME NEW n \in Nat, NEW S, 0 \in S, \A m \in 1..n : m - 1 \in S => m \in S
    PROVE  n \in S
<1> DEFINE Bad == {m \in 0..n : m \notin S}
<1>1. ASSUME NEW k \in Bad, \A j \in Bad : k <= j PROVE FALSE
  <2>1. k \in 1..n /\ k - 1 \in 0..n /\ ~(k <= k - 1)
    OBVIOUS
  <2>2. k - 1 \in S
    BY <1>1, <2>1
  <2>. QED BY <2>1, <2>2
<1>2. Bad \subseteq Nat
  OBVIOUS
<1>3. Bad = {}
  BY <1>1, <1>2, LeastNat
<1>. QED BY <1>3

(* The helper of FlattenSeq, as a definition of its own.                   *)
IsFlatten(f, ss, m) == f = [i \in 1..m |-> IF i = 1 THEN ss[i] ELSE f[i-1] \o ss[i]]

(* There is one for any sequence of sequences.                             *)
LEMMA FlattenExists ==
    ASSUME NEW S, NEW n \in Nat, NEW ss \in [1..n -> Seq(S)]
    PROVE  \A m \in 1..n : \E f \in [1..m -> Seq(S)] : IsFlatten(f, ss, m)
<1> DEFINE Is(f, m) == f \in [1..m -> Seq(S)] /\ IsFlatten(f, ss, m)
           Bad == {m \in 1..n : ~\E f : Is(f, m)}
<1>1. ASSUME NEW k \in Bad, \A j \in Bad : k <= j PROVE FALSE
  <2>1. CASE k = 1
    <3>1. Is([i \in 1..1 |-> ss[1]], 1)
      BY <2>1 DEF IsFlatten
    <3>. QED BY <2>1, <3>1
  <2>2. CASE k # 1
    <3>1. k \in Int /\ k >= 2 /\ k <= n /\ k - 1 \in 1..n /\ ~(k <= k - 1)
      BY <2>2
    <3>2. k - 1 \notin Bad
      BY <1>1, <3>1
    <3>3. PICK f : Is(f, k - 1)
      BY <3>1, <3>2
    <3> DEFINE g == [i \in 1..k |-> IF i < k THEN f[i] ELSE f[k-1] \o ss[k]]
    <3>4. f \in [1..(k-1) -> Seq(S)]
      BY <3>3
    <3>5. f[k-1] \in Seq(S) /\ ss[k] \in Seq(S)
      BY <3>1, <3>4
    <3>6. f[k-1] \o ss[k] \in Seq(S)
      BY <3>5, ConcatProperties
    <3>7. g \in [1..k -> Seq(S)]
      BY <3>1, <3>4, <3>6
    <3>8. ASSUME NEW i \in 1..k PROVE g[i] = IF i = 1 THEN ss[i] ELSE g[i-1] \o ss[i]
      <4>1. CASE i = k
        <5>1. i # 1 /\ i - 1 \in 1..k /\ i - 1 < k
          BY <3>1, <4>1
        <5>2. g[i-1] = f[i-1] /\ g[i] = f[k-1] \o ss[k]
          BY <4>1, <5>1
        <5>. QED BY <4>1, <5>1, <5>2
      <4>2. CASE i < k
        <5>1. i \in 1..(k-1) /\ g[i] = f[i]
          BY <3>1, <4>2
        <5>2. f[i] = IF i = 1 THEN ss[i] ELSE f[i-1] \o ss[i]
          BY <3>3, <5>1 DEF IsFlatten
        <5>3. i # 1 => i - 1 \in 1..k /\ g[i-1] = f[i-1]
          BY <3>1, <4>2
        <5>. QED BY <5>1, <5>2, <5>3
      <4>. QED BY <4>1, <4>2, <3>1
    <3>9. g = [i \in 1..k |-> IF i = 1 THEN ss[i] ELSE g[i-1] \o ss[i]]
      BY <3>8
    <3>10. Is(g, k)
      BY <3>7, <3>9 DEF IsFlatten
    <3>. QED BY <3>10
  <2>. QED BY <2>1, <2>2
<1>2. Bad \subseteq 1..n /\ 1..n \subseteq Nat
  OBVIOUS
<1>3. Bad = {}
  BY <1>1, <1>2, LeastNat
<1>. QED BY <1>3

(* A concatenation is made from the first part on, one part at a time.     *)
Grows(f, ss, n) == f[1] = ss[1] /\ \A i \in 2..n : f[i] = f[i-1] \o ss[i]

LEMMA FlattenSteps ==
    ASSUME NEW S, NEW n \in Nat, n # 0, NEW ss \in [1..n -> Seq(S)]
    PROVE  \E f : Grows(f, ss, n) /\ FlattenSeq(ss) = f[n]
<1>1. ss \in Seq(Seq(S)) /\ Len(ss) = n
  OBVIOUS
<1>2. PICK f : IsFlatten(f, ss, n) /\ FlattenSeq(ss) = f[Len(ss)]
  <2> DEFINE f == CHOOSE f : f = [i \in 1..Len(ss) |-> IF i = 1 THEN ss[i]
                                                                  ELSE f[i-1] \o ss[i]]
  <2>1. \E g : IsFlatten(g, ss, n)
    <3>1. n \in 1..n
      OBVIOUS
    <3>2. \A m \in 1..n : \E g \in [1..m -> Seq(S)] : IsFlatten(g, ss, m)
      BY FlattenExists, Zenon
    <3>. QED BY <3>1, <3>2, Zenon
  <2>2. IsFlatten(f, ss, n)
    BY <1>1, <2>1 DEF IsFlatten
  <2>3. FlattenSeq(ss) = f[Len(ss)]
    BY <1>1 DEF FlattenSeq
  <2>. QED BY <2>2, <2>3
<1>3. \A i \in 1..n : f[i] = IF i = 1 THEN ss[i] ELSE f[i-1] \o ss[i]
  BY <1>2 DEF IsFlatten
<1>4. 1 \in 1..n /\ \A i \in 2..n : i \in 1..n /\ i # 1
  OBVIOUS
<1>5. Grows(f, ss, n)
  BY <1>3, <1>4 DEF Grows
<1>. QED BY <1>1, <1>2, <1>5

(* The parts before the last are over R.                                   *)
FirstPartsOver(ss, n, R) == \A i \in 1..n : i < n => ss[i] \in Seq(R)

(* A sequence is `last` behind something over R.                           *)
IsBehind(whole, last, R) == \E front \in Seq(R) : whole = front \o last

(* A concatenation ends with its last part, after what the others hold.    *)
LEMMA FlattenLast ==
    ASSUME NEW S, NEW R, R \subseteq S, NEW n \in Nat, n # 0, NEW ss \in [1..n -> Seq(S)],
           FirstPartsOver(ss, n, R)
    PROVE  IsBehind(FlattenSeq(ss), ss[n], R)
<1>1. PICK f : Grows(f, ss, n) /\ FlattenSeq(ss) = f[n]
  BY FlattenSteps
<1>2. \A m \in 1..(n-1) : ss[m] \in Seq(R)
  BY DEF FirstPartsOver
<1> DEFINE G == {m \in 0..(n-1) : m = 0 \/ f[m] \in Seq(R)}
<1>3. ASSUME NEW m \in 1..(n-1), m - 1 \in G PROVE m \in G
  <2>0. m \in 0..(n-1) /\ ss[m] \in Seq(R)
    BY <1>2
  <2>1. CASE m = 1
    <3>1. f[1] = ss[1]
      BY <1>1 DEF Grows
    <3>. QED BY <2>0, <2>1, <3>1
  <2>2. CASE m # 1
    <3>1. m \in 2..n /\ f[m-1] \in Seq(R)
      BY <1>3, <2>2
    <3>2. f[m] = f[m-1] \o ss[m]
      BY <1>1, <3>1 DEF Grows
    <3>3. f[m] \in Seq(R)
      BY <2>0, <3>1, <3>2, ConcatProperties
    <3>. QED BY <2>0, <3>3
  <2>. QED BY <2>1, <2>2
<1>4. n - 1 \in G
  <2>1. 0 \in G /\ n - 1 \in Nat
    OBVIOUS
  <2> HIDE DEF G
  <2>. QED BY <1>3, <2>1, Upwards
<1>5. CASE n = 1
  <2>1. <<>> \in Seq(R) /\ <<>> \o ss[1] = ss[1]
    <3>1. ss[1] \in Seq(S)
      BY <1>5
    <3>. QED BY <3>1, ConcatEmptySeq, EmptySeq
  <2>2. FlattenSeq(ss) = ss[1]
    BY <1>1, <1>5 DEF Grows
  <2>. QED BY <1>5, <2>1, <2>2 DEF IsBehind
<1>6. CASE n # 1
  <2>1. n \in 2..n /\ f[n-1] \in Seq(R)
    BY <1>4, <1>6
  <2>2. FlattenSeq(ss) = f[n-1] \o ss[n]
    BY <1>1, <2>1 DEF Grows
  <2>. QED BY <2>1, <2>2 DEF IsBehind
<1>. QED BY <1>5, <1>6

(* Sequences of one kind, one after the other, are of that kind.           *)
LEMMA FlattenType ==
    ASSUME NEW S, NEW n \in Nat, NEW ss \in [1..n -> Seq(S)]
    PROVE  FlattenSeq(ss) \in Seq(S)
<1>1. CASE n = 0
  <2>1. ss = <<>> /\ Len(ss) = 0
    BY <1>1
  <2>. QED BY <2>1 DEF FlattenSeq
<1>2. CASE n # 0
  <2>3. FirstPartsOver(ss, n, S)
    BY DEF FirstPartsOver
  <2>4. IsBehind(FlattenSeq(ss), ss[n], S)
    BY <1>2, <2>3, FlattenLast
  <2>1. PICK front \in Seq(S) : FlattenSeq(ss) = front \o ss[n]
    BY <2>4 DEF IsBehind
  <2>2. ss[n] \in Seq(S)
    BY <1>2
  <2>. QED BY <2>1, <2>2, ConcatProperties
<1>. QED BY <1>1, <1>2

(* It is the one that bounds the others.                                   *)
LEMMA MaxIs ==
    ASSUME NEW m \in Nat, NEW s \in SUBSET (1..m), m \in s
    PROVE  Max(s) = m
<1>1. m \in s /\ \A y \in s : m >= y
  OBVIOUS
<1>2. \A x \in s : (\A y \in s : x >= y) => x = m
  OBVIOUS
<1>. QED BY <1>1, <1>2 DEF Max

(* A set of places has a greatest.                                         *)
LEMMA MaxIn ==
    ASSUME NEW n \in Nat, NEW s \in SUBSET (1..n), s # {} PROVE Max(s) \in s
<1> DEFINE T == {k \in 0..n : n - k \in s}
<1>1. PICK x \in s : TRUE
  OBVIOUS
<1>2. n - x \in T /\ T \subseteq Nat
  OBVIOUS
<1>3. PICK m \in T : \A k \in T : m <= k
  BY <1>2, LeastNat
<1>4. ASSUME NEW y \in s PROVE n - m >= y
  <2>1. n - y \in T
    OBVIOUS
  <2>2. m <= n - y
    BY <1>3, <2>1
  <2>. QED BY <2>2
<1>5. n - m \in s /\ \A y \in s : n - m >= y
  BY <1>3, <1>4
<1>6. \E z \in s : \A y \in s : z >= y
  BY <1>5
<1>. QED BY <1>6 DEF Max

IsFold(h, base, G, n) ==
    h = [s \in SUBSET (1..n) |->
            IF s = {} THEN base ELSE G[<<Max(s), h[s \ {Max(s)}]>>]]

(* There is a fold for any step that keeps to a set.                       *)
LEMMA FoldExists ==
    ASSUME NEW X, NEW base \in X, NEW n \in Nat, NEW G \in [(1..n) \X X -> X]
    PROVE  \E h \in [SUBSET (1..n) -> X] : IsFold(h, base, G, n)
<1> DEFINE Is(h, m) == h \in [SUBSET (1..m) -> X] /\ IsFold(h, base, G, m)
           Bad == {m \in 0..n : ~\E h : Is(h, m)}
<1>1. ASSUME NEW k \in Bad, \A j \in Bad : k <= j PROVE FALSE
  <2>1. CASE k = 0
    <3>1. SUBSET (1..0) = {{}}
      OBVIOUS
    <3>2. Is([s \in {{}} |-> base], 0)
      BY <3>1 DEF IsFold
    <3>. QED BY <2>1, <3>2
  <2>2. CASE k # 0
    <3>1. k \in 1..n /\ k - 1 \in 0..n /\ ~(k <= k - 1)
      BY <2>2
    <3>2. k - 1 \notin Bad
      BY <1>1, <3>1
    <3>3. PICK h : Is(h, k - 1)
      BY <3>1, <3>2
    <3>4. \A s \in SUBSET (1..k) : k \notin s => s \in SUBSET (1..(k-1))
      BY <3>1
    <3>5. \A s \in SUBSET (1..k) : s \ {k} \in SUBSET (1..(k-1))
      BY <3>1
    <3> DEFINE g == [s \in SUBSET (1..k) |->
                        IF k \in s THEN G[<<k, h[s \ {k}]>>] ELSE h[s]]
    <3>6. h \in [SUBSET (1..(k-1)) -> X]
      BY <3>3
    <3>7. g \in [SUBSET (1..k) -> X]
      <4>1. ASSUME NEW s \in SUBSET (1..k) PROVE g[s] \in X
        <5>1. CASE k \in s
           <6>1. h[s \ {k}] \in X
            BY <3>5, <3>6
           <6>2. G[<<k, h[s \ {k}]>>] \in X
            BY <3>1, <6>1
           <6>. QED BY <5>1, <6>2
        <5>2. CASE k \notin s
          BY <3>4, <3>6, <5>2
        <5>. QED BY <5>1, <5>2
      <4>. QED BY <4>1
    <3>8. ASSUME NEW s \in SUBSET (1..k)
           PROVE  g[s] = IF s = {} THEN base ELSE G[<<Max(s), g[s \ {Max(s)}]>>]
      <4>1. CASE k \in s
        <5>1. Max(s) = k
          BY <3>1, <4>1, MaxIs
        <5>2. g[s] = G[<<k, h[s \ {k}]>>] /\ g[s \ {k}] = h[s \ {k}]
          BY <3>5, <4>1
        <5>. QED BY <4>1, <5>1, <5>2
      <4>2. CASE k \notin s
        <5>1. s \in SUBSET (1..(k-1)) /\ g[s] = h[s]
          BY <3>4, <4>2
        <5>2. h[s] = IF s = {} THEN base ELSE G[<<Max(s), h[s \ {Max(s)}]>>]
          BY <3>3, <5>1 DEF IsFold
        <5>3. s \ {Max(s)} \in SUBSET (1..k) /\ g[s \ {Max(s)}] = h[s \ {Max(s)}]
          BY <4>2
        <5>. QED BY <5>1, <5>2, <5>3
      <4>. QED BY <4>1, <4>2
    <3>9. IsFold(g, base, G, k)
      BY <3>8 DEF IsFold
    <3>. QED BY <3>7, <3>9
  <2>. QED BY <2>1, <2>2
<1>2. Bad \subseteq Nat
  OBVIOUS
<1>3. Bad = {}
  BY <1>1, <1>2, LeastNat
<1>4. n \in 0..n
  OBVIOUS
<1>. QED BY <1>3, <1>4

(* What the places of a fold have to do with each other.                   *)
Unfolds(h, base, G, X, n) ==
    /\ h \in [SUBSET (1..n) -> X] /\ h[{}] = base
    /\ \A s \in SUBSET (1..n) :
         s # {} => /\ Max(s) \in 1..n /\ h[s \ {Max(s)}] \in X
                   /\ h[s] = G[<<Max(s), h[s \ {Max(s)}]>>]

(* A fold is of the type of its base, and does one step per place.         *)
LEMMA FoldUnfolds ==
    ASSUME NEW X, NEW base \in X, NEW n \in Nat, NEW G \in [(1..n) \X X -> X]
    PROVE  \E h : Unfolds(h, base, G, X, n)
<1>1. PICK h \in [SUBSET (1..n) -> X] : IsFold(h, base, G, n)
  BY FoldExists
<1>2. ASSUME NEW s \in SUBSET (1..n), s # {}
      PROVE  /\ Max(s) \in 1..n /\ h[s \ {Max(s)}] \in X
             /\ h[s] = G[<<Max(s), h[s \ {Max(s)}]>>]
  <2>1. Max(s) \in 1..n
    BY <1>2, MaxIn
  <2>2. s \ {Max(s)} \in SUBSET (1..n)
    OBVIOUS
  <2>3. h[s] = IF s = {} THEN base ELSE G[<<Max(s), h[s \ {Max(s)}]>>]
    BY <1>1 DEF IsFold
  <2>. QED BY <1>1, <1>2, <2>1, <2>2, <2>3
<1>3. {} \in SUBSET (1..n)
  OBVIOUS
<1>4. h[{}] = base
  BY <1>1, <1>3 DEF IsFold
<1>. QED BY <1>2, <1>4 DEF Unfolds

(* A fold is of the type of its base when every step keeps to it.          *)
LEMMA FoldType ==
    ASSUME NEW X, NEW n \in Nat, NEW h, h[{}] \in X,
           \A m \in 1..n : h[1..(m-1)] \in X => h[1..m] \in X
    PROVE  h[1..n] \in X
<1> DEFINE Bad == {m \in 0..n : h[1..m] \notin X}
<1>1. ASSUME NEW k \in Bad, \A j \in Bad : k <= j PROVE FALSE
  <2>1. CASE k = 0
    <3>1. 1..0 = {}
      OBVIOUS
    <3>. QED BY <2>1, <3>1
  <2>2. CASE k # 0
    <3>1. k \in 1..n /\ k - 1 \in 0..n /\ ~(k <= k - 1)
      BY <2>2
    <3>. QED BY <1>1, <3>1
  <2>. QED BY <2>1, <2>2
<1>2. Bad \subseteq Nat
  OBVIOUS
<1>3. Bad = {}
  BY <1>1, <1>2, LeastNat
<1>4. n \in 0..n
  OBVIOUS
<1>. QED BY <1>3, <1>4

(* The greatest of the first m places is m.                                *)
LEMMA FirstPlaces ==
    ASSUME NEW n \in Nat, NEW m \in 1..n
    PROVE  /\ 1..m \in SUBSET (1..n) /\ 1..m # {}
           /\ Max(1..m) = m /\ (1..m) \ {m} = 1..(m-1)
<1>1. m \in Nat /\ m \in 1..m /\ 1..m \in SUBSET (1..m)
  OBVIOUS
<1>2. Max(1..m) = m
  BY <1>1, MaxIs
<1>3. (1..m) \ {m} = 1..(m-1)
  OBVIOUS
<1>. QED BY <1>1, <1>2, <1>3

----------------------------------------------------------------------------
(* Rows and lines *)

(* The rows of a table: the columns that are read with atoi hold numbers,  *)
(* and only the last column may hold a line end.                           *)
Width(t) == Len(Columns[t])
Row(t) ==
    {r \in [1..Width(t) -> Tokens] :
        \A j \in 1..Width(t) :
            /\ Columns[t][j] => r[j] \in Int
            /\ r[j] = EOL => j = Width(t)}
(* What a field holds that is no line end.                                 *)
Plain == Tokens \ {EOL}
(* The lines of a write-back.                                              *)
EndedLines == {l \in FileLines : Last(l) = EOL}

(* The columns of the tables, one by one.                                  *)
LEMMA ColumnsAre ==
    /\ Product # Billing /\ Product # Orders /\ Billing # Orders
    /\ {Customer, Sellers} \cap {Product, Billing, Orders} = {}
    /\ Columns[Product] = <<TRUE, FALSE, TRUE, TRUE, TRUE>>
    /\ Columns[Billing] = <<TRUE, TRUE, FALSE, TRUE>>
    /\ Columns[Orders] = <<TRUE, TRUE, TRUE, FALSE, TRUE>>
    /\ Columns[Customer] = <<TRUE, FALSE, FALSE, FALSE>>
    /\ Columns[Sellers] = <<TRUE, FALSE, FALSE, FALSE>>
    /\ Who[Billing] = 3 /\ Who[Orders] = 4 /\ Who[Customer] = 2 /\ Who[Sellers] = 2
BY DEF Columns, Who, Tables, Product, Billing, Orders, Customer, Sellers

(* Every table has an id, and at least four columns.                       *)
LEMMA Widths ==
    ASSUME NEW t \in Tables
    PROVE  /\ Width(t) \in {4, 5} /\ DOMAIN Columns[t] = 1..Width(t)
           /\ Columns[t][Id]
           /\ t \in {Product, Orders} => Width(t) = 5
           /\ t \notin {Product, Orders} => Width(t) = 4
<1>1. CASE t = Product
  BY <1>1, ColumnsAre DEF Width, Id
<1>2. CASE t = Billing
  BY <1>2, ColumnsAre DEF Width, Id
<1>3. CASE t = Orders
  BY <1>3, ColumnsAre DEF Width, Id
<1>4. CASE t = Customer
  BY <1>4, ColumnsAre DEF Width, Id
<1>5. CASE t = Sellers
  BY <1>5, ColumnsAre DEF Width, Id
<1>. QED BY <1>1, <1>2, <1>3, <1>4, <1>5 DEF Tables

(* The rows that the commands put together.                                *)
LEMMA RowTuples ==
    ASSUME NEW id \in Int, NEW a \in Int, NEW b \in Int, NEW c \in Int,
           NEW name \in Plain, NEW address \in Plain
    PROVE  /\ <<id, name, a, b, c>> \in Row(Product)
           /\ <<id, a, name, b>> \in Row(Billing)
           /\ <<id, a, b, name, c>> \in Row(Orders)
           /\ <<id, name, NoText, address>> \in Row(Customer)
           /\ <<id, name, NoText, address>> \in Row(Sellers)
<1>1. (\A x \in Int : x # EOL) /\ NoText \in Texts /\ NoText # EOL
  BY TextsAssumption DEF Texts
<1>2. /\ Width(Product) = 5 /\ Width(Billing) = 4 /\ Width(Orders) = 5
      /\ Width(Customer) = 4 /\ Width(Sellers) = 4
  BY ColumnsAre DEF Width
<1>3. <<id, name, a, b, c>> \in Row(Product)
  <2> DEFINE r == <<id, name, a, b, c>>
  <2>1. r \in [1..5 -> Tokens]
    BY <1>1 DEF Plain, Tokens
  <2>4. \A j \in 1..5 : r[j] # EOL
    BY <1>1 DEF Plain, Tokens
  <2>2. ~Columns[Product][2]
    BY ColumnsAre
  <2>3. \A j \in 1..5 : j \notin {2} => r[j] \in Int
    OBVIOUS
  <2>. QED BY <1>2, <2>1, <2>2, <2>3, <2>4 DEF Row
<1>4. <<id, a, name, b>> \in Row(Billing)
  <2> DEFINE r == <<id, a, name, b>>
  <2>1. r \in [1..4 -> Tokens]
    BY <1>1 DEF Plain, Tokens
  <2>4. \A j \in 1..4 : r[j] # EOL
    BY <1>1 DEF Plain, Tokens
  <2>2. ~Columns[Billing][3]
    BY ColumnsAre
  <2>3. \A j \in 1..4 : j \notin {3} => r[j] \in Int
    OBVIOUS
  <2>. QED BY <1>2, <2>1, <2>2, <2>3, <2>4 DEF Row
<1>5. <<id, a, b, name, c>> \in Row(Orders)
  <2> DEFINE r == <<id, a, b, name, c>>
  <2>1. r \in [1..5 -> Tokens]
    BY <1>1 DEF Plain, Tokens
  <2>4. \A j \in 1..5 : r[j] # EOL
    BY <1>1 DEF Plain, Tokens
  <2>2. ~Columns[Orders][4]
    BY ColumnsAre
  <2>3. \A j \in 1..5 : j \notin {4} => r[j] \in Int
    OBVIOUS
  <2>. QED BY <1>2, <2>1, <2>2, <2>3, <2>4 DEF Row
<1>6. <<id, name, NoText, address>> \in Row(Customer)
  <2> DEFINE r == <<id, name, NoText, address>>
  <2>1. r \in [1..4 -> Tokens]
    BY <1>1 DEF Plain, Tokens
  <2>4. \A j \in 1..4 : r[j] # EOL
    BY <1>1 DEF Plain, Tokens
  <2>2. ~Columns[Customer][2] /\ ~Columns[Customer][3] /\ ~Columns[Customer][4]
    BY ColumnsAre
  <2>3. \A j \in 1..4 : j \notin {2, 3, 4} => r[j] \in Int
    OBVIOUS
  <2>. QED BY <1>2, <2>1, <2>2, <2>3, <2>4 DEF Row
<1>7. <<id, name, NoText, address>> \in Row(Sellers)
  <2> DEFINE r == <<id, name, NoText, address>>
  <2>1. r \in [1..4 -> Tokens]
    BY <1>1 DEF Plain, Tokens
  <2>4. \A j \in 1..4 : r[j] # EOL
    BY <1>1 DEF Plain, Tokens
  <2>2. ~Columns[Sellers][2] /\ ~Columns[Sellers][3] /\ ~Columns[Sellers][4]
    BY ColumnsAre
  <2>3. \A j \in 1..4 : j \notin {2, 3, 4} => r[j] \in Int
    OBVIOUS
  <2>. QED BY <1>2, <2>1, <2>2, <2>3, <2>4 DEF Row
<1>. QED BY <1>3, <1>4, <1>5, <1>6, <1>7

(* A row in which one field is replaced by one of its kind.                *)
LEMMA SetField ==
    ASSUME NEW t \in Tables, NEW row \in Row(t), NEW j, NEW v \in Plain,
           j \in 1..Width(t) => (Columns[t][j] => v \in Int)
    PROVE  [row EXCEPT ![j] = v] \in Row(t)
BY DEF Row, Plain, Tokens

(* What is set where there is no row is set nowhere.                       *)
LEMMA Unchanged ==
    ASSUME NEW S, NEW rows \in Seq(S), NEW i, NEW j, NEW v, i \notin 1..Len(rows)
    PROVE  [rows EXCEPT ![i][j] = v] = rows
OBVIOUS

(* A table in which that is done to a row, if there is the row.            *)
LEMMA SetFields ==
    ASSUME NEW t \in Tables, NEW rows \in Seq(Row(t)), NEW i, NEW j,
           NEW v \in Plain,
           j \in 1..Width(t) => (Columns[t][j] => v \in Int)
    PROVE  [rows EXCEPT ![i][j] = v] \in Seq(Row(t))
<1>1. CASE i \in 1..Len(rows)
  <2>1. rows[i] \in Row(t)
    BY <1>1
  <2>. [rows[i] EXCEPT ![j] = v] \in Row(t)
    BY <2>1, SetField
  <2>2. PICK row : row = [rows[i] EXCEPT ![j] = v]
    OBVIOUS
  <2>3. [rows EXCEPT ![i] = row] \in Seq(Row(t))
    BY <1>1, <2>2, ExceptSeq
  <2>. QED BY <2>2, <2>3, Zenon
<1>2. CASE i \notin 1..Len(rows)
  <2>1. [rows EXCEPT ![i][j] = v] = rows
    BY <1>2, Unchanged
  <2>. QED BY <2>1, Zenon
<1>. QED BY <1>1, <1>2

(* A row of zeros is a row.                                                *)
LEMMA BlankRowType == ASSUME NEW t \in Tables PROVE BlankRow(t) \in Row(t)
BY Widths, TextsAssumption DEF BlankRow, Row, Texts, Tokens

(* So is any row of a table, or behind its last.                           *)
LEMMA RowAtType ==
    ASSUME NEW t \in Tables, NEW rows \in Seq(Row(t)), NEW i PROVE RowAt(t, rows, i) \in Row(t)
BY BlankRowType DEF RowAt

(* A loader makes rows of the lines of a file: a line end is the last      *)
(* token of its line, and atoi makes a number of it.                       *)
LEMMA LoadType ==
    ASSUME NEW t \in Tables, NEW file \in TextFiles, Readable(t, file)
    PROVE  Load(t, file) \in Seq(Row(t))
<1>1. ASSUME NEW i \in DOMAIN file
      PROVE  [j \in DOMAIN Columns[t] |->
                 IF Columns[t][j] THEN atoi(Token(file[i], j)) ELSE Token(file[i], j)] \in Row(t)
  <2>1. file[i] \in FileLines /\ Len(file[i]) >= Width(t)
    BY DEF TextFiles, Readable, Width
  <2>2. ASSUME NEW j \in 1..Width(t)
        PROVE  /\ Token(file[i], j) \in Tokens
               /\ Token(file[i], j) = EOL => j = Width(t)
    <3>1. j \in DOMAIN file[i] /\ Token(file[i], j) = file[i][j] /\ j \in Nat /\ Width(t) \in Nat
      BY <2>1, Widths DEF Token, FileLines
    <3>. QED BY <2>1, <3>1 DEF FileLines
  <2>3. \A x \in Tokens : atoi(x) \in Int
    BY DEF atoi, Tokens
  <2>4. \A x \in Int : x # EOL
    BY TextsAssumption DEF Texts
  <2>. QED BY <2>2, <2>3, <2>4, Widths DEF Row, Tokens
<1>2. file \in Seq(FileLines) /\ DOMAIN file = 1..Len(file) /\ Len(file) \in Nat
  BY DEF TextFiles
<1>. QED BY <1>1, <1>2 DEF Load

(* What a write-back makes of a field ends the line only if the field      *)
(* does.                                                                   *)
LEMMA FieldType ==
    ASSUME NEW x \in Tokens
    PROVE  /\ Field(x) \in Seq(Tokens)
           /\ x # EOL => Field(x) \in Seq(Plain)
           /\ x = EOL => Field(x) = <<EOL>>
<1>1. CASE x = NoText
  BY <1>1, TextsAssumption DEF Field, Texts
<1>2. CASE x \in Texts /\ x # NoText
  BY <1>2 DEF Field, Plain
<1>3. CASE x \notin Texts
  <2>1. x \in Plain /\ x \in Tokens /\ x # EOL
    BY <1>3 DEF Plain, Texts
  <2>2. Field(x) \in {<<x>>, <<Zeros>>, <<>>}
    BY <1>3 DEF Field, intToCharArray
  <2>3. Zeros \in Plain /\ Zeros \in Tokens
    BY TextsAssumption DEF Plain, Texts, Tokens
  <2>. QED BY <2>1, <2>2, <2>3, ShortTuples, EmptySeq
<1>. QED BY <1>1, <1>2, <1>3

(* A line end behind fields without one makes a line.                      *)
LEMMA PlainLine ==
    ASSUME NEW front \in Seq(Plain)
    PROVE  front \o <<EOL>> \in EndedLines /\ Append(front, EOL) = front \o <<EOL>>
<1> DEFINE l == Append(front, EOL)
<1>1. EOL \in Tokens /\ EOL \notin Plain /\ Plain \subseteq Tokens
  BY DEF Texts, Plain, Tokens
<1>2. front \in Seq(Tokens)
  BY <1>1, SeqSubset
<1>3. l \in Seq(Tokens) /\ Len(l) = Len(front) + 1 /\ l[Len(l)] = EOL
  BY <1>1, <1>2, AppendProperties
<1>4. \A j \in DOMAIN l : l[j] = EOL => j = Len(l)
  BY <1>1, <1>2
<1>5. l # <<>> /\ Last(l) = EOL
  BY <1>2, <1>3 DEF Last
<1>6. l = front \o <<EOL>>
  BY <1>2
<1>. QED BY <1>3, <1>4, <1>5, <1>6 DEF EndedLines, FileLines

(* One row becomes one line, or two if its last field ends the first of    *)
(* them.                                                                   *)
LEMMA LinesOfType ==
    ASSUME NEW t \in Tables, NEW row \in Row(t) PROVE LinesOf(row) \in Seq(EndedLines)
<1>a. PICK n : n = Width(t)
  OBVIOUS
<1>b. PICK ss : ss = [j \in DOMAIN row |-> Field(row[j])]
  OBVIOUS
<1>c. PICK fields : fields = FlattenSeq(ss)
  OBVIOUS
<1>1. n \in Nat /\ n # 0 /\ DOMAIN row = 1..n
  BY <1>a, Widths DEF Row
<1>8. \A j \in 1..n : row[j] \in Tokens /\ (row[j] = EOL => j = n)
  BY <1>a DEF Row
<1>2. ss \in [1..n -> Seq(Tokens)]
  BY <1>b, <1>1, <1>8, FieldType
<1>3. \A j \in 1..n : j < n => ss[j] \in Seq(Plain)
  BY <1>b, <1>1, <1>8, FieldType
<1>4. Plain \subseteq Tokens
  BY DEF Plain, Tokens
<1>5. PICK front \in Seq(Plain) : fields = front \o ss[n]
  <2>1. n \in Nat /\ n # 0
    BY <1>1
  <2>2. FirstPartsOver(ss, n, Plain)
    BY <1>3 DEF FirstPartsOver
  <2>3. IsBehind(FlattenSeq(ss), ss[n], Plain)
    BY <1>2, <1>4, <2>1, <2>2, FlattenLast
  <2>. QED BY <1>c, <2>3 DEF IsBehind
<1>6. CASE row[n] = EOL
  <2>1. ss[n] = <<EOL>>
    BY <1>b, <1>1, <1>6, <1>8, FieldType
  <2>2. fields \in EndedLines
    BY <1>5, <2>1, PlainLine
  <2>3. <<EOL>> \in EndedLines
    <3>1. <<>> \in Seq(Plain) /\ <<>> \o <<EOL>> = <<EOL>>
      OBVIOUS
    <3>. QED BY <3>1, PlainLine
  <2>4. LinesOf(row) = <<fields, <<EOL>>>>
    BY <1>b, <1>c, <2>2 DEF LinesOf, EndedLines, FileLines
  <2>. QED BY <2>2, <2>3, <2>4
<1>7. CASE row[n] # EOL
  <2>1. ss[n] \in Seq(Plain)
    BY <1>b, <1>1, <1>7, <1>8, FieldType
  <2>5. front \in Seq(Plain)
    BY <1>5
  <2>6. front \o ss[n] \in Seq(Plain)
    BY <2>1, <2>5, ConcatProperties
  <2>2. fields \in Seq(Plain)
    BY <1>5, <2>6, Zenon
  <2>3. fields # <<>> => Last(fields) # EOL
    BY <2>2 DEF Last, Plain
  <2>4. LinesOf(row) = <<Append(fields, EOL)>>
    BY <1>b, <1>c, <2>3 DEF LinesOf
  <2>7. Append(fields, EOL) \in EndedLines
    BY <2>2, PlainLine
  <2>. QED BY <2>4, <2>7
<1>. QED BY <1>6, <1>7

(* A write-back of any number of rows is made of whole lines.              *)
LEMMA WriteBackType ==
    ASSUME NEW t \in Tables, NEW rows \in Seq(Row(t)), NEW file \in TextFiles
    PROVE  WriteBack(t, rows, file) \in Seq(EndedLines)
<1>1. LineEnds(file) \in Nat
  <2>1. IsFiniteSet(1..Len(file))
    BY FS_Interval DEF TextFiles
  <2>2. IsFiniteSet({i \in DOMAIN file : Last(file[i]) = EOL})
    BY <2>1, FS_Subset DEF TextFiles
  <2>. QED BY <2>2, FS_CardinalityType DEF LineEnds
<1>2. PICK n \in Nat : n = LineEnds(file) + 1
  BY <1>1
<1>3. [i \in 1..n |-> LinesOf(RowAt(t, rows, i))] \in [1..n -> Seq(EndedLines)]
  BY RowAtType, LinesOfType
<1>4. Written(t, rows, n) \in Seq(EndedLines)
  BY <1>3, FlattenType DEF Written
<1>. QED BY <1>2, <1>4 DEF WriteBack

(* Whole lines make a file.                                                *)
LEMMA EndedFile == ASSUME NEW file \in Seq(EndedLines) PROVE file \in TextFiles
BY DEF TextFiles, EndedLines

----------------------------------------------------------------------------
(* What the commands do to the rows *)

(* The searches for a zero end at the first row behind the table.          *)
LEMMA FirstZeroIs ==
    ASSUME NEW t \in Tables, NEW rows \in Seq(Row(t)), NEW j \in 1..Width(t), Columns[t][j]
    PROVE  FirstZero(t, rows, j) \in 1..(Len(rows) + 1)
<1> DEFINE ZeroRows == {i \in 1..(Len(rows) + 1) : RowAt(t, rows, i)[j] = 0}
<1>1. Len(rows) \in Nat
  OBVIOUS
<1>2. RowAt(t, rows, Len(rows) + 1)[j] = 0
  BY Widths DEF RowAt, BlankRow
<1>3. Len(rows) + 1 \in ZeroRows /\ ZeroRows \subseteq Nat
  BY <1>1, <1>2
<1>4. PICK m \in ZeroRows : \A k \in ZeroRows : m <= k
  BY <1>3, LeastNat
<1>5. \A k \in 1..(m - 1) : rows[k][j] # 0
  <2>1. \A k \in 1..(m - 1) : k \notin ZeroRows /\ k \in 1..Len(rows)
    BY <1>1, <1>4
  <2>. QED BY <2>1 DEF RowAt
<1>6. \E i \in 1..(Len(rows) + 1) :
        RowAt(t, rows, i)[j] = 0 /\ \A k \in 1..(i - 1) : rows[k][j] # 0
  BY <1>4, <1>5
<1>. QED BY <1>6 DEF FirstZero

(* So does the search for a free row.                                      *)
LEMMA FreeRowIs ==
    ASSUME NEW t \in Tables, NEW rows \in Seq(Row(t))
    PROVE  FreeRow(t, rows) \in 1..(Len(rows) + 1)
BY FirstZeroIs, Widths DEF FreeRow, Id

(* The rows before it.                                                     *)
LEMMA PrefixType ==
    ASSUME NEW S, NEW rows \in Seq(S), NEW n \in 1..(Len(rows) + 1)
    PROVE  SubSeq(rows, 1, n - 1) \in Seq(S)
BY SubSeqProperties

(* The rows before the free one.                                           *)
LEMMA UpToFreeType ==
    ASSUME NEW t \in Tables, NEW rows \in Seq(Row(t)) PROVE UpToFree(t, rows) \in Seq(Row(t))
BY FreeRowIs, PrefixType DEF UpToFree

(* Leaving rows out leaves rows.                                           *)
LEMMA WithoutType ==
    ASSUME NEW S, NEW rows \in Seq(S), NEW j, NEW v PROVE Without(rows, j, v) \in Seq(S)
<1>1. PICK n \in Nat : n = Len(rows)
  OBVIOUS
<1>2. \A i \in 1..n : <<>> \in Seq(S) /\ <<rows[i]>> \in Seq(S)
  BY <1>1
<1>3. [i \in DOMAIN rows |-> IF rows[i][j] = v THEN <<>> ELSE <<rows[i]>>] \in [1..n -> Seq(S)]
  BY <1>1, <1>2
<1>. QED BY <1>3, FlattenType DEF Without

(* A new row, where the search for a free one ends.                        *)
LEMMA PutRowType ==
    ASSUME NEW t \in Tables, NEW rows \in Seq(Row(t)), NEW row \in Row(t)
    PROVE  PutRow(t, rows, row) \in Seq(Row(t))
<1>1. PICK i \in 1..(Len(rows) + 1) : i = FreeRow(t, rows)
  BY FreeRowIs
<1>2. CASE i > Len(rows)
  <2>1. Append(rows, row) \in Seq(Row(t))
    BY AppendProperties
  <2>. QED BY <1>1, <1>2, <2>1 DEF PutRow
<1>3. CASE ~(i > Len(rows))
  <2>1. i \in 1..Len(rows)
    BY <1>3
  <2>2. [rows EXCEPT ![i] = row] \in Seq(Row(t))
    BY <2>1, ExceptSeq
  <2>. QED BY <1>1, <1>3, <2>2 DEF PutRow
<1>. QED BY <1>2, <1>3

(* A new row, one behind that.                                             *)
LEMMA PutAfterGapType ==
    ASSUME NEW t \in Tables, NEW rows \in Seq(Row(t)), NEW row \in Row(t)
    PROVE  PutAfterGap(t, rows, row) \in Seq(Row(t))
<1>1. PICK i \in Nat : i = FreeRow(t, rows) + 1
  BY FreeRowIs
<1>2. PICK n \in Nat : n = IF i > Len(rows) THEN i ELSE Len(rows)
  OBVIOUS
<1>3. [k \in 1..n |-> IF k = i THEN row ELSE RowAt(t, rows, k)] \in Seq(Row(t))
  BY RowAtType
<1>. QED BY <1>1, <1>2, <1>3 DEF PutAfterGap

(* The search for an id that is there ends at a row.                       *)
LEMMA RowOfIs ==
    ASSUME NEW S, NEW rows \in Seq(S), NEW id, Has(rows, id)
    PROVE  RowOf(rows, id) \in DOMAIN rows /\ rows[RowOf(rows, id)][Id] = id
<1> DEFINE Those == {i \in DOMAIN rows : rows[i][Id] = id}
<1>1. Those \subseteq Nat /\ Those # {}
  BY DEF Has
<1>2. PICK m \in Those : \A k \in Those : m <= k
  BY <1>1, LeastNat
<1>3. \A k \in 1..(m - 1) : k \in DOMAIN rows /\ k \notin Those
  BY <1>2
<1>4. \E i \in DOMAIN rows : rows[i][Id] = id /\ \A k \in 1..(i - 1) : rows[k][Id] # id
  BY <1>2, <1>3
<1>. QED BY <1>4 DEF RowOf

(* A new name in the rows of a buyer.                                      *)
LEMMA RenamedType ==
    ASSUME NEW t \in {Billing, Orders}, NEW rows \in Seq(Row(t)), NEW name \in Fields,
           NEW ids, NEW column
    PROVE  Renamed(t, rows, name, ids, column) \in Seq(Row(t))
<1>1. name \in Plain /\ t \in Tables
  BY DEF Fields, Plain, Tokens, Tables
<1>2. PICK j : j = Who[t] /\ ~Columns[t][j]
  <2>1. CASE t = Billing
    <3>1. Who[t] = 3 /\ ~Columns[t][3]
      BY <2>1, ColumnsAre
    <3>. QED BY <3>1
  <2>2. CASE t = Orders
    <3>1. Who[t] = 4 /\ ~Columns[t][4]
      BY <2>2, ColumnsAre
    <3>. QED BY <3>1
  <2>. QED BY <2>1, <2>2
<1>3. \A i \in DOMAIN rows : [rows[i] EXCEPT ![Who[t]] = name] \in Row(t)
  <2>1. \A i \in DOMAIN rows : rows[i] \in Row(t)
    OBVIOUS
  <2>. QED BY <1>1, <1>2, <2>1, SetField
<1>. QED BY <1>3 DEF Renamed

(* A line of an order.                                                     *)
OrderLine == [item : Int, quantity : Int, price : Int]

(* One line of an order, taken from the stock; the fold of Deducted with   *)
(* it.                                                                     *)
DeductLine(rows, l) == [rows EXCEPT ![RowOf(rows, l.item)][Quantity] = @ - l.quantity]
IsDeducted(h, lines, products) ==
    h = [s \in SUBSET DOMAIN lines |->
            IF s = {} THEN products ELSE DeductLine(h[s \ {Max(s)}], lines[Max(s)])]

(* It leaves the table a table.                                            *)
LEMMA DeductLineType ==
    ASSUME NEW rows \in Seq(Row(Product)), NEW l \in OrderLine
    PROVE  DeductLine(rows, l) \in Seq(Row(Product))
<1>1. PICK i : i = RowOf(rows, l.item)
  OBVIOUS
<1>2. Product \in Tables /\ Width(Product) = 5
  BY Widths DEF Tables
<1>3. CASE i \in 1..Len(rows)
  <2>1. rows[i] \in Row(Product)
    BY <1>3
  <2>2. Columns[Product][4]
    BY ColumnsAre
  <2>3. rows[i][4] \in Int
    BY <1>2, <2>1, <2>2 DEF Row
  <2>4. PICK v \in Int : v = rows[i][4] - l.quantity
    BY <2>3 DEF OrderLine
  <2>5. v \in Plain
    BY TextsAssumption DEF Plain, Tokens, Texts
  <2>6. [rows EXCEPT ![i][4] = v] \in Seq(Row(Product))
    BY <1>2, <2>5, SetFields
  <2>7. DeductLine(rows, l) = [rows EXCEPT ![i][4] = v]
    BY <1>1, <1>3, <2>4 DEF DeductLine, Quantity
  <2>. QED BY <2>6, <2>7, Zenon
<1>4. CASE i \notin 1..Len(rows)
  <2>1. DeductLine(rows, l) = rows
    BY <1>1, <1>4 DEF DeductLine
  <2>. QED BY <2>1
<1>. QED BY <1>3, <1>4

(* writeNewProductQuantityFromOrder, line by line.                         *)
DeductedUpTo(g, lines, products) ==
    /\ g[0] = products /\ Deducted(lines, products) = g[Len(lines)]
    /\ \A m \in 1..Len(lines) : g[m] = DeductLine(g[m-1], lines[m])

LEMMA DeductedSteps ==
    ASSUME NEW lines \in Seq(OrderLine), NEW products \in Seq(Row(Product))
    PROVE  \E g : DeductedUpTo(g, lines, products)
<1>1. PICK X : X = Seq(Row(Product))
  OBVIOUS
<1>2. PICK n \in Nat : n = Len(lines) /\ DOMAIN lines = 1..n
  OBVIOUS
<1>3. \A i \in 1..n : lines[i] \in OrderLine
  BY <1>2
<1>4. PICK G : G = [p \in (1..n) \X X |-> DeductLine(p[2], lines[p[1]])]
  OBVIOUS
<1>5. products \in X /\ G \in [(1..n) \X X -> X]
  BY <1>1, <1>3, <1>4, DeductLineType
<1>6. PICK h : Unfolds(h, products, G, X, n)
  BY <1>5, FoldUnfolds
<1>7. \A s \in SUBSET (1..n) :
        h[s] = IF s = {} THEN products ELSE DeductLine(h[s \ {Max(s)}], lines[Max(s)])
  BY <1>4, <1>6 DEF Unfolds
<1>8. IsDeducted(h, lines, products)
  BY <1>2, <1>6, <1>7 DEF IsDeducted, Unfolds
<1>9. PICK f : IsDeducted(f, lines, products) /\ Deducted(lines, products) = f[1..n]
  <2> DEFINE f == CHOOSE f : f = [s \in SUBSET DOMAIN lines |->
                IF s = {} THEN products
                ELSE [f[s \ {Max(s)}] EXCEPT
                        ![RowOf(f[s \ {Max(s)}], lines[Max(s)].item)][Quantity] =
                           @ - lines[Max(s)].quantity]]
  <2>1. Deducted(lines, products) = f[DOMAIN lines]
    BY DEF Deducted, FoldLeft, MapThenFoldSet
  <2>2. IsDeducted(f, lines, products)
    BY <1>8 DEF IsDeducted, DeductLine
  <2>. QED BY <1>2, <2>1, <2>2
<1>10. f[{}] = products /\
       \A m \in 1..n : f[1..m] = DeductLine(f[1..(m-1)], lines[m])
  <2>1. \A s \in SUBSET (1..n) :
        f[s] = IF s = {} THEN products ELSE DeductLine(f[s \ {Max(s)}], lines[Max(s)])
    BY <1>2, <1>9 DEF IsDeducted
  <2>2. \A m \in 1..n : 1..m \in SUBSET (1..n) /\ 1..m # {} /\ Max(1..m) = m
                          /\ (1..m) \ {m} = 1..(m-1)
    BY FirstPlaces
  <2>. QED BY <2>1, <2>2
<1>. PICK g : g = [m \in 0..n |-> f[1..m]]
  OBVIOUS
<1>11. g[0] = products /\ g[n] = f[1..n]
  <2>1. 1..0 = {}
    OBVIOUS
  <2>. QED BY <1>10, <2>1
<1>12. ASSUME NEW m \in 1..n PROVE g[m] = DeductLine(g[m-1], lines[m])
  <2>1. m \in 0..n /\ m - 1 \in 0..n
    OBVIOUS
  <2>. QED BY <1>10, <2>1
<1>13. DeductedUpTo(g, lines, products)
  BY <1>2, <1>9, <1>11, <1>12 DEF DeductedUpTo
<1>. QED BY <1>13

(* It leaves the table a table.                                            *)
LEMMA DeductedType ==
    ASSUME NEW lines \in Seq(OrderLine), NEW products \in Seq(Row(Product))
    PROVE  Deducted(lines, products) \in Seq(Row(Product))
<1>. PICK n \in Nat : n = Len(lines)
  OBVIOUS
<1>0. PICK g : DeductedUpTo(g, lines, products)
  BY DeductedSteps
<1>1. /\ g[0] = products /\ Deducted(lines, products) = g[n]
      /\ \A m \in 1..n : g[m] = DeductLine(g[m-1], lines[m])
  BY <1>0 DEF DeductedUpTo
<1> DEFINE G == {m \in 0..n : g[m] \in Seq(Row(Product))}
<1>2. ASSUME NEW m \in 1..n, m - 1 \in G PROVE m \in G
  <2>1. g[m-1] \in Seq(Row(Product)) /\ lines[m] \in OrderLine /\ m \in 0..n
    BY <1>2
  <2>2. DeductLine(g[m-1], lines[m]) \in Seq(Row(Product))
    BY <2>1, DeductLineType
  <2>. QED BY <1>1, <2>1, <2>2
<1>3. 0 \in G
  BY <1>1
<1>4. n \in G
  <2> HIDE DEF G
  <2>. QED BY <1>2, <1>3, Upwards
<1>. QED BY <1>1, <1>4

(* One line of an order, added to the bill; the fold of Bill with it.      *)
AddLine(sum, l) == sum + LineCost(l)
IsTotal(h, lines) ==
    h = [s \in SUBSET DOMAIN lines |->
            IF s = {} THEN 0 ELSE AddLine(h[s \ {Max(s)}], lines[Max(s)])]

(* It is a number.                                                         *)
LEMMA AddLineType ==
    ASSUME NEW sum \in Int, NEW l \in OrderLine
    PROVE  LineCost(l) \in Int /\ AddLine(sum, l) \in Int
BY DEF LineCost, AddLine, OrderLine

(* The total of an order is a number.                                      *)
LEMMA TotalType ==
    ASSUME NEW lines \in Seq(OrderLine)
    PROVE  FoldLeft(LAMBDA sum, l : sum + LineCost(l), 0, lines) \in Int
<1>1. PICK X : X = Int
  OBVIOUS
<1>2. PICK n \in Nat : n = Len(lines) /\ DOMAIN lines = 1..n
  OBVIOUS
<1>3. \A i \in 1..n : lines[i] \in OrderLine
  BY <1>2
<1>4. PICK G : G = [p \in (1..n) \X X |-> AddLine(p[2], lines[p[1]])]
  OBVIOUS
<1>5. 0 \in X /\ G \in [(1..n) \X X -> X]
  BY <1>1, <1>3, <1>4, AddLineType
<1>6. PICK h : Unfolds(h, 0, G, X, n)
  BY <1>5, FoldUnfolds
<1>7. \A s \in SUBSET (1..n) :
        h[s] = IF s = {} THEN 0 ELSE AddLine(h[s \ {Max(s)}], lines[Max(s)])
  BY <1>4, <1>6 DEF Unfolds
<1>8. IsTotal(h, lines)
  BY <1>2, <1>6, <1>7 DEF IsTotal, Unfolds
<1>9. PICK f : IsTotal(f, lines)
                 /\ FoldLeft(LAMBDA sum, l : sum + LineCost(l), 0, lines) = f[1..n]
  <2> DEFINE f == CHOOSE f : f = [s \in SUBSET DOMAIN lines |->
                IF s = {} THEN 0
                ELSE f[s \ {Max(s)}] + LineCost(lines[Max(s)])]
  <2>1. FoldLeft(LAMBDA sum, l : sum + LineCost(l), 0, lines) = f[DOMAIN lines]
    BY DEF FoldLeft, MapThenFoldSet
  <2>2. IsTotal(f, lines)
    BY <1>8 DEF IsTotal, AddLine
  <2>. QED BY <1>2, <2>1, <2>2
<1>10. f[{}] = 0 /\
       \A m \in 1..n : f[1..m] = AddLine(f[1..(m-1)], lines[m])
  <2>1. \A s \in SUBSET (1..n) :
        f[s] = IF s = {} THEN 0 ELSE AddLine(f[s \ {Max(s)}], lines[Max(s)])
    BY <1>2, <1>9 DEF IsTotal
  <2>2. \A m \in 1..n : 1..m \in SUBSET (1..n) /\ 1..m # {} /\ Max(1..m) = m
                          /\ (1..m) \ {m} = 1..(m-1)
    BY FirstPlaces
  <2>. QED BY <2>1, <2>2
<1>11. \A m \in 1..n : f[1..(m-1)] \in X => f[1..m] \in X
  BY <1>1, <1>3, <1>10, AddLineType
<1>12. f[1..n] \in X
  BY <1>1, <1>10, <1>11, FoldType
<1>. QED BY <1>1, <1>9, <1>12
(* The tables, one by one.                                                 *)
LEMMA TablesAre ==
    /\ Product \in Tables /\ Billing \in Tables /\ Orders \in Tables
    /\ Customer \in Tables /\ Sellers \in Tables
BY DEF Tables

(* One line of an order as a row.                                          *)
LineRow(l, id, who) == <<id, l.item, l.quantity, who, LineCost(l)>>

LEMMA LineRowType ==
    ASSUME NEW l \in OrderLine, NEW id \in Int, NEW who \in Plain
    PROVE  LineRow(l, id, who) \in Row(Orders)
<1>1. l.item \in Int /\ l.quantity \in Int /\ LineCost(l) \in Int
  BY DEF OrderLine, LineCost
<1>. QED BY <1>1, RowTuples DEF LineRow

(* The rows of three parts, one behind the other.                          *)
LEMMA ThreeParts ==
    ASSUME NEW S, NEW a \in Seq(S), NEW b \in Seq(S), NEW c \in Seq(S), NEW all, all = a \o b \o c
    PROVE  /\ all \in Seq(S) /\ Len(all) = Len(a) + Len(b) + Len(c)
           /\ \A k \in 1..Len(all) :
                all[k] = IF k <= Len(a) THEN a[k]
                         ELSE IF k <= Len(a) + Len(b) THEN b[k - Len(a)]
                         ELSE c[k - Len(a) - Len(b)]
<1>1. PICK ab : ab = a \o b
  OBVIOUS
<1>2. /\ ab \in Seq(S) /\ Len(ab) = Len(a) + Len(b)
      /\ \A k \in 1..Len(ab) : ab[k] = IF k <= Len(a) THEN a[k] ELSE b[k - Len(a)]
  BY <1>1, ConcatProperties
<1>3. /\ all \in Seq(S) /\ Len(all) = Len(ab) + Len(c)
      /\ \A k \in 1..Len(all) : all[k] = IF k <= Len(ab) THEN ab[k] ELSE c[k - Len(ab)]
  BY <1>1, <1>2, ConcatProperties
<1>4. Len(a) \in Nat /\ Len(b) \in Nat /\ Len(c) \in Nat
  OBVIOUS
<1>. QED BY <1>2, <1>3, <1>4

(* The lines take the rows from f on, and the others stay.                 *)
LinesPlaced(new, f, cmd, id, who, orders) ==
    /\ new \in Seq(Row(Orders)) /\ Len(new) >= f - 1
    /\ \A k \in 1..Len(new) :
         \/ k \in DOMAIN orders /\ new[k] = orders[k] /\ (k < f \/ k >= f + Len(cmd.lines))
         \/ /\ k >= f /\ k < f + Len(cmd.lines)
            /\ \E i \in DOMAIN cmd.lines : new[k] = LineRow(cmd.lines[i], id, who)

(* writeOrderToCustomerOrder, row by row.                                  *)
LEMMA WithLinesPlaces ==
    ASSUME NEW cmd, cmd.lines \in Seq(OrderLine), NEW id \in Int, NEW who \in Plain,
           NEW orders \in Seq(Row(Orders))
    PROVE  LinesPlaced(WithLines(cmd, id, who, orders), FreeRow(Orders, orders),
                       cmd, id, who, orders)
<1>1. PICK f : f = FreeRow(Orders, orders)
  OBVIOUS
<1>2. f \in 1..(Len(orders) + 1)
  BY <1>1, FreeRowIs, TablesAre
<1>3. PICK n \in Nat : n = Len(cmd.lines) /\ DOMAIN cmd.lines = 1..n
  OBVIOUS
<1>4. PICK a : a = SubSeq(orders, 1, f - 1)
  OBVIOUS
<1>5. PICK b : b = [i \in DOMAIN cmd.lines |-> LineRow(cmd.lines[i], id, who)]
  OBVIOUS
<1>6. PICK c : c = SubSeq(orders, f + n, Len(orders))
  OBVIOUS
<1>7. a \in Seq(Row(Orders)) /\ Len(a) = f - 1 /\ \A k \in 1..(f - 1) : a[k] = orders[k]
  BY <1>2, <1>4, SubSeqProperties
<1>8. b \in Seq(Row(Orders)) /\ Len(b) = n /\ \A k \in 1..n : b[k] = LineRow(cmd.lines[k], id, who)
  BY <1>3, <1>5, LineRowType
<1>9. /\ c \in Seq(Row(Orders))
      /\ \A k \in 1..Len(c) : k + f + n - 1 \in DOMAIN orders /\ c[k] = orders[k + f + n - 1]
  <2>1. CASE f + n <= Len(orders)
    BY <1>2, <1>6, <2>1, SubSeqProperties
  <2>2. CASE f + n > Len(orders)
    <3>1. c = <<>>
      BY <1>2, <1>6, <2>2, SubSeqProperties
    <3>. QED BY <3>1
  <2>. QED BY <1>2, <2>1, <2>2
<1>10. PICK new : new = WithLines(cmd, id, who, orders)
  OBVIOUS
<1>11. new = a \o b \o c
  BY <1>1, <1>3, <1>4, <1>5, <1>6, <1>8, <1>10 DEF WithLines, UpToFree, LineRow
<1>12. /\ new \in Seq(Row(Orders)) /\ Len(new) = Len(a) + Len(b) + Len(c)
       /\ \A k \in 1..Len(new) :
            new[k] = IF k <= Len(a) THEN a[k]
                     ELSE IF k <= Len(a) + Len(b) THEN b[k - Len(a)]
                     ELSE c[k - Len(a) - Len(b)]
  BY <1>7, <1>8, <1>9, <1>11, ThreeParts
<1>13. ASSUME NEW k \in 1..Len(new)
       PROVE  \/ k \in DOMAIN orders /\ new[k] = orders[k] /\ (k < f \/ k >= f + n)
              \/ /\ k >= f /\ k < f + n
                 /\ \E i \in DOMAIN cmd.lines : new[k] = LineRow(cmd.lines[i], id, who)
  <2>1. CASE k < f
    BY <1>2, <1>7, <1>12, <2>1
  <2>2. CASE k >= f /\ k < f + n
    <3>1. PICK i : i = k - (f - 1)
      OBVIOUS
    <3>2. i \in 1..n /\ new[k] = b[i]
      BY <1>2, <1>7, <1>8, <1>12, <2>2, <3>1
    <3>. QED BY <1>3, <1>8, <2>2, <3>2
  <2>3. CASE k >= f + n
    <3>1. PICK i : i = k - (f - 1) - n
      OBVIOUS
    <3>2. i \in 1..Len(c) /\ new[k] = c[i] /\ i + f + n - 1 = k
      BY <1>2, <1>7, <1>8, <1>9, <1>12, <2>3, <3>1
    <3>3. k \in DOMAIN orders /\ c[i] = orders[k]
      BY <1>9, <3>2
    <3>. QED BY <2>3, <3>2, <3>3
  <2>. QED BY <1>2, <2>1, <2>2, <2>3
<1>14. Len(new) >= f - 1
  BY <1>2, <1>7, <1>8, <1>9, <1>12
<1>. QED BY <1>1, <1>3, <1>10, <1>12, <1>13, <1>14 DEF LinesPlaced

(* It leaves the table a table.                                            *)
LEMMA WithLinesType ==
    ASSUME NEW cmd, cmd.lines \in Seq(OrderLine), NEW id \in Int, NEW who \in Plain,
           NEW orders \in Seq(Row(Orders))
    PROVE  WithLines(cmd, id, who, orders) \in Seq(Row(Orders))
BY WithLinesPlaces DEF LinesPlaced

(* Tables that hold what their columns say.                                *)
Typed(tables) == \A t \in Tables : t \in DOMAIN tables => tables[t] \in Seq(Row(t))
RowsOfTables(rows) == DOMAIN rows = Tables /\ Typed(rows)

(* Neither a number nor what a client sends is a line end.                 *)
LEMMA IntsArePlain == Int \subseteq Plain /\ Fields \subseteq Plain /\ NoText \in Plain
BY TextsAssumption DEF Plain, Tokens, Texts, Fields

(* The three tables of an order.                                           *)
LEMMA OrderType ==
    ASSUME NEW cmd \in Commands, cmd.op = "COMPLETE_ORDER", NEW id \in Int, NEW rows,
           RowsOfTables(rows), Has(rows[Customer], cmd.buyer)
    PROVE  Typed(completeAnOrder(cmd, id, rows))
<1>1. /\ rows[Product] \in Seq(Row(Product)) /\ rows[Billing] \in Seq(Row(Billing))
      /\ rows[Orders] \in Seq(Row(Orders)) /\ rows[Customer] \in Seq(Row(Customer))
  BY TablesAre DEF RowsOfTables, Typed
<1>2. cmd.lines \in Seq(OrderLine) /\ cmd.buyer \in Int
  BY RequestFields DEF OrderLine
<1>3. PICK who : who = rows[Customer][RowOf(rows[Customer], cmd.buyer)][Who[Customer]]
  OBVIOUS
<1>4. who \in Plain
  <2>1. PICK i \in DOMAIN rows[Customer] : i = RowOf(rows[Customer], cmd.buyer)
    BY <1>1, RowOfIs
  <2>2. rows[Customer][i] \in Row(Customer)
    BY <1>1
  <2>3. Who[Customer] = 2 /\ 2 \in 1..Width(Customer) /\ Width(Customer) # 2
    BY ColumnsAre DEF Width
  <2>4. who = rows[Customer][i][2]
    BY <1>3, <2>1, <2>3
  <2>. QED BY <2>2, <2>3, <2>4 DEF Row, Plain
<1>5. Deducted(cmd.lines, rows[Product]) \in Seq(Row(Product))
  BY <1>1, <1>2, DeductedType
<1>6. PutRow(Billing, rows[Billing], Bill(cmd, id, who)) \in Seq(Row(Billing))
  <2>1. FoldLeft(LAMBDA sum, l : sum + LineCost(l), 0, cmd.lines) \in Int
    BY <1>2, TotalType
  <2>2. Bill(cmd, id, who) \in Row(Billing)
    BY <1>2, <1>4, <2>1, RowTuples DEF Bill
  <2>. QED BY <1>1, <2>2, PutRowType, TablesAre
<1>7. WithLines(cmd, id, who, rows[Orders]) \in Seq(Row(Orders))
  BY <1>1, <1>2, <1>4, WithLinesType
<1>8. completeAnOrder(cmd, id, rows) =
        [t \in {Product, Billing, Orders} |->
            CASE t = Product -> Deducted(cmd.lines, rows[t])
              [] t = Billing -> PutRow(t, rows[t], Bill(cmd, id, who))
              [] t = Orders  -> WithLines(cmd, id, who, rows[t])]
  BY <1>3 DEF completeAnOrder
<1>. QED BY <1>5, <1>6, <1>7, <1>8, ColumnsAre DEF Typed

(* The two of an order that is modified.                                   *)
LEMMA ModifiedOrderType ==
    ASSUME NEW cmd \in Commands, cmd.op = "MOD_ORDER", NEW rows,
           RowsOfTables(rows), Has(rows[Orders], cmd.order)
    PROVE  Typed(buyerModifiesOrder(cmd, rows))
<1>1. rows[Billing] \in Seq(Row(Billing)) /\ rows[Orders] \in Seq(Row(Orders))
  BY TablesAre DEF RowsOfTables, Typed
<1>2. PICK first : first = rows[Orders][RowOf(rows[Orders], cmd.order)]
  OBVIOUS
<1>3. first[Cost] \in Int
  <2>1. first \in Row(Orders)
    BY <1>1, <1>2, RowOfIs
  <2>2. 5 \in 1..Width(Orders) /\ Columns[Orders][5]
    BY ColumnsAre DEF Width
  <2>. QED BY <2>1, <2>2 DEF Row, Cost
<1>4. Without(SubSeq(rows[Orders], 1, FirstZero(Orders, rows[Orders], Item) - 1),
              Item, cmd.item) \in Seq(Row(Orders))
  <2>1. 2 \in 1..Width(Orders) /\ Columns[Orders][2]
    BY ColumnsAre DEF Width
  <2>2. FirstZero(Orders, rows[Orders], Item) \in 1..(Len(rows[Orders]) + 1)
    BY <1>1, <2>1, FirstZeroIs, TablesAre DEF Item
  <2>3. SubSeq(rows[Orders], 1, FirstZero(Orders, rows[Orders], Item) - 1) \in Seq(Row(Orders))
    BY <1>1, <2>2, PrefixType
  <2>. QED BY <2>3, WithoutType
<1>5. [rows[Billing] EXCEPT ![RowOf(rows[Billing], cmd.order)][Total] = @ - first[Cost]]
        \in Seq(Row(Billing))
  <2>1. PICK i : i = RowOf(rows[Billing], cmd.order)
    OBVIOUS
  <2>2. CASE i \in 1..Len(rows[Billing])
    <3>1. rows[Billing][i] \in Row(Billing)
      BY <1>1, <2>2
    <3>2. 4 \in 1..Width(Billing) /\ Columns[Billing][4]
      BY ColumnsAre DEF Width
    <3>3. PICK v \in Int : v = rows[Billing][i][4] - first[Cost]
      BY <1>3, <3>1, <3>2 DEF Row
    <3>4. [rows[Billing] EXCEPT ![i][4] = v] \in Seq(Row(Billing))
      BY <1>1, SetFields, IntsArePlain, TablesAre
    <3>5. [rows[Billing] EXCEPT ![i][4] = @ - first[Cost]] = [rows[Billing] EXCEPT ![i][4] = v]
      BY <1>1, <2>2, <3>3
    <3>. QED BY <2>1, <3>4, <3>5, Zenon DEF Total
  <2>3. CASE i \notin 1..Len(rows[Billing])
    <3>1. [rows[Billing] EXCEPT ![i][4] = @ - first[Cost]] = rows[Billing]
      BY <1>1, <2>3
    <3>. QED BY <1>1, <2>1, <3>1, Zenon DEF Total
  <2>. QED BY <2>2, <2>3
<1>6. buyerModifiesOrder(cmd, rows) =
        [t \in {Orders} \cup {b \in {Billing} : Has(rows[b], cmd.order)} |->
            CASE t = Orders ->
                   Without(SubSeq(rows[t], 1, FirstZero(t, rows[t], Item) - 1), Item, cmd.item)
              [] t = Billing ->
                   [rows[t] EXCEPT ![RowOf(rows[t], cmd.order)][Total] = @ - first[Cost]]]
  BY <1>2 DEF buyerModifiesOrder
<1>. QED BY <1>4, <1>5, <1>6, ColumnsAre DEF Typed

(* The three of a buyer who changes his name or his address.               *)
LEMMA EditsType ==
    ASSUME NEW cmd \in Commands, cmd.op = "EDIT_INFO", NEW rows, RowsOfTables(rows)
    PROVE  Typed(buyerEdits(cmd, rows))
<1>1. /\ rows[Customer] \in Seq(Row(Customer)) /\ rows[Billing] \in Seq(Row(Billing))
      /\ rows[Orders] \in Seq(Row(Orders))
  BY TablesAre DEF RowsOfTables, Typed
<1>2. cmd.name \in Fields /\ cmd.name \in Plain /\ cmd.column \in {2, 3, 4}
  BY RequestFields, IntsArePlain DEF Name, Phone, Address
<1>3. [rows[Customer] EXCEPT ![RowOf(rows[Customer], cmd.buyer)][cmd.column] = cmd.name]
        \in Seq(Row(Customer))
  <2>1. ~Columns[Customer][2] /\ ~Columns[Customer][3] /\ ~Columns[Customer][4]
    BY ColumnsAre
  <2>. QED BY <1>1, <1>2, <2>1, SetFields, TablesAre
<1>4. /\ Renamed(Billing, rows[Billing], cmd.name, {cmd.buyer}, Buyer) \in Seq(Row(Billing))
      /\ Renamed(Orders, rows[Orders], cmd.name, OrdersOf(cmd.buyer, rows[Billing]), Id)
           \in Seq(Row(Orders))
  BY <1>1, <1>2, RenamedType
<1>5. Customer # Billing /\ Customer # Orders /\ Billing # Orders
  BY ColumnsAre
<1>. QED BY <1>3, <1>4, <1>5 DEF Typed, buyerEdits

(* The one of a seller.                                                    *)
LEMMA ProductsType ==
    ASSUME NEW cmd \in Commands, NEW id \in Int, NEW rows \in Seq(Row(Product))
    PROVE  /\ cmd.op = "NEW_PRODUCT" => NewProduct(cmd, id, rows) \in Seq(Row(Product))
           /\ cmd.op = "DELETE_PROD" => deleteProduct(cmd, rows) \in Seq(Row(Product))
           /\ cmd.op = "MOD_QUANT" =>
                Modified(cmd, rows, Quantity, cmd.quantity) \in Seq(Row(Product))
           /\ cmd.op = "MOD_PRICE" => Modified(cmd, rows, Price, cmd.price) \in Seq(Row(Product))
<1>1. CASE cmd.op = "NEW_PRODUCT"
  <2>1. <<id, cmd.name, cmd.seller, cmd.quantity, cmd.price>> \in Row(Product)
    BY <1>1, RequestFields, RowTuples, IntsArePlain
  <2>. QED BY <1>1, <2>1, PutRowType, TablesAre DEF NewProduct
<1>2. CASE cmd.op = "DELETE_PROD"
  <2>1. Without(UpToFree(Product, rows), Id, cmd.item) \in Seq(Row(Product))
    BY UpToFreeType, WithoutType, TablesAre
  <2>. QED BY <1>2, <2>1 DEF deleteProduct
<1>3. CASE cmd.op = "MOD_QUANT"
  <2>1. cmd.quantity \in Int /\ cmd.quantity \in Plain
    BY <1>3, RequestFields, IntsArePlain
  <2>2. [rows EXCEPT ![RowOf(rows, cmd.item)][Quantity] = cmd.quantity] \in Seq(Row(Product))
    BY <2>1, SetFields, TablesAre
  <2>. QED BY <1>3, <2>2 DEF Modified
<1>4. CASE cmd.op = "MOD_PRICE"
  <2>1. cmd.price \in Int /\ cmd.price \in Plain
    BY <1>4, RequestFields, IntsArePlain
  <2>2. [rows EXCEPT ![RowOf(rows, cmd.item)][Price] = cmd.price] \in Seq(Row(Product))
    BY <2>1, SetFields, TablesAre
  <2>. QED BY <1>4, <2>2 DEF Modified
<1>. QED BY <1>1, <1>2, <1>3, <1>4

(* The one of a new client, or of an edited one.                           *)
LEMMA ClientsType ==
    ASSUME NEW cmd \in Commands, NEW id \in Int, NEW rows,
           cmd.op \in {"NEW_CLIENT", "EDIT_ROW"} => rows \in Seq(Row(cmd.table))
    PROVE  /\ cmd.op = "NEW_CLIENT" => NewClient(cmd, id, rows) \in Seq(Row(cmd.table))
           /\ cmd.op = "EDIT_ROW" => EditRow(cmd, rows) \in Seq(Row(cmd.table))
<1>1. cmd.op \in {"NEW_CLIENT", "EDIT_ROW"} =>
        cmd.table \in {Customer, Sellers} /\ cmd.table \in Tables
  BY RequestFields, TablesAre
<1>2. CASE cmd.op = "NEW_CLIENT"
  <2>4. cmd.name \in Plain /\ cmd.address \in Plain
    BY <1>2, RequestFields, IntsArePlain
  <2>5. /\ <<id, cmd.name, NoText, cmd.address>> \in Row(Customer)
        /\ <<id, cmd.name, NoText, cmd.address>> \in Row(Sellers)
    BY <2>4, RowTuples
  <2>1. <<id, cmd.name, NoText, cmd.address>> \in Row(cmd.table)
    BY <1>1, <1>2, <2>5
  <2>2. CASE cmd.table = Customer
    BY <1>1, <1>2, <2>1, <2>2, PutRowType DEF NewClient
  <2>3. CASE cmd.table = Sellers
    <3>1. Sellers # Customer
      BY DEF Sellers, Customer
    <3>. QED BY <1>1, <1>2, <2>1, <2>3, <3>1, PutAfterGapType DEF NewClient
  <2>. QED BY <1>1, <1>2, <2>2, <2>3
<1>3. CASE cmd.op = "EDIT_ROW"
  <2>1. cmd.name \in Plain /\ cmd.column \in {2, 3, 4}
    BY <1>3, RequestFields, IntsArePlain DEF Name, Phone, Address
  <2>2. ~Columns[cmd.table][2] /\ ~Columns[cmd.table][3] /\ ~Columns[cmd.table][4]
    <3>1. Columns[cmd.table] = <<TRUE, FALSE, FALSE, FALSE>>
      BY <1>1, <1>3, ColumnsAre
    <3>. QED BY <3>1
  <2>. QED BY <1>1, <1>3, <2>1, <2>2, SetFields DEF EditRow
<1>. QED BY <1>2, <1>3

(* A command makes tables of tables, whatever it is.                       *)
LEMMA ChangedType ==
    ASSUME NEW cmd \in Commands, cmd.op # "VIEW", NEW id \in Int, NEW rows, RowsOfTables(rows),
           cmd.op = "COMPLETE_ORDER" => Has(rows[Customer], cmd.buyer),
           cmd.op = "MOD_ORDER" => Has(rows[Orders], cmd.order)
    PROVE  Typed(Changed(cmd, id, rows))
<1>1. cmd.op \in {"COMPLETE_ORDER", "MOD_ORDER", "EDIT_INFO", "EDIT_ROW", "NEW_CLIENT",
                  "NEW_PRODUCT", "DELETE_PROD", "MOD_QUANT", "MOD_PRICE"}
  BY RequestFields
<1>2. rows[Product] \in Seq(Row(Product))
  BY TablesAre DEF RowsOfTables, Typed
<1>3. CASE cmd.op = "COMPLETE_ORDER"
  BY <1>3, OrderType DEF Changed
<1>4. CASE cmd.op = "MOD_ORDER"
  BY <1>4, ModifiedOrderType DEF Changed
<1>5. CASE cmd.op = "EDIT_INFO"
  BY <1>5, EditsType DEF Changed
<1>6. CASE cmd.op = "NEW_PRODUCT"
  BY <1>2, <1>6, ProductsType DEF Changed, Typed
<1>7. CASE cmd.op = "DELETE_PROD"
  BY <1>2, <1>7, ProductsType DEF Changed, Typed
<1>8. CASE cmd.op = "MOD_QUANT"
  BY <1>2, <1>8, ProductsType DEF Changed, Typed
<1>9. CASE cmd.op = "MOD_PRICE"
  BY <1>2, <1>9, ProductsType DEF Changed, Typed
<1>10. CASE cmd.op \in {"NEW_CLIENT", "EDIT_ROW"}
  <2>1. cmd.table \in Tables
    BY <1>10, RequestFields, TablesAre
  <2>2. rows[cmd.table] \in Seq(Row(cmd.table))
    BY <2>1 DEF RowsOfTables, Typed
  <2>3. CASE cmd.op = "NEW_CLIENT"
    BY <2>2, <2>3, ClientsType DEF Changed, Typed
  <2>4. CASE cmd.op = "EDIT_ROW"
    BY <2>2, <2>4, ClientsType DEF Changed, Typed
  <2>. QED BY <1>10, <2>3, <2>4
<1>. QED BY <1>1, <1>3, <1>4, <1>5, <1>6, <1>7, <1>8, <1>9, <1>10

----------------------------------------------------------------------------
(* Every step keeps the files files *)

(* The files, what is loaded from them, and what is being written to them. *)
FilesInv ==
    /\ text \in [Tables -> TextFiles]
    /\ DOMAIN memory = Threads /\ \A c \in Threads : Typed(memory[c])
    /\ output \in [Threads -> Seq(EndedLines)]

(* Nothing is loaded, nothing written, or the file is empty.               *)
LEMMA NothingTyped == Typed(<<>>) /\ <<>> \in Seq(EndedLines) /\ <<>> \in TextFiles
<1>1. \A t \in Tables : t \notin DOMAIN <<>>
  BY DEF Tables
<1>. QED BY <1>1 DEF Typed, TextFiles

(* Files and output that no step touches.                                  *)
LEMMA FilesStay ==
    ASSUME FilesInv, text' = text, output' = output,
           \A c \in Threads : memory'[c] = memory[c] \/ Typed(memory'[c]),
           DOMAIN memory' = Threads
    PROVE  FilesInv'
BY DEF FilesInv, Typed

(* A stop leaves the files, and forgets the rest.                          *)
LEMMA StopFiles == ASSUME FilesInv, Stop PROVE FilesInv'
<1>1. /\ text' = text /\ memory' = [c \in Threads |-> <<>>]
      /\ output' = [c \in Threads |-> <<>>]
  BY DEF Stop
<1>2. output' \in [Threads -> Seq(EndedLines)]
  BY <1>1, NothingTyped
<1>3. DOMAIN memory' = Threads /\ \A c \in Threads : Typed(memory'[c])
  BY <1>1, NothingTyped
<1>. QED BY <1>1, <1>2, <1>3 DEF FilesInv, Typed

(* So does the end of a command, for its own part.                         *)
LEMMA LeaveFiles ==
    ASSUME FilesInv, NEW c \in Threads, Leave(c), UNCHANGED <<text, output>> PROVE FilesInv'
<1>1. memory' = [memory EXCEPT ![c] = <<>>]
  BY DEF Leave
<1>2. DOMAIN memory' = Threads /\ \A d \in Threads : memory'[d] = memory[d] \/ Typed(memory'[d])
  BY <1>1, NothingTyped DEF FilesInv
<1>. QED BY <1>2, FilesStay

(* The loads, and the change in memory.                                    *)
LEMMA BeginFiles == ASSUME IInv, FilesInv, NEW c \in Threads, Begin(c) PROVE FilesInv'
<1> DEFINE cmd == command[c]
           rows == [t \in Tables |-> Load(t, text[t])]
           good == {t \in Tables : Readable(t, text[t])}
<1>1. CASE Stop
  BY <1>1, StopFiles
<1>2. CASE /\ LoadsFirst(cmd) \subseteq good /\ Found(cmd, rows) /\ phase[c] = "accepted"
           /\ \E id \in NewIds :
                memory' = [memory EXCEPT ![c] =
                    LET all == Changed(cmd, id, [t \in Tables |->
                                   IF t \in good THEN rows[t] ELSE <<>>]) IN
                    [t \in DOMAIN all \cap good |-> all[t]]]
           /\ UNCHANGED <<text, output>>
  <2> HIDE DEF cmd, rows, good
  <2>. PICK kept : kept = [t \in Tables |-> IF t \in good THEN rows[t] ELSE <<>>]
    OBVIOUS
  <2>1. PICK id \in NewIds :
           memory' = [memory EXCEPT ![c] =
                        [t \in DOMAIN Changed(cmd, id, kept) \cap good |->
                            Changed(cmd, id, kept)[t]]]
    BY <1>2
  <2>2. cmd \in Commands /\ cmd.op # "VIEW"
    BY <1>2 DEF IInv, Types, Progress, cmd
  <2>3. id \in Int
    BY CommandsAssumption
  <2>4. RowsOfTables(kept)
    <3>1. \A t \in Tables : t \in good => rows[t] \in Seq(Row(t))
      BY LoadType DEF FilesInv, rows, good
    <3>2. \A t \in Tables : kept[t] \in Seq(Row(t))
      BY <3>1
    <3>. QED BY <3>2 DEF RowsOfTables, Typed
  <2>5. cmd.op = "COMPLETE_ORDER" => Has(kept[Customer], cmd.buyer)
    <3>. SUFFICES ASSUME cmd.op = "COMPLETE_ORDER" PROVE Has(kept[Customer], cmd.buyer)
      OBVIOUS
    <3>1. Has(rows[Customer], cmd.buyer)
      BY <1>2 DEF Found
    <3>2. Customer \in good
      <4>1. Customer # Sellers
        BY DEF Customer, Sellers
      <4>. QED BY <1>2, <4>1, TablesAre DEF LoadsFirst
    <3>. QED BY <3>1, <3>2, TablesAre
  <2>6. cmd.op = "MOD_ORDER" => Has(kept[Orders], cmd.order)
    <3>. SUFFICES ASSUME cmd.op = "MOD_ORDER" PROVE Has(kept[Orders], cmd.order)
      OBVIOUS
    <3>1. Has(rows[Orders], cmd.order)
      BY <1>2 DEF Found
    <3>2. Orders \in good
      BY <1>2 DEF LoadsFirst, Locks, ProductOps
    <3>. QED BY <3>1, <3>2, TablesAre
  <2>7. Typed(Changed(cmd, id, kept))
    BY <2>2, <2>3, <2>4, <2>5, <2>6, ChangedType
  <2>8. PICK all : all = Changed(cmd, id, kept)
    OBVIOUS
  <2>9. memory' = [memory EXCEPT ![c] = [t \in DOMAIN all \cap good |-> all[t]]]
    BY <2>1, <2>8
  <2>10. Typed([t \in DOMAIN all \cap good |-> all[t]])
    BY <2>7, <2>8 DEF Typed
  <2>11. DOMAIN memory' = Threads /\ \A d \in Threads : memory'[d] = memory[d] \/ Typed(memory'[d])
    BY <2>9, <2>10 DEF FilesInv
  <2>. QED BY <1>2, <2>11, FilesStay
<1>. QED BY <1>1, <1>2 DEF Begin, files

(* The file is emptied, and what will be in it is made of whole lines.     *)
LEMMA TruncateFiles == ASSUME IInv, FilesInv, NEW c \in Threads, Truncate(c) PROVE FilesInv'
<1>1. CASE Stop
  BY <1>1, StopFiles
<1>2. ASSUME NEW t, t = Head(todo[c]), phase[c] = "writing", todo[c] # <<>>,
             t \in DOMAIN memory[c],
             output' = [output EXCEPT ![c] = WriteBack(t, memory[c][t], text[t])],
             text' = [text EXCEPT ![t] = <<>>], memory' = memory
      PROVE  FilesInv'
  <2>1. t \in Tables
    BY <1>2, NextTable DEF HasLocks
  <2>2. memory[c][t] \in Seq(Row(t)) /\ text[t] \in TextFiles
    BY <1>2, <2>1 DEF FilesInv, Typed
  <2>3. WriteBack(t, memory[c][t], text[t]) \in Seq(EndedLines)
    BY <2>1, <2>2, WriteBackType
  <2>4. output' \in [Threads -> Seq(EndedLines)]
    BY <1>2, <2>3 DEF FilesInv
  <2>5. text' \in [Tables -> TextFiles]
    BY <1>2, NothingTyped DEF FilesInv
  <2>. QED BY <1>2, <2>4, <2>5 DEF FilesInv
<1>. QED BY <1>1, <1>2 DEF Truncate

(* What is in the file is what was written.                                *)
LEMMA FlushFiles == ASSUME IInv, FilesInv, NEW c \in Threads, Flush(c) PROVE FilesInv'
<1>. PICK t : t = Head(todo[c])
  OBVIOUS
<1>1. /\ text' = [text EXCEPT ![t] = output[c]] /\ output' = [output EXCEPT ![c] = <<>>]
      /\ memory' = memory
  BY DEF Flush
<1>2. output[c] \in TextFiles
  BY EndedFile DEF FilesInv
<1>3. output' \in [Threads -> Seq(EndedLines)]
  BY <1>1, NothingTyped DEF FilesInv
<1>4. text' \in [Tables -> TextFiles]
  BY <1>1, <1>2 DEF FilesInv
<1>. QED BY <1>1, <1>3, <1>4 DEF FilesInv

(* Every step keeps the files files.                                       *)
LEMMA FilesNext == ASSUME IInv, FilesInv, [Next]_vars PROVE FilesInv'
<1>1. ASSUME UNCHANGED <<text, output, memory>> PROVE FilesInv'
  BY <1>1 DEF FilesInv
<1>2. ASSUME NEW c \in Threads, Read(c) PROVE FilesInv'
  <2>1. \/ Stop
        \/ UNCHANGED <<text, output>> /\ Leave(c)
        \/ UNCHANGED <<text, output, memory>>
    BY <1>2 DEF Read, files
  <2>. QED BY <1>1, <2>1, StopFiles, LeaveFiles
<1>3. ASSUME NEW c \in Threads, Refuse(c) \/ Answer(c) PROVE FilesInv'
  BY <1>3, LeaveFiles DEF Refuse, Answer, files
<1>4. ASSUME NEW c \in Threads, Take(c) PROVE FilesInv'
  BY <1>1, <1>4 DEF Take, files
<1>5. CASE UNCHANGED vars
  BY <1>1, <1>5 DEF vars
<1>6. CASE Crash
  BY <1>6, StopFiles DEF Crash
<1>. QED BY <1>2, <1>3, <1>4, <1>5, <1>6, BeginFiles, TruncateFiles, FlushFiles DEF Next

(* They are from the start.                                                *)
LEMMA FilesInit == ASSUME Init PROVE FilesInv
<1>1. text \in [Tables -> TextFiles]
  BY FilesAssumption DEF Init
<1>2. DOMAIN memory = Threads /\ \A c \in Threads : memory[c] = <<>>
  BY DEF Init
<1>3. output \in [Threads -> Seq(EndedLines)]
  BY NothingTyped DEF Init
<1>. QED BY <1>1, <1>2, <1>3, NothingTyped DEF FilesInv
=============================================================================
