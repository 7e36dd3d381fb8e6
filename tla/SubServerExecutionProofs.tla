---------------------- MODULE SubServerExecutionProofs ----------------------
(***************************************************************************)
(* No command is executed twice by the data server, whatever the clients   *)
(* send, whoever leaves, and however often the sub-server is killed and    *)
(* started again over the queue that it left.                              *)
(***************************************************************************)
EXTENDS SubServerProofs

(* Where a command may be, on its way and at its end.                      *)
Places == ({"written", "held", "carried"} \X Clients)
            \cup ({"queued", "arrived", "served"} \X {"all"})

Contents(p) ==
    CASE p[1] = "written" -> InSeq(toChild[p[2]])
      [] p[1] = "held"    -> {held[p[2]]} \ {None}
      [] p[1] = "queued"  -> InSeq(queue)
      [] p[1] = "carried" -> IF relay[p[2]] = "forward" THEN {carried[p[2]]} ELSE {}
      [] p[1] = "arrived" -> InSeq(dataIn)
      [] p[1] = "served"  -> served

Once(s) == \A i, j \in 1..Len(s) : s[i] = s[j] => i = j

OnePlace == \A p, q \in Places : p # q => Contents(p) \cap Contents(q) = {}
InOrder  == Once(queue) /\ Once(dataIn) /\ \A c \in Clients : Once(toChild[c])

(* A command has a number that the client, or its child when the client    *)
(* has gone, has used.                                                     *)
Numbered(m) == m.number <= asked[m.client]
Fresh == \A p \in Places : \A m \in Contents(p) : m \in Commands /\ Numbered(m)

XInv == TypeInv /\ OnePlace /\ InOrder /\ Fresh

----------------------------------------------------------------------------
(* Sequences without repetitions *)

LEMMA HeadLeaves ==
    ASSUME NEW S, NEW s \in Seq(S), s # <<>>, Once(s)
    PROVE  /\ Head(s) \in InSeq(s) /\ Head(s) \notin InSeq(Tail(s))
           /\ InSeq(Tail(s)) \subseteq InSeq(s) /\ Once(Tail(s))
<1>1. /\ Len(s) \in Nat /\ Len(s) > 0 /\ Head(s) = s[1]
      /\ Len(Tail(s)) = Len(s) - 1
      /\ \A i \in 1..Len(Tail(s)) : Tail(s)[i] = s[i + 1]
  BY HeadTailProperties, EmptySeq
<1>2. Head(s) \in InSeq(s) /\ InSeq(Tail(s)) \subseteq InSeq(s)
  <2>1. ASSUME NEW i \in 1..Len(Tail(s)) PROVE Tail(s)[i] \in InSeq(s)
    <3>1. i + 1 \in 1..Len(s) /\ Tail(s)[i] = s[i + 1]
      BY <1>1
    <3>. QED BY <3>1 DEF InSeq
  <2>2. 1 \in 1..Len(s)
    BY <1>1
  <2>. QED BY <1>1, <2>1, <2>2 DEF InSeq
<1>3. Head(s) \notin InSeq(Tail(s))
  <2> SUFFICES ASSUME NEW i \in 1..Len(Tail(s)), Tail(s)[i] = Head(s) PROVE FALSE
    BY DEF InSeq
  <2>. QED BY <1>1 DEF Once
<1>4. Once(Tail(s))
  BY <1>1 DEF Once
<1>. QED BY <1>2, <1>3, <1>4

LEMMA AppendJoins ==
    ASSUME NEW S, NEW s \in Seq(S), NEW e \in S
    PROVE  /\ InSeq(Append(s, e)) \subseteq InSeq(s) \cup {e}
           /\ e \notin InSeq(s) /\ Once(s) => Once(Append(s, e))
<1>1. /\ Len(s) \in Nat /\ Len(Append(s, e)) = Len(s) + 1
      /\ Append(s, e)[Len(s) + 1] = e
      /\ \A i \in 1..Len(s) : Append(s, e)[i] = s[i] /\ s[i] \in InSeq(s)
  BY AppendProperties DEF InSeq
<1>2. InSeq(Append(s, e)) \subseteq InSeq(s) \cup {e}
  BY <1>1 DEF InSeq
<1>3. ASSUME e \notin InSeq(s), Once(s) PROVE Once(Append(s, e))
  BY <1>1, <1>3 DEF Once
<1>. QED BY <1>2, <1>3

LEMMA EmptyHolds == InSeq(<<>>) = {} /\ Once(<<>>)
BY DEF InSeq, Once

----------------------------------------------------------------------------
(* Steps that hand commands over from one place to another                 *)

Shrinks(q) == \A p \in Places : p # q => Contents(p)' \subseteq Contents(p)

(* Commands of place p go to place q, or nowhere.                          *)
LEMMA HandOver ==
    ASSUME XInv, NEW p \in Places, NEW q \in Places, p # q, NEW X,
           X \subseteq Contents(p), X \cap Contents(p)' = {},
           Shrinks(q), Contents(q)' \subseteq Contents(q) \cup X
    PROVE  OnePlace' /\ \A r \in Places : \A m \in Contents(r)' :
                          \E o \in Places : m \in Contents(o)
<1>1. ASSUME NEW r \in Places, r # q PROVE X \cap Contents(r)' = {}
  <2>1. CASE r = p
    BY <2>1
  <2>2. CASE r # p
    <3>1. X \cap Contents(r) = {}
      BY <2>2 DEF XInv, OnePlace
    <3>. QED BY <1>1, <3>1 DEF Shrinks
  <2>. QED BY <2>1, <2>2
<1>2. OnePlace'
  <2>1. ASSUME NEW r \in Places, NEW o \in Places, r # o
        PROVE  Contents(r)' \cap Contents(o)' = {}
    <3>1. Contents(r) \cap Contents(o) = {}
      BY <2>1 DEF XInv, OnePlace
    <3>2. CASE r = q
      BY <1>1, <2>1, <3>1, <3>2 DEF Shrinks
    <3>3. CASE o = q
      BY <1>1, <2>1, <3>1, <3>3 DEF Shrinks
    <3>4. CASE r # q /\ o # q
      BY <3>1, <3>4 DEF Shrinks
    <3>. QED BY <3>2, <3>3, <3>4
  <2>2. Places' = Places
    BY DEF Places
  <2>. QED BY <2>1, <2>2 DEF OnePlace
<1>. QED BY <1>2 DEF Shrinks

(* Nothing arrives anywhere.                                               *)
LEMMA Remain ==
    ASSUME XInv, \A p \in Places : Contents(p)' \subseteq Contents(p)
    PROVE  OnePlace' /\ \A r \in Places : \A m \in Contents(r)' :
                          \E o \in Places : m \in Contents(o)
BY DEF XInv, OnePlace, Places

(* A command that is nowhere appears.                                      *)
LEMMA Appear ==
    ASSUME XInv, NEW q \in Places, NEW x, \A p \in Places : x \notin Contents(p),
           Shrinks(q), Contents(q)' \subseteq Contents(q) \cup {x}
    PROVE  OnePlace' /\ \A r \in Places : \A m \in Contents(r)' :
                          m = x \/ \E o \in Places : m \in Contents(o)
BY DEF XInv, OnePlace, Shrinks, Places

(* Numbers stay used.                                                      *)
Kept == \A c \in Clients : asked'[c] \in Nat /\ asked'[c] >= asked[c]

LEMMA FreshKept ==
    ASSUME XInv, Kept,
           \A r \in Places : \A m \in Contents(r)' :
             (m \in Commands /\ Numbered(m)') \/ \E o \in Places : m \in Contents(o)
    PROVE  Fresh'
<1>1. ASSUME NEW m \in Commands, Numbered(m) PROVE Numbered(m)'
  <2>1. m.client \in Clients /\ m.number \in Nat
    BY DEF Commands
  <2>2. asked[m.client] \in Nat
    BY <2>1 DEF XInv, TypeInv, TypeOK
  <2>. QED BY <1>1, <2>1, <2>2 DEF Numbered, Kept
<1>2. ASSUME NEW r \in Places, NEW m \in Contents(r)' PROVE m \in Commands /\ Numbered(m)'
  <2>1. CASE \E o \in Places : m \in Contents(o)
    <3>1. m \in Commands /\ Numbered(m)
      BY <2>1 DEF XInv, Fresh
    <3>. QED BY <1>1, <3>1
  <2>. QED BY <1>2, <2>1
<1>3. Places' = Places /\ Commands' = Commands
  BY DEF Places, Commands
<1>. QED BY <1>2, <1>3 DEF Fresh

(* What the steps of a client, its child and its relay need.               *)
LEMMA XFacts ==
    ASSUME XInv, NEW c \in Clients
    PROVE  /\ toChild[c] \in Seq(Commands) /\ toChild \in [Clients -> Seq(Commands)]
           /\ queue \in Seq(Commands) /\ dataIn \in Seq(Commands)
           /\ Once(toChild[c]) /\ Once(queue) /\ Once(dataIn)
           /\ \A d \in Clients : asked[d] \in Nat
           /\ {<<"written", c>>, <<"held", c>>, <<"carried", c>>, <<"queued", "all">>,
               <<"arrived", "all">>, <<"served", "all">>} \subseteq Places
BY BoundsAssumption DEF XInv, TypeInv, TypeOK, InOrder, Places

(* A command with a number not used yet is nowhere.                        *)
LEMMA NewIsNowhere ==
    ASSUME XInv, NEW c \in Clients, NEW k
    PROVE  \A p \in Places : [client |-> c, number |-> asked[c] + 1, kind |-> k] \notin Contents(p)
<1> DEFINE x == [client |-> c, number |-> asked[c] + 1, kind |-> k]
<1> SUFFICES ASSUME NEW p \in Places, x \in Contents(p) PROVE FALSE
  OBVIOUS
<1>1. x.client = c /\ x.number = asked[c] + 1
  OBVIOUS
<1> HIDE DEF x
<1>2. Numbered(x)
  BY DEF XInv, Fresh
<1>3. asked[c] \in Nat
  BY XFacts
<1>. QED BY <1>1, <1>2, <1>3 DEF Numbered

(* Numbers stay, or one of them is the next.                               *)
LEMMA KeptSame == ASSUME XInv, asked' = asked PROVE Kept
<1> SUFFICES ASSUME NEW d \in Clients PROVE asked'[d] \in Nat /\ asked'[d] >= asked[d]
  BY DEF Kept
<1>1. asked[d] \in Nat
  BY XFacts
<1>. QED BY <1>1

LEMMA KeptByOneMore ==
    ASSUME XInv, NEW c \in Clients, asked' = [asked EXCEPT ![c] = @ + 1] PROVE Kept
<1> SUFFICES ASSUME NEW d \in Clients PROVE asked'[d] \in Nat /\ asked'[d] >= asked[d]
  BY DEF Kept
<1>1. asked[d] \in Nat /\ asked[c] \in Nat /\ asked \in [Clients -> Nat]
  BY XFacts DEF XInv, TypeInv, TypeOK
<1>2. asked'[d] = IF d = c THEN asked[c] + 1 ELSE asked[d]
  BY <1>1
<1>. QED BY <1>1, <1>2

----------------------------------------------------------------------------
(* The actions *)

LEMMA ExecClient ==
    ASSUME XInv, NEW c \in Clients, Ask(c) \/ Exit(c) \/ Accept(c)
    PROVE  OnePlace' /\ InOrder' /\ Fresh'
<1>1. CASE Ask(c)
  <2>1. PICK k \in Kinds :
          toChild' = [toChild EXCEPT ![c] =
                        Append(@, [client |-> c, number |-> asked[c] + 1, kind |-> k])]
    BY <1>1 DEF Ask
  <2>4. PICK x \in Commands : x = [client |-> c, number |-> asked[c] + 1, kind |-> k]
    BY NewCommand DEF XInv
  <2>2. /\ client[c] = "menu" /\ asked' = [asked EXCEPT ![c] = @ + 1]
        /\ client' = [client EXCEPT ![c] = "waiting"]
        /\ child' = child /\ held' = held /\ relay' = relay /\ carried' = carried
        /\ queue' = queue /\ dataIn' = dataIn /\ served' = served
    BY <1>1 DEF Ask, processes, channels
  <2>3. \A p \in Places : x \notin Contents(p)
    BY <2>2, <2>4, NewIsNowhere
  <2>5. x.client = c /\ x.number = asked[c] + 1
    BY <2>4
  <2>6. toChild'[c] = Append(toChild[c], x) /\ \A d \in Clients : d # c => toChild'[d] = toChild[d]
    BY <2>1, <2>4, XFacts
  <2>7. Contents(<<"written", c>>) = InSeq(toChild[c])
        /\ Contents(<<"written", c>>)' = InSeq(toChild'[c])
    BY DEF Contents, InSeq
  <2>8. Shrinks(<<"written", c>>)
    BY <2>2, <2>6 DEF Shrinks, Contents, Places, InSeq
  <2>9. Contents(<<"written", c>>)' \subseteq Contents(<<"written", c>>) \cup {x}
    <3>1. toChild[c] \in Seq(Commands)
      BY XFacts
    <3>2. InSeq(Append(toChild[c], x)) \subseteq InSeq(toChild[c]) \cup {x}
      BY <3>1, AppendJoins
    <3>. QED BY <2>6, <2>7, <3>2
  <2>10. OnePlace' /\ \A r \in Places : \A m \in Contents(r)' :
                        m = x \/ \E o \in Places : m \in Contents(o)
    BY <2>3, <2>8, <2>9, XFacts, Appear
  <2>11. InOrder'
    <3>1. x \notin InSeq(toChild[c])
      BY <2>3, <2>7, XFacts
    <3>2. Once(toChild'[c])
      <4>1. toChild[c] \in Seq(Commands) /\ Once(toChild[c])
        BY XFacts
      <4>2. Once(Append(toChild[c], x))
        BY <3>1, <4>1, AppendJoins
      <4>. QED BY <2>6, <4>2
    <3>3. \A d \in Clients : Once(toChild'[d])
      BY <2>6, <3>2 DEF XInv, InOrder
    <3>4. Once(queue') /\ Once(dataIn')
      BY <2>2 DEF XInv, InOrder
    <3>. QED BY <3>3, <3>4 DEF InOrder, Once
  <2>12. Kept
    BY <2>2, KeptByOneMore
  <2>13. Numbered(x)'
    BY <2>2, <2>5, XFacts DEF Numbered, XInv, TypeInv, TypeOK
  <2>. QED BY <2>10, <2>11, <2>12, <2>13, FreshKept
<1>2. CASE Exit(c) \/ Accept(c)
  <2>1. /\ toChild' = toChild /\ held' = held /\ relay' = relay /\ carried' = carried
        /\ queue' = queue /\ dataIn' = dataIn /\ served' = served /\ asked' = asked
    BY <1>2 DEF Exit, Accept, processes, channels
  <2>2. \A p \in Places : Contents(p)' \subseteq Contents(p)
    BY <2>1 DEF Contents, InSeq
  <2>3. InOrder'
    BY <2>1 DEF XInv, InOrder, Once
  <2>4. Kept
    BY <2>1, KeptSame
  <2>. QED BY <2>2, <2>3, <2>4, Remain, FreshKept
<1>. QED BY <1>1, <1>2

(* A step that moves no command, and numbers none.                         *)
LEMMA ExecStill ==
    ASSUME XInv, UNCHANGED <<toChild, queue, dataIn, served, asked>>,
           \A c \in Clients : held'[c] \in {held[c], None},
           \A c \in Clients : relay'[c] = "forward" =>
                                relay[c] = "forward" /\ carried'[c] = carried[c]
    PROVE  OnePlace' /\ InOrder' /\ Fresh'
<1>1. \A p \in Places : Contents(p)' \subseteq Contents(p)
  BY DEF Contents, Places, InSeq
<1>2. InOrder'
  BY DEF XInv, InOrder, Once
<1>3. Kept
  BY KeptSame
<1>. QED BY <1>1, <1>2, <1>3, Remain, FreshKept

LEMMA ExecChild ==
    ASSUME XInv, NEW c \in Clients, Child(c)
    PROVE  OnePlace' /\ InOrder' /\ Fresh'
<1> USE DEF XInv, TypeInv, TypeOK
<1>1. CASE ChildOpens(c)
  BY <1>1, ExecStill DEF ChildOpens, MoveChild
<1>2. CASE ChildReads(c)
  <2>1. /\ relay' = relay /\ carried' = carried
        /\ queue' = queue /\ dataIn' = dataIn /\ served' = served
    BY <1>2 DEF ChildReads, MoveChild
  <2>2. CASE UNCHANGED <<held, asked, toChild>>
    BY <2>1, <2>2, ExecStill
  <2>3. CASE /\ toChild[c] # <<>> /\ held' = [held EXCEPT ![c] = Head(toChild[c])]
             /\ toChild' = [toChild EXCEPT ![c] = Tail(@)] /\ asked' = asked
    <3>1. PICK x : x = Head(toChild[c])
      OBVIOUS
    <3>2. /\ toChild'[c] = Tail(toChild[c]) /\ \A d \in Clients : d # c => toChild'[d] = toChild[d]
          /\ held'[c] = x /\ \A d \in Clients : d # c => held'[d] = held[d]
      BY <2>3, <3>1
    <3>3. toChild[c] \in Seq(Commands) /\ Once(toChild[c])
      BY XFacts
    <3>4. /\ x \in InSeq(toChild[c]) /\ x \notin InSeq(toChild'[c])
          /\ InSeq(toChild'[c]) \subseteq InSeq(toChild[c]) /\ Once(toChild'[c])
      BY <2>3, <3>1, <3>2, <3>3, HeadLeaves
    <3>5. /\ Contents(<<"written", c>>) = InSeq(toChild[c])
          /\ Contents(<<"written", c>>)' = InSeq(toChild'[c])
          /\ Contents(<<"held", c>>)' \subseteq {x}
      <4>1. Contents(<<"written", c>>) = InSeq(toChild[c])
            /\ Contents(<<"written", c>>)' = InSeq(toChild'[c])
        BY DEF Contents, InSeq
      <4>2. Contents(<<"held", c>>)' = {held'[c]} \ {None}
        BY DEF Contents
      <4>. QED BY <3>2, <4>1, <4>2
    <3>6. Shrinks(<<"held", c>>)
      <4>1. ASSUME NEW p \in Places, p # <<"held", c>>
            PROVE  Contents(p)' \subseteq Contents(p)
        <5>1. CASE p = <<"written", c>>
          BY <3>4, <3>5, <5>1
        <5>2. CASE p # <<"written", c>>
          BY <2>1, <3>2, <4>1, <5>2 DEF Contents, Places, InSeq
        <5>. QED BY <5>1, <5>2
      <4>. QED BY <4>1 DEF Shrinks
    <3>7. OnePlace' /\ \A r \in Places : \A m \in Contents(r)' :
                          \E o \in Places : m \in Contents(o)
      <4>1. <<"written", c>> # <<"held", c>>
        OBVIOUS
      <4>2. {x} \subseteq Contents(<<"written", c>>) /\ {x} \cap Contents(<<"written", c>>)' = {}
        BY <3>4, <3>5
      <4>. QED BY <3>5, <3>6, <4>1, <4>2, XFacts, HandOver
    <3>8. InOrder'
      BY <2>1, <3>2, <3>4 DEF InOrder, Once
    <3>9. Kept
      BY <2>3, KeptSame
    <3>. QED BY <3>7, <3>8, <3>9, FreshKept
  <2>4. CASE /\ asked' = [asked EXCEPT ![c] = @ + 1] /\ UNCHANGED toChild
             /\ held' = [held EXCEPT ![c] = [client |-> c, number |-> asked[c] + 1, kind |-> "empty"]]
    <3>1. PICK x \in Commands : x = [client |-> c, number |-> asked[c] + 1, kind |-> "empty"]
      BY NewCommand
    <3>2. x.client = c /\ x.number = asked[c] + 1 /\ held'[c] = x
          /\ \A d \in Clients : d # c => held'[d] = held[d]
      BY <2>4, <3>1
    <3>3. \A p \in Places : x \notin Contents(p)
      BY <2>1, <3>1, NewIsNowhere
    <3>4. Contents(<<"held", c>>)' \subseteq {x}
      BY <3>2 DEF Contents
    <3>5. Shrinks(<<"held", c>>)
      BY <2>1, <2>4, <3>2 DEF Shrinks, Contents, Places, InSeq
    <3>6. OnePlace' /\ \A r \in Places : \A m \in Contents(r)' :
                          m = x \/ \E o \in Places : m \in Contents(o)
      BY <3>3, <3>4, <3>5, XFacts, Appear
    <3>7. InOrder'
      BY <2>1, <2>4 DEF InOrder, Once
    <3>8. Numbered(x)'
      BY <2>4, <3>2, XFacts DEF Numbered
    <3>9. Kept
      BY <2>4, KeptByOneMore
    <3>. QED BY <3>1, <3>6, <3>7, <3>8, <3>9, FreshKept
  <2>. QED BY <1>2, <2>2, <2>3, <2>4 DEF ChildReads
<1>3. CASE ChildSends(c)
  <2>1. /\ child[c] = "send" /\ child' = [child EXCEPT ![c] = "await"]
        /\ relay' = relay /\ carried' = carried /\ asked' = asked /\ client' = client
        /\ toChild' = toChild /\ dataIn' = dataIn /\ served' = served
        /\ held' = [held EXCEPT ![c] = None]
    BY <1>3 DEF ChildSends, MoveChild
  <2>2. Kept
    BY <2>1, KeptSame
  <2>3. CASE UNCHANGED queue
    BY <2>1, <2>3, ExecStill
  <2>4. CASE queue' = Append(queue, held[c])
    <3>1. PICK x \in Commands : x = held[c]
      BY <2>1 DEF Carrying
    <3>2. x # None
      BY <3>1 DEF Commands, None
    <3>3. Contents(<<"held", c>>) = {x} /\ Contents(<<"held", c>>)' = {}
          /\ Contents(<<"queued", "all">>) = InSeq(queue)
          /\ Contents(<<"queued", "all">>)' = InSeq(queue')
      BY <2>1, <3>1, <3>2 DEF Contents, InSeq
    <3>4. x \notin InSeq(queue)
      <4>1. <<"held", c>> # <<"queued", "all">>
        OBVIOUS
      <4>2. <<"held", c>> \in Places /\ <<"queued", "all">> \in Places
        BY XFacts
      <4>3. Contents(<<"held", c>>) \cap Contents(<<"queued", "all">>) = {}
        BY <4>1, <4>2 DEF OnePlace
      <4>4. {x} \cap InSeq(queue) = {}
        BY <3>3, <4>3, Zenon
      <4>. QED BY <4>4, Zenon
    <3>5. InSeq(queue') \subseteq InSeq(queue) \cup {x} /\ Once(queue')
      <4>1. queue \in Seq(Commands) /\ Once(queue)
        BY XFacts
      <4>. QED BY <2>4, <3>1, <3>4, <4>1, AppendJoins
    <3>6. Shrinks(<<"queued", "all">>)
      BY <2>1 DEF Shrinks, Contents, Places, InSeq
    <3>7. OnePlace' /\ \A r \in Places : \A m \in Contents(r)' :
                          \E o \in Places : m \in Contents(o)
      <4>1. <<"held", c>> # <<"queued", "all">>
        OBVIOUS
      <4>. QED BY <3>3, <3>5, <3>6, <4>1, XFacts, HandOver
    <3>8. InOrder'
      BY <2>1, <3>5 DEF InOrder, Once
    <3>. QED BY <2>2, <3>7, <3>8, FreshKept
  <2>. QED BY <1>3, <2>3, <2>4 DEF ChildSends
<1>4. CASE ChildAnswers(c)
  <2>1. /\ child[c] = "await" /\ relay' = relay /\ carried' = carried /\ asked' = asked
        /\ toChild' = toChild /\ queue' = queue /\ dataIn' = dataIn /\ served' = served
        /\ held' = held
    BY <1>4 DEF ChildAnswers, MoveChild
  <2>. QED BY <2>1, ExecStill
<1>. QED BY <1>1, <1>2, <1>3, <1>4 DEF Child

LEMMA ExecRelay ==
    ASSUME XInv, NEW c \in Clients, Relay(c)
    PROVE  OnePlace' /\ InOrder' /\ Fresh'
<1> USE DEF XInv, TypeInv, TypeOK
<1>1. /\ toChild' = toChild /\ held' = held /\ served' = served /\ asked' = asked
      /\ \A d \in Clients : d # c => relay'[d] = relay[d] /\ carried'[d] = carried[d]
  BY DEF Relay, RelayOpens, RelayReceives, RelayForwards, RelayReads, RelayPipes,
         MoveRelay, clients, channels
<1>3. Kept
  BY <1>1, KeptSame
<1>4. CASE queue' = queue /\ dataIn' = dataIn /\ relay'[c] # "forward"
  BY <1>1, <1>4, ExecStill
<1>5. CASE RelayReceives(c)
  <2>1. PICK x : x = Head(queue)
    OBVIOUS
  <2>2. /\ queue # <<>> /\ queue' = Tail(queue) /\ dataIn' = dataIn
        /\ relay[c] # "forward" /\ relay'[c] = "forward" /\ carried'[c] = x
    BY <1>5, <2>1 DEF RelayReceives, MoveRelay
  <2>3. queue \in Seq(Commands) /\ Once(queue)
    BY XFacts
  <2>4. /\ x \in InSeq(queue) /\ x \notin InSeq(queue')
        /\ InSeq(queue') \subseteq InSeq(queue) /\ Once(queue')
    BY <2>1, <2>2, <2>3, HeadLeaves
  <2>5. Contents(<<"queued", "all">>) = InSeq(queue)
        /\ Contents(<<"queued", "all">>)' = InSeq(queue')
    BY DEF Contents, InSeq
  <2>6. Contents(<<"carried", c>>)' \subseteq {x}
    BY <2>2 DEF Contents
  <2>7. Shrinks(<<"carried", c>>)
    <3>1. ASSUME NEW p \in Places, p # <<"carried", c>>
          PROVE  Contents(p)' \subseteq Contents(p)
      <4>1. CASE p = <<"queued", "all">>
        BY <2>4, <2>5, <4>1
      <4>2. CASE p # <<"queued", "all">>
        BY <1>1, <2>2, <3>1, <4>2 DEF Contents, Places, InSeq
      <4>. QED BY <4>1, <4>2
    <3>. QED BY <3>1 DEF Shrinks
  <2>8. OnePlace' /\ \A r \in Places : \A m \in Contents(r)' :
                        \E o \in Places : m \in Contents(o)
    <3>1. <<"queued", "all">> # <<"carried", c>>
      OBVIOUS
    <3>2. {x} \subseteq Contents(<<"queued", "all">>) /\ {x} \cap Contents(<<"queued", "all">>)' = {}
      BY <2>4, <2>5
    <3>. QED BY <2>6, <2>7, <3>1, <3>2, XFacts, HandOver
  <2>9. InOrder'
    BY <1>1, <2>2, <2>4 DEF InOrder, Once
  <2>. QED BY <1>3, <2>8, <2>9, FreshKept
<1>6. CASE RelayForwards(c) /\ dataUp /\ dataIn' = Append(dataIn, carried[c])
           /\ MoveRelay(c, "reply", None)
  <2>1. PICK x \in Commands : x = carried[c]
    BY <1>6 DEF RelayForwards, Carrying
  <2>2. relay[c] = "forward" /\ relay'[c] = "reply" /\ queue' = queue
    BY <1>6 DEF RelayForwards, MoveRelay
  <2>3. Contents(<<"carried", c>>) = {x} /\ Contents(<<"carried", c>>)' = {}
    BY <2>1, <2>2 DEF Contents
  <2>4. Contents(<<"arrived", "all">>) = InSeq(dataIn)
        /\ Contents(<<"arrived", "all">>)' = InSeq(dataIn')
    BY DEF Contents, InSeq
  <2>5. <<"carried", c>> # <<"arrived", "all">>
        /\ <<"carried", c>> \in Places /\ <<"arrived", "all">> \in Places
    BY XFacts
  <2>6. x \notin InSeq(dataIn)
    <3>1. Contents(<<"carried", c>>) \cap Contents(<<"arrived", "all">>) = {}
      BY <2>5 DEF OnePlace
    <3>2. {x} \cap InSeq(dataIn) = {}
      BY <2>3, <2>4, <3>1, Zenon
    <3>. QED BY <3>2, Zenon
  <2>7. InSeq(dataIn') \subseteq InSeq(dataIn) \cup {x} /\ Once(dataIn')
    <3>1. dataIn \in Seq(Commands) /\ Once(dataIn)
      BY XFacts
    <3>. QED BY <1>6, <2>1, <2>6, <3>1, AppendJoins
  <2>8. Shrinks(<<"arrived", "all">>)
    <3>1. ASSUME NEW p \in Places, p # <<"arrived", "all">>
          PROVE  Contents(p)' \subseteq Contents(p)
      BY <1>1, <2>2, <3>1 DEF Contents, Places, InSeq
    <3>. QED BY <3>1 DEF Shrinks
  <2>9. OnePlace' /\ \A r \in Places : \A m \in Contents(r)' :
                        \E o \in Places : m \in Contents(o)
    BY <2>3, <2>4, <2>5, <2>7, <2>8, HandOver
  <2>10. InOrder'
    BY <1>1, <2>2, <2>7 DEF InOrder, Once
  <2>. QED BY <1>3, <2>9, <2>10, FreshKept
<1>7. \/ queue' = queue /\ dataIn' = dataIn /\ relay'[c] # "forward"
      \/ RelayReceives(c)
      \/ RelayForwards(c) /\ dataUp /\ dataIn' = Append(dataIn, carried[c])
           /\ MoveRelay(c, "reply", None)
  <2>1. CASE RelayForwards(c)
    BY <2>1 DEF RelayForwards, MoveRelay
  <2>2. CASE RelayOpens(c) \/ RelayReads(c) \/ RelayPipes(c)
    BY <2>2 DEF RelayOpens, RelayReads, RelayPipes, MoveRelay, channels
  <2>. QED BY <2>1, <2>2 DEF Relay
<1>. QED BY <1>4, <1>5, <1>6, <1>7

LEMMA ExecFork == ASSUME XInv, ForkRelay PROVE OnePlace' /\ InOrder' /\ Fresh'
<1> USE DEF XInv, TypeInv, TypeOK
<1>1. UNCHANGED <<toChild, queue, dataIn, served, asked, held, carried>>
  BY DEF ForkRelay, clients, channels
<1>2. \A c \in Clients : relay'[c] = "forward" => relay[c] = "forward"
  BY DEF ForkRelay
<1>. QED BY <1>1, <1>2, ExecStill

(* What has arrived is served, all or part of it; the rest is lost.        *)
LEMMA Serves ==
    ASSUME XInv, Kept, NEW X, X \subseteq InSeq(dataIn), X \cap InSeq(dataIn') = {},
           served' = served \cup X, InSeq(dataIn') \subseteq InSeq(dataIn), queue' = queue,
           \A c \in Clients : /\ InSeq(toChild'[c]) \subseteq InSeq(toChild[c])
                              /\ held'[c] \in {held[c], None}
                              /\ relay'[c] = "forward" =>
                                   relay[c] = "forward" /\ carried'[c] = carried[c]
    PROVE  OnePlace' /\ Fresh'
<1> DEFINE p == <<"arrived", "all">>  q == <<"served", "all">>
<1>1. p \in Places /\ q \in Places /\ p # q
  BY DEF Places
<1>2. Contents(p) = InSeq(dataIn) /\ Contents(p)' = InSeq(dataIn')
      /\ Contents(q) = served /\ Contents(q)' = served'
  BY DEF Contents, InSeq
<1>3. Shrinks(q)
  <2>1. ASSUME NEW r \in Places, r # q PROVE Contents(r)' \subseteq Contents(r)
    <3>1. CASE r = p
      BY <1>2, <3>1
    <3>2. CASE r = <<"queued", "all">>
      BY <3>2 DEF Contents, InSeq
    <3>3. CASE \E c \in Clients : r = <<"written", c>>
      <4>1. PICK c \in Clients : r = <<"written", c>>
        BY <3>3
      <4>2. Contents(r) = InSeq(toChild[c]) /\ Contents(r)' = InSeq(toChild'[c])
        BY <4>1 DEF Contents, InSeq
      <4>. QED BY <4>2
    <3>4. CASE \E c \in Clients : r = <<"held", c>> \/ r = <<"carried", c>>
      BY <3>4 DEF Contents
    <3>5. r = p \/ r = <<"queued", "all">> \/ (\E c \in Clients : r = <<"written", c>>)
          \/ (\E c \in Clients : r = <<"held", c>> \/ r = <<"carried", c>>)
      BY <2>1 DEF Places
    <3>. QED BY <3>1, <3>2, <3>3, <3>4, <3>5
  <2>. QED BY <2>1 DEF Shrinks
<1> HIDE DEF p, q
<1>4. OnePlace' /\ \A r \in Places : \A m \in Contents(r)' :
                      \E o \in Places : m \in Contents(o)
  BY <1>1, <1>2, <1>3, HandOver
<1>. QED BY <1>4, FreshKept

LEMMA ExecData == ASSUME XInv, DataServer PROVE OnePlace' /\ InOrder' /\ Fresh'
<1>1. PICK x : x = Head(dataIn)
  OBVIOUS
<1>2. /\ dataIn # <<>> /\ dataIn' = Tail(dataIn) /\ served' = served \cup {x}
      /\ queue' = queue /\ toChild' = toChild /\ held' = held /\ relay' = relay
      /\ carried' = carried /\ asked' = asked
  BY <1>1 DEF DataServer, processes, clients
<1>3. dataIn \in Seq(Commands) /\ Once(dataIn)
  BY DEF XInv, TypeInv, TypeOK, InOrder
<1>4. /\ x \in InSeq(dataIn) /\ x \notin InSeq(dataIn')
      /\ InSeq(dataIn') \subseteq InSeq(dataIn) /\ Once(dataIn')
  BY <1>1, <1>2, <1>3, HeadLeaves
<1>6. Kept
  BY <1>2, KeptSame
<1>7. InOrder'
  BY <1>2, <1>4 DEF XInv, InOrder, Once
<1>8. {x} \subseteq InSeq(dataIn) /\ {x} \cap InSeq(dataIn') = {}
  BY <1>4
<1>. QED BY <1>2, <1>4, <1>6, <1>7, <1>8, Serves

LEMMA ExecKill == ASSUME XInv, Kill PROVE OnePlace' /\ InOrder' /\ Fresh'
<1>1. PICK n \in 0..Len(dataIn) : served' = served \cup {dataIn[i] : i \in 1..n}
  BY DEF Kill
<1>2. PICK X : X = {dataIn[i] : i \in 1..n}
  OBVIOUS
<1>3. X \subseteq InSeq(dataIn)
  <2>1. dataIn \in Seq(Commands)
    BY DEF XInv, TypeInv, TypeOK
  <2>2. \A i \in 1..n : i \in 1..Len(dataIn)
    BY <2>1
  <2>. QED BY <1>2, <2>2 DEF InSeq
<1>4. /\ dataIn' = <<>> /\ queue' = queue /\ asked' = asked
      /\ \A c \in Clients : /\ toChild'[c] = <<>> /\ held'[c] = None
                            /\ relay'[c] # "forward"
  BY DEF Kill
<1>5. InSeq(dataIn') = {} /\ \A c \in Clients : InSeq(toChild'[c]) = {}
  BY <1>4, EmptyHolds
<1>7. Kept
  BY <1>4, KeptSame
<1>8. InOrder'
  <2>1. Once(queue)' /\ Once(dataIn)'
    BY <1>4, EmptyHolds DEF XInv, InOrder, Once
  <2>2. ASSUME NEW c \in Clients PROVE Once(toChild[c])'
    BY <1>4, EmptyHolds DEF Once
  <2>. QED BY <2>1, <2>2 DEF InOrder, Once
<1>9. OnePlace' /\ Fresh'
  <2>1. served' = served \cup X
    BY <1>1, <1>2
  <2>. QED BY <1>3, <1>4, <1>5, <1>7, <2>1, Serves
<1>. QED BY <1>8, <1>9

LEMMA ExecInit == Init => XInv
<1> SUFFICES ASSUME Init PROVE XInv
  OBVIOUS
<1>1. \A p \in Places : Contents(p) = {}
  BY EmptyHolds DEF Init, Contents, Places
<1>2. InOrder
  BY EmptyHolds DEF Init, InOrder
<1>. QED BY <1>1, <1>2, TypeInit DEF XInv, OnePlace, Fresh

LEMMA ExecNext == XInv /\ [Next]_vars => XInv'
<1> SUFFICES ASSUME XInv, [Next]_vars PROVE XInv'
  OBVIOUS
<1>1. TypeInv'
  BY TypeNext DEF XInv
<1>2. CASE UNCHANGED vars
  <2>1. UNCHANGED <<toChild, queue, dataIn, served, asked, held, relay, carried>>
    BY <1>2 DEF vars, processes, clients, channels
  <2>. QED BY <1>1, <2>1, ExecStill DEF XInv
<1>3. CASE Next /\ ~UNCHANGED vars
  <2>1. OnePlace' /\ InOrder' /\ Fresh'
    BY <1>3, ExecClient, ExecChild, ExecRelay, ExecFork, ExecData, ExecKill DEF Next, Quiet
  <2>. QED BY <1>1, <2>1 DEF XInv
<1>. QED BY <1>2, <1>3

LEMMA ApartFromAll ==
    ASSUME NEW S, NEW A, NEW B, NEW C, NEW D, NEW E, S \cap A = {}, S \cap B = {},
           S \cap C = {}, S \cap D = {}, S \cap E = {}
    PROVE  S \cap (A \cup B \cup C \cup D \cup E) = {}
OBVIOUS

LEMMA ExecOnce == XInv => ExecutedAtMostOnce
<1> SUFFICES ASSUME XInv PROVE ExecutedAtMostOnce
  OBVIOUS
<1>1. <<"served", "all">> \in Places /\ Contents(<<"served", "all">>) = served
  BY DEF Contents, Places
<1>2. ASSUME NEW p \in Places, p # <<"served", "all">> PROVE served \cap Contents(p) = {}
  BY <1>1, <1>2 DEF XInv, OnePlace
<1>3. served \cap InSeq(queue) = {}
  <2>1. <<"queued", "all">> \in Places /\ Contents(<<"queued", "all">>) = InSeq(queue)
        /\ <<"queued", "all">> # <<"served", "all">>
    BY DEF Contents, Places
  <2>. QED BY <1>2, <2>1
<1>4. served \cap InSeq(dataIn) = {}
  <2>1. <<"arrived", "all">> \in Places /\ Contents(<<"arrived", "all">>) = InSeq(dataIn)
        /\ <<"arrived", "all">> # <<"served", "all">>
    BY DEF Contents, Places
  <2>. QED BY <1>2, <2>1
<1>5. ASSUME NEW c \in Clients PROVE served \cap InSeq(toChild[c]) = {}
  <2>1. <<"written", c>> \in Places /\ Contents(<<"written", c>>) = InSeq(toChild[c])
        /\ <<"written", c>> # <<"served", "all">>
    BY DEF Contents, Places
  <2>. QED BY <1>2, <2>1
<1>6. ASSUME NEW c \in Clients PROVE held[c] \notin served
  <2>1. <<"held", c>> \in Places /\ Contents(<<"held", c>>) = {held[c]} \ {None}
        /\ <<"held", c>> # <<"served", "all">>
    BY DEF Contents, Places
  <2>2. None \notin served
    BY DEF XInv, TypeInv, TypeOK, Commands, None
  <2>3. served \cap ({held[c]} \ {None}) = {}
    BY <1>2, <2>1
  <2>. QED BY <2>2, <2>3
<1>7. ASSUME NEW c \in Relays("forward") PROVE carried[c] \notin served
  <2>1. <<"carried", c>> \in Places /\ Contents(<<"carried", c>>) = {carried[c]}
        /\ <<"carried", c>> # <<"served", "all">>
    BY DEF Contents, Places, Relays
  <2>2. served \cap {carried[c]} = {}
    BY <1>2, <2>1
  <2>. QED BY <2>2
<1>8. served \cap UNION {InSeq(toChild[c]) : c \in Clients} = {}
  BY <1>5
<1>9. served \cap {held[c] : c \in Clients} = {}
  BY <1>6
<1>10. served \cap {carried[c] : c \in Relays("forward")} = {}
  BY <1>7
<1>11. served \cap (InSeq(queue) \cup InSeq(dataIn) \cup (UNION {InSeq(toChild[c]) : c \in Clients})
                      \cup {held[c] : c \in Clients} \cup {carried[c] : c \in Relays("forward")}) = {}
  BY <1>3, <1>4, <1>8, <1>9, <1>10, ApartFromAll, Zenon
<1>. QED BY <1>11, Zenon DEF ExecutedAtMostOnce

(* A command that the data server has executed is on no channel and in no  *)
(* process's hand any more: it is not executed again, also when clients    *)
(* leave and when the sub-server is restarted over a queue that it left.   *)
THEOREM NothingExecutedTwice == Spec => []ExecutedAtMostOnce
<1>. QED BY ExecInit, ExecNext, ExecOnce, PTL DEF Spec
=============================================================================
