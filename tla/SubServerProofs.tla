-------------------------- MODULE SubServerProofs --------------------------
(***************************************************************************)
(* Theorems about SubServer, for any clients and bounds.                   *)
(***************************************************************************)
EXTENDS SubServer, TLAPS, FiniteSetTheorems, SequenceTheorems

(* Sequences under the operations of the channels.                         *)
LEMMA SeqOps ==
    ASSUME NEW S, NEW s \in Seq(S)
    PROVE  /\ Len(s) \in Nat
           /\ \A e \in S : Append(s, e) \in Seq(S) /\ Len(Append(s, e)) = Len(s) + 1
           /\ s # <<>> => /\ Head(s) \in S /\ Tail(s) \in Seq(S)
                          /\ Len(s) > 0 /\ Len(Tail(s)) = Len(s) - 1
           /\ <<>> \in Seq(S) /\ Len(<<>>) = 0
<1>1. \A e \in S : Append(s, e) \in Seq(S) /\ Len(Append(s, e)) = Len(s) + 1
  OBVIOUS
<1>2. s # <<>> => /\ Head(s) \in S /\ Tail(s) \in Seq(S)
                  /\ Len(s) > 0 /\ Len(Tail(s)) = Len(s) - 1
  BY EmptySeq, HeadTailProperties
<1>. QED BY <1>1, <1>2, EmptySeq

(* The block of n equal replies that the data server writes.               *)
LEMMA ReplyBlock ==
    ASSUME NEW S, NEW s \in Seq(S), NEW e \in S, NEW k
    PROVE  /\ s \o [i \in 1..Replies(k) |-> e] \in Seq(S)
           /\ Len(s \o [i \in 1..Replies(k) |-> e]) = Len(s) + Replies(k)
<1>1. Replies(k) \in Nat
  BY DEF Replies
<1> DEFINE r == [i \in 1..Replies(k) |-> e]
<1>2. r \in Seq(S) /\ Len(r) = Replies(k)
  BY <1>1
<1>. QED BY <1>2, ConcatProperties

(* A child about to send, and a relay that has taken something, carry it.  *)
Carrying ==
    /\ \A c \in Clients : child[c] = "send" => held[c] \in Commands
    /\ \A c \in Clients : relay[c] \in {"forward", "pipe"} => carried[c] \in Commands
TypeInv == TypeOK /\ Carrying

LEMMA TypeInit == Init => TypeInv
<1> SUFFICES ASSUME Init PROVE TypeInv
  OBVIOUS
<1>1. <<>> \in Seq(Commands) /\ Len(<<>>) = 0
  BY EmptySeq
<1>. QED BY <1>1, BoundsAssumption DEF Init, TypeInv, TypeOK, Carrying

(* A new command is one.                                                   *)
LEMMA NewCommand ==
    ASSUME TypeInv, NEW c \in Clients, NEW k \in Kinds \cup {"empty"}
    PROVE  [client |-> c, number |-> asked[c] + 1, kind |-> k] \in Commands
<1>1. asked[c] \in Nat
  BY DEF TypeInv, TypeOK
<1>. QED BY <1>1 DEF Commands

LEMMA TypeClient ==
    ASSUME TypeInv, NEW c \in Clients, Ask(c) \/ Exit(c) \/ Accept(c) PROVE TypeInv'
<1>1. CASE Ask(c)
  <2>1. PICK k \in Kinds :
          toChild' = [toChild EXCEPT ![c] =
                        Append(@, [client |-> c, number |-> asked[c] + 1, kind |-> k])]
    BY <1>1 DEF Ask
  <2>2. toChild' \in [Clients -> Seq(Commands)]
    BY <2>1, NewCommand, SeqOps DEF TypeInv, TypeOK
  <2>3. asked' \in [Clients -> Nat]
    BY <1>1, BoundsAssumption DEF Ask, TypeInv, TypeOK
  <2>. QED BY <1>1, <2>2, <2>3 DEF Ask, TypeInv, TypeOK, Carrying, processes, channels
<1>2. CASE Exit(c)
  BY <1>2 DEF Exit, TypeInv, TypeOK, Carrying, processes, channels
<1>3. CASE Accept(c)
  BY <1>3 DEF Accept, TypeInv, TypeOK, Carrying, channels
<1>. QED BY <1>1, <1>2, <1>3

LEMMA TypeChild ==
    ASSUME TypeInv, NEW c \in Clients, Child(c) PROVE TypeInv'
<1>1. CASE ChildOpens(c)
  BY <1>1 DEF ChildOpens, MoveChild, TypeInv, TypeOK, Carrying
<1>2. CASE ChildReads(c)
  <2>0. toChild[c] \in Seq(Commands)
    BY DEF TypeInv, TypeOK
  <2>1. ASSUME NEW m \in Commands, held' = [held EXCEPT ![c] = m], MoveChild(c, "send"),
               toChild' \in [Clients -> Seq(Commands)], asked' \in [Clients -> Nat]
        PROVE  TypeInv'
    BY <1>2, <2>1 DEF ChildReads, MoveChild, TypeInv, TypeOK, Carrying
  <2>2. CASE toChild[c] # <<>> /\ held' = [held EXCEPT ![c] = Head(toChild[c])]
             /\ toChild' = [toChild EXCEPT ![c] = Tail(@)]
             /\ MoveChild(c, "send") /\ UNCHANGED asked
    <3>1. /\ Head(toChild[c]) \in Commands
          /\ toChild' \in [Clients -> Seq(Commands)] /\ asked' \in [Clients -> Nat]
      BY <2>0, <2>2, SeqOps DEF TypeInv, TypeOK
    <3>. QED BY <2>1, <2>2, <3>1
  <2>3. CASE held' = [held EXCEPT ![c] = [client |-> c, number |-> asked[c] + 1, kind |-> "empty"]]
             /\ UNCHANGED toChild /\ asked' = [asked EXCEPT ![c] = @ + 1]
             /\ MoveChild(c, "send")
    <3>1. /\ [client |-> c, number |-> asked[c] + 1, kind |-> "empty"] \in Commands
          /\ toChild' \in [Clients -> Seq(Commands)] /\ asked' \in [Clients -> Nat]
      BY <2>3, NewCommand DEF TypeInv, TypeOK
    <3>. QED BY <2>1, <2>3, <3>1
  <2>4. CASE MoveChild(c, "exited") /\ UNCHANGED <<held, asked, toChild>>
    BY <1>2, <2>4 DEF ChildReads, MoveChild, TypeInv, TypeOK, Carrying
  <2>. QED BY <1>2, <2>2, <2>3, <2>4 DEF ChildReads
<1>3. CASE ChildSends(c)
  <2>1. queue' \in Seq(Commands) /\ Len(queue') <= MaxMessages
    <3>1. CASE UNCHANGED queue
      BY <3>1 DEF TypeInv, TypeOK
    <3>2. CASE held[c].kind # "long" /\ Len(queue) < MaxMessages /\ queue' = Append(queue, held[c])
      <4>1. held[c] \in Commands
        BY <1>3 DEF ChildSends, TypeInv, Carrying
      <4>. QED BY <3>2, <4>1, SeqOps, BoundsAssumption DEF TypeInv, TypeOK
    <3>. QED BY <1>3, <3>1, <3>2 DEF ChildSends
  <2>. QED BY <1>3, <2>1 DEF ChildSends, MoveChild, TypeInv, TypeOK, Carrying
<1>4. CASE ChildAnswers(c)
  <2>1. pipe' \in Seq(Commands) /\ Head(pipe) \in Commands
    BY <1>4, SeqOps DEF ChildAnswers, TypeInv, TypeOK
  <2>2. client' \in [Clients -> {"away", "menu", "waiting", "gone", "reset", "cut"}]
        /\ got' \in [Clients -> Commands \cup {None}]
    <3>1. /\ client' \in {client, [client EXCEPT ![c] = "reset"], [client EXCEPT ![c] = "menu"]}
          /\ got' \in {got, [got EXCEPT ![c] = Head(pipe)]}
      BY <1>4 DEF ChildAnswers
    <3>. QED BY <2>1, <3>1 DEF TypeInv, TypeOK
  <2>3. /\ child' \in [Clients -> {"none", "open", "read", "send", "await", "exited"}]
        /\ \A d \in Clients : child'[d] = "send" => child[d] = "send"
    BY <1>4 DEF ChildAnswers, MoveChild, TypeInv, TypeOK
  <2>. QED BY <1>4, <2>1, <2>2, <2>3 DEF ChildAnswers, MoveChild, TypeInv, TypeOK, Carrying
<1>. QED BY <1>1, <1>2, <1>3, <1>4 DEF Child

LEMMA TypeRelay ==
    ASSUME TypeInv, NEW c \in Clients, Relay(c) PROVE TypeInv'
<1>1. CASE RelayOpens(c)
  BY <1>1 DEF RelayOpens, MoveRelay, TypeInv, TypeOK, Carrying, clients, channels
<1>2. CASE RelayReceives(c)
  <2>1. queue' \in Seq(Commands) /\ Len(queue') <= MaxMessages /\ Head(queue) \in Commands
    BY <1>2, SeqOps, BoundsAssumption DEF RelayReceives, TypeInv, TypeOK
  <2>. QED BY <1>2, <2>1 DEF RelayReceives, MoveRelay, TypeInv, TypeOK, Carrying, clients
<1>3. CASE RelayForwards(c)
  <2>1. carried[c] \in Commands
    BY <1>3 DEF RelayForwards, TypeInv, Carrying
  <2>2. dataIn \in Seq(Commands)
    BY DEF TypeInv, TypeOK
  <2>3. Append(dataIn, carried[c]) \in Seq(Commands)
    BY <2>1, <2>2, SeqOps
  <2>4. dataIn' \in Seq(Commands)
    BY <1>3, <2>2, <2>3 DEF RelayForwards
  <2>. QED BY <1>3, <2>4 DEF RelayForwards, MoveRelay, TypeInv, TypeOK, Carrying, clients
<1>4. CASE RelayReads(c)
  <2>1. dataOut' \in Seq(Commands) /\ Head(dataOut) \in Commands
    BY <1>4, SeqOps DEF RelayReads, TypeInv, TypeOK
  <2>. QED BY <1>4, <2>1 DEF RelayReads, MoveRelay, TypeInv, TypeOK, Carrying, clients
<1>5. CASE RelayPipes(c)
  <2>1. carried[c] \in Commands
    BY <1>5 DEF RelayPipes, TypeInv, Carrying
  <2>2. pipe' \in Seq(Commands)
    BY <1>5, <2>1, SeqOps DEF RelayPipes, TypeInv, TypeOK
  <2>. QED BY <1>5, <2>2 DEF RelayPipes, MoveRelay, TypeInv, TypeOK, Carrying, clients
<1>. QED BY <1>1, <1>2, <1>3, <1>4, <1>5 DEF Relay

LEMMA TypeNext == TypeInv /\ [Next]_vars => TypeInv'
<1> SUFFICES ASSUME TypeInv, [Next]_vars PROVE TypeInv'
  OBVIOUS
<1>1. CASE UNCHANGED vars
  BY <1>1 DEF TypeInv, TypeOK, Carrying, vars, processes, clients, channels
<1>2. CASE ForkRelay
  <2>1. accepted.client \in Clients
    BY <1>2 DEF ForkRelay, TypeInv, TypeOK
  <2>. QED BY <1>2, <2>1 DEF ForkRelay, TypeInv, TypeOK, Carrying, clients, channels
<1>3. CASE DataServer
  <2>1. dataIn' \in Seq(Commands) /\ Head(dataIn) \in Commands
    BY <1>3, SeqOps DEF DataServer, TypeInv, TypeOK
  <2>2. dataOut' \in Seq(Commands)
    BY <1>3, <2>1, ReplyBlock DEF DataServer, TypeInv, TypeOK
  <2>. QED BY <1>3, <2>1, <2>2 DEF DataServer, TypeInv, TypeOK, Carrying, processes, clients
<1>4. CASE Kill
  <2>1. served' \subseteq Commands
    <3>1. PICK n \in 0..Len(dataIn) : served' = served \cup {dataIn[i] : i \in 1..n}
      BY <1>4 DEF Kill
    <3>2. \A i \in 1..n : dataIn[i] \in Commands
      BY <3>1 DEF TypeInv, TypeOK
    <3>. QED BY <3>1, <3>2 DEF TypeInv, TypeOK
  <2>2. <<>> \in Seq(Commands)
    BY EmptySeq
  <2>3. kills' \in 0..MaxKills
    BY <1>4, BoundsAssumption DEF Kill, TypeInv, TypeOK
  <2>. QED BY <1>4, <2>1, <2>2, <2>3 DEF Kill, TypeInv, TypeOK, Carrying
<1>. QED BY <1>1, <1>2, <1>3, <1>4, TypeClient, TypeChild, TypeRelay DEF Next, Quiet

(* All variables keep their types; the queue keeps its limit.              *)
THEOREM TypeCorrect == Spec => []TypeOK
<1>1. TypeInv => TypeOK
  BY DEF TypeInv
<1>. QED BY <1>1, TypeInit, TypeNext, PTL DEF Spec

----------------------------------------------------------------------------
(* Every wait is covered when every command is answered once               *)

AllAnswered ==
    IsFiniteSet(Clients) /\ Kinds \subseteq {"answered"} /\ MaxExits = 0 /\ MaxKills = 0

AnsweredOnes == {m \in Commands : m.kind = "answered"}

(* Nobody has left and only commands answered once are on their way; the   *)
(* processes of a client that has not connected have not begun.            *)
AnswerInv ==
    /\ dataUp /\ \A c \in Clients : client[c] \notin {"gone", "reset"}
    /\ \A c \in Clients : toChild[c] \in Seq(AnsweredOnes)
    /\ queue \in Seq(AnsweredOnes) /\ dataIn \in Seq(AnsweredOnes)
    /\ \A c \in Clients : child[c] = "send" => held[c] \in AnsweredOnes
    /\ \A c \in Clients : relay[c] = "forward" => carried[c] \in AnsweredOnes
    /\ \A c \in Clients : client[c] = "away" => child[c] = "none" /\ relay[c] = "none"
    /\ accepted # NoClient => /\ relay[accepted.client] = "none"
                              /\ client[accepted.client] # "away"

SInv == TypeInv /\ AnswerInv

(* The size of a set of clients when one of them may enter or leave it.    *)
LEMMA CountMove ==
    ASSUME IsFiniteSet(Clients), NEW c \in Clients,
           NEW S \in SUBSET Clients, NEW T \in SUBSET Clients,
           \A d \in Clients \ {c} : d \in T <=> d \in S
    PROVE  /\ Cardinality(S) \in Nat
           /\ Cardinality(T) = Cardinality(S)
                + (IF c \in T THEN 1 ELSE 0) - (IF c \in S THEN 1 ELSE 0)
<1>1. IsFiniteSet(S) /\ Cardinality(S) \in Nat
  BY FS_Subset, FS_CardinalityType
<1>2. CASE c \in T <=> c \in S
  <2>1. T = S
    BY <1>2
  <2>. QED BY <1>1, <1>2, <2>1
<1>3. CASE c \in T /\ c \notin S
  <2>1. T = S \cup {c}
    BY <1>3
  <2>2. Cardinality(T) = Cardinality(S) + 1
    BY <1>1, <1>3, <2>1, FS_AddElement
  <2>. QED BY <1>1, <1>3, <2>2
<1>4. CASE c \notin T /\ c \in S
  <2>1. T = S \ {c}
    BY <1>4
  <2>2. Cardinality(T) = Cardinality(S) - 1
    BY <1>1, <1>4, <2>1, FS_RemoveElement
  <2>. QED BY <1>1, <1>4, <2>2
<1>. QED BY <1>2, <1>3, <1>4

Awaiting == {c \in Clients : child[c] = "await"}

ChildTo(c, pc) == child' = [child EXCEPT ![c] = pc]
RelayTo(c, pc) == relay' = [relay EXCEPT ![c] = pc]

LEMMA ChildMove ==
    ASSUME AllAnswered, TypeOK, NEW c \in Clients, NEW v, ChildTo(c, v)
    PROVE  /\ Cardinality(Awaiting) \in Nat
           /\ Cardinality(Awaiting') = Cardinality(Awaiting)
                + (IF v = "await" THEN 1 ELSE 0) - (IF child[c] = "await" THEN 1 ELSE 0)
<1>1. IsFiniteSet(Clients) /\ \A d \in Clients : child'[d] = IF d = c THEN v ELSE child[d]
  BY DEF AllAnswered, TypeOK, ChildTo
<1>2. Awaiting \in SUBSET Clients /\ Awaiting' \in SUBSET Clients
  BY DEF Awaiting
<1>3. \A d \in Clients \ {c} : d \in Awaiting' <=> d \in Awaiting
  BY <1>1 DEF Awaiting
<1>4. (c \in Awaiting' <=> v = "await") /\ (c \in Awaiting <=> child[c] = "await")
  BY <1>1 DEF Awaiting
<1>5. /\ Cardinality(Awaiting) \in Nat
      /\ Cardinality(Awaiting') = Cardinality(Awaiting)
           + (IF c \in Awaiting' THEN 1 ELSE 0) - (IF c \in Awaiting THEN 1 ELSE 0)
  BY <1>1, <1>2, <1>3, CountMove
<1>. QED BY <1>4, <1>5

LEMMA RelayMove ==
    ASSUME AllAnswered, TypeOK, NEW c \in Clients, NEW v, NEW a, RelayTo(c, v)
    PROVE  /\ Cardinality(Relays(a)) \in Nat
           /\ Cardinality(Relays(a)') = Cardinality(Relays(a))
                + (IF v = a THEN 1 ELSE 0) - (IF relay[c] = a THEN 1 ELSE 0)
<1> DEFINE S == Relays(a)
           T == {d \in Clients : relay'[d] = a}
<1>1. IsFiniteSet(Clients) /\ \A d \in Clients : relay'[d] = IF d = c THEN v ELSE relay[d]
  BY DEF AllAnswered, TypeOK, RelayTo
<1>2. S \in SUBSET Clients /\ T \in SUBSET Clients
  BY DEF Relays
<1>3. \A d \in Clients \ {c} : d \in T <=> d \in S
  BY <1>1 DEF Relays
<1>4. (c \in T <=> v = a) /\ (c \in S <=> relay[c] = a)
  BY <1>1 DEF Relays
<1>5. /\ Cardinality(S) \in Nat
      /\ Cardinality(T) = Cardinality(S) + (IF c \in T THEN 1 ELSE 0) - (IF c \in S THEN 1 ELSE 0)
  <2>. HIDE DEF S, T
  <2>. QED BY <1>1, <1>2, <1>3, CountMove
<1>. QED BY <1>4, <1>5 DEF Relays

(* The relays that hold a message, by what they do next.                   *)
Forwarding == Relays("forward")
Replying   == Relays("reply")
Piping     == Relays("pipe")

LEMMA CountsAreNat ==
    ASSUME AllAnswered
    PROVE  /\ Cardinality(Awaiting) \in Nat /\ Cardinality(Forwarding) \in Nat
           /\ Cardinality(Replying) \in Nat /\ Cardinality(Piping) \in Nat
<1>1. /\ Awaiting \subseteq Clients /\ Forwarding \subseteq Clients
      /\ Replying \subseteq Clients /\ Piping \subseteq Clients
  BY DEF Awaiting, Forwarding, Replying, Piping, Relays
<1>. QED BY <1>1, FS_Subset, FS_CardinalityType DEF AllAnswered

LEMMA RelayMoves ==
    ASSUME AllAnswered, TypeOK, NEW c \in Clients, NEW v, RelayTo(c, v)
    PROVE  /\ Cardinality(Forwarding') = Cardinality(Forwarding)
                + (IF v = "forward" THEN 1 ELSE 0) - (IF relay[c] = "forward" THEN 1 ELSE 0)
           /\ Cardinality(Replying') = Cardinality(Replying)
                + (IF v = "reply" THEN 1 ELSE 0) - (IF relay[c] = "reply" THEN 1 ELSE 0)
           /\ Cardinality(Piping') = Cardinality(Piping)
                + (IF v = "pipe" THEN 1 ELSE 0) - (IF relay[c] = "pipe" THEN 1 ELSE 0)
<1>1. Cardinality(Relays("forward")') = Cardinality(Relays("forward"))
        + (IF v = "forward" THEN 1 ELSE 0) - (IF relay[c] = "forward" THEN 1 ELSE 0)
  BY RelayMove
<1>2. Cardinality(Relays("reply")') = Cardinality(Relays("reply"))
        + (IF v = "reply" THEN 1 ELSE 0) - (IF relay[c] = "reply" THEN 1 ELSE 0)
  BY RelayMove
<1>3. Cardinality(Relays("pipe")') = Cardinality(Relays("pipe"))
        + (IF v = "pipe" THEN 1 ELSE 0) - (IF relay[c] = "pipe" THEN 1 ELSE 0)
  BY RelayMove
<1>. QED BY <1>1, <1>2, <1>3 DEF Forwarding, Replying, Piping

(* The two sides of the balance.                                           *)
Covered ==
    /\ Cardinality(Awaiting)
         = Len(queue) + Cardinality(Forwarding) + Cardinality(Replying)
             + Cardinality(Piping) + Len(pipe)
    /\ Cardinality(Replying) = Len(dataIn) + Len(dataOut)

LEMMA CoveredChild ==
    ASSUME AllAnswered, SInv, Covered, NEW c \in Clients, Child(c) PROVE Covered'
<1>1. /\ TypeOK /\ AnswerInv
      /\ queue \in Seq(Commands) /\ pipe \in Seq(Commands)
  BY DEF SInv, TypeInv, TypeOK
<1>2. /\ Forwarding' = Forwarding /\ Replying' = Replying /\ Piping' = Piping
      /\ dataIn' = dataIn /\ dataOut' = dataOut
  BY DEF Child, ChildOpens, ChildReads, ChildSends, ChildAnswers, MoveChild,
         Forwarding, Replying, Piping, Relays
<1>3. ASSUME ChildOpens(c) \/ ChildReads(c) PROVE Covered'
  <2>1. PICK v \in {"read", "exited", "send"} : ChildTo(c, v)
    BY <1>3 DEF ChildOpens, ChildReads, MoveChild, ChildTo
  <2>2. child[c] # "await" /\ queue' = queue /\ pipe' = pipe
    BY <1>3 DEF ChildOpens, ChildReads
  <2>3. Cardinality(Awaiting') = Cardinality(Awaiting)
    BY <1>1, <2>1, <2>2, ChildMove
  <2>. QED BY <1>2, <2>2, <2>3 DEF Covered
<1>4. ASSUME ChildSends(c) PROVE Covered'
  <2>1. held[c] \in Commands /\ held[c].kind = "answered" /\ child[c] = "send" /\ pipe' = pipe
    BY <1>1, <1>4 DEF ChildSends, AnswerInv, AnsweredOnes
  <2>2. ChildTo(c, "await") /\ queue' = Append(queue, held[c])
    BY <1>4, <2>1 DEF ChildSends, MoveChild, ChildTo
  <2>3. Len(queue') = Len(queue) + 1
    BY <1>1, <2>1, <2>2, SeqOps
  <2>4. Cardinality(Awaiting') = Cardinality(Awaiting) + 1
    BY <1>1, <2>1, <2>2, ChildMove
  <2>5. Len(queue) \in Nat /\ Len(pipe) \in Nat /\ Cardinality(Awaiting) \in Nat
    BY <1>1, <2>2, ChildMove, SeqOps
  <2>. QED BY <1>2, <2>1, <2>3, <2>4, <2>5, CountsAreNat DEF Covered
<1>5. ASSUME ChildAnswers(c) PROVE Covered'
  <2>1. child[c] = "await" /\ pipe # <<>> /\ pipe' = Tail(pipe) /\ queue' = queue
        /\ ChildTo(c, "read")
    BY <1>1, <1>5 DEF ChildAnswers, MoveChild, AnswerInv, ChildTo
  <2>2. Len(pipe') = Len(pipe) - 1 /\ Len(pipe) \in Nat /\ Len(queue) \in Nat
    BY <1>1, <2>1, SeqOps
  <2>3. Cardinality(Awaiting') = Cardinality(Awaiting) - 1 /\ Cardinality(Awaiting) \in Nat
    BY <1>1, <2>1, ChildMove
  <2>. QED BY <1>2, <2>1, <2>2, <2>3, CountsAreNat DEF Covered
<1>. QED BY <1>3, <1>4, <1>5 DEF Child

LEMMA CoveredRelay ==
    ASSUME AllAnswered, SInv, Covered, NEW c \in Clients, Relay(c) PROVE Covered'
<1>0. TypeOK
  BY DEF SInv, TypeInv
<1>1. /\ AnswerInv
      /\ queue \in Seq(Commands) /\ pipe \in Seq(Commands)
      /\ dataIn \in Seq(Commands) /\ dataOut \in Seq(Commands)
  BY DEF SInv, TypeInv, TypeOK
<1>2. Awaiting' = Awaiting
  BY DEF Relay, RelayOpens, RelayReceives, RelayForwards, RelayReads, RelayPipes, MoveRelay, Awaiting
<1>3. /\ Cardinality(Forwarding) \in Nat /\ Cardinality(Replying) \in Nat
      /\ Cardinality(Piping) \in Nat
  BY CountsAreNat
<1>4. Len(queue) \in Nat /\ Len(pipe) \in Nat /\ Len(dataIn) \in Nat /\ Len(dataOut) \in Nat
  BY <1>1, SeqOps
<1>5. CASE RelayOpens(c)
  <2>1. relay[c] = "open" /\ RelayTo(c, "receive") /\ UNCHANGED channels
    BY <1>5 DEF RelayOpens, MoveRelay, RelayTo
  <2>2. /\ Cardinality(Forwarding') = Cardinality(Forwarding)
        /\ Cardinality(Replying') = Cardinality(Replying)
        /\ Cardinality(Piping') = Cardinality(Piping)
    BY <1>0, <1>3, <2>1, RelayMoves
  <2>. QED BY <1>2, <2>1, <2>2 DEF Covered, channels
<1>6. CASE RelayReceives(c)
  <2>1. /\ relay[c] = "receive" /\ RelayTo(c, "forward")
        /\ queue # <<>> /\ queue' = Tail(queue)
        /\ dataIn' = dataIn /\ dataOut' = dataOut /\ pipe' = pipe
    BY <1>6 DEF RelayReceives, MoveRelay, RelayTo
  <2>2. Len(queue') = Len(queue) - 1
    BY <1>1, <2>1, SeqOps
  <2>3. /\ Cardinality(Forwarding') = Cardinality(Forwarding) + 1
        /\ Cardinality(Replying') = Cardinality(Replying)
        /\ Cardinality(Piping') = Cardinality(Piping)
    BY <1>0, <1>3, <2>1, RelayMoves
  <2>. QED BY <1>2, <1>3, <1>4, <2>1, <2>2, <2>3 DEF Covered
<1>7. CASE RelayForwards(c)
  <2>1. /\ relay[c] = "forward" /\ RelayTo(c, "reply")
        /\ carried[c] \in Commands /\ dataIn' = Append(dataIn, carried[c])
        /\ queue' = queue /\ dataOut' = dataOut /\ pipe' = pipe
    BY <1>1, <1>7 DEF RelayForwards, MoveRelay, AnswerInv, AnsweredOnes, RelayTo
  <2>2. Len(dataIn') = Len(dataIn) + 1
    BY <1>1, <2>1, SeqOps
  <2>3. /\ Cardinality(Forwarding') = Cardinality(Forwarding) - 1
        /\ Cardinality(Replying') = Cardinality(Replying) + 1
        /\ Cardinality(Piping') = Cardinality(Piping)
    BY <1>0, <1>3, <2>1, RelayMoves
  <2>. QED BY <1>2, <1>3, <1>4, <2>1, <2>2, <2>3 DEF Covered
<1>8. CASE RelayReads(c)
  <2>1. /\ relay[c] = "reply" /\ RelayTo(c, "pipe")
        /\ dataOut # <<>> /\ dataOut' = Tail(dataOut)
        /\ queue' = queue /\ dataIn' = dataIn /\ pipe' = pipe
    BY <1>8 DEF RelayReads, MoveRelay, RelayTo
  <2>2. Len(dataOut') = Len(dataOut) - 1
    BY <1>1, <2>1, SeqOps
  <2>3. /\ Cardinality(Forwarding') = Cardinality(Forwarding)
        /\ Cardinality(Replying') = Cardinality(Replying) - 1
        /\ Cardinality(Piping') = Cardinality(Piping) + 1
    BY <1>0, <1>3, <2>1, RelayMoves
  <2>. QED BY <1>2, <1>3, <1>4, <2>1, <2>2, <2>3 DEF Covered
<1>9. CASE RelayPipes(c)
  <2>0. queue' = queue /\ dataIn' = dataIn /\ dataOut' = dataOut
    BY <1>9 DEF RelayPipes
  <2>1. /\ relay[c] = "pipe" /\ RelayTo(c, "receive")
        /\ carried[c] \in Commands /\ pipe' = Append(pipe, carried[c])
    BY <1>9 DEF RelayPipes, MoveRelay, SInv, TypeInv, Carrying, RelayTo
  <2>2. Len(pipe') = Len(pipe) + 1
    BY <1>1, <2>1, SeqOps
  <2>3. /\ Cardinality(Forwarding') = Cardinality(Forwarding)
        /\ Cardinality(Replying') = Cardinality(Replying)
        /\ Cardinality(Piping') = Cardinality(Piping) - 1
    BY <1>0, <1>3, <2>1, RelayMoves
  <2>4. Cardinality(Awaiting')
          = Len(queue') + Cardinality(Forwarding') + Cardinality(Replying')
              + Cardinality(Piping') + Len(pipe')
    <3>1. Cardinality(Awaiting')
            = Len(queue) + Cardinality(Forwarding) + Cardinality(Replying)
                + Cardinality(Piping) + Len(pipe)
      BY <1>2 DEF Covered
    <3>2. Cardinality(Piping') = Cardinality(Piping) - 1 /\ Len(pipe') = Len(pipe) + 1
      BY <2>2, <2>3
    <3> DEFINE n == Len(queue) + Cardinality(Forwarding) + Cardinality(Replying)
                p == Cardinality(Piping)
                l == Len(pipe)
    <3>4. n \in Nat /\ p \in Nat /\ l \in Nat
      BY <1>3, <1>4
    <3>5. n + (p - 1) + (l + 1) = n + p + l
      <4>. HIDE DEF n, p, l
      <4>. QED BY <3>4
    <3>. QED BY <2>0, <2>3, <3>1, <3>2, <3>5, Zenon
  <2>5. Cardinality(Replying') = Len(dataIn') + Len(dataOut')
    BY <2>0, <2>3 DEF Covered
  <2>. QED BY <2>4, <2>5 DEF Covered
<1>. QED BY <1>5, <1>6, <1>7, <1>8, <1>9 DEF Relay

LEMMA CoveredClient ==
    ASSUME AllAnswered, SInv, Covered, NEW c \in Clients, Ask(c) \/ Accept(c) PROVE Covered'
<1>1. CASE Ask(c)
  BY <1>1 DEF Ask, processes, channels, Covered, Awaiting, Forwarding, Replying, Piping, Relays
<1>2. CASE Accept(c)
  <2>1. child[c] = "none" /\ ChildTo(c, "open")
    BY <1>2 DEF Accept, ChildTo, SInv, AnswerInv
  <2>2. TypeOK
    BY DEF SInv, TypeInv
  <2>3. Cardinality(Awaiting') = Cardinality(Awaiting)
    BY <2>1, <2>2, ChildMove, CountsAreNat
  <2>4. /\ Forwarding' = Forwarding /\ Replying' = Replying /\ Piping' = Piping
        /\ UNCHANGED channels
    BY <1>2 DEF Accept, Forwarding, Replying, Piping, Relays
  <2>. QED BY <2>3, <2>4 DEF Covered, channels
<1>. QED BY <1>1, <1>2

LEMMA CoveredOther ==
    ASSUME AllAnswered, SInv, Covered, ForkRelay \/ DataServer \/ UNCHANGED vars PROVE Covered'
<1>2. CASE UNCHANGED vars
  BY <1>2 DEF processes, clients, channels, vars, Covered, Awaiting,
       Forwarding, Replying, Piping, Relays
<1>3. CASE ForkRelay
  <2>1. /\ accepted.client \in Clients /\ relay[accepted.client] = "none"
        /\ RelayTo(accepted.client, "open")
    BY <1>3 DEF ForkRelay, RelayTo, SInv, AnswerInv, TypeInv, TypeOK
  <2>2. TypeOK
    BY DEF SInv, TypeInv
  <2>3. /\ Cardinality(Forwarding') = Cardinality(Forwarding)
        /\ Cardinality(Replying') = Cardinality(Replying)
        /\ Cardinality(Piping') = Cardinality(Piping)
    BY <2>1, <2>2, RelayMoves, CountsAreNat
  <2>4. Awaiting' = Awaiting /\ UNCHANGED channels
    BY <1>3 DEF ForkRelay, Awaiting
  <2>. QED BY <2>3, <2>4 DEF Covered, channels
<1>4. CASE DataServer
  <2>1. /\ dataIn # <<>> /\ dataIn' = Tail(dataIn) /\ Head(dataIn) \in Commands
        /\ Replies(Head(dataIn).kind) = 1
        /\ dataIn \in Seq(Commands) /\ dataOut \in Seq(Commands)
    <3>1. dataIn # <<>> /\ dataIn' = Tail(dataIn)
      BY <1>4 DEF DataServer
    <3>2. dataIn \in Seq(AnsweredOnes) /\ dataIn \in Seq(Commands) /\ dataOut \in Seq(Commands)
      BY DEF SInv, AnswerInv, TypeInv, TypeOK
    <3>3. Head(dataIn) \in AnsweredOnes
      BY <3>1, <3>2, SeqOps
    <3>. QED BY <3>1, <3>2, <3>3 DEF AnsweredOnes, Replies
  <2>2. Len(dataIn') = Len(dataIn) - 1 /\ Len(dataIn) \in Nat /\ Len(dataOut) \in Nat
    BY <2>1, SeqOps
  <2>3. Len(dataOut') = Len(dataOut) + 1
    BY <1>4, <2>1, ReplyBlock DEF DataServer
  <2>4. /\ Awaiting' = Awaiting /\ Forwarding' = Forwarding
        /\ Replying' = Replying /\ Piping' = Piping /\ queue' = queue /\ pipe' = pipe
    BY <1>4 DEF DataServer, processes, Awaiting, Forwarding, Replying, Piping, Relays
  <2>. QED BY <2>2, <2>3, <2>4 DEF Covered
<1>. QED BY <1>2, <1>3, <1>4

----------------------------------------------------------------------------
(* Under the premise nobody leaves and nothing is killed.                  *)
LEMMA NobodyLeaves ==
    ASSUME AllAnswered, TypeOK PROVE ~Kill /\ \A c \in Clients : ~Exit(c)
<1>1. Cardinality(Left) \in Nat
  <2>1. Left \subseteq Clients
    BY DEF Left
  <2>. QED BY <2>1, FS_Subset, FS_CardinalityType DEF AllAnswered
<1>2. ~Kill
  BY DEF Kill, AllAnswered, TypeOK
<1>. QED BY <1>1, <1>2 DEF Exit, AllAnswered

LEMMA AnswerInit == AllAnswered /\ Init => AnswerInv /\ Covered
<1> SUFFICES ASSUME AllAnswered, Init PROVE AnswerInv /\ Covered
  OBVIOUS
<1>1. <<>> \in Seq(AnsweredOnes) /\ Len(<<>>) = 0
  BY EmptySeq
<1>2. Awaiting = {} /\ Forwarding = {} /\ Replying = {} /\ Piping = {}
  BY DEF Init, Awaiting, Forwarding, Replying, Piping, Relays
<1>3. Cardinality({}) = 0
  BY FS_EmptySet
<1>. QED BY <1>1, <1>2, <1>3 DEF Init, AnswerInv, Covered

LEMMA AnswerClient ==
    ASSUME AllAnswered, SInv, NEW c \in Clients, Ask(c) \/ Accept(c) PROVE AnswerInv'
<1>0. client \in [Clients -> {"away", "menu", "waiting", "gone", "reset", "cut"}]
  BY DEF SInv, TypeInv, TypeOK
<1>1. CASE Ask(c)
  <2>1. PICK k \in Kinds :
          toChild' = [toChild EXCEPT ![c] =
                        Append(@, [client |-> c, number |-> asked[c] + 1, kind |-> k])]
    BY <1>1 DEF Ask
  <2>2. [client |-> c, number |-> asked[c] + 1, kind |-> k] \in AnsweredOnes
    BY NewCommand DEF SInv, AnsweredOnes, AllAnswered
  <2>3. \A d \in Clients : toChild[d] \in Seq(AnsweredOnes)
    BY DEF SInv, AnswerInv
  <2>4. \A d \in Clients : toChild'[d] \in Seq(AnsweredOnes)
    BY <2>1, <2>2, <2>3, SeqOps DEF SInv, TypeInv, TypeOK
  <2>. QED BY <1>0, <1>1, <2>4 DEF Ask, processes, channels, SInv, AnswerInv
<1>2. CASE Accept(c)
  <2>1. relay[c] = "none" /\ child' = [child EXCEPT ![c] = "open"]
    BY <1>2 DEF Accept, SInv, AnswerInv
  <2>2. child \in [Clients -> {"none", "open", "read", "send", "await", "exited"}]
    BY DEF SInv, TypeInv, TypeOK
  <2>. QED BY <1>0, <1>2, <2>1, <2>2 DEF Accept, channels, SInv, AnswerInv
<1>. QED BY <1>1, <1>2

LEMMA AnswerChild ==
    ASSUME AllAnswered, SInv, NEW c \in Clients, Child(c) PROVE AnswerInv'
<1>0. /\ client \in [Clients -> {"away", "menu", "waiting", "gone", "reset", "cut"}]
      /\ child \in [Clients -> {"none", "open", "read", "send", "await", "exited"}]
      /\ held \in [Clients -> Commands \cup {None}]
      /\ toChild \in [Clients -> Seq(Commands)]
  BY DEF SInv, TypeInv, TypeOK
<1>1. CASE ChildOpens(c)
  BY <1>0, <1>1 DEF ChildOpens, MoveChild, SInv, AnswerInv
<1>2. CASE ChildReads(c)
  <2>1. /\ toChild[c] \in Seq(AnsweredOnes) /\ toChild[c] # <<>>
        /\ held' = [held EXCEPT ![c] = Head(toChild[c])]
        /\ toChild' = [toChild EXCEPT ![c] = Tail(@)]
    BY <1>2 DEF ChildReads, Left, SInv, AnswerInv
  <2>2. Head(toChild[c]) \in AnsweredOnes /\ Tail(toChild[c]) \in Seq(AnsweredOnes)
    BY <2>1, SeqOps
  <2>. QED BY <1>0, <1>2, <2>1, <2>2 DEF ChildReads, MoveChild, SInv, AnswerInv
<1>3. CASE ChildSends(c)
  <2>1. held[c] \in AnsweredOnes
    BY <1>3 DEF ChildSends, SInv, AnswerInv
  <2>2. queue' = Append(queue, held[c]) /\ queue \in Seq(AnsweredOnes)
    BY <1>3, <2>1 DEF ChildSends, AnsweredOnes, SInv, AnswerInv
  <2>3. queue' \in Seq(AnsweredOnes)
    BY <2>1, <2>2, SeqOps
  <2>4. /\ child' = [child EXCEPT ![c] = "await"] /\ held' = [held EXCEPT ![c] = None]
        /\ accepted' = accepted /\ client' = client /\ relay' = relay /\ carried' = carried
        /\ toChild' = toChild /\ dataIn' = dataIn /\ dataUp' = dataUp
    BY <1>3 DEF ChildSends, MoveChild
  <2>5. \A d \in Clients : child'[d] = "send" => held'[d] \in AnsweredOnes
    BY <1>0, <2>4 DEF SInv, AnswerInv
  <2>6. \A d \in Clients : client[d] = "away" => child'[d] = "none" /\ relay[d] = "none"
    BY <1>0, <1>3, <2>4 DEF ChildSends, SInv, AnswerInv
  <2>7. AnswerInv
    BY DEF SInv
  <2>. QED BY <2>3, <2>4, <2>5, <2>6, <2>7 DEF AnswerInv
<1>4. CASE ChildAnswers(c)
  <2>1. /\ child' = [child EXCEPT ![c] = "read"]
        /\ client' = [client EXCEPT ![c] = "menu"]
        /\ accepted' = accepted /\ relay' = relay /\ carried' = carried /\ held' = held
        /\ toChild' = toChild /\ queue' = queue /\ dataIn' = dataIn /\ dataUp' = dataUp
    BY <1>4 DEF ChildAnswers, MoveChild, Left, SInv, AnswerInv
  <2>2. \A d \in Clients : client'[d] \notin {"gone", "reset"} /\ (client'[d] = "away" => client[d] = "away" /\ d # c)
    BY <1>0, <2>1 DEF SInv, AnswerInv
  <2>3. \A d \in Clients : (child'[d] = "send" => child[d] = "send")
                            /\ (d # c => child'[d] = child[d])
    BY <1>0, <2>1
  <2>4. accepted # NoClient => accepted.client \in Clients
    BY DEF SInv, TypeInv, TypeOK
  <2>. QED BY <2>1, <2>2, <2>3, <2>4 DEF SInv, AnswerInv
<1>. QED BY <1>1, <1>2, <1>3, <1>4 DEF Child

LEMMA AnswerRelay ==
    ASSUME AllAnswered, SInv, NEW c \in Clients, Relay(c) PROVE AnswerInv'
<1>0. /\ relay \in [Clients -> {"none", "open", "receive", "forward", "reply", "pipe", "exited"}]
      /\ carried \in [Clients -> Commands \cup {None}]
  BY DEF SInv, TypeInv, TypeOK
<1>1. relay[c] # "none" /\ (accepted # NoClient => accepted.client # c)
  BY DEF Relay, RelayOpens, RelayReceives, RelayForwards, RelayReads, RelayPipes, SInv, AnswerInv
<1>2. \A d \in Clients : client[d] = "away" => d # c
  BY <1>1 DEF SInv, AnswerInv
<1>3. \E pc \in {"receive", "forward", "reply", "pipe"} : \E m :
          /\ MoveRelay(c, pc, m) /\ (pc = "forward" => m \in AnsweredOnes)
          /\ queue' \in Seq(AnsweredOnes) /\ dataIn' \in Seq(AnsweredOnes)
  <2>1. queue \in Seq(AnsweredOnes) /\ dataIn \in Seq(AnsweredOnes) /\ dataUp
        /\ (relay[c] = "forward" => carried[c] \in AnsweredOnes)
    BY DEF SInv, AnswerInv
  <2>2. CASE RelayReceives(c)
    <3>1. Head(queue) \in AnsweredOnes /\ queue' \in Seq(AnsweredOnes) /\ dataIn' = dataIn
      BY <2>1, <2>2, SeqOps DEF RelayReceives
    <3>. QED BY <2>1, <2>2, <3>1 DEF RelayReceives
  <2>3. CASE RelayForwards(c)
    <3>1. dataIn' = Append(dataIn, carried[c]) /\ MoveRelay(c, "reply", None) /\ queue' = queue
          /\ carried[c] \in AnsweredOnes
      BY <2>1, <2>3 DEF RelayForwards
    <3>2. dataIn' \in Seq(AnsweredOnes)
      BY <2>1, <3>1, SeqOps
    <3>. QED BY <2>1, <3>1, <3>2
  <2>4. CASE RelayOpens(c) \/ RelayReads(c) \/ RelayPipes(c)
    BY <2>1, <2>4 DEF RelayOpens, RelayReads, RelayPipes, channels
  <2>. QED BY <2>2, <2>3, <2>4 DEF Relay
<1>4. PICK pc, m :
          /\ pc \in {"receive", "forward", "reply", "pipe"}
          /\ MoveRelay(c, pc, m) /\ (pc = "forward" => m \in AnsweredOnes)
          /\ queue' \in Seq(AnsweredOnes) /\ dataIn' \in Seq(AnsweredOnes)
  BY <1>3
<1>5. /\ relay' = [relay EXCEPT ![c] = pc] /\ carried' = [carried EXCEPT ![c] = m]
      /\ UNCHANGED <<accepted, client, asked, got, toChild, child, held, dataUp>>
  BY <1>4 DEF MoveRelay, clients
<1>6. \A d \in Clients : relay'[d] = "forward" => carried'[d] \in AnsweredOnes
  BY <1>0, <1>4, <1>5 DEF SInv, AnswerInv
<1>7. \A d \in Clients : d # c => relay'[d] = relay[d]
  BY <1>0, <1>5
<1>8. accepted # NoClient => accepted.client \in Clients
  BY DEF SInv, TypeInv, TypeOK
<1>. QED BY <1>1, <1>2, <1>4, <1>5, <1>6, <1>7, <1>8 DEF SInv, AnswerInv

LEMMA AnswerNext ==
    ASSUME AllAnswered, SInv, Covered, [Next]_vars PROVE AnswerInv' /\ Covered'
<1>0. ~Kill /\ \A c \in Clients : ~Exit(c)
  BY NobodyLeaves DEF SInv, TypeInv
<1>1. ASSUME NEW c \in Clients, Ask(c) \/ Accept(c) \/ Child(c) \/ Relay(c)
      PROVE  AnswerInv' /\ Covered'
  BY <1>1, AnswerClient, AnswerChild, AnswerRelay, CoveredChild, CoveredRelay,
       CoveredClient
<1>2. CASE ForkRelay \/ DataServer \/ UNCHANGED vars
  <2>1. AnswerInv'
    <3>1. CASE ForkRelay
      <4>1. accepted.client \in Clients /\ client[accepted.client] # "away"
        BY <3>1 DEF ForkRelay, SInv, TypeInv, TypeOK, AnswerInv
      <4>2. relay \in [Clients -> {"none", "open", "receive", "forward", "reply", "pipe", "exited"}]
        BY DEF SInv, TypeInv, TypeOK
      <4>. QED BY <3>1, <4>1, <4>2 DEF ForkRelay, clients, channels, SInv, AnswerInv
    <3>2. CASE DataServer
      <4>1. dataIn' \in Seq(AnsweredOnes)
        BY <3>2, SeqOps DEF DataServer, SInv, AnswerInv
      <4>. QED BY <3>2, <4>1 DEF DataServer, processes, clients, SInv, AnswerInv
    <3>3. CASE UNCHANGED vars
      BY <3>3 DEF vars, processes, clients, channels, SInv, AnswerInv
    <3>. QED BY <1>2, <3>1, <3>2, <3>3
  <2>. QED BY <1>2, <2>1, CoveredOther
<1>. QED BY <1>0, <1>1, <1>2 DEF Next, Quiet

(* Every command answered once, nobody leaving and nothing killed: each    *)
(* child that waits at the pipe has a command or a reply under way for it, *)
(* whatever the number of clients and however they share the queue.        *)
THEOREM WaitsCovered == AllAnswered => (Spec => []EveryWaitIsCovered)
<1> SUFFICES ASSUME AllAnswered PROVE Spec => []EveryWaitIsCovered
  OBVIOUS
<1> DEFINE I == SInv /\ Covered
<1>1. Init => I
  BY TypeInit, AnswerInit DEF SInv
<1>2. I /\ [Next]_vars => I'
  BY TypeNext, AnswerNext DEF SInv
<1>3. I => EveryWaitIsCovered
  BY DEF Covered, EveryWaitIsCovered, Awaiting, Forwarding, Replying, Piping
<1>. QED BY <1>1, <1>2, <1>3, PTL DEF Spec
----------------------------------------------------------------------------
(***************************************************************************)
(* With one client whose commands are answered once, who does not leave,   *)
(* and no kill, the sub-server is what the client takes it for: a remote   *)
(* procedure call.  Each of the premises is needed: the runs misrouted,    *)
(* shared and killed show what becomes of it without them.                 *)
(***************************************************************************)
OneClient ==
    (\E c : Clients = {c}) /\ Kinds \subseteq {"answered"} /\ MaxExits = 0 /\ MaxKills = 0

(* The last command of the client.                                         *)
Last(c) == [client |-> c, number |-> asked[c], kind |-> "answered"]

On(c, a, b, d, e, f) ==
    toChild[c] = a /\ queue = b /\ dataIn = d /\ dataOut = e /\ pipe = f
Nowhere(c) == On(c, <<>>, <<>>, <<>>, <<>>, <<>>)

Listens(c) == child[c] \in {"none", "open", "read", "exited"}
Free(c)    == relay[c] \in {"none", "open", "receive"}

(* The client is at a menu, or has not connected, and nothing is under way.*)
AtRest(c) ==
    /\ client[c] \in {"away", "menu"} /\ Nowhere(c) /\ Listens(c) /\ Free(c)
    /\ got[c] = IF asked[c] = 0 THEN None ELSE Last(c)
    /\ client[c] = "away" => asked[c] = 0 /\ relay[c] = "none"

(* Its command, and then its reply, is at one place.                       *)
ToChild(c)  == On(c, <<Last(c)>>, <<>>, <<>>, <<>>, <<>>) /\ Listens(c) /\ Free(c)
InChild(c)  == Nowhere(c) /\ child[c] = "send" /\ held[c] = Last(c) /\ Free(c)
InQueue(c)  == On(c, <<>>, <<Last(c)>>, <<>>, <<>>, <<>>) /\ child[c] = "await" /\ Free(c)
InRelay(c)  == Nowhere(c) /\ child[c] = "await" /\ relay[c] = "forward" /\ carried[c] = Last(c)
Arriving(c) == On(c, <<>>, <<>>, <<Last(c)>>, <<>>, <<>>)
                 /\ child[c] = "await" /\ relay[c] = "reply"
Leaving(c)  == On(c, <<>>, <<>>, <<>>, <<Last(c)>>, <<>>)
                 /\ child[c] = "await" /\ relay[c] = "reply"
ToPipe(c)   == Nowhere(c) /\ child[c] = "await" /\ relay[c] = "pipe" /\ carried[c] = Last(c)
Piped(c)    == On(c, <<>>, <<>>, <<>>, <<>>, <<Last(c)>>)
                 /\ child[c] = "await" /\ relay[c] = "receive"
UnderWay(c) == \/ ToChild(c) \/ InChild(c) \/ InQueue(c) \/ InRelay(c)
               \/ Arriving(c) \/ Leaving(c) \/ ToPipe(c) \/ Piped(c)

Phase(c) ==
    /\ dataUp /\ (accepted # NoClient => relay[c] = "none" /\ client[c] # "away")
    /\ AtRest(c) \/ (client[c] = "waiting" /\ asked[c] >= 1 /\ UnderWay(c))

Alone(c) == Clients = {c} /\ Kinds \subseteq {"answered"} /\ MaxExits = 0 /\ MaxKills = 0

(* Sequences of one.                                                       *)
LEMMA Single ==
    ASSUME NEW m
    PROVE  /\ <<m>> # <<>> /\ Head(<<m>>) = m /\ Tail(<<m>>) = <<>>
           /\ Append(<<>>, m) = <<m>>
OBVIOUS

LEMMA OneReply ==
    ASSUME NEW m PROVE <<>> \o [i \in 1..Replies("answered") |-> m] = <<m>>
<1>1. Replies("answered") = 1
  BY DEF Replies
<1>2. [i \in 1..1 |-> m] = <<m>>
  OBVIOUS
<1>3. <<>> \o <<m>> = <<m>>
  OBVIOUS
<1>. QED BY <1>1, <1>2, <1>3

----------------------------------------------------------------------------
(* The actions, in a system of one client                                  *)

LEMMA PhaseInit == ASSUME NEW c, Alone(c), Init PROVE Phase(c)
BY DEF Alone, Init, Phase, AtRest, Nowhere, On, Listens, Free

LEMMA PhaseClient ==
    ASSUME NEW c, Alone(c), TypeInv, Phase(c), Ask(c) \/ Accept(c) PROVE Phase(c)'
<1>0. c \in Clients /\ asked[c] \in Nat
  BY BoundsAssumption DEF Alone, TypeInv, TypeOK
<1>1. CASE Ask(c)
  <2>1. AtRest(c) /\ client[c] = "menu"
    BY <1>1 DEF Ask, Phase
  <2>2. PICK k \in Kinds :
          toChild' = [toChild EXCEPT ![c] =
                        Append(@, [client |-> c, number |-> asked[c] + 1, kind |-> k])]
    BY <1>1 DEF Ask
  <2>3. k = "answered"
    BY DEF Alone
  <2>4. /\ asked'[c] = asked[c] + 1 /\ client'[c] = "waiting"
        /\ queue' = queue /\ dataIn' = dataIn /\ dataOut' = dataOut /\ pipe' = pipe
        /\ child' = child /\ relay' = relay /\ dataUp' = dataUp /\ accepted' = accepted
    BY <1>0, <1>1 DEF Ask, TypeInv, TypeOK, processes, channels
  <2>5. toChild'[c] = <<Last(c)'>>
    <3>1. toChild'[c] = Append(<<>>, [client |-> c, number |-> asked[c] + 1, kind |-> "answered"])
      BY <1>0, <2>1, <2>2, <2>3 DEF AtRest, Nowhere, On, TypeInv, TypeOK
    <3>2. Last(c)' = [client |-> c, number |-> asked[c] + 1, kind |-> "answered"]
      BY <2>4 DEF Last
    <3>. QED BY <3>1, <3>2, Single
  <2>6. ToChild(c)'
    BY <2>1, <2>4, <2>5 DEF ToChild, AtRest, Nowhere, On, Listens, Free
  <2>. QED BY <1>0, <2>4, <2>6 DEF Phase, UnderWay
<1>2. CASE Accept(c)
  <2>1. AtRest(c) /\ client[c] = "away"
    BY <1>2 DEF Accept, Phase
  <2>2. AtRest(c)' /\ relay'[c] = "none" /\ client'[c] = "menu"
    BY <1>0, <1>2, <2>1
       DEF Accept, AtRest, Nowhere, On, Listens, Free, Last, TypeInv, TypeOK, channels
  <2>. QED BY <1>2, <2>2 DEF Accept, Phase
<1>. QED BY <1>1, <1>2

LEMMA PhaseFork ==
    ASSUME NEW c, Alone(c), TypeInv, Phase(c), ForkRelay PROVE Phase(c)'
<1>1. accepted.client = c /\ relay[c] = "none"
  BY DEF ForkRelay, TypeInv, TypeOK, Alone, Phase
<1>2. /\ relay'[c] = "open" /\ accepted' = NoClient
      /\ child' = child /\ held' = held /\ carried' = carried /\ client' = client
      /\ asked' = asked /\ got' = got /\ toChild' = toChild /\ queue' = queue
      /\ dataIn' = dataIn /\ dataOut' = dataOut /\ pipe' = pipe /\ dataUp' = dataUp
  BY <1>1 DEF ForkRelay, clients, channels, Alone, TypeInv, TypeOK
<1>3. accepted # NoClient /\ client[c] # "away"
  BY DEF ForkRelay, Phase
<1>4. CASE AtRest(c)
  BY <1>2, <1>3, <1>4 DEF Phase, AtRest, Nowhere, On, Listens, Free, Last
<1>5. CASE client[c] = "waiting" /\ asked[c] >= 1 /\ (ToChild(c) \/ InChild(c) \/ InQueue(c))
  BY <1>2, <1>5
     DEF Phase, UnderWay, ToChild, InChild, InQueue, Nowhere, On, Listens, Free, Last
<1>. QED
  BY <1>1, <1>4, <1>5
     DEF Phase, UnderWay, InRelay, Arriving, Leaving, ToPipe, Piped

LEMMA PhaseChild ==
    ASSUME NEW c, Alone(c), TypeInv, Phase(c), Child(c) PROVE Phase(c)'
<1> USE Single DEF Alone
<1>a. c \notin Left
  BY DEF Phase, AtRest, Left
<1>0. /\ asked' = asked /\ relay' = relay /\ carried' = carried /\ accepted' = accepted
      /\ dataUp' = dataUp /\ dataIn' = dataIn /\ dataOut' = dataOut /\ Last(c)' = Last(c)
  BY <1>a DEF Child, Left, ChildOpens, ChildReads, ChildSends, ChildAnswers, MoveChild, Last
<1>1. CASE ChildOpens(c)
  <2>1. child'[c] \in {"read", "exited"} /\ child[c] = "open" /\ client' = client /\ got' = got
        /\ held' = held /\ toChild' = toChild /\ queue' = queue /\ pipe' = pipe
    BY <1>1 DEF ChildOpens, MoveChild, TypeInv, TypeOK
  <2>2. CASE AtRest(c)
    BY <1>0, <2>1, <2>2 DEF Phase, AtRest, Nowhere, On, Listens, Free
  <2>3. CASE client[c] = "waiting" /\ asked[c] >= 1 /\ ToChild(c)
    BY <1>0, <2>1, <2>3 DEF Phase, UnderWay, ToChild, On, Listens, Free
  <2>. QED BY <2>1, <2>2, <2>3
           DEF Phase, UnderWay, InChild, InQueue, InRelay, Arriving, Leaving, ToPipe, Piped
<1>2. CASE ChildReads(c)
  <2>1. child[c] = "read" /\ c \notin Left
    BY <1>a, <1>2 DEF ChildReads
  <2>2. toChild[c] # <<>> /\ held' = [held EXCEPT ![c] = Head(toChild[c])]
        /\ toChild' = [toChild EXCEPT ![c] = Tail(@)]
        /\ child' = [child EXCEPT ![c] = "send"]
        /\ client' = client /\ queue' = queue /\ pipe' = pipe
    BY <1>2, <2>1 DEF ChildReads, MoveChild, Left
  <2>3. client[c] = "waiting" /\ asked[c] >= 1 /\ ToChild(c)
    BY <2>1, <2>2 DEF Phase, UnderWay, AtRest, Nowhere, On, InChild, InQueue, InRelay,
                      Arriving, Leaving, ToPipe, Piped
  <2>4. held'[c] = Last(c) /\ toChild'[c] = <<>> /\ child'[c] = "send"
    BY <2>2, <2>3 DEF ToChild, On, TypeInv, TypeOK
  <2>5. InChild(c)'
    BY <1>0, <2>2, <2>3, <2>4 DEF InChild, ToChild, Nowhere, On, Free
  <2>. QED BY <1>0, <2>2, <2>3, <2>5 DEF Phase, UnderWay
<1>3. CASE ChildSends(c)
  <2>1. client[c] = "waiting" /\ asked[c] >= 1 /\ InChild(c)
    BY <1>3 DEF ChildSends, Phase, UnderWay, AtRest, Listens, ToChild, InQueue, InRelay,
                Arriving, Leaving, ToPipe, Piped
  <2>2. held[c].kind = "answered"
    BY <2>1 DEF InChild, Last
  <2>3. queue' = Append(queue, held[c]) /\ child' = [child EXCEPT ![c] = "await"]
        /\ client' = client /\ toChild' = toChild /\ pipe' = pipe
    BY <1>3, <2>2 DEF ChildSends, MoveChild
  <2>4. queue' = <<Last(c)>> /\ child'[c] = "await"
    BY <2>1, <2>3 DEF InChild, Nowhere, On, TypeInv, TypeOK
  <2>5. InQueue(c)'
    BY <1>0, <2>1, <2>3, <2>4 DEF InQueue, InChild, Nowhere, On, Free
  <2>. QED BY <1>0, <2>1, <2>3, <2>5 DEF Phase, UnderWay
<1>4. CASE ChildAnswers(c)
  <2>1. client[c] = "waiting" /\ asked[c] >= 1 /\ Piped(c)
    BY <1>4 DEF ChildAnswers, Phase, UnderWay, AtRest, Listens, Nowhere, On, ToChild,
                InChild, InQueue, InRelay, Arriving, Leaving, ToPipe
  <2>2. /\ pipe' = Tail(pipe) /\ child' = [child EXCEPT ![c] = "read"]
        /\ client' = [client EXCEPT ![c] = "menu"] /\ got' = [got EXCEPT ![c] = Head(pipe)]
        /\ toChild' = toChild /\ queue' = queue
    BY <1>4, <2>1 DEF ChildAnswers, MoveChild
  <2>3. /\ pipe' = <<>> /\ child'[c] = "read" /\ client'[c] = "menu" /\ got'[c] = Last(c)
    BY <2>1, <2>2 DEF Piped, On, TypeInv, TypeOK
  <2>4. asked[c] # 0
    BY <2>1 DEF TypeInv, TypeOK
  <2>5. AtRest(c)'
    BY <1>0, <2>1, <2>2, <2>3, <2>4 DEF AtRest, Piped, Nowhere, On, Listens, Free
  <2>. QED BY <1>0, <2>3, <2>5 DEF Phase, Piped
<1>. QED BY <1>1, <1>2, <1>3, <1>4 DEF Child

LEMMA PhaseRelay ==
    ASSUME NEW c, Alone(c), TypeInv, Phase(c), Relay(c) PROVE Phase(c)'
<1> USE Single DEF Alone
<1>0. /\ asked' = asked /\ child' = child /\ held' = held /\ accepted' = accepted
      /\ client' = client /\ got' = got /\ toChild' = toChild
      /\ dataUp' = dataUp /\ Last(c)' = Last(c)
  BY DEF Relay, RelayOpens, RelayReceives, RelayForwards, RelayReads, RelayPipes,
         MoveRelay, clients, Last
<1>1. relay[c] # "none" /\ accepted = NoClient /\ dataUp
  BY DEF Relay, RelayOpens, RelayReceives, RelayForwards, RelayReads, RelayPipes, Phase
<1>2. CASE RelayOpens(c)
  <2>1. relay[c] = "open" /\ relay'[c] = "receive" /\ queue' = queue /\ dataIn' = dataIn
        /\ dataOut' = dataOut /\ pipe' = pipe
    BY <1>2 DEF RelayOpens, MoveRelay, channels, TypeInv, TypeOK
  <2>2. CASE AtRest(c)
    BY <1>0, <1>1, <2>1, <2>2 DEF Phase, AtRest, Nowhere, On, Listens, Free
  <2>3. CASE client[c] = "waiting" /\ asked[c] >= 1 /\ (ToChild(c) \/ InChild(c) \/ InQueue(c))
    BY <1>0, <1>1, <2>1, <2>3
       DEF Phase, UnderWay, ToChild, InChild, InQueue, Nowhere, On, Listens, Free
  <2>. QED BY <2>1, <2>2, <2>3
           DEF Phase, UnderWay, InRelay, Arriving, Leaving, ToPipe, Piped
<1>3. CASE RelayReceives(c)
  <2>1. client[c] = "waiting" /\ asked[c] >= 1 /\ InQueue(c)
    BY <1>3 DEF RelayReceives, Phase, UnderWay, AtRest, Nowhere, On, ToChild, InChild,
                InRelay, Arriving, Leaving, ToPipe, Piped
  <2>2. /\ queue' = <<>> /\ relay'[c] = "forward" /\ carried'[c] = Last(c)
        /\ dataIn' = dataIn /\ dataOut' = dataOut /\ pipe' = pipe
    BY <1>3, <2>1 DEF RelayReceives, MoveRelay, InQueue, On, TypeInv, TypeOK
  <2>3. InRelay(c)'
    BY <1>0, <2>1, <2>2 DEF InRelay, InQueue, Nowhere, On
  <2>. QED BY <1>0, <1>1, <2>1, <2>3 DEF Phase, UnderWay
<1>4. CASE RelayForwards(c)
  <2>1. client[c] = "waiting" /\ asked[c] >= 1 /\ InRelay(c)
    BY <1>4 DEF RelayForwards, Phase, UnderWay, AtRest, Free, ToChild, InChild, InQueue,
                Arriving, Leaving, ToPipe, Piped
  <2>2. /\ dataIn' = <<Last(c)>> /\ relay'[c] = "reply"
        /\ queue' = queue /\ dataOut' = dataOut /\ pipe' = pipe
    BY <1>1, <1>4, <2>1 DEF RelayForwards, MoveRelay, InRelay, Nowhere, On, TypeInv, TypeOK
  <2>3. Arriving(c)'
    BY <1>0, <2>1, <2>2 DEF Arriving, InRelay, Nowhere, On
  <2>. QED BY <1>0, <1>1, <2>1, <2>3 DEF Phase, UnderWay
<1>5. CASE RelayReads(c)
  <2>1. client[c] = "waiting" /\ asked[c] >= 1 /\ Leaving(c)
    BY <1>5 DEF RelayReads, Phase, UnderWay, AtRest, Free, Nowhere, On, ToChild, InChild,
                InQueue, InRelay, Arriving, ToPipe, Piped
  <2>2. /\ dataOut' = <<>> /\ relay'[c] = "pipe" /\ carried'[c] = Last(c)
        /\ queue' = queue /\ dataIn' = dataIn /\ pipe' = pipe
    BY <1>5, <2>1 DEF RelayReads, MoveRelay, Leaving, On, TypeInv, TypeOK
  <2>3. ToPipe(c)'
    BY <1>0, <2>1, <2>2 DEF ToPipe, Leaving, Nowhere, On
  <2>. QED BY <1>0, <1>1, <2>1, <2>3 DEF Phase, UnderWay
<1>6. CASE RelayPipes(c)
  <2>1. client[c] = "waiting" /\ asked[c] >= 1 /\ ToPipe(c)
    BY <1>6 DEF RelayPipes, Phase, UnderWay, AtRest, Free, ToChild, InChild, InQueue,
                InRelay, Arriving, Leaving, Piped
  <2>2. /\ pipe' = <<Last(c)>> /\ relay'[c] = "receive"
        /\ queue' = queue /\ dataIn' = dataIn /\ dataOut' = dataOut
    BY <1>6, <2>1 DEF RelayPipes, MoveRelay, ToPipe, Nowhere, On, TypeInv, TypeOK
  <2>3. Piped(c)'
    BY <1>0, <2>1, <2>2 DEF Piped, ToPipe, Nowhere, On
  <2>. QED BY <1>0, <1>1, <2>1, <2>3 DEF Phase, UnderWay
<1>. QED BY <1>2, <1>3, <1>4, <1>5, <1>6 DEF Relay

LEMMA PhaseData ==
    ASSUME NEW c, Alone(c), TypeInv, Phase(c), DataServer PROVE Phase(c)'
<1> USE Single
<1>1. client[c] = "waiting" /\ asked[c] >= 1 /\ Arriving(c)
  BY DEF DataServer, Phase, UnderWay, AtRest, Nowhere, On, ToChild, InChild, InQueue,
         InRelay, Leaving, ToPipe, Piped
<1>2. Head(dataIn) = Last(c) /\ Last(c).kind = "answered" /\ dataOut = <<>>
  BY <1>1 DEF Arriving, On, Last
<1>3. dataOut' = <<Last(c)>>
  BY <1>2, OneReply DEF DataServer
<1>4. /\ dataIn' = <<>> /\ relay' = relay /\ child' = child /\ accepted' = accepted
      /\ client' = client /\ asked' = asked /\ toChild' = toChild
      /\ queue' = queue /\ pipe' = pipe /\ dataUp' = dataUp /\ Last(c)' = Last(c)
  BY <1>1 DEF DataServer, processes, clients, Arriving, On, Last
<1>5. Leaving(c)'
  BY <1>1, <1>3, <1>4 DEF Leaving, Arriving, On
<1>. QED BY <1>1, <1>4, <1>5 DEF Phase, UnderWay

OneInv(c) == TypeInv /\ Phase(c)

LEMMA NoExit == ASSUME NEW c, Alone(c), OneInv(c) PROVE ~Exit(c) /\ ~Kill
<1>1. CASE Exit(c)
  <2>1. Left = {}
    BY <1>1 DEF Exit, Alone, Left
  <2>2. Cardinality({}) = 0
    BY FS_EmptySet
  <2>. QED BY <1>1, <2>1, <2>2 DEF Exit, Alone
<1>2. ~Kill
  BY DEF Kill, Alone, OneInv, TypeInv, TypeOK
<1>. QED BY <1>1, <1>2

LEMMA OneNext == ASSUME NEW c, Alone(c), OneInv(c), [Next]_vars PROVE OneInv(c)'
<1>1. TypeInv'
  BY TypeNext DEF OneInv
<1>2. CASE UNCHANGED vars
  <2>1. Phase(c)'
    BY <1>2 DEF OneInv, Phase, UnderWay, AtRest, ToChild, InChild, InQueue, InRelay, Arriving,
                Leaving, ToPipe, Piped, Nowhere, On, Listens, Free, Last,
                vars, processes, clients, channels
  <2>. QED BY <1>1, <2>1 DEF OneInv
<1>3. CASE \/ ForkRelay \/ DataServer
           \/ \E d \in Clients : Ask(d) \/ Accept(d) \/ Child(d) \/ Relay(d)
  <2>1. Phase(c)'
    BY <1>3, PhaseClient, PhaseFork, PhaseChild, PhaseRelay, PhaseData DEF OneInv, Alone
  <2>. QED BY <1>1, <2>1 DEF OneInv
<1>. QED BY <1>2, <1>3, NoExit DEF Next, Quiet, Alone

LEMMA OneInit == ASSUME NEW c, Alone(c), Init PROVE OneInv(c)
BY TypeInit, PhaseInit DEF OneInv

(* The only client gets the reply to the command it sent last.             *)
THEOREM OwnRepliesAlone == OneClient => (Spec => []OwnReplies)
<1> SUFFICES ASSUME OneClient PROVE Spec => []OwnReplies
  OBVIOUS
<1>1. PICK c \in Clients : Alone(c)
  BY DEF OneClient, Alone
<1>2. OneInv(c) => OwnReplies
  <2> SUFFICES ASSUME OneInv(c), NEW d \in Clients, client[d] = "menu", asked[d] > 0
               PROVE  got[d].client = d /\ got[d].number = asked[d]
    BY DEF OwnReplies
  <2>1. d = c
    BY <1>1 DEF Alone
  <2>2. asked[c] # 0 /\ AtRest(c)
    BY <2>1 DEF OneInv, Phase, TypeInv, TypeOK
  <2>3. got[c] = Last(c)
    BY <2>2 DEF AtRest
  <2>. QED BY <2>1, <2>3 DEF Last
<1>. QED BY <1>1, <1>2, OneInit, OneNext, PTL DEF Spec

----------------------------------------------------------------------------
(* The steps of the system as steps of RequestReply                        *)

(* A step that leaves the client where it is changes nothing there.        *)
LEMMA StepStays ==
    ASSUME client' = client, asked' = asked, got' = got PROVE UNCHANGED RR!rrvars
BY DEF RR!rrvars

LEMMA StepAsk ==
    ASSUME NEW c, Alone(c), OneInv(c), Ask(c) PROVE RR!Ask(c)
<1>1. /\ client[c] = "menu" /\ client' = [client EXCEPT ![c] = "waiting"]
      /\ asked[c] < MaxRequests /\ asked' = [asked EXCEPT ![c] = @ + 1] /\ got' = got
  BY DEF Ask
<1>2. client \in [{c} -> {"away", "menu", "waiting", "gone", "reset", "cut"}]
  BY DEF OneInv, TypeInv, TypeOK, Alone
<1>3. ~(client[c] = "waiting")
  BY <1>1
<1>4. [d \in Clients |-> client[d] = "waiting"]' = [d \in Clients |-> d = c \/ client[d] = "waiting"]
  BY <1>1, <1>2 DEF Alone
<1>. QED BY <1>1, <1>2, <1>3, <1>4 DEF RR!Ask, Alone

(* The reply that the client takes answers its last command.               *)
LEMMA StepAnswer ==
    ASSUME NEW c, Alone(c), OneInv(c), ChildAnswers(c) PROVE RR!Answer(c)
<1>1. client[c] = "waiting" /\ Piped(c)
  BY DEF ChildAnswers, OneInv, Phase, UnderWay, AtRest, Listens, Nowhere, On, ToChild,
         InChild, InQueue, InRelay, Arriving, Leaving, ToPipe
<1>2. /\ client' = [client EXCEPT ![c] = "menu"] /\ got' = [got EXCEPT ![c] = Last(c)]
      /\ asked' = asked
  BY <1>1, Single DEF ChildAnswers, MoveChild, Piped, On
<1>3. client \in [{c} -> {"away", "menu", "waiting", "gone", "reset", "cut"}]
      /\ got \in [{c} -> Commands \cup {None}]
  BY DEF OneInv, TypeInv, TypeOK, Alone
<1>4. [d \in Clients |-> client[d] = "waiting"]' = [d \in Clients |-> d # c /\ client[d] = "waiting"]
  BY <1>2, <1>3 DEF Alone
<1>5. Last(c) # None
  BY DEF Last, None
<1>6. [d \in Clients |-> IF got[d] = None THEN <<d, 0>> ELSE <<got[d].client, got[d].number>>]'
        = [d \in Clients |-> <<c, asked[c]>>]
  BY <1>2, <1>3, <1>5 DEF Alone, Last
<1>. QED BY <1>1, <1>2, <1>4, <1>6 DEF RR!Answer, Alone

LEMMA StepMaps ==
    ASSUME NEW c, Alone(c), OneInv(c), [Next]_vars PROVE [RR!Next]_RR!rrvars
<1>1. CASE Ask(c)
  BY <1>1, StepAsk DEF RR!Next, Alone
<1>2. CASE ChildAnswers(c)
  BY <1>2, StepAnswer DEF RR!Next, Alone
<1>3. CASE Accept(c)
  <2>1. client[c] = "away" /\ client' = [client EXCEPT ![c] = "menu"] /\ asked' = asked /\ got' = got
    BY <1>3 DEF Accept
  <2>2. [d \in Clients |-> client[d] = "waiting"]' = [d \in Clients |-> client[d] = "waiting"]
    BY <2>1 DEF Alone, OneInv, TypeInv, TypeOK
  <2>. QED BY <2>1, <2>2 DEF RR!rrvars
<1>4. CASE ChildReads(c)
  <2>1. c \notin Left
    BY DEF OneInv, Phase, AtRest, Left
  <2>2. client' = client /\ asked' = asked /\ got' = got
    BY <1>4, <2>1 DEF ChildReads, Left
  <2>. QED BY <2>2, StepStays
<1>5. CASE ForkRelay \/ DataServer \/ Relay(c) \/ ChildOpens(c) \/ ChildSends(c) \/ UNCHANGED vars
  <2>1. client' = client /\ asked' = asked /\ got' = got
    BY <1>5 DEF ForkRelay, DataServer, Relay, RelayOpens, RelayReceives, RelayForwards, RelayReads,
                RelayPipes, MoveRelay, ChildOpens, ChildSends, MoveChild,
                vars, clients
  <2>. QED BY <2>1, StepStays
<1>. QED BY <1>1, <1>2, <1>3, <1>4, <1>5, NoExit DEF Next, Quiet, Child, Alone

LEMMA InitMaps == ASSUME Init PROVE RR!Init
<1>1. \A c \in Clients : ~(client[c] = "waiting")
  BY DEF Init
<1>2. [c \in Clients |-> client[c] = "waiting"] = [c \in Clients |-> FALSE]
  BY <1>1
<1>. QED BY <1>2 DEF Init, RR!Init

(* Each step of the sub-server, the data server and the only client is a   *)
(* request, its answer, or nothing that the client can see.                *)
THEOREM OneClientRequestReply == OneClient => (Spec => RR!Init /\ [][RR!Next]_RR!rrvars)
<1> SUFFICES ASSUME OneClient PROVE Spec => RR!Init /\ [][RR!Next]_RR!rrvars
  OBVIOUS
<1>1. PICK c \in Clients : Alone(c)
  BY DEF OneClient, Alone
<1>2. Init => OneInv(c) /\ RR!Init
  BY <1>1, OneInit, InitMaps
<1>3. OneInv(c) /\ [Next]_vars => OneInv(c)' /\ [RR!Next]_RR!rrvars
  BY <1>1, OneNext, StepMaps
<1>. QED BY <1>2, <1>3, PTL DEF Spec
=============================================================================
