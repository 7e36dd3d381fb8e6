----------------------------- MODULE SubServer -----------------------------
(***************************************************************************)
(* The sub-server (serverIPC.c) between its clients (client.c) and one     *)
(* connection to the data server.                                          *)
(*                                                                         *)
(* For each client it accepts, the parent forks a child and then a relay.  *)
(* The child reads a command from its client, puts it on the message       *)
(* queue, takes a reply from the pipe and writes it to the client.  The    *)
(* relay takes a command from the queue, writes it to the data server,     *)
(* reads a reply from there and writes it to the pipe.  All children and   *)
(* all relays share the queue, the pipe and the connection, and nothing    *)
(* says whose command a message or a reply belongs to.                     *)
(*                                                                         *)
(* A reply is represented by the command it answers.  One block of 10240   *)
(* bytes is one message; reads and writes of whole blocks do not split.    *)
(***************************************************************************)
EXTENDS Integers, Sequences, FiniteSets

CONSTANTS
    Clients,       \* client processes, each connecting once
    Kinds,         \* the kinds of commands the clients send
    QueueAtStart,  \* the values of queueExists to begin with
    MaxMessages,   \* MAX_MESSAGES of the queue
    MaxRequests,   \* bound: commands one client sends
    MaxConnected,  \* bound: clients connected at a time
    MaxExits,      \* bound: clients that end at a menu
    MaxKills       \* bound: kills and restarts of the sub-server

(* What the data server does with a command: most are answered once, a     *)
(* MOD_ORDER never, an edit of somebody else's product twice.  A long one  *)
(* does not fit MAX_MSG_SIZE.  An empty one is what a child reads from a   *)
(* client that has gone; no branch of executeTaskOnServer answers it.      *)
Replies(kind) == CASE kind = "answered" -> 1 [] kind = "twice" -> 2 [] OTHER -> 0

ASSUME KindsAssumption == Kinds \subseteq {"answered", "silent", "twice", "long"}
ASSUME BoundsAssumption ==
    /\ QueueAtStart \subseteq BOOLEAN
    /\ MaxMessages \in Nat \ {0}
    /\ MaxRequests \in Nat /\ MaxConnected \in Nat /\ MaxExits \in Nat /\ MaxKills \in Nat

None     == [kind |-> "none"]
NoClient == [pc |-> "accept"]
Commands == [client : Clients, number : Nat, kind : Kinds \cup {"empty"}]

VARIABLES
    accepted,     \* the client whose relay the parent has yet to fork
    client,       \* per client: not connected, at a menu, in clientReceive, ...
    asked,        \* per client: the number of its last command, or of its child's last
    got,          \* per client: the last reply it received
    toChild,      \* per client: its socket to the child
    child,        \* per client: what its child does next
    relay,        \* per client: what its relay does next
    held,         \* per client: the message its child is about to send
    carried,      \* per client: the message its relay carries
    queueExists,  \* the queue has been created
    queue,        \* it outlives the sub-server: nobody unlinks it
    dataIn,       \* commands on the connection to the data server
    dataOut,      \* replies on it
    pipe,         \* replies on the way to the children
    served,       \* commands the data server executed
    dataUp,       \* the data server is running
    kills         \* kills so far

processes == <<accepted, child, relay, held, carried>>
clients   == <<client, asked, got, toChild>>
channels  == <<queue, dataIn, dataOut, pipe>>
vars == <<processes, clients, channels, queueExists, served, dataUp, kills>>

Connected == {c \in Clients : client[c] \in {"menu", "waiting"}}
Left == {c \in Clients : client[c] \in {"gone", "reset"}}
Relays(pc) == {c \in Clients : relay[c] = pc}

Init ==
    /\ accepted = NoClient
    /\ client = [c \in Clients |-> "away"]
    /\ asked = [c \in Clients |-> 0]
    /\ got = [c \in Clients |-> None]
    /\ toChild = [c \in Clients |-> <<>>]
    /\ child = [c \in Clients |-> "none"]
    /\ relay = [c \in Clients |-> "none"]
    /\ held = [c \in Clients |-> None]
    /\ carried = [c \in Clients |-> None]
    /\ queueExists \in QueueAtStart
    /\ queue = <<>> /\ dataIn = <<>> /\ dataOut = <<>> /\ pipe = <<>>
    /\ served = {} /\ dataUp = TRUE /\ kills = 0

----------------------------------------------------------------------------
(* The client *)

Ask(c) ==
    /\ client[c] = "menu" /\ asked[c] < MaxRequests
    /\ \E k \in Kinds :
         toChild' = [toChild EXCEPT ![c] =
                       Append(@, [client |-> c, number |-> asked[c] + 1, kind |-> k])]
    /\ asked' = [asked EXCEPT ![c] = @ + 1]
    /\ client' = [client EXCEPT ![c] = "waiting"]
    /\ UNCHANGED <<processes, got, channels, queueExists, served, dataUp, kills>>

(* Exit Program, in any menu.                                              *)
Exit(c) ==
    /\ client[c] = "menu" /\ Cardinality(Left) < MaxExits
    /\ client' = [client EXCEPT ![c] = "gone"]
    /\ UNCHANGED <<processes, asked, got, toChild, channels, queueExists, served, dataUp, kills>>

----------------------------------------------------------------------------
(* The parent *)

Accept(c) ==
    /\ accepted = NoClient /\ client[c] = "away"
    /\ Cardinality(Connected) < MaxConnected
    /\ client' = [client EXCEPT ![c] = "menu"]
    /\ child' = [child EXCEPT ![c] = "open"]
    /\ accepted' = [pc |-> "fork", client |-> c]
    /\ UNCHANGED <<relay, held, carried, asked, got, toChild, channels,
                   queueExists, served, dataUp, kills>>

ForkRelay ==
    /\ accepted # NoClient
    /\ relay' = [relay EXCEPT ![accepted.client] = "open"]
    /\ accepted' = NoClient
    /\ UNCHANGED <<child, held, carried, clients, channels, queueExists, served, dataUp, kills>>

----------------------------------------------------------------------------
(* The child of client c *)

MoveChild(c, pc) ==
    /\ child' = [child EXCEPT ![c] = pc]
    /\ UNCHANGED <<accepted, relay, carried, dataIn, dataOut,
                   queueExists, served, dataUp, kills>>

(* mq_open(O_WRONLY): without the queue the child exits.  The parent keeps *)
(* the client's socket open, so the client does not notice.                *)
ChildOpens(c) ==
    /\ child[c] = "open"
    /\ MoveChild(c, IF queueExists THEN "read" ELSE "exited")
    /\ UNCHANGED <<held, client, asked, got, toChild, queue, pipe>>

(* readSocket2: a command, or nothing, each time, from a client that has   *)
(* gone; after a write to it, the read may fail.                           *)
ChildReads(c) ==
    /\ child[c] = "read"
    /\ \/ /\ toChild[c] # <<>>
          /\ held' = [held EXCEPT ![c] = Head(toChild[c])]
          /\ toChild' = [toChild EXCEPT ![c] = Tail(@)]
          /\ MoveChild(c, "send") /\ UNCHANGED asked
       \/ /\ toChild[c] = <<>> /\ c \in Left
          /\ asked' = [asked EXCEPT ![c] = @ + 1]
          /\ held' = [held EXCEPT ![c] = [client |-> c, number |-> asked[c] + 1, kind |-> "empty"]]
          /\ MoveChild(c, "send") /\ UNCHANGED toChild
       \/ /\ client[c] = "reset"
          /\ MoveChild(c, "exited") /\ UNCHANGED <<held, asked, toChild>>
    /\ UNCHANGED <<client, got, queue, pipe>>

(* Variants: the message stays with the child, which sends it again; the   *)
(* queue has no limit.                                                     *)
ChildSendsTwice(c) ==
    /\ child[c] = "send" /\ Len(queue) + 1 < MaxMessages
    /\ queue' = queue \o <<held[c], held[c]>>
    /\ held' = [held EXCEPT ![c] = None]
    /\ MoveChild(c, "await")
    /\ UNCHANGED <<client, asked, got, toChild, pipe>>
ChildSendsUnbounded(c) ==
    /\ child[c] = "send"
    /\ queue' = Append(queue, held[c])
    /\ held' = [held EXCEPT ![c] = None]
    /\ MoveChild(c, "await")
    /\ UNCHANGED <<client, asked, got, toChild, pipe>>

(* mq_send waits while the queue is full; when it fails, because the       *)
(* message is too long, the child goes on to wait for a reply all the same.*)
ChildSends(c) ==
    /\ child[c] = "send"
    /\ \/ held[c].kind = "long" /\ UNCHANGED queue
       \/ /\ held[c].kind # "long" /\ Len(queue) < MaxMessages
          /\ queue' = Append(queue, held[c])
    /\ held' = [held EXCEPT ![c] = None]
    /\ MoveChild(c, "await")
    /\ UNCHANGED <<client, asked, got, toChild, pipe>>

(* read from the pipe, writeSocket2, and the client's read returns.  When  *)
(* the client has gone the first write succeeds and the connection is      *)
(* reset; the second is ended by SIGPIPE.                                  *)
ChildAnswers(c) ==
    /\ child[c] = "await" /\ pipe # <<>>
    /\ pipe' = Tail(pipe)
    /\ \/ client[c] = "reset" /\ MoveChild(c, "exited") /\ UNCHANGED <<client, got>>
       \/ /\ client[c] = "gone"
          /\ MoveChild(c, "read") /\ client' = [client EXCEPT ![c] = "reset"] /\ UNCHANGED got
       \/ /\ c \notin Left
          /\ MoveChild(c, "read")
          /\ client' = [client EXCEPT ![c] = "menu"]
          /\ got' = [got EXCEPT ![c] = Head(pipe)]
    /\ UNCHANGED <<held, asked, toChild, queue>>

Child(c) == ChildOpens(c) \/ ChildReads(c) \/ ChildSends(c) \/ ChildAnswers(c)

----------------------------------------------------------------------------
(* The relay forked with client c *)

MoveRelay(c, pc, m) ==
    /\ relay' = [relay EXCEPT ![c] = pc]
    /\ carried' = [carried EXCEPT ![c] = m]
    /\ UNCHANGED <<accepted, child, held, clients, served, dataUp, kills>>

(* mq_open(O_RDONLY | O_CREAT).                                            *)
RelayOpens(c) ==
    /\ relay[c] = "open"
    /\ queueExists' = TRUE
    /\ MoveRelay(c, "receive", None)
    /\ UNCHANGED channels

(* Variants: the message is looked at and not removed; it is dropped.      *)
RelayPeeks(c) ==
    /\ relay[c] = "receive" /\ queue # <<>>
    /\ MoveRelay(c, "forward", Head(queue))
    /\ UNCHANGED <<channels, queueExists>>
RelayDrops(c) ==
    /\ relay[c] = "receive" /\ queue # <<>>
    /\ queue' = Tail(queue)
    /\ MoveRelay(c, IF Head(queue).number = MaxRequests THEN "receive" ELSE "forward", Head(queue))
    /\ UNCHANGED <<dataIn, dataOut, pipe, queueExists>>

RelayReceives(c) ==
    /\ relay[c] = "receive" /\ queue # <<>>
    /\ queue' = Tail(queue)
    /\ MoveRelay(c, "forward", Head(queue))
    /\ UNCHANGED <<dataIn, dataOut, pipe, queueExists>>

(* writeSocket2; without a data server SIGPIPE ends the relay.             *)
RelayForwards(c) ==
    /\ relay[c] = "forward"
    /\ \/ /\ dataUp /\ dataIn' = Append(dataIn, carried[c])
          /\ MoveRelay(c, "reply", None)
       \/ ~dataUp /\ MoveRelay(c, "exited", None) /\ UNCHANGED dataIn
    /\ UNCHANGED <<queue, dataOut, pipe, queueExists>>

RelayReads(c) ==
    /\ relay[c] = "reply" /\ dataOut # <<>>
    /\ dataOut' = Tail(dataOut)
    /\ MoveRelay(c, "pipe", Head(dataOut))
    /\ UNCHANGED <<queue, dataIn, pipe, queueExists>>

RelayPipes(c) ==
    /\ relay[c] = "pipe"
    /\ pipe' = Append(pipe, carried[c])
    /\ MoveRelay(c, "receive", None)
    /\ UNCHANGED <<queue, dataIn, dataOut, queueExists>>

Relay(c) == RelayOpens(c) \/ RelayReceives(c) \/ RelayForwards(c) \/ RelayReads(c) \/ RelayPipes(c)

----------------------------------------------------------------------------
(* The data server's thread for this connection executes a command.        *)
DataServer ==
    /\ dataUp /\ dataIn # <<>>
    /\ dataIn' = Tail(dataIn)
    /\ dataOut' = dataOut \o [i \in 1..Replies(Head(dataIn).kind) |-> Head(dataIn)]
    /\ served' = served \cup {Head(dataIn)}
    /\ UNCHANGED <<processes, clients, queue, pipe, queueExists, dataUp, kills>>

(* The sub-server is killed and started again.  Its sockets are closed and *)
(* its pipe is gone; the queue keeps its messages.  A data server that had *)
(* something to read from it or to write to it may find the connection     *)
(* reset and exit (readSocket), or read its end and go on; the commands it *)
(* had received may be executed.                                           *)
Kill ==
    /\ kills < MaxKills /\ kills' = kills + 1
    /\ accepted' = NoClient
    /\ client' = [c \in Clients |-> IF c \in Connected THEN "cut" ELSE client[c]]
    /\ child' = [c \in Clients |-> IF child[c] = "none" THEN "none" ELSE "exited"]
    /\ relay' = [c \in Clients |-> IF relay[c] = "none" THEN "none" ELSE "exited"]
    /\ held' = [c \in Clients |-> None]
    /\ carried' = [c \in Clients |-> None]
    /\ toChild' = [c \in Clients |-> <<>>]
    /\ dataIn' = <<>> /\ dataOut' = <<>> /\ pipe' = <<>>
    /\ dataUp' \in {dataUp, dataUp /\ dataIn = <<>> /\ dataOut = <<>>}
    /\ \E n \in 0..Len(dataIn) : served' = served \cup {dataIn[i] : i \in 1..n}
    /\ UNCHANGED <<asked, got, queueExists, queue>>

(* Every client has sent all it will send (an effect of the bound).        *)
Quiet ==
    /\ \A c \in Clients : client[c] = "menu" => asked[c] = MaxRequests
    /\ \A c \in Clients : client[c] # "waiting"
    /\ UNCHANGED vars

Next ==
    \/ ForkRelay \/ DataServer \/ Kill \/ Quiet
    \/ \E c \in Clients : Ask(c) \/ Exit(c) \/ Accept(c) \/ Child(c) \/ Relay(c)

Spec == Init /\ [][Next]_vars

(* Every process that can go on does so; people choose when to connect, to *)
(* send a command and to leave.                                            *)
FairSpec ==
    /\ Spec /\ WF_vars(ForkRelay) /\ WF_vars(DataServer)
    /\ \A c \in Clients : WF_vars(Child(c)) /\ WF_vars(Relay(c))

----------------------------------------------------------------------------
TypeOK ==
    /\ accepted \in {NoClient} \cup [pc : {"fork"}, client : Clients]
    /\ client \in [Clients -> {"away", "menu", "waiting", "gone", "reset", "cut"}]
    /\ asked \in [Clients -> Nat]
    /\ got \in [Clients -> Commands \cup {None}]
    /\ toChild \in [Clients -> Seq(Commands)]
    /\ child \in [Clients -> {"none", "open", "read", "send", "await", "exited"}]
    /\ relay \in [Clients -> {"none", "open", "receive", "forward", "reply", "pipe", "exited"}]
    /\ held \in [Clients -> Commands \cup {None}]
    /\ carried \in [Clients -> Commands \cup {None}]
    /\ queueExists \in BOOLEAN /\ dataUp \in BOOLEAN /\ kills \in 0..MaxKills
    /\ queue \in Seq(Commands) /\ Len(queue) <= MaxMessages
    /\ dataIn \in Seq(Commands) /\ dataOut \in Seq(Commands) /\ pipe \in Seq(Commands)
    /\ served \subseteq Commands

(* serverIPC.c:102-131 keeps no account of who waits for what; still, when *)
(* every command is answered once, each child waiting at the pipe has      *)
(* exactly one command or reply under way for it (its own or another's),   *)
(* and each relay waiting at the data server has one there.                *)
EveryWaitIsCovered ==
    /\ Cardinality({c \in Clients : child[c] = "await"})
         = Len(queue) + Cardinality(Relays("forward")) + Cardinality(Relays("reply"))
             + Cardinality(Relays("pipe")) + Len(pipe)
    /\ Cardinality(Relays("reply")) = Len(dataIn) + Len(dataOut)

InSeq(s) == {s[i] : i \in 1..Len(s)}

(* A command the data server has executed is on its way there no more, not *)
(* on the queue that survives a kill either: nothing is executed twice.    *)
ExecutedAtMostOnce ==
    served \cap (InSeq(queue) \cup InSeq(dataIn)
                  \cup (UNION {InSeq(toChild[c]) : c \in Clients})
                  \cup {held[c] : c \in Clients}
                  \cup {carried[c] : c \in Relays("forward")}) = {}

(* What clientReceive returns answers the command the client sent last.    *)
OwnReplies ==
    \A c \in Clients :
        client[c] = "menu" /\ asked[c] > 0 =>
            got[c].client = c /\ got[c].number = asked[c]

(* A client that waits for a reply gets one.                               *)
ClientsAnswered == \A c \in Clients : client[c] = "waiting" ~> client[c] # "waiting"

(* With one client at a time, and commands that are answered once, the     *)
(* sub-server is an RPC: every command is answered, by its own reply.      *)
RR == INSTANCE RequestReply WITH
        waiting <- [c \in Clients |-> client[c] = "waiting"],
        answer  <- [c \in Clients |-> IF got[c] = None THEN <<c, 0>>
                                      ELSE <<got[c].client, got[c].number>>]
ImplementsRequestReply == RR!Spec
=============================================================================
