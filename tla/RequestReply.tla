---------------------------- MODULE RequestReply ----------------------------
(***************************************************************************)
(* What client.c expects of the server it talks to: a command sent with    *)
(* clientSend is answered, and clientReceive returns the answer to it.     *)
(***************************************************************************)
EXTENDS Naturals

CONSTANTS Clients, MaxRequests
VARIABLES
    waiting,   \* per client: it has a command unanswered
    asked,     \* per client: the number of its last command
    answer     \* per client: whose and which command its last reply answers

rrvars == <<waiting, asked, answer>>

Init == /\ waiting = [c \in Clients |-> FALSE]
        /\ asked = [c \in Clients |-> 0]
        /\ answer = [c \in Clients |-> <<c, 0>>]

Ask(c) ==
    /\ ~waiting[c] /\ asked[c] < MaxRequests
    /\ waiting' = [waiting EXCEPT ![c] = TRUE]
    /\ asked' = [asked EXCEPT ![c] = @ + 1]
    /\ UNCHANGED answer

Answer(c) ==
    /\ waiting[c]
    /\ waiting' = [waiting EXCEPT ![c] = FALSE]
    /\ answer' = [answer EXCEPT ![c] = <<c, asked[c]>>]
    /\ UNCHANGED asked

Next == \E c \in Clients : Ask(c) \/ Answer(c)

Spec == Init /\ [][Next]_rrvars /\ \A c \in Clients : WF_rrvars(Answer(c))
=============================================================================
