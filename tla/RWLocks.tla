------------------------------ MODULE RWLocks ------------------------------
(***************************************************************************)
(* The locking protocol of the data server (Roden.c, dataServer.c).        *)
(*                                                                         *)
(* One thread serves one connection.  A command runs a handler; on the     *)
(* shared state a handler is a fixed sequence of steps (its branches are   *)
(* different sequences), and module DataServerHandlers writes that         *)
(* sequence down for every handler.  This module says what each kind of    *)
(* step does to the semaphores and counters that all the threads share.    *)
(*                                                                         *)
(* A reader's entry and exit are each cut in two where another thread can  *)
(* get in between: `sem_wait(mutex); counter++' and `test; maybe wait for  *)
(* wrt; sem_post(mutex)'.  The counter is touched only between that wait   *)
(* and that post, so a finer grain shows nothing more.  Rewriting a file   *)
(* is cut in two as well: fopen "w+" empties it, fclose leaves it whole.   *)
(***************************************************************************)
EXTENDS Integers, Sequences

CONSTANTS
    Threads,      \* one per connection of a sub-server
    Tables,       \* the flat files
    Rank,         \* the resource lock order of misc/databaseActions.txt
    Programs,     \* the step sequences of the handlers' branches
    MaxRequests   \* bound: commands one connection sends

----------------------------------------------------------------------------
(* Handlers as sequences of steps *)

TableOps == {"arrive", "admit", "leave", "left",  \* reader entry and exit
             "wait", "post",                      \* writer lock
             "load", "truncate", "flush"}         \* the file
Do(o, t) == [op |-> o, table |-> t]
Reply    == [op |-> "reply"]  \* writeSocket to the connection
Steps    == [op : TableOps, table : Tables] \cup {Reply}

(* `begin' was done before step i of p, and `end' was not done since.      *)
Since(p, i, begin, end) ==
    \E j \in 1..(i-1) : p[j] = begin /\ \A k \in (j+1)..(i-1) : p[k] # end

(* The tables whose writer lock a handler holds when it is about to take   *)
(* step i of p, and those it is then reading under the reader lock.        *)
Held(p, i)   == {t \in Tables : Since(p, i, Do("wait", t), Do("post", t))}
Inside(p, i) == {t \in Tables : Since(p, i, Do("admit", t), Do("leave", t))}

(* The two halves of an operation follow each other.                       *)
Paired(p, a, b) ==
    \A i \in 1..Len(p) : /\ p[i] = a => i < Len(p) /\ p[i+1] = b
                         /\ p[i] = b => i > 1 /\ p[i-1] = a

(* What the protocol relies on: a handler takes locks in rank order, gives *)
(* back the writer locks it took and no others, and rewrites a file only   *)
(* under its writer lock, from a copy it loaded since it took that lock.   *)
WellFormed(p) ==
    /\ p \in Seq(Steps) /\ p # <<>>
    /\ \A t \in Tables :
         /\ Paired(p, Do("arrive", t), Do("admit", t))
         /\ Paired(p, Do("leave", t), Do("left", t))
         /\ Paired(p, Do("truncate", t), Do("flush", t))
         /\ \A i \in 1..Len(p) :
              /\ p[i] \in {Do("wait", t), Do("arrive", t)} =>
                   \A u \in Held(p, i) \cup Inside(p, i) : Rank[u] < Rank[t]
              /\ p[i] = Do("post", t) => t \in Held(p, i)
              /\ p[i] = Do("truncate", t) =>
                   t \in Held(p, i) /\ Since(p, i, Do("load", t), Do("wait", t))
    /\ Held(p, Len(p) + 1) = {}

(* A reader leaves only what it entered, and leaves all of it.  The miss   *)
(* branch of validateID breaks this, so it is a premise of single results  *)
(* and not an assumption.                                                  *)
Matched(p) ==
    /\ \A t \in Tables, i \in 1..Len(p) :
         p[i] = Do("leave", t) => t \in Inside(p, i)
    /\ Inside(p, Len(p) + 1) = {}

ASSUME RankAssumption == Rank \in [Tables -> 1..5]
ASSUME ProgramsAssumption == \A p \in Programs : WellFormed(p)
ASSUME RequestsAssumption == MaxRequests \in Nat

----------------------------------------------------------------------------
VARIABLES
    wrt,      \* per table: value of the semaphore wrt<Table>
    mutex,    \* per table: value of the semaphore <Table>Mutex
    counter,  \* per table: the reader counter
    path,     \* per thread: the handler branch it runs, <<>> in readSocket
    pc,       \* per thread: the step of path it takes next
    fresh,    \* per thread: tables whose copy in its stack equals the file
    sent      \* per thread: commands received so far

locks == <<wrt, mutex, counter>>
vars  == <<wrt, mutex, counter, path, pc, fresh, sent>>

Idle(th) == path[th] = <<>>
AtStep(th, s) == pc[th] <= Len(path[th]) /\ path[th][pc[th]] = s
At(th, o, t) == AtStep(th, Do(o, t))
Writing(th) == Held(path[th], pc[th])
Reading(th) == Inside(path[th], pc[th])
Torn(t) == \E th \in Threads : At(th, "flush", t)

Init ==
    /\ wrt = [t \in Tables |-> 1]
    /\ mutex = [t \in Tables |-> 1]
    /\ counter = [t \in Tables |-> 0]
    /\ path = [th \in Threads |-> <<>>]
    /\ pc = [th \in Threads |-> 1]
    /\ fresh = [th \in Threads |-> {}]
    /\ sent = [th \in Threads |-> 0]

Advance(th) == pc' = [pc EXCEPT ![th] = @ + 1] /\ UNCHANGED <<path, sent>>

(* executeTaskOnServer: a command arrives and is dispatched to a handler.  *)
Receive(th) ==
    /\ Idle(th) /\ sent[th] < MaxRequests
    /\ \E p \in Programs : path' = [path EXCEPT ![th] = p]
    /\ sent' = [sent EXCEPT ![th] = @ + 1]
    /\ UNCHANGED <<locks, pc, fresh>>

(* Variant: the buffer is not cleared and the command is run again.        *)
ReturnRepeating(th) ==
    /\ ~Idle(th) /\ pc[th] > Len(path[th])
    /\ pc' = [pc EXCEPT ![th] = 1]
    /\ fresh' = [fresh EXCEPT ![th] = {}]
    /\ UNCHANGED <<locks, path, sent>>

(* The handler returns; threadTask goes round its loop.                    *)
Return(th) ==
    /\ ~Idle(th) /\ pc[th] > Len(path[th])
    /\ path' = [path EXCEPT ![th] = <<>>]
    /\ pc' = [pc EXCEPT ![th] = 1]
    /\ fresh' = [fresh EXCEPT ![th] = {}]
    /\ UNCHANGED <<locks, sent>>

(* Reader entry, first half: sem_wait(mutex); counter++.                   *)
Arrive(th, t) ==
    /\ At(th, "arrive", t) /\ mutex[t] > 0
    /\ mutex' = [mutex EXCEPT ![t] = @ - 1]
    /\ counter' = [counter EXCEPT ![t] = @ + 1]
    /\ Advance(th)
    /\ UNCHANGED <<wrt, fresh>>

(* Variant: the test for the first reader is one off.                      *)
AdmitSecondWaits(th, t) ==
    /\ At(th, "admit", t)
    /\ \/ counter[t] = 2 /\ wrt[t] > 0 /\ wrt' = [wrt EXCEPT ![t] = @ - 1]
       \/ counter[t] # 2 /\ UNCHANGED wrt
    /\ mutex' = [mutex EXCEPT ![t] = @ + 1]
    /\ Advance(th)
    /\ UNCHANGED <<counter, fresh>>

(* Reader entry, second half: the first reader waits for wrt while it      *)
(* holds the mutex; then sem_post(mutex).                                  *)
Admit(th, t) ==
    /\ At(th, "admit", t)
    /\ \/ counter[t] = 1 /\ wrt[t] > 0 /\ wrt' = [wrt EXCEPT ![t] = @ - 1]
       \/ counter[t] # 1 /\ UNCHANGED wrt
    /\ mutex' = [mutex EXCEPT ![t] = @ + 1]
    /\ Advance(th)
    /\ UNCHANGED <<counter, fresh>>

(* Reader exit, first half: sem_wait(mutex); counter--.                    *)
Leave(th, t) ==
    /\ At(th, "leave", t) /\ mutex[t] > 0
    /\ mutex' = [mutex EXCEPT ![t] = @ - 1]
    /\ counter' = [counter EXCEPT ![t] = @ - 1]
    /\ Advance(th)
    /\ UNCHANGED <<wrt, fresh>>

(* Variants: wrt is posted whenever no reader is counted; one reader too   *)
(* early; and without giving the mutex back.                               *)
LeftPosting(th, t, last, back) ==
    /\ At(th, "left", t)
    /\ wrt' = IF last THEN [wrt EXCEPT ![t] = @ + 1] ELSE wrt
    /\ mutex' = [mutex EXCEPT ![t] = @ + back]
    /\ Advance(th)
    /\ UNCHANGED <<counter, fresh>>
LeftWheneverNone(th, t)  == LeftPosting(th, t, counter[t] <= 0, 1)
LeftTooEarly(th, t)      == LeftPosting(th, t, counter[t] <= 1, 1)
LeftKeepingMutex(th, t)  == LeftPosting(th, t, counter[t] = 0, IF counter[t] = 0 THEN 0 ELSE 1)

(* Reader exit, second half: the last reader posts wrt; sem_post(mutex).   *)
Left(th, t) ==
    /\ At(th, "left", t)
    /\ wrt' = IF counter[t] = 0 THEN [wrt EXCEPT ![t] = @ + 1] ELSE wrt
    /\ mutex' = [mutex EXCEPT ![t] = @ + 1]
    /\ Advance(th)
    /\ UNCHANGED <<counter, fresh>>

(* Variant: the writer does not wait.                                      *)
WaitWriterUnguarded(th, t) ==
    /\ At(th, "wait", t)
    /\ wrt' = [wrt EXCEPT ![t] = @ - 1]
    /\ Advance(th)
    /\ UNCHANGED <<mutex, counter, fresh>>

WaitWriter(th, t) ==
    /\ At(th, "wait", t) /\ wrt[t] > 0
    /\ wrt' = [wrt EXCEPT ![t] = @ - 1]
    /\ Advance(th)
    /\ UNCHANGED <<mutex, counter, fresh>>

PostWriter(th, t) ==
    /\ At(th, "post", t)
    /\ wrt' = [wrt EXCEPT ![t] = @ + 1]
    /\ Advance(th)
    /\ UNCHANGED <<mutex, counter, fresh>>

(* A loader copies the file into the handler's array.                      *)
Load(th, t) ==
    /\ At(th, "load", t)
    /\ fresh' = [fresh EXCEPT ![th] = @ \cup {t}]
    /\ Advance(th)
    /\ UNCHANGED locks

(* writeBack...: fopen "w+" empties the file.                              *)
Truncate(th, t) == At(th, "truncate", t) /\ Advance(th) /\ UNCHANGED <<locks, fresh>>

(* writeBack...: the rows are written and the file is closed.  Every other *)
(* thread's copy of the table is out of date from here on.                 *)
Flush(th, t) ==
    /\ At(th, "flush", t)
    /\ fresh' = [o \in Threads |-> IF o = th THEN fresh[o] ELSE fresh[o] \ {t}]
    /\ Advance(th)
    /\ UNCHANGED locks

Answer(th) == AtStep(th, Reply) /\ Advance(th) /\ UNCHANGED <<locks, fresh>>

(* Every connection has sent all it will send (an effect of the bound).    *)
Quiet == (\A th \in Threads : Idle(th) /\ sent[th] = MaxRequests) /\ UNCHANGED vars

TableStep(th, t) ==
    \/ Arrive(th, t) \/ Admit(th, t) \/ Leave(th, t) \/ Left(th, t)
    \/ WaitWriter(th, t) \/ PostWriter(th, t)
    \/ Load(th, t) \/ Truncate(th, t) \/ Flush(th, t)

Run(th) == Return(th) \/ Answer(th) \/ \E t \in Tables : TableStep(th, t)

Next == Quiet \/ \E th \in Threads : Receive(th) \/ Run(th)

Spec == Init /\ [][Next]_vars

(* A thread that can go on does so.  sem_wait queues nobody, hence only    *)
(* weak fairness; whether a client sends a command is up to the client.    *)
FairSpec == Spec /\ \A th \in Threads : WF_vars(Run(th))

----------------------------------------------------------------------------
TypeOK ==
    /\ wrt \in [Tables -> Nat] /\ mutex \in [Tables -> Nat]
    /\ counter \in [Tables -> Int]
    /\ path \in [Threads -> Programs \cup {<<>>}]
    /\ \A th \in Threads : pc[th] \in 1..(Len(path[th]) + 1)
    /\ pc \in [Threads -> Nat]
    /\ fresh \in [Threads -> SUBSET Tables]
    /\ sent \in [Threads -> 0..MaxRequests]

(* dataServer.c:62,69 call all ten semaphores binary: no sequence of       *)
(* entries, exits and writes, not even unmatched exits, posts one that is  *)
(* already free.                                                           *)
BinarySemaphores == \A t \in Tables : wrt[t] <= 1 /\ mutex[t] <= 1

(* Two handlers never hold the writer lock of one table together.          *)
WritersExclude ==
    \A t \in Tables, a, b \in Threads :
        t \in Writing(a) /\ t \in Writing(b) => a = b

(* Nobody holds the writer lock of a table that somebody is reading under  *)
(* the reader lock.                                                        *)
ReadersExcludeWriters ==
    \A t \in Tables, a, b \in Threads : ~(t \in Reading(a) /\ t \in Writing(b))

(* A handler that rewrites a file writes back a copy nobody has outdated:  *)
(* no other handler's update is lost.                                      *)
NoLostUpdate ==
    \A th \in Threads, t \in Tables : At(th, "truncate", t) => t \in fresh[th]

(* No loader that runs under a lock of its table reads a file that a       *)
(* handler has emptied and not yet written.                                *)
LockedLoadsSeeWholeFiles ==
    \A th \in Threads, t \in Tables :
        At(th, "load", t) /\ t \in Reading(th) \cup Writing(th) => ~Torn(t)

(* The thread sits in a sem_wait on a semaphore that is 0.                 *)
Blocked(th) ==
    \E t \in Tables :
        \/ (At(th, "arrive", t) \/ At(th, "leave", t)) /\ mutex[t] = 0
        \/ At(th, "admit", t) /\ counter[t] = 1 /\ wrt[t] = 0
        \/ At(th, "wait", t) /\ wrt[t] = 0

(* While commands are being served, the thread of one of them can go on.   *)
SomeoneProceeds ==
    (\E th \in Threads : ~Idle(th)) => \E th \in Threads : ~Idle(th) /\ ~Blocked(th)

(* Every command is served to its end.                                     *)
CommandsFinish == \A th \in Threads : ~Idle(th) ~> Idle(th)

(* The locks keep their promise: the readers of a table are the threads    *)
(* between their entry and their exit, its writers those that hold wrt.    *)
RW == INSTANCE ReadersWriters WITH
        readers <- [t \in Tables |-> {th \in Threads : t \in Reading(th)}],
        writers <- [t \in Tables |-> {th \in Threads : t \in Writing(th)}]
ImplementsReadersWriters == RW!Spec
=============================================================================
