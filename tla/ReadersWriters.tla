--------------------------- MODULE ReadersWriters ---------------------------
(***************************************************************************)
(* What the locks promise the handlers: of every table, any number of      *)
(* readers or one writer at a time.  RWLocks implements it with two        *)
(* semaphores and a counter per table.                                     *)
(***************************************************************************)
CONSTANTS Threads, Tables
VARIABLES readers, writers   \* per table: the threads reading, writing it

rwvars == <<readers, writers>>

Init == /\ readers = [t \in Tables |-> {}]
        /\ writers = [t \in Tables |-> {}]

BeginRead(th, t) ==
    /\ writers[t] = {}
    /\ readers' = [readers EXCEPT ![t] = @ \cup {th}]
    /\ UNCHANGED writers

EndRead(th, t) ==
    /\ th \in readers[t]
    /\ readers' = [readers EXCEPT ![t] = @ \ {th}]
    /\ UNCHANGED writers

BeginWrite(th, t) ==
    /\ readers[t] = {} /\ writers[t] = {}
    /\ writers' = [writers EXCEPT ![t] = {th}]
    /\ UNCHANGED readers

EndWrite(th, t) ==
    /\ th \in writers[t]
    /\ writers' = [writers EXCEPT ![t] = {}]
    /\ UNCHANGED readers

Next == \E th \in Threads, t \in Tables :
          \/ BeginRead(th, t) \/ EndRead(th, t)
          \/ BeginWrite(th, t) \/ EndWrite(th, t)

Spec == Init /\ [][Next]_rwvars
=============================================================================
