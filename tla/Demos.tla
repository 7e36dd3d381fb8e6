------------------------------- MODULE Demos -------------------------------
(***************************************************************************)
(* The demonstration programs: what their processes and threads do to the  *)
(* semaphores and files they share.  Module DemoPrograms writes down the   *)
(* body of each program as a sequence of steps; a scenario says which      *)
(* programs are run together.                                              *)
(*                                                                         *)
(* The data server model programs are processes that open semaphores by    *)
(* name.  The names outlive the processes, so a process that was stopped   *)
(* leaves behind what it held; a program that starts by unlinking the      *)
(* names begins a new generation of semaphores, and processes already      *)
(* running keep the old one.  Starting (unlink, open, getvalue) is one     *)
(* step, and so is what a reader does between two waits.                   *)
(***************************************************************************)
EXTENDS Integers, Sequences, FiniteSets

CONSTANTS
    Procs,       \* processes of the model programs, threads of the others
    Locks,       \* semaphores wrt..., and the System V semaphore of KEY
    Files,
    Programs,    \* per program: does it unlink the names when it starts, does
                 \*   it loop, and the bodies it may choose
    Scenarios,   \* which program each process runs
    MaxKills     \* bound: processes stopped from outside

On(o, x) == [op |-> o, on |-> x]
Just(o)  == [op |-> o]
Steps ==
    [op : {"arrive", "admit", "leave", "left", "wait", "post"}, on : Locks]
      \cup [op : {"read", "truncate", "flush"}, on : Files]
      \cup [op : {"count", "counted", "first", "open", "spin",
                  "uncount", "uncounted", "last", "close"}]

----------------------------------------------------------------------------
(* What the programs keep to *)

(* `begin' was done before step i of b, and `end' was not done since.      *)
Since(b, i, begin, end) ==
    \E j \in 1..(i - 1) : b[j] = begin /\ \A k \in (j + 1)..(i - 1) : b[k] # end

(* The writer locks a body holds when it is about to take step i, and      *)
(* those it has entered as a reader.                                       *)
Held(b, i)    == {l \in Locks : Since(b, i, On("wait", l), On("post", l))}
Entered(b, i) == {l \in Locks : Since(b, i, On("arrive", l), On("left", l))}

(* The two halves of an operation follow each other.                       *)
Paired(b, x, y) ==
    \A i \in 1..Len(b) : /\ b[i] = x => i < Len(b) /\ b[i + 1] = y
                         /\ b[i] = y => i > 1 /\ b[i - 1] = x

(* A body gives back the locks it took and no others.                      *)
LocksMatched(b) ==
    /\ \A l \in Locks :
         /\ Paired(b, On("arrive", l), On("admit", l))
         /\ Paired(b, On("leave", l), On("left", l))
         /\ \A i \in 1..Len(b) :
              /\ b[i] = On("post", l)   => l \in Held(b, i)
              /\ b[i] = On("arrive", l) => l \notin Entered(b, i)
              /\ b[i] = On("leave", l)  => l \in Entered(b, i)
    /\ Held(b, Len(b) + 1) = {} /\ Entered(b, Len(b) + 1) = {}

(* It reads file f under lock l, and rewrites it only under l as a writer, *)
(* from what it has read since it took l.                                  *)
Guards(l, f, b) ==
    \A i \in 1..Len(b) :
        /\ b[i] = On("read", f) => l \in Held(b, i) \cup Entered(b, i)
        /\ b[i] \in {On("truncate", f), On("flush", f)} => l \in Held(b, i)
        /\ b[i] = On("truncate", f) => Since(b, i, On("read", f), On("wait", l))

(* ReadWriteDemo's reader, were it alone: when it stands at step i of b it *)
(* is counted, and it has let readers in.                                  *)
IsCounted(b, i) == Since(b, i, Just("counted"), Just("uncounted"))
HasOpened(b, i) == Since(b, i, Just("open"), Just("close"))
CountsItself(b) ==
    /\ \A i \in 1..Len(b) :
         /\ b[i] = Just("counted")   => i > 1 /\ b[i - 1] = Just("count") /\ ~IsCounted(b, i)
         /\ b[i] = Just("uncounted") => i > 1 /\ b[i - 1] = Just("uncount") /\ IsCounted(b, i)
         /\ b[i] = Just("first") => IsCounted(b, i)
         /\ b[i] = Just("last")  => ~IsCounted(b, i)
         /\ b[i] = Just("spin")  => HasOpened(b, i)
    /\ ~IsCounted(b, Len(b) + 1) /\ ~HasOpened(b, Len(b) + 1)

Bodies == {<<>>} \cup UNION {Programs[n].bodies : n \in DOMAIN Programs}

ASSUME ProcsAssumption == IsFiniteSet(Procs)
ASSUME ScenariosAssumption == Scenarios \subseteq [Procs -> DOMAIN Programs]
ASSUME BodiesAssumption ==
    \A b \in Bodies : b \in Seq(Steps) /\ LocksMatched(b) /\ CountsItself(b)
ASSUME GuardsAssumption ==
    \A f \in Files : \E l \in Locks : \A b \in Bodies : Guards(l, f, b)

(* Of the processes started together one at most uses the plain variables. *)
(* ReadWriteDemo, which starts more readers, breaks this, so it is a       *)
(* premise of single results and not an assumption.                        *)
PlainSteps == {Just(o) : o \in {"count", "counted", "first", "open", "spin",
                                "uncount", "uncounted", "last", "close"}}
UsesPlain(n) ==
    \E b \in Programs[n].bodies : \E i \in 1..Len(b) : b[i] \in PlainSteps
OneReader ==
    \A s \in Scenarios, p, q \in Procs : UsesPlain(s[p]) /\ UsesPlain(s[q]) => p = q

----------------------------------------------------------------------------
VARIABLES
    prog,       \* per process: its program, fixed by the scenario
    state,      \* per process: "new", "running", "ended" or "killed"
    path,       \* per process: the body it runs
    pc,         \* per process: the step of the body it takes next
    mine,       \* per process: the generation of semaphores it opened
    wrt,        \* per generation: value of each semaphore wrt...
    mutex,      \* per generation: value of each counter's mutex
    counter,    \* per generation: value of each counting semaphore
    fresh,      \* per process: files it has read and nobody wrote since
    numReader,  \* ReadWriteDemo: the reader count, a plain int
    readOpen,   \* ReadWriteDemo: a plain bool
    seen        \* per thread: the numReader it loaded to change it

sems   == <<wrt, mutex, counter>>
plain  == <<numReader, readOpen, seen>>
vars   == <<prog, state, path, pc, mine, wrt, mutex, counter, fresh,
            numReader, readOpen, seen>>

Program(p) == Programs[prog[p]]
Running(p) == state[p] = "running"
Killed == {p \in Procs : state[p] = "killed"}
Stands(p, s) == pc[p] <= Len(path[p]) /\ path[p][pc[p]] = s
At(p, o, x) == Running(p) /\ Stands(p, On(o, x))

asWriter == [b \in Bodies |-> [i \in 1..(Len(b) + 1) |-> Held(b, i)]]
counting == [b \in Bodies |-> [i \in 1..(Len(b) + 1) |-> Entered(b, i)]]
Writing(p)  == asWriter[path[p]][pc[p]]
Counting(p) == counting[path[p]][pc[p]]

Init ==
    /\ prog \in Scenarios
    /\ state = [p \in Procs |-> "new"]
    /\ path = [p \in Procs |-> <<>>] /\ pc = [p \in Procs |-> 1]
    /\ mine = [p \in Procs |-> 0]
    /\ wrt = <<>> /\ mutex = <<>> /\ counter = <<>>
    /\ fresh = [p \in Procs |-> {}]
    /\ numReader = 0 /\ readOpen = FALSE /\ seen = [p \in Procs |-> 0]

NewGeneration ==
    /\ wrt' = Append(wrt, [l \in Locks |-> 1])
    /\ mutex' = Append(mutex, [l \in Locks |-> 1])
    /\ counter' = Append(counter, [l \in Locks |-> 0])

(* main up to its loop: unlink, sem_open with O_CREAT.  The body is chosen *)
(* here because com.valid and com.clientType may be left uninitialised.    *)
Start(p) ==
    /\ state[p] = "new"
    /\ \/ (Program(p).unlinks \/ wrt = <<>>) /\ NewGeneration
       \/ ~Program(p).unlinks /\ wrt # <<>> /\ UNCHANGED sems
    /\ state' = [state EXCEPT ![p] = "running"]
    /\ mine' = [mine EXCEPT ![p] = Len(wrt')]
    /\ \E b \in Program(p).bodies : path' = [path EXCEPT ![p] = b]
    /\ UNCHANGED <<prog, pc, fresh, plain>>

(* A model program is stopped from outside (it has no other end): what it  *)
(* did to the semaphores stays done.                                       *)
Kill(p) ==
    /\ Running(p) /\ Program(p).loops /\ Cardinality(Killed) < MaxKills
    /\ state' = [state EXCEPT ![p] = "killed"]
    /\ UNCHANGED <<prog, path, pc, mine, sems, fresh, plain>>

(* while(1): the model programs run the same body again.                   *)
Again(p) ==
    /\ Running(p) /\ Program(p).loops /\ path[p] # <<>> /\ pc[p] > Len(path[p])
    /\ pc' = [pc EXCEPT ![p] = 1]
    /\ fresh' = [fresh EXCEPT ![p] = {}]
    /\ UNCHANGED <<prog, state, path, mine, sems, plain>>

(* A thread's function returns; main joins it.                             *)
End(p) ==
    /\ Running(p) /\ ~Program(p).loops /\ pc[p] > Len(path[p])
    /\ state' = [state EXCEPT ![p] = "ended"]
    /\ UNCHANGED <<prog, path, pc, mine, sems, fresh, plain>>

Goto(p, i) == pc' = [pc EXCEPT ![p] = i] /\ UNCHANGED <<prog, state, path, mine>>
Advance(p) == Goto(p, pc[p] + 1)
Change(v, p, l, by) == v' = [v EXCEPT ![mine[p]][l] = @ + by]

(* Reader entry: sem_wait(mutex); sem_post(counter).                       *)
Arrive(p, l) ==
    /\ At(p, "arrive", l) /\ mutex[mine[p]][l] > 0
    /\ Change(mutex, p, l, -1) /\ Change(counter, p, l, 1)
    /\ Advance(p) /\ UNCHANGED <<wrt, fresh, plain>>

(* Variant: a reader does not look whether it is the first.                *)
AdmitUnlocked(p, l) ==
    /\ At(p, "admit", l)
    /\ Change(mutex, p, l, 1)
    /\ Advance(p) /\ UNCHANGED <<wrt, counter, fresh, plain>>

(* The first reader waits for wrt, with the mutex; sem_post(mutex).        *)
Admit(p, l) ==
    /\ At(p, "admit", l)
    /\ \/ counter[mine[p]][l] = 1 /\ wrt[mine[p]][l] > 0 /\ Change(wrt, p, l, -1)
       \/ counter[mine[p]][l] # 1 /\ UNCHANGED wrt
    /\ Change(mutex, p, l, 1)
    /\ Advance(p) /\ UNCHANGED <<counter, fresh, plain>>

(* Reader exit: sem_wait(mutex); sem_trywait(counter), which leaves a      *)
(* counter of 0 alone.                                                     *)
Leave(p, l) ==
    /\ At(p, "leave", l) /\ mutex[mine[p]][l] > 0
    /\ Change(mutex, p, l, -1)
    /\ IF counter[mine[p]][l] > 0 THEN Change(counter, p, l, -1) ELSE UNCHANGED counter
    /\ Advance(p) /\ UNCHANGED <<wrt, fresh, plain>>

(* Variants: wrt is posted when one reader is left, or never.              *)
LeftPosting(p, l, last) ==
    /\ At(p, "left", l)
    /\ IF last THEN Change(wrt, p, l, 1) ELSE UNCHANGED wrt
    /\ Change(mutex, p, l, 1)
    /\ Advance(p) /\ UNCHANGED <<counter, fresh, plain>>
LeftTooEarly(p, l) == LeftPosting(p, l, counter[mine[p]][l] <= 1)
LeftNever(p, l)    == LeftPosting(p, l, FALSE)

(* The last reader posts wrt; sem_post(mutex).                             *)
Left(p, l) ==
    /\ At(p, "left", l)
    /\ IF counter[mine[p]][l] = 0 THEN Change(wrt, p, l, 1) ELSE UNCHANGED wrt
    /\ Change(mutex, p, l, 1)
    /\ Advance(p) /\ UNCHANGED <<counter, fresh, plain>>

(* Variant: a writer does not wait.                                        *)
WaitUnguarded(p, l) ==
    /\ At(p, "wait", l)
    /\ Change(wrt, p, l, -1)
    /\ Advance(p) /\ UNCHANGED <<mutex, counter, fresh, plain>>

(* sem_wait(wrt...), or semop(id, &p, 1).                                  *)
Wait(p, l) ==
    /\ At(p, "wait", l) /\ wrt[mine[p]][l] > 0
    /\ Change(wrt, p, l, -1)
    /\ Advance(p) /\ UNCHANGED <<mutex, counter, fresh, plain>>

(* sem_post(wrt...), or semop(id, &v, 1).                                  *)
Post(p, l) ==
    /\ At(p, "post", l)
    /\ Change(wrt, p, l, 1)
    /\ Advance(p) /\ UNCHANGED <<mutex, counter, fresh, plain>>

Read(p, f) ==
    /\ At(p, "read", f)
    /\ fresh' = [fresh EXCEPT ![p] = @ \cup {f}]
    /\ Advance(p) /\ UNCHANGED <<sems, plain>>

(* fopen "w" empties the file ...                                          *)
Truncate(p, f) == At(p, "truncate", f) /\ Advance(p) /\ UNCHANGED <<sems, fresh, plain>>

(* ... and fclose writes the number.                                       *)
Flush(p, f) ==
    /\ At(p, "flush", f)
    /\ fresh' = [q \in Procs |-> IF q = p THEN fresh[q] ELSE fresh[q] \ {f}]
    /\ Advance(p) /\ UNCHANGED <<sems, plain>>

----------------------------------------------------------------------------
(* ReadWriteDemo: the reader's plain variables.  numReader++ and -- load   *)
(* and store; nothing keeps two threads from doing so together.            *)
AtStep(p, o) == Running(p) /\ Stands(p, Just(o))

LoadCount(p) ==
    /\ AtStep(p, "count") \/ AtStep(p, "uncount")
    /\ seen' = [seen EXCEPT ![p] = numReader]
    /\ Advance(p) /\ UNCHANGED <<sems, fresh, numReader, readOpen>>

StoreCount(p) ==
    /\ \/ AtStep(p, "counted") /\ numReader' = seen[p] + 1
       \/ AtStep(p, "uncounted") /\ numReader' = seen[p] - 1
    /\ Advance(p) /\ UNCHANGED <<sems, fresh, readOpen, seen>>

(* if (numReader == 1), if (numReader == 0): the two steps that follow are *)
(* taken or skipped.                                                       *)
Test(p) ==
    /\ \/ AtStep(p, "first") /\ Goto(p, IF numReader = 1 THEN pc[p] + 1 ELSE pc[p] + 3)
       \/ AtStep(p, "last") /\ Goto(p, IF numReader = 0 THEN pc[p] + 1 ELSE pc[p] + 3)
    /\ UNCHANGED <<sems, fresh, plain>>

SetOpen(p) ==
    /\ \/ AtStep(p, "open") /\ readOpen' = TRUE
       \/ AtStep(p, "close") /\ readOpen' = FALSE
    /\ Advance(p) /\ UNCHANGED <<sems, fresh, numReader, seen>>

(* while(!readOpen){}                                                      *)
SpinUntilOpen(p) ==
    AtStep(p, "spin") /\ readOpen /\ Advance(p) /\ UNCHANGED <<sems, fresh, plain>>

----------------------------------------------------------------------------
Step(p) ==
    \/ Again(p) \/ End(p)
    \/ LoadCount(p) \/ StoreCount(p) \/ Test(p) \/ SetOpen(p) \/ SpinUntilOpen(p)
    \/ \E l \in Locks : \/ Arrive(p, l) \/ Admit(p, l) \/ Leave(p, l) \/ Left(p, l)
                        \/ Wait(p, l) \/ Post(p, l)
    \/ \E f \in Files : Read(p, f) \/ Truncate(p, f) \/ Flush(p, f)

Next == \E p \in Procs : Start(p) \/ Kill(p) \/ Step(p)

Spec == Init /\ [][Next]_vars

----------------------------------------------------------------------------
Generations == 1..Len(wrt)
Of(g) == {p \in Procs : mine[p] = g}

(* dl_compOrder.c:82,89 call the semaphores binary: none is posted while   *)
(* it is free, by readers and writers in any order, stopped or not.        *)
TypeOK ==
    /\ \A p \in Procs : /\ state[p] \in {"new", "running", "ended", "killed"}
                        /\ path[p] \in Program(p).bodies \cup {<<>>}
                        /\ pc[p] \in 1..(Len(path[p]) + 1)
                        /\ mine[p] \in 0..Len(wrt)
                        /\ fresh[p] \subseteq Files
                        /\ seen[p] \in -1..Cardinality(Procs)
    /\ wrt \in Seq([Locks -> {0, 1}]) /\ mutex \in Seq([Locks -> {0, 1}])
    /\ counter \in Seq([Locks -> 0..Cardinality(Procs)])
    /\ Len(mutex) = Len(wrt) /\ Len(counter) = Len(wrt)
    /\ numReader \in Int /\ readOpen \in BOOLEAN

(* While one process has a file open for writing (or was stopped then),    *)
(* no other process of its generation reads it or starts to write it.      *)
WholeFiles ==
    \A p, q \in Procs, f \in Files :
        p # q /\ mine[p] = mine[q] /\ Stands(p, On("flush", f)) =>
            ~\E o \in {"read", "truncate", "flush"} : At(q, o, f)

(* The unlinking program is "the first process to begin demo"              *)
(* (dl_compOrder.c:63), or the only one: all have the same semaphores.     *)
OneGeneration == \A p, q \in Procs : mine[p] = mine[q] \/ 0 \in {mine[p], mine[q]}

(* Then no process writes a file from a copy that another has outdated.    *)
NoLostUpdate ==
    OneGeneration =>
        \A p \in Procs, f \in Files : At(p, "truncate", f) => f \in fresh[p]

Blocked(p) ==
    \/ \E l \in Locks :
         \/ (At(p, "arrive", l) \/ At(p, "leave", l)) /\ mutex[mine[p]][l] = 0
         \/ At(p, "admit", l) /\ counter[mine[p]][l] = 1 /\ wrt[mine[p]][l] = 0
         \/ At(p, "wait", l) /\ wrt[mine[p]][l] = 0
    \/ AtStep(p, "spin") /\ ~readOpen

(* When nobody is reading or writing, and nobody was stopped, every        *)
(* semaphore of the generation has the value it was created with.          *)
NothingLeaks ==
    \A g \in Generations :
        (\A p \in Of(g) : p \notin Killed /\ Writing(p) \cup Counting(p) = {}) =>
            \A l \in Locks : wrt[g][l] = 1 /\ mutex[g][l] = 1 /\ counter[g][l] = 0
=============================================================================
