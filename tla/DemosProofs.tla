---------------------------- MODULE DemosProofs ----------------------------
(***************************************************************************)
(* Theorems about Demos and DemoPrograms, for any processes, scenarios and *)
(* bodies that keep to the assumptions of the two modules, which TLC       *)
(* evaluates on the demonstration programs.                                *)
(*                                                                         *)
(* OneReader is needed: with more readers ReadWriteDemo loses counts, the  *)
(* steps a reader skips are not the ones it should, and the run fixed_demo *)
(* finds a reader at a file that is being rewritten.                       *)
(***************************************************************************)
EXTENDS DemoPrograms, TLAPS, FiniteSetTheorems, SequenceTheorems

----------------------------------------------------------------------------
(* The inductive invariant *)

Writes(p, l)  == l \in Held(path[p], pc[p])
Entering(p, l) == l \in Entered(path[p], pc[p])
InMutex(p, l) == Stands(p, On("admit", l)) \/ Stands(p, On("left", l))

(* An entered process reads once it is admitted; it is counted from its    *)
(* arrival until it leaves.                                                *)
Reads(p, l)   == Entering(p, l) /\ ~Stands(p, On("admit", l))
CountedBy(g, l) ==
    {p \in Of(g) : Entering(p, l) /\ ~Stands(p, On("left", l))}

MutexInv(g, l) ==
    /\ mutex[g][l] \in {0, 1}
    /\ mutex[g][l] = 1 <=> \A p \in Of(g) : ~InMutex(p, l)
    /\ \A p, q \in Of(g) : InMutex(p, l) /\ InMutex(q, l) => p = q

CountInv(g, l) == counter[g][l] = Cardinality(CountedBy(g, l))

WriterInv(g, l) ==
    /\ wrt[g][l] \in {0, 1}
    /\ wrt[g][l] = 1 <=> \A p \in Of(g) : ~Reads(p, l) /\ ~Writes(p, l)
    /\ \A p, q \in Of(g) : Writes(p, l) => ~Reads(q, l)
    /\ \A p, q \in Of(g) : Writes(p, l) /\ Writes(q, l) => p = q

LockInv(g, l) == MutexInv(g, l) /\ CountInv(g, l) /\ WriterInv(g, l)

(* Where the processes are.  A process is new until it has a generation,   *)
(* and one that has ended took its last step.                              *)
Places ==
    /\ prog \in Scenarios
    /\ state \in [Procs -> {"new", "running", "ended", "killed"}]
    /\ path \in [Procs -> Bodies] /\ pc \in [Procs -> Nat] /\ mine \in [Procs -> Nat]
    /\ \A p \in Procs :
         /\ path[p] \in Program(p).bodies \cup {<<>>}
         /\ pc[p] \in 1..(Len(path[p]) + 1)
         /\ mine[p] \in 0..Len(wrt)
         /\ mine[p] = 0 <=> state[p] = "new"
         /\ state[p] = "new" => path[p] = <<>> /\ pc[p] = 1
         /\ state[p] = "ended" => pc[p] = Len(path[p]) + 1

Semaphores ==
    /\ wrt \in Seq([Locks -> Int]) /\ mutex \in Seq([Locks -> Int])
    /\ counter \in Seq([Locks -> Int])
    /\ Len(mutex) = Len(wrt) /\ Len(counter) = Len(wrt)

(* The plain variables are those of the one reader.                        *)
PlainInv ==
    /\ numReader \in {0, 1} /\ readOpen \in BOOLEAN /\ seen \in [Procs -> {0, 1}]
    /\ \A p \in Procs : UsesPlain(prog[p]) =>
         /\ numReader = 1 <=> IsCounted(path[p], pc[p])
         /\ readOpen <=> HasOpened(path[p], pc[p])
         /\ Stands(p, Just("counted")) \/ Stands(p, Just("uncounted")) =>
              seen[p] = numReader

Shape == Places /\ Semaphores /\ fresh \in [Procs -> SUBSET Files] /\ PlainInv

IInv == Shape /\ \A g \in Generations, l \in Locks : LockInv(g, l)

(* While all have the same semaphores, what a process has read since it    *)
(* took the lock of a file is what the file holds.                         *)
CopyInv ==
    OneGeneration =>
        \A p \in Procs, f \in Files, l \in Locks :
            /\ \A b \in Bodies : Guards(l, f, b)
            /\ Writes(p, l)
            /\ Since(path[p], pc[p], On("read", f), On("wait", l))
            => f \in fresh[p]

----------------------------------------------------------------------------
(* What a body has done before its next step *)

(* Taking one more step begins, ends or leaves alone what Since records.   *)
LEMMA SinceStep ==
    ASSUME NEW b, NEW i \in Nat, i >= 1, NEW x, NEW y
    PROVE  Since(b, i + 1, x, y) <=> b[i] = x \/ (Since(b, i, x, y) /\ b[i] # y)
<1>1. ASSUME Since(b, i + 1, x, y), b[i] # x
      PROVE  Since(b, i, x, y) /\ b[i] # y
  <2>1. PICK j \in 1..((i + 1) - 1) : b[j] = x /\ \A k \in (j + 1)..((i + 1) - 1) : b[k] # y
    BY <1>1 DEF Since
  <2>2. /\ j \in 1..(i - 1) /\ i \in (j + 1)..((i + 1) - 1)
        /\ (j + 1)..(i - 1) \subseteq (j + 1)..((i + 1) - 1)
    BY <1>1, <2>1
  <2>. QED BY <2>1, <2>2 DEF Since
<1>2. ASSUME b[i] = x PROVE Since(b, i + 1, x, y)
  <2>1. i \in 1..((i + 1) - 1) /\ (i + 1)..((i + 1) - 1) = {}
    OBVIOUS
  <2>. QED BY <1>2, <2>1 DEF Since
<1>3. ASSUME Since(b, i, x, y), b[i] # y PROVE Since(b, i + 1, x, y)
  <2>1. PICK j \in 1..(i - 1) : b[j] = x /\ \A k \in (j + 1)..(i - 1) : b[k] # y
    BY <1>3 DEF Since
  <2>2. j \in 1..((i + 1) - 1) /\ \A k \in (j + 1)..((i + 1) - 1) : k \in (j + 1)..(i - 1) \/ k = i
    BY <2>1
  <2>. QED BY <1>3, <2>1, <2>2 DEF Since
<1>. QED BY <1>1, <1>2, <1>3

LEMMA HeldStep ==
    ASSUME NEW b, NEW i \in Nat, i >= 1, NEW l \in Locks
    PROVE  /\ l \in Held(b, i + 1) <=>
                b[i] = On("wait", l) \/ (l \in Held(b, i) /\ b[i] # On("post", l))
           /\ l \in Entered(b, i + 1) <=>
                b[i] = On("arrive", l) \/ (l \in Entered(b, i) /\ b[i] # On("left", l))
<1>1. Since(b, i + 1, On("wait", l), On("post", l)) <=>
        b[i] = On("wait", l)
          \/ (Since(b, i, On("wait", l), On("post", l)) /\ b[i] # On("post", l))
  BY SinceStep
<1>2. Since(b, i + 1, On("arrive", l), On("left", l)) <=>
        b[i] = On("arrive", l)
          \/ (Since(b, i, On("arrive", l), On("left", l)) /\ b[i] # On("left", l))
  BY SinceStep
<1>. QED BY <1>1, <1>2 DEF Held, Entered

LEMMA SinceFirst ==
    ASSUME NEW b
    PROVE  /\ \A x, y : ~Since(b, 1, x, y)
           /\ Held(b, 1) = {} /\ Entered(b, 1) = {}
BY DEF Held, Entered, Since

(* Steps are equal only when what they do and what they do it to are.      *)
LEMMA OnInjective ==
    ASSUME NEW o1, NEW o2, NEW x1, NEW x2, On(o1, x1) = On(o2, x2)
    PROVE  o1 = o2 /\ x1 = x2
BY DEF On

(* A process is about to take one step at most.                            *)
LEMMA OneStep ==
    ASSUME NEW p, NEW o1, NEW o2, NEW x1, NEW x2,
           Stands(p, On(o1, x1)), Stands(p, On(o2, x2))
    PROVE  o1 = o2 /\ x1 = x2
<1>1. On(o1, x1) = On(o2, x2)
  BY DEF Stands
<1>. QED BY <1>1, OnInjective

(* The second half of an operation is where its first half leads.          *)
LEMMA PairedNext ==
    ASSUME NEW b \in Seq(Steps), NEW x, NEW y, Paired(b, x, y), NEW i \in 1..Len(b)
    PROVE  (i + 1 <= Len(b) /\ b[i + 1] = y) <=> b[i] = x
<1>1. Len(b) \in Nat /\ (i + 1 <= Len(b) => i + 1 \in 1..Len(b)) /\ (i + 1) - 1 = i
  OBVIOUS
<1>. QED BY <1>1 DEF Paired

(* What is known of every process and its body.                            *)
LEMMA BodyFacts ==
    ASSUME Places, NEW p \in Procs
    PROVE  /\ path[p] \in Bodies /\ path[p] \in Seq(Steps)
           /\ LocksMatched(path[p]) /\ CountsItself(path[p])
           /\ Len(path[p]) \in Nat /\ pc[p] \in Nat /\ pc[p] >= 1
           /\ pc[p] <= Len(path[p]) + 1
           /\ pc[p] <= Len(path[p]) => pc[p] \in 1..Len(path[p])
           /\ Writing(p) = Held(path[p], pc[p])
           /\ Counting(p) = Entered(path[p], pc[p])
<1>1. path[p] \in Bodies /\ pc[p] \in 1..(Len(path[p]) + 1)
  BY DEF Places
<1>2. path[p] \in Seq(Steps) /\ LocksMatched(path[p]) /\ CountsItself(path[p])
  BY <1>1, BodiesAssumption
<1>3. Len(path[p]) \in Nat
  BY <1>2
<1>4. Writing(p) = Held(path[p], pc[p]) /\ Counting(p) = Entered(path[p], pc[p])
  BY <1>1 DEF Writing, Counting, asWriter, counting
<1>. QED BY <1>1, <1>2, <1>3, <1>4

(* Who stands at a step of the readers' entry or exit has entered or not.  *)
LEMMA ReaderFacts ==
    ASSUME Places, NEW p \in Procs, NEW l \in Locks
    PROVE  /\ Stands(p, On("arrive", l)) => ~Entering(p, l)
           /\ Stands(p, On("admit", l)) => Entering(p, l)
           /\ Stands(p, On("leave", l)) => Entering(p, l)
           /\ Stands(p, On("left", l)) => Entering(p, l)
           /\ Stands(p, On("post", l)) => Writes(p, l)
<1> DEFINE b == path[p]
           i == pc[p]
<1>1. b \in Seq(Steps) /\ LocksMatched(b) /\ i \in Nat /\ Len(b) \in Nat /\ i >= 1
  BY BodyFacts
<1>2. /\ Stands(p, On("arrive", l)) => ~Entering(p, l)
      /\ Stands(p, On("leave", l)) => Entering(p, l)
      /\ Stands(p, On("post", l)) => Writes(p, l)
  BY <1>1, BodyFacts DEF LocksMatched, Stands, Entering, Writes
<1>3. ASSUME NEW x, NEW y, Paired(b, x, y), Stands(p, y)
      PROVE  i - 1 \in 1..Len(b) /\ (i - 1) + 1 = i /\ b[i - 1] = x
  <2>1. i \in 1..Len(b) /\ b[i] = y
    BY <1>1, <1>3 DEF Stands
  <2>2. i > 1 /\ b[i - 1] = x
    BY <1>3, <2>1 DEF Paired
  <2>. QED BY <1>1, <2>1, <2>2
<1>4. ASSUME Stands(p, On("admit", l)) PROVE Entering(p, l)
  <2>1. Paired(b, On("arrive", l), On("admit", l))
    BY <1>1 DEF LocksMatched
  <2>2. i - 1 \in 1..Len(b) /\ (i - 1) + 1 = i /\ b[i - 1] = On("arrive", l)
    BY <1>3, <1>4, <2>1
  <2>3. i - 1 \in Nat /\ i - 1 >= 1
    BY <1>1, <2>2
  <2>4. l \in Entered(b, (i - 1) + 1)
    BY <2>2, <2>3, HeldStep
  <2>. QED BY <2>2, <2>4 DEF Entering
<1>5. ASSUME Stands(p, On("left", l)) PROVE Entering(p, l)
  <2>1. Paired(b, On("leave", l), On("left", l))
    BY <1>1 DEF LocksMatched
  <2>2. i - 1 \in 1..Len(b) /\ (i - 1) + 1 = i /\ b[i - 1] = On("leave", l)
    BY <1>3, <1>5, <2>1
  <2>3. i - 1 \in Nat /\ i - 1 >= 1 /\ l \in Entered(b, i - 1)
    BY <1>1, <2>2 DEF LocksMatched
  <2>4. On("leave", l) # On("left", l)
    BY OnInjective
  <2>5. l \in Entered(b, (i - 1) + 1)
    BY <2>2, <2>3, <2>4, HeldStep
  <2>. QED BY <2>2, <2>5 DEF Entering
<1>. QED BY <1>2, <1>4, <1>5

----------------------------------------------------------------------------
(* Where the processes are after one of them has taken a step *)

(* p takes the next step of its body and stays on it.                      *)
Moves(p) ==
    /\ Running(p) /\ pc[p] <= Len(path[p])
    /\ pc' = [pc EXCEPT ![p] = pc[p] + 1]
    /\ UNCHANGED <<prog, state, path, mine>>

LEMMA StepEffect ==
    ASSUME Places, NEW p \in Procs, Moves(p), NEW l \in Locks, NEW q \in Procs
    PROVE  /\ Stands(q, On("admit", l))' <=>
                IF q = p THEN Stands(p, On("arrive", l)) ELSE Stands(q, On("admit", l))
           /\ Stands(q, On("left", l))' <=>
                IF q = p THEN Stands(p, On("leave", l)) ELSE Stands(q, On("left", l))
           /\ Writes(q, l)' <=>
                IF q = p
                THEN Stands(p, On("wait", l)) \/ (Writes(p, l) /\ ~Stands(p, On("post", l)))
                ELSE Writes(q, l)
           /\ Entering(q, l)' <=>
                IF q = p
                THEN Stands(p, On("arrive", l)) \/ (Entering(p, l) /\ ~Stands(p, On("left", l)))
                ELSE Entering(q, l)
<1>1. CASE q # p
  <2>1. path'[q] = path[q] /\ pc'[q] = pc[q]
    BY <1>1 DEF Moves, Places
  <2>2. /\ Stands(q, On("admit", l))' <=> Stands(q, On("admit", l))
        /\ Stands(q, On("left", l))' <=> Stands(q, On("left", l))
    BY <2>1 DEF Stands
  <2>3. (Writes(q, l)' <=> Writes(q, l)) /\ (Entering(q, l)' <=> Entering(q, l))
    BY <2>1 DEF Writes, Entering, Held, Entered
  <2>. QED BY <1>1, <2>2, <2>3
<1>2. CASE q = p
  <2>1. PICK b : b = path[p]
    OBVIOUS
  <2>2. PICK i : i = pc[p]
    OBVIOUS
  <2>3. /\ b \in Seq(Steps) /\ LocksMatched(b) /\ i \in Nat /\ i >= 1 /\ Len(b) \in Nat
        /\ i \in 1..Len(b)
    BY <2>1, <2>2, BodyFacts DEF Moves
  <2>4. path'[p] = b /\ pc'[p] = i + 1
    BY <2>1, <2>2 DEF Moves, Places
  <2>5. Paired(b, On("arrive", l), On("admit", l)) /\ Paired(b, On("leave", l), On("left", l))
    BY <2>3 DEF LocksMatched
  <2>6. /\ (i + 1 <= Len(b) /\ b[i + 1] = On("admit", l)) <=> b[i] = On("arrive", l)
        /\ (i + 1 <= Len(b) /\ b[i + 1] = On("left", l)) <=> b[i] = On("leave", l)
    BY <2>3, <2>5, PairedNext
  <2>7. \A s : Stands(p, s) <=> b[i] = s
    BY <2>1, <2>2, <2>3 DEF Stands
  <2>8. /\ Stands(p, On("admit", l))' <=> Stands(p, On("arrive", l))
        /\ Stands(p, On("left", l))' <=> Stands(p, On("leave", l))
    BY <2>4, <2>6, <2>7 DEF Stands
  <2>9. /\ Writes(p, l) <=> l \in Held(b, i)
        /\ Entering(p, l) <=> l \in Entered(b, i)
    BY <2>1, <2>2 DEF Writes, Entering
  <2>10. /\ Writes(p, l)' <=> l \in Held(b, i + 1)
         /\ Entering(p, l)' <=> l \in Entered(b, i + 1)
    BY <2>4 DEF Writes, Entering, Held, Entered
  <2>. QED BY <1>2, <2>3, <2>7, <2>8, <2>9, <2>10, HeldStep
<1>. QED BY <1>1, <1>2

(* Before the first step of a body and after its last, nothing is held,    *)
(* nobody is in a mutex, and the reader is not counted.                    *)
LEMMA EndsOfBody ==
    ASSUME NEW b \in Bodies, NEW i, i = 1 \/ i = Len(b) + 1
    PROVE  /\ Held(b, i) = {} /\ Entered(b, i) = {}
           /\ ~IsCounted(b, i) /\ ~HasOpened(b, i)
           /\ \A s \in {Just("counted"), Just("uncounted")} : ~(i <= Len(b) /\ b[i] = s)
           /\ \A l \in Locks : /\ ~(i <= Len(b) /\ b[i] = On("admit", l))
                              /\ ~(i <= Len(b) /\ b[i] = On("left", l))
<1>1. b \in Seq(Steps) /\ LocksMatched(b) /\ CountsItself(b) /\ Len(b) \in Nat
  BY BodiesAssumption
<1>2. CASE i = 1
  <2>1. Held(b, i) = {} /\ Entered(b, i) = {} /\ ~IsCounted(b, i) /\ ~HasOpened(b, i)
    BY <1>2, SinceFirst DEF IsCounted, HasOpened
  <2>2. ASSUME i <= Len(b) PROVE i \in 1..Len(b) /\ ~(i > 1)
    BY <1>1, <1>2, <2>2
  <2>3. /\ ~(i <= Len(b) /\ b[i] = Just("counted"))
        /\ ~(i <= Len(b) /\ b[i] = Just("uncounted"))
    BY <1>1, <2>2 DEF CountsItself
  <2>4. ASSUME NEW l \in Locks
        PROVE  /\ ~(i <= Len(b) /\ b[i] = On("admit", l))
               /\ ~(i <= Len(b) /\ b[i] = On("left", l))
    BY <1>1, <2>2 DEF LocksMatched, Paired
  <2>. QED BY <2>1, <2>3, <2>4
<1>3. CASE i = Len(b) + 1
  BY <1>1, <1>3 DEF LocksMatched, CountsItself
<1>. QED BY <1>2, <1>3

AtRest(p) == \A l \in Locks : ~InMutex(p, l) /\ ~Writes(p, l) /\ ~Entering(p, l)
AtEnd(p)  == pc[p] = 1 \/ pc[p] = Len(path[p]) + 1

LEMMA RestAtEnds ==
    ASSUME NEW p \in Procs
    PROVE  /\ path[p] \in Bodies /\ AtEnd(p) => AtRest(p)
           /\ path'[p] \in Bodies /\ AtEnd(p)' => AtRest(p)'
BY EndsOfBody DEF AtRest, AtEnd, InMutex, Stands, Writes, Entering

(* A process that comes to rest where it was at rest, or that was new,     *)
(* leaves the locks of the others as they are.                             *)
LEMMA RestingStep ==
    ASSUME Places, NEW p \in Procs, AtRest(p)', AtRest(p),
           \A q \in Procs : q # p => mine'[q] = mine[q] /\ pc'[q] = pc[q] /\ path'[q] = path[q],
           NEW g \in Generations, NEW l \in Locks, LockInv(g, l),
           wrt'[g] = wrt[g], mutex'[g] = mutex[g], counter'[g] = counter[g],
           mine'[p] = mine[p] \/ mine[p] \notin Generations
    PROVE  LockInv(g, l)'
<1>1. /\ ~InMutex(p, l) /\ ~Writes(p, l) /\ ~Entering(p, l)
      /\ ~InMutex(p, l)' /\ ~Writes(p, l)' /\ ~Entering(p, l)'
  BY DEF AtRest
<1>2. \A q \in Procs :
        /\ InMutex(q, l)' <=> InMutex(q, l)
        /\ Writes(q, l)' <=> Writes(q, l)
        /\ Entering(q, l)' <=> Entering(q, l)
        /\ Entering(q, l) => /\ Stands(q, On("admit", l))' <=> Stands(q, On("admit", l))
                             /\ Stands(q, On("left", l))' <=> Stands(q, On("left", l))
  BY <1>1 DEF InMutex, Stands, Writes, Entering, Held, Entered
<1>3. \A q \in Procs : Reads(q, l)' <=> Reads(q, l)
  BY <1>2 DEF Reads
<1>4. \A q \in Procs : q # p => (q \in Of(g)' <=> q \in Of(g))
  BY DEF Of
<1>5. CountedBy(g, l)' = CountedBy(g, l)
  <2>1. CountedBy(g, l) \subseteq Procs /\ CountedBy(g, l)' \subseteq Procs
    BY DEF CountedBy, Of
  <2>2. \A q \in Procs : q \in CountedBy(g, l)' <=> q \in CountedBy(g, l)
    BY <1>1, <1>2, <1>4 DEF CountedBy
  <2>. QED BY <2>1, <2>2
<1>6. ~Reads(p, l) /\ ~Reads(p, l)'
  BY <1>1 DEF Reads
<1>7. Of(g) \subseteq Procs /\ Of(g)' \subseteq Procs
  BY DEF Of
<1>8. MutexInv(g, l)'
  BY <1>1, <1>2, <1>4, <1>7 DEF MutexInv, LockInv
<1>9. CountInv(g, l)'
  BY <1>5 DEF CountInv, LockInv
<1>10. WriterInv(g, l)'
  BY <1>1, <1>2, <1>3, <1>4, <1>6, <1>7 DEF WriterInv, LockInv
<1>. QED BY <1>8, <1>9, <1>10 DEF LockInv

(* A step that is no lock operation on l in g, and leaves the semaphores   *)
(* of l in g as they are, leaves the invariant of l in g as it is.         *)
LockOps == {"arrive", "admit", "leave", "left", "wait", "post"}
Operates(p, g, l) == mine[p] = g /\ \E o \in LockOps : Stands(p, On(o, l))

LEMMA Undisturbed ==
    ASSUME Places, NEW p \in Procs, Moves(p), NEW g \in Generations, NEW l \in Locks,
           ~Operates(p, g, l), LockInv(g, l),
           wrt'[g][l] = wrt[g][l], mutex'[g][l] = mutex[g][l], counter'[g][l] = counter[g][l]
    PROVE  LockInv(g, l)'
<1>1. Of(g)' = Of(g) /\ Of(g) \subseteq Procs
  BY DEF Of, Moves
<1>2. \A q \in Of(g) :
        /\ Stands(q, On("admit", l))' <=> Stands(q, On("admit", l))
        /\ Stands(q, On("left", l))' <=> Stands(q, On("left", l))
        /\ Writes(q, l)' <=> Writes(q, l)
        /\ Entering(q, l)' <=> Entering(q, l)
  <2> SUFFICES ASSUME NEW q \in Of(g)
               PROVE  /\ Stands(q, On("admit", l))' <=> Stands(q, On("admit", l))
                      /\ Stands(q, On("left", l))' <=> Stands(q, On("left", l))
                      /\ Writes(q, l)' <=> Writes(q, l)
                      /\ Entering(q, l)' <=> Entering(q, l)
    OBVIOUS
  <2>1. CASE q = p
    <3>1. \A o \in LockOps : ~Stands(p, On(o, l))
      BY <2>1 DEF Operates, Of
    <3>2. /\ ~Stands(p, On("arrive", l)) /\ ~Stands(p, On("admit", l))
          /\ ~Stands(p, On("leave", l)) /\ ~Stands(p, On("left", l))
          /\ ~Stands(p, On("wait", l)) /\ ~Stands(p, On("post", l))
      BY <3>1 DEF LockOps
    <3>. QED BY <2>1, <3>2, StepEffect
  <2>2. CASE q # p
    BY <1>1, <2>2, StepEffect
  <2>. QED BY <2>1, <2>2
<1>3. \A q \in Of(g) : /\ InMutex(q, l)' <=> InMutex(q, l)
                       /\ Reads(q, l)' <=> Reads(q, l)
  BY <1>2 DEF InMutex, Reads
<1>4. CountedBy(g, l)' = CountedBy(g, l)
  BY <1>1, <1>2 DEF CountedBy
<1>5. MutexInv(g, l)'
  BY <1>1, <1>3 DEF MutexInv, LockInv
<1>6. CountInv(g, l)'
  BY <1>4 DEF CountInv, LockInv
<1>7. WriterInv(g, l)'
  BY <1>1, <1>2, <1>3 DEF WriterInv, LockInv
<1>. QED BY <1>5, <1>6, <1>7 DEF LockInv

----------------------------------------------------------------------------
(* The lock operations *)

LEMMA ChangeFacts ==
    ASSUME NEW s \in Seq([Locks -> Int]), NEW g \in 1..Len(s), NEW l \in Locks, NEW k \in Int,
           NEW t, t = [s EXCEPT ![g][l] = @ + k]
    PROVE  /\ t \in Seq([Locks -> Int]) /\ Len(t) = Len(s)
           /\ t[g][l] = s[g][l] + k
           /\ \A h \in 1..Len(s), u \in Locks : h # g \/ u # l => t[h][u] = s[h][u]
<1>1. s[g] \in [Locks -> Int]
  OBVIOUS
<1>2. PICK f : f = [s[g] EXCEPT ![l] = @ + k]
  OBVIOUS
<1>3. f \in [Locks -> Int] /\ f[l] = s[g][l] + k /\ \A u \in Locks : u # l => f[u] = s[g][u]
  BY <1>1, <1>2
<1>4. t = [s EXCEPT ![g] = f]
  BY <1>2
<1>5. t \in Seq([Locks -> Int]) /\ Len(t) = Len(s)
  BY <1>3, <1>4, ExceptSeq
<1>6. t[g] = f /\ \A h \in 1..Len(s) : h # g => t[h] = s[h]
  BY <1>4
<1>. QED BY <1>3, <1>5, <1>6

(* At most the value of l in generation g has moved.                       *)
Changed(s, t, g, l) == t = s \/ \E k \in {-1, 1} : t = [s EXCEPT ![g][l] = @ + k]
SameElsewhere(s, t, g, l) ==
    \A h \in 1..Len(s), u \in Locks : h # g \/ u # l => t[h][u] = s[h][u]

LEMMA ChangedFacts ==
    ASSUME NEW s \in Seq([Locks -> Int]), NEW g \in 1..Len(s), NEW l \in Locks, NEW t,
           Changed(s, t, g, l)
    PROVE  t \in Seq([Locks -> Int]) /\ Len(t) = Len(s) /\ SameElsewhere(s, t, g, l)
<1>1. ASSUME NEW k \in {-1, 1}, t = [s EXCEPT ![g][l] = @ + k]
      PROVE  t \in Seq([Locks -> Int]) /\ Len(t) = Len(s) /\ SameElsewhere(s, t, g, l)
  BY <1>1, ChangeFacts DEF SameElsewhere
<1>. QED BY <1>1 DEF Changed, SameElsewhere

LockStep(p, l) ==
    Arrive(p, l) \/ Admit(p, l) \/ Leave(p, l) \/ Left(p, l) \/ Wait(p, l) \/ Post(p, l)

(* A process that runs has semaphores.                                     *)
LEMMA RunningHas ==
    ASSUME Shape, NEW p \in Procs, Running(p)
    PROVE  mine[p] \in Generations /\ mine[p] \in 1..Len(mutex) /\ mine[p] \in 1..Len(counter)
<1>1. mine[p] \in 0..Len(wrt) /\ mine[p] # 0 /\ Len(wrt) \in Nat
  BY DEF Shape, Places, Semaphores, Running
<1>. QED BY <1>1 DEF Shape, Semaphores, Generations

LEMMA LockStepFacts ==
    ASSUME Shape, NEW p \in Procs, NEW l \in Locks, LockStep(p, l)
    PROVE  /\ Moves(p) /\ Semaphores' /\ Generations' = Generations
           /\ fresh' = fresh /\ UNCHANGED plain
           /\ \A h \in Generations, u \in Locks : h # mine[p] \/ u # l =>
                /\ wrt'[h][u] = wrt[h][u] /\ mutex'[h][u] = mutex[h][u]
                /\ counter'[h][u] = counter[h][u]
<1>1. Moves(p) /\ fresh' = fresh /\ UNCHANGED plain
  BY DEF LockStep, Arrive, Admit, Leave, Left, Wait, Post, At, Stands, Moves, Advance, Goto
<1>2. PICK g : g = mine[p]
  OBVIOUS
<1>3. g \in 1..Len(wrt) /\ g \in 1..Len(mutex) /\ g \in 1..Len(counter)
  BY <1>1, <1>2, RunningHas DEF Generations, Moves
<1>4. /\ wrt \in Seq([Locks -> Int]) /\ mutex \in Seq([Locks -> Int])
      /\ counter \in Seq([Locks -> Int])
      /\ Len(mutex) = Len(wrt) /\ Len(counter) = Len(wrt)
  BY DEF Shape, Semaphores
<1>5. Changed(wrt, wrt', g, l) /\ Changed(mutex, mutex', g, l) /\ Changed(counter, counter', g, l)
  BY <1>2 DEF LockStep, Arrive, Admit, Leave, Left, Wait, Post, Change, Changed
<1>6. wrt' \in Seq([Locks -> Int]) /\ Len(wrt') = Len(wrt) /\ SameElsewhere(wrt, wrt', g, l)
  BY <1>3, <1>4, <1>5, ChangedFacts
<1>7. mutex' \in Seq([Locks -> Int]) /\ Len(mutex') = Len(mutex) /\ SameElsewhere(mutex, mutex', g, l)
  BY <1>3, <1>4, <1>5, ChangedFacts
<1>8. counter' \in Seq([Locks -> Int]) /\ Len(counter') = Len(counter) /\ SameElsewhere(counter, counter', g, l)
  BY <1>3, <1>4, <1>5, ChangedFacts
<1>9. /\ Semaphores' /\ Generations' = Generations
  BY <1>4, <1>6, <1>7, <1>8 DEF Semaphores, Generations
<1>10. \A h \in Generations, u \in Locks : h # g \/ u # l =>
         /\ wrt'[h][u] = wrt[h][u] /\ mutex'[h][u] = mutex[h][u]
         /\ counter'[h][u] = counter[h][u]
  BY <1>4, <1>6, <1>7, <1>8 DEF SameElsewhere, Generations
<1>. QED BY <1>1, <1>2, <1>9, <1>10

(* The values at p's own semaphores of l after a change by k.              *)
LEMMA ChangeWrt ==
    ASSUME Shape, NEW p \in Procs, NEW l \in Locks, Running(p), NEW k \in Int, Change(wrt, p, l, k)
    PROVE  wrt'[mine[p]][l] = wrt[mine[p]][l] + k
<1>1. wrt \in Seq([Locks -> Int]) /\ mine[p] \in 1..Len(wrt)
  BY RunningHas DEF Shape, Semaphores, Generations
<1>2. wrt' = [wrt EXCEPT ![mine[p]][l] = @ + k]
  BY DEF Change
<1>. QED BY <1>1, <1>2, ChangeFacts

LEMMA ChangeMutex ==
    ASSUME Shape, NEW p \in Procs, NEW l \in Locks, Running(p), NEW k \in Int, Change(mutex, p, l, k)
    PROVE  mutex'[mine[p]][l] = mutex[mine[p]][l] + k
<1>1. mutex \in Seq([Locks -> Int]) /\ mine[p] \in 1..Len(mutex)
  BY RunningHas DEF Shape, Semaphores, Generations
<1>2. mutex' = [mutex EXCEPT ![mine[p]][l] = @ + k]
  BY DEF Change
<1>. QED BY <1>1, <1>2, ChangeFacts

LEMMA ChangeCounter ==
    ASSUME Shape, NEW p \in Procs, NEW l \in Locks, Running(p), NEW k \in Int, Change(counter, p, l, k)
    PROVE  counter'[mine[p]][l] = counter[mine[p]][l] + k
<1>1. counter \in Seq([Locks -> Int]) /\ mine[p] \in 1..Len(counter)
  BY RunningHas DEF Shape, Semaphores, Generations
<1>2. counter' = [counter EXCEPT ![mine[p]][l] = @ + k]
  BY DEF Change
<1>. QED BY <1>1, <1>2, ChangeFacts

(* Where the processes of p's generation are, seen from l.                 *)
LEMMA OfGeneration ==
    ASSUME Places, NEW p \in Procs, Moves(p), NEW l \in Locks, NEW g, g = mine[p]
    PROVE  /\ Of(g)' = Of(g) /\ Of(g) \subseteq Procs /\ p \in Of(g)
           /\ IsFiniteSet(Of(g))
           /\ IsFiniteSet(CountedBy(g, l)) /\ Cardinality(CountedBy(g, l)) \in Nat
<1>1. Of(g)' = Of(g) /\ Of(g) \subseteq Procs /\ p \in Of(g)
  BY DEF Of, Moves
<1>2. CountedBy(g, l) \subseteq Procs
  BY <1>1 DEF CountedBy
<1>. QED BY <1>1, <1>2, ProcsAssumption, FS_Subset, FS_CardinalityType

LEMMA ArriveInv ==
    ASSUME IInv, NEW p \in Procs, NEW l \in Locks, Arrive(p, l)
    PROVE  LockInv(mine[p], l)'
<1>1. PICK g : g = mine[p]
  OBVIOUS
<1>2. Shape /\ Places /\ Moves(p) /\ Running(p) /\ Stands(p, On("arrive", l))
  BY LockStepFacts DEF IInv, Shape, LockStep, Arrive, At
<1>3. LockInv(g, l) /\ mine'[p] = g
  BY <1>1, <1>2, RunningHas DEF IInv, Moves
<1>4. /\ mutex[g][l] = 1 /\ mutex'[g][l] = 0 /\ counter'[g][l] = counter[g][l] + 1
      /\ wrt'[g][l] = wrt[g][l]
  <2>1. mutex[g][l] = 1
    BY <1>1, <1>3 DEF Arrive, LockInv, MutexInv
  <2>. QED BY <1>1, <1>2, <2>1, ChangeMutex, ChangeCounter DEF Arrive
<1>5. /\ ~Stands(p, On("admit", l)) /\ ~Stands(p, On("left", l)) /\ ~Stands(p, On("leave", l))
      /\ ~Stands(p, On("wait", l)) /\ ~Stands(p, On("post", l)) /\ ~Entering(p, l)
  BY <1>2, OneStep, ReaderFacts
<1>6. \A q \in Of(g) : ~InMutex(q, l)
  BY <1>3, <1>4 DEF LockInv, MutexInv
<1>7. Of(g)' = Of(g) /\ Of(g) \subseteq Procs /\ p \in Of(g) /\ IsFiniteSet(CountedBy(g, l))
  BY <1>1, <1>2, OfGeneration
<1>8. \A q \in Of(g) :
        /\ Stands(q, On("admit", l))' <=> q = p
        /\ ~Stands(q, On("left", l))'
        /\ Writes(q, l)' <=> Writes(q, l)
        /\ Entering(q, l)' <=> q = p \/ Entering(q, l)
  BY <1>2, <1>5, <1>6, <1>7, StepEffect DEF InMutex
<1>9. \A q \in Of(g) : Reads(q, l)' <=> Reads(q, l)
  BY <1>5, <1>6, <1>8 DEF Reads, InMutex
<1>10. MutexInv(g, l)'
  BY <1>4, <1>7, <1>8 DEF MutexInv, InMutex
<1>11. CountInv(g, l)'
  <2>1. p \notin CountedBy(g, l) /\ CountedBy(g, l)' = CountedBy(g, l) \cup {p}
    BY <1>5, <1>6, <1>7, <1>8 DEF CountedBy, InMutex
  <2>. QED BY <1>3, <1>4, <1>7, <2>1, FS_AddElement DEF LockInv, CountInv
<1>12. WriterInv(g, l)'
  BY <1>3, <1>4, <1>7, <1>8, <1>9 DEF LockInv, WriterInv
<1>13. LockInv(g, l)'
  BY <1>10, <1>11, <1>12 DEF LockInv
<1>. QED BY <1>1, <1>3, <1>13 DEF LockInv

LEMMA AdmitInv ==
    ASSUME IInv, NEW p \in Procs, NEW l \in Locks, Admit(p, l)
    PROVE  LockInv(mine[p], l)'
<1>1. PICK g : g = mine[p]
  OBVIOUS
<1>2. Shape /\ Places /\ Moves(p) /\ Running(p) /\ Stands(p, On("admit", l))
  BY LockStepFacts DEF IInv, Shape, LockStep, Admit, At
<1>3. LockInv(g, l) /\ mine'[p] = g
  BY <1>1, <1>2, RunningHas DEF IInv, Moves
<1>4. /\ Of(g)' = Of(g) /\ Of(g) \subseteq Procs /\ p \in Of(g) /\ IsFiniteSet(CountedBy(g, l))
      /\ Cardinality(CountedBy(g, l)) \in Nat
  BY <1>1, <1>2, OfGeneration
<1>5. /\ ~Stands(p, On("arrive", l)) /\ ~Stands(p, On("left", l)) /\ ~Stands(p, On("leave", l))
      /\ ~Stands(p, On("wait", l)) /\ ~Stands(p, On("post", l)) /\ Entering(p, l)
  BY <1>2, OneStep, ReaderFacts
<1>6. \A q \in Of(g) : InMutex(q, l) => q = p
  BY <1>2, <1>3, <1>4 DEF LockInv, MutexInv, InMutex
<1>7. mutex[g][l] = 0 /\ mutex'[g][l] = 1 /\ counter'[g][l] = counter[g][l]
  <2>1. mutex[g][l] = 0
    BY <1>2, <1>3, <1>4 DEF LockInv, MutexInv, InMutex
  <2>. QED BY <1>1, <1>2, <2>1, ChangeMutex DEF Admit
<1>8. \A q \in Of(g) :
        /\ ~Stands(q, On("admit", l))' /\ ~Stands(q, On("left", l))'
        /\ Writes(q, l)' <=> Writes(q, l)
        /\ Entering(q, l)' <=> Entering(q, l)
  BY <1>2, <1>4, <1>5, <1>6, StepEffect DEF InMutex
<1>9. \A q \in Of(g) : Reads(q, l)' <=> q = p \/ Reads(q, l)
  BY <1>5, <1>6, <1>8 DEF Reads, InMutex
<1>10. MutexInv(g, l)'
  BY <1>4, <1>7, <1>8 DEF MutexInv, InMutex
<1>11. p \in CountedBy(g, l) /\ CountedBy(g, l)' = CountedBy(g, l)
  BY <1>4, <1>5, <1>6, <1>8 DEF CountedBy, InMutex
<1>12. CountInv(g, l)'
  BY <1>3, <1>7, <1>11 DEF LockInv, CountInv
<1>13. counter[g][l] = Cardinality(CountedBy(g, l))
  BY <1>3 DEF LockInv, CountInv
<1>14. IsFiniteSet(CountedBy(g, l) \ {p}) /\ Cardinality(CountedBy(g, l) \ {p}) = counter[g][l] - 1
  BY <1>4, <1>11, <1>13, FS_RemoveElement
(* Whoever reads is counted, as only p is in the mutex.                    *)
<1>15. \A q \in Of(g) : Reads(q, l) <=> q \in CountedBy(g, l) \ {p}
  BY <1>2, <1>4, <1>5, <1>6 DEF Reads, CountedBy, InMutex
<1>16. WriterInv(g, l)'
  <2>1. CASE counter[g][l] = 1
    <3>1. \A q \in Of(g) : ~Reads(q, l)
      BY <1>14, <1>15, <2>1, FS_EmptySet
    <3>2. wrt[g][l] = 1 /\ wrt'[g][l] = 0
      BY <1>1, <1>2, <1>3, <2>1, ChangeWrt DEF Admit, LockInv, WriterInv
    <3>3. \A q \in Of(g) : ~Writes(q, l)
      BY <1>3, <3>2 DEF LockInv, WriterInv
    <3>. QED BY <1>4, <1>8, <1>9, <3>1, <3>2, <3>3 DEF WriterInv
  <2>2. CASE counter[g][l] # 1
    <3>1. CountedBy(g, l) \ {p} # {}
      BY <1>4, <1>13, <1>14, <2>2, FS_EmptySet
    <3>2. PICK q \in Of(g) : Reads(q, l)
      BY <1>15, <3>1 DEF CountedBy
    <3>3. wrt'[g][l] = wrt[g][l]
      BY <1>1, <2>2 DEF Admit
    <3>4. wrt[g][l] = 0 /\ \A r \in Of(g) : ~Writes(r, l)
      BY <1>3, <3>2 DEF LockInv, WriterInv
    <3>. QED BY <1>4, <1>8, <1>9, <3>2, <3>3, <3>4 DEF WriterInv
  <2>. QED BY <2>1, <2>2
<1>17. LockInv(g, l)'
  BY <1>10, <1>12, <1>16 DEF LockInv
<1>. QED BY <1>1, <1>3, <1>17 DEF LockInv

LEMMA LeaveInv ==
    ASSUME IInv, NEW p \in Procs, NEW l \in Locks, Leave(p, l)
    PROVE  LockInv(mine[p], l)'
<1>1. PICK g : g = mine[p]
  OBVIOUS
<1>2. Shape /\ Places /\ Moves(p) /\ Running(p) /\ Stands(p, On("leave", l))
  BY LockStepFacts DEF IInv, Shape, LockStep, Leave, At
<1>3. LockInv(g, l) /\ mine'[p] = g
  BY <1>1, <1>2, RunningHas DEF IInv, Moves
<1>4. /\ Of(g)' = Of(g) /\ Of(g) \subseteq Procs /\ p \in Of(g) /\ IsFiniteSet(CountedBy(g, l))
      /\ Cardinality(CountedBy(g, l)) \in Nat
  BY <1>1, <1>2, OfGeneration
<1>5. /\ ~Stands(p, On("arrive", l)) /\ ~Stands(p, On("left", l)) /\ ~Stands(p, On("admit", l))
      /\ ~Stands(p, On("wait", l)) /\ ~Stands(p, On("post", l)) /\ Entering(p, l)
  BY <1>2, OneStep, ReaderFacts
<1>6. p \in CountedBy(g, l) /\ counter[g][l] = Cardinality(CountedBy(g, l))
  BY <1>3, <1>4, <1>5 DEF CountedBy, LockInv, CountInv
<1>7. IsFiniteSet(CountedBy(g, l) \ {p}) /\ Cardinality(CountedBy(g, l) \ {p}) = counter[g][l] - 1
  BY <1>4, <1>6, FS_RemoveElement
<1>8. counter[g][l] > 0
  BY <1>4, <1>6, <1>7, FS_CardinalityType
<1>9. /\ mutex[g][l] = 1 /\ mutex'[g][l] = 0 /\ counter'[g][l] = counter[g][l] - 1
      /\ wrt'[g][l] = wrt[g][l]
  <2>1. mutex[g][l] = 1
    BY <1>1, <1>3 DEF Leave, LockInv, MutexInv
  <2>2. Change(mutex, p, l, -1) /\ Change(counter, p, l, -1) /\ wrt' = wrt
    BY <1>1, <1>8 DEF Leave
  <2>. QED BY <1>1, <1>2, <1>4, <1>6, <2>1, <2>2, ChangeMutex, ChangeCounter
<1>10. \A q \in Of(g) : ~InMutex(q, l)
  BY <1>3, <1>9 DEF LockInv, MutexInv
<1>11. \A q \in Of(g) :
        /\ ~Stands(q, On("admit", l))'
        /\ Stands(q, On("left", l))' <=> q = p
        /\ Writes(q, l)' <=> Writes(q, l)
        /\ Entering(q, l)' <=> Entering(q, l)
  BY <1>2, <1>4, <1>5, <1>10, StepEffect DEF InMutex
<1>12. \A q \in Of(g) : Reads(q, l)' <=> Reads(q, l)
  BY <1>10, <1>11 DEF Reads, InMutex
<1>13. MutexInv(g, l)'
  BY <1>4, <1>9, <1>11 DEF MutexInv, InMutex
<1>14. CountInv(g, l)'
  <2>1. CountedBy(g, l)' = CountedBy(g, l) \ {p}
    BY <1>4, <1>10, <1>11 DEF CountedBy, InMutex
  <2>. QED BY <1>7, <1>9, <2>1 DEF CountInv
<1>15. WriterInv(g, l)'
  BY <1>3, <1>4, <1>9, <1>11, <1>12 DEF LockInv, WriterInv
<1>16. LockInv(g, l)'
  BY <1>13, <1>14, <1>15 DEF LockInv
<1>. QED BY <1>1, <1>3, <1>16 DEF LockInv

LEMMA LeftInv ==
    ASSUME IInv, NEW p \in Procs, NEW l \in Locks, Left(p, l)
    PROVE  LockInv(mine[p], l)'
<1>1. PICK g : g = mine[p]
  OBVIOUS
<1>2. Shape /\ Places /\ Moves(p) /\ Running(p) /\ Stands(p, On("left", l))
  BY LockStepFacts DEF IInv, Shape, LockStep, Left, At
<1>3. LockInv(g, l) /\ mine'[p] = g
  BY <1>1, <1>2, RunningHas DEF IInv, Moves
<1>4. /\ Of(g)' = Of(g) /\ Of(g) \subseteq Procs /\ p \in Of(g) /\ IsFiniteSet(CountedBy(g, l))
      /\ Cardinality(CountedBy(g, l)) \in Nat
  BY <1>1, <1>2, OfGeneration
<1>5. /\ ~Stands(p, On("arrive", l)) /\ ~Stands(p, On("leave", l)) /\ ~Stands(p, On("admit", l))
      /\ ~Stands(p, On("wait", l)) /\ ~Stands(p, On("post", l)) /\ Entering(p, l)
  BY <1>2, OneStep, ReaderFacts
<1>6. \A q \in Of(g) : InMutex(q, l) => q = p
  BY <1>2, <1>3, <1>4 DEF LockInv, MutexInv, InMutex
<1>7. mutex[g][l] = 0 /\ mutex'[g][l] = 1 /\ counter'[g][l] = counter[g][l]
  <2>1. mutex[g][l] = 0
    BY <1>2, <1>3, <1>4 DEF LockInv, MutexInv, InMutex
  <2>. QED BY <1>1, <1>2, <2>1, ChangeMutex DEF Left
<1>8. \A q \in Of(g) :
        /\ ~Stands(q, On("admit", l))' /\ ~Stands(q, On("left", l))'
        /\ Writes(q, l)' <=> Writes(q, l)
        /\ Entering(q, l)' <=> q # p /\ Entering(q, l)
  BY <1>2, <1>4, <1>5, <1>6, StepEffect DEF InMutex
<1>9. \A q \in Of(g) : Reads(q, l)' <=> q # p /\ Reads(q, l)
  BY <1>6, <1>8 DEF Reads, InMutex
<1>10. MutexInv(g, l)'
  BY <1>4, <1>7, <1>8 DEF MutexInv, InMutex
<1>11. CountedBy(g, l)' = CountedBy(g, l)
  BY <1>2, <1>4, <1>6, <1>8 DEF CountedBy, InMutex
<1>12. CountInv(g, l)'
  BY <1>3, <1>7, <1>11 DEF LockInv, CountInv
<1>13. counter[g][l] = Cardinality(CountedBy(g, l))
  BY <1>3 DEF LockInv, CountInv
(* Whoever else reads is counted, and p reads until it is out.             *)
<1>14. Reads(p, l) /\ \A q \in Of(g) : q # p => (Reads(q, l) <=> q \in CountedBy(g, l))
  BY <1>4, <1>5, <1>6 DEF Reads, CountedBy, InMutex
<1>15. p \notin CountedBy(g, l) /\ CountedBy(g, l) \subseteq Of(g)
  BY <1>2 DEF CountedBy
<1>16. wrt[g][l] = 0 /\ \A q \in Of(g) : ~Writes(q, l)
  BY <1>3, <1>4, <1>14 DEF LockInv, WriterInv
<1>17. WriterInv(g, l)'
  <2>1. CASE counter[g][l] = 0
    <3>1. CountedBy(g, l) = {}
      BY <1>4, <1>13, <2>1, FS_EmptySet
    <3>2. wrt'[g][l] = 1
      BY <1>1, <1>2, <1>16, <2>1, ChangeWrt DEF Left
    <3>. QED BY <1>4, <1>8, <1>9, <1>14, <1>16, <3>1, <3>2 DEF WriterInv
  <2>2. CASE counter[g][l] # 0
    <3>1. CountedBy(g, l) # {}
      BY <1>13, <2>2, FS_EmptySet
    <3>2. PICK q \in Of(g) : q # p /\ Reads(q, l)
      BY <1>14, <1>15, <3>1
    <3>3. wrt'[g][l] = 0
      BY <1>1, <1>16, <2>2 DEF Left
    <3>. QED BY <1>4, <1>8, <1>9, <1>16, <3>2, <3>3 DEF WriterInv
  <2>. QED BY <2>1, <2>2
<1>18. LockInv(g, l)'
  BY <1>10, <1>12, <1>17 DEF LockInv
<1>. QED BY <1>1, <1>3, <1>18 DEF LockInv

LEMMA WaitInv ==
    ASSUME IInv, NEW p \in Procs, NEW l \in Locks, Wait(p, l)
    PROVE  LockInv(mine[p], l)'
<1>1. PICK g : g = mine[p]
  OBVIOUS
<1>2. Shape /\ Places /\ Moves(p) /\ Running(p) /\ Stands(p, On("wait", l))
  BY LockStepFacts DEF IInv, Shape, LockStep, Wait, At
<1>3. LockInv(g, l) /\ mine'[p] = g
  BY <1>1, <1>2, RunningHas DEF IInv, Moves
<1>4. Of(g)' = Of(g) /\ Of(g) \subseteq Procs /\ p \in Of(g)
  BY <1>1, <1>2, OfGeneration
<1>5. /\ ~Stands(p, On("arrive", l)) /\ ~Stands(p, On("leave", l)) /\ ~Stands(p, On("admit", l))
      /\ ~Stands(p, On("left", l)) /\ ~Stands(p, On("post", l))
  BY <1>2, OneStep
<1>6. /\ wrt[g][l] = 1 /\ wrt'[g][l] = 0 /\ mutex'[g][l] = mutex[g][l]
      /\ counter'[g][l] = counter[g][l]
  <2>1. wrt[g][l] = 1
    BY <1>1, <1>3 DEF Wait, LockInv, WriterInv
  <2>. QED BY <1>1, <1>2, <2>1, ChangeWrt DEF Wait
<1>7. \A q \in Of(g) :
        /\ Stands(q, On("admit", l))' <=> Stands(q, On("admit", l))
        /\ Stands(q, On("left", l))' <=> Stands(q, On("left", l))
        /\ Writes(q, l)' <=> q = p \/ Writes(q, l)
        /\ Entering(q, l)' <=> Entering(q, l)
  BY <1>2, <1>4, <1>5, StepEffect
<1>8. \A q \in Of(g) : /\ InMutex(q, l)' <=> InMutex(q, l)
                       /\ Reads(q, l)' <=> Reads(q, l)
  BY <1>7 DEF InMutex, Reads
<1>9. CountedBy(g, l)' = CountedBy(g, l)
  BY <1>4, <1>7 DEF CountedBy
<1>10. MutexInv(g, l)'
  BY <1>3, <1>4, <1>6, <1>8 DEF LockInv, MutexInv
<1>11. CountInv(g, l)'
  BY <1>3, <1>6, <1>9 DEF LockInv, CountInv
<1>12. \A q \in Of(g) : ~Reads(q, l) /\ ~Writes(q, l)
  BY <1>3, <1>6 DEF LockInv, WriterInv
<1>13. WriterInv(g, l)'
  BY <1>4, <1>6, <1>7, <1>8, <1>12 DEF WriterInv
<1>14. LockInv(g, l)'
  BY <1>10, <1>11, <1>13 DEF LockInv
<1>. QED BY <1>1, <1>3, <1>14 DEF LockInv

LEMMA PostInv ==
    ASSUME IInv, NEW p \in Procs, NEW l \in Locks, Post(p, l)
    PROVE  LockInv(mine[p], l)'
<1>1. PICK g : g = mine[p]
  OBVIOUS
<1>2. Shape /\ Places /\ Moves(p) /\ Running(p) /\ Stands(p, On("post", l))
  BY LockStepFacts DEF IInv, Shape, LockStep, Post, At
<1>3. LockInv(g, l) /\ mine'[p] = g
  BY <1>1, <1>2, RunningHas DEF IInv, Moves
<1>4. Of(g)' = Of(g) /\ Of(g) \subseteq Procs /\ p \in Of(g)
  BY <1>1, <1>2, OfGeneration
<1>5. /\ ~Stands(p, On("arrive", l)) /\ ~Stands(p, On("leave", l)) /\ ~Stands(p, On("admit", l))
      /\ ~Stands(p, On("left", l)) /\ ~Stands(p, On("wait", l)) /\ Writes(p, l)
  BY <1>2, OneStep, ReaderFacts
<1>6. /\ wrt[g][l] = 0 /\ wrt'[g][l] = 1 /\ mutex'[g][l] = mutex[g][l]
      /\ counter'[g][l] = counter[g][l]
  <2>1. wrt[g][l] = 0
    BY <1>3, <1>4, <1>5 DEF LockInv, WriterInv
  <2>. QED BY <1>1, <1>2, <2>1, ChangeWrt DEF Post
<1>7. \A q \in Of(g) :
        /\ Stands(q, On("admit", l))' <=> Stands(q, On("admit", l))
        /\ Stands(q, On("left", l))' <=> Stands(q, On("left", l))
        /\ Writes(q, l)' <=> q # p /\ Writes(q, l)
        /\ Entering(q, l)' <=> Entering(q, l)
  BY <1>2, <1>4, <1>5, StepEffect
<1>8. \A q \in Of(g) : /\ InMutex(q, l)' <=> InMutex(q, l)
                       /\ Reads(q, l)' <=> Reads(q, l)
  BY <1>7 DEF InMutex, Reads
<1>9. CountedBy(g, l)' = CountedBy(g, l)
  BY <1>4, <1>7 DEF CountedBy
<1>10. MutexInv(g, l)'
  BY <1>3, <1>4, <1>6, <1>8 DEF LockInv, MutexInv
<1>11. CountInv(g, l)'
  BY <1>3, <1>6, <1>9 DEF LockInv, CountInv
<1>12. \A q \in Of(g) : ~Reads(q, l) /\ (Writes(q, l) => q = p)
  BY <1>3, <1>4, <1>5 DEF LockInv, WriterInv
<1>13. WriterInv(g, l)'
  BY <1>4, <1>6, <1>7, <1>8, <1>12 DEF WriterInv
<1>14. LockInv(g, l)'
  BY <1>10, <1>11, <1>13 DEF LockInv
<1>. QED BY <1>1, <1>3, <1>14 DEF LockInv

(* A lock operation preserves the invariant of every semaphore.            *)
LEMMA LockStepInv ==
    ASSUME IInv, NEW p \in Procs, NEW l \in Locks, LockStep(p, l)
    PROVE  \A g \in Generations', u \in Locks : LockInv(g, u)'
<1> SUFFICES ASSUME NEW g \in Generations, NEW u \in Locks PROVE LockInv(g, u)'
  BY LockStepFacts DEF IInv
<1>1. Shape /\ Places /\ Moves(p) /\ LockInv(g, u) /\ mine' = mine
  BY LockStepFacts DEF IInv, Shape, Moves
<1>2. CASE g = mine[p] /\ u = l
  <2>1. LockInv(mine[p], l)'
    BY ArriveInv, AdmitInv, LeaveInv, LeftInv, WaitInv, PostInv DEF LockStep
  <2>2. mine'[p] = g
    BY <1>1, <1>2
  <2>. QED BY <1>2, <2>1, <2>2 DEF LockInv
<1>3. CASE g # mine[p] \/ u # l
  <2>1. ~Operates(p, g, u)
    <3>1. \E o \in LockOps : Stands(p, On(o, l))
      BY DEF LockStep, Arrive, Admit, Leave, Left, Wait, Post, At, LockOps
    <3>. QED BY <1>3, <3>1, OneStep DEF Operates
  <2>2. /\ wrt'[g][u] = wrt[g][u] /\ mutex'[g][u] = mutex[g][u]
        /\ counter'[g][u] = counter[g][u]
    BY <1>1, <1>3, LockStepFacts
  <2>. QED BY <1>1, <2>1, <2>2, Undisturbed
<1>. QED BY <1>2, <1>3

----------------------------------------------------------------------------
(* The plain variables of the one reader *)

LEMMA OtherKinds ==
    ASSUME NEW p, NEW o1, NEW o2, Stands(p, Just(o2))
    PROVE  /\ \A x : Stands(p, On(o1, x)) => o1 = o2
           /\ Stands(p, Just(o1)) => o1 = o2
<1>1. Just(o2).op = o2 /\ Just(o1).op = o1 /\ \A x : On(o1, x).op = o1
  BY DEF Just, On
<1>. QED BY <1>1 DEF Stands

(* Whoever stands at a plain step is the reader.                           *)
LEMMA TheReader ==
    ASSUME Places, OneReader, NEW p \in Procs, NEW s \in PlainSteps, Stands(p, s)
    PROVE  UsesPlain(prog[p]) /\ \A q \in Procs : UsesPlain(prog[q]) => q = p
<1>1. pc[p] \in 1..Len(path[p]) /\ path[p][pc[p]] = s
  BY BodyFacts DEF Stands
<1>2. path[p] # <<>>
  BY <1>1
<1>3. path[p] \in Programs[prog[p]].bodies
  BY <1>2 DEF Places, Program
<1>4. UsesPlain(prog[p])
  BY <1>1, <1>3 DEF UsesPlain
<1>. QED BY <1>4 DEF OneReader, Places

(* How a step of a body moves what the plain variables stand for.          *)
LEMMA PlainEffect ==
    ASSUME Places, NEW p \in Procs, Moves(p)
    PROVE  /\ IsCounted(path[p], pc[p])' <=>
                \/ Stands(p, Just("counted"))
                \/ IsCounted(path[p], pc[p]) /\ ~Stands(p, Just("uncounted"))
           /\ HasOpened(path[p], pc[p])' <=>
                \/ Stands(p, Just("open"))
                \/ HasOpened(path[p], pc[p]) /\ ~Stands(p, Just("close"))
           /\ Stands(p, Just("counted"))' => Stands(p, Just("count"))
           /\ Stands(p, Just("uncounted"))' => Stands(p, Just("uncount"))
           /\ Stands(p, Just("counted")) => ~IsCounted(path[p], pc[p])
           /\ Stands(p, Just("uncounted")) => IsCounted(path[p], pc[p])
           /\ Stands(p, Just("first")) => IsCounted(path[p], pc[p])
           /\ Stands(p, Just("last")) => ~IsCounted(path[p], pc[p])
           /\ Stands(p, Just("spin")) => HasOpened(path[p], pc[p])
<1>1. PICK b : b = path[p]
  OBVIOUS
<1>2. PICK i : i = pc[p]
  OBVIOUS
<1>3. /\ b \in Seq(Steps) /\ CountsItself(b) /\ i \in Nat /\ i >= 1 /\ Len(b) \in Nat
      /\ i \in 1..Len(b)
  BY <1>1, <1>2, BodyFacts DEF Moves
<1>4. path'[p] = b /\ pc'[p] = i + 1
  BY <1>1, <1>2 DEF Moves, Places
<1>5. \A s : Stands(p, s) <=> b[i] = s
  BY <1>1, <1>2, <1>3 DEF Stands
<1>6. \A s : Stands(p, s)' => i + 1 \in 1..Len(b) /\ b[i + 1] = s
  BY <1>3, <1>4 DEF Stands
<1>7. /\ Stands(p, Just("counted"))' => Stands(p, Just("count"))
      /\ Stands(p, Just("uncounted"))' => Stands(p, Just("uncount"))
  <2>1. (i + 1) - 1 = i
    BY <1>3
  <2>. QED BY <1>3, <1>5, <1>6, <2>1 DEF CountsItself
<1>8. /\ IsCounted(b, i + 1) <=>
           b[i] = Just("counted") \/ (IsCounted(b, i) /\ b[i] # Just("uncounted"))
      /\ HasOpened(b, i + 1) <=>
           b[i] = Just("open") \/ (HasOpened(b, i) /\ b[i] # Just("close"))
  BY <1>3, SinceStep DEF IsCounted, HasOpened
<1>9. /\ IsCounted(path[p], pc[p])' <=> IsCounted(b, i + 1)
      /\ HasOpened(path[p], pc[p])' <=> HasOpened(b, i + 1)
  BY <1>4 DEF IsCounted, HasOpened, Since
<1>10. /\ b[i] = Just("counted") => ~IsCounted(b, i)
       /\ b[i] = Just("uncounted") => IsCounted(b, i)
       /\ b[i] = Just("first") => IsCounted(b, i)
       /\ b[i] = Just("last") => ~IsCounted(b, i)
       /\ b[i] = Just("spin") => HasOpened(b, i)
  BY <1>3 DEF CountsItself
<1>. QED BY <1>1, <1>2, <1>5, <1>7, <1>8, <1>9, <1>10

(* The plain variables are as before for all but p.                        *)
LEMMA PlainOthers ==
    ASSUME Shape, NEW p \in Procs, NEW q \in Procs, q # p, UNCHANGED plain, prog' = prog,
           path'[q] = path[q], pc'[q] = pc[q], UsesPlain(prog[q])
    PROVE  /\ numReader' = 1 <=> IsCounted(path[q], pc[q])'
           /\ readOpen' <=> HasOpened(path[q], pc[q])'
           /\ Stands(q, Just("counted"))' \/ Stands(q, Just("uncounted"))' =>
                seen'[q] = numReader'
<1>1. /\ numReader = 1 <=> IsCounted(path[q], pc[q])
      /\ readOpen <=> HasOpened(path[q], pc[q])
      /\ Stands(q, Just("counted")) \/ Stands(q, Just("uncounted")) => seen[q] = numReader
  BY DEF Shape, PlainInv
<1>. QED BY <1>1 DEF plain, IsCounted, HasOpened, Since, Stands

(* A step that leaves the plain variables alone.                           *)
LEMMA PlainKept ==
    ASSUME Shape, NEW p \in Procs, Moves(p), UNCHANGED plain,
           \A o \in {"count", "counted", "open", "uncount", "uncounted", "close"} :
               ~Stands(p, Just(o))
    PROVE  PlainInv'
<1>1. Places /\ prog' = prog /\ PlainInv
  BY DEF Shape, Moves
<1>2. ASSUME NEW q \in Procs, UsesPlain(prog[q])
      PROVE  /\ numReader' = 1 <=> IsCounted(path[q], pc[q])'
             /\ readOpen' <=> HasOpened(path[q], pc[q])'
             /\ Stands(q, Just("counted"))' \/ Stands(q, Just("uncounted"))' =>
                  seen'[q] = numReader'
  <2>1. CASE q = p
    <3>1. /\ ~Stands(p, Just("counted")) /\ ~Stands(p, Just("uncounted"))
          /\ ~Stands(p, Just("open")) /\ ~Stands(p, Just("close"))
          /\ ~Stands(p, Just("count")) /\ ~Stands(p, Just("uncount"))
      OBVIOUS
    <3>2. /\ numReader = 1 <=> IsCounted(path[p], pc[p])
          /\ readOpen <=> HasOpened(path[p], pc[p])
      BY <1>1, <1>2, <2>1 DEF PlainInv
    <3>. QED BY <1>1, <2>1, <3>1, <3>2, PlainEffect DEF plain
  <2>2. CASE q # p
    <3>1. path'[q] = path[q] /\ pc'[q] = pc[q]
      BY <1>1, <2>2 DEF Moves, Places
    <3>. QED BY <1>1, <1>2, <2>2, <3>1, PlainOthers
  <2>. QED BY <2>1, <2>2
<1>. QED BY <1>1, <1>2 DEF PlainInv, plain

PlainStep(p) == LoadCount(p) \/ StoreCount(p) \/ Test(p) \/ SetOpen(p) \/ SpinUntilOpen(p)

LEMMA PlainStepInv ==
    ASSUME Shape, OneReader, NEW p \in Procs, PlainStep(p)
    PROVE  PlainInv' /\ Moves(p) /\ UNCHANGED <<sems, fresh>>
<1>1. Places /\ PlainInv
  BY DEF Shape
<1>2. PICK o \in {"count", "counted", "first", "open", "spin",
                  "uncount", "uncounted", "last", "close"} : AtStep(p, o)
  BY DEF PlainStep, LoadCount, StoreCount, Test, SetOpen, SpinUntilOpen
<1>3. /\ Running(p) /\ Stands(p, Just(o)) /\ Just(o) \in PlainSteps /\ pc[p] <= Len(path[p])
      /\ \A x : Stands(p, Just(x)) => x = o
  BY <1>2, OtherKinds DEF AtStep, PlainSteps, Stands
<1>4. UsesPlain(prog[p]) /\ \A q \in Procs : UsesPlain(prog[q]) => q = p
  BY <1>1, <1>3, TheReader
<1>5. /\ numReader = 1 <=> IsCounted(path[p], pc[p])
      /\ readOpen <=> HasOpened(path[p], pc[p])
      /\ Stands(p, Just("counted")) \/ Stands(p, Just("uncounted")) => seen[p] = numReader
      /\ numReader \in {0, 1} /\ readOpen \in BOOLEAN /\ seen \in [Procs -> {0, 1}]
  BY <1>1, <1>4 DEF PlainInv
<1>6. ASSUME Moves(p), numReader' \in {0, 1}, readOpen' \in BOOLEAN, seen' \in [Procs -> {0, 1}],
             numReader' = 1 <=> IsCounted(path[p], pc[p])',
             readOpen' <=> HasOpened(path[p], pc[p])',
             Stands(p, Just("counted"))' \/ Stands(p, Just("uncounted"))' => seen'[p] = numReader'
      PROVE  PlainInv'
  <2>1. \A q \in Procs : UsesPlain(prog'[q]) => q = p
    BY <1>4, <1>6 DEF Moves
  <2>. QED BY <1>6, <2>1 DEF PlainInv
<1>7. CASE LoadCount(p)
  <2>1. /\ Moves(p) /\ UNCHANGED <<sems, fresh>> /\ numReader' = numReader
        /\ readOpen' = readOpen /\ seen' = [seen EXCEPT ![p] = numReader]
    BY <1>3, <1>7 DEF LoadCount, Advance, Goto, Moves
  <2>2. o \in {"count", "uncount"}
    BY <1>3, <1>7 DEF LoadCount, AtStep
  <2>3. /\ IsCounted(path[p], pc[p])' <=> IsCounted(path[p], pc[p])
        /\ HasOpened(path[p], pc[p])' <=> HasOpened(path[p], pc[p])
    BY <1>1, <1>3, <2>1, <2>2, PlainEffect
  <2>4. seen' \in [Procs -> {0, 1}] /\ seen'[p] = numReader'
    BY <1>5, <2>1
  <2>. QED BY <1>5, <1>6, <2>1, <2>3, <2>4
<1>8. CASE StoreCount(p)
  <2>1. /\ Moves(p) /\ UNCHANGED <<sems, fresh>>
        /\ readOpen' = readOpen /\ seen' = seen
    BY <1>3, <1>8 DEF StoreCount, Advance, Goto, Moves
  <2>2. \/ o = "counted" /\ numReader' = seen[p] + 1
        \/ o = "uncounted" /\ numReader' = seen[p] - 1
    BY <1>3, <1>8 DEF StoreCount, AtStep
  <2>3. /\ ~Stands(p, Just("counted"))' /\ ~Stands(p, Just("uncounted"))'
        /\ HasOpened(path[p], pc[p])' <=> HasOpened(path[p], pc[p])
    BY <1>1, <1>3, <2>1, <2>2, PlainEffect
  <2>4. CASE o = "counted" /\ numReader' = seen[p] + 1
    <3>1. numReader = 0 /\ seen[p] = 0 /\ numReader' = 1 /\ IsCounted(path[p], pc[p])'
      BY <1>1, <1>3, <1>5, <2>1, <2>4, PlainEffect
    <3>. QED BY <1>5, <1>6, <2>1, <2>3, <3>1
  <2>5. CASE o = "uncounted" /\ numReader' = seen[p] - 1
    <3>1. numReader = 1 /\ seen[p] = 1 /\ numReader' = 0 /\ ~IsCounted(path[p], pc[p])'
      BY <1>1, <1>3, <1>5, <2>1, <2>5, PlainEffect
    <3>. QED BY <1>5, <1>6, <2>1, <2>3, <3>1
  <2>. QED BY <2>2, <2>4, <2>5
<1>9. CASE SetOpen(p)
  <2>1. /\ Moves(p) /\ UNCHANGED <<sems, fresh>> /\ numReader' = numReader /\ seen' = seen
    BY <1>3, <1>9 DEF SetOpen, Advance, Goto, Moves
  <2>2. \/ o = "open" /\ readOpen' = TRUE
        \/ o = "close" /\ readOpen' = FALSE
    BY <1>3, <1>9 DEF SetOpen, AtStep
  <2>3. /\ ~Stands(p, Just("counted"))' /\ ~Stands(p, Just("uncounted"))'
        /\ IsCounted(path[p], pc[p])' <=> IsCounted(path[p], pc[p])
        /\ readOpen' <=> HasOpened(path[p], pc[p])'
    BY <1>1, <1>3, <2>1, <2>2, PlainEffect
  <2>. QED BY <1>5, <1>6, <2>1, <2>2, <2>3
<1>10. CASE SpinUntilOpen(p)
  <2>1. Moves(p) /\ UNCHANGED <<sems, fresh>> /\ UNCHANGED plain /\ o = "spin"
    BY <1>3, <1>10 DEF SpinUntilOpen, AtStep, Advance, Goto, Moves
  <2>. QED BY <1>3, <2>1, PlainKept
(* The two tests of the one reader come out TRUE: it never skips a step.   *)
<1>11. CASE Test(p)
  <2>1. \/ o = "first" /\ Goto(p, IF numReader = 1 THEN pc[p] + 1 ELSE pc[p] + 3)
        \/ o = "last" /\ Goto(p, IF numReader = 0 THEN pc[p] + 1 ELSE pc[p] + 3)
    BY <1>3, <1>11 DEF Test, AtStep
  <2>2. /\ o = "first" => IsCounted(path[p], pc[p])
        /\ o = "last" => ~IsCounted(path[p], pc[p])
    <3>1. /\ CountsItself(path[p]) /\ pc[p] \in 1..Len(path[p])
          /\ path[p][pc[p]] = Just(o)
      BY <1>1, <1>3, BodyFacts DEF Stands
    <3>. QED BY <3>1 DEF CountsItself
  <2>3. Goto(p, pc[p] + 1)
    BY <1>5, <2>1, <2>2
  <2>4. Moves(p) /\ UNCHANGED <<sems, fresh>> /\ UNCHANGED plain
    BY <1>3, <1>11, <2>3 DEF Test, Goto, Moves
  <2>. QED BY <1>3, <2>1, <2>4, PlainKept
<1>. QED BY <1>7, <1>8, <1>9, <1>10, <1>11 DEF PlainStep

----------------------------------------------------------------------------
(* Every step preserves the invariant *)

LEMMA MovesPlaces ==
    ASSUME Places, NEW p \in Procs, Moves(p), Len(wrt') = Len(wrt)
    PROVE  Places'
<1>1. /\ prog' = prog /\ state' = state /\ path' = path /\ mine' = mine
      /\ pc' = [pc EXCEPT ![p] = pc[p] + 1] /\ state[p] = "running"
  BY DEF Moves, Running
<1>2. pc[p] + 1 \in 1..(Len(path[p]) + 1) /\ pc[p] + 1 \in Nat
  BY BodyFacts DEF Moves
<1>3. pc' \in [Procs -> Nat]
  BY <1>1, <1>2 DEF Places
<1>4. ASSUME NEW q \in Procs
      PROVE  /\ path'[q] \in Program(q)'.bodies \cup {<<>>}
             /\ pc'[q] \in 1..(Len(path'[q]) + 1)
             /\ mine'[q] \in 0..Len(wrt')
             /\ mine'[q] = 0 <=> state'[q] = "new"
             /\ state'[q] = "new" => path'[q] = <<>> /\ pc'[q] = 1
             /\ state'[q] = "ended" => pc'[q] = Len(path'[q]) + 1
  <2>1. /\ path[q] \in Program(q).bodies \cup {<<>>} /\ pc[q] \in 1..(Len(path[q]) + 1)
        /\ mine[q] \in 0..Len(wrt)
        /\ mine[q] = 0 <=> state[q] = "new"
        /\ state[q] = "new" => path[q] = <<>> /\ pc[q] = 1
        /\ state[q] = "ended" => pc[q] = Len(path[q]) + 1
    BY DEF Places
  <2>2. pc'[q] = IF q = p THEN pc[p] + 1 ELSE pc[q]
    BY <1>1 DEF Places
  <2>. QED BY <1>1, <1>2, <2>1, <2>2 DEF Program
<1>. QED BY <1>1, <1>3, <1>4 DEF Places

(* The steps that touch no semaphore and no plain variable.                *)
FileStep(p) == \E f \in Files : Read(p, f) \/ Truncate(p, f) \/ Flush(p, f)

LEMMA FileStepInv ==
    ASSUME Shape, NEW p \in Procs, FileStep(p)
    PROVE  /\ PlainInv' /\ Moves(p) /\ UNCHANGED sems
           /\ fresh' \in [Procs -> SUBSET Files]
           /\ \A l \in Locks, o \in LockOps : ~Stands(p, On(o, l))
<1>1. PICK f \in Files : Read(p, f) \/ Truncate(p, f) \/ Flush(p, f)
  BY DEF FileStep
<1>2. PICK s \in {"read", "truncate", "flush"} : Stands(p, On(s, f)) /\ Running(p)
  BY <1>1 DEF Read, Truncate, Flush, At
<1>3. Moves(p) /\ UNCHANGED sems /\ UNCHANGED plain
  BY <1>1, <1>2 DEF Read, Truncate, Flush, Advance, Goto, Moves, Stands
<1>4. fresh' \in [Procs -> SUBSET Files]
  BY <1>1 DEF Read, Truncate, Flush, Shape
<1>5. \A l \in Locks, o \in LockOps : ~Stands(p, On(o, l))
  BY <1>2, OneStep DEF LockOps
<1>6. \A o \in {"count", "counted", "open", "uncount", "uncounted", "close"} :
        ~Stands(p, Just(o))
  BY <1>2, OtherKinds
<1>7. PlainInv'
  BY <1>3, <1>6, PlainKept
<1>. QED BY <1>3, <1>4, <1>5, <1>7

(* A step of a body that is no lock operation.                             *)
LEMMA MovesInv ==
    ASSUME IInv, NEW p \in Procs, Moves(p), UNCHANGED sems, PlainInv',
           fresh' \in [Procs -> SUBSET Files],
           \A l \in Locks, o \in LockOps : ~Stands(p, On(o, l))
    PROVE  IInv'
<1>1. Places /\ Semaphores /\ wrt' = wrt /\ mutex' = mutex /\ counter' = counter
  BY DEF IInv, Shape, sems
<1>2. Places' /\ Semaphores' /\ Generations' = Generations
  BY <1>1, MovesPlaces DEF Semaphores, Generations
<1>3. \A g \in Generations, l \in Locks : LockInv(g, l)'
  BY <1>1, Undisturbed DEF IInv, Operates
<1>. QED BY <1>2, <1>3 DEF IInv, Shape

(* A process goes from rest to rest: it starts, goes round, ends.          *)
LEMMA RestPlain ==
    ASSUME Shape, NEW p \in Procs, UNCHANGED plain, prog' = prog, path'[p] \in Bodies,
           AtEnd(p), AtEnd(p)',
           \A q \in Procs : q # p => path'[q] = path[q] /\ pc'[q] = pc[q]
    PROVE  PlainInv'
<1>1. Places /\ PlainInv /\ path[p] \in Bodies
  BY DEF Shape, Places
<1>2. /\ ~IsCounted(path[p], pc[p]) /\ ~HasOpened(path[p], pc[p])
      /\ ~IsCounted(path'[p], pc'[p]) /\ ~HasOpened(path'[p], pc'[p])
      /\ ~Stands(p, Just("counted"))' /\ ~Stands(p, Just("uncounted"))'
  BY <1>1, EndsOfBody DEF AtEnd, Stands
<1>3. ASSUME NEW q \in Procs, UsesPlain(prog[q])
      PROVE  /\ numReader' = 1 <=> IsCounted(path[q], pc[q])'
             /\ readOpen' <=> HasOpened(path[q], pc[q])'
             /\ Stands(q, Just("counted"))' \/ Stands(q, Just("uncounted"))' =>
                  seen'[q] = numReader'
  <2>1. CASE q = p
    BY <1>1, <1>2, <1>3, <2>1 DEF PlainInv, plain
  <2>2. CASE q # p
    BY <1>3, <2>2, PlainOthers
  <2>. QED BY <2>1, <2>2
<1>. QED BY <1>1, <1>3 DEF PlainInv, plain

(* A process goes from rest to rest among semaphores that are as before.   *)
LEMMA RestInv ==
    ASSUME IInv, NEW p \in Procs, Places', UNCHANGED sems, UNCHANGED plain, prog' = prog,
           AtEnd(p), AtEnd(p)', fresh' \in [Procs -> SUBSET Files],
           \A q \in Procs : q # p => path'[q] = path[q] /\ pc'[q] = pc[q] /\ mine'[q] = mine[q],
           mine'[p] = mine[p] \/ mine[p] \notin Generations
    PROVE  IInv'
<1>1. /\ Shape /\ Places /\ wrt' = wrt /\ mutex' = mutex /\ counter' = counter
      /\ Generations' = Generations /\ path[p] \in Bodies /\ path'[p] \in Bodies
  BY DEF IInv, Shape, Places, sems, Generations
<1>2. AtRest(p) /\ AtRest(p)'
  BY <1>1, RestAtEnds
<1>3. \A g \in Generations, l \in Locks : LockInv(g, l)'
  BY <1>1, <1>2, RestingStep DEF IInv
<1>4. PlainInv'
  BY <1>1, RestPlain
<1>5. Semaphores'
  BY <1>1 DEF Shape, Semaphores
<1>. QED BY <1>1, <1>3, <1>4, <1>5 DEF IInv, Shape

LEMMA AgainInv == ASSUME IInv, NEW p \in Procs, Again(p) PROVE IInv'
<1>1. /\ Shape /\ Places /\ UNCHANGED sems /\ UNCHANGED plain /\ mine' = mine /\ prog' = prog
      /\ path' = path /\ state' = state /\ wrt' = wrt
      /\ pc' = [pc EXCEPT ![p] = 1] /\ Running(p) /\ pc[p] > Len(path[p])
  BY DEF IInv, Shape, Again, sems
<1>2. Len(path[p]) \in Nat /\ pc[p] \in Nat /\ pc[p] <= Len(path[p]) + 1
  BY <1>1, BodyFacts
<1>3. AtEnd(p) /\ AtEnd(p)'
  BY <1>1, <1>2 DEF AtEnd, Places
<1>4. fresh' \in [Procs -> SUBSET Files]
  BY <1>1 DEF Again, Shape
<1>5. Places'
  <2>1. pc' \in [Procs -> Nat] /\ \A q \in Procs : pc'[q] = IF q = p THEN 1 ELSE pc[q]
    BY <1>1 DEF Places
  <2>2. ASSUME NEW q \in Procs
        PROVE  /\ path'[q] \in Program(q)'.bodies \cup {<<>>}
               /\ pc'[q] \in 1..(Len(path'[q]) + 1)
               /\ mine'[q] \in 0..Len(wrt')
               /\ mine'[q] = 0 <=> state'[q] = "new"
               /\ state'[q] = "new" => path'[q] = <<>> /\ pc'[q] = 1
               /\ state'[q] = "ended" => pc'[q] = Len(path'[q]) + 1
    <3>1. Len(path[q]) \in Nat
      BY <1>1, BodyFacts
    <3>2. Program(q)' = Program(q)
      BY <1>1 DEF Program
    <3>3. q = p => state[q] = "running"
      BY <1>1 DEF Running
    <3>. QED BY <1>1, <2>1, <3>1, <3>2, <3>3 DEF Places
  <2>. QED BY <1>1, <2>1, <2>2 DEF Places
<1>6. \A q \in Procs : q # p => path'[q] = path[q] /\ pc'[q] = pc[q] /\ mine'[q] = mine[q]
  BY <1>1 DEF Places
<1>. QED BY <1>1, <1>3, <1>4, <1>5, <1>6, RestInv

(* Nobody moves and no semaphore changes.                                  *)
LEMMA LocksStay ==
    ASSUME IInv, UNCHANGED <<path, pc, mine>>, UNCHANGED <<wrt, mutex, counter>>
    PROVE  \A g \in Generations, l \in Locks : LockInv(g, l)'
<1> SUFFICES ASSUME NEW g \in Generations, NEW l \in Locks PROVE LockInv(g, l)'
  OBVIOUS
<1>1. Of(g)' = Of(g) /\ Of(g) \subseteq Procs /\ LockInv(g, l)
  BY DEF IInv, Of
<1>2. \A q \in Procs : /\ InMutex(q, l)' <=> InMutex(q, l)
                       /\ Reads(q, l)' <=> Reads(q, l)
                       /\ Writes(q, l)' <=> Writes(q, l)
  BY DEF InMutex, Stands, Reads, Writes, Entering, Held, Entered
<1>3. CountedBy(g, l)' = CountedBy(g, l)
  BY <1>1 DEF CountedBy, Stands, Entering, Entered
<1>4. MutexInv(g, l)'
  BY <1>1, <1>2 DEF LockInv, MutexInv
<1>5. CountInv(g, l)'
  BY <1>1, <1>3 DEF LockInv, CountInv
<1>6. WriterInv(g, l)'
  BY <1>1, <1>2 DEF LockInv, WriterInv
<1>. QED BY <1>4, <1>5, <1>6 DEF LockInv

(* A process ends, or is stopped: nothing but its state changes.           *)
LEMMA StopInv ==
    ASSUME IInv, NEW p \in Procs, End(p) \/ Kill(p) PROVE IInv'
<1>1. /\ Shape /\ Places /\ mine' = mine /\ prog' = prog /\ path' = path /\ pc' = pc
      /\ wrt' = wrt /\ mutex' = mutex /\ counter' = counter /\ fresh' = fresh
      /\ UNCHANGED plain /\ Running(p)
      /\ \/ state' = [state EXCEPT ![p] = "ended"] /\ pc[p] > Len(path[p])
         \/ state' = [state EXCEPT ![p] = "killed"]
  BY DEF IInv, Shape, End, Kill, sems
<1>2. Places'
  <2>1. state' \in [Procs -> {"new", "running", "ended", "killed"}]
    BY <1>1 DEF Places
  <2>2. \A q \in Procs : \/ state'[q] = state[q]
                         \/ state'[q] = "killed" /\ state[q] = "running"
                         \/ /\ state'[q] = "ended" /\ state[q] = "running"
                            /\ pc[q] > Len(path[q])
    BY <1>1 DEF Places, Running
  <2>3. \A q \in Procs : Len(path[q]) \in Nat /\ Program(q)' = Program(q)
    BY <1>1, BodyFacts DEF Program
  <2>. QED BY <1>1, <2>1, <2>2, <2>3 DEF Places
<1>3. \A g \in Generations, l \in Locks : LockInv(g, l)'
  BY <1>1, LocksStay
<1>4. PlainInv'
  BY <1>1 DEF Shape, PlainInv, plain, IsCounted, HasOpened, Since, Stands
<1>. QED BY <1>1, <1>2, <1>3, <1>4 DEF IInv, Shape, Semaphores, Generations

(* A process starts, with new semaphores or with the last ones.            *)
LEMMA StartFacts ==
    ASSUME Shape, NEW p \in Procs, Start(p), Len(wrt') >= 1, Len(wrt') \in Nat,
           Len(wrt') >= Len(wrt)
    PROVE  /\ Places' /\ prog' = prog /\ fresh' = fresh /\ UNCHANGED plain
           /\ AtEnd(p) /\ AtEnd(p)' /\ mine[p] = 0 /\ mine'[p] = Len(wrt')
           /\ \A q \in Procs : q # p =>
                path'[q] = path[q] /\ pc'[q] = pc[q] /\ mine'[q] = mine[q]
<1>1. Places /\ Len(wrt) \in Nat
  BY DEF Shape, Semaphores
<1>2. PICK b \in Program(p).bodies : path' = [path EXCEPT ![p] = b]
  BY DEF Start
<1>3. /\ prog' = prog /\ pc' = pc /\ fresh' = fresh /\ UNCHANGED plain /\ state[p] = "new"
      /\ state' = [state EXCEPT ![p] = "running"] /\ mine' = [mine EXCEPT ![p] = Len(wrt')]
  BY DEF Start
<1>4. b \in Bodies /\ b \in Seq(Steps) /\ Len(b) \in Nat
  <2>1. prog \in [Procs -> DOMAIN Programs]
    BY <1>1, ScenariosAssumption DEF Places
  <2>2. b \in Bodies
    BY <1>2, <2>1 DEF Bodies, Program
  <2>. QED BY <2>2, BodiesAssumption
<1>5. mine[p] = 0 /\ pc[p] = 1 /\ mine'[p] = Len(wrt') /\ path'[p] = b /\ state'[p] = "running"
  BY <1>1, <1>2, <1>3 DEF Places
<1>6. \A q \in Procs : q # p =>
        /\ path'[q] = path[q] /\ pc'[q] = pc[q] /\ mine'[q] = mine[q] /\ state'[q] = state[q]
  BY <1>1, <1>2, <1>3 DEF Places
<1>7. Places'
  <2>1. /\ state' \in [Procs -> {"new", "running", "ended", "killed"}]
        /\ path' \in [Procs -> Bodies] /\ mine' \in [Procs -> Nat]
    BY <1>1, <1>2, <1>3, <1>4 DEF Places
  <2>2. ASSUME NEW q \in Procs
        PROVE  /\ path'[q] \in Program(q)'.bodies \cup {<<>>}
               /\ pc'[q] \in 1..(Len(path'[q]) + 1)
               /\ mine'[q] \in 0..Len(wrt')
               /\ mine'[q] = 0 <=> state'[q] = "new"
               /\ state'[q] = "new" => path'[q] = <<>> /\ pc'[q] = 1
               /\ state'[q] = "ended" => pc'[q] = Len(path'[q]) + 1
    <3>1. Program(q)' = Program(q)
      BY <1>3 DEF Program
    <3>2. CASE q = p
      BY <1>2, <1>3, <1>4, <1>5, <3>1, <3>2
    <3>3. CASE q # p
      BY <1>1, <1>6, <3>1, <3>3 DEF Places
    <3>. QED BY <3>2, <3>3
  <2>. QED BY <1>1, <1>3, <2>1, <2>2 DEF Places
<1>8. AtEnd(p) /\ AtEnd(p)'
  BY <1>3, <1>5 DEF AtEnd
<1>. QED BY <1>3, <1>5, <1>6, <1>7, <1>8

LEMMA OneMore ==
    ASSUME NEW s \in Seq([Locks -> Int]), NEW f \in [Locks -> Int], NEW n, n = Len(s),
           NEW t, t = Append(s, f)
    PROVE  /\ t \in Seq([Locks -> Int]) /\ Len(t) = n + 1 /\ t[n + 1] = f
           /\ \A g \in 1..n : t[g] = s[g]
BY AppendProperties

LEMMA StartInv == ASSUME IInv, NEW p \in Procs, Start(p) PROVE IInv'
<1>1. /\ Shape /\ Places /\ Semaphores /\ Len(wrt) \in Nat
      /\ wrt \in Seq([Locks -> Int]) /\ mutex \in Seq([Locks -> Int])
      /\ counter \in Seq([Locks -> Int]) /\ Len(mutex) = Len(wrt) /\ Len(counter) = Len(wrt)
  BY DEF IInv, Shape, Semaphores
<1>2. CASE UNCHANGED sems /\ wrt # <<>>
  <2>1. wrt' = wrt /\ Len(wrt) >= 1
    BY <1>1, <1>2 DEF sems
  <2>2. /\ Places' /\ prog' = prog /\ fresh' = fresh /\ UNCHANGED plain
        /\ AtEnd(p) /\ AtEnd(p)' /\ mine[p] = 0
        /\ \A q \in Procs : q # p =>
             path'[q] = path[q] /\ pc'[q] = pc[q] /\ mine'[q] = mine[q]
    BY <1>1, <2>1, StartFacts
  <2>3. mine[p] \notin Generations /\ fresh' \in [Procs -> SUBSET Files]
    BY <1>1, <2>2 DEF Generations, Shape
  <2>. QED BY <1>2, <2>2, <2>3, RestInv
<1>3. CASE NewGeneration
  <2>1. PICK n \in Nat : n = Len(wrt)
    BY <1>1
  <2>2. PICK ones : ones = [l \in Locks |-> 1] /\ ones \in [Locks -> Int]
    <3>1. [l \in Locks |-> 1] \in [Locks -> Int]
      OBVIOUS
    <3>. QED BY <3>1
  <2>3. PICK none : none = [l \in Locks |-> 0] /\ none \in [Locks -> Int]
    <3>1. [l \in Locks |-> 0] \in [Locks -> Int]
      OBVIOUS
    <3>. QED BY <3>1
  <2>4. wrt' = Append(wrt, ones) /\ mutex' = Append(mutex, ones) /\ counter' = Append(counter, none)
    BY <1>3, <2>2, <2>3 DEF NewGeneration
  <2>5. /\ wrt' \in Seq([Locks -> Int]) /\ Len(wrt') = n + 1 /\ wrt'[n + 1] = ones
        /\ \A g \in 1..n : wrt'[g] = wrt[g]
    BY <1>1, <2>1, <2>2, <2>3, <2>4, OneMore
  <2>6. /\ mutex' \in Seq([Locks -> Int]) /\ Len(mutex') = n + 1 /\ mutex'[n + 1] = ones
        /\ \A g \in 1..n : mutex'[g] = mutex[g]
    BY <1>1, <2>1, <2>2, <2>3, <2>4, OneMore
  <2>7. /\ counter' \in Seq([Locks -> Int]) /\ Len(counter') = n + 1 /\ counter'[n + 1] = none
        /\ \A g \in 1..n : counter'[g] = counter[g]
    BY <1>1, <2>1, <2>2, <2>3, <2>4, OneMore
  <2>8. /\ Places' /\ prog' = prog /\ fresh' = fresh /\ UNCHANGED plain
        /\ AtEnd(p) /\ AtEnd(p)' /\ mine[p] = 0 /\ mine'[p] = n + 1
        /\ \A q \in Procs : q # p =>
             path'[q] = path[q] /\ pc'[q] = pc[q] /\ mine'[q] = mine[q]
    BY <1>1, <2>1, <2>5, StartFacts
  <2>9. path[p] \in Bodies /\ path'[p] \in Bodies /\ AtRest(p) /\ AtRest(p)'
    BY <1>1, <2>8, RestAtEnds DEF Places
  <2>10. ASSUME NEW g \in 1..n, NEW l \in Locks PROVE LockInv(g, l)'
    <3>1. g \in Generations /\ mine[p] \notin Generations /\ LockInv(g, l)
      BY <1>1, <2>1, <2>8 DEF Generations, IInv
    <3>. QED BY <1>1, <2>5, <2>6, <2>7, <2>8, <2>9, <3>1, RestingStep
  <2>11. ASSUME NEW l \in Locks, NEW g, g = n + 1 PROVE LockInv(g, l)'
    <3>1. wrt'[g][l] = 1 /\ mutex'[g][l] = 1 /\ counter'[g][l] = 0
      BY <2>2, <2>3, <2>5, <2>6, <2>7, <2>11
    <3>2. \A q \in Of(g)' : q = p
      BY <1>1, <2>1, <2>8, <2>11 DEF Of, Places
    <3>3. ~InMutex(p, l)' /\ ~Writes(p, l)' /\ ~Entering(p, l)' /\ ~Reads(p, l)'
      BY <2>9 DEF AtRest, Reads
    <3>4. CountedBy(g, l)' = {}
      BY <3>2, <3>3 DEF CountedBy
    <3>5. MutexInv(g, l)'
      BY <3>1, <3>2, <3>3 DEF MutexInv
    <3>6. CountInv(g, l)'
      BY <3>1, <3>4, FS_EmptySet DEF CountInv
    <3>7. WriterInv(g, l)'
      BY <3>1, <3>2, <3>3 DEF WriterInv
    <3>. QED BY <3>5, <3>6, <3>7 DEF LockInv
  <2>12. Generations' = 1..(n + 1) /\ Semaphores'
    BY <2>5, <2>6, <2>7 DEF Generations, Semaphores
  <2>13. PlainInv'
    BY <1>1, <2>8, <2>9, RestPlain
  <2>14. \A g \in Generations' : g \in 1..n \/ g = n + 1
    BY <2>1, <2>12
  <2>. QED BY <1>1, <2>8, <2>10, <2>11, <2>12, <2>13, <2>14 DEF IInv, Shape
<1>. QED BY <1>2, <1>3 DEF Start

LEMMA InvNext == ASSUME OneReader, IInv, [Next]_vars PROVE IInv'
<1>1. CASE UNCHANGED vars
  <2>1. \A g \in Generations, l \in Locks : LockInv(g, l)'
    BY <1>1, LocksStay DEF vars
  <2>2. PlainInv'
    BY <1>1 DEF IInv, Shape, PlainInv, IsCounted, HasOpened, Since, Stands, vars
  <2>. QED BY <1>1, <2>1, <2>2 DEF IInv, Shape, Places, Program, Semaphores, Generations, vars
<1>2. ASSUME NEW p \in Procs, PlainStep(p) PROVE IInv'
  <2>1. PlainInv' /\ Moves(p) /\ UNCHANGED sems /\ fresh' = fresh
    BY <1>2, PlainStepInv DEF IInv
  <2>2. \A l \in Locks, o \in LockOps : ~Stands(p, On(o, l))
    <3>1. PICK o2 \in {"count", "counted", "first", "open", "spin",
                       "uncount", "uncounted", "last", "close"} : Stands(p, Just(o2))
      BY <1>2 DEF PlainStep, LoadCount, StoreCount, Test, SetOpen, SpinUntilOpen, AtStep
    <3>. QED BY <3>1, OtherKinds DEF LockOps
  <2>. QED BY <2>1, <2>2, MovesInv DEF IInv, Shape
<1>3. ASSUME NEW p \in Procs, FileStep(p) PROVE IInv'
  BY <1>3, FileStepInv, MovesInv DEF IInv
<1>4. ASSUME NEW p \in Procs, NEW l \in Locks, LockStep(p, l) PROVE IInv'
  <2>1. /\ Shape /\ Places /\ Semaphores /\ Moves(p) /\ Semaphores' /\ fresh' = fresh
        /\ UNCHANGED plain /\ Generations' = Generations
    BY <1>4, LockStepFacts DEF IInv, Shape
  <2>2. Len(wrt') = Len(wrt)
    <3>1. Len(wrt) \in Nat /\ Len(wrt') \in Nat /\ 1..Len(wrt') = 1..Len(wrt)
      BY <2>1 DEF Semaphores, Generations
    <3>. QED BY <3>1
  <2>3. Places'
    BY <2>1, <2>2, MovesPlaces
  <2>4. \E o \in LockOps : Stands(p, On(o, l))
    BY <1>4 DEF LockStep, Arrive, Admit, Leave, Left, Wait, Post, At, LockOps
  <2>5. \A o \in {"count", "counted", "open", "uncount", "uncounted", "close"} :
          ~Stands(p, Just(o))
    BY <2>4, OtherKinds DEF LockOps
  <2>6. PlainInv'
    BY <2>1, <2>5, PlainKept
  <2>. QED BY <1>4, <2>1, <2>3, <2>6, LockStepInv DEF IInv, Shape
<1>5. ASSUME NEW p \in Procs, Start(p) \/ Kill(p) \/ Again(p) \/ End(p) PROVE IInv'
  BY <1>5, StartInv, StopInv, AgainInv
<1>. QED BY <1>1, <1>2, <1>3, <1>4, <1>5 DEF Next, Step, PlainStep, FileStep, LockStep

LEMMA InvInit == Init => IInv
<1> SUFFICES ASSUME Init PROVE IInv
  OBVIOUS
<1>1. Len(<<>>) = 0 /\ <<>> \in Seq([Locks -> Int]) /\ <<>> \in Bodies
  BY DEF Bodies
<1>2. Places
  BY <1>1 DEF Init, Places, Program
<1>3. Semaphores /\ Generations = {}
  BY <1>1 DEF Init, Semaphores, Generations
<1>4. \A p \in Procs : /\ ~IsCounted(path[p], pc[p]) /\ ~HasOpened(path[p], pc[p])
                       /\ ~Stands(p, Just("counted")) /\ ~Stands(p, Just("uncounted"))
  BY <1>1, EndsOfBody DEF Init, Stands
<1>5. PlainInv
  <2>1. numReader = 0 /\ readOpen = FALSE /\ seen \in [Procs -> {0, 1}]
    BY DEF Init
  <2>2. ASSUME NEW p \in Procs
        PROVE  /\ numReader = 1 <=> IsCounted(path[p], pc[p])
               /\ readOpen <=> HasOpened(path[p], pc[p])
    BY <1>4, <2>1
  <2>. QED BY <1>4, <2>1, <2>2 DEF PlainInv
<1>. QED BY <1>2, <1>3, <1>5 DEF Init, IInv, Shape

(* Each semaphore is what its readers and writers make it: a mutex is free *)
(* when nobody is at a reader's entry or exit, a counter counts who has    *)
(* entered and not left, and wrt is free when nobody reads or writes.      *)
THEOREM DemosInvariant == OneReader => (Spec => []IInv)
<1> SUFFICES ASSUME OneReader PROVE Spec => []IInv
  OBVIOUS
<1>. QED BY InvInit, InvNext, PTL DEF Spec

----------------------------------------------------------------------------
(* What the invariant gives *)

LEMMA BinarySequence ==
    ASSUME NEW s \in Seq([Locks -> Int]), NEW T, \A g \in 1..Len(s), l \in Locks : s[g][l] \in T
    PROVE  s \in Seq([Locks -> T])
<1>1. \A g \in 1..Len(s) : s[g] \in [Locks -> T]
  <2> SUFFICES ASSUME NEW g \in 1..Len(s) PROVE s[g] \in [Locks -> T]
    OBVIOUS
  <2>1. s[g] \in [Locks -> Int]
    OBVIOUS
  <2>. QED BY <2>1
<1>2. s \in [1..Len(s) -> [Locks -> T]] /\ Len(s) \in Nat
  BY <1>1
<1>3. PICK n \in Nat : s \in [1..n -> [Locks -> T]]
  BY <1>2
<1>4. s \in UNION {[1..m -> [Locks -> T]] : m \in Nat}
  BY <1>3
<1>. QED BY <1>4, SeqDef

LEMMA TypeFollows == ASSUME IInv PROVE TypeOK
<1>1. Places /\ Semaphores /\ PlainInv /\ Shape
  BY DEF IInv, Shape
<1>2. ASSUME NEW g \in 1..Len(wrt), NEW l \in Locks
      PROVE  /\ wrt[g][l] \in {0, 1} /\ mutex[g][l] \in {0, 1}
             /\ counter[g][l] \in 0..Cardinality(Procs)
  <2>1. LockInv(g, l)
    BY DEF IInv, Generations
  <2>2. CountedBy(g, l) \subseteq Procs
    BY DEF CountedBy, Of
  <2>3. Cardinality(CountedBy(g, l)) \in 0..Cardinality(Procs)
    BY <2>2, ProcsAssumption, FS_Subset, FS_CardinalityType
  <2>. QED BY <2>1, <2>3 DEF LockInv, MutexInv, WriterInv, CountInv
<1>3. wrt \in Seq([Locks -> {0, 1}]) /\ mutex \in Seq([Locks -> {0, 1}])
  BY <1>1, <1>2, BinarySequence DEF Semaphores
<1>4. counter \in Seq([Locks -> 0..Cardinality(Procs)])
  BY <1>1, <1>2, BinarySequence DEF Semaphores
<1>5. ASSUME NEW p \in Procs PROVE seen[p] \in -1..Cardinality(Procs)
  <2>1. Cardinality(Procs) \in Nat /\ Cardinality(Procs) # 0
    BY <1>5, ProcsAssumption, FS_EmptySet, FS_CardinalityType
  <2>2. seen[p] \in {0, 1}
    BY <1>1 DEF PlainInv
  <2>. QED BY <2>1, <2>2
<1>6. \A p \in Procs : fresh[p] \subseteq Files
  BY <1>1 DEF Shape
<1>. QED BY <1>1, <1>3, <1>4, <1>5, <1>6 DEF TypeOK, Places, Semaphores, PlainInv

(* The semaphores stay binary, the counters between 0 and the number of    *)
(* processes, whatever the programs are stopped in.                        *)
THEOREM TypeCorrect == OneReader => (Spec => []TypeOK)
<1> SUFFICES ASSUME OneReader PROVE Spec => []TypeOK
  OBVIOUS
<1>. QED BY DemosInvariant, TypeFollows, PTL

----------------------------------------------------------------------------
(* Files *)

(* Who stands at a step on a file has its lock, to read or to write.       *)
LEMMA FileSteps ==
    ASSUME Places, NEW p \in Procs, NEW f \in Files, NEW l \in Locks,
           \A b \in Bodies : Guards(l, f, b)
    PROVE  /\ Stands(p, On("read", f)) => Writes(p, l) \/ Reads(p, l)
           /\ Stands(p, On("truncate", f)) => Writes(p, l)
           /\ Stands(p, On("flush", f)) => Writes(p, l)
           /\ Stands(p, On("truncate", f)) =>
                Since(path[p], pc[p], On("read", f), On("wait", l))
<1> DEFINE b == path[p]
           i == pc[p]
<1>1. Guards(l, f, b) /\ (i <= Len(b) => i \in 1..Len(b))
  BY BodyFacts
<1>2. Stands(p, On("read", f)) => ~Stands(p, On("admit", l))
  BY OneStep
<1>3. ASSUME Stands(p, On("read", f)) PROVE l \in Held(b, i) \cup Entered(b, i)
  BY <1>1, <1>3 DEF Guards, Stands
<1>4. ASSUME Stands(p, On("truncate", f)) \/ Stands(p, On("flush", f)) PROVE l \in Held(b, i)
  BY <1>1, <1>4 DEF Guards, Stands
<1>5. ASSUME Stands(p, On("truncate", f)) PROVE Since(b, i, On("read", f), On("wait", l))
  BY <1>1, <1>5 DEF Guards, Stands
<1>. QED BY <1>2, <1>3, <1>4, <1>5 DEF Writes, Reads, Entering

LEMMA WholeFollows == ASSUME IInv PROVE WholeFiles
<1> SUFFICES ASSUME NEW p \in Procs, NEW q \in Procs, NEW f \in Files,
                    p # q, mine[p] = mine[q], Stands(p, On("flush", f)),
                    NEW o \in {"read", "truncate", "flush"}, At(q, o, f)
             PROVE  FALSE
  BY DEF WholeFiles
<1>1. PICK l \in Locks : \A b \in Bodies : Guards(l, f, b)
  BY GuardsAssumption
<1>2. PICK g : g = mine[q]
  OBVIOUS
<1>3. Shape /\ Places /\ g \in Generations /\ p \in Of(g) /\ q \in Of(g)
  BY <1>2, RunningHas DEF IInv, Shape, At, Of
<1>4. Writes(p, l)
  BY <1>1, <1>3, FileSteps
<1>5. Writes(q, l) \/ Reads(q, l)
  BY <1>1, <1>3, FileSteps DEF At
<1>6. WriterInv(g, l)
  BY <1>3 DEF IInv, LockInv
<1>. QED BY <1>3, <1>4, <1>5, <1>6 DEF WriterInv

(* No process reads or rewrites a file that another of its generation has  *)
(* emptied and not yet written: whoever rewrites it has its lock alone.    *)
THEOREM FilesWhole == OneReader => (Spec => []WholeFiles)
<1> SUFFICES ASSUME OneReader PROVE Spec => []WholeFiles
  OBVIOUS
<1>. QED BY DemosInvariant, WholeFollows, PTL

----------------------------------------------------------------------------
(* Updates: CopyInv is inductive once IInv holds *)

LEMMA OneGenerationBefore ==
    ASSUME Places, \A q \in Procs : mine'[q] = mine[q] \/ mine[q] = 0, OneGeneration'
    PROVE  OneGeneration
BY DEF OneGeneration

(* A step of a body keeps what it read; what a writer makes outdated, no   *)
(* other process is about to write.                                        *)
LEMMA CopyMoves ==
    ASSUME IInv, CopyInv, NEW p \in Procs, Moves(p),
           fresh[p] \subseteq fresh'[p],
           \A f \in Files : Stands(p, On("read", f)) => f \in fresh'[p],
           \A q \in Procs, f \in Files :
               q # p /\ f \in fresh[q] => f \in fresh'[q] \/ Stands(p, On("flush", f))
    PROVE  CopyInv'
<1> SUFFICES ASSUME OneGeneration', NEW q \in Procs, NEW f \in Files, NEW l \in Locks,
                    \A b \in Bodies : Guards(l, f, b), Writes(q, l)',
                    Since(path'[q], pc'[q], On("read", f), On("wait", l))
             PROVE  f \in fresh'[q]
  BY DEF CopyInv, Guards, Held, Entered, Since
<1>1. /\ Shape /\ Places /\ mine' = mine /\ path' = path /\ Running(p)
      /\ pc' = [pc EXCEPT ![p] = pc[p] + 1] /\ pc[p] <= Len(path[p])
  BY DEF IInv, Shape, Moves
<1>2. OneGeneration
  BY <1>1, OneGenerationBefore
<1>3. CASE q = p
  <2>1. pc'[p] = pc[p] + 1 /\ pc[p] \in Nat /\ pc[p] >= 1
    BY <1>1, BodyFacts DEF Places
  <2>2. \/ path[p][pc[p]] = On("read", f)
        \/ /\ Since(path[p], pc[p], On("read", f), On("wait", l))
           /\ path[p][pc[p]] # On("wait", l)
    <3>1. PICK b : b = path[p]
      OBVIOUS
    <3>2. PICK i \in Nat : i = pc[p] /\ i >= 1
      BY <2>1
    <3>3. Since(b, i + 1, On("read", f), On("wait", l))
      BY <1>1, <1>3, <2>1, <3>1, <3>2
    <3>4. b[i] = On("read", f)
            \/ (Since(b, i, On("read", f), On("wait", l)) /\ b[i] # On("wait", l))
      BY <3>2, <3>3, SinceStep
    <3>. QED BY <3>1, <3>2, <3>4
  <2>3. CASE path[p][pc[p]] = On("read", f)
    BY <1>1, <1>3, <2>3 DEF Stands
  <2>4. CASE /\ Since(path[p], pc[p], On("read", f), On("wait", l))
             /\ path[p][pc[p]] # On("wait", l)
    <3>1. Writes(p, l)
      BY <1>1, <1>3, <2>4, StepEffect DEF Stands
    <3>. QED BY <1>2, <1>3, <2>4, <3>1 DEF CopyInv
  <2>. QED BY <2>2, <2>3, <2>4
<1>4. CASE q # p
  <2>1. path'[q] = path[q] /\ pc'[q] = pc[q] /\ Writes(q, l)
    BY <1>1, <1>4, StepEffect DEF Places
  <2>2. f \in fresh[q]
    BY <1>2, <2>1 DEF CopyInv
  <2>3. ASSUME Stands(p, On("flush", f)) PROVE FALSE
    <3>1. Writes(p, l)
      BY <1>1, <2>3, FileSteps
    <3>2. mine[q] # 0
      <4>1. pc[q] # 1
        BY <2>1, SinceFirst DEF Writes
      <4>. QED BY <1>1, <4>1 DEF Places
    <3>3. PICK g : g = mine[p]
      OBVIOUS
    <3>4. g \in Generations /\ mine[q] = g
      BY <1>1, <1>2, <3>2, <3>3, RunningHas DEF OneGeneration, Places, Running
    <3>5. WriterInv(g, l) /\ p \in Of(g) /\ q \in Of(g)
      BY <3>3, <3>4 DEF IInv, LockInv, Of
    <3>. QED BY <1>4, <2>1, <3>1, <3>5 DEF WriterInv
  <2>. QED BY <1>4, <2>2, <2>3
<1>. QED BY <1>3, <1>4

(* A process that starts or goes round has read nothing.                   *)
LEMMA CopyRests ==
    ASSUME Places, CopyInv, NEW p \in Procs,
           \A q \in Procs : mine'[q] = mine[q] \/ mine[q] = 0,
           pc'[p] = 1,
           \A q \in Procs : q # p =>
               path'[q] = path[q] /\ pc'[q] = pc[q] /\ fresh'[q] = fresh[q]
    PROVE  CopyInv'
<1> SUFFICES ASSUME OneGeneration', NEW q \in Procs, NEW f \in Files, NEW l \in Locks,
                    \A b \in Bodies : Guards(l, f, b), Writes(q, l)',
                    Since(path'[q], pc'[q], On("read", f), On("wait", l))
             PROVE  f \in fresh'[q]
  BY DEF CopyInv, Guards, Held, Entered, Since
<1>1. OneGeneration
  BY OneGenerationBefore
<1>2. q # p
  BY SinceFirst
<1>3. Writes(q, l)
  BY <1>2 DEF Writes, Held, Entered
<1>. QED BY <1>1, <1>2, <1>3 DEF CopyInv

LEMMA CopyNext == ASSUME IInv, CopyInv, OneReader, [Next]_vars PROVE CopyInv'
<1>1. Shape /\ Places /\ fresh \in [Procs -> SUBSET Files]
  BY DEF IInv, Shape
<1>2. ASSUME UNCHANGED <<path, pc, mine, fresh>> PROVE CopyInv'
  BY <1>2 DEF CopyInv, OneGeneration, Writes, Held, Since, Guards, Entered
<1>3. ASSUME NEW p \in Procs, Moves(p), fresh' = fresh,
             \A f \in Files : ~Stands(p, On("read", f))
      PROVE  CopyInv'
  BY <1>3, CopyMoves
<1>4. ASSUME NEW p \in Procs, NEW l \in Locks, LockStep(p, l) PROVE CopyInv'
  <2>1. Moves(p) /\ fresh' = fresh
    BY <1>1, <1>4, LockStepFacts
  <2>2. \E o \in LockOps : Stands(p, On(o, l))
    BY <1>4 DEF LockStep, Arrive, Admit, Leave, Left, Wait, Post, At, LockOps
  <2>3. \A f \in Files : ~Stands(p, On("read", f))
    BY <2>2, OneStep DEF LockOps
  <2>. QED BY <1>3, <2>1, <2>3
<1>5. ASSUME NEW p \in Procs, PlainStep(p) PROVE CopyInv'
  <2>1. Moves(p) /\ fresh' = fresh
    BY <1>1, <1>5, PlainStepInv
  <2>2. PICK o \in {"count", "counted", "first", "open", "spin",
                    "uncount", "uncounted", "last", "close"} : Stands(p, Just(o))
    BY <1>5 DEF PlainStep, LoadCount, StoreCount, Test, SetOpen, SpinUntilOpen, AtStep
  <2>3. \A f \in Files : ~Stands(p, On("read", f))
    BY <2>2, OtherKinds
  <2>. QED BY <1>3, <2>1, <2>3
<1>6. ASSUME NEW p \in Procs, NEW f \in Files, Truncate(p, f) PROVE CopyInv'
  <2>1. Moves(p) /\ fresh' = fresh /\ Stands(p, On("truncate", f))
    BY <1>1, <1>6, FileStepInv DEF FileStep, Truncate, At
  <2>2. \A u \in Files : ~Stands(p, On("read", u))
    BY <2>1, OneStep
  <2>. QED BY <1>3, <2>1, <2>2
<1>7. ASSUME NEW p \in Procs, NEW f \in Files, Read(p, f) PROVE CopyInv'
  <2>1. /\ Moves(p) /\ Stands(p, On("read", f))
        /\ fresh' = [fresh EXCEPT ![p] = @ \cup {f}]
    BY <1>1, <1>7, FileStepInv DEF FileStep, Read, At
  <2>2. \A u \in Files : Stands(p, On("read", u)) => u = f
    BY <2>1, OneStep
  <2>3. /\ fresh'[p] = fresh[p] \cup {f}
        /\ \A q \in Procs : q # p => fresh'[q] = fresh[q]
    BY <1>1, <2>1
  <2>. QED BY <2>1, <2>2, <2>3, CopyMoves
<1>8. ASSUME NEW p \in Procs, NEW f \in Files, Flush(p, f) PROVE CopyInv'
  <2>1. /\ Moves(p) /\ Stands(p, On("flush", f))
        /\ fresh' = [q \in Procs |-> IF q = p THEN fresh[q] ELSE fresh[q] \ {f}]
    BY <1>1, <1>8, FileStepInv DEF FileStep, Flush, At
  <2>2. \A u \in Files : ~Stands(p, On("read", u))
    BY <2>1, OneStep
  <2>3. \A q \in Procs, u \in Files :
            q # p /\ u \in fresh[q] => u \in fresh'[q] \/ Stands(p, On("flush", u))
    BY <2>1
  <2>. QED BY <2>1, <2>2, <2>3, CopyMoves
<1>9. ASSUME NEW p \in Procs, Start(p) \/ Again(p) PROVE CopyInv'
  <2>1. \A q \in Procs : mine'[q] = mine[q] \/ mine[q] = 0
    BY <1>1, <1>9 DEF Start, Again, Places
  <2>2. pc'[p] = 1
    BY <1>1, <1>9 DEF Start, Again, Places
  <2>3. \A q \in Procs : q # p =>
            path'[q] = path[q] /\ pc'[q] = pc[q] /\ fresh'[q] = fresh[q]
    BY <1>1, <1>9 DEF Start, Again, Places
  <2>. QED BY <1>1, <2>1, <2>2, <2>3, CopyRests
<1>10. ASSUME NEW p \in Procs, Kill(p) \/ End(p) PROVE CopyInv'
  BY <1>2, <1>10 DEF Kill, End
<1>11. CASE UNCHANGED vars
  BY <1>2, <1>11 DEF vars
<1>. QED BY <1>4, <1>5, <1>6, <1>7, <1>8, <1>9, <1>10, <1>11
         DEF Next, Step, PlainStep, LockStep

LEMMA CopyInit == Init => CopyInv
<1>1. ASSUME Init PROVE \A p \in Procs, l \in Locks : ~Writes(p, l)
  <2>1. \A p \in Procs : path[p] = <<>> /\ pc[p] = 1
    BY <1>1 DEF Init
  <2>2. Held(<<>>, 1) = {}
    BY SinceFirst
  <2>. QED BY <2>1, <2>2 DEF Writes
<1>. QED BY <1>1 DEF CopyInv

LEMMA NothingLost == ASSUME IInv, CopyInv PROVE NoLostUpdate
<1> SUFFICES ASSUME OneGeneration, NEW p \in Procs, NEW f \in Files, At(p, "truncate", f)
             PROVE  f \in fresh[p]
  BY DEF NoLostUpdate
<1>1. PICK l \in Locks : \A b \in Bodies : Guards(l, f, b)
  BY GuardsAssumption
<1>2. Places /\ Stands(p, On("truncate", f))
  BY DEF IInv, Shape, At
<1>3. Writes(p, l) /\ Since(path[p], pc[p], On("read", f), On("wait", l))
  BY <1>1, <1>2, FileSteps
<1>. QED BY <1>1, <1>3 DEF CopyInv

(* A process that is about to rewrite a file has read what the file holds: *)
(* no other process has written it since.                                  *)
THEOREM UpdatesKept == OneReader => (Spec => []NoLostUpdate)
<1> SUFFICES ASSUME OneReader PROVE Spec => []NoLostUpdate
  OBVIOUS
<1>1. IInv /\ CopyInv /\ [Next]_vars => CopyInv'
  BY CopyNext
<1>. QED BY <1>1, CopyInit, NothingLost, DemosInvariant, PTL DEF Spec

----------------------------------------------------------------------------
(* Semaphores at rest *)

LEMMA LeaksFollows == ASSUME IInv PROVE NothingLeaks
<1> SUFFICES ASSUME NEW g \in Generations, NEW l \in Locks,
                    \A p \in Of(g) : Writing(p) \cup Counting(p) = {}
             PROVE  wrt[g][l] = 1 /\ mutex[g][l] = 1 /\ counter[g][l] = 0
  BY DEF NothingLeaks
<1>1. Places /\ LockInv(g, l) /\ Of(g) \subseteq Procs
  BY DEF IInv, Shape, Of
<1>2. \A p \in Of(g) : ~Writes(p, l) /\ ~Entering(p, l)
  BY <1>1, BodyFacts DEF Writes, Entering
<1>3. \A p \in Of(g) : ~InMutex(p, l)
  BY <1>1, <1>2, ReaderFacts DEF InMutex
<1>4. CountedBy(g, l) = {}
  BY <1>2 DEF CountedBy
<1>5. counter[g][l] = 0
  BY <1>1, <1>4, FS_EmptySet DEF LockInv, CountInv
<1>6. wrt[g][l] = 1
  BY <1>1, <1>2 DEF LockInv, WriterInv, Reads
<1>. QED BY <1>1, <1>3, <1>5, <1>6 DEF LockInv, MutexInv

(* When nobody of a generation reads or writes, and nobody was stopped,    *)
(* its semaphores have the values they were created with: whatever the     *)
(* bodies do in between is undone.                                         *)
THEOREM NoLeak == OneReader => (Spec => []NothingLeaks)
<1> SUFFICES ASSUME OneReader PROVE Spec => []NothingLeaks
  OBVIOUS
<1>. QED BY DemosInvariant, LeaksFollows, PTL

----------------------------------------------------------------------------
(* Deadlock.  Suppose that all the running processes of a generation are   *)
(* blocked.  Then some wrt is 0; take one of the highest rank.  A process  *)
(* reads or writes under it, runs, is blocked, and what it waits for in    *)
(* the end is a wrt of a higher rank.                                      *)

Stuck(g) ==
    /\ Of(g) \cap Killed = {}
    /\ \A p \in Of(g) : Running(p) => Blocked(p) /\ prog[p] # "dlCompOrderNU"

(* Who is not at rest runs: nobody was stopped.                            *)
LEMMA RestlessRuns ==
    ASSUME IInv, NEW g \in Generations, Stuck(g), NEW p \in Of(g), NEW l \in Locks,
           InMutex(p, l) \/ Writes(p, l) \/ Entering(p, l)
    PROVE  Running(p)
<1>1. Places /\ Semaphores /\ p \in Procs /\ mine[p] = g
  BY DEF IInv, Shape, Of
<1>2. g # 0
  BY <1>1 DEF Generations, Semaphores
<1>3. state[p] \in {"running", "ended"}
  BY <1>1, <1>2 DEF Places, Stuck, Killed, Of
<1>4. ASSUME state[p] = "ended" PROVE FALSE
  <2>1. AtEnd(p) /\ path[p] \in Bodies
    BY <1>1, <1>4 DEF Places, AtEnd
  <2>2. AtRest(p)
    BY <1>1, <2>1, RestAtEnds
  <2>. QED BY <2>2 DEF AtRest
<1>. QED BY <1>3, <1>4 DEF Running

(* The one reader has let itself in before it spins, so only semaphores    *)
(* block.                                                                  *)
LEMMA BlockedAt ==
    ASSUME IInv, OneReader, NEW g \in Generations, Stuck(g), NEW p \in Of(g), Running(p)
    PROVE  \E v \in Locks :
             \/ (Stands(p, On("arrive", v)) \/ Stands(p, On("leave", v))) /\ mutex[g][v] = 0
             \/ Stands(p, On("admit", v)) /\ counter[g][v] = 1 /\ wrt[g][v] = 0
             \/ Stands(p, On("wait", v)) /\ wrt[g][v] = 0
<1>1. Places /\ PlainInv /\ p \in Procs /\ mine[p] = g /\ Blocked(p)
  BY DEF IInv, Shape, Of, Stuck
<1>2. ASSUME AtStep(p, "spin"), ~readOpen PROVE FALSE
  <2>1. Stands(p, Just("spin")) /\ Just("spin") \in PlainSteps
    BY <1>2 DEF AtStep, PlainSteps
  <2>2. UsesPlain(prog[p])
    BY <1>1, <2>1, TheReader
  <2>3. HasOpened(path[p], pc[p])
    <3>1. /\ CountsItself(path[p]) /\ pc[p] \in 1..Len(path[p])
          /\ path[p][pc[p]] = Just("spin")
      BY <1>1, <2>1, BodyFacts DEF Stands
    <3>. QED BY <3>1 DEF CountsItself
  <2>. QED BY <1>1, <1>2, <2>2, <2>3 DEF PlainInv
<1>. QED BY <1>1, <1>2 DEF Blocked, At

(* Who has the mutex of a lock waits for its wrt.                          *)
LEMMA MutexHolderWaits ==
    ASSUME IInv, OneReader, NEW g \in Generations, Stuck(g), NEW l \in Locks, mutex[g][l] = 0
    PROVE  \E q \in Of(g) : Stands(q, On("admit", l)) /\ counter[g][l] = 1 /\ wrt[g][l] = 0
<1>1. MutexInv(g, l)
  BY DEF IInv, LockInv
<1>2. PICK q \in Of(g) : InMutex(q, l)
  BY <1>1 DEF MutexInv
<1>3. PICK v \in Locks :
        \/ (Stands(q, On("arrive", v)) \/ Stands(q, On("leave", v))) /\ mutex[g][v] = 0
        \/ Stands(q, On("admit", v)) /\ counter[g][v] = 1 /\ wrt[g][v] = 0
        \/ Stands(q, On("wait", v)) /\ wrt[g][v] = 0
  BY <1>2, RestlessRuns, BlockedAt
<1>4. Stands(q, On("admit", l)) /\ v = l
  BY <1>2, <1>3, OneStep DEF InMutex
<1>. QED BY <1>3, <1>4, OneStep

(* The body of a process of a stuck generation takes its locks in order.   *)
LEMMA OrderKept ==
    ASSUME IInv, NEW g \in Generations, Stuck(g), NEW p \in Of(g), Running(p),
           NEW i \in 1..Len(path[p]), NEW v \in Locks,
           path[p][i] \in {On("wait", v), On("arrive", v)}
    PROVE  \A u \in Held(path[p], i) \cup Entered(path[p], i) : Rank(u) < Rank(v)
<1>1. p \in Procs /\ Places /\ prog[p] # "dlCompOrderNU"
  BY DEF IInv, Shape, Of, Stuck
<1>2. prog[p] \in DOMAIN Programs
  BY <1>1, ScenariosAssumption DEF Places
<1>3. path[p] # <<>>
  OBVIOUS
<1>4. path[p] \in Programs[prog[p]].bodies
  BY <1>1, <1>3 DEF Places, Program
<1>5. TakesInOrder(path[p])
  BY <1>1, <1>2, <1>4, OrderAssumption
<1>. QED BY <1>5 DEF TakesInOrder

LEMMA BlockedWaitsAbove ==
    ASSUME IInv, OneReader, NEW g \in Generations, Stuck(g), NEW p \in Of(g), Running(p)
    PROVE  \E v \in Locks :
             /\ wrt[g][v] = 0
             /\ \A u \in Locks : Writes(p, u) \/ Reads(p, u) => Rank(u) < Rank(v)
<1> DEFINE b == path[p]
           i == pc[p]
<1>1. PICK v \in Locks :
        \/ (Stands(p, On("arrive", v)) \/ Stands(p, On("leave", v))) /\ mutex[g][v] = 0
        \/ Stands(p, On("admit", v)) /\ counter[g][v] = 1 /\ wrt[g][v] = 0
        \/ Stands(p, On("wait", v)) /\ wrt[g][v] = 0
  BY BlockedAt
<1>2. /\ Places /\ p \in Procs /\ b \in Seq(Steps) /\ LocksMatched(b)
      /\ Len(b) \in Nat /\ i \in Nat /\ i >= 1 /\ (i <= Len(b) => i \in 1..Len(b))
  BY BodyFacts DEF IInv, Shape, Of
<1>3. CASE Stands(p, On("wait", v)) /\ wrt[g][v] = 0
  BY <1>2, <1>3, OrderKept DEF Stands, Writes, Reads, Entering
<1>4. CASE Stands(p, On("arrive", v)) /\ mutex[g][v] = 0
  <2>1. wrt[g][v] = 0
    BY <1>4, MutexHolderWaits
  <2>. QED BY <1>2, <1>4, <2>1, OrderKept DEF Stands, Writes, Reads, Entering
<1>5. CASE Stands(p, On("admit", v)) /\ wrt[g][v] = 0
  <2>1. i \in 1..Len(b) /\ b[i] = On("admit", v) /\ Paired(b, On("arrive", v), On("admit", v))
    BY <1>2, <1>5 DEF Stands, LocksMatched
  <2>2. i > 1 /\ b[i - 1] = On("arrive", v)
    BY <2>1 DEF Paired
  <2>3. PICK j \in Nat : j >= 1 /\ j = i - 1 /\ j + 1 = i /\ j \in 1..Len(b)
    BY <1>2, <2>1, <2>2
  <2>4. ASSUME NEW u \in Locks, Writes(p, u) \/ Reads(p, u)
        PROVE  u \in Held(b, j) \cup Entered(b, j)
    <3>1. u \in Held(b, j + 1) \/ (u \in Entered(b, j + 1) /\ u # v)
      BY <1>5, <2>3, <2>4 DEF Writes, Reads, Entering
    <3>2. b[j] # On("wait", u) /\ (b[j] = On("arrive", u) => u = v)
      BY <2>2, <2>3, OnInjective
    <3>. QED BY <2>3, <3>1, <3>2, HeldStep
  <2>. QED BY <1>5, <2>2, <2>3, <2>4, OrderKept
<1>6. CASE Stands(p, On("leave", v)) /\ mutex[g][v] = 0
  <2>1. PICK q \in Of(g) : Stands(q, On("admit", v)) /\ counter[g][v] = 1
    BY <1>6, MutexHolderWaits
  <2>2. q \in Procs /\ Entering(q, v) /\ Entering(p, v) /\ q # p
    BY <1>2, <1>6, <2>1, ReaderFacts, OneStep DEF Of
  <2>3. ~Stands(q, On("left", v)) /\ ~Stands(p, On("left", v))
    BY <1>6, <2>1, OneStep
  <2>4. p \in CountedBy(g, v) /\ q \in CountedBy(g, v)
    BY <2>2, <2>3 DEF CountedBy
  <2>5. IsFiniteSet(CountedBy(g, v)) /\ Cardinality(CountedBy(g, v)) = 1
    <3>1. CountedBy(g, v) \subseteq Procs /\ CountInv(g, v)
      BY DEF CountedBy, Of, IInv, LockInv
    <3>. QED BY <2>1, <3>1, ProcsAssumption, FS_Subset DEF CountInv
  <2>6. /\ IsFiniteSet(CountedBy(g, v) \ {p})
        /\ Cardinality(CountedBy(g, v) \ {p}) = 0
    BY <2>4, <2>5, FS_RemoveElement
  <2>7. CountedBy(g, v) \ {p} = {}
    BY <2>6, FS_EmptySet
  <2>. QED BY <2>2, <2>4, <2>7
<1>. QED BY <1>1, <1>3, <1>4, <1>5, <1>6

(* A non-empty set of locks has one of the highest rank.                   *)
LEMMA HighestRank ==
    ASSUME NEW S, S # {}
    PROVE  \E m \in S : \A v \in S : Rank(v) <= Rank(m)
<1>1. \A v \in S : Rank(v) \in 1..5
  BY DEF Rank
<1>2. CASE \E m \in S : Rank(m) = 5
  BY <1>1, <1>2
<1>3. CASE (\E m \in S : Rank(m) = 4) /\ \A v \in S : Rank(v) <= 4
  BY <1>1, <1>3
<1>4. CASE (\E m \in S : Rank(m) = 3) /\ \A v \in S : Rank(v) <= 3
  BY <1>1, <1>4
<1>5. CASE (\E m \in S : Rank(m) = 2) /\ \A v \in S : Rank(v) <= 2
  BY <1>1, <1>5
<1>6. CASE \A v \in S : Rank(v) <= 1
  BY <1>1, <1>6
<1>. QED BY <1>1, <1>2, <1>3, <1>4, <1>5, <1>6

LEMMA ProgressFollows == ASSUME IInv, OneReader PROVE NotAllWait
<1> SUFFICES ASSUME NEW g \in Generations, Stuck(g), NEW p \in Of(g), Running(p)
             PROVE  FALSE
  BY DEF NotAllWait, Stuck
<1> DEFINE S == {v \in Locks : wrt[g][v] = 0}
<1>1. S # {}
  BY BlockedWaitsAbove
<1>2. PICK m \in S : \A v \in S : Rank(v) <= Rank(m)
  BY <1>1, HighestRank
<1>3. WriterInv(g, m)
  BY DEF IInv, LockInv
<1>4. PICK q \in Of(g) : Writes(q, m) \/ Reads(q, m)
  BY <1>2, <1>3 DEF WriterInv
<1>5. Running(q)
  BY <1>2, <1>4, RestlessRuns DEF Reads
<1>6. PICK v \in Locks : wrt[g][v] = 0 /\ Rank(m) < Rank(v)
  BY <1>2, <1>4, <1>5, BlockedWaitsAbove
<1>7. Rank(v) \in Nat /\ Rank(m) \in Nat /\ Rank(v) <= Rank(m)
  BY <1>2, <1>6 DEF Rank
<1>. QED BY <1>6, <1>7

(* The processes of a generation never all wait for each other, unless one *)
(* was stopped or the program runs that takes its locks the other way.     *)
THEOREM NoDeadlock == OneReader => (Spec => []NotAllWait)
<1> SUFFICES ASSUME OneReader PROVE Spec => []NotAllWait
  OBVIOUS
<1>1. IInv => NotAllWait
  BY ProgressFollows
<1>. QED BY <1>1, DemosInvariant, PTL
=============================================================================
